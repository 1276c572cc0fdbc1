-------------------------- MODULE LockQueueProofs ---------------------------
(***************************************************************************)
(* Theorems about CLockQueue for every set of threads, calls and           *)
(* capacities, with their proofs.                                          *)
(***************************************************************************)
EXTENDS LockQueue, FiniteSetTheorems, TLAPS

-----------------------------------------------------------------------------
(* Type correctness and mutual exclusion.                                  *)

MonitorInv == TypeOK /\ MonitorOK

\* Every thread starts outside the monitor.
LEMMA InitMonitor == Init => MonitorInv
BY CapacityAssumption, ThreadsAssumption
   DEF Init, NoReply, MonitorInv, TypeOK, MonitorOK, IsTake, IsPut

\* What a call asks for is a number.
LEMMA NeedOfType ==
    ASSUME TypeOK, NEW c \in Calls
    PROVE  NeedOf(c) \in Nat
BY CallsAssumption DEF TypeOK, NeedOf, CallType, Puts, Takes

\* Waking the sleepers of one condition: who runs where afterwards.
LEMMA SignalPC ==
    ASSUME TypeOK, NEW t \in Threads, pc[t] = "check",
           NEW cond \in {"notEmpty", "notFull"},
           Signal(t, cond) \/ Broadcast(t, cond)
    PROVE  /\ pc' \in [Threads -> {"idle", "lock", "enter", "check", "notEmpty",
                           "notFull", "woken", "expired"}]
           /\ pc'[t] = "idle"
           /\ \A u \in Threads \ {t} :
                 pc'[u] = pc[u] \/ (pc[u] = cond /\ pc'[u] = "woken")
BY DEF TypeOK, Signal, Broadcast, Asleep

\* The three calls that change the queue wake sleepers and return.
LEMMA EffectMonitor ==
    ASSUME MonitorInv, NEW t \in Threads, Push(t) \/ Pop(t) \/ PopAll(t)
    PROVE  MonitorInv'
PROOF
<1>0. TypeOK /\ MonitorOK
  BY DEF MonitorInv
<1>1. pc[t] = "check" /\ owner = t /\ call[t] \in Calls
  BY <1>0 DEF Push, Pop, PopAll, TypeOK, MonitorOK, IsPut, IsTake
<1>2. PICK cond \in {"notEmpty", "notFull"} :
         Signal(t, cond) \/ Broadcast(t, cond)
  BY DEF Push, Pop, PopAll, WakeTakers, WakePutters
<1>3. /\ pc' \in [Threads -> {"idle", "lock", "enter", "check", "notEmpty",
                           "notFull", "woken", "expired"}]
      /\ pc'[t] = "idle"
      /\ \A u \in Threads \ {t} :
            pc'[u] = pc[u] \/ (pc[u] = cond /\ pc'[u] = "woken")
  BY <1>0, <1>1, <1>2, SignalPC
<1>4. con' \in Seq(Values) /\ capacity' \in Nat /\ topSize' \in Nat
  <2>1. CASE Push(t)
    <3>1. call[t] \in Calls /\ call[t].items \in Seq(Values)
      BY <1>1, CallsAssumption DEF CallType
    <3>2. con' \in Seq(Values)
      BY <1>0, <2>1, <3>1 DEF Push, TypeOK
    <3>3. Len(con') \in Nat
      BY <3>2
    <3> QED BY <1>0, <2>1, <3>2, <3>3 DEF Push, TypeOK
  <2>2. CASE Pop(t)
    BY <1>0, <2>2 DEF Pop, TypeOK
  <2>3. CASE PopAll(t)
    BY <1>0, <2>3 DEF PopAll, TypeOK
  <2> QED BY <2>1, <2>2, <2>3
<1>5. /\ owner' = NoThread
      /\ call' = [call EXCEPT ![t] = NoCall]
      /\ need' = [need EXCEPT ![t] = 0]
  BY DEF Push, Pop, PopAll, Result
<1>6. reply' \in [Threads -> [ok : BOOLEAN, items : Seq(Values)]]
  <2>1. <<>> \in Seq(Values)
    OBVIOUS
  <2>2. con # <<>> => <<Head(con)>> \in Seq(Values)
    BY <1>0 DEF TypeOK
  <2>3. \E items \in Seq(Values) :
           reply' = [reply EXCEPT ![t] = [ok |-> TRUE, items |-> items]]
    BY <1>0, <2>1, <2>2 DEF Push, Pop, PopAll, Result, TypeOK
  <2> QED BY <1>0, <2>3 DEF TypeOK
<1>7. TypeOK'
  BY <1>0, <1>3, <1>4, <1>5, <1>6 DEF TypeOK
<1>8. MonitorOK'
  BY <1>0, <1>1, <1>3, <1>5, ThreadsAssumption
     DEF TypeOK, MonitorOK, IsPut, IsTake
<1> QED BY <1>7, <1>8 DEF MonitorInv

\* Every step keeps the types and the monitor's bookkeeping.
LEMMA StepMonitor == MonitorInv /\ [Next]_lqVars => MonitorInv'
PROOF
<1> SUFFICES ASSUME MonitorInv, [Next]_lqVars
             PROVE  MonitorInv'
  OBVIOUS
<1>0. TypeOK /\ MonitorOK
  BY DEF MonitorInv
<1> USE DEF MonitorInv
<1>1. ASSUME NEW t \in Threads, Invoke(t) PROVE MonitorInv'
  BY <1>0, <1>1, CallsAssumption, ThreadsAssumption
     DEF Invoke, TypeOK, MonitorOK, IsPut, IsTake, NoReply
<1>2. ASSUME NEW t \in Threads, PushNothing(t) PROVE MonitorInv'
  BY <1>0, <1>2, CallsAssumption, ThreadsAssumption
     DEF PushNothing, TypeOK, MonitorOK, IsPut, IsTake
<1>3. ASSUME NEW t \in Threads, Lock(t) PROVE MonitorInv'
  <2>1. call[t] \in Calls /\ NeedOf(call[t]) \in Nat
    BY <1>0, <1>3, NeedOfType DEF Lock, TypeOK, MonitorOK
  <2>2. IsPut(t) => NeedOf(call[t]) = Len(call[t].items)
    BY DEF IsPut, NeedOf
  <2> QED BY <1>0, <1>3, <2>1, <2>2, ThreadsAssumption
             DEF Lock, TypeOK, MonitorOK, IsPut, IsTake
<1>4. ASSUME NEW t \in Threads, Enter(t) PROVE MonitorInv'
  <2>1. call[t] \in Calls
    BY <1>0, <1>4 DEF Enter, TypeOK, MonitorOK
  <2>2. IsTake(t) \/ IsPut(t)
    BY <1>4, <2>1, CallsAssumption DEF Enter, IsTake, IsPut, CallType
  <2>3. CASE need[t] > capacity
    <3>1. /\ pc' = [pc EXCEPT ![t] = "idle"] /\ owner = t
          /\ Result(t, FALSE, <<>>)
          /\ UNCHANGED <<con, capacity, topSize>>
      BY <1>0, <1>4, <2>3 DEF Enter, MonitorOK
    <3>2. TypeOK'
      BY <1>0, <3>1 DEF Result, TypeOK
    <3>3. MonitorOK'
      BY <1>0, <3>1, ThreadsAssumption
         DEF Result, TypeOK, MonitorOK, IsPut, IsTake
    <3> QED BY <3>2, <3>3
  <2>4. CASE ~(need[t] > capacity)
    BY <1>0, <1>4, <2>1, <2>2, <2>4, ThreadsAssumption
       DEF Enter, TypeOK, MonitorOK, IsPut, IsTake
  <2> QED BY <2>3, <2>4
<1>5. ASSUME NEW t \in Threads, ResetTopSize(t) PROVE MonitorInv'
  BY <1>0, <1>5, ThreadsAssumption
     DEF ResetTopSize, Result, TypeOK, MonitorOK, IsPut, IsTake
<1>6. ASSUME NEW t \in Threads, Push(t) \/ Pop(t) \/ PopAll(t)
      PROVE MonitorInv'
  BY <1>6, EffectMonitor
<1>7. ASSUME NEW t \in Threads, GiveUp(t) PROVE MonitorInv'
  BY <1>0, <1>7, ThreadsAssumption
     DEF GiveUp, Result, TypeOK, MonitorOK, IsPut, IsTake
<1>8. ASSUME NEW t \in Threads, Block(t) PROVE MonitorInv'
  <2>1. \/ IsPut(t)  /\ pc' = [pc EXCEPT ![t] = "notFull"]
        \/ IsTake(t) /\ pc' = [pc EXCEPT ![t] = "notEmpty"]
    BY <1>8 DEF Block, MustWait, Sleep
  <2> QED BY <1>0, <1>8, <2>1, ThreadsAssumption
             DEF Block, Sleep, TypeOK, MonitorOK, IsPut, IsTake
<1>9. ASSUME NEW t \in Threads, Relock(t) PROVE MonitorInv'
  BY <1>0, <1>9, ThreadsAssumption
     DEF Relock, TypeOK, MonitorOK, IsPut, IsTake
<1>10. ASSUME NEW t \in Threads, Expire(t) PROVE MonitorInv'
  BY <1>0, <1>10, ThreadsAssumption
     DEF Expire, Result, TypeOK, MonitorOK, IsPut, IsTake
<1>11. ASSUME NEW t \in Threads, Timeout(t) \/ SpuriousWakeup(t)
       PROVE MonitorInv'
  BY <1>0, <1>11, ThreadsAssumption
     DEF Timeout, SpuriousWakeup, TypeOK, MonitorOK, IsPut, IsTake
<1>12. CASE SetCapacity
  BY <1>0, <1>12, CapacityAssumption
     DEF SetCapacity, TypeOK, MonitorOK, IsPut, IsTake
<1>13. CASE UNCHANGED lqVars
  BY <1>0, <1>13 DEF lqVars, TypeOK, MonitorOK, IsPut, IsTake
<1> QED
  BY <1>1, <1>2, <1>3, <1>4, <1>5, <1>6, <1>7, <1>8, <1>9, <1>10, <1>11,
     <1>12, <1>13
     DEF Next, Step

\* The variables keep their types: the queue stays a sequence of elements,
\* the counters stay natural numbers.
THEOREM TypeCorrect == Spec => []TypeOK
<1>1. Spec => []MonitorInv
  BY InitMonitor, StepMonitor, PTL DEF Spec
<1> QED BY <1>1, PTL DEF MonitorInv

\* lock_ excludes: whoever looks at con_ or changes it owns lock_, so no two
\* threads are in the critical sections of lock_queue.hh:69-180 at once, and a
\* thread sleeps only on the condition its own call waits for.
THEOREM MutualExclusion == Spec => []MonitorOK
<1>1. Spec => []MonitorInv
  BY InitMonitor, StepMonitor, PTL DEF Spec
<1> QED BY <1>1, PTL DEF MonitorInv

-----------------------------------------------------------------------------
(* No wake-up of a consumer is lost.                                       *)

\* Two facts about counting.
LEMMA OneMore ==
    ASSUME NEW S, NEW T, IsFiniteSet(T), NEW x, x \notin S, S \cup {x} \subseteq T
    PROVE  Cardinality(S) + 1 <= Cardinality(T)
<1>1. IsFiniteSet(S) /\ IsFiniteSet(S \cup {x})
  BY FS_Subset
<1>2. Cardinality(S \cup {x}) = Cardinality(S) + 1
  BY <1>1, FS_AddElement
<1> QED BY <1>2, FS_Subset

\* A set that loses one element at most is smaller by one at most.
LEMMA OneLess ==
    ASSUME NEW S, NEW T, IsFiniteSet(S), IsFiniteSet(T), NEW x,
           S \ {x} \subseteq T
    PROVE  Cardinality(S) - 1 <= Cardinality(T)
<1>1. IsFiniteSet(S \ {x}) /\ Cardinality(S \ {x}) <= Cardinality(T)
  BY FS_RemoveElement, FS_Subset
<1>2. Cardinality(S \ {x}) \in {Cardinality(S), Cardinality(S) - 1}
  BY FS_RemoveElement
<1> QED BY <1>1, <1>2, FS_CardinalityType

\* The awake threads are finitely many, before and after a step.
LEMMA AwakeFinite ==
    /\ IsFiniteSet(AwakeTakers)  /\ Cardinality(AwakeTakers) \in Nat
    /\ IsFiniteSet(AwakePutters) /\ Cardinality(AwakePutters) \in Nat
    /\ IsFiniteSet(AwakeTakers')  /\ Cardinality(AwakeTakers') \in Nat
    /\ IsFiniteSet(AwakePutters') /\ Cardinality(AwakePutters') \in Nat
BY ThreadsAssumption, FS_Subset, FS_CardinalityType
   DEF AwakeTakers, AwakePutters

\* A step that adds no element, puts no consumer to sleep and takes no awake
\* consumer away does no harm.
LEMMA CalmForTakers ==
    ASSUME MonitorInv, PopWakeups, con' = con,
           Asleep("notEmpty")' \subseteq Asleep("notEmpty"),
           AwakeTakers \subseteq AwakeTakers'
    PROVE  PopWakeups'
<1>1. Cardinality(AwakeTakers) <= Cardinality(AwakeTakers')
  BY AwakeFinite, FS_Subset
<1>2. Len(con) \in Nat
  BY DEF MonitorInv, TypeOK
<1> QED BY <1>1, <1>2, AwakeFinite DEF PopWakeups

\* An empty queue owes nobody a wake-up.
LEMMA EmptyForTakers ==
    ASSUME con' = <<>>
    PROVE  PopWakeups'
BY AwakeFinite DEF PopWakeups

\* What push, pushFront and pushAll make of the queue.
LEMMA PushLength ==
    ASSUME MonitorInv, NEW t \in Threads, Push(t)
    PROVE  /\ Len(con') = Len(con) + Len(call[t].items)
           /\ Len(con') = Len(con) + need[t]
           /\ Len(con) + need[t] <= capacity
           /\ con' \in Seq(Values) /\ Len(con) \in Nat
           /\ need[t] \in Nat
<1>0. TypeOK /\ MonitorOK /\ call[t] \in Calls /\ pc[t] = "check" /\ IsPut(t)
  BY DEF MonitorInv, TypeOK, MonitorOK, Push, IsPut
<1>1. call[t].items \in Seq(Values) /\ need[t] = Len(call[t].items)
  BY <1>0, CallsAssumption DEF CallType, MonitorOK
<1>2. con \in Seq(Values) /\ need[t] \in Nat
  BY <1>0 DEF TypeOK
<1>3. \/ con' = call[t].items \o con
      \/ con' = con \o call[t].items
  BY DEF Push
<1>5. con' \in Seq(Values) /\ Len(con') = Len(con) + Len(call[t].items)
  <2>1. CASE con' = call[t].items \o con
    BY <1>1, <1>2, <2>1
  <2>2. CASE con' = con \o call[t].items
    BY <1>1, <1>2, <2>2
  <2> QED BY <1>3, <2>1, <2>2
<1>6. Len(con) + need[t] <= capacity
  BY DEF Push, HasRoom
<1> QED BY <1>1, <1>2, <1>5, <1>6

\* push brings one element and one consumer; pushAll leaves no sleeper.
LEMMA PushForTakers ==
    ASSUME MonitorInv, PopWakeups, NEW t \in Threads, Push(t)
    PROVE  PopWakeups'
<1>0. TypeOK /\ MonitorOK /\ call[t] \in Calls /\ pc[t] = "check" /\ IsPut(t)
  BY DEF MonitorInv, TypeOK, MonitorOK, Push, IsPut
<1>1. CASE call[t].op = "pushAll"
  BY <1>0, <1>1 DEF Push, WakeTakers, Broadcast, Asleep, TypeOK, PopWakeups
<1>2. CASE call[t].op # "pushAll"
  <2>0. Signal(t, "notEmpty")
    BY <1>2 DEF Push, WakeTakers
  <2>1. CASE Asleep("notEmpty") = {}
    BY <1>0, <2>0, <2>1 DEF Signal, Asleep, TypeOK, PopWakeups
  <2>2. CASE Asleep("notEmpty") # {}
    <3>1. PICK u \in Asleep("notEmpty") :
             pc' = [pc EXCEPT ![t] = "idle", ![u] = "woken"]
      BY <2>0, <2>2 DEF Signal
    <3>2. u # t /\ u \in Threads /\ IsTake(u) /\ pc[u] = "notEmpty"
      BY <1>0, <3>1 DEF Asleep, MonitorOK
    <3>3. call' = [call EXCEPT ![t] = NoCall]
      BY DEF Push, Result
    <3>4. AwakeTakers \cup {u} \subseteq AwakeTakers' /\ u \notin AwakeTakers
      BY <1>0, <3>1, <3>2, <3>3
         DEF AwakeTakers, IsTake, IsPut, Puts, Takes, TypeOK
    <3>5. Cardinality(AwakeTakers) + 1 <= Cardinality(AwakeTakers')
      BY <3>4, OneMore, AwakeFinite
    <3>6. Len(call[t].items) = 1 /\ call[t].items \in Seq(Values)
      BY <1>0, <1>2, CallsAssumption DEF CallType, IsPut, Puts
    <3>7. Len(con') = Len(con) + 1
      BY <3>6, PushLength
    <3>8. Len(con) \in Nat
      BY <1>0 DEF TypeOK
    <3> QED BY <2>2, <3>5, <3>7, <3>8, AwakeFinite DEF PopWakeups
  <2> QED BY <2>1, <2>2
<1> QED BY <1>1, <1>2

\* pop takes one element and is one consumer less.
LEMMA PopForTakers ==
    ASSUME MonitorInv, PopWakeups, NEW t \in Threads, Pop(t)
    PROVE  PopWakeups'
<1>0. TypeOK /\ MonitorOK /\ pc[t] = "check" /\ IsTake(t)
  BY DEF MonitorInv, Pop
<1>1. Signal(t, "notFull") /\ call' = [call EXCEPT ![t] = NoCall]
  BY DEF Pop, WakePutters, Result
<1>2. /\ pc' \in [Threads -> {"idle", "lock", "enter", "check", "notEmpty",
                           "notFull", "woken", "expired"}]
      /\ pc'[t] = "idle"
      /\ \A u \in Threads \ {t} :
            pc'[u] = pc[u] \/ (pc[u] = "notFull" /\ pc'[u] = "woken")
  BY <1>0, <1>1, SignalPC
<1>3. Asleep("notEmpty")' \subseteq Asleep("notEmpty")
  BY <1>2 DEF Asleep
<1>4. AwakeTakers \ {t} \subseteq AwakeTakers'
  BY <1>0, <1>1, <1>2 DEF AwakeTakers, IsTake, TypeOK
<1>5. Cardinality(AwakeTakers) - 1 <= Cardinality(AwakeTakers')
  BY <1>4, OneLess, AwakeFinite
<1>6. Len(con') = Len(con) - 1 /\ Len(con) \in Nat
  BY <1>0 DEF Pop, TypeOK
<1> QED BY <1>3, <1>5, <1>6, AwakeFinite DEF PopWakeups

\* One case per action; those that leave con_ alone are calm.
LEMMA StepPopWakeups ==
    MonitorInv /\ PopWakeups /\ [Next]_lqVars => PopWakeups'
PROOF
<1> SUFFICES ASSUME MonitorInv, PopWakeups, [Next]_lqVars
             PROVE  PopWakeups'
  OBVIOUS
<1>0. TypeOK /\ MonitorOK
  BY DEF MonitorInv
<1>1. ASSUME NEW t \in Threads,
             Invoke(t) \/ PushNothing(t) \/ Lock(t) \/ ResetTopSize(t)
      PROVE  PopWakeups'
  <2>1. /\ con' = con
        /\ Asleep("notEmpty")' \subseteq Asleep("notEmpty")
        /\ AwakeTakers \subseteq AwakeTakers'
    BY <1>0, <1>1 DEF Invoke, PushNothing, Lock, ResetTopSize, Result, TypeOK,
                      AwakeTakers, IsTake, Asleep
  <2> QED BY <2>1, CalmForTakers
<1>2. ASSUME NEW t \in Threads,
             Relock(t) \/ Expire(t) \/ Timeout(t) \/ SpuriousWakeup(t)
      PROVE  PopWakeups'
  <2>1. /\ con' = con
        /\ Asleep("notEmpty")' \subseteq Asleep("notEmpty")
        /\ AwakeTakers \subseteq AwakeTakers'
    BY <1>0, <1>2 DEF Relock, Expire, Timeout, SpuriousWakeup, Result, TypeOK,
                      AwakeTakers, IsTake, Asleep
  <2> QED BY <2>1, CalmForTakers
<1>3. ASSUME NEW t \in Threads, Enter(t) PROVE PopWakeups'
  <2>1. /\ con' = con
        /\ Asleep("notEmpty")' \subseteq Asleep("notEmpty")
        /\ AwakeTakers \subseteq AwakeTakers'
    BY <1>0, <1>3 DEF Enter, Result, TypeOK, AwakeTakers, IsTake, Asleep
  <2> QED BY <2>1, CalmForTakers
<1>4. ASSUME NEW t \in Threads, GiveUp(t) \/ Block(t) PROVE PopWakeups'
  <2>1. con' = con /\ MustWait(t) /\ pc[t] = "check"
    BY <1>4 DEF GiveUp, Block, Sleep
  <2>2. CASE IsTake(t)
    <3>1. con = <<>>
      BY <2>1, <2>2 DEF MustWait, IsTake, IsPut, Puts, Takes
    <3> QED BY <2>1, <3>1, EmptyForTakers
  <2>3. CASE ~IsTake(t)
    <3>1. IsPut(t)
      BY <2>1, <2>3 DEF MustWait
    <3>2. /\ Asleep("notEmpty")' \subseteq Asleep("notEmpty")
          /\ AwakeTakers \subseteq AwakeTakers'
      BY <1>0, <1>4, <2>3, <3>1 DEF GiveUp, Block, Sleep, Result, TypeOK,
                              AwakeTakers, IsTake, Asleep
    <3> QED BY <2>1, <3>2, CalmForTakers
  <2> QED BY <2>2, <2>3
<1>5. ASSUME NEW t \in Threads, Push(t) PROVE PopWakeups'
  BY <1>5, PushForTakers
<1>6. ASSUME NEW t \in Threads, Pop(t) PROVE PopWakeups'
  BY <1>6, PopForTakers
<1>7. ASSUME NEW t \in Threads, PopAll(t) PROVE PopWakeups'
  BY <1>7, EmptyForTakers DEF PopAll
<1>8. CASE SetCapacity \/ UNCHANGED lqVars
  BY <1>8 DEF SetCapacity, lqVars, PopWakeups, AwakeTakers, IsTake, Asleep
<1> QED
  BY <1>1, <1>2, <1>3, <1>4, <1>5, <1>6, <1>7, <1>8
     DEF Next, Step

\* While a consumer sleeps, every element has an awake consumer coming for it,
\* for every number of threads, every mix of calls and every capacity, also
\* while capacity(c) is called: the signals of lock_queue.hh:78, 91 and 108
\* are enough although consumers steal elements, time out and wake spuriously.
THEOREM ConsumersAreWoken == Spec => []PopWakeups
<1>1. Init => PopWakeups
  BY DEF Init, PopWakeups, Asleep
<1>2. Spec => []MonitorInv
  BY InitMonitor, StepMonitor, PTL DEF Spec
<1> QED BY <1>1, <1>2, StepPopWakeups, PTL DEF Spec

-----------------------------------------------------------------------------
(* A queue whose capacity is not changed.                                  *)

BoundsInv == MonitorInv /\ capacity = InitCapacity /\ QueueBounds

\* Every step keeps the bounds of the queue.
LEMMA StepBounds ==
    ASSUME Capacities = {}
    PROVE  BoundsInv /\ [Next]_lqVars => BoundsInv'
PROOF
<1> SUFFICES ASSUME BoundsInv, [Next]_lqVars
             PROVE  BoundsInv'
  OBVIOUS
<1>0. MonitorInv /\ MonitorInv' /\ capacity = InitCapacity /\ QueueBounds
  BY StepMonitor DEF BoundsInv
<1>n. Len(con) \in Nat /\ topSize \in Nat /\ InitCapacity \in Nat
  BY <1>0, CapacityAssumption DEF MonitorInv, TypeOK
<1>1. ASSUME NEW t \in Threads, Push(t) PROVE BoundsInv'
  <2>1. capacity' = capacity
        /\ topSize' = IF Len(con') > topSize THEN Len(con') ELSE topSize
    BY <1>1 DEF Push
  <2> QED BY <1>0, <1>n, <1>1, <2>1, PushLength DEF BoundsInv, QueueBounds
<1>2. ASSUME NEW t \in Threads, Pop(t) PROVE BoundsInv'
  <2>1. Len(con') = Len(con) - 1 /\ UNCHANGED <<capacity, topSize>>
    BY <1>0, <1>2 DEF Pop, MonitorInv, TypeOK
  <2> QED BY <1>0, <1>n, <2>1 DEF BoundsInv, QueueBounds
<1>3. ASSUME NEW t \in Threads, PopAll(t) PROVE BoundsInv'
  <2>1. Len(con') = 0 /\ UNCHANGED <<capacity, topSize>>
    BY <1>3 DEF PopAll
  <2> QED BY <1>0, <1>n, <2>1 DEF BoundsInv, QueueBounds
<1>4. ASSUME NEW t \in Threads, ResetTopSize(t) PROVE BoundsInv'
  BY <1>0, <1>4 DEF ResetTopSize, BoundsInv, QueueBounds
<1>5. ASSUME UNCHANGED <<con, capacity, topSize>> PROVE BoundsInv'
  BY <1>0, <1>5 DEF BoundsInv, QueueBounds
<1>6. ASSUME NEW t \in Threads,
             \/ Invoke(t) \/ PushNothing(t) \/ Lock(t) \/ Enter(t) \/ GiveUp(t)
             \/ Block(t) \/ Relock(t) \/ Expire(t) \/ Timeout(t)
             \/ SpuriousWakeup(t)
      PROVE  BoundsInv'
  BY <1>5, <1>6 DEF Invoke, PushNothing, Lock, Enter, GiveUp, Block, Sleep,
                    Relock, Expire, Timeout, SpuriousWakeup
<1>7. ~SetCapacity
  BY DEF SetCapacity
<1>8. CASE UNCHANGED lqVars
  BY <1>5, <1>8 DEF lqVars
<1> QED BY <1>1, <1>2, <1>3, <1>4, <1>6, <1>7, <1>8
           DEF Next, Step

\* They hold at the start.
LEMMA InitBounds == Init => BoundsInv
BY InitMonitor, CapacityAssumption DEF Init, BoundsInv, QueueBounds

\* A queue whose capacity is not changed never holds more than its capacity,
\* whatever batches are pushed at once, and topSize() is never below the
\* present length.
THEOREM QueueNeverOverflows ==
    ASSUME Capacities = {}
    PROVE  Spec => []QueueBounds
<1>1. Spec => []BoundsInv
  BY InitBounds, StepBounds, PTL DEF Spec
<1> QED BY <1>1, PTL DEF BoundsInv

-----------------------------------------------------------------------------
(* No wake-up of a producer is lost, if each asks for one place.           *)

OneElementPuts == \A c \in Calls : c.op \in Puts => Len(c.items) = 1

\* A step that neither adds elements nor puts producers to sleep keeps PushWakeups.
LEMMA CalmForPutters ==
    ASSUME BoundsInv, PushWakeups, con' = con, capacity' = capacity,
           Asleep("notFull")' \subseteq Asleep("notFull"),
           AwakePutters \subseteq AwakePutters'
    PROVE  PushWakeups'
<1>1. Cardinality(AwakePutters) <= Cardinality(AwakePutters')
  BY AwakeFinite, FS_Subset
<1>2. Len(con) \in Nat /\ capacity \in Nat
  BY DEF BoundsInv, MonitorInv, TypeOK
<1> QED BY <1>1, <1>2, AwakeFinite DEF PushWakeups

\* push takes one place and is one producer less.
LEMMA PushForPutters ==
    ASSUME BoundsInv, PushWakeups, OneElementPuts, NEW t \in Threads, Push(t)
    PROVE  PushWakeups'
<1>0. /\ TypeOK /\ MonitorOK /\ pc[t] = "check" /\ IsPut(t)
      /\ call[t] \in Calls /\ call[t].op \in Puts
  BY DEF BoundsInv, MonitorInv, TypeOK, MonitorOK, Push, IsPut
<1>1. /\ Signal(t, "notEmpty") \/ Broadcast(t, "notEmpty")
      /\ call' = [call EXCEPT ![t] = NoCall] /\ capacity' = capacity
  BY DEF Push, WakeTakers, Result
<1>2. /\ pc' \in [Threads -> {"idle", "lock", "enter", "check", "notEmpty",
                           "notFull", "woken", "expired"}]
      /\ pc'[t] = "idle"
      /\ \A u \in Threads \ {t} :
            pc'[u] = pc[u] \/ (pc[u] = "notEmpty" /\ pc'[u] = "woken")
  BY <1>0, <1>1, SignalPC
<1>3. Asleep("notFull")' \subseteq Asleep("notFull")
  BY <1>2 DEF Asleep
<1>4. AwakePutters \ {t} \subseteq AwakePutters'
  BY <1>0, <1>1, <1>2 DEF AwakePutters, IsPut, TypeOK
<1>5. Cardinality(AwakePutters) - 1 <= Cardinality(AwakePutters')
  BY <1>4, OneLess, AwakeFinite
<1>6. Len(con') = Len(con) + 1 /\ Len(con) \in Nat /\ capacity \in Nat
  BY <1>0, PushLength DEF OneElementPuts, BoundsInv, TypeOK
<1> QED BY <1>1, <1>3, <1>5, <1>6, AwakeFinite DEF PushWakeups

\* pop frees one place and wakes one producer.
LEMMA PopForPutters ==
    ASSUME BoundsInv, PushWakeups, NEW t \in Threads, Pop(t)
    PROVE  PushWakeups'
<1>0. TypeOK /\ MonitorOK /\ pc[t] = "check" /\ IsTake(t)
  BY DEF BoundsInv, MonitorInv, Pop
<1>1. /\ Signal(t, "notFull") /\ call' = [call EXCEPT ![t] = NoCall]
      /\ capacity' = capacity
  BY DEF Pop, WakePutters, Result
<1>2. CASE Asleep("notFull") = {}
  BY <1>0, <1>1, <1>2 DEF Signal, Asleep, TypeOK, PushWakeups
<1>3. CASE Asleep("notFull") # {}
  <2>1. PICK u \in Asleep("notFull") :
           pc' = [pc EXCEPT ![t] = "idle", ![u] = "woken"]
    BY <1>1, <1>3 DEF Signal
  <2>2. u # t /\ u \in Threads /\ IsPut(u) /\ pc[u] = "notFull"
    BY <1>0, <2>1 DEF Asleep, MonitorOK
  <2>3. AwakePutters \cup {u} \subseteq AwakePutters' /\ u \notin AwakePutters
    BY <1>0, <1>1, <2>1, <2>2
       DEF AwakePutters, IsTake, IsPut, Puts, Takes, TypeOK
  <2>4. Cardinality(AwakePutters) + 1 <= Cardinality(AwakePutters')
    BY <2>3, OneMore, AwakeFinite
  <2>5. Len(con') = Len(con) - 1 /\ Len(con) \in Nat /\ capacity \in Nat
    BY <1>0 DEF Pop, TypeOK
  <2> QED BY <1>1, <1>3, <2>4, <2>5, AwakeFinite DEF PushWakeups
<1> QED BY <1>2, <1>3

\* A producer that cannot go on has found no place.
LEMMA WaitForPutters ==
    ASSUME BoundsInv, PushWakeups, OneElementPuts, NEW t \in Threads,
           GiveUp(t) \/ Block(t)
    PROVE  PushWakeups'
<1>0. TypeOK /\ MonitorOK
  BY DEF BoundsInv, MonitorInv
<1>w. /\ MustWait(t) /\ pc[t] = "check"
      /\ con' = con /\ capacity' = capacity /\ Len(con) \in Nat
  <2>1. Len(con) \in Nat
    BY <1>0 DEF TypeOK
  <2>2. CASE GiveUp(t)
    BY <2>1, <2>2 DEF GiveUp
  <2>3. CASE Block(t)
    BY <2>1, <2>3 DEF Block, Sleep
  <2> QED BY <2>2, <2>3
<1>1. CASE IsPut(t)
  <2>1. ~HasRoom(t)
    BY <1>w, <1>1 DEF MustWait, IsTake, IsPut, Puts, Takes
  <2>2. need[t] = 1 /\ capacity \in Nat
    BY <1>0, <1>w, <1>1 DEF MonitorOK, OneElementPuts, IsPut, TypeOK
  <2>3. capacity - Len(con) <= 0
    BY <1>w, <2>1, <2>2 DEF HasRoom
  <2> QED BY <1>w, <2>2, <2>3, AwakeFinite DEF PushWakeups
<1>2. CASE ~IsPut(t)
  <2>1. IsTake(t)
    BY <1>w, <1>2 DEF MustWait
  <2>2. /\ Asleep("notFull")' \subseteq Asleep("notFull")
        /\ AwakePutters \subseteq AwakePutters'
    BY <1>0, <1>w, <1>2, <2>1 DEF GiveUp, Block, Sleep, Result, TypeOK,
                            AwakePutters, IsPut, Asleep
  <2> QED BY <1>w, <2>2, CalmForPutters
<1> QED BY <1>1, <1>2

\* Every step keeps PushWakeups, whichever condition it signals.
LEMMA StepPushWakeups ==
    ASSUME Capacities = {}, OneElementPuts
    PROVE  BoundsInv /\ PushWakeups /\ [Next]_lqVars => PushWakeups'
PROOF
<1> SUFFICES ASSUME BoundsInv, PushWakeups, [Next]_lqVars
             PROVE  PushWakeups'
  OBVIOUS
<1>0. TypeOK /\ MonitorOK
  BY DEF BoundsInv, MonitorInv
<1>1. ASSUME NEW t \in Threads,
             Invoke(t) \/ PushNothing(t) \/ Lock(t) \/ ResetTopSize(t)
      PROVE  PushWakeups'
  <2>1. /\ con' = con /\ capacity' = capacity
        /\ Asleep("notFull")' \subseteq Asleep("notFull")
        /\ AwakePutters \subseteq AwakePutters'
    BY <1>0, <1>1 DEF Invoke, PushNothing, Lock, ResetTopSize, Result, TypeOK,
                      AwakePutters, IsPut, Asleep
  <2> QED BY <2>1, CalmForPutters
<1>2. ASSUME NEW t \in Threads,
             Relock(t) \/ Expire(t) \/ Timeout(t) \/ SpuriousWakeup(t)
      PROVE  PushWakeups'
  <2>1. /\ con' = con /\ capacity' = capacity
        /\ Asleep("notFull")' \subseteq Asleep("notFull")
        /\ AwakePutters \subseteq AwakePutters'
    BY <1>0, <1>2 DEF Relock, Expire, Timeout, SpuriousWakeup, Result, TypeOK,
                      AwakePutters, IsPut, Asleep
  <2> QED BY <2>1, CalmForPutters
<1>3. ASSUME NEW t \in Threads, Enter(t) PROVE PushWakeups'
  <2>1. /\ con' = con /\ capacity' = capacity
        /\ Asleep("notFull")' \subseteq Asleep("notFull")
        /\ AwakePutters \subseteq AwakePutters'
    BY <1>0, <1>3 DEF Enter, Result, TypeOK, AwakePutters, IsPut, Asleep
  <2> QED BY <2>1, CalmForPutters
<1>4. ASSUME NEW t \in Threads, GiveUp(t) \/ Block(t) PROVE PushWakeups'
  BY <1>4, WaitForPutters
<1>5. ASSUME NEW t \in Threads, Push(t) PROVE PushWakeups'
  BY <1>5, PushForPutters
<1>6. ASSUME NEW t \in Threads, Pop(t) PROVE PushWakeups'
  BY <1>6, PopForPutters
<1>7. ASSUME NEW t \in Threads, PopAll(t) PROVE PushWakeups'
  BY <1>0, <1>7 DEF PopAll, WakePutters, Broadcast, Asleep, PushWakeups, TypeOK
<1>8. ~SetCapacity
  BY DEF SetCapacity
<1>9. CASE UNCHANGED lqVars
  BY <1>9 DEF lqVars, PushWakeups, AwakePutters, IsPut, Asleep
<1> QED
  BY <1>1, <1>2, <1>3, <1>4, <1>5, <1>6, <1>7, <1>8, <1>9
     DEF Next, Step

\* While a producer sleeps, every free place has an awake producer coming for
\* it, if each call asks for one place and the capacity is not changed: then
\* the single signal of pop (lock_queue.hh:119) is enough.
THEOREM ProducersAreWoken ==
    ASSUME Capacities = {}, OneElementPuts
    PROVE  Spec => []PushWakeups
<1>1. Init => PushWakeups
  BY DEF Init, PushWakeups, Asleep
<1>2. Spec => []BoundsInv
  BY InitBounds, StepBounds, PTL DEF Spec
<1> QED BY <1>1, <1>2, StepPushWakeups, PTL DEF Spec

-----------------------------------------------------------------------------
(* A queue whose capacity is not changed implements MessageQueue.          *)

\* What a call has established before it fails: popAll asks for no more than
\* the capacity, and only a timed call times out.
FailureOK ==
    \A t \in Threads :
        /\ pc[t] = "enter" /\ IsTake(t) => need[t] <= capacity \/ capacity = 0
        /\ pc[t] = "expired" => call[t].wait = "timed"

PromiseInv == BoundsInv /\ FailureOK

\* The refinement invariant holds at the start.
LEMMA InitPromise == Init => PromiseInv
BY InitBounds DEF Init, PromiseInv, FailureOK

\* Every step keeps the part of it about refused calls.
LEMMA StepFailureOK ==
    ASSUME Capacities = {}
    PROVE  PromiseInv /\ [Next]_lqVars => FailureOK'
PROOF
<1> SUFFICES ASSUME PromiseInv, [Next]_lqVars
             PROVE  FailureOK'
  OBVIOUS
<1>0. /\ TypeOK /\ MonitorOK /\ FailureOK
      /\ capacity = InitCapacity /\ Len(con) <= capacity
  BY DEF PromiseInv, BoundsInv, MonitorInv, QueueBounds
<1>1. ASSUME NEW t \in Threads, Lock(t) PROVE FailureOK'
  <2>1. IsTake(t) => NeedOf(call[t]) <= capacity \/ capacity = 0
    BY <1>0 DEF IsTake, NeedOf, Puts, Takes, TypeOK
  <2> QED BY <1>0, <1>1, <2>1 DEF Lock, FailureOK, IsTake, TypeOK
<1>2. ASSUME NEW t \in Threads, Push(t) \/ Pop(t) \/ PopAll(t)
      PROVE  FailureOK'
  <2>1. PICK cond \in {"notEmpty", "notFull"} :
           Signal(t, cond) \/ Broadcast(t, cond)
    BY <1>2 DEF Push, Pop, PopAll, WakeTakers, WakePutters
  <2>2. pc[t] = "check"
    BY <1>2 DEF Push, Pop, PopAll
  <2>3. /\ pc'[t] = "idle"
        /\ \A u \in Threads \ {t} : pc'[u] = pc[u] \/ pc'[u] = "woken"
    BY <1>0, <2>1, <2>2, SignalPC
  <2>4. /\ call' = [call EXCEPT ![t] = NoCall]
        /\ need' = [need EXCEPT ![t] = 0] /\ capacity' = capacity
    BY <1>2 DEF Push, Pop, PopAll, Result
  <2> QED BY <1>0, <2>3, <2>4 DEF FailureOK, IsTake, TypeOK
<1>3. ASSUME NEW t \in Threads,
             \/ Invoke(t) \/ PushNothing(t) \/ Enter(t) \/ ResetTopSize(t)
             \/ GiveUp(t)
      PROVE  FailureOK'
  BY <1>0, <1>3 DEF Invoke, PushNothing, Enter, ResetTopSize, GiveUp, Result,
                    FailureOK, IsTake, TypeOK
<1>4. ASSUME NEW t \in Threads,
             \/ Block(t) \/ Relock(t) \/ Expire(t) \/ Timeout(t)
             \/ SpuriousWakeup(t)
      PROVE  FailureOK'
  BY <1>0, <1>4 DEF Block, Sleep, Relock, Expire, Timeout, SpuriousWakeup,
                    Result, FailureOK, IsTake, TypeOK
<1>5. ~SetCapacity
  BY DEF SetCapacity
<1>6. CASE UNCHANGED lqVars
  BY <1>0, <1>6 DEF lqVars, FailureOK, IsTake
<1> QED BY <1>1, <1>2, <1>3, <1>4, <1>5, <1>6 DEF Next, Step

\* Every step keeps it.
LEMMA StepPromise ==
    ASSUME Capacities = {}
    PROVE  PromiseInv /\ [Next]_lqVars => PromiseInv'
BY StepBounds, StepFailureOK DEF PromiseInv

\* A call fails only for a reason that MessageQueue accepts.
LEMMA FailureIsRefusal ==
    ASSUME PromiseInv, NEW t \in Threads,
           \/ Enter(t) /\ need[t] > capacity
           \/ GiveUp(t)
           \/ Expire(t)
    PROVE  Promise!Refuse(t)
PROOF
<1>0. /\ TypeOK /\ MonitorOK /\ FailureOK /\ capacity = InitCapacity
  BY DEF PromiseInv, BoundsInv, MonitorInv
<1>1. /\ pc[t] # "idle" /\ call[t] # NoCall /\ call[t] \in Calls
      /\ con' = con /\ Result(t, FALSE, <<>>)
  BY <1>0 DEF Enter, GiveUp, Expire, MonitorOK, TypeOK
<1>2. IsPut(t) \/ IsTake(t)
  <2>1. CASE Enter(t)
    BY <1>1, <2>1, CallsAssumption DEF Enter, IsPut, IsTake, CallType
  <2>2. CASE GiveUp(t) \/ Expire(t)
    BY <1>0, <2>2 DEF GiveUp, Expire, MonitorOK
  <2> QED BY <2>1, <2>2
<1>3. Promise!Refusable(call[t])
  <2>1. CASE Enter(t) /\ need[t] > capacity
    <3>1. CASE IsPut(t)
      <4>1. need[t] = Len(call[t].items)
        BY <1>0, <2>1, <3>1 DEF Enter, MonitorOK
      <4> QED BY <1>0, <2>1, <3>1, <4>1
                 DEF IsPut, Promise!Refusable, Puts, Promise!Puts
    <3>2. CASE IsTake(t)
      <4>1. need[t] \in Nat /\ capacity \in Nat
        BY <1>0 DEF TypeOK
      <4>2. capacity = 0
        BY <1>0, <2>1, <3>2, <4>1 DEF Enter, FailureOK
      <4> QED BY <1>0, <4>2 DEF Promise!Refusable
    <3> QED BY <1>2, <3>1, <3>2
  <2>2. CASE GiveUp(t)
    <3>1. CASE IsPut(t)
      <4>1. ~HasRoom(t) /\ need[t] = Len(call[t].items)
        BY <1>0, <2>2, <3>1
           DEF GiveUp, MustWait, MonitorOK, IsPut, IsTake, Puts, Takes
      <4> QED BY <1>0, <2>2, <3>1, <4>1
                 DEF GiveUp, HasRoom, IsPut, Puts, Promise!Refusable,
                     Promise!Fits, Promise!Puts
    <3>2. CASE IsTake(t)
      BY <2>2, <3>2
         DEF GiveUp, MustWait, IsPut, IsTake, Puts, Takes,
             Promise!Refusable, Promise!Puts
    <3> QED BY <1>2, <3>1, <3>2
  <2>3. CASE Expire(t)
    BY <1>0, <2>3 DEF Expire, FailureOK, Promise!Refusable
  <2> QED BY <2>1, <2>2, <2>3
<1> QED BY <1>1, <1>2, <1>3
        DEF Result, Promise!Refuse, Promise!Return, IsPut, IsTake,
            Puts, Takes, Promise!Puts, Promise!Takes

\* Every step of the monitor is a step of the promise or changes nothing of it.
LEMMA StepRefines ==
    ASSUME Capacities = {}
    PROVE  PromiseInv /\ [Next]_lqVars => [Promise!Next]_(Promise!mqVars)
PROOF
<1> SUFFICES ASSUME PromiseInv, [Next]_lqVars
             PROVE  [Promise!Next]_(Promise!mqVars)
  OBVIOUS
<1>0. /\ TypeOK /\ MonitorOK /\ MonitorInv /\ Len(con) <= capacity
      /\ capacity = InitCapacity
  BY DEF PromiseInv, BoundsInv, MonitorInv, QueueBounds
<1>1. ASSUME NEW t \in Threads, Invoke(t) PROVE Promise!Next
  <2>1. \E c \in Calls : Promise!Start(t, c)
    BY <1>0, <1>1 DEF Invoke, MonitorOK, NoReply, Promise!Start, Promise!NoReply
  <2> QED BY <2>1 DEF Promise!Next
<1>2. ASSUME NEW t \in Threads, PushNothing(t) PROVE Promise!Put(t)
  <2>1. con \in Seq(Values) /\ con \o <<>> = con /\ Len(con) + 0 <= capacity
    BY <1>0 DEF TypeOK
  <2>2. Promise!Fits(call[t])
    BY <1>0, <1>2, <2>1 DEF PushNothing, Promise!Fits
  <2> QED BY <1>0, <1>2, <2>1, <2>2
             DEF PushNothing, MonitorOK, Promise!Put, Promise!Return,
                 Promise!Puts
<1>3. ASSUME NEW t \in Threads, ResetTopSize(t) PROVE Promise!Look(t)
  BY <1>0, <1>3 DEF ResetTopSize, Result, MonitorOK, Promise!Look,
                    Promise!Return, Promise!Puts, Promise!Takes
<1>4. ASSUME NEW t \in Threads, Push(t) PROVE Promise!Put(t)
  <2>1. Len(con) + Len(call[t].items) <= InitCapacity
    BY <1>0, <1>4, PushLength
  <2> QED BY <1>4, <2>1
             DEF Push, IsPut, Result, Puts, Promise!Put, Promise!Fits,
                 Promise!Return, Promise!Puts
<1>5. ASSUME NEW t \in Threads, Pop(t) \/ PopAll(t) PROVE Promise!Take(t)
  BY <1>5 DEF Pop, PopAll, IsTake, Result, Promise!Take, Promise!Return
<1>6. ASSUME NEW t \in Threads,
             (Enter(t) /\ need[t] > capacity) \/ GiveUp(t) \/ Expire(t)
      PROVE  Promise!Refuse(t)
  BY <1>6, FailureIsRefusal
<1>7. ASSUME NEW t \in Threads,
             \/ Lock(t)
             \/ Enter(t) /\ ~(need[t] > capacity)
             \/ Block(t) \/ Relock(t) \/ Timeout(t) \/ SpuriousWakeup(t)
      PROVE  UNCHANGED Promise!mqVars
  BY <1>7 DEF Lock, Enter, Block, Sleep, Relock, Timeout, SpuriousWakeup,
              Promise!mqVars
<1>8. ~SetCapacity
  BY DEF SetCapacity
<1>9. CASE UNCHANGED lqVars
  BY <1>9 DEF lqVars, Promise!mqVars
<1> QED
  BY <1>1, <1>2, <1>3, <1>4, <1>5, <1>6, <1>7, <1>8, <1>9
     DEF Next, Step, Promise!Next

\* A queue whose capacity is not changed does what MessageQueue promises: each
\* call takes effect at once between its start and its return, elements leave
\* in the order they came (pushFront apart), a failed call changes nothing, and
\* a call that may wait for ever fails only if it asks for more than there is.
THEOREM QueueKeepsPromise ==
    ASSUME Capacities = {}
    PROVE  Spec => ImplementsPromise
<1>1. Init => Promise!Init
  BY DEF Init, NoReply, Promise!Init, Promise!NoReply
<1>2. Spec => []PromiseInv
  BY InitPromise, StepPromise, PTL DEF Spec
<1>3. Spec => [][Promise!Next]_(Promise!mqVars)
  BY <1>2, StepRefines, PTL DEF Spec
<1> QED BY <1>1, <1>3, PTL DEF Spec, ImplementsPromise, Promise!Spec
=============================================================================
