----------------------------- MODULE LockQueue ------------------------------
(***************************************************************************)
(* CLockQueue (lock_queue.hh): a bounded queue protected by one CMutex and *)
(* two CConditions, not_empty_ and not_full_ (mutex.hh).                   *)
(*                                                                         *)
(* A thread's program counter pc[t] follows a call through the monitor:    *)
(*   "idle"      no call in progress                                       *)
(*   "lock"      in the constructor of the CGuard, waiting for lock_       *)
(*   "enter"     owns lock_, about to compare need with capacity_          *)
(*   "check"     owns lock_, about to evaluate the condition of the while  *)
(*   "notEmpty"  asleep in not_empty_.wait or not_empty_.timeWait          *)
(*   "notFull"   asleep in not_full_.wait or not_full_.timeWait            *)
(*   "woken"     woken from a condition, has to get lock_ back             *)
(*   "expired"   its timeWait has timed out, has to get lock_ back         *)
(***************************************************************************)
EXTENDS Integers, Sequences, FiniteSets

CONSTANTS Threads,       \* the threads that share the queue
          Calls,         \* the calls they make
          Values,        \* the elements
          InitCapacity,  \* the capacity given to the constructor
          Capacities,    \* the arguments of later calls of capacity(c)
          NoCall,        \* no call in progress
          NoThread       \* lock_ is free

Puts   == {"push", "pushFront", "pushAll"}
Takes  == {"pop", "popAll"}
Waits  == {"forever", "never", "timed"}   \* timeMs < 0, = 0, > 0

CallType == [op : Puts \cup Takes \cup {"resetTopSize"},
             items : Seq(Values), wait : Waits]

\* push and pushFront add one element.
ASSUME CallsAssumption ==
    /\ Calls \subseteq CallType
    /\ \A c \in Calls : c.op \in {"push", "pushFront"} => Len(c.items) = 1
    /\ NoCall \notin Calls
ASSUME ThreadsAssumption == IsFiniteSet(Threads) /\ NoThread \notin Threads
ASSUME CapacityAssumption == InitCapacity \in Nat /\ Capacities \subseteq Nat

VARIABLES con,       \* con_, the elements, front first
          capacity,  \* capacity_
          topSize,   \* top_size_
          owner,     \* the thread that owns lock_, or NoThread
          pc,        \* see above
          call,      \* call[t]: the call t is in
          need,      \* need[t]: the argument need of waitNotFull/waitNotEmpty
          reply      \* reply[t]: what the last call of t returned

lqVars == <<con, capacity, topSize, owner, pc, call, need, reply>>

\* What a call has returned before it returns.
NoReply == [ok |-> TRUE, items |-> <<>>]

Init == /\ con = <<>>
        /\ capacity = InitCapacity
        /\ topSize = 0
        /\ owner = NoThread
        /\ pc    = [t \in Threads |-> "idle"]
        /\ call  = [t \in Threads |-> NoCall]
        /\ need  = [t \in Threads |-> 0]
        /\ reply = [t \in Threads |-> NoReply]

IsPut(t)  == call[t] # NoCall /\ call[t].op \in Puts
IsTake(t) == call[t] # NoCall /\ call[t].op \in Takes

\* The threads asleep on a condition variable.
Asleep(cond) == {t \in Threads : pc[t] = cond}

-----------------------------------------------------------------------------
(* Returning, signalling and sleeping.  Each of these defines pc'.         *)

\* The bookkeeping of a return of t: the guard's destructor leaves lock_ free
\* (t owns it, or nobody does).
Result(t, ok, items) ==
    /\ owner' = NoThread
    /\ call'  = [call  EXCEPT ![t] = NoCall]
    /\ need'  = [need  EXCEPT ![t] = 0]
    /\ reply' = [reply EXCEPT ![t] = [ok |-> ok, items |-> items]]

\* pthread_cond_signal: one of the sleepers, if any, is woken; t returns.
Signal(t, cond) ==
    IF Asleep(cond) = {}
    THEN pc' = [pc EXCEPT ![t] = "idle"]
    ELSE \E u \in Asleep(cond) :
            pc' = [pc EXCEPT ![t] = "idle", ![u] = "woken"]

\* pthread_cond_broadcast: every sleeper is woken; t returns.
Broadcast(t, cond) ==
    pc' = [u \in Threads |-> IF u = t THEN "idle"
                             ELSE IF pc[u] = cond THEN "woken" ELSE pc[u]]

\* Mutants of the wake-ups: pushAll that signals like push does; none at all.
WakeOneTaker(t)       == Signal(t, "notEmpty")
WakeNobody(t)         == pc' = [pc EXCEPT ![t] = "idle"]
\* The same for producers: a signal only when the queue was full.
WakePuttersIfFull(t)  == IF Len(con) >= capacity
                         THEN Signal(t, "notFull")
                         ELSE pc' = [pc EXCEPT ![t] = "idle"]

\* push and pushFront signal one consumer, pushAll wakes all of them.
WakeTakers(t) == IF call[t].op = "pushAll" THEN Broadcast(t, "notEmpty")
                                           ELSE Signal(t, "notEmpty")

\* pop signals one producer, popAll wakes all of them.
WakePutters(t) == IF call[t].op = "popAll" THEN Broadcast(t, "notFull")
                                           ELSE Signal(t, "notFull")

\* pthread_cond_wait and pthread_cond_timedwait: release lock_ and sleep.
Sleep(t, cond) ==
    /\ pc' = [pc EXCEPT ![t] = cond]
    /\ owner' = NoThread
    /\ UNCHANGED <<con, capacity, topSize, call, need, reply>>

-----------------------------------------------------------------------------
(* The calls.                                                              *)

Invoke(t) ==
    /\ pc[t] = "idle"
    /\ \E c \in Calls : call' = [call EXCEPT ![t] = c]
    /\ pc'    = [pc    EXCEPT ![t] = "lock"]
    /\ reply' = [reply EXCEPT ![t] = NoReply]
    /\ UNCHANGED <<con, capacity, topSize, owner, need>>

\* pushAll of an empty container returns before the guard is constructed.
PushNothing(t) ==
    /\ pc[t] = "lock"
    /\ call[t].op = "pushAll" /\ call[t].items = <<>>
    /\ pc'    = [pc    EXCEPT ![t] = "idle"]
    /\ call'  = [call  EXCEPT ![t] = NoCall]
    /\ reply' = [reply EXCEPT ![t] = [ok |-> TRUE, items |-> <<>>]]
    /\ UNCHANGED <<con, capacity, topSize, owner, need>>

\* The need passed to waitNotFull or waitNotEmpty; popAll asks for everything.
NeedOf(c) ==
    IF c.op \in Puts THEN Len(c.items)
    ELSE IF c.op = "popAll" THEN (IF con = <<>> THEN capacity ELSE Len(con))
    ELSE 1

\* The CGuard locks lock_; need is computed under it.
Lock(t) ==
    /\ pc[t] = "lock"
    /\ ~(call[t].op = "pushAll" /\ call[t].items = <<>>)
    /\ owner = NoThread
    /\ owner' = t
    /\ pc'   = [pc   EXCEPT ![t] = "enter"]
    /\ need' = [need EXCEPT ![t] = NeedOf(call[t])]
    /\ UNCHANGED <<con, capacity, topSize, call, reply>>

\* if(need > capacity_) return -1, made once per call, before the loop.
Enter(t) ==
    /\ pc[t] = "enter" /\ call[t].op # "resetTopSize"
    /\ IF need[t] > capacity
       THEN /\ pc' = [pc EXCEPT ![t] = "idle"]
            /\ Result(t, FALSE, <<>>)
       ELSE /\ pc' = [pc EXCEPT ![t] = "check"]
            /\ UNCHANGED <<owner, call, need, reply>>
    /\ UNCHANGED <<con, capacity, topSize>>

\* Mutant of ResetTopSize: one element too few.
ResetTopSizeOffByOne(t) ==
    /\ pc[t] = "enter" /\ call[t].op = "resetTopSize"
    /\ topSize' = Len(con) - 1
    /\ pc' = [pc EXCEPT ![t] = "idle"]
    /\ Result(t, TRUE, <<>>)
    /\ UNCHANGED <<con, capacity>>

ResetTopSize(t) ==
    /\ pc[t] = "enter" /\ call[t].op = "resetTopSize"
    /\ topSize' = Len(con)
    /\ pc' = [pc EXCEPT ![t] = "idle"]
    /\ Result(t, TRUE, <<>>)
    /\ UNCHANGED <<con, capacity>>

\* Mutant of HasRoom: room for one is taken for room for all.
HasRoomForOne(t) == Len(con) < capacity

HasRoom(t) == Len(con) + need[t] <= capacity

\* push, pushFront and pushAll once waitNotFull has succeeded.
Push(t) ==
    /\ pc[t] = "check" /\ IsPut(t)
    /\ HasRoom(t)
    /\ con' = IF call[t].op = "pushFront" THEN call[t].items \o con
                                          ELSE con \o call[t].items
    /\ topSize' = IF Len(con') > topSize THEN Len(con') ELSE topSize
    /\ WakeTakers(t)
    /\ Result(t, TRUE, <<>>)
    /\ UNCHANGED capacity

\* pop once waitNotEmpty has succeeded.
Pop(t) ==
    /\ pc[t] = "check" /\ IsTake(t) /\ call[t].op = "pop"
    /\ con # <<>>
    /\ con' = Tail(con)
    /\ WakePutters(t)
    /\ Result(t, TRUE, <<Head(con)>>)
    /\ UNCHANGED <<capacity, topSize>>

\* popAll once waitNotEmpty has succeeded: swap with the caller's container.
PopAll(t) ==
    /\ pc[t] = "check" /\ IsTake(t) /\ call[t].op = "popAll"
    /\ con # <<>>
    /\ con' = <<>>
    /\ WakePutters(t)
    /\ Result(t, TRUE, con)
    /\ UNCHANGED <<capacity, topSize>>

\* The condition of the while loop of waitNotFull or waitNotEmpty.
MustWait(t) == \/ IsPut(t)  /\ ~HasRoom(t)
               \/ IsTake(t) /\ con = <<>>

\* !timeMs: return -1 instead of waiting.
GiveUp(t) ==
    /\ pc[t] = "check" /\ MustWait(t) /\ call[t].wait = "never"
    /\ pc' = [pc EXCEPT ![t] = "idle"]
    /\ Result(t, FALSE, <<>>)
    /\ UNCHANGED <<con, capacity, topSize>>

Block(t) ==
    /\ pc[t] = "check" /\ MustWait(t) /\ call[t].wait # "never"
    /\ Sleep(t, IF IsPut(t) THEN "notFull" ELSE "notEmpty")

\* Mutant of Relock: if in place of while, a wait that found nothing fails.
RelockWithoutLoop(t) ==
    /\ pc[t] = "woken" /\ owner = NoThread
    /\ IF MustWait(t)
       THEN /\ pc' = [pc EXCEPT ![t] = "idle"]
            /\ Result(t, FALSE, <<>>)
       ELSE /\ owner' = t
            /\ pc' = [pc EXCEPT ![t] = "check"]
            /\ UNCHANGED <<call, need, reply>>
    /\ UNCHANGED <<con, capacity, topSize>>

\* pthread_cond_wait returns with the mutex locked; the while loop goes round.
Relock(t) ==
    /\ pc[t] = "woken" /\ owner = NoThread
    /\ owner' = t
    /\ pc' = [pc EXCEPT ![t] = "check"]
    /\ UNCHANGED <<con, capacity, topSize, call, need, reply>>

\* The time of a timeWait is over before a signal reached it.
Timeout(t) ==
    /\ pc[t] \in {"notEmpty", "notFull"} /\ call[t].wait = "timed"
    /\ pc' = [pc EXCEPT ![t] = "expired"]
    /\ UNCHANGED <<con, capacity, topSize, owner, call, need, reply>>

\* Mutant of Expire: the timed out thread goes on without the mutex.
ExpireUnlocked(t) ==
    /\ pc[t] = "expired"
    /\ pc' = [pc EXCEPT ![t] = "idle"]
    /\ Result(t, FALSE, <<>>)
    /\ UNCHANGED <<con, capacity, topSize>>

\* timeWait has returned false: return -1 without another look at con_.
Expire(t) ==
    /\ pc[t] = "expired" /\ owner = NoThread
    /\ pc' = [pc EXCEPT ![t] = "idle"]
    /\ Result(t, FALSE, <<>>)
    /\ UNCHANGED <<con, capacity, topSize>>

\* pthread_cond_wait may return without a signal.
SpuriousWakeup(t) ==
    /\ pc[t] \in {"notEmpty", "notFull"}
    /\ pc' = [pc EXCEPT ![t] = "woken"]
    /\ UNCHANGED <<con, capacity, topSize, owner, call, need, reply>>

\* capacity(c): takes no lock and signals nobody.
SetCapacity ==
    /\ \E c \in Capacities : capacity' = c
    /\ UNCHANGED <<con, topSize, owner, pc, call, need, reply>>

-----------------------------------------------------------------------------
\* What the thread itself does once it is in a call.
Step(t) == \/ PushNothing(t) \/ Lock(t) \/ Enter(t) \/ ResetTopSize(t)
           \/ Push(t) \/ Pop(t) \/ PopAll(t) \/ GiveUp(t) \/ Block(t)
           \/ Relock(t) \/ Expire(t)

Next == \/ \E t \in Threads : Invoke(t) \/ Step(t) \/ Timeout(t)
                                \/ SpuriousWakeup(t)
        \/ SetCapacity

Spec == Init /\ [][Next]_lqVars

\* A thread in a call keeps running, gets a mutex that is released again and
\* again, and a timed wait ends; nobody has to call, and no spurious wake-up
\* has to come.
Fairness == \A t \in Threads : SF_lqVars(Step(t)) /\ WF_lqVars(Timeout(t))

FairSpec == Spec /\ Fairness
-----------------------------------------------------------------------------
(* Properties.                                                             *)

TypeOK ==
    /\ con \in Seq(Values)
    /\ capacity \in Nat /\ topSize \in Nat
    /\ owner \in Threads \cup {NoThread}
    /\ pc \in [Threads -> {"idle", "lock", "enter", "check", "notEmpty",
                           "notFull", "woken", "expired"}]
    /\ call \in [Threads -> Calls \cup {NoCall}]
    /\ need \in [Threads -> Nat]
    /\ reply \in [Threads -> [ok : BOOLEAN, items : Seq(Values)]]

\* lock_ is owned exactly by the thread between its lock and its unlock or
\* sleep, and the sleepers of each condition are in a call that waits for it.
MonitorOK ==
    \A t \in Threads :
        /\ (pc[t] \in {"enter", "check"}) <=> (owner = t)
        /\ (pc[t] = "idle") <=> (call[t] = NoCall)
        /\ pc[t] = "notEmpty" => IsTake(t)
        /\ pc[t] = "notFull"  => IsPut(t)
        /\ pc[t] \in {"check", "woken", "expired"} => IsTake(t) \/ IsPut(t)
        /\ IsPut(t) /\ pc[t] # "lock" => need[t] = Len(call[t].items)

\* The threads of each side that are about to look at con_ again.
AwakeTakers  == {t \in Threads : IsTake(t) /\ pc[t] \in {"woken", "check"}}
AwakePutters == {t \in Threads : IsPut(t)  /\ pc[t] \in {"woken", "check"}}

\* No wake-up of a consumer is lost: while a consumer sleeps, every element
\* of the queue has an awake consumer of its own coming for it, although push
\* signals only one sleeper and others may take the element first.
PopWakeups ==
    Asleep("notEmpty") # {} => Len(con) <= Cardinality(AwakeTakers)

\* The same for producers and free places; it needs every producer to ask for
\* one place (no pushAll) and a capacity that is never changed.
PushWakeups ==
    Asleep("notFull") # {} => capacity - Len(con) <= Cardinality(AwakePutters)

\* A queue whose capacity is not changed never holds more than that, and the
\* statistic top_size_ is never below the present length.
QueueBounds == Len(con) <= InitCapacity /\ Len(con) <= topSize

\* A queue whose capacity is not changed implements the lock-free promise: in
\* particular a call that may wait for ever is refused only if it asks for
\* more than the capacity, and a refused call has left the queue as it was.
Promise == INSTANCE MessageQueue
               WITH queue <- con, busy <- call, Bound <- InitCapacity
ImplementsPromise == Promise!Spec

\* Consumers do not stay asleep beside elements: either the elements go or
\* the sleepers do.
NoStalledConsumer ==
    (con # <<>> /\ Asleep("notEmpty") # {})
        ~> (con = <<>> \/ Asleep("notEmpty") = {})

\* Producers do not stay asleep beside free places, under the same conditions.
NoStalledProducer ==
    (Len(con) < capacity /\ Asleep("notFull") # {})
        ~> (Len(con) >= capacity \/ Asleep("notFull") = {})

\* lock_queue.hh:187 says of capacity_ that push blocks once it is reached: a
\* push of one element does not stay asleep with a place free and nobody
\* awake to take it.
PushBlocksOnlyWhenFull ==
    \A t \in Asleep("notFull") :
        need[t] = 1 /\ AwakePutters = {} => Len(con) >= capacity
=============================================================================
