------------------------ MODULE ThreadManagerProofs -------------------------
(***************************************************************************)
(* Proofs about ThreadManager, for any finite number of threads, tasks and *)
(* limits.                                                                 *)
(*                                                                         *)
(* The argument is about workLock_: a thread exists outside workers_ only  *)
(* while its creator holds the lock, or when it has taken itself off the   *)
(* list, and the scheduler tests for its own cancellation after it has got *)
(* the lock, so that it creates nothing once the client has had it.        *)
(***************************************************************************)
EXTENDS ThreadManager, FiniteSetTheorems, TLAPS

\* workLock_ is held exactly inside a round of addThreads and inside the loop
\* of stopThreads.
LockOK ==
    /\ \A p \in Adders : apc[p] # "idle" =>
          workLock = p /\ Adding(p) /\ left[p] > 0
    /\ workLock = "client" => apc["client"] # "idle" \/ client = "cancelling"
    /\ workLock = "sched" => apc["sched"] # "idle"
    /\ client = "cancelling" => workLock = "client"
    /\ client = "new" => spc = "none"

\* A stop has reached the scheduler before the client takes the lock.
StopOK ==
    /\ client \in {"stopping", "cancelling", "done"} => schedStop
    /\ client \in {"cancelling", "done"} =>
          apc["sched"] \notin {"tested", "created"}
    /\ cancelled \cap workers # {} => client = "cancelling"
    /\ cancelled # {} => client \in {"cancelling", "done"}

\* Which threads workers_ names.
ListOK ==
    /\ \A p \in Adders : made[p] # NoWorker =>
          /\ apc[p] = "created" /\ wpc[made[p]] \notin {"none", "leave"}
          /\ made[p] \notin cancelled
    /\ \A w \in Worker : wpc[w] = "leave" => w \notin workers
    /\ \A w \in Alive : \/ w \in workers \cup cancelled \/ wpc[w] = "leave"
                        \/ \E p \in Adders : made[p] = w

\* Until the queue is set no worker gets past the assertion that it is.
QueueOK == queueSet \/ \A w \in Worker : wpc[w] \in {"none", "new"}

IInv == /\ TypeOK /\ CountsAreExact /\ LockOK /\ StopOK /\ ListOK
        /\ ListedAreAlive /\ StopReachesAll /\ QueueOK
-----------------------------------------------------------------------------
(* Lemmas on the parts of a step.                                          *)

\* The scheduler's arithmetic stays within the integers it is used for.
LEMMA ScheduleTypes ==
    ASSUME NEW e \in Nat, NEW n \in Nat, NEW a \in Nat,
           NEW min \in Nat, NEW max \in Nat
    PROVE  /\ adjustThreadCount(n, min, max) \in Nat
           /\ Expected(e, n, a, min, max) \in Nat
           /\ Change(e, n, a, min, max) \in Int
<1>1. \A k \in Nat : adjustThreadCount(k, min, max) \in Nat
  BY DEF adjustThreadCount
<1>2. Decayed(e) \in Nat
  BY DEF Decayed
<1>3. Decayed(e) + a \in Nat
  BY <1>2
<1>4. Expected(e, n, a, min, max) \in Nat
  BY <1>1, <1>2, <1>3 DEF Expected
<1> QED
  BY <1>1, <1>4 DEF Change

\* The limits are natural numbers.
LEMMA LimitTypes == TypeOK => lo \in Nat /\ hi \in Nat
BY DEF TypeOK, lo, hi

\* Which variables a worker may change.
LEMMA WorkerFrame ==
    ASSUME NEW w \in Worker, WorkerStep(w)
    PROVE  UNCHANGED othersOfWorker /\ UNCHANGED cancelled
BY DEF WorkerStep, Enter, QuerySurvive, PopTask, PopSleep, PopWake, RunTask,
       Cancelled, RmWorker, Leave

\* The sets that are counted are finite.
LEMMA CountedFinite ==
    /\ IsFiniteSet(Counted) /\ IsFiniteSet(Busy)
    /\ Cardinality(Counted) \in Nat /\ Cardinality(Busy) \in Nat
<1>1. Counted \subseteq Worker /\ Busy \subseteq Worker
  BY DEF Counted, Busy
<1>2. IsFiniteSet(Counted) /\ IsFiniteSet(Busy)
  BY <1>1, ManagerAssumption, FS_Subset
<1> QED
  BY <1>2, FS_CardinalityType

-----------------------------------------------------------------------------
(* The lock.                                                               *)

\* workLock_ keeps its discipline over every step.
LEMMA LockStep ==
    ASSUME TypeOK, LockOK, [Next]_tmVars
    PROVE  LockOK'
<1> USE DEF TypeOK, LockOK, Adding, Adders
<1>1. ASSUME NEW p \in Adders, AddStep(p)  PROVE LockOK'
  <2>1. CASE AddLock(p)
    BY <2>1 DEF AddLock, schedVars
  <2>2. CASE AddTest(p)
    BY <2>2 DEF AddTest
  <2>3. CASE AddCreate(p)
    BY <2>3 DEF AddCreate, schedVars
  <2>4. CASE AddPush(p)
    BY <2>4 DEF AddPush, schedVars
  <2> QED
    BY <1>1, <2>1, <2>2, <2>3, <2>4 DEF AddStep
<1>2. CASE StartScheduler
  BY <1>2 DEF StartScheduler, addVars
<1>3. CASE SetQueue
  BY <1>3 DEF SetQueue, schedVars
<1>4. CASE StartReturns
  BY <1>4 DEF StartReturns, schedVars, addVars
<1>5. CASE SetLimits \/ PushTask
  BY <1>5 DEF SetLimits, PushTask, schedVars, addVars
<1>6. CASE StopScheduler
  BY <1>6 DEF StopScheduler, addVars
<1>7. CASE StopStep
  BY <1>7 DEF StopStep, StopLock, StopOne, StopClear, schedVars, addVars
<1>8. CASE SchedCancelled \/ SchedLoad \/ SchedAdded
  BY <1>8 DEF SchedCancelled, SchedLoad, SchedAdded, addVars
<1>9. CASE SchedDecide
  <2>1. apc["sched"] = "idle"
    BY <1>9 DEF SchedDecide
  <2> QED
    BY <1>9, <2>1 DEF SchedDecide
<1>10. CASE SchedDelete
  <2>1. apc["sched"] = "idle"
    BY <1>10 DEF SchedDelete
  <2> QED
    BY <1>10, <2>1 DEF SchedDelete
<1>11. ASSUME NEW w \in Worker, WorkerStep(w)  PROVE LockOK'
  BY <1>11, WorkerFrame DEF othersOfWorker, schedVars, addVars
<1>12. CASE AssertFails
  BY <1>12 DEF AssertFails
<1>13. CASE UNCHANGED tmVars
  BY <1>13 DEF tmVars, schedVars, addVars
<1> QED
  BY <1>1, <1>2, <1>3, <1>4, <1>5, <1>6, <1>7, <1>8, <1>9, <1>10, <1>11, <1>12,
     <1>13 DEF Next, SchedStep
-----------------------------------------------------------------------------
(* The stop.                                                               *)

\* StopOK is kept by every step.
LEMMA StopStepOK ==
    ASSUME TypeOK, LockOK, StopOK, [Next]_tmVars
    PROVE  StopOK'
<1> USE DEF TypeOK, LockOK, StopOK, Adding, Adders
<1>1. ASSUME NEW p \in Adders, AddStep(p)  PROVE StopOK'
  <2>1. CASE AddLock(p)
    BY <2>1 DEF AddLock, schedVars, workerVars
  <2>2. CASE AddTest(p)
    BY <2>2 DEF AddTest, workerVars
  <2>3. CASE AddCreate(p)
    BY <2>3 DEF AddCreate, schedVars
  <2>4. CASE AddPush(p)
    <3>1. client # "cancelling" /\ (client = "done" => p # "sched")
      BY <2>4 DEF AddPush
    <3>2. client # "done"
      BY <2>4, <3>1 DEF AddPush
    <3>3. cancelled' = {}
      BY <2>4, <3>1, <3>2 DEF AddPush, workerVars
    <3> QED
      BY <2>4, <3>1, <3>2, <3>3 DEF AddPush, schedVars
  <2> QED
    BY <1>1, <2>1, <2>2, <2>3, <2>4 DEF AddStep
<1>2. CASE StartScheduler \/ SetQueue \/ StartReturns \/ SetLimits \/ PushTask
           \/ StopScheduler
  BY <1>2 DEF StartScheduler, SetQueue, StartReturns, SetLimits, PushTask,
              StopScheduler, schedVars, addVars, workerVars
<1>3. CASE StopStep
  BY <1>3 DEF StopStep, StopLock, StopOne, StopClear, schedVars, addVars,
              workerVars
<1>4. CASE SchedCancelled \/ SchedLoad \/ SchedAdded \/ SchedDecide \/ SchedDelete
  BY <1>4 DEF SchedCancelled, SchedLoad, SchedAdded, SchedDecide, SchedDelete,
              addVars, workerVars
<1>5. ASSUME NEW w \in Worker, WorkerStep(w)  PROVE StopOK'
  <2>1. workers' \subseteq workers
    BY <1>5 DEF WorkerStep, Enter, QuerySurvive, PopTask, PopSleep, PopWake,
                RunTask, Cancelled, RmWorker, Leave
  <2> QED
    BY <1>5, <2>1, WorkerFrame DEF othersOfWorker, schedVars, addVars
<1>6. CASE AssertFails
  BY <1>6, ManagerAssumption DEF AssertFails
<1>7. CASE UNCHANGED tmVars
  BY <1>7 DEF tmVars, schedVars, addVars, workerVars
<1> QED
  BY <1>1, <1>2, <1>3, <1>4, <1>5, <1>6, <1>7 DEF Next, SchedStep

-----------------------------------------------------------------------------
(* The list.                                                               *)

\* Nobody has a thread at hand that is not on the list yet unless he holds the
\* lock, so that without a holder every thread is listed, cancelled or leaving.
LEMMA NoneAtHand ==
    ASSUME LockOK, ListOK, workLock = "free" \/ client = "cancelling"
    PROVE  \A p \in Adders : made[p] = NoWorker
BY DEF LockOK, ListOK, Adding, Adders

\* ListOK is kept by every step.
LEMMA ListStep ==
    ASSUME TypeOK, LockOK, StopOK, ListOK, ListedAreAlive, [Next]_tmVars
    PROVE  ListOK'
<1> USE DEF ListOK, Alive
<1>1. ASSUME NEW p \in Adders, AddStep(p)  PROVE ListOK'
  <2>1. CASE AddLock(p) \/ AddTest(p)
    BY <2>1 DEF AddLock, AddTest, workerVars, TypeOK
  <2>2. CASE AddCreate(p)
    <3>1. CASE Alive = Worker
      BY <2>2, <3>1 DEF AddCreate, TypeOK
    <3>2. CASE Alive # Worker
      <4>1. PICK w \in Worker \ Alive :
                /\ made' = [made EXCEPT ![p] = w]
                /\ wpc' = [wpc EXCEPT ![w] = "new"]
                /\ cancelled' = cancelled \ {w}
        BY <2>2, <3>2 DEF AddCreate
      <4>2. made[p] = NoWorker /\ workers' = workers
        BY <2>2 DEF AddCreate
      <4>3. wpc'[w] = "new" /\ made'[p] = w /\ wpc[w] = "none"
        BY <4>1 DEF TypeOK
      <4>4. \A v \in Worker \ {w} : wpc'[v] = wpc[v]
        BY <4>1 DEF TypeOK
      <4>5. \A q \in Adders \ {p} : made'[q] = made[q] /\ apc'[q] = apc[q]
        BY <2>2, <4>1 DEF AddCreate, TypeOK
      <4>6. apc'[p] = "created"
        BY <2>2 DEF AddCreate, TypeOK
      <4>7. \A q \in Adders \ {p} : made[q] # NoWorker =>
               made[q] \in Worker \ {w}
        BY <4>3 DEF TypeOK
      <4>8. ASSUME NEW q \in Adders, made'[q] # NoWorker
            PROVE  /\ apc'[q] = "created" /\ made'[q] \notin cancelled'
                   /\ wpc'[made'[q]] \notin {"none", "leave"}
        <5>1. CASE q = p
          BY <4>1, <4>3, <4>6, <5>1
        <5>2. CASE q # p
          <6>1. made'[q] = made[q] /\ made[q] \in Worker \ {w}
            BY <4>5, <4>7, <4>8, <5>2
          <6> QED
            BY <4>1, <4>4, <4>5, <4>8, <5>2, <6>1
        <5> QED
          BY <5>1, <5>2
      <4>9. ASSUME NEW v \in Worker, wpc'[v] = "leave"  PROVE v \notin workers'
        BY <4>2, <4>3, <4>4, <4>9
      <4>10. ASSUME NEW v \in Worker, wpc'[v] # "none"
             PROVE  \/ v \in workers' \cup cancelled' \/ wpc'[v] = "leave"
                    \/ \E q \in Adders : made'[q] = v
        <5>1. CASE v = w
          BY <4>3, <5>1
        <5>2. CASE v # w
          <6>1. \/ v \in workers \cup cancelled \/ wpc[v] = "leave"
                \/ \E q \in Adders \ {p} : made[q] = v
            BY <4>2, <4>4, <4>10, <5>2, ManagerAssumption
          <6> QED
            BY <4>1, <4>2, <4>4, <4>5, <5>2, <6>1
        <5> QED
          BY <5>1, <5>2
      <4> QED
        BY <4>8, <4>9, <4>10
    <3> QED
      BY <3>1, <3>2
  <2>3. CASE AddPush(p)
    BY <2>3, ManagerAssumption DEF AddPush, workerVars, TypeOK
  <2> QED
    BY <1>1, <2>1, <2>2, <2>3 DEF AddStep
<1>2. CASE StartScheduler \/ SetQueue \/ StartReturns \/ SetLimits \/ PushTask
           \/ StopScheduler
  BY <1>2 DEF StartScheduler, SetQueue, StartReturns, SetLimits, PushTask,
              StopScheduler, addVars, workerVars
<1>3. CASE StopStep
  <2>1. CASE StopLock
    BY <2>1 DEF StopLock, addVars, workerVars
  <2>2. CASE \E w \in Worker : StopOne(w)
    <3>1. \A p \in Adders : made[p] = NoWorker
      BY <2>2, NoneAtHand DEF StopOne
    <3> QED
      BY <2>2, <3>1 DEF StopOne, addVars
  <2>3. CASE StopClear
    BY <2>3 DEF StopClear, addVars, workerVars
  <2> QED
    BY <1>3, <2>1, <2>2, <2>3 DEF StopStep
<1>4. CASE SchedCancelled \/ SchedLoad \/ SchedAdded \/ SchedDecide \/ SchedDelete
  BY <1>4 DEF SchedCancelled, SchedLoad, SchedAdded, SchedDecide, SchedDelete,
              addVars, workerVars
<1>5. ASSUME NEW w \in Worker, WorkerStep(w)  PROVE ListOK'
  <2>1. CASE Enter(w) \/ QuerySurvive(w) \/ PopTask(w) \/ PopSleep(w)
             \/ PopWake(w) \/ RunTask(w)
    BY <2>1 DEF Enter, QuerySurvive, PopTask, PopSleep, PopWake, RunTask,
                othersOfWorker, addVars, TypeOK
  <2>2. CASE Cancelled(w)
    BY <2>2 DEF Cancelled, othersOfWorker, addVars, TypeOK
  <2>3. CASE RmWorker(w)
    <3>1. \A p \in Adders : made[p] = NoWorker
      BY <2>3, NoneAtHand DEF RmWorker
    <3> QED
      BY <2>3, <3>1 DEF RmWorker, othersOfWorker, addVars, TypeOK
  <2>4. CASE Leave(w)
    BY <2>4 DEF Leave, othersOfWorker, addVars, TypeOK
  <2> QED
    BY <1>5, <2>1, <2>2, <2>3, <2>4 DEF WorkerStep
<1>6. CASE AssertFails
  BY <1>6, ManagerAssumption DEF AssertFails
<1>7. CASE UNCHANGED tmVars
  BY <1>7 DEF tmVars, addVars, workerVars
<1> QED
  BY <1>1, <1>2, <1>3, <1>4, <1>5, <1>6, <1>7 DEF Next, SchedStep, Adders
\* ListedAreAlive is kept: a thread takes itself off the list before it ends,
\* unless it was cancelled.
LEMMA ListedStep ==
    ASSUME TypeOK, LockOK, StopOK, ListOK, ListedAreAlive, [Next]_tmVars
    PROVE  ListedAreAlive'
<1> USE DEF ListedAreAlive, Alive
<1>1. ASSUME NEW p \in Adders, AddStep(p)  PROVE ListedAreAlive'
  <2>1. CASE AddLock(p) \/ AddTest(p)
    BY <2>1 DEF AddLock, AddTest, workerVars
  <2>2. CASE AddCreate(p)
    <3>1. client # "cancelling"
      BY <2>2 DEF AddCreate, LockOK, Adding, Adders, StopOK
    <3>2. \A v \in workers : wpc[v] # "none"
      BY <3>1 DEF StopOK
    <3> QED
      BY <2>2, <3>2 DEF AddCreate, TypeOK
  <2>3. CASE AddPush(p)
    <3>1. wpc' = wpc /\ cancelled' = cancelled
      BY <2>3 DEF AddPush, workerVars
    <3>2. \A v \in workers' : v \in workers \/ wpc[v] # "none"
      BY <2>3 DEF AddPush, ListOK
    <3>3. workers' \subseteq Worker
      BY <2>3 DEF AddPush, TypeOK
    <3> QED
      BY <3>1, <3>2, <3>3
  <2> QED
    BY <1>1, <2>1, <2>2, <2>3 DEF AddStep
<1>2. CASE StartScheduler \/ SetQueue \/ StartReturns \/ SetLimits \/ PushTask
           \/ StopScheduler
  BY <1>2 DEF StartScheduler, SetQueue, StartReturns, SetLimits, PushTask,
              StopScheduler, workerVars
<1>3. CASE StopStep
  BY <1>3 DEF StopStep, StopLock, StopOne, StopClear, workerVars
<1>4. CASE SchedCancelled \/ SchedLoad \/ SchedAdded \/ SchedDecide \/ SchedDelete
  BY <1>4 DEF SchedCancelled, SchedLoad, SchedAdded, SchedDecide, SchedDelete,
              workerVars
<1>5. ASSUME NEW w \in Worker, WorkerStep(w)  PROVE ListedAreAlive'
  <2>1. CASE Enter(w) \/ QuerySurvive(w) \/ PopTask(w) \/ PopSleep(w)
             \/ PopWake(w) \/ RunTask(w) \/ RmWorker(w)
    BY <2>1 DEF Enter, QuerySurvive, PopTask, PopSleep, PopWake, RunTask,
                RmWorker, TypeOK
  <2>2. CASE Cancelled(w) \/ Leave(w)
    BY <2>2 DEF Cancelled, Leave, TypeOK, ListOK
  <2> QED
    BY <1>5, <2>1, <2>2 DEF WorkerStep
<1>6. CASE AssertFails
  BY <1>6, ManagerAssumption DEF AssertFails
<1>7. CASE UNCHANGED tmVars
  BY <1>7 DEF tmVars, workerVars
<1> QED
  BY <1>1, <1>2, <1>3, <1>4, <1>5, <1>6, <1>7 DEF Next, SchedStep, Adders

\* StopReachesAll is established by the end of stopThreads, when no creator
\* holds the lock, and kept by every step.
LEMMA ReachStep ==
    ASSUME TypeOK, LockOK, StopOK, ListOK, StopReachesAll, [Next]_tmVars
    PROVE  StopReachesAll'
<1> USE DEF StopReachesAll, Alive
<1>1. ASSUME NEW p \in Adders, AddStep(p)  PROVE StopReachesAll'
  <2>1. CASE AddLock(p) \/ AddTest(p) \/ AddPush(p)
    BY <2>1 DEF AddLock, AddTest, AddPush, workerVars
  <2>2. CASE AddCreate(p)
    <3>1. client' # "done"
      BY <2>2 DEF AddCreate, LockOK, Adding, Adders, StopOK
    <3> QED
      BY <3>1
  <2> QED
    BY <1>1, <2>1, <2>2 DEF AddStep
<1>2. CASE StartScheduler \/ SetQueue \/ StartReturns \/ SetLimits \/ PushTask
           \/ StopScheduler
  BY <1>2 DEF StartScheduler, SetQueue, StartReturns, SetLimits, PushTask,
              StopScheduler, workerVars
<1>3. CASE StopStep
  <2>1. CASE StopLock \/ \E w \in Worker : StopOne(w)
    BY <2>1 DEF StopLock, StopOne
  <2>2. CASE StopClear
    <3>1. \A p \in Adders : made[p] = NoWorker
      BY <2>2, NoneAtHand DEF StopClear
    <3>2. \A w \in Alive : w \in cancelled \/ wpc[w] = "leave"
      BY <2>2, <3>1, ManagerAssumption DEF StopClear, ListOK
    <3> QED
      BY <2>2, <3>2 DEF StopClear, workerVars
  <2> QED
    BY <1>3, <2>1, <2>2 DEF StopStep
<1>4. CASE SchedCancelled \/ SchedLoad \/ SchedAdded \/ SchedDecide \/ SchedDelete
  BY <1>4 DEF SchedCancelled, SchedLoad, SchedAdded, SchedDecide, SchedDelete,
              workerVars
<1>5. ASSUME NEW w \in Worker, WorkerStep(w)  PROVE StopReachesAll'
  <2>1. client' = client /\ cancelled' = cancelled
    BY <1>5, WorkerFrame DEF othersOfWorker
  <2>2. \A v \in Worker \ {w} : wpc'[v] = wpc[v]
    BY <1>5 DEF WorkerStep, Enter, QuerySurvive, PopTask, PopSleep, PopWake,
                RunTask, Cancelled, RmWorker, Leave, TypeOK
  <2>3. wpc'[w] # "none" => wpc[w] \notin {"none", "leave"}
    BY <1>5 DEF WorkerStep, Enter, QuerySurvive, PopTask, PopSleep, PopWake,
                RunTask, Cancelled, RmWorker, Leave, TypeOK
  <2> QED
    BY <2>1, <2>2, <2>3
<1>6. CASE AssertFails
  BY <1>6, ManagerAssumption DEF AssertFails
<1>7. CASE UNCHANGED tmVars
  BY <1>7 DEF tmVars, workerVars
<1> QED
  BY <1>1, <1>2, <1>3, <1>4, <1>5, <1>6, <1>7 DEF Next, SchedStep, Adders

-----------------------------------------------------------------------------
(* The counters and the types.                                             *)

\* The counters stay exact: every step that lets a worker in or out of the
\* counted positions counts it.
LEMMA CountStep ==
    ASSUME TypeOK, CountsAreExact, [Next]_tmVars
    PROVE  CountsAreExact'
<1> USE DEF CountsAreExact
<1>1. CASE UNCHANGED <<wpc, workerCount, activeCount>>
  BY <1>1 DEF Counted, Busy
<1>2. ASSUME NEW p \in Adders, AddCreate(p)  PROVE CountsAreExact'
  <2>1. Counted' = Counted /\ Busy' = Busy
    BY <1>2 DEF AddCreate, Counted, Busy, Alive, TypeOK
  <2> QED
    BY <1>2, <2>1 DEF AddCreate
<1>3. ASSUME NEW w \in Worker, WorkerStep(w)  PROVE CountsAreExact'
  <2>1. CASE Enter(w)
    <3>1. Counted' = Counted \cup {w} /\ w \notin Counted /\ Busy' = Busy
      BY <2>1 DEF Enter, Counted, Busy, TypeOK
    <3> QED
      BY <2>1, <3>1, CountedFinite, FS_AddElement DEF Enter
  <2>2. CASE QuerySurvive(w) \/ PopSleep(w) \/ PopWake(w) \/ RmWorker(w)
    <3>1. Counted' = Counted /\ Busy' = Busy
      BY <2>2 DEF QuerySurvive, PopSleep, PopWake, RmWorker, Counted, Busy,
                  TypeOK
    <3> QED
      BY <2>2, <3>1 DEF QuerySurvive, PopSleep, PopWake, RmWorker
  <2>3. CASE PopTask(w)
    <3>1. Counted' = Counted /\ Busy' = Busy \cup {w} /\ w \notin Busy
      BY <2>3 DEF PopTask, Counted, Busy, TypeOK
    <3> QED
      BY <2>3, <3>1, CountedFinite, FS_AddElement DEF PopTask
  <2>4. CASE RunTask(w)
    <3>1. Counted' = Counted /\ Busy' = Busy \ {w} /\ w \in Busy
      BY <2>4 DEF RunTask, Counted, Busy, TypeOK
    <3> QED
      BY <2>4, <3>1, CountedFinite, FS_RemoveElement DEF RunTask
  <2>5. CASE Cancelled(w) \/ Leave(w)
    <3>1. Counted' = Counted \ {w} /\ w \in Counted /\ Busy' = Busy
      BY <2>5 DEF Cancelled, Cancelable, Leave, Counted, Busy, TypeOK
    <3>2. workerCount' = workerCount - 1 /\ activeCount' = activeCount
      BY <2>5 DEF Cancelled, Cancelable, Leave
    <3> QED
      BY <3>1, <3>2, CountedFinite, FS_RemoveElement
  <2> QED
    BY <1>3, <2>1, <2>2, <2>3, <2>4, <2>5 DEF WorkerStep
<1>4. CASE AssertFails
  <2>1. Counted' = {} /\ Busy' = {}
    BY <1>4 DEF AssertFails, Counted, Busy
  <2> QED
    BY <1>4, <2>1, FS_EmptySet DEF AssertFails
<1> QED
  BY <1>1, <1>2, <1>3, <1>4
     DEF Next, SchedStep, AddStep, AddLock, AddTest, AddPush, StartScheduler,
         SetQueue, StartReturns, SetLimits, StopScheduler, StopStep, StopLock,
         StopOne, StopClear, PushTask, SchedCancelled, SchedLoad, SchedDecide,
         SchedDelete, SchedAdded, workerVars, tmVars, Adders

\* Types are kept.
LEMMA TypeStep ==
    ASSUME TypeOK, CountsAreExact, LockOK, [Next]_tmVars
    PROVE  TypeOK'
<1> USE DEF TypeOK
<1>1. workerCount' \in Nat /\ activeCount' \in Nat
  <2>1. CountsAreExact'
    BY CountStep
  <2>2. Cardinality(Counted)' \in Nat /\ Cardinality(Busy)' \in Nat
    <3>1. Counted' \subseteq Worker /\ Busy' \subseteq Worker
      BY DEF Counted, Busy
    <3> QED
      BY <3>1, ManagerAssumption, FS_Subset, FS_CardinalityType
  <2> QED
    BY <2>1, <2>2 DEF CountsAreExact
<1>2. ASSUME NEW p \in Adders, AddStep(p)  PROVE TypeOK'
  <2>1. CASE AddLock(p) \/ AddTest(p)
    BY <2>1 DEF AddLock, AddTest, workerVars, schedVars
  <2>2. CASE AddCreate(p)
    BY <2>2 DEF AddCreate, schedVars
  <2>3. CASE AddPush(p)
    <3>1. left[p] - 1 \in Nat
      BY <2>3 DEF AddPush, LockOK
    <3>2. left' \in [Adders -> Nat]
      BY <2>3, <3>1 DEF AddPush
    <3>3. workers' \subseteq Worker
      BY <2>3 DEF AddPush
    <3> QED
      BY <2>3, <3>2, <3>3 DEF AddPush, workerVars, schedVars, Adders
  <2> QED
    BY <1>2, <2>1, <2>2, <2>3 DEF AddStep
<1>3. CASE StartScheduler \/ StartReturns \/ StopScheduler \/ PushTask
  <2>1. CASE StartScheduler
    BY <2>1 DEF StartScheduler, workerVars, addVars
  <2>2. CASE StartReturns
    BY <2>2 DEF StartReturns, workerVars, addVars, schedVars
  <2>3. CASE StopScheduler
    BY <2>3 DEF StopScheduler, workerVars, addVars
  <2>4. CASE PushTask
    BY <2>4 DEF PushTask, workerVars, addVars, schedVars
  <2> QED
    BY <1>3, <2>1, <2>2, <2>3, <2>4
<1>4. CASE SetQueue
  <2>1. adjustThreadCount(InitCount, lo, hi) \in Nat
    BY LimitTypes, ManagerAssumption, ScheduleTypes
  <2> QED
    BY <1>4, <2>1 DEF SetQueue, workerVars, schedVars
<1>5. CASE SetLimits
  BY <1>5, ManagerAssumption DEF SetLimits, workerVars, schedVars, addVars
<1>6. CASE StopStep
  BY <1>6 DEF StopStep, StopLock, StopOne, StopClear, workerVars, schedVars,
              addVars, Adders
<1>7. CASE SchedCancelled \/ SchedLoad \/ SchedAdded
  BY <1>7 DEF SchedCancelled, SchedLoad, SchedAdded, workerVars, addVars
<1>8. CASE SchedDecide
  <2> DEFINE change == Change(expect, count, activeCount, lo, hi)
  <2>1. change \in Int /\ Expected(expect, count, activeCount, lo, hi) \in Nat
    BY LimitTypes, ScheduleTypes
  <2>2. (IF change > 0 THEN change ELSE -change) \in Nat
    BY <2>1
  <2>3. expect' \in Nat /\ left' \in [Adders -> Nat]
    BY <1>8, <2>1, <2>2 DEF SchedDecide
  <2> QED
    BY <1>8, <2>3 DEF SchedDecide, workerVars
<1>9. CASE SchedDelete
  BY <1>9 DEF SchedDelete, workerVars, Adders
<1>10. ASSUME NEW w \in Worker, WorkerStep(w)  PROVE TypeOK'
  <2>1. tasks' \in Nat /\ finished' \in Nat /\ deleteCount' \in Nat
    BY <1>10 DEF WorkerStep, Enter, QuerySurvive, PopTask, PopSleep, PopWake,
                 RunTask, Cancelled, RmWorker, Leave
  <2>2. wpc' \in [Worker -> {"none", "new", "ask", "pop", "wait", "run", "quit",
                             "leave"}] /\ workers' \subseteq Worker
    BY <1>10 DEF WorkerStep, Enter, QuerySurvive, PopTask, PopSleep, PopWake,
                 RunTask, Cancelled, RmWorker, Leave
  <2> QED
    BY <1>10, <1>1, <2>1, <2>2, WorkerFrame DEF othersOfWorker, schedVars, addVars
<1>11. CASE AssertFails
  BY <1>11 DEF AssertFails
<1>12. CASE UNCHANGED tmVars
  BY <1>12 DEF tmVars, workerVars, schedVars, addVars
<1> QED
  BY <1>2, <1>3, <1>4, <1>5, <1>6, <1>7, <1>8, <1>9, <1>10, <1>11, <1>12
     DEF Next, SchedStep, Adders

\* QueueOK is kept: only Enter gets a worker past the assertion.
LEMMA QueueStep ==
    ASSUME TypeOK, QueueOK, [Next]_tmVars
    PROVE  QueueOK'
<1> USE DEF TypeOK, QueueOK
<1>1. ASSUME NEW p \in Adders, AddStep(p)  PROVE QueueOK'
  BY <1>1 DEF AddStep, AddLock, AddTest, AddCreate, AddPush, workerVars
<1>2. CASE StartScheduler \/ SetQueue \/ StartReturns \/ SetLimits \/ PushTask
           \/ StopScheduler \/ StopStep
  BY <1>2 DEF StartScheduler, SetQueue, StartReturns, SetLimits, PushTask,
              StopScheduler, StopStep, StopLock, StopOne, StopClear, workerVars
<1>3. CASE SchedCancelled \/ SchedLoad \/ SchedAdded \/ SchedDecide \/ SchedDelete
  BY <1>3 DEF SchedCancelled, SchedLoad, SchedAdded, SchedDecide, SchedDelete,
              workerVars
<1>4. ASSUME NEW w \in Worker, WorkerStep(w)  PROVE QueueOK'
  BY <1>4 DEF WorkerStep, Enter, QuerySurvive, PopTask, PopSleep, PopWake,
              RunTask, Cancelled, RmWorker, Leave, othersOfWorker
<1>5. CASE AssertFails
  BY <1>5 DEF AssertFails
<1>6. CASE UNCHANGED tmVars
  BY <1>6 DEF tmVars, workerVars
<1> QED
  BY <1>1, <1>2, <1>3, <1>4, <1>5, <1>6 DEF Next, SchedStep, Adders

-----------------------------------------------------------------------------
(* The inductive invariant and the theorems.                               *)

\* The invariant holds before start.
LEMMA IInvInit == Init => IInv
<1> SUFFICES ASSUME Init PROVE IInv
  OBVIOUS
<1>1. TypeOK
  BY ManagerAssumption DEF Init, TypeOK
<1>2. CountsAreExact
  <2>1. Counted = {} /\ Busy = {}
    BY DEF Init, Counted, Busy
  <2> QED
    BY <2>1, FS_EmptySet DEF Init, CountsAreExact
<1> QED
  BY <1>1, <1>2 DEF Init, IInv, LockOK, StopOK, ListOK, ListedAreAlive,
                    StopReachesAll, QueueOK, Alive

\* Every step keeps it.
LEMMA IInvStep == IInv /\ [Next]_tmVars => IInv'
BY TypeStep, CountStep, LockStep, StopStepOK, ListStep, ListedStep, ReachStep,
   QueueStep DEF IInv

\* It holds in every state.
LEMMA IInvAlways == Spec => []IInv
BY IInvInit, IInvStep, PTL DEF Spec

\* Every variable keeps its type; deleteCount_ and the other unsigned counters
\* never go below zero.
THEOREM ManagerTypeCorrect == Spec => []TypeOK
BY IInvAlways, PTL DEF IInv

\* workerCount_ and activeCount_ count exactly the threads that have entered
\* threadWorker and run, for every way a thread can end.
THEOREM CountersAreExact == Spec => []CountsAreExact
BY IInvAlways, PTL DEF IInv

\* stopThreads never cancels a thread that has ended by itself.
THEOREM OnlyLivingAreListed == Spec => []ListedAreAlive
BY IInvAlways, PTL DEF IInv

\* No worker escapes stopThreads, not even one that the scheduler was about to
\* create.
THEOREM StopReachesEveryWorker == Spec => []StopReachesAll
BY IInvAlways, PTL DEF IInv

\* No worker is created after stopThreads has returned.
THEOREM NoWorkerAfterStop == Spec => NoBirthAfterStop
<1>1. IInv /\ [Next]_tmVars =>
        (client = "done" => \A w \in Worker : wpc'[w] = "new" => wpc[w] = "new")
  <2> SUFFICES ASSUME IInv, [Next]_tmVars, client = "done", NEW w \in Worker,
                      wpc'[w] = "new"
               PROVE  wpc[w] = "new"
    OBVIOUS
  <2>1. ASSUME NEW p \in Adders  PROVE ~AddCreate(p)
    BY DEF IInv, LockOK, StopOK, AddCreate, Adding, Adders
  <2>2. ASSUME NEW v \in Worker, WorkerStep(v)  PROVE wpc[w] = "new"
    BY <2>2 DEF WorkerStep, Enter, QuerySurvive, PopTask, PopSleep, PopWake,
                RunTask, Cancelled, RmWorker, Leave, IInv, TypeOK
  <2>3. CASE AssertFails
    BY <2>3 DEF AssertFails
  <2> QED
    BY <2>1, <2>2, <2>3
       DEF Next, SchedStep, AddStep, AddLock, AddTest, AddPush, StartScheduler,
           SetQueue, StartReturns, SetLimits, StopScheduler, StopStep, StopLock,
           StopOne, StopClear, PushTask, SchedCancelled, SchedLoad, SchedDecide,
           SchedDelete, SchedAdded, workerVars, tmVars, Adders
<1> QED
  BY <1>1, IInvAlways, PTL DEF NoBirthAfterStop, Spec

\* No task is ever lost, whatever is stopped, dismissed or cancelled meanwhile.
THEOREM NoTaskIsLost == Spec => TasksAreKept
<1>1. IInv /\ [Next]_tmVars => Known <= Known'
  <2> SUFFICES ASSUME IInv, [Next]_tmVars
               PROVE  Known <= Known'
    OBVIOUS
  <2>1. tasks \in Nat /\ activeCount \in Nat /\ finished \in Nat
    BY DEF IInv, TypeOK
  <2>2. ASSUME NEW w \in Worker, WorkerStep(w)  PROVE Known <= Known'
    BY <2>1, <2>2 DEF WorkerStep, Enter, QuerySurvive, PopTask, PopSleep, PopWake,
                      RunTask, Cancelled, Cancelable, RmWorker, Leave, Known
  <2>3. CASE PushTask
    BY <2>1, <2>3 DEF PushTask, workerVars, Known
  <2>4. CASE UNCHANGED <<tasks, activeCount, finished>>
    BY <2>1, <2>4 DEF Known
  <2>5. CASE AssertFails
    <3>1. Busy = {}
      BY <2>5 DEF AssertFails, IInv, QueueOK, Busy
    <3>2. activeCount = 0
      BY <3>1, FS_EmptySet DEF IInv, CountsAreExact
    <3> QED
      BY <2>1, <2>5, <3>2 DEF AssertFails, Known
  <2> QED
    BY <2>2, <2>3, <2>4, <2>5
       DEF Next, SchedStep, AddStep, AddLock, AddTest, AddCreate, AddPush,
           StartScheduler, SetQueue, StartReturns, SetLimits, StopScheduler,
           StopStep, StopLock, StopOne, StopClear, SchedCancelled, SchedLoad,
           SchedDecide, SchedDelete, SchedAdded, workerVars, tmVars
<1> QED
  BY <1>1, IInvAlways, PTL DEF TasksAreKept, Spec
=============================================================================
