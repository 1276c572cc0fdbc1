--------------------------- MODULE ThreadManager ----------------------------
(***************************************************************************)
(* CThreadManager (threads.hh): a scheduler thread adds and dismisses      *)
(* worker threads that run the tasks of a CLockQueue; a client starts and  *)
(* stops the whole.  Stopping is pthread_cancel, which takes a worker only *)
(* while it sleeps in pop (LockQueue's "notEmpty").                        *)
(*                                                                         *)
(* The queue is used as MessageQueue promises: pop takes a task at once or *)
(* sleeps; only the number of tasks matters here.                          *)
(*                                                                         *)
(* wpc[w], the position of worker thread w in threadWorker:                *)
(*   "none"   no such thread            "run"    task popped, in run(task) *)
(*   "new"    created, not yet counted  "quit"   dismissed, before rmWorker*)
(*   "ask"    before querySurvive       "leave"  out of workers_, about to *)
(*   "pop"    about to look for a task           uncount itself and end    *)
(*   "wait"   asleep in pop                                                *)
(* spc, of the scheduler: "none", "sleep", "decide", "add", "delete",      *)
(* "dead".  client: "new", "started", "adding", "running", "stopping",     *)
(* "cancelling", "done", "aborted".                                        *)
(***************************************************************************)
EXTENDS ThreadSchedule, FiniteSets

CONSTANTS Worker,     \* the threads the system has room for
          NoWorker,
          InitCount,  \* the initCount of startThreads
          MinCounts,  \* the values of threadCountMin_ in use
          MaxCounts,  \* and of threadCountMax_
          MaxTasks    \* bound: tasks ever pushed

ASSUME ManagerAssumption ==
    /\ NoWorker \notin Worker /\ IsFiniteSet(Worker)
    /\ InitCount \in Nat /\ MaxTasks \in Nat
    /\ MinCounts \subseteq Nat /\ MaxCounts \subseteq Nat

VARIABLES tasks,        \* length of the task queue
          finished,     \* how many tasks have been run
          wpc,          \* see above
          cancelled,    \* workers with a pending pthread_cancel
          workers,      \* workers_
          workLock,     \* who holds workLock_: "free", a thread or a worker
          workerCount,  \* workerCount_
          activeCount,  \* activeCount_
          deleteCount,  \* deleteCount_
          limits,       \* <<threadCountMin_, threadCountMax_>>
          queueSet,     \* inputQue_ is set
          client,       \* position of the client, see above
          spc,          \* position of the scheduler, see above
          schedStop,    \* pthread_cancel of the scheduler is pending
          expect,       \* locals of threadSchedule
          count,
          left,         \* left[p]: the threads p has still to add
          apc,          \* apc[p]: position of p in the loop of addThreads
          made          \* made[p]: the thread p has just created

workerVars == <<wpc, cancelled, workerCount, activeCount>>
addVars    == <<left, apc, made>>
schedVars  == <<spc, schedStop, expect, count>>
tmVars == <<tasks, finished, workerVars, workers, workLock, deleteCount,
            limits, queueSet, client, schedVars, addVars>>

Adders == {"client", "sched"}

Init == /\ tasks = 0 /\ finished = 0
        /\ wpc = [w \in Worker |-> "none"] /\ cancelled = {}
        /\ workers = {} /\ workLock = "free"
        /\ workerCount = 0 /\ activeCount = 0 /\ deleteCount = 0
        /\ limits \in MinCounts \X MaxCounts
        /\ queueSet = FALSE /\ client = "new"
        /\ spc = "none" /\ schedStop = FALSE /\ expect = 0 /\ count = 0
        /\ left = [p \in Adders |-> 0]
        /\ apc  = [p \in Adders |-> "idle"]
        /\ made = [p \in Adders |-> NoWorker]

lo == limits[1]
hi == limits[2]

\* The worker threads that exist.
Alive == {w \in Worker : wpc[w] # "none"}

-----------------------------------------------------------------------------
(* addThreads, by the client (startThreads) or by the scheduler.           *)

Adding(p) == IF p = "client" THEN client = "adding" ELSE spc = "add"

\* One round of the loop: the guard locks workLock_.
AddLock(p) ==
    /\ Adding(p) /\ apc[p] = "idle" /\ left[p] > 0 /\ workLock = "free"
    /\ workLock' = p
    /\ apc' = [apc EXCEPT ![p] = "locked"]
    /\ UNCHANGED <<tasks, finished, workerVars, workers, deleteCount, limits,
                   queueSet, client, schedVars, left, made>>

\* Mutant of AddTest: no pthread_testcancel.
AddNoTest(p) ==
    /\ apc[p] = "locked"
    /\ apc' = [apc EXCEPT ![p] = "tested"]
    /\ UNCHANGED <<tasks, finished, workerVars, workers, workLock, deleteCount,
                   limits, queueSet, client, schedVars, left, made>>

\* pthread_testcancel: a cancelled scheduler unwinds here and unlocks.
AddTest(p) ==
    /\ apc[p] = "locked"
    /\ IF p = "sched" /\ schedStop
       THEN /\ apc' = [apc EXCEPT ![p] = "idle"]
            /\ left' = [left EXCEPT ![p] = 0]
            /\ workLock' = "free" /\ spc' = "dead"
       ELSE /\ apc' = [apc EXCEPT ![p] = "tested"]
            /\ UNCHANGED <<left, workLock, spc>>
    /\ UNCHANGED <<tasks, finished, workerVars, workers, deleteCount, limits,
                   queueSet, client, schedStop, expect, count, made>>

\* pthread_create succeeds as long as the system has room; the new thread
\* runs from now on.
AddCreate(p) ==
    /\ apc[p] = "tested"
    /\ IF Alive = Worker
       THEN /\ made' = [made EXCEPT ![p] = NoWorker]
            /\ UNCHANGED <<wpc, cancelled>>
       ELSE \E w \in Worker \ Alive :
               /\ made' = [made EXCEPT ![p] = w]
               /\ wpc' = [wpc EXCEPT ![w] = "new"]
               /\ cancelled' = cancelled \ {w}
    /\ apc' = [apc EXCEPT ![p] = "created"]
    /\ UNCHANGED <<tasks, finished, workers, workLock, workerCount, activeCount,
                   deleteCount, limits, queueSet, client, schedVars, left>>

\* workers_.push_back(t) if there is a t; the guard unlocks.
AddPush(p) ==
    /\ apc[p] = "created"
    /\ workers' = workers \cup ({made[p]} \ {NoWorker})
    /\ made' = [made EXCEPT ![p] = NoWorker]
    /\ left' = [left EXCEPT ![p] = @ - 1]
    /\ apc'  = [apc  EXCEPT ![p] = "idle"]
    /\ workLock' = "free"
    /\ UNCHANGED <<tasks, finished, workerVars, deleteCount, limits, queueSet,
                   client, schedVars>>

-----------------------------------------------------------------------------
(* The client: startThreads, changes of the limits, stopThreads.           *)

StartScheduler ==
    /\ client = "new"
    /\ client' = "started" /\ spc' = "sleep"
    /\ UNCHANGED <<tasks, finished, workerVars, workers, workLock, deleteCount,
                   limits, queueSet, schedStop, expect, count, addVars>>

\* inputQue_ = &inputQue; addThreads(adjustThreadCount(initCount)).
SetQueue ==
    /\ client = "started"
    /\ client' = "adding" /\ queueSet' = TRUE
    /\ left' = [left EXCEPT !["client"] = adjustThreadCount(InitCount, lo, hi)]
    /\ UNCHANGED <<tasks, finished, workerVars, workers, workLock, deleteCount,
                   limits, schedVars, apc, made>>

StartReturns ==
    /\ client = "adding" /\ left["client"] = 0
    /\ client' = "running"
    /\ UNCHANGED <<tasks, finished, workerVars, workers, workLock, deleteCount,
                   limits, queueSet, schedVars, addVars>>

\* threadCountMin(count) or threadCountMax(count).
SetLimits ==
    /\ client = "running"
    /\ limits' \in MinCounts \X MaxCounts
    /\ lo' = lo \/ hi' = hi
    /\ UNCHANGED <<tasks, finished, workerVars, workers, workLock, deleteCount,
                   queueSet, client, schedVars, addVars>>

\* sched_.stop().
StopScheduler ==
    /\ client = "running"
    /\ client' = "stopping" /\ schedStop' = TRUE
    /\ UNCHANGED <<tasks, finished, workerVars, workers, workLock, deleteCount,
                   limits, queueSet, spc, expect, count, addVars>>

StopLock ==
    /\ client = "stopping" /\ workLock = "free"
    /\ client' = "cancelling" /\ workLock' = "client"
    /\ UNCHANGED <<tasks, finished, workerVars, workers, deleteCount, limits,
                   queueSet, schedVars, addVars>>

\* it->stop() for one worker of the list.
StopOne(w) ==
    /\ client = "cancelling" /\ w \in workers \ cancelled
    /\ cancelled' = cancelled \cup {w}
    /\ UNCHANGED <<tasks, finished, wpc, workerCount, activeCount, workers,
                   workLock, deleteCount, limits, queueSet, client, schedVars,
                   addVars>>

\* Mutant of StopClear: the list is cleared before its threads are stopped.
StopClearFirst ==
    /\ client = "cancelling"
    /\ workers' = {} /\ workLock' = "free" /\ client' = "done"
    /\ UNCHANGED <<tasks, finished, workerVars, deleteCount, limits, queueSet,
                   schedVars, addVars>>

\* workers_.clear() and unlock.
StopClear ==
    /\ client = "cancelling" /\ workers \subseteq cancelled
    /\ workers' = {} /\ workLock' = "free" /\ client' = "done"
    /\ UNCHANGED <<tasks, finished, workerVars, deleteCount, limits, queueSet,
                   schedVars, addVars>>

\* Somebody pushes a task.
PushTask ==
    /\ client # "aborted"
    /\ tasks + finished + activeCount < MaxTasks
    /\ tasks' = tasks + 1
    /\ UNCHANGED <<finished, workerVars, workers, workLock, deleteCount, limits,
                   queueSet, client, schedVars, addVars>>

-----------------------------------------------------------------------------
(* The scheduler thread.                                                   *)

\* sleep and usleep are cancellation points.
SchedCancelled ==
    /\ spc = "sleep" /\ schedStop
    /\ spc' = "dead"
    /\ UNCHANGED <<tasks, finished, workerVars, workers, workLock, deleteCount,
                   limits, queueSet, client, schedStop, expect, count, addVars>>

\* count = workerCount_.load().  Nothing but a sleep(1) keeps the first round
\* behind startThreads' assignment of inputQue_.
SchedLoad ==
    /\ spc = "sleep"
    /\ count' = workerCount /\ spc' = "decide"
    /\ UNCHANGED <<tasks, finished, workerVars, workers, workLock, deleteCount,
                   limits, queueSet, client, schedStop, expect, addVars>>

\* activeCount_.load() and the arithmetic; count is a local of the round.
SchedDecide ==
    /\ spc = "decide"
    /\ expect' = Expected(expect, count, activeCount, lo, hi) /\ count' = 0
    /\ LET change == Change(expect, count, activeCount, lo, hi)
       IN  /\ left' = [left EXCEPT !["sched"] = IF change > 0 THEN change
                                                             ELSE -change]
           /\ spc' = IF change > 0 THEN "add"
                     ELSE IF change < 0 THEN "delete" ELSE "sleep"
    /\ UNCHANGED <<tasks, finished, workerVars, workers, workLock, deleteCount,
                   limits, queueSet, client, schedStop, apc, made>>

\* deleteCount_ = -add.
SchedDelete ==
    /\ spc = "delete"
    /\ deleteCount' = left["sched"]
    /\ left' = [left EXCEPT !["sched"] = 0]
    /\ spc' = "sleep"
    /\ UNCHANGED <<tasks, finished, workerVars, workers, workLock, limits,
                   queueSet, client, schedStop, expect, count, apc, made>>

SchedAdded ==
    /\ spc = "add" /\ left["sched"] = 0
    /\ spc' = "sleep"
    /\ UNCHANGED <<tasks, finished, workerVars, workers, workLock, deleteCount,
                   limits, queueSet, client, schedStop, expect, count, addVars>>

-----------------------------------------------------------------------------
(* A worker thread.                                                        *)

othersOfWorker == <<workLock, limits, queueSet, client, schedVars, addVars>>

\* assert(self.inputQue_) holds; CActive a(workerCount_).
Enter(w) ==
    /\ wpc[w] = "new" /\ queueSet
    /\ wpc' = [wpc EXCEPT ![w] = "ask"]
    /\ workerCount' = workerCount + 1
    /\ UNCHANGED <<tasks, finished, cancelled, workers, activeCount,
                   deleteCount, othersOfWorker>>

\* assert(self.inputQue_) fails: abort() ends the process, every thread of it
\* and its client.
AssertFails ==
    /\ ~queueSet /\ \E w \in Worker : wpc[w] = "new"
    /\ client' = "aborted" /\ spc' = "dead"
    /\ wpc' = [w \in Worker |-> "none"] /\ cancelled' = {} /\ workers' = {}
    /\ workerCount' = 0 /\ activeCount' = 0 /\ deleteCount' = 0
    /\ workLock' = "free"
    /\ left' = [p \in Adders |-> 0] /\ apc' = [p \in Adders |-> "idle"]
    /\ made' = [p \in Adders |-> NoWorker]
    /\ UNCHANGED <<tasks, finished, limits, queueSet, schedStop, expect, count>>

\* Mutant of QuerySurvive: the counter is taken without a test.
QueryUntested(w) ==
    /\ wpc[w] = "ask"
    /\ deleteCount' = deleteCount - 1
    /\ wpc' = [wpc EXCEPT ![w] = IF deleteCount > 0 THEN "quit" ELSE "pop"]
    /\ UNCHANGED <<tasks, finished, cancelled, workers, workerCount,
                   activeCount, othersOfWorker>>

\* Mutant of QuerySurvive: a dismissal is never used up.
QueryKeeps(w) ==
    /\ wpc[w] = "ask"
    /\ wpc' = [wpc EXCEPT ![w] = IF deleteCount > 0 THEN "quit" ELSE "pop"]
    /\ UNCHANGED <<tasks, finished, cancelled, workers, workerCount, deleteCount,
                   activeCount, othersOfWorker>>

\* querySurvive: take one dismissal if there is any.
QuerySurvive(w) ==
    /\ wpc[w] = "ask"
    /\ IF deleteCount > 0
       THEN wpc' = [wpc EXCEPT ![w] = "quit"] /\ deleteCount' = deleteCount - 1
       ELSE wpc' = [wpc EXCEPT ![w] = "pop"]  /\ UNCHANGED deleteCount
    /\ UNCHANGED <<tasks, finished, cancelled, workers, workerCount,
                   activeCount, othersOfWorker>>

\* pop finds a task; CActive b(activeCount_); cancellation is disabled.
PopTask(w) ==
    /\ wpc[w] = "pop" /\ tasks > 0
    /\ tasks' = tasks - 1
    /\ wpc' = [wpc EXCEPT ![w] = "run"]
    /\ activeCount' = activeCount + 1
    /\ UNCHANGED <<finished, cancelled, workers, workerCount, deleteCount,
                   othersOfWorker>>

\* pop finds none and sleeps.
PopSleep(w) ==
    /\ wpc[w] = "pop" /\ tasks = 0
    /\ wpc' = [wpc EXCEPT ![w] = "wait"]
    /\ UNCHANGED <<tasks, finished, cancelled, workers, workerCount,
                   activeCount, deleteCount, othersOfWorker>>

\* A wake-up that finds a task (one that finds none goes back to sleep).
PopWake(w) ==
    /\ wpc[w] = "wait" /\ tasks > 0
    /\ wpc' = [wpc EXCEPT ![w] = "pop"]
    /\ UNCHANGED <<tasks, finished, cancelled, workers, workerCount,
                   activeCount, deleteCount, othersOfWorker>>

\* run(task) returns; cancellation is enabled again.
RunTask(w) ==
    /\ wpc[w] = "run"
    /\ wpc' = [wpc EXCEPT ![w] = "ask"]
    /\ finished' = finished + 1
    /\ activeCount' = activeCount - 1
    /\ UNCHANGED <<tasks, cancelled, workers, workerCount, deleteCount,
                   othersOfWorker>>

\* Mutant of Cancelable: cancellation stays enabled around run.
AlwaysCancelable(w) == TRUE

\* PTHREAD_CANCEL_DISABLE is set exactly around run.
Cancelable(w) == wpc[w] # "run"

\* A pending cancellation takes effect where the thread sleeps; unwinding
\* runs the destructors of a and b.
Cancelled(w) ==
    /\ w \in cancelled /\ wpc[w] \in {"wait", "run"} /\ Cancelable(w)
    /\ wpc' = [wpc EXCEPT ![w] = "none"]
    /\ workerCount' = workerCount - 1
    /\ activeCount' = IF wpc[w] = "run" THEN activeCount - 1 ELSE activeCount
    /\ UNCHANGED <<tasks, finished, cancelled, workers, deleteCount,
                   othersOfWorker>>

\* Mutant of RmWorker: the list keeps the thread.
RmWorkerForgotten(w) ==
    /\ wpc[w] = "quit" /\ workLock = "free"
    /\ wpc' = [wpc EXCEPT ![w] = "leave"]
    /\ UNCHANGED <<tasks, finished, cancelled, workers, workerCount,
                   activeCount, deleteCount, othersOfWorker>>

\* rmWorker(pthread_self()): one critical section of workLock_.
RmWorker(w) ==
    /\ wpc[w] = "quit" /\ workLock = "free"
    /\ workers' = workers \ {w}
    /\ wpc' = [wpc EXCEPT ![w] = "leave"]
    /\ UNCHANGED <<tasks, finished, cancelled, workerCount, activeCount,
                   deleteCount, othersOfWorker>>

\* Mutant of Leave: the thread ends without uncounting itself.
LeaveCounted(w) ==
    /\ wpc[w] = "leave"
    /\ wpc' = [wpc EXCEPT ![w] = "none"]
    /\ UNCHANGED <<tasks, finished, cancelled, workers, workerCount,
                   activeCount, deleteCount, othersOfWorker>>

\* The destructor of a; the thread ends.
Leave(w) ==
    /\ wpc[w] = "leave"
    /\ wpc' = [wpc EXCEPT ![w] = "none"]
    /\ workerCount' = workerCount - 1
    /\ UNCHANGED <<tasks, finished, cancelled, workers, activeCount,
                   deleteCount, othersOfWorker>>

-----------------------------------------------------------------------------
AddStep(p) == AddLock(p) \/ AddTest(p) \/ AddCreate(p) \/ AddPush(p)

StopStep == StopLock \/ (\E w \in Worker : StopOne(w)) \/ StopClear

SchedStep == \/ SchedCancelled \/ SchedLoad \/ SchedDecide \/ SchedDelete
             \/ SchedAdded \/ AddStep("sched")

WorkerStep(w) == \/ Enter(w) \/ QuerySurvive(w) \/ PopTask(w) \/ PopSleep(w)
                 \/ PopWake(w) \/ RunTask(w) \/ Cancelled(w) \/ RmWorker(w)
                 \/ Leave(w)

Next == \/ StartScheduler \/ SetQueue \/ AddStep("client") \/ StartReturns
        \/ SetLimits \/ StopScheduler \/ StopStep \/ PushTask
        \/ SchedStep \/ AssertFails
        \/ \E w \in Worker : WorkerStep(w)

Spec == Init /\ [][Next]_tmVars

\* What the client's thread does once it is inside startThreads or stopThreads.
ClientStep == SetQueue \/ AddStep("client") \/ StartReturns \/ StopStep

\* Every thread that can go on goes on: the scheduler, the workers, and the client
\* inside a call.  It need not call, nobody need push, and a lock that is taken
\* again and again may be withheld for ever.
Fairness == /\ WF_tmVars(SchedStep) /\ WF_tmVars(ClientStep)
            /\ \A w \in Worker : WF_tmVars(WorkerStep(w))

FairSpec == Spec /\ Fairness
-----------------------------------------------------------------------------
(* Properties.                                                             *)

TypeOK ==
    /\ tasks \in Nat /\ finished \in Nat
    /\ wpc \in [Worker -> {"none", "new", "ask", "pop", "wait", "run", "quit",
                           "leave"}]
    /\ cancelled \subseteq Worker /\ workers \subseteq Worker
    /\ workLock \in {"free"} \cup Adders
    /\ workerCount \in Nat /\ activeCount \in Nat /\ deleteCount \in Nat
    /\ limits \in Nat \X Nat
    /\ queueSet \in BOOLEAN /\ schedStop \in BOOLEAN
    /\ client \in {"new", "started", "adding", "running", "stopping",
                   "cancelling", "done", "aborted"}
    /\ spc \in {"none", "sleep", "decide", "add", "delete", "dead"}
    /\ expect \in Nat /\ count \in Nat
    /\ left \in [Adders -> Nat]
    /\ apc \in [Adders -> {"idle", "locked", "tested", "created"}]
    /\ made \in [Adders -> Worker \cup {NoWorker}]

\* The counters the scheduler reads are exact, whichever way a worker ends: by
\* dismissal, or by a cancellation that unwinds its CActive (threads.hh:420).
Counted == {w \in Worker : wpc[w] \notin {"none", "new"}}
Busy    == {w \in Worker : wpc[w] = "run"}
CountsAreExact == /\ workerCount = Cardinality(Counted)
                  /\ activeCount = Cardinality(Busy)

\* workers_ never names a thread that has ended on its own, so stopThreads
\* never cancels a detached thread that is gone (threads.hh:329).
ListedAreAlive == \A w \in workers : w \in Alive \/ w \in cancelled

\* Once stopThreads has returned, every worker that exists has been cancelled
\* or is on its way out: none slips in through a scheduler that was already
\* creating it (threads.hh:452).
StopReachesAll ==
    client = "done" =>
        \A w \in Alive : w \in cancelled \/ wpc[w] = "leave"

\* ... and none is created afterwards.
NoBirthAfterStop ==
    [][client = "done" => \A w \in Worker : wpc'[w] = "new" => wpc[w] = "new"]_tmVars

\* No stop and no dismissal makes a task vanish that was pushed: it is queued,
\* running or finished for ever (threads.hh:424).
Known == tasks + activeCount + finished
TasksAreKept == [][Known <= Known']_tmVars

\* After stopThreads every thread ends once pushing ends: the tasks that are
\* queued keep the workers going, and none of them misses its cancellation.
StopEndsAll == client = "done" ~> (Alive = {} /\ spc = "dead")

\* While the manager runs, queued tasks are taken sooner or later, whatever
\* limits are set and whoever is dismissed, if from some point on the interval
\* between two rounds (threads.hh:381) is long enough for the threads that start
\* or end to do so.
Settled == \A w \in Worker : wpc[w] \notin {"new", "ask", "quit", "leave"}
RoundsSettle == <>[][SchedLoad => Settled]_tmVars
TasksAreTaken ==
    RoundsSettle => (tasks > 0 /\ client = "running" ~> tasks = 0 \/ client # "running")

\* threads.hh:352 says that stopped() tells whether all threads have stopped.
StoppedMeansStopped == client = "done" /\ workerCount = 0 => Alive = {}
=============================================================================
