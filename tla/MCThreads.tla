----------------------------- MODULE MCThreads ------------------------------
(***************************************************************************)
(* One instance each of LockQueue and of ThreadManager, whose workers wait *)
(* in such a queue: in a behaviour one of the two runs, and the other      *)
(* stays as it began.  For TLC, which so checks what may never happen in   *)
(* either of them together; and in the queue alone, with other calls.      *)
(***************************************************************************)
EXTENDS LockQueue, TLC

CONSTANTS
    Parts,      \* "queue", "manager" or both: what there is to run
    t1, t2, t3, a, b,
    Worker, NoWorker, InitCount, MinCounts, MaxCounts, MaxTasks

VARIABLES focus, tasks, finished, wpc, cancelled, workers, workLock, workerCount, activeCount,
          deleteCount, limits, queueSet, client, spc, schedStop, expect, count, left, apc, made

MCThreads3 == {t1, t2, t3}
MCValues   == {a, b}
One == {a}

PushOf(v, w)     == [op |-> "push",    items |-> <<v>>, wait |-> w]
FrontOf(v, w)    == [op |-> "pushFront", items |-> <<v>>, wait |-> w]
BatchOf(s, w)    == [op |-> "pushAll", items |-> s, wait |-> w]
PopWith(w)       == [op |-> "pop",     items |-> <<>>, wait |-> w]
PopAllWith(w)    == [op |-> "popAll",  items |-> <<>>, wait |-> w]
ResetTop         == [op |-> "resetTopSize", items |-> <<>>, wait |-> "never"]

\* Every operation and every kind of wait; batches that fill the queue, an empty
\* one and one above the capacity.
AllCalls == {PushOf(a, "forever"), FrontOf(b, "never"),
             BatchOf(<<a, b>>, "forever"), BatchOf(<<a, a, b>>, "timed"),
             BatchOf(<<>>, "never"),
             PopWith("forever"), PopWith("timed"), PopAllWith("forever"), ResetTop}

\* Producers of one element beside producers of two.
MixedCalls == {PushOf(a, "forever"), BatchOf(<<a, a>>, "forever"),
               PopWith("never")}

NoCapacities == {}

----------------------------------------------------------------------------
Manager == INSTANCE ThreadManager

managerVars ==
    <<tasks, finished, wpc, cancelled, workers, workLock, workerCount, activeCount,
      deleteCount, limits, queueSet, client, spc, schedStop, expect, count, left, apc, made>>
allVars == <<focus, lqVars, managerVars>>

\* Without a manager that runs, its limits do not matter.
ThreadsInit ==
    /\ focus \in Parts
    /\ Init /\ Manager!Init
    /\ focus = "queue" => limits = CHOOSE l \in MinCounts \X MaxCounts : TRUE

ThreadsNext ==
    \/ focus = "queue" /\ Next /\ UNCHANGED <<focus, managerVars>>
    \/ focus = "manager" /\ Manager!Next /\ UNCHANGED <<focus, lqVars>>

ThreadsSpec == ThreadsInit /\ [][ThreadsNext]_allVars

SymmetricThreads == Permutations(MCThreads3) \cup Permutations(Worker)

----------------------------------------------------------------------------
\* The properties of the manager.
ManagerTypeOK == Manager!TypeOK
CountsAreExact == Manager!CountsAreExact
ListedAreAlive == Manager!ListedAreAlive
StopReachesAll == Manager!StopReachesAll
NoBirthAfterStop == Manager!NoBirthAfterStop
TasksAreKept == Manager!TasksAreKept
=============================================================================
