------------------------------ MODULE MCQueues ------------------------------
(***************************************************************************)
(* One instance each of RingBuf, of LockQueue with producers of one        *)
(* element, and of ScheduleLoop, which decides how many threads serve a    *)
(* queue: in a behaviour one of the three runs, and the others stay as     *)
(* they began.  For TLC, which so checks them together.                    *)
(***************************************************************************)
EXTENDS RingBuf, ScheduleLoop

CONSTANTS t1, t2, t3, a, b, NoCall, NoThread

VARIABLES focus, con, capacity, topSize, owner, pc, call, need, reply

QueueThread == {t1, t2, t3}

\* Producers of one kind, so that the liveness graph stays small.
CallOf(name, items, wait) == [op |-> name, items |-> items, wait |-> wait]
LiveCalls == {CallOf("push", <<a>>, "forever"), CallOf("push", <<a>>, "timed"),
              CallOf("pop", <<>>, "forever"), CallOf("popAll", <<>>, "never")}

Queue == INSTANCE LockQueue WITH
             Threads <- QueueThread, Calls <- LiveCalls, Values <- {a},
             InitCapacity <- 2, Capacities <- {1}

queueVars == <<con, capacity, topSize, owner, pc, call, need, reply>>
allVars == <<focus, ringVars, loopVars, queueVars>>

QueuesInit ==
    /\ focus \in {"ring", "queue", "loop"}
    /\ Init /\ Queue!Init /\ LoopInit
    /\ focus # "loop" => <<count, active, lo, hi>> = <<0, 0, 0, 0>>

Focus(part, others) == focus = part /\ UNCHANGED <<focus, others>>
InRing == Focus("ring", <<loopVars, queueVars>>)
InQueue == Focus("queue", <<ringVars, loopVars>>)
InLoop == Focus("loop", <<ringVars, queueVars>>)

QueuesNext ==
    \/ Next /\ InRing
    \/ Queue!Next /\ InQueue
    \/ (Round \/ Load) /\ InLoop

\* The fairness of the parts that have one.
QueuesSpec ==
    /\ QueuesInit /\ [][QueuesNext]_allVars
    /\ \A t \in QueueThread : /\ SF_allVars(Queue!Step(t) /\ InQueue)
                              /\ WF_allVars(Queue!Timeout(t) /\ InQueue)
    /\ WF_allVars(Round /\ InLoop)

----------------------------------------------------------------------------
\* The properties of the queue.
PushWakeups == Queue!PushWakeups
NoStalledConsumer == Queue!NoStalledConsumer
NoStalledProducer == Queue!NoStalledProducer
=============================================================================
