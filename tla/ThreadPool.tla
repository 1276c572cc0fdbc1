----------------------------- MODULE ThreadPool -----------------------------
(***************************************************************************)
(* CThreadPool (threads.hh) and the CThread objects in it.  tpThread is    *)
(* what each thread does: not there, created but not counted yet, in run,  *)
(* or ended; a cancelled thread goes on until it reaches a cancellation    *)
(* point in run.  tpList is threads_, tpCnt is cnt_ and tpCall the call    *)
(* the owner of the pool is in: starting, joining (with its place in       *)
(* threads_) or none.  tpJoined are the threads whose end was waited for.  *)
(*                                                                         *)
(* The owner joins or detaches every thread once; a second time is         *)
(* undefined (lines 112, 121), and neither empties threads_.               *)
(***************************************************************************)
EXTENDS Integers, Sequences, FiniteSets

CONSTANTS
    PoolSize    \* threadCount

VARIABLES tpThread, tpCancel, tpList, tpCnt, tpCall, tpJoined, tpDetached

tpVars == <<tpThread, tpCancel, tpList, tpCnt, tpCall, tpJoined, tpDetached>>

Threads == 1..PoolSize
NoCall == [do |-> "none", at |-> 0]
InPool(t) == \E i \in DOMAIN tpList : tpList[i] = t

Init ==
    /\ tpThread = [t \in Threads |-> "none"] /\ tpCancel = {}
    /\ tpList = <<>> /\ tpCnt = 0
    /\ tpCall = NoCall /\ tpJoined = {} /\ tpDetached = FALSE

\* startThreads: only a pool that never had a thread can be started.
Start ==
    /\ tpCall = NoCall /\ tpList = <<>>
    /\ tpCall' = [do |-> "start", at |-> 1]
    /\ UNCHANGED <<tpThread, tpCancel, tpList, tpCnt, tpJoined, tpDetached>>

\* CThread::start
Create(t) == tpThread' = [tpThread EXCEPT ![t] = "created"]

\* A thread more, or one that could not be created.
StartOne ==
    /\ tpCall.do = "start" /\ tpCall.at <= PoolSize
    /\ tpCall' = [tpCall EXCEPT !.at = @ + 1]
    /\ \/ /\ Create(tpCall.at)
          /\ tpList' = Append(tpList, tpCall.at)
       \/ UNCHANGED <<tpThread, tpList>>
    /\ UNCHANGED <<tpCancel, tpCnt, tpJoined, tpDetached>>

Started ==
    /\ tpCall.do = "start" /\ tpCall.at > PoolSize
    /\ tpCall' = NoCall
    /\ UNCHANGED <<tpThread, tpCancel, tpList, tpCnt, tpJoined, tpDetached>>

\* threadProc: counted while in run (CActive), however run ends.
Enter(t) ==
    /\ tpThread[t] = "created"
    /\ tpThread' = [tpThread EXCEPT ![t] = "run"]
    /\ tpCnt' = tpCnt + 1
    /\ UNCHANGED <<tpCancel, tpList, tpCall, tpJoined, tpDetached>>

\* run returns, or a cancelled thread is unwound at a cancellation point.
Leave(t) ==
    /\ tpThread[t] = "run"
    /\ tpThread' = [tpThread EXCEPT ![t] = "left"]
    /\ tpCnt' = tpCnt - 1
    /\ UNCHANGED <<tpCancel, tpList, tpCall, tpJoined, tpDetached>>

\* The thread is gone; run goes on for ever in a thread nobody cancels.
End(t) ==
    /\ tpThread[t] = "left"
    /\ tpThread' = [tpThread EXCEPT ![t] = "ended"]
    /\ UNCHANGED <<tpCancel, tpList, tpCnt, tpCall, tpJoined, tpDetached>>

\* stopThreads
Stop ==
    /\ tpCall = NoCall /\ tpList # <<>> /\ tpJoined = {} /\ ~tpDetached
    /\ tpCancel' = {t \in Threads : InPool(t)}
    /\ UNCHANGED <<tpThread, tpList, tpCnt, tpCall, tpJoined, tpDetached>>

\* joinThreads, one thread after the other.
Join ==
    /\ tpCall = NoCall /\ tpList # <<>> /\ tpJoined = {} /\ ~tpDetached
    /\ tpCall' = [do |-> "join", at |-> 1]
    /\ UNCHANGED <<tpThread, tpCancel, tpList, tpCnt, tpJoined, tpDetached>>

JoinOne ==
    /\ tpCall.do = "join"
    /\ tpThread[tpList[tpCall.at]] = "ended"
    /\ tpJoined' = tpJoined \cup {tpList[tpCall.at]}
    /\ tpCall' = IF tpCall.at = Len(tpList) THEN NoCall ELSE [tpCall EXCEPT !.at = @ + 1]
    /\ UNCHANGED <<tpThread, tpCancel, tpList, tpCnt, tpDetached>>

\* detachThreads
Detach ==
    /\ tpCall = NoCall /\ tpList # <<>> /\ tpJoined = {} /\ ~tpDetached
    /\ tpDetached' = TRUE
    /\ UNCHANGED <<tpThread, tpCancel, tpList, tpCnt, tpCall, tpJoined>>

Next ==
    \/ Start \/ StartOne \/ Started \/ Stop \/ Join \/ JoinOne \/ Detach
    \/ \E t \in Threads : Enter(t) \/ Leave(t) \/ End(t)

Spec == Init /\ [][Next]_tpVars

----------------------------------------------------------------------------
\* runningCount and stopped
Stopped == tpCnt = 0

TypeOK ==
    /\ tpThread \in [Threads -> {"none", "created", "run", "left", "ended"}]
    /\ tpCancel \subseteq Threads /\ tpJoined \subseteq Threads
    /\ tpCnt \in 0..PoolSize /\ tpCall.at \in 0..PoolSize + 1

\* stopped() of a pool whose threads were all waited for is true for good and no run
\* is left that could use the pool, also when some threads could not be created; and
\* cnt_ counts the calls of run (threads.hh:179-262).
JoinedIsStopped ==
    /\ tpCnt = Cardinality({t \in Threads : tpThread[t] = "run"})
    /\ \A t \in Threads : (tpThread[t] # "none") => InPool(t) \/ tpCall.do = "start"
    /\ (tpList # <<>> /\ tpCall = NoCall /\ tpJoined # {}) =>
          Stopped /\ \A t \in Threads : tpThread[t] \in {"none", "ended"}
=============================================================================
