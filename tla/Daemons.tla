------------------------------ MODULE Daemons ------------------------------
(***************************************************************************)
(* Servers that keep each other out with ProcessExclusion, some of them    *)
(* under DaemonMonitor (tools/system.hh): the monitor, which starts its    *)
(* server again after a crash, but not too often, and the XSI semaphore    *)
(* the servers contend for.                                                *)
(*                                                                         *)
(* dmMon is the monitor of a program: times and ign say what it remembers  *)
(* and whether SIGCHLD is ignored, forks when it has forked.  dmSrv is the *)
(* program's present server, dmEnd how the last one of a monitor ended.    *)
(* dmSem is the semaphore, adj what the system gives back when a server    *)
(* ends; dmSets counts the calls of setVal.                                *)
(*                                                                         *)
(* The clock is not set back: IsTimeout would let every restart through.   *)
(* A server that is not let in ends with exit code 1.                      *)
(***************************************************************************)
EXTENDS Integers, Sequences, FiniteSets

CONSTANTS
    Program,    \* programs that use one key
    Monitored,  \* those of them with a monitor; the others are started by hand
    KRestart,   \* kRestart (6)
    KTimeout,   \* kTimeout, in seconds (60)
    DmMaxTime   \* bound on the seconds that pass

VARIABLES dmNow, dmMon, dmSrv, dmEnd, dmSem, dmSets

dmVars == <<dmNow, dmMon, dmSrv, dmEnd, dmSem, dmSets>>
semVars == <<dmSem, dmSets>>

StartTime == KTimeout + 2       \* long after 1, the time before all
Ring == 0 .. KRestart - 1
NoMonitor == [pc |-> "none", index |-> 0, times |-> [i \in Ring |-> 1], ign |-> FALSE, forks |-> <<>>, why |-> "none"]

Crashes == {"SIGSEGV"}                              \* and ABRT, FPE, BUS, ILL
Ends == {"exit 0", "SIGKILL"} \cup Crashes
Inside == {"open", "create", "set", "apply", "wait", "run"}
Running == {p \in Program : dmSrv[p] = "run"}

Init ==
    /\ dmNow = StartTime
    /\ dmMon = [p \in Program |-> NoMonitor]
    /\ dmSrv = [p \in Program |-> "none"] /\ dmEnd = [p \in Program |-> "none"]
    /\ dmSem = [there |-> FALSE, val |-> 0, adj |-> [p \in Program |-> 0]]
    /\ dmSets = 0

Tick ==
    /\ dmNow < StartTime + DmMaxTime /\ dmNow' = dmNow + 1
    /\ UNCHANGED <<dmMon, dmSrv, dmEnd, semVars>>

----------------------------------------------------------------------------
\* Daemon: in the background, SIGCHLD ignored; or it cannot be.
Daemon(p) ==
    /\ p \in Monitored /\ dmMon[p].pc = "none"
    /\ dmMon' = [dmMon EXCEPT ![p].pc = "fork", ![p].ign = TRUE]
    /\ UNCHANGED <<dmNow, dmSrv, dmEnd, semVars>>

\* Time, in whole seconds
Time == dmNow

\* IsTimeout(oldtime, timeout, 0, 0)
IsTimeout(old, timeout) == old # 0 /\ (Time < old \/ Time > old + timeout)

Goto(p, pc) == dmSrv' = [dmSrv EXCEPT ![p] = pc]
Leave(p, why) == dmMon' = [dmMon EXCEPT ![p].pc = "exit", ![p].why = why]
Next1(i) == (i + 1) % KRestart

\* The fork, unless the one KRestart - 1 forks ago was less than KTimeout ago.
Fork(p) ==
    LET m == dmMon[p]
    IN  /\ m.pc = "fork"
        /\ IF ~IsTimeout(m.times[Next1(m.index)], KTimeout)
           THEN Leave(p, "too often") /\ UNCHANGED dmSrv
           ELSE \/ Leave(p, "no fork") /\ UNCHANGED dmSrv
                \/ /\ dmMon' = [dmMon EXCEPT ![p].pc = "forked", ![p].forks = Append(@, dmNow)]
                   /\ Goto(p, "open")
        /\ UNCHANGED <<dmNow, dmEnd, semVars>>

\* The time is noted, and SIGCHLD is no longer ignored from here on.
Forked(p) ==
    /\ dmMon[p].pc = "forked"
    /\ dmMon' = [dmMon EXCEPT ![p].pc = "wait", ![p].ign = FALSE,
                               ![p].times[dmMon[p].index] = Time, ![p].index = Next1(@)]
    /\ UNCHANGED <<dmNow, dmSrv, dmEnd, semVars>>

\* waitpid: a server that ended while SIGCHLD was ignored has left no status, which
\* counts as 0.  A crash means sleep(1) and another round.
Wait(p) ==
    LET status == IF dmSrv[p] = "gone" THEN "exit 0" ELSE dmEnd[p]
    IN  /\ dmMon[p].pc = "wait" /\ dmSrv[p] \in {"zombie", "gone"}
        /\ IF status \in Crashes THEN dmMon' = [dmMon EXCEPT ![p].pc = "sleep"] ELSE Leave(p, "ended")
        /\ Goto(p, "none")
        /\ UNCHANGED <<dmNow, dmEnd, semVars>>

Sleep(p) ==
    /\ dmMon[p].pc = "sleep" /\ dmNow > dmMon[p].times[(dmMon[p].index + KRestart - 1) % KRestart]
    /\ dmMon' = [dmMon EXCEPT ![p].pc = "fork"]
    /\ UNCHANGED <<dmNow, dmSrv, dmEnd, semVars>>

\* The monitor itself is killed; its server runs on.
Kill(p) ==
    /\ dmMon[p].pc \in {"fork", "forked", "wait", "sleep"}
    /\ Leave(p, "killed")
    /\ UNCHANGED <<dmNow, dmSrv, dmEnd, semVars>>

----------------------------------------------------------------------------
At(p, pc) == dmSrv[p] = pc /\ UNCHANGED <<dmNow, dmMon, dmEnd>>

\* A server without a monitor, with nobody who waits for its end.
Start(p) == p \notin Monitored /\ dmSrv[p] \in {"none", "gone"} /\ Goto(p, "open") /\ UNCHANGED <<dmNow, dmMon, dmEnd, semVars>>

\* ProcessExclusion, one system call after the other: the set of the key, made if it
\* is not there, with its value; and then the semaphore, with SEM_UNDO and a limit.
OpenSem(p) == At(p, "open") /\ Goto(p, IF dmSem.there THEN "apply" ELSE "create") /\ UNCHANGED semVars

CreateSem(p) ==
    /\ At(p, "create") /\ Goto(p, "set")
    /\ dmSem' = [dmSem EXCEPT !.there = TRUE]
    /\ UNCHANGED dmSets

\* semctl forgets what was to be undone.
SetVal(p) ==
    /\ At(p, "set") /\ Goto(p, "apply")
    /\ dmSem' = [dmSem EXCEPT !.val = 1, !.adj = [q \in Program |-> 0]]
    /\ dmSets' = dmSets + 1

TimeApply(p) ==
    /\ At(p, "apply") /\ dmSem.val > 0 /\ Goto(p, "run")
    /\ dmSem' = [dmSem EXCEPT !.val = @ - 1, !.adj[p] = @ + 1]
    /\ UNCHANGED dmSets

\* The end of a process, from within or from outside.
Ended(p, end) ==
    /\ Goto(p, IF dmMon[p].ign \/ dmMon[p].pc \in {"none", "exit"} THEN "gone" ELSE "zombie")
    /\ dmEnd' = IF p \in Monitored THEN [dmEnd EXCEPT ![p] = end] ELSE dmEnd
    /\ dmSem' = [dmSem EXCEPT !.val = @ + dmSem.adj[p], !.adj[p] = 0]
    /\ UNCHANGED <<dmNow, dmMon, dmSets>>

Excluded(p) == dmSrv[p] = "apply" /\ Ended(p, "exit 1")
End(p, end) == dmSrv[p] \in Inside /\ (end = "exit 0" => dmSrv[p] = "run") /\ Ended(p, end)

Next ==
    \/ Tick
    \/ \E p \in Program :
          \/ Daemon(p) \/ Start(p) \/ Fork(p) \/ Forked(p) \/ Wait(p) \/ Sleep(p) \/ Kill(p)
          \/ OpenSem(p) \/ CreateSem(p) \/ SetVal(p) \/ TimeApply(p) \/ Excluded(p)
          \/ \E end \in Ends : End(p, end)

Spec == Init /\ [][Next]_dmVars

----------------------------------------------------------------------------
TypeOK ==
    /\ dmSem.val \in 0..Cardinality(Program) /\ dmSem.adj \in [Program -> 0..1]
    /\ \A p \in Program : dmMon[p].times \in [Ring -> Nat] /\ dmMon[p].index \in Ring

\* No more servers run than there were calls of setVal, so that a second one needs two
\* starts that both found no semaphore; and whoever ends, in whatever way, lets one in
\* again, unless a creator died before it set the value (system.hh:207-217).
OnePerSetVal ==
    /\ Cardinality(Running) + dmSem.val <= dmSets
    /\ (dmSets > 0 /\ Running = {}) => dmSem.val > 0

\* system.hh:199 and 204-206 say that ProcessExclusion tells whether the process was
\* started more than once, and returns true when it was not: of the servers it lets in
\* no two run at the same time.
Exclusive == Cardinality(Running) <= 1

\* In no KTimeout seconds there are KRestart forks or more, whatever the time between
\* the fork and the note of its time (system.hh:110-134).
RestartsBounded ==
    \A p \in Program : LET f == dmMon[p].forks IN
        \A i \in 1 .. Len(f) - KRestart + 1 : f[i + KRestart - 1] - f[i] > KTimeout

\* system.hh:106 says that the program is restarted within a second of an abnormal
\* exit, and line 109 up to five times a minute: a monitor does not take the end of a
\* server that crashed for an orderly one.
CrashRestarts ==
    \A p \in Program : dmMon[p].why = "ended" => dmEnd[p] \notin Crashes
=============================================================================
