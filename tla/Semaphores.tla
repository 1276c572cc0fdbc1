----------------------------- MODULE Semaphores -----------------------------
(***************************************************************************)
(* The semaphores of semaphore.hh: processes that share CSemaphore objects *)
(* of one name (CUnnamedSemaphore has the same calls) or CXsiSemaphoreSet  *)
(* objects of one key.  seKind is the class: "posix", "xsi", or "undo" for *)
(* sets whose operations are all made with SEM_UNDO.  seName is the set    *)
(* the name or key stands for (0 for none) and seSet every set ever made:  *)
(* its values, whether it is there, and what the system will add when a    *)
(* process dies; a CSemaphore is a set of which only one is used.          *)
(* seProc is a process: its semid_ or semp_ (0 when not valid), the call   *)
(* it waits in, and what it has taken, as the calls told it.               *)
(*                                                                         *)
(* Operations are functions from semaphores to what is added; 0 waits for  *)
(* zero.  The values are set while nobody has anything.                    *)
(***************************************************************************)
EXTENDS Integers, Sequences, FiniteSets

CONSTANTS
    SeProc,     \* processes
    Sem,        \* indexes of the semaphores of a set
    SemOps,     \* the operations callers make: functions from subsets of Sem
    SeMax,      \* bound on a value set
    MaxSets     \* bound on the sets made

VARIABLES seKind, seName, seSet, seProc

seVars == <<seKind, seName, seSet, seProc>>

Nothing == [s \in Sem |-> 0]
NoCall == [s \in {} |-> 0]
Object(id) == [id |-> id, told |-> Nothing, call |-> NoCall]

Init ==
    /\ seKind \in {"posix", "xsi", "undo"}
    /\ seName = 0 /\ seSet = <<>>
    /\ seProc = [p \in SeProc |-> Object(0)]

Usable(p) == seProc[p].id # 0 /\ seSet[seProc[p].id].there
Ready(p) == seProc[p].call = NoCall
Opened(p) == {q \in SeProc : seProc[q].id = seProc[p].id}
At(ops, s) == IF s \in DOMAIN ops THEN ops[s] ELSE 0
Positive(n) == IF n > 0 THEN n ELSE 0

----------------------------------------------------------------------------
\* sem_open and semget: what is there, or a new set if the flags say so.
CanOpen(create) == seName # 0 \/ (create /\ Len(seSet) < MaxSets)

\* getAll and getVal
Values(p) == seSet[seProc[p].id].val

\* The constructors and init: an object that is valid is not opened again; without
\* O_CREAT or IPC_CREAT the name must be there.
OpenSet(p, create) ==
    /\ Ready(p) /\ seProc[p].id = 0
    /\ CanOpen(create)
    /\ IF seName # 0
       THEN UNCHANGED <<seName, seSet>>
       ELSE /\ seName' = Len(seSet) + 1
            /\ seSet' = Append(seSet, [val |-> Nothing, adj |-> [q \in SeProc |-> Nothing], there |-> TRUE,
                                       made |-> Nothing])
    /\ seProc' = [seProc EXCEPT ![p] = Object(seName')]
    /\ UNCHANGED seKind

\* A mutant of CanDo: one operation that can be done is enough.
CanDoOne(val, ops) ==
    ops = <<>> \/ \E s \in DOMAIN ops : IF ops[s] = 0 THEN val[s] = 0 ELSE val[s] + ops[s] >= 0

\* sem_wait, sem_post and semop, all of the operations or none.
CanDo(val, ops) ==
    \A s \in DOMAIN ops : IF ops[s] = 0 THEN val[s] = 0 ELSE val[s] + ops[s] >= 0

\* GenOp: only operations with SEM_UNDO are undone.
Undo(ops, s) == IF seKind = "undo" THEN At(ops, s) ELSE 0

\* What is more than what a process has taken is made, not given back.
Made(p, ops, s) == Positive(At(ops, s) - seProc[p].told[s])

Done(p, ops) ==
    LET set == seSet[seProc[p].id]
        me == seProc[p]
    IN  /\ seSet' = [seSet EXCEPT ![me.id] =
                        [set EXCEPT !.val = [s \in Sem |-> set.val[s] + At(ops, s)],
                                    !.adj = [set.adj EXCEPT ![p] = [s \in Sem |-> set.adj[p][s] - Undo(ops, s)]],
                                    !.made = [s \in Sem |-> set.made[s] + Made(p, ops, s)]]]
        /\ seProc' = [seProc EXCEPT ![p] =
                        [me EXCEPT !.call = NoCall,
                                   !.told = [s \in Sem |-> me.told[s] - At(ops, s) + Made(p, ops, s)]]]

\* A semaphore alone is taken or posted; with SEM_UNDO only what was taken is posted.
Callable(p, ops) ==
    /\ seKind = "posix" => \E s \in DOMAIN ops : DOMAIN ops = {s} /\ ops[s] \in {-1, 1}
    /\ seKind = "undo" => \A s \in Sem : Made(p, ops, s) = 0
    /\ \A s \in Sem : seSet[seProc[p].id].made[s] + Made(p, ops, s) <= SeMax

\* wait, tryWait, timeWait, post, apply and timeApply: done at once, failed, or
\* waiting.  No operations are done without the system.
Apply(p, ops, wait) ==
    /\ seProc[p].id # 0 /\ Ready(p) /\ Callable(p, ops)
    /\ IF Usable(p) /\ CanDo(Values(p), ops)
       THEN Done(p, ops)
       ELSE /\ seProc' = IF Usable(p) /\ wait
                         THEN [seProc EXCEPT ![p].call = ops] ELSE seProc
            /\ UNCHANGED seSet
    /\ UNCHANGED <<seKind, seName>>

\* The values have changed (and what is made meanwhile stays inside SeMax).
Resume(p) ==
    /\ ~Ready(p) /\ Usable(p) /\ CanDo(Values(p), seProc[p].call) /\ Callable(p, seProc[p].call)
    /\ Done(p, seProc[p].call)
    /\ UNCHANGED <<seKind, seName>>

\* The time is up, a signal came (there is no second try), or the set was removed.
GiveUp(p) ==
    /\ ~Ready(p)
    /\ seProc' = [seProc EXCEPT ![p].call = NoCall]
    /\ UNCHANGED <<seKind, seName, seSet>>

----------------------------------------------------------------------------
\* The values of sem_open and setAll, or setVal for some: what would be undone is
\* forgotten.
SetValues(p, some, v) ==
    /\ Usable(p) /\ Ready(p) /\ (seKind = "posix" => Opened(p) = {p})
    /\ \A q \in Opened(p), s \in some : seProc[q].told[s] = 0
    /\ LET set == seSet[seProc[p].id]
           With(f, n) == [s \in Sem |-> IF s \in some THEN n ELSE f[s]]
       IN  seSet' = [seSet EXCEPT ![seProc[p].id] =
                       [set EXCEPT !.val = With(set.val, v), !.made = With(set.made, v),
                                   !.adj = [q \in SeProc |-> With(set.adj[q], 0)]]]
    /\ UNCHANGED <<seKind, seName, seProc>>

\* destroy of a set, for everybody, whether they wait or not.
Destroy(p) ==
    /\ seKind # "posix" /\ seProc[p].id # 0 /\ Ready(p)
    /\ seSet' = [seSet EXCEPT ![seProc[p].id].there = FALSE]
    /\ seName' = IF seName = seProc[p].id THEN 0 ELSE seName
    /\ seProc' = [seProc EXCEPT ![p] = Object(0)]
    /\ UNCHANGED seKind

\* Unlink: who has the semaphore keeps it.
Unlink ==
    /\ seKind = "posix" /\ seName # 0
    /\ seName' = 0
    /\ UNCHANGED <<seKind, seSet, seProc>>

\* The process ends or dies, at any point; a set stays, and so does what others have.
Die(p) ==
    /\ seProc[p].id # 0
    /\ LET set == seSet[seProc[p].id]
           told == seProc[p].told
       IN  seSet' = [seSet EXCEPT ![seProc[p].id] =
                       [set EXCEPT !.val = [s \in Sem |-> Positive(set.val[s] + set.adj[p][s])],
                                   !.adj = [set.adj EXCEPT ![p] = Nothing],
                                   !.made = [s \in Sem |-> set.made[s] - (IF seKind = "undo" THEN 0 ELSE told[s])]]]
    /\ seProc' = [seProc EXCEPT ![p] = Object(0)]
    /\ UNCHANGED <<seKind, seName>>

Next ==
    \/ Unlink
    \/ \E p \in SeProc :
          \/ \E create \in BOOLEAN : OpenSet(p, create)
          \/ \E ops \in SemOps, wait \in BOOLEAN : Apply(p, ops, wait)
          \/ Resume(p) \/ GiveUp(p) \/ Destroy(p) \/ Die(p)
          \/ \E some \in SUBSET Sem \ {{}}, v \in 0..SeMax : SetValues(p, some, v)

Spec == Init /\ [][Next]_seVars

----------------------------------------------------------------------------
TypeOK ==
    /\ seName \in 0..Len(seSet)
    /\ \A i \in DOMAIN seSet : \A s \in Sem : seSet[i].val[s] \in 0..SeMax
    /\ \A p \in SeProc : seProc[p].id \in 0..Len(seSet) /\ seProc[p].told \in [Sem -> 0..SeMax]

\* What the processes alive have of semaphore s of set i, unit by unit.
Taken(i, s) == {u \in SeProc \X (1..SeMax) : seProc[u[1]].id = i /\ u[2] <= seProc[u[1]].told[s]}

\* What the calls told the processes alive that they took, and what is left, is what
\* was made: a call that failed, timed out or waited took nothing of any semaphore,
\* and with SEM_UNDO what a dead process had is there again (semaphore.hh:142-276).
NothingLost ==
    \A i \in DOMAIN seSet : seSet[i].there =>
        \A s \in Sem : seSet[i].made[s] = seSet[i].val[s] + Cardinality(Taken(i, s))
=============================================================================
