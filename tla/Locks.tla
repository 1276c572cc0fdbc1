------------------------------- MODULE Locks -------------------------------
(***************************************************************************)
(* The lock classes of mutex.hh behind CLockAdapter and CGuard: threads    *)
(* that take one lock to read or to write, waiting, trying or for a time.  *)
(* lkKind is the class: CMutex, CRWLock, CSpinLock or CFileLock.  lkHeld   *)
(* is what the system has granted: to a thread, or for a file lock to an   *)
(* open file.  lkGuard is what a thread believes: the mode it has asked    *)
(* for with success; lkTry the mode of a timed call and the attempts the   *)
(* clock leaves it, the last of which comes after the time is up.          *)
(*                                                                         *)
(* A thread asks for one lock at a time, and unlocks what it has.          *)
(***************************************************************************)
EXTENDS Integers, FiniteSets

CONSTANTS
    LkThread,       \* threads
    FileOf,         \* the CFileLock object of each thread: a function
    MaxAttempts     \* bound on the attempts of a timed call

VARIABLES lkKind, lkHeld, lkGuard, lkTry

lkVars == <<lkKind, lkHeld, lkGuard, lkTry>>

Kinds == {"mutex", "rwlock", "spin", "file"}
Modes == {"read", "write"}
Owner(t) == IF lkKind = "file" THEN FileOf[t] ELSE t
Owners == LkThread \cup {FileOf[t] : t \in LkThread}
NoTry == [mode |-> "none", left |-> 0]

Init ==
    /\ lkKind \in Kinds
    /\ lkHeld = [o \in Owners |-> "none"]
    /\ lkGuard = [t \in LkThread |-> "none"]
    /\ lkTry = [t \in LkThread |-> NoTry]

\* CLockAdapter: a mutex and a spin lock have one way to be locked.
Adapted(mode) == IF lkKind \in {"mutex", "spin"} THEN "write" ELSE mode

\* What the system grants: flock of an open file that holds the lock converts it.
Compatible(t, mode) ==
    \A o \in Owners \ (IF lkKind = "file" THEN {Owner(t)} ELSE {}) :
        lkHeld[o] = "none" \/ (lkHeld[o] = "read" /\ Adapted(mode) = "read")

Granted(t, mode) ==
    /\ Compatible(t, mode)
    /\ lkHeld' = [lkHeld EXCEPT ![Owner(t)] = Adapted(mode)]
    /\ lkGuard' = [lkGuard EXCEPT ![t] = mode]

Free(t) == lkGuard[t] = "none" /\ lkTry[t] = NoTry

\* readLock and writeLock, as CGuard calls them: to read through a constant or when
\* told so, to write otherwise.
Lock(t, mode) == Free(t) /\ Granted(t, mode) /\ UNCHANGED <<lkKind, lkTry>>

\* tryReadLock and tryWriteLock.
TryLock(t, mode) ==
    /\ Free(t)
    /\ IF Compatible(t, mode) THEN Granted(t, mode) ELSE UNCHANGED <<lkHeld, lkGuard>>
    /\ UNCHANGED <<lkKind, lkTry>>

\* timeReadLock and timeWriteLock: spin and file locks try until the time is up, and
\* once if it is up already.
TimeLock(t, mode, left) ==
    /\ Free(t)
    /\ lkTry' = [lkTry EXCEPT ![t] = [mode |-> mode, left |-> left]]
    /\ UNCHANGED <<lkKind, lkHeld, lkGuard>>

Attempt(t) ==
    LET call == lkTry[t]
    IN  /\ call.mode # "none"
        /\ IF Compatible(t, call.mode)
           THEN Granted(t, call.mode) /\ lkTry' = [lkTry EXCEPT ![t] = NoTry]
           ELSE /\ lkTry' = [lkTry EXCEPT ![t] = IF call.left = 0 THEN NoTry ELSE [call EXCEPT !.left = call.left - 1]]
                /\ UNCHANGED <<lkHeld, lkGuard>>
        /\ UNCHANGED lkKind

\* ~CGuard
Unlock(t) ==
    /\ lkGuard[t] # "none"
    /\ lkHeld' = [lkHeld EXCEPT ![Owner(t)] = "none"]
    /\ lkGuard' = [lkGuard EXCEPT ![t] = "none"]
    /\ UNCHANGED <<lkKind, lkTry>>

Next ==
    \E t \in LkThread :
        \/ Unlock(t) \/ Attempt(t)
        \/ \E mode \in Modes :
              \/ Lock(t, mode) \/ TryLock(t, mode)
              \/ \E left \in 0..MaxAttempts : TimeLock(t, mode, left)

Spec == Init /\ [][Next]_lkVars

----------------------------------------------------------------------------
TypeOK ==
    /\ lkKind \in Kinds /\ lkHeld \in [Owners -> Modes \cup {"none"}]
    /\ lkGuard \in [LkThread -> Modes \cup {"none"}]
    /\ \A t \in LkThread : lkTry[t] = NoTry \/ lkTry[t] \in [mode : Modes, left : 0..MaxAttempts]

Alone(t) == lkKind = "file" => \A u \in LkThread \ {t} : FileOf[u] # FileOf[t]

\* A guard that is alive excludes the others, whichever call it came from: a writer
\* everybody, a reader the writers, and on a mutex or spin lock everybody too; and
\* the lock is still held when it unlocks.  Of a CFileLock only threads with an
\* object of their own are kept apart (mutex.hh:334-468).
GuardsExclude ==
    \A t \in LkThread : (lkGuard[t] # "none" /\ Alone(t)) =>
        /\ lkHeld[Owner(t)] = Adapted(lkGuard[t])
        /\ \A u \in LkThread \ {t} :
              \/ lkGuard[u] = "none" \/ ~Alone(u)
              \/ lkKind \in {"rwlock", "file"} /\ lkGuard[t] = "read" /\ lkGuard[u] = "read"
=============================================================================
