----------------------------- MODULE LockedInts -----------------------------
(***************************************************************************)
(* Integers that threads share: CLockInt, CLockIntMax and CLockIntMinMax   *)
(* (lock_int.hh), whose operations copy v_, change the copy and write it   *)
(* back under a lock, and CAtomicSync (atomic_sync.hh), whose operations   *)
(* are one instruction each.  A program's own loop of a load and a         *)
(* compare_swap is two operations.  Integers are unsigned, of Modulus      *)
(* values.                                                                 *)
(*                                                                         *)
(* An operation of the first kind is three steps: Begin (the lock, the     *)
(* copy of v_, the test, the operation on the copy), Compare (the          *)
(* extremes) and Store (v_, the answer, the unlock).                       *)
(*                                                                         *)
(* Ghosts, which change when an operation begins: liNet is what the        *)
(* integer would be if one thread did all operations, one after the other, *)
(* liTold what that thread would be told for each of the others, and       *)
(* liHeld what the integer would have been since the extremes were reset.  *)
(***************************************************************************)
EXTENDS Integers, FiniteSetsExt

CONSTANTS
    LiThread,       \* threads
    Modulus,        \* 2 to the number of bits
    OrBits, AndBits, XorBits,   \* |, & and ^ of two integers
    Operand         \* operands

VARIABLES
    liKind,         \* the class
    liVal,          \* v_
    liMin, liMax,   \* mi_ and ma_ (or m_)
    liLock,         \* lock_ is taken
    liAt,           \* position of a thread: "out", "compare", "store"
    liCopy,         \* v, the local copy of v_
    liSaw,          \* what a thread was last told, -1 for nothing or not yet
    liNet, liTold, liHeld

liGhosts == <<liNet, liTold, liHeld>>
liVars == <<liKind, liVal, liMin, liMax, liLock, liAt, liCopy, liSaw, liGhosts>>

Value == 0 .. Modulus - 1
Kinds == {"max", "minmax", "atomic"}
Locked == liKind # "atomic"

\* The operations; CAtomicSync has no nand.
Ops == {"add", "sub", "or", "and", "xor", "assign"} \cup IF Locked THEN {"nand"} ELSE {}

Plus(v, c) == (v + c) % Modulus
Minus(v, c) == (v - c) % Modulus
Either(v, c) == OrBits[<<v, c>>]
Both(v, c) == AndBits[<<v, c>>]
Differ(v, c) == XorBits[<<v, c>>]
NotBoth(v, c) == Modulus - 1 - AndBits[<<v, c>>]
Replace(v, c) == c

Apply(op, v, c) ==
    CASE op = "add" -> Plus(v, c)
      [] op = "sub" -> Minus(v, c)
      [] op = "or" -> Either(v, c)
      [] op = "and" -> Both(v, c)
      [] op = "xor" -> Differ(v, c)
      [] op = "nand" -> NotBoth(v, c)
      [] op = "assign" -> Replace(v, c)

Init ==
    /\ liKind \in Kinds
    /\ liVal = 0 /\ liMin = 0 /\ liMax = 0 /\ liNet = 0 /\ liHeld = {0}
    /\ liLock = FALSE
    /\ liAt = [t \in LiThread |-> "out"]
    /\ liCopy = [t \in LiThread |-> 0]
    /\ liSaw = [t \in LiThread |-> -1] /\ liTold = [t \in LiThread |-> -1]

Give(t, v) == liSaw' = [liSaw EXCEPT ![t] = v]

\* The predicates of test_mutate: a test for a value, or none (-1).
Passes(v, e) == e = -1 \/ v = e

\* What one thread alone would do and be told.
Alone(t, e, op, c, new) ==
    LET v == IF Passes(liNet, e) THEN Apply(op, liNet, c) ELSE liNet
    IN  /\ liNet' = v /\ liHeld' = liHeld \cup {v}
        /\ liTold' = [liTold EXCEPT ![t] = IF new THEN v ELSE liNet]

----------------------------------------------------------------------------
(* CLockInt and its relatives.                                             *)

\* A mutant of Begin: no lock.
BeginUnlocked(t, e, op, c, new) ==
    /\ Locked /\ Passes(liVal, e)
    /\ liAt' = [liAt EXCEPT ![t] = "compare"]
    /\ liCopy' = [liCopy EXCEPT ![t] = Apply(op, liVal, c)]
    /\ Give(t, IF new THEN -1 ELSE liVal)
    /\ Alone(t, e, op, c, new)
    /\ UNCHANGED <<liKind, liVal, liMin, liMax, liLock>>

\* test_mutate up to the operation, when the test passes.
Begin(t, e, op, c, new) ==
    /\ Locked /\ ~liLock /\ Passes(liVal, e)
    /\ liLock' = TRUE
    /\ liAt' = [liAt EXCEPT ![t] = "compare"]
    /\ liCopy' = [liCopy EXCEPT ![t] = Apply(op, liVal, c)]
    /\ Give(t, IF new THEN -1 ELSE liVal)
    /\ Alone(t, e, op, c, new)
    /\ UNCHANGED <<liKind, liVal, liMin, liMax>>

\* test_mutate when the test fails: nothing is written before the unlock.
Refuse(t, e, op, c, new) ==
    /\ Locked /\ ~liLock /\ ~Passes(liVal, e)
    /\ Give(t, liVal)
    /\ Alone(t, e, op, c, new)
    /\ UNCHANGED <<liKind, liVal, liMin, liMax, liLock, liAt, liCopy>>

\* e_(v): __ExtraMax and __ExtraMinMax compare what will be written.
Compare(t) ==
    /\ liAt[t] = "compare"
    /\ liAt' = [liAt EXCEPT ![t] = "store"]
    /\ liMin' = IF liKind = "minmax" /\ liCopy[t] < liMin THEN liCopy[t] ELSE liMin
    /\ liMax' = IF liCopy[t] > liMax THEN liCopy[t] ELSE liMax
    /\ UNCHANGED <<liKind, liVal, liLock, liCopy, liSaw, liGhosts>>

\* v_ = v, the new value for whoever asked for it, and the end of the guard.
Store(t) ==
    /\ liAt[t] = "store"
    /\ liAt' = [liAt EXCEPT ![t] = "out"] /\ liLock' = FALSE
    /\ liVal' = liCopy[t]
    /\ liCopy' = [liCopy EXCEPT ![t] = 0]
    /\ Give(t, IF liSaw[t] = -1 THEN liVal' ELSE liSaw[t])
    /\ UNCHANGED <<liKind, liMin, liMax, liGhosts>>

\* resetMax and resetMinMax, under the lock.
Reset ==
    /\ Locked /\ ~liLock
    /\ liMin' = IF liKind = "minmax" THEN liVal ELSE liMin
    /\ liMax' = liVal
    /\ liHeld' = {liNet}
    /\ UNCHANGED <<liKind, liVal, liLock, liAt, liCopy, liSaw, liNet, liTold>>

----------------------------------------------------------------------------
\* An instruction of CAtomicSync; the test is that of compare_swap.
Instruction(t, e, op, c, new) ==
    /\ ~Locked
    /\ liVal' = IF Passes(liVal, e) THEN Apply(op, liVal, c) ELSE liVal
    /\ Give(t, IF new THEN liVal' ELSE liVal)
    /\ Alone(t, e, op, c, new)
    /\ UNCHANGED <<liKind, liMin, liMax, liLock, liAt, liCopy>>

Operate(t, e, op, c, new) ==
    /\ liAt[t] = "out"
    /\ Begin(t, e, op, c, new) \/ Refuse(t, e, op, c, new) \/ Instruction(t, e, op, c, new)

\* mutate: fetch_add and its relatives give the old value, add_fetch and its relatives,
\* ++, += and so on the new one; store and swap assign.
Mutate(t, op, c, new) == Operate(t, -1, op, c, new)

\* test_mutate, test_add and its relatives, with a test for a value.
TestMutate(t, e, op, c, new) == Locked /\ Operate(t, e, op, c, new)

\* compare_swap of what the thread was told for one more.
CompareSwap(t) == liSaw[t] # -1 /\ Operate(t, liSaw[t], "add", 1, FALSE)

\* load, under the lock or as an addition of 0
Load(t) ==
    /\ liAt[t] = "out" /\ ~liLock
    /\ Give(t, liVal) /\ liTold' = [liTold EXCEPT ![t] = liNet]
    /\ UNCHANGED <<liKind, liVal, liMin, liMax, liLock, liAt, liCopy, liNet, liHeld>>

Next ==
    \/ Reset
    \/ \E t \in LiThread :
        \/ Load(t) \/ CompareSwap(t) \/ Compare(t) \/ Store(t)
        \/ \E op \in Ops, c \in Operand, new \in BOOLEAN :
              \/ Mutate(t, op, c, new)
              \/ \E e \in Operand : TestMutate(t, e, op, c, new)

Spec == Init /\ [][Next]_liVars

----------------------------------------------------------------------------
TypeOK ==
    /\ liVal \in Value /\ liMin \in Value /\ liMax \in Value /\ liLock \in BOOLEAN
    /\ liAt \in [LiThread -> {"out", "compare", "store"}]
    /\ liCopy \in [LiThread -> Value]
    /\ liSaw \in [LiThread -> Value \cup {-1}]

Quiet == \A t \in LiThread : liAt[t] = "out"

\* No operation is lost, and every thread is told what it would be told if the
\* operations were done one after the other: threads that count by add_fetch or in a
\* loop of compare_swap count every one, over the top and below zero
\* (lock_int_impl.hh:168-219, atomic_sync.hh:95-334).
NoOperationLost == Quiet => liVal = liNet /\ liSaw = liTold

\* max() and min() are the extremes of what the integer has been since the reset, or
\* since its construction (lock_int.hh:35-93).
ExtremesExact == Quiet =>
    /\ Locked => liMax = Max(liHeld)
    /\ liKind = "minmax" => liMin = Min(liHeld)
=============================================================================
