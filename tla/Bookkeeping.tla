---------------------------- MODULE Bookkeeping ----------------------------
(***************************************************************************)
(* The components that keep account of something: of the tokens made and   *)
(* taken, the events in a window, the extremes of an integer, the smallest *)
(* values of a heap and the references to an object.  Each steps on its    *)
(* own, whatever the others do.                                            *)
(***************************************************************************)
EXTENDS Integers, Sequences, FiniteSets

CONSTANTS
    Second, Freqs, Buckets, MaxNeed, WideNum, WideDen,      \* FreqControl
    KDuration, KGranularity, MaxCount, MaxTime, WideMaxTime, FnMaxTime,
    LiThread, Modulus, OrBits, AndBits, XorBits, Operand,   \* LockedInts
    Elem, HeapSize, MaxDropped,                             \* FixedHeap
    FdThread, Obj, Fd, FirstCapacity                        \* FdDataMap

VARIABLES
    fcKind, fcNow, fcCtl, wfCtl, fcLevel, fcSince, fcTaken, fnCtr, fnTold, fnAnswer,
    liKind, liVal, liMin, liMax, liLock, liAt, liCopy, liSaw, liNet, liTold, liHeld,
    fhCont, fhMax, fhUnique, fhDropped,
    fdMem, fdPtr, fdTodo, fdLock, fdCap, fdSz

ASSUME RateAssumption ==
    /\ Second \in Nat \ {0} /\ MaxNeed \in Nat /\ WideNum \in Nat /\ WideDen \in Nat \ {0}
    /\ Freqs \subseteq Nat \ {0} /\ \E f \in Freqs : \A g \in Freqs : f >= g
    /\ Buckets \subseteq Nat /\ \E b \in Buckets : \A c \in Buckets : b >= c
ASSUME WindowAssumption ==
    KDuration \in Nat \ {0} /\ KGranularity \in Nat \ {0} /\ MaxCount \in Nat /\ FnMaxTime \in Nat
ASSUME IntsAssumption ==
    LET Value == 0 .. Modulus - 1
    IN  /\ Modulus \in Nat \ {0, 1} /\ Operand \subseteq Value
        /\ {OrBits, AndBits, XorBits} \subseteq [Value \X Value -> Value]
ASSUME HeapAssumption == Elem \subseteq Int /\ HeapSize \in Nat
\* The calls on a range of descriptors are modelled with a range of two.
ASSUME FdMapAssumption ==
    /\ Fd \subseteq Nat /\ \E lo, hi \in Fd : lo < hi /\ Fd = {lo, hi}
    /\ IsFiniteSet(Obj) /\ Obj \subseteq Nat \ {0} /\ FirstCapacity \in Nat
    /\ IsFiniteSet(FdThread) /\ {"none", "slot", "inside"} \cap FdThread = {}

Rate == INSTANCE FreqControl
Ints == INSTANCE LockedInts
Heap == INSTANCE FixedHeap
FdMap == INSTANCE FdDataMap

BookkeepingSpec == Rate!Spec /\ Ints!Spec /\ Heap!Spec /\ FdMap!Spec

----------------------------------------------------------------------------
\* No more is let through than frequency and bucket allow, and no fraction of it is
\* lost; what is counted is what happened in the window; a number that threads share
\* misses no operation; a heap keeps the smallest; and an object lives as long as
\* somebody points to it, in a table that knows its size.
BookkeepingOK ==
    /\ Rate!ExactTokens /\ Rate!RateBounded /\ Rate!WideRateBounded /\ Rate!CountsWindow
    /\ Ints!NoOperationLost /\ Ints!ExtremesExact
    /\ Heap!KeepsSmallest
    /\ FdMap!CountedRight /\ FdMap!SizeIsCount
=============================================================================
