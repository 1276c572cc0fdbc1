----------------------------- MODULE FixedHeap -----------------------------
(***************************************************************************)
(* CFixedHeap (heap.hh): keeps the fhMax smallest of the values pushed,    *)
(* the largest of those kept on top; with a bound that is never reached it *)
(* is CHeap.  fhCont is the container.  fhDropped are the values turned    *)
(* away or replaced since there was last room for them.                    *)
(*                                                                         *)
(* The constructors from a range call members std::vector does not have    *)
(* (lines 101, 107, 148) and are not modelled.                             *)
(***************************************************************************)
EXTENDS Integers, Sequences, SequencesExt, FiniteSets, FiniteSetsExt

CONSTANTS
    Elem,       \* the values
    HeapSize,   \* bound on max_size_
    MaxDropped  \* bound: how many dropped values are remembered

VARIABLES fhCont, fhMax, fhUnique, fhDropped

fhVars == <<fhCont, fhMax, fhUnique, fhDropped>>

\* A program pushes everything with push, or everything with push_unique.
Init ==
    /\ fhCont = <<>>
    /\ fhMax \in 0..HeapSize
    /\ fhUnique \in BOOLEAN
    /\ fhDropped = {}

\* std::make_heap and std::push_heap: some order in which no child is above its parent.
IsHeap(s) == \A i \in 2..Len(s) : s[i] <= s[i \div 2]
Heaps(s) ==
    {t \in {[i \in DOMAIN s |-> s[p[i]]] : p \in Bijection(DOMAIN s, DOMAIN s)} : IsHeap(t)}

\* top, the largest of those kept
Top(s) == s[1]

\* push: the value that does not fit is the largest one.
Pushed(s, v) ==
    IF Len(s) < fhMax THEN Append(s, v)
    ELSE IF fhMax > 0 /\ v < Top(s) THEN [s EXCEPT ![1] = v]
    ELSE s

\* With the bound at 0 nothing is kept, whatever its size.
Drops(s, v) == IF Len(s) < fhMax \/ fhMax = 0 THEN {} ELSE {Max({v, Top(s)})}

PushValue(v) ==
    /\ IF Pushed(fhCont, v) = fhCont THEN fhCont' = fhCont ELSE fhCont' \in Heaps(Pushed(fhCont, v))
    /\ fhDropped' = fhDropped \cup Drops(fhCont, v)
    /\ Cardinality(fhDropped') <= MaxDropped
    /\ UNCHANGED <<fhMax, fhUnique>>

Push(v) == ~fhUnique /\ PushValue(v)

\* push_unique: an equal value is kept, and the heap is rebuilt.
PushUnique(v) ==
    /\ fhUnique
    /\ IF v \in ToSet(fhCont) THEN fhCont' \in Heaps(fhCont) /\ UNCHANGED <<fhMax, fhUnique, fhDropped>>
       ELSE PushValue(v)

\* pop: the top goes, the rest stays a heap.
Pop ==
    /\ fhCont # <<>>
    /\ fhCont' \in Heaps(Tail(fhCont))
    /\ fhDropped' = {}
    /\ UNCHANGED <<fhMax, fhUnique>>

\* set_max_size: nothing is dropped when the bound falls below the size.
SetMaxSize(n) ==
    /\ fhMax' = n
    /\ fhDropped' = {}
    /\ UNCHANGED <<fhCont, fhUnique>>

Next ==
    \/ \E v \in Elem : Push(v) \/ PushUnique(v)
    \/ Pop
    \/ \E n \in 0..HeapSize : SetMaxSize(n)

Spec == Init /\ [][Next]_fhVars

----------------------------------------------------------------------------
TypeOK ==
    /\ fhCont \in Seq(Elem) /\ Len(fhCont) <= HeapSize
    /\ fhMax \in 0..HeapSize /\ fhUnique \in BOOLEAN /\ fhDropped \subseteq Elem

\* The heap holds the smallest of the values it was offered, also when the bound is
\* lowered below its size and a push replaces the top; with push_unique none twice
\* (heap.hh:115-138).
KeepsSmallest ==
    /\ IsHeap(fhCont)
    /\ \A d \in fhDropped, c \in ToSet(fhCont) : c <= d
    /\ fhUnique => IsInjective(fhCont)
=============================================================================
