--------------------------- MODULE ConsistentHash ---------------------------
(***************************************************************************)
(* CConsistentHash (consistent_hash.hh): every value has as many points on *)
(* a ring as its weight; a key belongs to the value of the next point.     *)
(* chRing maps points to values (ring_), chPos lists the points of a value *)
(* in the order they were placed (values_; weight() is the length, last_   *)
(* the last of them, a value without points is not in the map).            *)
(*                                                                         *)
(* An insertion that meets only points taken already never ends            *)
(* (lines 150-155); such calls are left out.                               *)
(***************************************************************************)
EXTENDS Integers, Sequences, SequencesExt, FiniteSets, FiniteSetsExt, Functions

CONSTANTS
    RingSize,   \* 2^32
    Value,      \* values (natural numbers)
    MaxWeight   \* bound on the weights

VARIABLES chRing, chPos

chVars == <<chRing, chPos>>

Point == 0 .. RingSize - 1

Init ==
    /\ chRing = <<>>
    /\ chPos = [v \in Value |-> <<>>]

\* hashValue: where the point after last goes (u32Hash, over a small ring).
HashValue(v, index, last) ==
    LET mix(x) == (((x \div 4) + x) * 5 + 1) % RingSize IN mix(mix(v + last + index))

\* hash
Owner(ring, h) ==
    LET above == {p \in DOMAIN ring : p >= h}
    IN  ring[Min(IF above = {} THEN DOMAIN ring ELSE above)]

\* The points tried one after the other, and the first that is free.
Probes(ring, v, index, last) ==
    LET try[n \in 0 .. RingSize] == IF n = 0 THEN last ELSE HashValue(v, index, try[n - 1])
    IN  [n \in 1 .. RingSize |-> try[n]]

\* A mutant of FirstFree: the point is taken over from whoever has it.
FirstProbe(ring, probes) == 1

FirstFree(ring, probes) == SelectInSeq(probes, LAMBDA p : p \notin DOMAIN ring)

\* insertNode and removeNode on a pair of ring and points.
InsertPoint(s, v) ==
    LET last == IF s.pos = <<>> THEN 0 ELSE Last(s.pos)
        probes == Probes(s.ring, v, Len(s.pos), last)
        n == FirstFree(s.ring, probes)
    IN  IF n = 0 THEN s
        ELSE [ring |-> [p \in DOMAIN s.ring \cup {probes[n]} |-> IF p = probes[n] THEN v ELSE s.ring[p]],
              pos |-> Append(s.pos, probes[n])]

InsertNode(s, v, weight) ==
    FoldLeft(LAMBDA t, i : InsertPoint(t, v), s, [i \in 1 .. weight - Len(s.pos) |-> i])

RemoveNode(s, weight) ==
    LET gone == Range(SubSeq(s.pos, weight + 1, Len(s.pos)))
    IN  [ring |-> Restrict(s.ring, DOMAIN s.ring \ gone), pos |-> SubSeq(s.pos, 1, weight)]

\* setValue, with weight 0 to remove the value.
SetValue(v, weight) ==
    LET s == [ring |-> chRing, pos |-> chPos[v]]
        t == IF Len(s.pos) > weight THEN RemoveNode(s, weight) ELSE InsertNode(s, v, weight)
    IN  /\ Len(t.pos) = weight
        /\ chRing' = t.ring
        /\ chPos' = [chPos EXCEPT ![v] = t.pos]

Next == \E v \in Value, weight \in 0..MaxWeight : SetValue(v, weight)

Spec == Init /\ [][Next]_chVars

----------------------------------------------------------------------------
TypeOK ==
    /\ chRing \in [DOMAIN chRing -> Value] /\ DOMAIN chRing \subseteq Point
    /\ \A v \in Value : chPos[v] \in Seq(Point)

\* Two values that want the same point do not share it or take it over: the points
\* of the values are the ring, each once, so the removal of a value takes away its
\* own points only (consistent_hash.hh:149-163).
PointsOwned ==
    /\ \A v \in Value : \A i \in DOMAIN chPos[v] :
          chPos[v][i] \in DOMAIN chRing /\ chRing[chPos[v][i]] = v
    /\ Cardinality(DOMAIN chRing) = FoldSet(LAMBDA v, n : n + Len(chPos[v]), 0, Value)

\* What makes the hash consistent: when the weight of a value grows, a key either
\* stays where it is or moves to that value; when it shrinks, only keys of that
\* value move (consistent_hash.hh:94-121).
OnlyItsKeysMove ==
    \A h \in Point :
        (chRing # <<>> /\ chRing' # <<>> /\ Owner(chRing', h) # Owner(chRing, h)) =>
            \E v \in Value :
                \/ Len(chPos'[v]) > Len(chPos[v]) /\ Owner(chRing', h) = v
                \/ Len(chPos'[v]) < Len(chPos[v]) /\ Owner(chRing, h) = v

=============================================================================
