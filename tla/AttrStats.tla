----------------------------- MODULE AttrStats -----------------------------
(***************************************************************************)
(* CAttrStats (attr_stats.hh, impl/attr_stats_impl.hh): counters by        *)
(* attribute in slots that threads claim by compare-and-swap, without a    *)
(* lock, while a collector takes the counters away (swap with 0).  atAttr  *)
(* and atVal are the two halves of the slots; atSite is the pointer that   *)
(* ATTR_ADD and ATTR_SET keep at their place in the program.  atCall is    *)
(* the call a thread is in; atGiven counts what was put into counters,     *)
(* atTaken what the collector took or a set replaced.                      *)
(***************************************************************************)
EXTENDS Integers, Sequences, FiniteSets, FiniteSetsExt

CONSTANTS
    Writer,     \* threads that count
    Attr,       \* attributes (positive numbers)
    Capacity,   \* ATTR_INIT
    MaxGiven    \* bound: calls that count

VARIABLES atAttr, atVal, atSite, atCall, atNext, atGiven, atTaken

atVars == <<atAttr, atVal, atSite, atCall, atNext, atGiven, atTaken>>

Slots == 1..Capacity
Idle == [pc |-> "idle", attr |-> 0, at |-> 0]
Total(f) == FoldSet(LAMBDA a, n : n + f[a], 0, Attr)

Init ==
    /\ atAttr = [i \in Slots |-> 0] /\ atVal = [i \in Slots |-> 0]
    /\ atSite = [a \in Attr |-> 0]
    /\ atCall = [w \in Writer |-> Idle]
    /\ atNext = 1
    /\ atGiven = [a \in Attr |-> 0] /\ atTaken = [a \in Attr |-> 0]

Goto(w, pc, at) == atCall' = [atCall EXCEPT ![w].pc = pc, ![w].at = at]

\* ATTR_ADD, ATTR_SET: with the pointer of the place in the program if it has one.
CallFor(a) ==
    IF atSite[a] = 0 THEN [pc |-> "read", attr |-> a, at |-> 1]
    ELSE [pc |-> "count", attr |-> a, at |-> atSite[a]]

Begin(w, a) ==
    /\ atCall[w].pc = "idle"
    /\ Total(atGiven) + Cardinality({v \in Writer : atCall[v].pc # "idle"}) < MaxGiven
    /\ atCall' = [atCall EXCEPT ![w] = CallFor(a)]
    /\ UNCHANGED <<atAttr, atVal, atSite, atNext, atGiven, atTaken>>

\* findAttr, one slot after the other: an empty one is claimed.
Read(w) ==
    LET c == atCall[w]
    IN  /\ c.pc = "read"
        /\ IF c.at > Capacity THEN atCall' = [atCall EXCEPT ![w] = Idle]
           ELSE Goto(w, IF atAttr[c.at] = 0 THEN "claim" ELSE "compare", c.at)
        /\ UNCHANGED <<atAttr, atVal, atSite, atNext, atGiven, atTaken>>

\* A mutant of Claim: the id is stored without the compare-and-swap.
ClaimStored(w) ==
    LET c == atCall[w]
    IN  /\ c.pc = "claim"
        /\ atAttr' = [atAttr EXCEPT ![c.at] = c.attr]
        /\ Goto(w, "count", c.at)
        /\ UNCHANGED <<atVal, atSite, atNext, atGiven, atTaken>>

\* compare_swap of the attribute of the slot.
Claim(w) ==
    LET c == atCall[w]
        free == atAttr[c.at] = 0
    IN  /\ c.pc = "claim"
        /\ atAttr' = IF free THEN [atAttr EXCEPT ![c.at] = c.attr] ELSE atAttr
        /\ Goto(w, IF free THEN "count" ELSE "compare", c.at)
        /\ UNCHANGED <<atVal, atSite, atNext, atGiven, atTaken>>

\* The slot is read again after a claim that failed.
Compare(w) ==
    LET c == atCall[w]
        mine == atAttr[c.at] = c.attr
    IN  /\ c.pc = "compare"
        /\ Goto(w, IF mine THEN "count" ELSE "read", IF mine THEN c.at ELSE c.at + 1)
        /\ UNCHANGED <<atAttr, atVal, atSite, atNext, atGiven, atTaken>>

\* The pointer is kept when the call returns.
Counted(w) ==
    /\ atCall' = [atCall EXCEPT ![w] = Idle]
    /\ atSite' = [atSite EXCEPT ![atCall[w].attr] = atCall[w].at]
    /\ atGiven' = [atGiven EXCEPT ![atCall[w].attr] = @ + 1]
    /\ UNCHANGED <<atAttr, atNext>>

\* add_fetch of 1 to the counter.
Add(w) ==
    /\ atCall[w].pc = "count"
    /\ atVal' = [atVal EXCEPT ![atCall[w].at] = @ + 1]
    /\ Counted(w) /\ UNCHANGED atTaken

\* swap of the counter with 1; what it held is returned or forgotten.
Set(w) ==
    /\ atCall[w].pc = "count"
    /\ atVal' = [atVal EXCEPT ![atCall[w].at] = 1]
    /\ atTaken' = [atTaken EXCEPT ![atCall[w].attr] = @ + atVal[atCall[w].at]]
    /\ Counted(w)

\* iterate: up to the first empty slot; each counter is swapped with 0 and reported
\* under the attribute of its slot.
Iterate ==
    /\ IF atNext > Capacity \/ atAttr[atNext] = 0
       THEN atNext' = 1 /\ UNCHANGED <<atVal, atTaken>>
       ELSE /\ atNext' = atNext + 1
            /\ atVal' = [atVal EXCEPT ![atNext] = 0]
            /\ atTaken' = [atTaken EXCEPT ![atAttr[atNext]] = @ + atVal[atNext]]
    /\ UNCHANGED <<atAttr, atSite, atCall, atGiven>>

Next ==
    \/ \E w \in Writer :
          \/ \E a \in Attr : Begin(w, a)
          \/ Read(w) \/ Claim(w) \/ Compare(w) \/ Add(w) \/ Set(w)
    \/ Iterate

Spec == Init /\ [][Next]_atVars

----------------------------------------------------------------------------
TypeOK ==
    /\ atAttr \in [Slots -> Attr \cup {0}] /\ atVal \in [Slots -> 0..MaxGiven]
    /\ atSite \in [Attr -> Slots \cup {0}] /\ atNext \in 1 .. Capacity + 1
    /\ \A w \in Writer : atCall[w].at \in 0 .. Capacity + 1

\* Threads that look for the same attribute at once end up with one slot, slots are
\* claimed without a gap (the collector stops at the first empty one), and every
\* count is in the slot of its attribute or was taken once, under its name
\* (impl/attr_stats_impl.hh:30-75).
NoCountLost ==
    /\ \A i, j \in Slots : (atAttr[i] = atAttr[j] /\ atAttr[i] # 0) => i = j
    /\ \A i, j \in Slots : (i < j /\ atAttr[j] # 0) => atAttr[i] # 0
    /\ \A a \in Attr : \A i \in Slots : atAttr[i] = a => atGiven[a] = atTaken[a] + atVal[i]
    /\ \A a \in Attr : (\A i \in Slots : atAttr[i] # a) => atGiven[a] = atTaken[a]
=============================================================================
