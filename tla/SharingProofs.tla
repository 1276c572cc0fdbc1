--------------------------- MODULE SharingProofs ---------------------------
(***************************************************************************)
(* Proofs about the components that share something: for each one an       *)
(* inductive invariant, which every step keeps, and the property it        *)
(* implies; and what Components says of all of them.                       *)
(***************************************************************************)
EXTENDS Components, FiniteSetTheorems, TLAPS

\* The elements of a sequence, and their numbers.
LEMMA ElementOf == \A S : \A s \in Seq(S) : \A i \in DOMAIN s : s[i] \in S /\ i \in Nat
OBVIOUS

----------------------------------------------------------------------------
(* The counters of attr_stats.hh *)

\* The slots up to the one a search has reached are taken, by other attributes.
Passed(c) == \A i \in Stats!Slots : i < c.at => atAttr[i] # 0 /\ atAttr[i] # c.attr

\* What a thread in a call has seen of the slots holds as long as it relies on it.
CallRight(c) ==
    /\ c \in [pc : {"idle", "read", "claim", "compare", "count"}, attr : Attr \cup {0}, at : Nat]
    /\ c.pc # "idle" => c.attr \in Attr /\ c.at > 0
    /\ c.pc \in {"claim", "compare", "count"} => c.at \in Stats!Slots
    /\ c.pc \in {"read", "claim", "compare"} => Passed(c)
    /\ c.pc = "compare" => atAttr[c.at] # 0
    /\ c.pc = "count" => atAttr[c.at] = c.attr

\* The inductive invariant: what every call has seen still holds, a remembered site is
\* the slot of its attribute, and NoCountLost.
StatsInv ==
    /\ atAttr \in [Stats!Slots -> Attr \cup {0}] /\ atVal \in [Stats!Slots -> Nat]
    /\ atSite \in [Attr -> Stats!Slots \cup {0}] /\ atNext \in Nat \ {0}
    /\ atGiven \in [Attr -> Nat] /\ atTaken \in [Attr -> Nat]
    /\ DOMAIN atCall = Writer /\ \A w \in Writer : CallRight(atCall[w])
    /\ \A a \in Attr : atSite[a] # 0 => atAttr[atSite[a]] = a
    /\ \A i \in Stats!Slots : atAttr[i] = 0 => atVal[i] = 0
    /\ Stats!NoCountLost

\* Where one thread steps and no slot is claimed.
LEMMA CallStep ==
    ASSUME StatsInv, NEW w \in Writer, NEW c, CallRight(c), atCall' = [atCall EXCEPT ![w] = c],
           UNCHANGED atAttr
    PROVE  DOMAIN atCall' = Writer /\ \A v \in Writer : CallRight(atCall[v])'
<1>1. \A v \in Writer : atCall'[v] = IF v = w THEN c ELSE atCall[v]
  BY DEF StatsInv
<1>2. \A v \in Writer : CallRight(atCall'[v])
  BY <1>1 DEF StatsInv
<1>3. \A v \in Writer : CallRight(atCall[v])' <=> CallRight(atCall'[v])
  BY DEF CallRight, Passed, Stats!Slots
<1> QED
  BY <1>2, <1>3 DEF StatsInv

\* Where a counter and what was given and taken of its attribute change together.
LEMMA ValueStep ==
    ASSUME StatsInv, NEW k \in Stats!Slots, atAttr[k] # 0, UNCHANGED atAttr,
           NEW v \in Nat, NEW g \in Nat, NEW t \in Nat, g = t + v,
           atVal' = [atVal EXCEPT ![k] = v],
           atGiven' = [atGiven EXCEPT ![atAttr[k]] = g],
           atTaken' = [atTaken EXCEPT ![atAttr[k]] = t]
    PROVE  /\ atVal' \in [Stats!Slots -> Nat] /\ atGiven' \in [Attr -> Nat] /\ atTaken' \in [Attr -> Nat]
           /\ \A i \in Stats!Slots : atAttr[i] = 0 => atVal'[i] = 0
           /\ Stats!NoCountLost'
<1>0. atAttr[k] \in Attr
  BY DEF StatsInv
<1>1. atVal' \in [Stats!Slots -> Nat] /\ atGiven' \in [Attr -> Nat] /\ atTaken' \in [Attr -> Nat]
  BY <1>0 DEF StatsInv
<1>2. \A i \in Stats!Slots : atVal'[i] = IF i = k THEN v ELSE atVal[i]
  BY DEF StatsInv
<1>3. /\ \A a \in Attr : atGiven'[a] = IF a = atAttr[k] THEN g ELSE atGiven[a]
      /\ \A a \in Attr : atTaken'[a] = IF a = atAttr[k] THEN t ELSE atTaken[a]
  <2>1. \A a \in Attr : atGiven'[a] = IF a = atAttr[k] THEN g ELSE atGiven[a]
    BY DEF StatsInv
  <2>2. \A a \in Attr : atTaken'[a] = IF a = atAttr[k] THEN t ELSE atTaken[a]
    BY DEF StatsInv
  <2> QED
    BY <2>1, <2>2
<1>4. \A i \in Stats!Slots : atAttr[i] = 0 => atVal'[i] = 0
  BY <1>2 DEF StatsInv
<1>5. \A i \in Stats!Slots : atAttr[i] = atAttr[k] => i = k
  BY DEF StatsInv, Stats!NoCountLost
<1>6. ASSUME NEW a \in Attr
      PROVE  /\ \A i \in Stats!Slots : atAttr[i] = a => atGiven'[a] = atTaken'[a] + atVal'[i]
             /\ (\A i \in Stats!Slots : atAttr[i] # a) => atGiven'[a] = atTaken'[a]
  BY <1>2, <1>3, <1>5 DEF StatsInv, Stats!NoCountLost
<1>7. Stats!NoCountLost'
  BY <1>6 DEF StatsInv, Stats!NoCountLost, Stats!Slots
<1> QED
  BY <1>1, <1>4, <1>7

\* Every step keeps it: two threads that want the same attribute meet at the same slot.
LEMMA StatsStep ==
    ASSUME StatsInv, [Stats!Next]_Stats!atVars
    PROVE  StatsInv'
<1> USE StatsAssumption
<1>0. ASSUME NEW w \in Writer  PROVE CallRight(atCall[w])
  BY DEF StatsInv
<1>1. ASSUME NEW w \in Writer, NEW a \in Attr, Stats!Begin(w, a)  PROVE StatsInv'
  <2>1. CallRight(Stats!CallFor(a))
    BY DEF StatsInv, Stats!CallFor, Stats!Slots, CallRight, Passed
  <2>2. UNCHANGED <<atAttr, atVal, atSite, atNext, atGiven, atTaken>> /\ atCall' = [atCall EXCEPT ![w] = Stats!CallFor(a)]
    BY <1>1 DEF Stats!Begin
  <2>3. DOMAIN atCall' = Writer /\ \A v \in Writer : CallRight(atCall[v])'
    BY <2>1, <2>2, CallStep
  <2> QED
    BY <2>2, <2>3 DEF StatsInv, Stats!NoCountLost, Stats!Slots
<1>2. ASSUME NEW w \in Writer, Stats!Read(w)  PROVE StatsInv'
  <2>1. UNCHANGED <<atAttr, atVal, atSite, atNext, atGiven, atTaken>>
    BY <1>2 DEF Stats!Read
  <2>2. CASE atCall[w].at > Capacity
    <3>1. CallRight(Stats!Idle)
      BY DEF CallRight, Stats!Idle
    <3>2. DOMAIN atCall' = Writer /\ \A v \in Writer : CallRight(atCall[v])'
      BY <1>2, <2>1, <2>2, <3>1, CallStep DEF Stats!Read
    <3> QED
      BY <2>1, <3>2 DEF StatsInv, Stats!NoCountLost, Stats!Slots
  <2>3. CASE ~(atCall[w].at > Capacity)
    <3> DEFINE pc == IF atAttr[atCall[w].at] = 0 THEN "claim" ELSE "compare"
               c == [atCall[w] EXCEPT !.pc = pc, !.at = atCall[w].at]
    <3>1. atCall' = [atCall EXCEPT ![w] = c]
      BY <1>2, <2>3 DEF Stats!Read, Stats!Goto
    <3>2. CallRight(c)
      <4>1. CallRight(atCall[w]) /\ atCall[w].pc = "read"
        BY <1>0, <1>2 DEF Stats!Read
      <4>2. /\ c \in [pc : {"idle", "read", "claim", "compare", "count"}, attr : Attr \cup {0}, at : Nat]
            /\ c.pc = pc /\ c.at = atCall[w].at /\ c.attr = atCall[w].attr
        BY <4>1 DEF CallRight
      <4>3. c.at \in Stats!Slots /\ c.attr \in Attr /\ c.at > 0
        BY <2>3, <4>1, <4>2 DEF CallRight, Stats!Slots
      <4>4. Passed(c) /\ (pc = "compare" => atAttr[c.at] # 0) /\ pc \in {"claim", "compare"}
        BY <4>1, <4>2 DEF CallRight, Passed
      <4> HIDE DEF c
      <4> QED
        BY <4>2, <4>3, <4>4 DEF CallRight
    <3>3. DOMAIN atCall' = Writer /\ \A v \in Writer : CallRight(atCall[v])'
      BY <2>1, <3>1, <3>2, CallStep
    <3> QED
      BY <2>1, <3>3 DEF StatsInv, Stats!NoCountLost, Stats!Slots
  <2> QED
    BY <2>2, <2>3
<1>3. ASSUME NEW w \in Writer, Stats!Claim(w)  PROVE StatsInv'
  <2> DEFINE k == atCall[w].at
             a == atCall[w].attr
             free == atAttr[k] = 0
             c == [atCall[w] EXCEPT !.pc = IF free THEN "count" ELSE "compare", !.at = k]
  <2>1. /\ UNCHANGED <<atVal, atSite, atNext, atGiven, atTaken>> /\ atCall' = [atCall EXCEPT ![w] = c]
        /\ atAttr' = IF free THEN [atAttr EXCEPT ![k] = a] ELSE atAttr
    BY <1>3 DEF Stats!Claim, Stats!Goto
  <2>2. CallRight(atCall[w]) /\ atCall[w].pc = "claim"
    BY <1>0, <1>3 DEF Stats!Claim
  <2>3. /\ c \in [pc : {"idle", "read", "claim", "compare", "count"}, attr : Attr \cup {0}, at : Nat]
        /\ c.pc = (IF free THEN "count" ELSE "compare") /\ c.at = k /\ c.attr = a
    BY <2>2 DEF CallRight
  <2>4. k \in Stats!Slots /\ a \in Attr /\ k > 0 /\ a # 0 /\ Passed(atCall[w])
    BY <2>2 DEF CallRight
  <2> HIDE DEF c
  <2>5. CASE ~free
    <3>0. UNCHANGED <<atAttr, atVal, atSite, atNext, atGiven, atTaken>>
      BY <2>1, <2>5
    <3>1. CallRight(c)
      BY <2>3, <2>4, <2>5 DEF CallRight, Passed
    <3>2. DOMAIN atCall' = Writer /\ \A v \in Writer : CallRight(atCall[v])'
      BY <2>1, <3>0, <3>1, CallStep
    <3> QED
      BY <3>0, <3>2 DEF StatsInv, Stats!NoCountLost, Stats!Slots
  <2>6. CASE free
    <3>1. \A i \in Stats!Slots : atAttr'[i] = IF i = k THEN a ELSE atAttr[i]
      BY <2>1, <2>6 DEF StatsInv
    <3>2. \A i \in Stats!Slots : i < k => atAttr[i] # 0 /\ atAttr[i] # a
      BY <2>4 DEF Passed
    <3>3. \A i \in Stats!Slots : i > k => atAttr[i] = 0
      BY <2>4, <2>6 DEF StatsInv, Stats!NoCountLost
    <3>4. \A i \in Stats!Slots : atAttr[i] # a
      BY <2>4, <2>6, <3>2, <3>3 DEF Stats!Slots
    <3>5. ASSUME NEW v \in Writer  PROVE CallRight(atCall[v])'
      <4>1. CASE v = w
        <5>1. atCall'[v] = c
          BY <2>1, <4>1 DEF StatsInv
        <5> QED
          BY <2>3, <2>4, <2>6, <3>1, <5>1 DEF CallRight
      <4>2. CASE v # w
        <5>1. atCall'[v] = atCall[v] /\ CallRight(atCall[v])
          BY <2>1, <4>2, <1>0 DEF StatsInv
        <5>2. Passed(atCall[v]) => \A i \in Stats!Slots : i < atCall[v].at => atAttr'[i] # 0 /\ atAttr'[i] # atCall[v].attr
          BY <2>6, <3>1 DEF Passed
        <5>3. \A i \in Stats!Slots : atAttr[i] # 0 => atAttr'[i] = atAttr[i]
          BY <2>6, <3>1
        <5>4. Stats!Slots' = Stats!Slots
          BY DEF Stats!Slots
        <5> QED
          BY <5>1, <5>2, <5>3, <5>4 DEF CallRight, Passed
      <4> QED
        BY <4>1, <4>2
    <3>6. DOMAIN atCall' = Writer
      BY <2>1 DEF StatsInv
    <3>7. atAttr' \in [Stats!Slots -> Attr \cup {0}]
      BY <2>1, <2>4, <2>6 DEF StatsInv
    <3>8. \A b \in Attr : atSite[b] # 0 => atAttr'[atSite[b]] = b
      BY <2>6, <3>1 DEF StatsInv
    <3>9. \A i \in Stats!Slots : atAttr'[i] = 0 => atVal[i] = 0
      BY <2>4, <3>1 DEF StatsInv
    <3>10. /\ \A i, j \in Stats!Slots : (atAttr'[i] = atAttr'[j] /\ atAttr'[i] # 0) => i = j
           /\ \A i, j \in Stats!Slots : (i < j /\ atAttr'[j] # 0) => atAttr'[i] # 0
      <4>1. \A i, j \in Stats!Slots : (atAttr'[i] = atAttr'[j] /\ atAttr'[i] # 0) => i = j
        BY <3>1, <3>4 DEF StatsInv, Stats!NoCountLost
      <4>2. \A i, j \in Stats!Slots : (i < j /\ atAttr'[j] # 0) => atAttr'[i] # 0
        BY <2>4, <3>1, <3>2 DEF StatsInv, Stats!NoCountLost
      <4> QED
        BY <4>1, <4>2
    <3>11. ASSUME NEW b \in Attr
           PROVE  /\ \A i \in Stats!Slots : atAttr'[i] = b => atGiven[b] = atTaken[b] + atVal[i]
                  /\ (\A i \in Stats!Slots : atAttr'[i] # b) => atGiven[b] = atTaken[b]
      <4>1. CASE b = a
        <5>1. atGiven[a] = atTaken[a] /\ atVal[k] = 0 /\ atTaken[a] \in Nat
          BY <2>4, <2>6, <3>4 DEF StatsInv, Stats!NoCountLost
        <5> QED
          BY <2>4, <3>1, <3>4, <4>1, <5>1
      <4>2. CASE b # a
        BY <2>4, <2>6, <3>1, <4>2 DEF StatsInv, Stats!NoCountLost
      <4> QED
        BY <4>1, <4>2
    <3>12. Stats!NoCountLost'
      BY <2>1, <3>10, <3>11 DEF Stats!NoCountLost, Stats!Slots
    <3> QED
      BY <2>1, <3>5, <3>6, <3>7, <3>8, <3>9, <3>12 DEF StatsInv, Stats!Slots
  <2> QED
    BY <2>5, <2>6
<1>4. ASSUME NEW w \in Writer, Stats!Compare(w)  PROVE StatsInv'
  <2>1. UNCHANGED <<atAttr, atVal, atSite, atNext, atGiven, atTaken>>
    BY <1>4 DEF Stats!Compare
  <2> DEFINE mine == atAttr[atCall[w].at] = atCall[w].attr
             c == [atCall[w] EXCEPT !.pc = IF mine THEN "count" ELSE "read",
                                    !.at = IF mine THEN atCall[w].at ELSE atCall[w].at + 1]
  <2>2. atCall' = [atCall EXCEPT ![w] = c]
    BY <1>4 DEF Stats!Compare, Stats!Goto
  <2>3. CallRight(c)
    <3>1. CallRight(atCall[w]) /\ atCall[w].pc = "compare"
      BY <1>0, <1>4 DEF Stats!Compare
    <3>2. /\ c \in [pc : {"idle", "read", "claim", "compare", "count"}, attr : Attr \cup {0}, at : Nat]
          /\ c.pc = (IF mine THEN "count" ELSE "read") /\ c.attr = atCall[w].attr
          /\ c.at = IF mine THEN atCall[w].at ELSE atCall[w].at + 1
      <4>1. atCall[w].at \in Nat /\ atCall[w].at + 1 \in Nat
        BY <3>1 DEF CallRight
      <4>2. CASE mine
        BY <3>1, <4>1, <4>2 DEF CallRight
      <4>3. CASE ~mine
        BY <3>1, <4>1, <4>3 DEF CallRight
      <4> QED
        BY <4>2, <4>3
    <3>3. c.attr \in Attr /\ c.at > 0 /\ atCall[w].at \in Stats!Slots
      BY <3>1, <3>2 DEF CallRight
    <3>4. Passed(atCall[w]) /\ atAttr[atCall[w].at] # 0
      BY <3>1 DEF CallRight
    <3>5. ~mine => Passed(c)
      BY <3>2, <3>3, <3>4 DEF Passed, Stats!Slots
    <3> HIDE DEF c
    <3> QED
      BY <3>2, <3>3, <3>5 DEF CallRight
  <2>4. DOMAIN atCall' = Writer /\ \A v \in Writer : CallRight(atCall[v])'
    BY <2>1, <2>2, <2>3, CallStep
  <2> QED
    BY <2>1, <2>4 DEF StatsInv, Stats!NoCountLost, Stats!Slots
<1>5. ASSUME NEW w \in Writer, Stats!Add(w)  PROVE StatsInv'
  <2> DEFINE k == atCall[w].at
             a == atCall[w].attr
  <2>1. /\ k \in Stats!Slots /\ a \in Attr /\ a # 0 /\ atAttr[k] = a
        /\ atVal[k] \in Nat /\ atGiven[a] \in Nat /\ atTaken[a] \in Nat /\ atGiven[a] = atTaken[a] + atVal[k]
    BY <1>0, <1>5 DEF Stats!Add, CallRight, StatsInv, Stats!NoCountLost
  <2>2. /\ atCall' = [atCall EXCEPT ![w] = Stats!Idle] /\ atSite' = [atSite EXCEPT ![a] = k]
        /\ atGiven' = [atGiven EXCEPT ![a] = atGiven[a] + 1] /\ UNCHANGED <<atAttr, atNext>>
    BY <1>5 DEF Stats!Add, Stats!Counted
  <2>3. DOMAIN atCall' = Writer /\ \A v \in Writer : CallRight(atCall[v])'
    <3>1. CallRight(Stats!Idle)
      BY DEF CallRight, Stats!Idle
    <3> QED
      BY <2>2, <3>1, CallStep
  <2>4. atSite' \in [Attr -> Stats!Slots \cup {0}] /\ \A b \in Attr : atSite'[b] # 0 => atAttr[atSite'[b]] = b
    BY <2>1, <2>2 DEF StatsInv
  <2>5. /\ atVal' = [atVal EXCEPT ![k] = atVal[k] + 1]
        /\ atTaken' = [atTaken EXCEPT ![a] = atTaken[a]]
    BY <1>5 DEF Stats!Add, StatsInv
  <2>6. /\ atVal' \in [Stats!Slots -> Nat] /\ atGiven' \in [Attr -> Nat] /\ atTaken' \in [Attr -> Nat]
        /\ \A i \in Stats!Slots : atAttr[i] = 0 => atVal'[i] = 0
        /\ Stats!NoCountLost'
    <3>1. /\ atVal[k] + 1 \in Nat /\ atGiven[a] + 1 \in Nat
          /\ atGiven[a] + 1 = atTaken[a] + (atVal[k] + 1)
      BY <2>1
    <3> QED
      BY <2>1, <2>2, <2>5, <3>1, ValueStep
  <2> QED
    BY <2>2, <2>3, <2>4, <2>6 DEF StatsInv, Stats!Slots
<1>6. ASSUME NEW w \in Writer, Stats!Set(w)  PROVE StatsInv'
  <2> DEFINE k == atCall[w].at
             a == atCall[w].attr
  <2>1. /\ k \in Stats!Slots /\ a \in Attr /\ a # 0 /\ atAttr[k] = a
        /\ atVal[k] \in Nat /\ atGiven[a] \in Nat /\ atTaken[a] \in Nat /\ atGiven[a] = atTaken[a] + atVal[k]
    BY <1>0, <1>6 DEF Stats!Set, CallRight, StatsInv, Stats!NoCountLost
  <2>2. /\ atCall' = [atCall EXCEPT ![w] = Stats!Idle] /\ atSite' = [atSite EXCEPT ![a] = k]
        /\ atGiven' = [atGiven EXCEPT ![a] = atGiven[a] + 1] /\ UNCHANGED <<atAttr, atNext>>
    BY <1>6 DEF Stats!Set, Stats!Counted
  <2>3. DOMAIN atCall' = Writer /\ \A v \in Writer : CallRight(atCall[v])'
    <3>1. CallRight(Stats!Idle)
      BY DEF CallRight, Stats!Idle
    <3> QED
      BY <2>2, <3>1, CallStep
  <2>4. atSite' \in [Attr -> Stats!Slots \cup {0}] /\ \A b \in Attr : atSite'[b] # 0 => atAttr[atSite'[b]] = b
    BY <2>1, <2>2 DEF StatsInv
  <2>5. /\ atVal' = [atVal EXCEPT ![k] = 1]
        /\ atTaken' = [atTaken EXCEPT ![a] = atTaken[a] + atVal[k]]
    BY <1>6 DEF Stats!Set
  <2>6. /\ atVal' \in [Stats!Slots -> Nat] /\ atGiven' \in [Attr -> Nat] /\ atTaken' \in [Attr -> Nat]
        /\ \A i \in Stats!Slots : atAttr[i] = 0 => atVal'[i] = 0
        /\ Stats!NoCountLost'
    <3>1. /\ atTaken[a] + atVal[k] \in Nat /\ atGiven[a] + 1 \in Nat
          /\ atGiven[a] + 1 = (atTaken[a] + atVal[k]) + 1
      BY <2>1
    <3> QED
      BY <2>1, <2>2, <2>5, <3>1, ValueStep
  <2> QED
    BY <2>2, <2>3, <2>4, <2>6 DEF StatsInv, Stats!Slots
<1>7. CASE Stats!Iterate
  <2>1. UNCHANGED <<atAttr, atSite, atCall, atGiven>>
    BY <1>7 DEF Stats!Iterate
  <2>2. DOMAIN atCall' = Writer /\ \A v \in Writer : CallRight(atCall[v])'
    BY <2>1 DEF StatsInv, CallRight, Passed, Stats!Slots
  <2>3. CASE atNext > Capacity \/ atAttr[atNext] = 0
    <3>1. atNext' = 1 /\ UNCHANGED <<atVal, atTaken>>
      BY <1>7, <2>3 DEF Stats!Iterate
    <3> QED
      BY <2>1, <2>2, <3>1 DEF StatsInv, Stats!NoCountLost, Stats!Slots
  <2>4. CASE ~(atNext > Capacity \/ atAttr[atNext] = 0)
    <3> DEFINE a == atAttr[atNext]
    <3>1. atNext \in Stats!Slots /\ a \in Attr /\ a # 0
      BY <2>4 DEF StatsInv, Stats!Slots
    <3>2. /\ atNext' = atNext + 1 /\ atVal' = [atVal EXCEPT ![atNext] = 0]
          /\ atTaken' = [atTaken EXCEPT ![a] = atTaken[a] + atVal[atNext]]
          /\ atGiven' = [atGiven EXCEPT ![a] = atGiven[a]]
      BY <1>7, <2>1, <2>4 DEF Stats!Iterate, StatsInv
    <3>3. /\ atVal[atNext] \in Nat /\ atGiven[a] \in Nat /\ atTaken[a] \in Nat
          /\ atGiven[a] = atTaken[a] + atVal[atNext]
      BY <3>1 DEF StatsInv, Stats!NoCountLost
    <3>4. /\ atTaken[a] + atVal[atNext] \in Nat
          /\ atGiven[a] = (atTaken[a] + atVal[atNext]) + 0
      BY <3>3
    <3>5. /\ atVal' \in [Stats!Slots -> Nat] /\ atGiven' \in [Attr -> Nat] /\ atTaken' \in [Attr -> Nat]
          /\ \A i \in Stats!Slots : atAttr[i] = 0 => atVal'[i] = 0
          /\ Stats!NoCountLost'
      BY <2>1, <3>1, <3>2, <3>3, <3>4, ValueStep
    <3> QED
      BY <2>1, <2>2, <3>2, <3>5 DEF StatsInv, Stats!Slots
  <2> QED
    BY <2>3, <2>4
<1>8. CASE UNCHANGED Stats!atVars
  BY <1>8 DEF Stats!atVars, StatsInv, CallRight, Passed, Stats!NoCountLost, Stats!Slots
<1> QED
  BY <1>1, <1>2, <1>3, <1>4, <1>5, <1>6, <1>7, <1>8 DEF Stats!Next

\* For any number of threads, slots and attributes, and in whatever order the threads
\* read, claim and add: one slot an attribute, no gap, and no count is lost
\* (impl/attr_stats_impl.hh:30-75).
THEOREM StatsKept == Stats!Spec => []Stats!NoCountLost
<1>1. Stats!Init => StatsInv
  BY StatsAssumption DEF Stats!Init, StatsInv, CallRight, Stats!Idle, Stats!NoCountLost
<1>2. StatsInv /\ [Stats!Next]_Stats!atVars => StatsInv'
  BY StatsStep
<1> QED
  BY <1>1, <1>2, PTL DEF Stats!Spec, StatsInv

----------------------------------------------------------------------------
(* The segments of posix_shm.hh and sysv_shm.hh *)

\* The states of a process.
ShmRecord ==
    [pc : {"out", "create", "length", "truncate", "map", "get", "attach", "mapped"}, seg : Nat,
     real : {0, SegLen}, create : BOOLEAN, ret : {-1, 0, 1}, sz : {0, SegLen}]

\* What a process p in state r knows about its segment: no more than is true of it.
Knows(p, r, len) ==
    /\ r \in ShmRecord
    /\ r.pc \notin {"out", "create", "get"} => r.seg \in DOMAIN len
    /\ r.pc = "truncate" => r.real <= len[r.seg]
    /\ r.pc \in {"map", "mapped"} => r.sz <= len[r.seg] /\ (p \in Exact => r.sz = SegLen)
    /\ r.pc = "mapped" => r.sz > 0
    /\ r.pc = "attach" => len[r.seg] = SegLen
    /\ p \in ReadOnly => ~r.create /\ r.ret # 1 /\ r.pc \notin {"create", "get"}
    /\ r.pc # "out" => r.ret \in {0, 1}

\* The inductive invariant: what each process knows of its segment is true.
ShmInv ==
    /\ smKind \in {"posix", "sysv"}
    /\ smLen \in Seq({0, SegLen}) /\ smName \in 0..Len(smLen)
    /\ smKind = "sysv" => \A i \in DOMAIN smLen : smLen[i] = SegLen
    /\ smProc \in [Proc -> ShmRecord]
    /\ \A p \in Proc : Knows(p, smProc[p], smLen)

\* Segments are made and made longer, never shorter.
Grows ==
    /\ smLen' \in Seq({0, SegLen}) /\ smName' \in 0..Len(smLen')
    /\ smKind = "sysv" => \A i \in DOMAIN smLen' : smLen'[i] = SegLen
    /\ DOMAIN smLen \subseteq DOMAIN smLen'
    /\ \A i \in DOMAIN smLen : smLen[i] <= smLen'[i]
    /\ smKind' = smKind

\* Where one process steps, the others know what they knew.
LEMMA ShmFrame ==
    ASSUME ShmInv, Grows, NEW p \in Proc, NEW r, Knows(p, r, smLen'), Shm!Set(p, r)
    PROVE  ShmInv'
<1>1. ASSUME NEW q \in Proc, q # p  PROVE Knows(q, smProc[q], smLen')
  <2>2. \A i \in DOMAIN smLen : smLen[i] \in {0, SegLen} /\ smLen'[i] \in {0, SegLen}
    BY ElementOf DEF ShmInv, Grows
  <2>3. \A i \in DOMAIN smLen : smLen[i] \in Nat /\ smLen'[i] \in Nat /\ (smLen[i] = SegLen => smLen'[i] = SegLen)
    BY <2>2, ShmAssumption DEF Grows
  <2>4. Knows(q, smProc[q], smLen) /\ smProc[q].sz \in Nat /\ smProc[q].real \in Nat
    BY ShmAssumption DEF ShmInv, ShmRecord
  <2>5. smProc[q].seg \in DOMAIN smLen => smProc[q].seg \in DOMAIN smLen'
    BY DEF Grows
  <2> QED
    BY <2>3, <2>4, <2>5 DEF Knows, Grows
<1>2. smProc' = [smProc EXCEPT ![p] = r] /\ r \in ShmRecord
  BY DEF Shm!Set, Knows
<1>3. \A q \in Proc : Knows(q, smProc'[q], smLen')
  BY <1>1, <1>2 DEF ShmInv
<1> QED
  BY <1>2, <1>3 DEF ShmInv, Grows

\* Where no segment is made or changed.
LEMMA ShmSame == ASSUME ShmInv, UNCHANGED <<smKind, smLen>>, smName' \in {0, smName}  PROVE Grows
<1>1. \A i \in DOMAIN smLen : smLen[i] \in Nat
  BY ElementOf, ShmAssumption DEF ShmInv
<1> QED
  BY <1>1 DEF ShmInv, Grows

\* Where a name is opened with the flag to create it.
LEMMA ShmMade ==
    ASSUME ShmInv, NEW n \in {0, SegLen}, Shm!MadeIfMissing(n), smKind' = smKind,
           smKind = "sysv" => n = SegLen
    PROVE  Grows /\ smName' \in DOMAIN smLen'
<1>1. CASE smName # 0
  BY <1>1, ShmSame DEF Shm!MadeIfMissing, ShmInv, Grows
<1>2. CASE smName = 0
  <2>1. smLen' = Append(smLen, n) /\ smName' = Len(smLen) + 1
    BY <1>2 DEF Shm!MadeIfMissing
  <2>2. smLen' \in Seq({0, SegLen}) /\ Len(smLen') = Len(smLen) + 1 /\ DOMAIN smLen' = 1 .. Len(smLen) + 1
    BY <2>1 DEF ShmInv
  <2>3. DOMAIN smLen = 1..Len(smLen) /\ smLen'[Len(smLen) + 1] = n /\ \A i \in DOMAIN smLen : smLen'[i] = smLen[i]
    BY <2>1 DEF ShmInv
  <2>4. \A i \in DOMAIN smLen : smLen[i] \in Nat
    BY ElementOf, ShmAssumption DEF ShmInv
  <2> QED
    BY <2>1, <2>2, <2>3, <2>4 DEF ShmInv, Grows
<1> QED
  BY <1>1, <1>2

\* Every step keeps it; segments only grow, so that what the others know stays true.
LEMMA ShmStep ==
    ASSUME ShmInv, [Shm!Next]_Shm!smVars
    PROVE  ShmInv'
<1> USE ShmAssumption
<1> SUFFICES ASSUME Shm!Next  PROVE ShmInv'
  BY DEF Shm!smVars, ShmInv
<1>0. ASSUME NEW p \in Proc  PROVE Knows(p, smProc[p], smLen) /\ smProc[p] \in ShmRecord
  BY DEF ShmInv
<1>a. ASSUME NEW p \in Proc, NEW n \in {0, -1}  PROVE Knows(p, Shm!Out(n), smLen')
  BY DEF Knows, ShmRecord, Shm!Out
<1>1. ASSUME NEW p \in Proc, Shm!Open(p)  PROVE ShmInv'
  <2>1. Grows
    BY <1>1, ShmSame DEF Shm!Open
  <2>2. CASE smName # 0
    <3>1. Knows(p, [Shm!Out(0) EXCEPT !.pc = "length", !.seg = smName], smLen')
      <4> DEFINE n == [Shm!Out(0) EXCEPT !.pc = "length", !.seg = smName]
      <4>1. smName \in DOMAIN smLen /\ smLen' = smLen /\ smName \in Nat
        BY <1>1, <2>2 DEF Shm!Open, ShmInv
      <4>2. n \in ShmRecord
        BY <4>1 DEF Shm!Out, ShmRecord
      <4>3. n.pc = "length" /\ n.seg = smName /\ n.create = FALSE /\ n.ret = 0
        BY DEF Shm!Out
      <4> HIDE DEF n
      <4>4. Knows(p, n, smLen')
        BY <4>1, <4>2, <4>3 DEF Knows
      <4> QED
        BY <4>4 DEF n
    <3> QED
      BY <1>1, <2>1, <2>2, <3>1, ShmFrame DEF Shm!Open
  <2>3. CASE smName = 0
    <3>1. p \notin ReadOnly => Knows(p, [Shm!Out(0) EXCEPT !.pc = "create"], smLen')
      BY DEF Shm!Out, Knows, ShmRecord
    <3> QED
      BY <1>1, <1>a, <2>1, <2>3, <3>1, ShmFrame DEF Shm!Open
  <2> QED
    BY <2>2, <2>3
<1>2. ASSUME NEW p \in Proc, Shm!Create(p)  PROVE ShmInv'
  <2>1. Grows /\ smName' \in DOMAIN smLen'
    BY <1>2, ShmMade DEF Shm!Create, Shm!At
  <2>2. Knows(p, [smProc[p] EXCEPT !.pc = "length", !.seg = smName', !.create = TRUE], smLen')
    <3> DEFINE n == [smProc[p] EXCEPT !.pc = "length", !.seg = smName', !.create = TRUE]
    <3>0. smName' \in Nat
      BY <2>1, ElementOf DEF Grows
    <3>1. n \in ShmRecord
      BY <1>0, <3>0 DEF ShmRecord
    <3>2. n.pc = "length" /\ n.seg = smName' /\ n.ret = smProc[p].ret /\ n.create
      BY <1>0 DEF ShmRecord
    <3> HIDE DEF n
    <3>3. Knows(p, n, smLen')
      BY <1>2, <1>0, <2>1, <3>1, <3>2 DEF Shm!Create, Shm!At, Knows
    <3> QED
      BY <3>3 DEF n
  <2> QED
    BY <1>2, <2>1, <2>2, ShmFrame DEF Shm!Create
<1>3. ASSUME NEW p \in Proc, Shm!ReadLength(p)  PROVE ShmInv'
  <2>1. Grows
    BY <1>3, ShmSame DEF Shm!ReadLength
  <2>2. smLen[smProc[p].seg] \in {0, SegLen}
    BY <1>3, <1>0, ElementOf DEF Shm!ReadLength, Shm!At, Knows, ShmInv
  <2>3. Knows(p, [smProc[p] EXCEPT !.pc = "truncate", !.real = smLen[smProc[p].seg]], smLen')
    <3> DEFINE n == [smProc[p] EXCEPT !.pc = "truncate", !.real = smLen[smProc[p].seg]]
    <3>1. n \in ShmRecord
      BY <1>0, <2>2 DEF ShmRecord
    <3>2. /\ n.pc = "truncate" /\ n.seg = smProc[p].seg /\ n.real = smLen[n.seg]
          /\ n.create = smProc[p].create /\ n.ret = smProc[p].ret
      BY <1>0 DEF ShmRecord
    <3> HIDE DEF n
    <3>3. Knows(p, n, smLen')
      BY <1>3, <1>0, <2>2, <3>1, <3>2 DEF Shm!ReadLength, Shm!At, Knows
    <3> QED
      BY <3>3 DEF n
  <2> QED
    BY <1>3, <2>1, <2>3, ShmFrame DEF Shm!ReadLength
<1>4. ASSUME NEW p \in Proc, Shm!Truncate(p)  PROVE ShmInv'
  <2> DEFINE r == smProc[p]
  <2>1. /\ r.seg \in DOMAIN smLen /\ r.real <= smLen[r.seg] /\ r.real \in {0, SegLen}
        /\ smLen[r.seg] \in {0, SegLen}
    BY <1>4, <1>0, ElementOf DEF Shm!Truncate, Shm!At, Knows, ShmRecord, ShmInv
  <2>2. /\ smLen' \in Seq({0, SegLen}) /\ DOMAIN smLen' = DOMAIN smLen
        /\ \A i \in DOMAIN smLen : smLen[i] <= smLen'[i]
        /\ Shm!Wants(p) <= smLen'[r.seg] /\ r.real <= smLen'[r.seg]
    <3>1. CASE r.real < Shm!Wants(p)
      <4>0. Shm!Wants(p) = SegLen
        BY <2>1, <3>1 DEF Shm!Wants
      <4>1. smLen' = [smLen EXCEPT ![r.seg] = SegLen]
        BY <1>4, <3>1, <4>0 DEF Shm!Truncate
      <4>2. \A i \in DOMAIN smLen : smLen[i] \in Nat /\ smLen[i] <= SegLen
        BY ElementOf DEF ShmInv
      <4>3. smLen' \in Seq({0, SegLen}) /\ DOMAIN smLen' = DOMAIN smLen
        BY <2>1, <4>1 DEF ShmInv
      <4> QED
        BY <2>1, <4>0, <4>1, <4>2, <4>3
    <3>2. CASE ~(r.real < Shm!Wants(p))
      <4>1. smLen' = smLen /\ Shm!Wants(p) <= smLen[r.seg]
        BY <1>4, <2>1, <3>2 DEF Shm!Truncate, Shm!Wants
      <4>2. \A i \in DOMAIN smLen : smLen[i] \in Nat
        BY ElementOf DEF ShmInv
      <4> QED
        BY <2>1, <4>1, <4>2 DEF ShmInv
    <3> QED
      BY <3>1, <3>2
  <2>3. Grows
    <3>1. smKind = "posix" /\ UNCHANGED <<smKind, smName>>
      BY <1>4 DEF Shm!Truncate, Shm!At
    <3>2. Len(smLen') = Len(smLen)
      BY <2>2 DEF ShmInv
    <3> QED
      BY <2>2, <3>1, <3>2 DEF Grows, ShmInv
  <2>4. Shm!ArraySize(p) \in {0, SegLen} /\ Shm!ArraySize(p) <= smLen'[r.seg] /\ (p \in Exact => Shm!ArraySize(p) = SegLen)
    BY <2>1, <2>2 DEF Shm!ArraySize, Shm!Wants
  <2>5. Knows(p, [r EXCEPT !.pc = "map", !.sz = Shm!ArraySize(p)], smLen')
    BY <1>0, <1>4, <2>1, <2>2, <2>4 DEF Shm!Truncate, Shm!At, Knows, ShmRecord
  <2> QED
    BY <1>4, <2>3, <2>5, ShmFrame DEF Shm!Truncate
<1>5. ASSUME NEW p \in Proc, Shm!Map(p)  PROVE ShmInv'
  <2>1. Grows
    BY <1>5, ShmSame DEF Shm!Map
  <2>2. Knows(p, [smProc[p] EXCEPT !.pc = "mapped", !.ret = IF smProc[p].create THEN 1 ELSE 0], smLen')
    <3> DEFINE n == [smProc[p] EXCEPT !.pc = "mapped", !.ret = IF smProc[p].create THEN 1 ELSE 0]
    <3>1. n \in ShmRecord
      BY <1>0 DEF ShmRecord
    <3>2. /\ n.pc = "mapped" /\ n.seg = smProc[p].seg /\ n.sz = smProc[p].sz
          /\ n.create = smProc[p].create /\ n.ret = IF n.create THEN 1 ELSE 0
      BY <1>0 DEF ShmRecord
    <3> HIDE DEF n
    <3>3. Knows(p, n, smLen')
      BY <1>5, <1>0, <3>1, <3>2 DEF Shm!Map, Shm!At, Knows
    <3> QED
      BY <3>3 DEF n
  <2> QED
    BY <1>5, <2>1, <2>2, ShmFrame DEF Shm!Map
<1>6. ASSUME NEW p \in Proc, Shm!MapFails(p) \/ Shm!CallFails(p) \/ Shm!AttachFails(p)  PROVE ShmInv'
  <2>1. Grows
    BY <1>6, ShmSame DEF Shm!MapFails, Shm!CallFails, Shm!AttachFails, Shm!Fail, Shm!Unlinked
  <2> QED
    BY <1>6, <1>a, <2>1, ShmFrame DEF Shm!MapFails, Shm!CallFails, Shm!AttachFails, Shm!Fail
<1>7. ASSUME NEW p \in Proc, Shm!Get(p)  PROVE ShmInv'
  <2>1. Grows
    BY <1>7, ShmSame DEF Shm!Get
  <2>2. CASE smName # 0 /\ SegLen <= smLen[smName]
    <3>1. smLen[smName] = SegLen /\ smName \in DOMAIN smLen
      BY <1>7, <2>2 DEF Shm!Get, ShmInv
    <3>2. Knows(p, [Shm!Out(0) EXCEPT !.pc = "attach", !.seg = smName], smLen')
      <4> DEFINE n == [Shm!Out(0) EXCEPT !.pc = "attach", !.seg = smName]
      <4>1. n \in ShmRecord
        BY <3>1, ElementOf DEF Shm!Out, ShmRecord, ShmInv
      <4>2. n.pc = "attach" /\ n.seg = smName /\ n.create = FALSE /\ n.ret = 0
        BY DEF Shm!Out
      <4> HIDE DEF n
      <4>3. Knows(p, n, smLen')
        BY <1>7, <3>1, <4>1, <4>2 DEF Shm!Get, Knows
      <4> QED
        BY <4>3 DEF n
    <3> QED
      BY <1>7, <2>1, <2>2, <3>2, ShmFrame DEF Shm!Get
  <2>3. CASE ~(smName # 0 /\ SegLen <= smLen[smName])
    <3>1. p \notin ReadOnly => Knows(p, [Shm!Out(0) EXCEPT !.pc = "get"], smLen')
      BY DEF Shm!Out, Knows, ShmRecord
    <3> QED
      BY <1>7, <1>a, <2>1, <2>3, <3>1, ShmFrame DEF Shm!Get
  <2> QED
    BY <2>2, <2>3
<1>8. ASSUME NEW p \in Proc, Shm!GetCreate(p)  PROVE ShmInv'
  <2>1. Grows /\ smName' \in DOMAIN smLen'
    BY <1>8, ShmMade DEF Shm!GetCreate
  <2>2. smName' \in Nat /\ smLen'[smName'] = SegLen
    BY <1>8, <2>1 DEF Grows, Shm!GetCreate
  <2>3. Knows(p, [smProc[p] EXCEPT !.pc = "attach", !.seg = smName', !.create = TRUE], smLen')
    BY <1>8, <1>0, <2>1, <2>2 DEF Shm!GetCreate, Knows, ShmRecord
  <2> QED
    BY <1>8, <2>1, <2>3, ShmFrame DEF Shm!GetCreate
<1>9. ASSUME NEW p \in Proc, Shm!Attach(p)  PROVE ShmInv'
  <2>1. Grows
    BY <1>9, ShmSame DEF Shm!Attach
  <2>2. Knows(p, [smProc[p] EXCEPT !.pc = "mapped", !.sz = SegLen, !.ret = IF smProc[p].create THEN 1 ELSE 0], smLen')
    <3> DEFINE n == [smProc[p] EXCEPT !.pc = "mapped", !.sz = SegLen, !.ret = IF smProc[p].create THEN 1 ELSE 0]
    <3>1. n \in ShmRecord
      BY <1>0 DEF ShmRecord
    <3>2. /\ n.pc = "mapped" /\ n.seg = smProc[p].seg /\ n.sz = SegLen
          /\ n.create = smProc[p].create /\ n.ret = IF n.create THEN 1 ELSE 0
      BY <1>0 DEF ShmRecord
    <3> HIDE DEF n
    <3>3. Knows(p, n, smLen')
      BY <1>9, <1>0, <3>1, <3>2 DEF Shm!Attach, Knows
    <3> QED
      BY <3>3 DEF n
  <2> QED
    BY <1>9, <2>1, <2>2, ShmFrame DEF Shm!Attach
<1>10. ASSUME NEW p \in Proc, Shm!SetDeleted(p)  PROVE ShmInv'
  BY <1>10 DEF Shm!SetDeleted, Shm!Unlinked, ShmInv
<1>11. ASSUME NEW p \in Proc, Shm!Leave(p)  PROVE ShmInv'
  <2>1. Grows
    BY <1>11, ShmSame DEF Shm!Leave
  <2> QED
    BY <1>11, <1>a, <2>1, ShmFrame DEF Shm!Leave
<1> QED
  BY <1>1, <1>2, <1>3, <1>4, <1>5, <1>6, <1>7, <1>8, <1>9, <1>10, <1>11 DEF Shm!Next

\* However many processes create, open, truncate and map a segment of whatever length,
\* and wherever they fail: nobody has more bytes mapped than the segment has
\* (impl/posix_shm_impl.hh:38-74, impl/sysv_shm_impl.hh:36-70).
THEOREM ShmMapped == Shm!Spec => []Shm!MappedWithinSegment
<1>1. Shm!Init => ShmInv
  BY ShmAssumption DEF Shm!Init, ShmInv, ShmRecord, Knows, Shm!Out
<1>2. ShmInv /\ [Shm!Next]_Shm!smVars => ShmInv'
  BY ShmStep
<1>3. ShmInv => Shm!MappedWithinSegment
  <2> SUFFICES ASSUME ShmInv, NEW p \in Proc, smProc[p].pc = "mapped"
               PROVE  /\ smProc[p].sz <= smLen[smProc[p].seg] /\ smProc[p].sz > 0
                      /\ p \in Exact => smProc[p].sz = SegLen
                      /\ p \in ReadOnly => smProc[p].ret = 0
    BY DEF Shm!MappedWithinSegment
  <2> QED
    BY DEF ShmInv, ShmRecord, Knows
<1> QED
  BY <1>1, <1>2, <1>3, PTL DEF Shm!Spec

----------------------------------------------------------------------------
(* The locks of mutex.hh *)

\* What an owner can have.
LockModes == {"none", "read", "write"}

\* What the system has granted excludes, and a guard stands for what its owner was
\* granted.
LockInv ==
    /\ lkKind \in Lock!Kinds
    /\ lkHeld \in [Lock!Owners -> LockModes] /\ lkGuard \in [LkThread -> LockModes]
    /\ \A o, p \in Lock!Owners : o # p =>
          \/ lkHeld[o] = "none" \/ lkHeld[p] = "none" \/ (lkHeld[o] = "read" /\ lkHeld[p] = "read")
    /\ lkKind \in {"mutex", "spin"} => \A o \in Lock!Owners : lkHeld[o] # "read"
    /\ \A t \in LkThread : (lkGuard[t] # "none" /\ Lock!Alone(t)) =>
          lkHeld[Lock!Owner(t)] = Lock!Adapted(lkGuard[t])

\* Types of the attempts.
TryOK == lkTry \in [LkThread -> [mode : LockModes, left : Int]]

\* Owners who are alone are different.
LEMMA OwnersDiffer ==
    ASSUME NEW t \in LkThread, NEW u \in LkThread, u # t, Lock!Alone(t)
    PROVE  Lock!Owner(t) \in Lock!Owners /\ Lock!Owner(u) # Lock!Owner(t)
BY DEF Lock!Owner, Lock!Owners, Lock!Alone

\* The owner of a thread's locks is an owner.
LEMMA OwnerTypes == \A t \in LkThread : Lock!Owner(t) \in Lock!Owners
BY DEF Lock!Owner, Lock!Owners

\* A lock that the system grants.
LEMMA LockGranted ==
    ASSUME LockInv, NEW t \in LkThread, NEW mode \in Lock!Modes, lkKind' = lkKind,
           Lock!Granted(t, mode)
    PROVE  LockInv'
<1> DEFINE h == Lock!Adapted(mode)
<1>1. h \in {"read", "write"} /\ (lkKind \in {"mutex", "spin"} => h = "write")
  BY DEF Lock!Adapted, Lock!Modes
<1>2. lkHeld' = [lkHeld EXCEPT ![Lock!Owner(t)] = h] /\ lkGuard' = [lkGuard EXCEPT ![t] = mode]
  BY DEF Lock!Granted
<1>3. Lock!Owner(t) \in Lock!Owners
  BY OwnerTypes
<1>4. lkHeld' \in [Lock!Owners -> LockModes] /\ lkGuard' \in [LkThread -> LockModes]
  BY <1>1, <1>2, <1>3 DEF LockInv, LockModes, Lock!Modes
<1>5. \A o \in Lock!Owners : o # Lock!Owner(t) => lkHeld[o] = "none" \/ (lkHeld[o] = "read" /\ h = "read")
  BY <1>1 DEF Lock!Granted, Lock!Compatible
<1>6. \A o \in Lock!Owners : lkHeld'[o] = IF o = Lock!Owner(t) THEN h ELSE lkHeld[o]
  BY <1>2, <1>3 DEF LockInv
<1> HIDE DEF h
<1>7. \A o, p \in Lock!Owners : o # p =>
          \/ lkHeld'[o] = "none" \/ lkHeld'[p] = "none" \/ (lkHeld'[o] = "read" /\ lkHeld'[p] = "read")
  BY <1>5, <1>6 DEF LockInv
<1>8. lkKind \in {"mutex", "spin"} => \A o \in Lock!Owners : lkHeld'[o] # "read"
  BY <1>1, <1>6 DEF LockInv
<1>9. ASSUME NEW u \in LkThread, lkGuard'[u] # "none", Lock!Alone(u)
      PROVE  lkHeld'[Lock!Owner(u)] = Lock!Adapted(lkGuard'[u])
  <2>1. CASE u = t
    BY <1>2, <1>3, <1>6, <2>1 DEF LockInv, h
  <2>2. CASE u # t
    BY <1>2, <1>6, <1>9, <2>2, OwnersDiffer, OwnerTypes DEF LockInv
  <2> QED
    BY <2>1, <2>2
<1>10. \A u \in LkThread : /\ Lock!Alone(u)' = Lock!Alone(u) /\ Lock!Owner(u)' = Lock!Owner(u)
                           /\ Lock!Adapted(lkGuard[u])' = Lock!Adapted(lkGuard'[u])
  BY DEF Lock!Alone, Lock!Owner, Lock!Adapted
<1> QED
  BY <1>4, <1>7, <1>8, <1>9, <1>10 DEF LockInv

\* Every step keeps the types of the attempts.
LEMMA TryStep == ASSUME TryOK, [Lock!Next]_Lock!lkVars  PROVE TryOK'
<1>1. Lock!NoTry \in [mode : LockModes, left : Int]
  BY DEF Lock!NoTry, LockModes
<1>2. ASSUME NEW t \in LkThread, Lock!Attempt(t)  PROVE TryOK'
  <2> DEFINE more == [lkTry[t] EXCEPT !.left = lkTry[t].left - 1]
  <2>1. more \in [mode : LockModes, left : Int]
    BY DEF TryOK
  <2>2. \E r \in [mode : LockModes, left : Int] : lkTry' = [lkTry EXCEPT ![t] = r]
    BY <1>1, <1>2, <2>1 DEF Lock!Attempt
  <2> QED
    BY <2>2 DEF TryOK
<1>3. ASSUME NEW t \in LkThread, NEW mode \in Lock!Modes, NEW left \in 0..MaxAttempts,
             Lock!TimeLock(t, mode, left)
      PROVE  TryOK'
  <2>1. [mode |-> mode, left |-> left] \in [mode : LockModes, left : Int]
    BY LockAssumption DEF Lock!Modes, LockModes
  <2> QED
    BY <1>3, <2>1 DEF Lock!TimeLock, TryOK
<1>4. CASE UNCHANGED lkTry
  BY <1>4 DEF TryOK
<1> QED
  BY <1>2, <1>3, <1>4 DEF Lock!Next, Lock!lkVars, Lock!Unlock, Lock!Lock, Lock!TryLock

\* Every step keeps what is granted exclusive and the guards true.
LEMMA LockStep ==
    ASSUME LockInv, TryOK, [Lock!Next]_Lock!lkVars
    PROVE  LockInv'
<1>0. \A t \in LkThread : lkKind' = lkKind => /\ Lock!Alone(t)' = Lock!Alone(t) /\ Lock!Owner(t)' = Lock!Owner(t)
  BY DEF Lock!Alone, Lock!Owner
<1>1. CASE UNCHANGED <<lkKind, lkHeld, lkGuard>>
  <2>1. \A t \in LkThread : Lock!Adapted(lkGuard[t])' = Lock!Adapted(lkGuard[t])
    BY <1>1 DEF Lock!Adapted
  <2> QED
    BY <1>0, <1>1, <2>1 DEF LockInv
<1>2. ASSUME NEW t \in LkThread, Lock!Unlock(t)  PROVE LockInv'
  <2>1. /\ lkHeld' = [lkHeld EXCEPT ![Lock!Owner(t)] = "none"]
        /\ lkGuard' = [lkGuard EXCEPT ![t] = "none"] /\ lkKind' = lkKind
    BY <1>2 DEF Lock!Unlock
  <2>2. lkHeld' \in [Lock!Owners -> LockModes] /\ lkGuard' \in [LkThread -> LockModes]
    BY <2>1 DEF LockInv, LockModes
  <2>3. \A o \in Lock!Owners : lkHeld'[o] = IF o = Lock!Owner(t) THEN "none" ELSE lkHeld[o]
    BY <2>1 DEF LockInv
  <2>4. ASSUME NEW u \in LkThread, lkGuard'[u] # "none", Lock!Alone(u)
        PROVE  lkHeld'[Lock!Owner(u)] = Lock!Adapted(lkGuard'[u])
    <3>1. u # t /\ lkGuard'[u] = lkGuard[u]
      BY <2>1, <2>4 DEF LockInv
    <3> QED
      BY <2>3, <2>4, <3>1, OwnersDiffer, OwnerTypes DEF LockInv
  <2>5. \A u \in LkThread : Lock!Adapted(lkGuard[u])' = Lock!Adapted(lkGuard'[u])
    BY <2>1 DEF Lock!Adapted
  <2> QED
    BY <1>0, <2>1, <2>2, <2>3, <2>4, <2>5 DEF LockInv
<1>3. ASSUME NEW t \in LkThread, NEW mode \in Lock!Modes, Lock!Lock(t, mode)  PROVE LockInv'
  BY <1>3, LockGranted DEF Lock!Lock
<1>4. ASSUME NEW t \in LkThread, NEW mode \in Lock!Modes, Lock!TryLock(t, mode)  PROVE LockInv'
  BY <1>1, <1>4, LockGranted DEF Lock!TryLock
<1>5. ASSUME NEW t \in LkThread, NEW mode \in Lock!Modes, NEW left, Lock!TimeLock(t, mode, left)  PROVE LockInv'
  BY <1>1, <1>5 DEF Lock!TimeLock
<1>6. ASSUME NEW t \in LkThread, Lock!Attempt(t)  PROVE LockInv'
  <2>1. lkTry[t].mode \in Lock!Modes
    BY <1>6 DEF Lock!Attempt, TryOK, LockModes, Lock!Modes
  <2> QED
    BY <1>1, <1>6, <2>1, LockGranted DEF Lock!Attempt
<1>7. CASE UNCHANGED Lock!lkVars
  BY <1>1, <1>7 DEF Lock!lkVars
<1> QED
  BY <1>2, <1>3, <1>4, <1>5, <1>6, <1>7 DEF Lock!Next

\* For any threads and files, and every kind of lock: guards exclude each other as
\* their modes say, and what a guard unlocks is still locked (mutex.hh:334-468).
THEOREM LocksExclude == Lock!Spec => []Lock!GuardsExclude
<1>1. Lock!Init => LockInv /\ TryOK
  <2> SUFFICES ASSUME Lock!Init  PROVE LockInv /\ TryOK
    OBVIOUS
  <2>1. LockInv
    BY OwnerTypes DEF Lock!Init, LockInv, LockModes
  <2>2. TryOK
    BY DEF Lock!Init, TryOK, LockModes, Lock!NoTry
  <2> QED
    BY <2>1, <2>2
<1>2. LockInv /\ TryOK /\ [Lock!Next]_Lock!lkVars => LockInv' /\ TryOK'
  BY LockStep, TryStep
<1>3. LockInv => Lock!GuardsExclude
  <2> SUFFICES ASSUME LockInv, NEW t \in LkThread, lkGuard[t] # "none", Lock!Alone(t),
                      NEW u \in LkThread \ {t}, lkGuard[u] # "none", Lock!Alone(u)
               PROVE  lkKind \in {"rwlock", "file"} /\ lkGuard[t] = "read" /\ lkGuard[u] = "read"
    BY DEF LockInv, Lock!GuardsExclude
  <2>1. /\ lkHeld[Lock!Owner(t)] = Lock!Adapted(lkGuard[t])
        /\ lkHeld[Lock!Owner(u)] = Lock!Adapted(lkGuard[u])
    BY DEF LockInv
  <2>2. Lock!Adapted(lkGuard[t]) # "none" /\ Lock!Adapted(lkGuard[u]) # "none"
    BY DEF Lock!Adapted
  <2>3. /\ lkHeld[Lock!Owner(t)] = "read" /\ lkHeld[Lock!Owner(u)] = "read"
        /\ lkKind \notin {"mutex", "spin"}
    BY <2>1, <2>2, OwnersDiffer, OwnerTypes DEF LockInv
  <2> QED
    BY <2>1, <2>3 DEF LockInv, Lock!Adapted, Lock!Kinds
<1> QED
  BY <1>1, <1>2, <1>3, PTL DEF Lock!Spec

----------------------------------------------------------------------------
(* The semaphores of semaphore.hh *)

\* Units of what processes have: f says how many, all of them, those of p and the rest.
Units(f) == {u \in SeProc \X (1..SeMax) : u[2] <= f[u[1]]}
Rest(f, p) == {u \in SeProc \X (1..SeMax) : u[1] # p /\ u[2] <= f[u[1]]}
UnitsOf(f, p) == {u \in SeProc \X (1..SeMax) : u[1] = p /\ u[2] <= f[u[1]]}

\* There are finitely many.
LEMMA UnitsFinite ==
    ASSUME NEW f \in [SeProc -> 0..SeMax], NEW p \in SeProc
    PROVE  IsFiniteSet(Units(f)) /\ IsFiniteSet(Rest(f, p)) /\ IsFiniteSet(UnitsOf(f, p))
<1>1. IsFiniteSet(1..SeMax) /\ IsFiniteSet(SeProc)
  BY FS_Interval, SemaAssumption
<1>2. IsFiniteSet(SeProc \X (1..SeMax))
  BY <1>1, FS_Product
<1>3. /\ Units(f) \subseteq SeProc \X (1..SeMax)
      /\ Rest(f, p) \subseteq SeProc \X (1..SeMax)
      /\ UnitsOf(f, p) \subseteq SeProc \X (1..SeMax)
  BY DEF Units, Rest, UnitsOf
<1> QED
  BY <1>2, <1>3, FS_Subset

\* What one has is counted by what its units are.
LEMMA UnitsOfOne ==
    ASSUME NEW f \in [SeProc -> 0..SeMax], NEW p \in SeProc
    PROVE  Cardinality(UnitsOf(f, p)) = f[p]
<1> DEFINE A == UnitsOf(f, p)
           B == 1..f[p]
           h == [n \in B |-> <<p, n>>]
<1>0. SeMax \in Nat /\ f[p] \in 0..SeMax
  BY SemaAssumption
<1>1. IsFiniteSet(B) /\ Cardinality(B) = f[p]
  <2>1. f[p] \in Nat /\ 1 \in Int /\ f[p] \in Int
    BY <1>0
  <2>2. IsFiniteSet(1..f[p]) /\ Cardinality(1..f[p]) = IF 1 > f[p] THEN 0 ELSE f[p] - 1 + 1
    BY <2>1, FS_Interval
  <2> QED
    BY <2>1, <2>2
<1>2. h \in Bijection(B, A)
  <2>1. h \in [B -> A]
    <3>1. ASSUME NEW n \in B PROVE <<p, n>> \in A
      BY <1>0 DEF UnitsOf
    <3> QED
      BY <3>1
  <2>2. \A m, n \in B : h[m] = h[n] => m = n
    OBVIOUS
  <2>3. ASSUME NEW u \in A PROVE \E n \in B : h[n] = u
    <3>1. u = <<u[1], u[2]>> /\ u[1] = p /\ u[2] \in 1..SeMax /\ u[2] <= f[p]
      BY DEF UnitsOf
    <3>2. u[2] \in B
      BY <3>1, <1>0
    <3> QED
      BY <3>1, <3>2
  <2> HIDE DEF h, A, B
  <2> QED
    BY <2>1, <2>2, <2>3 DEF Bijection, Injection, Surjection, IsInjective
<1>3. ExistsBijection(B, A)
  BY <1>2 DEF ExistsBijection
<1>4. IsFiniteSet(A)
  BY UnitsFinite
<1>5. Cardinality(B) = Cardinality(A)
  <2> HIDE DEF A, B
  <2> QED
    BY <1>1, <1>3, <1>4, FS_Bijection
<1> QED
  BY <1>1, <1>5

\* They are those of p and the rest.
LEMMA UnitsSplit ==
    ASSUME NEW f \in [SeProc -> 0..SeMax], NEW p \in SeProc
    PROVE  /\ Cardinality(Units(f)) = Cardinality(Rest(f, p)) + f[p]
           /\ Cardinality(Rest(f, p)) \in Nat
<1>1. Units(f) = Rest(f, p) \cup UnitsOf(f, p) /\ Rest(f, p) \cap UnitsOf(f, p) = {}
  BY DEF Units, Rest, UnitsOf
<1>2. IsFiniteSet(Rest(f, p)) /\ IsFiniteSet(UnitsOf(f, p))
  BY UnitsFinite
<1>3. Cardinality(Units(f)) =
        Cardinality(Rest(f, p)) + Cardinality(UnitsOf(f, p)) - Cardinality({})
  BY <1>1, <1>2, FS_Union
<1>4. Cardinality(Rest(f, p)) \in Nat /\ f[p] \in Nat
  BY <1>2, FS_CardinalityType, SemaAssumption
<1> QED
  BY <1>3, <1>4, UnitsOfOne, FS_EmptySet

\* The units change only for who changes.
LEMMA UnitsChange ==
    ASSUME NEW f \in [SeProc -> 0..SeMax], NEW g \in [SeProc -> 0..SeMax], NEW p \in SeProc,
           \A q \in SeProc : q # p => f[q] = g[q]
    PROVE  Cardinality(Units(g)) = Cardinality(Units(f)) - f[p] + g[p]
<1>1. Rest(f, p) = Rest(g, p)
  BY DEF Rest
<1>2. f[p] \in Nat /\ g[p] \in Nat
  BY SemaAssumption
<1> QED
  BY <1>1, <1>2, UnitsSplit

\* Types of sets and processes.
SetTypes == [val : [Sem -> Int], adj : [SeProc -> [Sem -> Int]], there : BOOLEAN, made : [Sem -> Int]]
ProcTypes == [id : Nat, told : [Sem -> 0..SeMax], call : SemOps \cup {Sema!NoCall}]

\* Types of the state; ids and the name are of sets that were made.
SemaTypes ==
    /\ seKind \in {"posix", "xsi", "undo"}
    /\ seSet \in Seq(SetTypes)
    /\ seProc \in [SeProc -> ProcTypes]
    /\ seName \in Nat /\ seName <= Len(seSet)
    /\ \A q \in SeProc : seProc[q].id <= Len(seSet)

\* What a process has of semaphore s of set i.
Has(i, q, s) == IF seProc[q].id = i THEN seProc[q].told[s] ELSE 0
\* What each process has of it.
Amount(i, s) == [q \in SeProc |-> Has(i, q, s)]

\* A set that is there: what is left and what is taken is what was made, and what the
\* system will add for a process is what it has taken.
SetKept(i) ==
    \A s \in Sem :
        /\ seSet[i].val[s] >= 0 /\ seSet[i].made[s] <= SeMax
        /\ seSet[i].made[s] = seSet[i].val[s] + Cardinality(Units(Amount(i, s)))
        /\ \A q \in SeProc : seSet[i].adj[q][s] = IF seKind = "undo" THEN Has(i, q, s) ELSE 0

\* The inductive invariant.
SemaInv == SemaTypes /\ \A i \in DOMAIN seSet : seSet[i].there => SetKept(i)

\* Types of the parts of a set.
LEMMA SetType ==
    ASSUME SemaTypes, NEW i \in DOMAIN seSet
    PROVE  /\ seSet[i].val \in [Sem -> Int] /\ seSet[i].made \in [Sem -> Int]
           /\ seSet[i].adj \in [SeProc -> [Sem -> Int]]
           /\ seSet[i].there \in BOOLEAN
<1>1. seSet[i] \in SetTypes
  BY ElementOf DEF SemaTypes
<1> QED
  BY <1>1 DEF SetTypes

\* Types of the parts of a process.
LEMMA ProcType ==
    ASSUME SemaTypes, NEW q \in SeProc
    PROVE  /\ seProc[q].id \in Nat /\ seProc[q].told \in [Sem -> 0..SeMax]
           /\ seProc[q].call \in SemOps \cup {Sema!NoCall}
BY DEF SemaTypes, ProcTypes

\* Types of what processes have.
LEMMA AmountType ==
    ASSUME SemaTypes, NEW i, NEW s \in Sem
    PROVE  Amount(i, s) \in [SeProc -> 0..SeMax]
<1>1. ASSUME NEW q \in SeProc PROVE Has(i, q, s) \in 0..SeMax
  <2>1. seProc[q].told[s] \in 0..SeMax
    BY ProcType
  <2> QED
    BY <2>1, SemaAssumption DEF Has
<1> QED
  BY <1>1 DEF Amount

\* What one process has is no more than what all have.
LEMMA CountType ==
    ASSUME SemaTypes, NEW i, NEW s \in Sem, NEW p \in SeProc
    PROVE  /\ Cardinality(Units(Amount(i, s))) \in Nat /\ Has(i, p, s) \in 0..SeMax
           /\ Has(i, p, s) <= Cardinality(Units(Amount(i, s)))
<1>1. Amount(i, s) \in [SeProc -> 0..SeMax]
  BY AmountType
<1>2. Amount(i, s)[p] = Has(i, p, s)
  BY DEF Amount
<1> HIDE DEF Amount
<1>3. Has(i, p, s) \in 0..SeMax
  BY <1>1, <1>2
<1> QED
  BY <1>1, <1>2, <1>3, UnitsSplit, SemaAssumption

\* What p has changes what is counted by as much.
LEMMA CountChange ==
    ASSUME SemaTypes, SemaTypes', NEW p \in SeProc, \A q \in SeProc : q # p => seProc'[q] = seProc[q],
           NEW i, NEW s \in Sem
    PROVE  Cardinality(Units(Amount(i, s)))' =
              Cardinality(Units(Amount(i, s))) - Has(i, p, s) + Has(i, p, s)'
<1> DEFINE f == Amount(i, s)
           g == [q \in SeProc |-> IF seProc'[q].id = i THEN seProc'[q].told[s] ELSE 0]
<1>1. f \in [SeProc -> 0..SeMax]
  BY AmountType
<1>2. g \in [SeProc -> 0..SeMax]
  <2>1. ASSUME NEW q \in SeProc PROVE g[q] \in 0..SeMax
    <3>1. seProc'[q].told \in [Sem -> 0..SeMax]
      BY DEF SemaTypes, ProcTypes
    <3> QED
      BY <3>1, SemaAssumption
  <2> QED
    BY <2>1
<1>3. Amount(i, s)' = g
  BY DEF Amount, Has
<1>4. Units(Amount(i, s))' = Units(g)
  BY <1>3 DEF Units
<1>5. \A q \in SeProc : q # p => f[q] = g[q]
  BY DEF Amount, Has
<1>6. f[p] = Has(i, p, s) /\ g[p] = Has(i, p, s)'
  BY DEF Amount, Has
<1> HIDE DEF f, g
<1>7. Cardinality(Units(g)) = Cardinality(Units(f)) - f[p] + g[p]
  BY <1>1, <1>2, <1>5, UnitsChange
<1> QED
  BY <1>4, <1>6, <1>7 DEF f

\* A set nothing happens to.
LEMMA SameSet ==
    ASSUME SemaTypes, SemaTypes', NEW i, SetKept(i), seSet'[i] = seSet[i], seKind' = seKind,
           \A q \in SeProc, s \in Sem : Has(i, q, s)' = Has(i, q, s)
    PROVE  SetKept(i)'
<1>1. ASSUME NEW s \in Sem PROVE Amount(i, s)' = Amount(i, s)
  BY DEF Amount
<1>2. ASSUME NEW s \in Sem PROVE Units(Amount(i, s))' = Units(Amount(i, s))
  BY <1>1 DEF Units
<1> QED
  BY <1>2 DEF SetKept

\* A set of which p takes or gives back.
LEMMA ChangedSet ==
    ASSUME SemaTypes, SemaTypes', NEW i \in DOMAIN seSet, SetKept(i), seKind' = seKind, NEW p \in SeProc,
           \A q \in SeProc : q # p => seProc'[q] = seProc[q],
           i \in DOMAIN seSet',
           \A q \in SeProc : q # p => seSet'[i].adj[q] = seSet[i].adj[q],
           \A s \in Sem :
              /\ seSet'[i].val[s] >= 0 /\ seSet'[i].made[s] <= SeMax
              /\ seSet'[i].made[s] - seSet[i].made[s] =
                    seSet'[i].val[s] - seSet[i].val[s] + (Has(i, p, s)' - Has(i, p, s))
              /\ seSet'[i].adj[p][s] = IF seKind = "undo" THEN Has(i, p, s)' ELSE 0
    PROVE  SetKept(i)'
<1> SUFFICES ASSUME NEW s \in Sem
             PROVE  /\ seSet'[i].val[s] >= 0 /\ seSet'[i].made[s] <= SeMax
                    /\ seSet'[i].made[s] = seSet'[i].val[s] + Cardinality(Units(Amount(i, s)))'
                    /\ \A q \in SeProc : seSet'[i].adj[q][s] = IF seKind' = "undo" THEN Has(i, q, s)' ELSE 0
  BY DEF SetKept
<1>1. Cardinality(Units(Amount(i, s)))' =
              Cardinality(Units(Amount(i, s))) - Has(i, p, s) + Has(i, p, s)'
  BY CountChange
<1>2. Cardinality(Units(Amount(i, s))) \in Nat /\ Has(i, p, s) \in Int
  BY CountType
<1>3. Has(i, p, s)' \in Int
  <2>1. seProc'[p].told \in [Sem -> 0..SeMax]
    BY DEF SemaTypes, ProcTypes
  <2> QED
    BY <2>1, SemaAssumption DEF Has
<1>4. seSet[i].val[s] \in Int /\ seSet[i].made[s] \in Int
  BY SetType
<1>5. seSet'[i].val[s] \in Int /\ seSet'[i].made[s] \in Int
  <2>1. seSet'[i] \in SetTypes
    BY ElementOf DEF SemaTypes
  <2> QED
    BY <2>1 DEF SetTypes
<1>6. seSet[i].made[s] = seSet[i].val[s] + Cardinality(Units(Amount(i, s)))
  BY DEF SetKept
<1>7. ASSUME NEW q \in SeProc, q # p
      PROVE  seSet'[i].adj[q][s] = IF seKind' = "undo" THEN Has(i, q, s)' ELSE 0
  BY <1>7 DEF SetKept, Has
<1>8. seSet'[i].adj[p][s] = IF seKind' = "undo" THEN Has(i, p, s)' ELSE 0
  OBVIOUS
<1>9. seSet'[i].made[s] = seSet'[i].val[s] + Cardinality(Units(Amount(i, s)))'
  <2> DEFINE a == Cardinality(Units(Amount(i, s)))
             b == Cardinality(Units(Amount(i, s)))'
             m == seSet[i].made[s]
             n == seSet'[i].made[s]
             v == seSet[i].val[s]
             w == seSet'[i].val[s]
             h == Has(i, p, s)
             k == Has(i, p, s)'
  <2>1. b = a - h + k /\ m = v + a /\ n - m = w - v + (k - h)
    BY <1>1, <1>6
  <2>2. a \in Int /\ h \in Int /\ k \in Int /\ v \in Int /\ w \in Int /\ m \in Int /\ n \in Int
    BY <1>2, <1>3, <1>4, <1>5
  <2> HIDE DEF a, b, m, n, v, w, h, k
  <2>3. n = w + b
    BY <2>1, <2>2
  <2> QED
    BY <2>3 DEF n, w, b
<1> QED
  BY <1>7, <1>8, <1>9

\* An element of a sequence is replaced.
LEMMA Replaced ==
    ASSUME NEW S, NEW s \in Seq(S), NEW i \in DOMAIN s, NEW x \in S
    PROVE  LET t == [s EXCEPT ![i] = x]
           IN  /\ t \in Seq(S) /\ Len(t) = Len(s) /\ DOMAIN t = DOMAIN s /\ t[i] = x
               /\ \A j \in DOMAIN s : j # i => t[j] = s[j]
OBVIOUS

\* A step of p with its own set i, the new object of p and the new set given.
LEMMA OneSet ==
    ASSUME SemaInv, NEW p \in SeProc, NEW i \in DOMAIN seSet, seProc[p].id = i,
           NEW set \in SetTypes, NEW me \in ProcTypes, me.id \in {0, i},
           seSet' = [seSet EXCEPT ![i] = set], seProc' = [seProc EXCEPT ![p] = me],
           seKind' = seKind, seName' \in Nat, seName' <= Len(seSet),
           set.there => /\ seSet[i].there
                        /\ \A q \in SeProc : q # p => set.adj[q] = seSet[i].adj[q]
                        /\ \A s \in Sem :
                             LET has == IF me.id = i THEN me.told[s] ELSE 0
                             IN  /\ set.val[s] >= 0 /\ set.made[s] <= SeMax
                                 /\ set.made[s] - seSet[i].made[s] =
                                      set.val[s] - seSet[i].val[s] + (has - seProc[p].told[s])
                                 /\ set.adj[p][s] = IF seKind = "undo" THEN has ELSE 0
    PROVE  SemaInv'
<1>1. /\ seSet' \in Seq(SetTypes) /\ Len(seSet') = Len(seSet) /\ DOMAIN seSet' = DOMAIN seSet /\ seSet'[i] = set
      /\ \A j \in DOMAIN seSet : j # i => seSet'[j] = seSet[j]
  BY Replaced DEF SemaInv, SemaTypes
<1>2. seProc'[p] = me /\ \A q \in SeProc : q # p => seProc'[q] = seProc[q]
  BY DEF SemaInv, SemaTypes
<1>3. SemaTypes
  BY DEF SemaInv
<1>4. Len(seSet) \in Nat /\ i <= Len(seSet) /\ i \in Nat
  BY <1>3 DEF SemaTypes
<1>5. SemaTypes'
  <2>1. seProc' \in [SeProc -> ProcTypes]
    BY <1>3 DEF SemaTypes
  <2>2. ASSUME NEW q \in SeProc PROVE seProc'[q].id <= Len(seSet')
    <3>1. CASE q = p
      BY <3>1, <1>1, <1>2, <1>4
    <3>2. CASE q # p
      BY <3>2, <1>1, <1>2, <1>3 DEF SemaTypes
    <3> QED
      BY <3>1, <3>2
  <2>3. seKind' \in {"posix", "xsi", "undo"}
    BY <1>3 DEF SemaTypes
  <2> QED
    BY <1>1, <2>1, <2>2, <2>3 DEF SemaTypes
<1>6. ASSUME NEW j \in DOMAIN seSet, j # i, seSet'[j].there  PROVE SetKept(j)'
  <2>1. seSet'[j] = seSet[j]
    BY <1>1, <1>6
  <2>2. SetKept(j)
    BY <1>6, <2>1 DEF SemaInv
  <2>3. j # 0
    BY ElementOf, <1>3 DEF SemaTypes
  <2>4. \A q \in SeProc, s \in Sem : Has(j, q, s)' = Has(j, q, s)
    BY <1>2, <1>6, <2>3 DEF Has
  <2> QED
    BY <1>3, <1>5, <2>1, <2>2, <2>4, SameSet
<1>7. ASSUME set.there  PROVE SetKept(i)'
  <2>1. SetKept(i)
    BY <1>7 DEF SemaInv
  <2>2. ASSUME NEW s \in Sem
        PROVE  /\ Has(i, p, s) = seProc[p].told[s]
               /\ Has(i, p, s)' = IF me.id = i THEN me.told[s] ELSE 0
    BY <1>2 DEF Has
  <2>3. \A s \in Sem :
              /\ seSet'[i].val[s] >= 0 /\ seSet'[i].made[s] <= SeMax
              /\ seSet'[i].made[s] - seSet[i].made[s] =
                    seSet'[i].val[s] - seSet[i].val[s] + (Has(i, p, s)' - Has(i, p, s))
              /\ seSet'[i].adj[p][s] = IF seKind = "undo" THEN Has(i, p, s)' ELSE 0
    BY <1>1, <1>7, <2>2
  <2>4. \A q \in SeProc : q # p => seSet'[i].adj[q] = seSet[i].adj[q]
    BY <1>1, <1>7
  <2>5. i \in DOMAIN seSet'
    BY <1>1
  <2> QED
    BY <1>2, <1>3, <1>5, <2>1, <2>3, <2>4, <2>5, ChangedSet
<1> QED
  BY <1>1, <1>5, <1>6, <1>7 DEF SemaInv

\* Operations are numbers.
LEMMA AtType ==
    ASSUME NEW ops \in SemOps, NEW s \in Sem
    PROVE  Sema!At(ops, s) \in Int
BY SemaAssumption DEF Sema!At

\* What is made by a call, and what the process has then.
LEMMA MadeValue ==
    ASSUME SemaTypes, NEW ops \in SemOps, NEW s \in Sem, NEW p \in SeProc
    PROVE  /\ Sema!Made(p, ops, s) \in Nat
           /\ Sema!Made(p, ops, s) = IF Sema!At(ops, s) > seProc[p].told[s]
                                     THEN Sema!At(ops, s) - seProc[p].told[s] ELSE 0
           /\ seProc[p].told[s] - Sema!At(ops, s) + Sema!Made(p, ops, s) \in Nat
<1>1. Sema!At(ops, s) \in Int
  BY AtType
<1>2. seProc[p].told[s] \in Nat
  BY ProcType, SemaAssumption
<1> QED
  BY <1>1, <1>2 DEF Sema!Made, Sema!Positive

\* A call that is done, at once or after a wait.
LEMMA DoneStep ==
    ASSUME SemaInv, NEW p \in SeProc, NEW ops \in SemOps,
           Sema!Usable(p), Sema!CanDo(Sema!Values(p), ops), Sema!Callable(p, ops),
           Sema!Done(p, ops), UNCHANGED <<seKind, seName>>
    PROVE  SemaInv'
<1> DEFINE i == seProc[p].id
           set == seSet[i]
           me == seProc[p]
           newset == [set EXCEPT !.val = [s \in Sem |-> set.val[s] + Sema!At(ops, s)],
                                 !.adj = [set.adj EXCEPT ![p] = [s \in Sem |-> set.adj[p][s] - Sema!Undo(ops, s)]],
                                 !.made = [s \in Sem |-> set.made[s] + Sema!Made(p, ops, s)]]
           newme == [me EXCEPT !.call = Sema!NoCall,
                               !.told = [s \in Sem |-> me.told[s] - Sema!At(ops, s) + Sema!Made(p, ops, s)]]
<1>1. SemaTypes
  BY DEF SemaInv
<1>2. i \in DOMAIN seSet /\ set.there
  BY <1>1 DEF Sema!Usable, SemaTypes, ProcTypes
<1>3. SetKept(i)
  BY <1>2 DEF SemaInv
<1>4. seSet' = [seSet EXCEPT ![i] = newset] /\ seProc' = [seProc EXCEPT ![p] = newme]
  BY DEF Sema!Done
<1>5. set \in SetTypes /\ me \in ProcTypes
  BY <1>1, <1>2, ElementOf DEF SemaTypes
<1>6. ASSUME NEW s \in Sem
      PROVE  /\ set.val[s] + Sema!At(ops, s) >= 0
             /\ set.made[s] + Sema!Made(p, ops, s) <= SeMax
             /\ me.told[s] - Sema!At(ops, s) + Sema!Made(p, ops, s) \in 0..SeMax
  <2>1. set.val[s] \in Int /\ set.made[s] \in Int /\ set.val[s] >= 0
    BY <1>1, <1>2, <1>3, SetType DEF SetKept
  <2>2. set.val[s] + Sema!At(ops, s) >= 0
    BY <2>1 DEF Sema!CanDo, Sema!Values, Sema!At
  <2>3. set.made[s] + Sema!Made(p, ops, s) <= SeMax
    BY DEF Sema!Callable
  <2>4. set.made[s] = set.val[s] + Cardinality(Units(Amount(i, s))) /\ me.told[s] = Has(i, p, s)
    BY <1>3 DEF SetKept, Has
  <2>5. /\ Cardinality(Units(Amount(i, s))) \in Nat /\ Has(i, p, s) \in Int
        /\ Has(i, p, s) <= Cardinality(Units(Amount(i, s)))
    BY <1>1, CountType
  <2>6. /\ Sema!At(ops, s) \in Int /\ Sema!Made(p, ops, s) \in Nat
        /\ me.told[s] - Sema!At(ops, s) + Sema!Made(p, ops, s) \in Nat
    BY <1>1, AtType, MadeValue
  <2>7. me.told[s] - Sema!At(ops, s) + Sema!Made(p, ops, s) <= SeMax
    <3> DEFINE c == Cardinality(Units(Amount(i, s)))
               h == Has(i, p, s)
               a == Sema!At(ops, s)
               m == Sema!Made(p, ops, s)
               v == set.val[s]
               t == me.told[s]
               d == set.made[s]
    <3>1. d = v + c /\ t = h /\ h <= c /\ v + a >= 0 /\ d + m <= SeMax
      BY <2>2, <2>3, <2>4, <2>5
    <3>2. c \in Int /\ h \in Int /\ a \in Int /\ m \in Int /\ v \in Int /\ d \in Int /\ SeMax \in Int
      BY <2>1, <2>5, <2>6, SemaAssumption
    <3> HIDE DEF c, h, a, m, v, t, d
    <3>3. t - a + m <= SeMax
      BY <3>1, <3>2
    <3> QED
      BY <3>3 DEF t, a, m
  <2> QED
    BY <2>2, <2>3, <2>6, <2>7, SemaAssumption
<1>7. /\ newset \in SetTypes /\ newset.there = set.there
      /\ \A q \in SeProc : q # p => newset.adj[q] = set.adj[q]
      /\ \A s \in Sem : /\ newset.val[s] = set.val[s] + Sema!At(ops, s)
                        /\ newset.made[s] = set.made[s] + Sema!Made(p, ops, s)
                        /\ newset.adj[p][s] = set.adj[p][s] - Sema!Undo(ops, s)
  <2>1. [s \in Sem |-> set.val[s] + Sema!At(ops, s)] \in [Sem -> Int]
    BY <1>5, AtType DEF SetTypes
  <2>2. [s \in Sem |-> set.made[s] + Sema!Made(p, ops, s)] \in [Sem -> Int]
    BY <1>1, <1>5, MadeValue DEF SetTypes
  <2>3. [s \in Sem |-> set.adj[p][s] - Sema!Undo(ops, s)] \in [Sem -> Int]
    <3>1. ASSUME NEW s \in Sem PROVE set.adj[p][s] - Sema!Undo(ops, s) \in Int
      <4>1. Sema!Undo(ops, s) \in Int
        BY AtType DEF Sema!Undo
      <4>2. set.adj[p][s] \in Int
        BY <1>5 DEF SetTypes
      <4> QED
        BY <4>1, <4>2
    <3> QED
      BY <3>1
  <2> DEFINE vals == [s \in Sem |-> set.val[s] + Sema!At(ops, s)]
             mades == [s \in Sem |-> set.made[s] + Sema!Made(p, ops, s)]
             adjs == [s \in Sem |-> set.adj[p][s] - Sema!Undo(ops, s)]
  <2>4. \A s \in Sem : /\ vals[s] = set.val[s] + Sema!At(ops, s)
                       /\ mades[s] = set.made[s] + Sema!Made(p, ops, s)
                       /\ adjs[s] = set.adj[p][s] - Sema!Undo(ops, s)
    OBVIOUS
  <2>5. newset = [set EXCEPT !.val = vals, !.adj = [set.adj EXCEPT ![p] = adjs], !.made = mades]
    OBVIOUS
  <2>6. vals \in [Sem -> Int] /\ mades \in [Sem -> Int] /\ adjs \in [Sem -> Int]
    BY <2>1, <2>2, <2>3
  <2> HIDE DEF vals, mades, adjs, newset, set
  <2>7. /\ newset \in SetTypes /\ newset.there = set.there /\ newset.val = vals /\ newset.made = mades
        /\ newset.adj = [set.adj EXCEPT ![p] = adjs]
    BY <1>5, <2>5, <2>6 DEF SetTypes
  <2>8. newset.adj[p] = adjs /\ \A q \in SeProc : q # p => newset.adj[q] = set.adj[q]
    BY <1>5, <2>7 DEF SetTypes
  <2> QED
    BY <2>4, <2>7, <2>8
<1>8. /\ newme \in ProcTypes /\ newme.id = i
      /\ \A s \in Sem : newme.told[s] = me.told[s] - Sema!At(ops, s) + Sema!Made(p, ops, s)
  BY <1>5, <1>6 DEF ProcTypes
<1>9. seName \in Nat /\ seName <= Len(seSet)
  BY <1>1 DEF SemaTypes
<1>10. ASSUME NEW s \in Sem
       PROVE  /\ newset.val[s] >= 0 /\ newset.made[s] <= SeMax
              /\ newset.made[s] - set.made[s] = newset.val[s] - set.val[s] + (newme.told[s] - me.told[s])
              /\ newset.adj[p][s] = IF seKind = "undo" THEN newme.told[s] ELSE 0
  <2>1. /\ newset.val[s] = set.val[s] + Sema!At(ops, s)
        /\ newset.made[s] = set.made[s] + Sema!Made(p, ops, s)
        /\ newset.adj[p][s] = set.adj[p][s] - Sema!Undo(ops, s)
        /\ newme.told[s] = me.told[s] - Sema!At(ops, s) + Sema!Made(p, ops, s)
    BY <1>7, <1>8
  <2> HIDE DEF newset, newme
  <2>2. /\ set.val[s] \in Int /\ set.made[s] \in Int /\ set.adj[p][s] \in Int
        /\ me.told[s] \in Int /\ Sema!At(ops, s) \in Int /\ Sema!Made(p, ops, s) \in Int
    BY <1>5, AtType, MadeValue, <1>1, SemaAssumption DEF SetTypes, ProcTypes
  <2>3. set.adj[p][s] = IF seKind = "undo" THEN me.told[s] ELSE 0
    BY <1>3 DEF SetKept, Has
  <2>4. seKind = "undo" => Sema!Made(p, ops, s) = 0
    BY DEF Sema!Callable
  <2>5. Sema!Undo(ops, s) = IF seKind = "undo" THEN Sema!At(ops, s) ELSE 0
    BY DEF Sema!Undo
  <2>6. newset.adj[p][s] = IF seKind = "undo" THEN newme.told[s] ELSE 0
    <3> HIDE DEF set, me
    <3> QED
      BY <2>1, <2>2, <2>3, <2>4, <2>5
  <2>7. newset.made[s] - set.made[s] = newset.val[s] - set.val[s] + (newme.told[s] - me.told[s])
    <3> HIDE DEF set, me
    <3> QED
      BY <2>1, <2>2
  <2>8. newset.val[s] >= 0 /\ newset.made[s] <= SeMax
    BY <1>6, <2>1
  <2> QED
    BY <2>6, <2>7, <2>8
<1> HIDE DEF newset, newme
<1> QED
  BY <1>2, <1>4, <1>7, <1>8, <1>9, <1>10, OneSet

\* Nobody has anything of it.
LEMMA NoneTaken ==
    ASSUME NEW i, NEW s \in Sem, \A q \in SeProc : Has(i, q, s) = 0
    PROVE  Cardinality(Units(Amount(i, s))) = 0
<1>1. Units(Amount(i, s)) = {}
  BY SemaAssumption DEF Units, Amount
<1> QED
  BY <1>1, FS_EmptySet

\* Types of a new object.
LEMMA ObjectType ==
    ASSUME SemaTypes, NEW n \in Nat
    PROVE  Sema!Object(n) \in ProcTypes /\ Sema!Object(n).id = n /\ Sema!Object(n).told = Sema!Nothing
BY SemaAssumption DEF Sema!Object, Sema!Nothing, ProcTypes

\* Only the call of p changes.
LEMMA WaitStep ==
    ASSUME SemaInv, NEW p \in SeProc, NEW c \in SemOps \cup {Sema!NoCall},
           seProc' = [seProc EXCEPT ![p].call = c], UNCHANGED <<seKind, seName, seSet>>
    PROVE  SemaInv'
<1>1. SemaTypes
  BY DEF SemaInv
<1>2. ASSUME NEW q \in SeProc
      PROVE  seProc'[q] \in ProcTypes /\ seProc'[q].id = seProc[q].id /\ seProc'[q].told = seProc[q].told
  <2>1. seProc[q] \in ProcTypes
    BY <1>1 DEF SemaTypes
  <2> QED
    BY <1>1, <2>1 DEF SemaTypes, ProcTypes
<1>3. SemaTypes'
  <2>1. seProc' \in [SeProc -> ProcTypes]
    BY <1>1, <1>2 DEF SemaTypes
  <2> QED
    BY <1>1, <1>2, <2>1 DEF SemaTypes
<1>4. \A j \in DOMAIN seSet : \A q \in SeProc, s \in Sem : Has(j, q, s)' = Has(j, q, s)
  BY <1>2 DEF Has
<1> QED
  BY <1>1, <1>3, <1>4, SameSet DEF SemaInv

\* A set is opened, or made.
LEMMA OpenStep ==
    ASSUME SemaInv, NEW p \in SeProc, NEW create \in BOOLEAN, Sema!OpenSet(p, create)
    PROVE  SemaInv'
<1>1. SemaTypes /\ seProc[p].id = 0 /\ seKind' = seKind
  BY DEF SemaInv, Sema!OpenSet
<1>2. /\ seName' \in Nat /\ seName' <= Len(seSet') /\ Len(seSet) <= Len(seSet') /\ Len(seSet') \in Nat
      /\ seSet' \in Seq(SetTypes)
      /\ \A j \in DOMAIN seSet : j \in DOMAIN seSet' /\ seSet'[j] = seSet[j]
  <2>1. CASE seName # 0
    BY <2>1, <1>1 DEF Sema!OpenSet, SemaTypes
  <2>2. CASE seName = 0
    <3> DEFINE new == [val |-> Sema!Nothing, adj |-> [q \in SeProc |-> Sema!Nothing], there |-> TRUE,
                       made |-> Sema!Nothing]
    <3>1. seName' = Len(seSet) + 1 /\ seSet' = Append(seSet, new)
      BY <2>2 DEF Sema!OpenSet
    <3>2. new \in SetTypes
      BY DEF SetTypes, Sema!Nothing
    <3> HIDE DEF new
    <3> QED
      BY <3>1, <3>2, <1>1 DEF SemaTypes
  <2> QED
    BY <2>1, <2>2
<1>3. /\ seProc' = [seProc EXCEPT ![p] = Sema!Object(seName')]
      /\ Sema!Object(seName') \in ProcTypes /\ Sema!Object(seName').id = seName'
      /\ Sema!Object(seName').told = Sema!Nothing
  BY <1>1, <1>2, ObjectType DEF Sema!OpenSet
<1>4. seProc'[p] = Sema!Object(seName') /\ \A q \in SeProc : q # p => seProc'[q] = seProc[q]
  BY <1>1, <1>3 DEF SemaTypes
<1>5. SemaTypes'
  <2>1. seProc' \in [SeProc -> ProcTypes]
    BY <1>1, <1>3 DEF SemaTypes
  <2>2. ASSUME NEW q \in SeProc PROVE seProc'[q].id <= Len(seSet')
    <3>1. CASE q = p
      BY <3>1, <1>2, <1>3, <1>4
    <3>2. CASE q # p
      <4>1. seProc[q].id \in Nat /\ seProc[q].id <= Len(seSet) /\ Len(seSet) \in Nat
        BY <1>1, ProcType DEF SemaTypes
      <4> QED
        BY <4>1, <3>2, <1>2, <1>4
    <3> QED
      BY <3>1, <3>2
  <2> QED
    BY <1>1, <1>2, <2>1, <2>2 DEF SemaTypes
<1>6. ASSUME NEW j \in DOMAIN seSet, NEW q \in SeProc, NEW s \in Sem  PROVE Has(j, q, s)' = Has(j, q, s)
  <2>1. j # 0
    BY <1>1, ElementOf DEF SemaTypes
  <2> QED
    BY <2>1, <1>1, <1>3, <1>4 DEF Has, Sema!Nothing
<1>7. ASSUME NEW j \in DOMAIN seSet, seSet'[j].there  PROVE SetKept(j)'
  BY <1>1, <1>2, <1>5, <1>6, <1>7, SameSet DEF SemaInv
<1>8. ASSUME NEW j \in DOMAIN seSet', j \notin DOMAIN seSet  PROVE SetKept(j)'
  <2>1. seName = 0
    BY <1>8 DEF Sema!OpenSet
  <2> DEFINE new == [val |-> Sema!Nothing, adj |-> [q \in SeProc |-> Sema!Nothing], there |-> TRUE,
                     made |-> Sema!Nothing]
  <2>2. seSet' = Append(seSet, new)
    BY <2>1 DEF Sema!OpenSet
  <2>3. j = Len(seSet) + 1 /\ seSet'[j] = new /\ Len(seSet) \in Nat
    BY <1>1, <1>8, <2>2 DEF SemaTypes
  <2>4. ASSUME NEW q \in SeProc, NEW s \in Sem  PROVE Has(j, q, s)' = 0
    <3>1. CASE q = p
      BY <3>1, <1>3, <1>4 DEF Has, Sema!Nothing
    <3>2. CASE q # p
      <4>1. seProc[q].id \in Nat /\ seProc[q].id <= Len(seSet)
        BY <1>1, ProcType DEF SemaTypes
      <4> QED
        BY <4>1, <3>2, <1>4, <2>3 DEF Has
    <3> QED
      BY <3>1, <3>2
  <2>5. ASSUME NEW s \in Sem  PROVE Cardinality(Units(Amount(j, s)))' = 0
    <3>1. Units(Amount(j, s))' = {}
      BY <2>4, SemaAssumption DEF Units, Amount
    <3> QED
      BY <3>1, FS_EmptySet
  <2>6. ASSUME NEW s \in Sem
        PROVE  seSet'[j].val[s] = 0 /\ seSet'[j].made[s] = 0 /\ \A q \in SeProc : seSet'[j].adj[q][s] = 0
    BY <2>3 DEF Sema!Nothing
  <2> HIDE DEF new
  <2> QED
    BY <2>4, <2>5, <2>6, SemaAssumption DEF SetKept
<1> QED
  BY <1>5, <1>7, <1>8 DEF SemaInv

\* Values are set while nobody has anything.
LEMMA ValuesStep ==
    ASSUME SemaInv, NEW p \in SeProc, NEW some \in SUBSET Sem, NEW v \in 0..SeMax, Sema!SetValues(p, some, v)
    PROVE  SemaInv'
<1>0. PICK i : i = seProc[p].id
  OBVIOUS
<1> DEFINE set == seSet[i]
           With(f, n) == [s \in Sem |-> IF s \in some THEN n ELSE f[s]]
           newset == [set EXCEPT !.val = With(set.val, v), !.made = With(set.made, v),
                                 !.adj = [q \in SeProc |-> With(set.adj[q], 0)]]
<1>1. SemaTypes
  BY DEF SemaInv
<1>2. i \in DOMAIN seSet /\ set.there
  BY <1>0, <1>1 DEF Sema!SetValues, Sema!Usable, SemaTypes, ProcTypes
<1>3. SetKept(i) /\ set \in SetTypes
  BY <1>1, <1>2, ElementOf DEF SemaInv, SemaTypes
<1>4. seSet' = [seSet EXCEPT ![i] = newset] /\ UNCHANGED <<seKind, seName, seProc>>
  BY <1>0 DEF Sema!SetValues
<1>5. /\ newset \in SetTypes /\ newset.val = With(set.val, v) /\ newset.made = With(set.made, v)
      /\ newset.adj = [q \in SeProc |-> With(set.adj[q], 0)]
  <2>1. With(set.val, v) \in [Sem -> Int] /\ With(set.made, v) \in [Sem -> Int]
    BY <1>3, SemaAssumption DEF SetTypes
  <2>2. [q \in SeProc |-> With(set.adj[q], 0)] \in [SeProc -> [Sem -> Int]]
    BY <1>3 DEF SetTypes
  <2> DEFINE vals == With(set.val, v)
             mades == With(set.made, v)
             adjs == [q \in SeProc |-> With(set.adj[q], 0)]
  <2>3. newset = [set EXCEPT !.val = vals, !.made = mades, !.adj = adjs]
    OBVIOUS
  <2>4. vals \in [Sem -> Int] /\ mades \in [Sem -> Int] /\ adjs \in [SeProc -> [Sem -> Int]]
    BY <2>1, <2>2
  <2> HIDE DEF vals, mades, adjs, newset, set
  <2>5. newset \in SetTypes /\ newset.val = vals /\ newset.made = mades /\ newset.adj = adjs
    BY <1>3, <2>3, <2>4 DEF SetTypes
  <2> QED
    BY <2>5 DEF vals, mades, adjs
<1>6. /\ seSet' \in Seq(SetTypes) /\ Len(seSet') = Len(seSet) /\ DOMAIN seSet' = DOMAIN seSet
      /\ seSet'[i] = newset /\ \A j \in DOMAIN seSet : j # i => seSet'[j] = seSet[j]
  <2> HIDE DEF newset, set
  <2> QED
    BY <1>1, <1>2, <1>4, <1>5, Replaced DEF SemaTypes
<1>7. SemaTypes'
  BY <1>1, <1>4, <1>6 DEF SemaTypes
<1>8. ASSUME NEW j, NEW q \in SeProc, NEW s \in Sem  PROVE Has(j, q, s)' = Has(j, q, s)
  BY <1>4 DEF Has
<1>9. ASSUME NEW s \in Sem, s \in some, NEW q \in SeProc  PROVE Has(i, q, s) = 0
  BY <1>0, <1>9 DEF Has, Sema!SetValues, Sema!Opened
<1>10. SetKept(i)'
  <2> SUFFICES ASSUME NEW s \in Sem
               PROVE  /\ newset.val[s] >= 0 /\ newset.made[s] <= SeMax
                      /\ newset.made[s] = newset.val[s] + Cardinality(Units(Amount(i, s)))'
                      /\ \A q \in SeProc : newset.adj[q][s] = IF seKind = "undo" THEN Has(i, q, s)' ELSE 0
    BY <1>4, <1>6 DEF SetKept
  <2>1. Amount(i, s)' = Amount(i, s)
    BY <1>4 DEF Amount, Has
  <2>2. Units(Amount(i, s))' = Units(Amount(i, s))
    BY <2>1 DEF Units
  <2>3. CASE s \in some
    <3>1. newset.val[s] = v /\ newset.made[s] = v /\ \A q \in SeProc : newset.adj[q][s] = 0
      BY <1>5, <2>3
    <3>2. Cardinality(Units(Amount(i, s))) = 0
      BY <1>9, <2>3, NoneTaken
    <3> HIDE DEF newset
    <3> QED
      BY <3>1, <3>2, <2>2, <1>8, <1>9, <2>3, SemaAssumption
  <2>4. CASE s \notin some
    <3>1. /\ newset.val[s] = set.val[s] /\ newset.made[s] = set.made[s]
          /\ \A q \in SeProc : newset.adj[q][s] = set.adj[q][s]
      BY <1>5, <2>4
    <3> HIDE DEF newset
    <3> QED
      BY <3>1, <2>2, <1>3, <1>8 DEF SetKept
  <2> QED
    BY <2>3, <2>4
<1>11. ASSUME NEW j \in DOMAIN seSet, j # i, seSet'[j].there  PROVE SetKept(j)'
  BY <1>1, <1>4, <1>6, <1>7, <1>8, <1>11, SameSet DEF SemaInv
<1> HIDE DEF newset, set
<1> QED
  BY <1>6, <1>7, <1>10, <1>11 DEF SemaInv

\* A set is destroyed.
LEMMA DestroyStep ==
    ASSUME SemaInv, NEW p \in SeProc, Sema!Destroy(p)
    PROVE  SemaInv'
<1> DEFINE i == seProc[p].id
           newset == [seSet[i] EXCEPT !.there = FALSE]
           me == Sema!Object(0)
<1>1. SemaTypes /\ i # 0
  BY DEF SemaInv, Sema!Destroy
<1>2. i \in DOMAIN seSet
  BY <1>1 DEF SemaTypes, ProcTypes
<1>3. newset \in SetTypes /\ ~newset.there
  <2>1. seSet[i] \in SetTypes
    BY <1>1, <1>2, ElementOf DEF SemaTypes
  <2> QED
    BY <2>1 DEF SetTypes
<1>4. me \in ProcTypes /\ me.id \in {0, i}
  BY <1>1, ObjectType
<1>5. /\ seSet' = [seSet EXCEPT ![i] = newset] /\ seProc' = [seProc EXCEPT ![p] = me]
      /\ seKind' = seKind /\ seName' \in {0, seName}
  BY DEF Sema!Destroy
<1>6. seName' \in Nat /\ seName' <= Len(seSet)
  BY <1>1, <1>5 DEF SemaTypes
<1> HIDE DEF newset, me
<1> QED
  BY <1>2, <1>3, <1>4, <1>5, <1>6, OneSet

\* A process dies, and the system adds what it has taken, if it was told to.
LEMMA DieStep ==
    ASSUME SemaInv, NEW p \in SeProc, Sema!Die(p)
    PROVE  SemaInv'
<1> DEFINE i == seProc[p].id
           set == seSet[i]
           told == seProc[p].told
           newset == [set EXCEPT !.val = [s \in Sem |-> Sema!Positive(set.val[s] + set.adj[p][s])],
                                 !.adj = [set.adj EXCEPT ![p] = Sema!Nothing],
                                 !.made = [s \in Sem |-> set.made[s] - (IF seKind = "undo" THEN 0 ELSE told[s])]]
           me == Sema!Object(0)
<1>1. SemaTypes /\ i # 0
  BY DEF SemaInv, Sema!Die
<1>2. i \in DOMAIN seSet
  BY <1>1 DEF SemaTypes, ProcTypes
<1>3. set \in SetTypes /\ told \in [Sem -> 0..SeMax]
  BY <1>1, <1>2, ElementOf, ProcType DEF SemaTypes
<1>4. me \in ProcTypes /\ me.id = 0 /\ \A s \in Sem : me.told[s] = 0
  BY <1>1, ObjectType DEF Sema!Nothing
<1>5. seSet' = [seSet EXCEPT ![i] = newset] /\ seProc' = [seProc EXCEPT ![p] = me] /\ UNCHANGED <<seKind, seName>>
  BY DEF Sema!Die
<1>6. /\ newset \in SetTypes /\ newset.there = set.there
      /\ \A q \in SeProc : q # p => newset.adj[q] = set.adj[q]
      /\ \A s \in Sem : /\ newset.val[s] = Sema!Positive(set.val[s] + set.adj[p][s])
                        /\ newset.made[s] = set.made[s] - (IF seKind = "undo" THEN 0 ELSE told[s])
                        /\ newset.adj[p][s] = 0
  <2> DEFINE vals == [s \in Sem |-> Sema!Positive(set.val[s] + set.adj[p][s])]
             mades == [s \in Sem |-> set.made[s] - (IF seKind = "undo" THEN 0 ELSE told[s])]
             adjs == Sema!Nothing
  <2>1. vals \in [Sem -> Int]
    BY <1>3 DEF SetTypes, Sema!Positive
  <2>2. mades \in [Sem -> Int]
    BY <1>3, SemaAssumption DEF SetTypes
  <2>3. adjs \in [Sem -> Int] /\ \A s \in Sem : adjs[s] = 0
    BY DEF Sema!Nothing
  <2>4. \A s \in Sem : /\ vals[s] = Sema!Positive(set.val[s] + set.adj[p][s])
                       /\ mades[s] = set.made[s] - (IF seKind = "undo" THEN 0 ELSE told[s])
    OBVIOUS
  <2>5. newset = [set EXCEPT !.val = vals, !.adj = [set.adj EXCEPT ![p] = adjs], !.made = mades]
    OBVIOUS
  <2> HIDE DEF vals, mades, adjs, newset, set
  <2>7. /\ newset \in SetTypes /\ newset.there = set.there /\ newset.val = vals /\ newset.made = mades
        /\ newset.adj = [set.adj EXCEPT ![p] = adjs]
    BY <1>3, <2>1, <2>2, <2>3, <2>5 DEF SetTypes
  <2>8. newset.adj[p] = adjs /\ \A q \in SeProc : q # p => newset.adj[q] = set.adj[q]
    BY <1>3, <2>7 DEF SetTypes
  <2> QED
    BY <2>3, <2>4, <2>7, <2>8
<1>7. ASSUME newset.there, NEW s \in Sem
      PROVE  /\ newset.val[s] >= 0 /\ newset.made[s] <= SeMax
             /\ newset.made[s] - set.made[s] = newset.val[s] - set.val[s] + (0 - told[s])
             /\ newset.adj[p][s] = 0
  <2>1. SetKept(i)
    BY <1>2, <1>6, <1>7 DEF SemaInv
  <2>2. /\ set.val[s] >= 0 /\ set.made[s] <= SeMax
        /\ set.adj[p][s] = IF seKind = "undo" THEN told[s] ELSE 0
    BY <2>1 DEF SetKept, Has
  <2>3. set.val[s] \in Int /\ set.made[s] \in Int /\ told[s] \in Nat /\ SeMax \in Nat
    BY <1>3, SemaAssumption DEF SetTypes
  <2>4. /\ newset.val[s] = Sema!Positive(set.val[s] + set.adj[p][s])
        /\ newset.made[s] = set.made[s] - (IF seKind = "undo" THEN 0 ELSE told[s])
        /\ newset.adj[p][s] = 0
    BY <1>6
  <2> HIDE DEF newset, set, told
  <2>5. CASE seKind = "undo"
    <3>1. set.adj[p][s] = told[s] /\ newset.made[s] = set.made[s]
      BY <2>2, <2>3, <2>4, <2>5
    <3>2. newset.val[s] = set.val[s] + told[s]
      BY <2>2, <2>3, <2>4, <3>1 DEF Sema!Positive
    <3> QED BY <2>2, <2>3, <2>4, <3>1, <3>2
  <2>6. CASE seKind # "undo"
    <3>1. set.adj[p][s] = 0 /\ newset.made[s] = set.made[s] - told[s]
      BY <2>2, <2>4, <2>6
    <3>2. newset.val[s] = set.val[s]
      BY <2>2, <2>3, <2>4, <3>1 DEF Sema!Positive
    <3> QED BY <2>2, <2>3, <2>4, <3>1, <3>2
  <2> QED
    BY <2>5, <2>6
<1>8. seName \in Nat /\ seName <= Len(seSet)
  BY <1>1 DEF SemaTypes
<1> HIDE DEF newset, me
<1> QED
  BY <1>2, <1>4, <1>5, <1>6, <1>7, <1>8, <1>1, OneSet

\* Nothing changes.
LEMMA NoStep ==
    ASSUME SemaInv, UNCHANGED <<seKind, seName, seSet, seProc>>
    PROVE  SemaInv'
<1>1. SemaTypes /\ SemaTypes'
  BY DEF SemaInv, SemaTypes
<1>2. \A j : \A q \in SeProc, s \in Sem : Has(j, q, s)' = Has(j, q, s)
  BY DEF Has
<1> QED
  BY <1>1, <1>2, SameSet DEF SemaInv

\* Every step keeps the invariant.
LEMMA SemaStep ==
    ASSUME SemaInv, [Sema!Next]_Sema!seVars
    PROVE  SemaInv'
<1>1. CASE Sema!Unlink
  <2>1. SemaTypes /\ UNCHANGED <<seKind, seSet, seProc>> /\ seName' = 0
    BY <1>1 DEF SemaInv, Sema!Unlink
  <2>2. SemaTypes'
    BY <2>1 DEF SemaTypes
  <2>3. \A j : \A q \in SeProc, s \in Sem : Has(j, q, s)' = Has(j, q, s)
    BY <2>1 DEF Has
  <2> QED
    BY <2>1, <2>2, <2>3, SameSet DEF SemaInv
<1>2. ASSUME NEW p \in SeProc, NEW ops \in SemOps, NEW wait \in BOOLEAN, Sema!Apply(p, ops, wait)  PROVE SemaInv'
  <2>1. CASE Sema!Usable(p) /\ Sema!CanDo(Sema!Values(p), ops)
    BY <1>2, <2>1, DoneStep DEF Sema!Apply
  <2>2. CASE ~(Sema!Usable(p) /\ Sema!CanDo(Sema!Values(p), ops))
    <3>1. CASE seProc' = [seProc EXCEPT ![p].call = ops]
      BY <1>2, <2>2, <3>1, WaitStep DEF Sema!Apply
    <3>2. CASE seProc' = seProc
      <4>1. UNCHANGED <<seKind, seName, seSet, seProc>>
        BY <1>2, <2>2, <3>2 DEF Sema!Apply
      <4> QED
        BY <4>1, NoStep
    <3> QED
      BY <1>2, <2>2, <3>1, <3>2 DEF Sema!Apply
  <2> QED
    BY <2>1, <2>2
<1>3. ASSUME NEW p \in SeProc, Sema!Resume(p)  PROVE SemaInv'
  <2>1. seProc[p].call \in SemOps
    BY <1>3, ProcType DEF Sema!Resume, Sema!Ready, SemaInv
  <2> QED
    BY <1>3, <2>1, DoneStep DEF Sema!Resume
<1>4. ASSUME NEW p \in SeProc, Sema!GiveUp(p)  PROVE SemaInv'
  BY <1>4, WaitStep DEF Sema!GiveUp
<1>5. CASE UNCHANGED Sema!seVars
  BY <1>5, NoStep DEF Sema!seVars
<1> QED
  BY <1>1, <1>2, <1>3, <1>4, <1>5, OpenStep, ValuesStep, DestroyStep, DieStep DEF Sema!Next

\* Semaphores counts as this module does.
LEMMA SemaCardinality == ASSUME NEW S  PROVE Sema!Cardinality(S) = Cardinality(S)
BY DEF Sema!Cardinality, Cardinality

\* For any processes, operations and sets, whoever opens, takes, waits, gives up,
\* destroys or dies where: what was made is what is left and what is taken
\* (semaphore.hh:142-276).
THEOREM SemaphoresKept == Sema!Spec => []Sema!NothingLost
<1>1. Sema!Init => SemaInv
  BY SemaAssumption DEF Sema!Init, SemaInv, SemaTypes, ProcTypes, Sema!Object, Sema!Nothing
<1>2. SemaInv /\ [Sema!Next]_Sema!seVars => SemaInv'
  BY SemaStep
<1>3. SemaInv => Sema!NothingLost
  <2> SUFFICES ASSUME SemaInv, NEW i \in DOMAIN seSet, seSet[i].there, NEW s \in Sem
               PROVE  seSet[i].made[s] = seSet[i].val[s] + Sema!Cardinality(Sema!Taken(i, s))
    BY DEF Sema!NothingLost
  <2>1. Sema!Taken(i, s) = Units(Amount(i, s))
    <3>1. ASSUME NEW u \in SeProc \X (1..SeMax)
          PROVE  (seProc[u[1]].id = i /\ u[2] <= seProc[u[1]].told[s]) <=> u[2] <= Amount(i, s)[u[1]]
      <4>1. u[1] \in SeProc /\ u[2] \in Int /\ u[2] >= 1
        BY SemaAssumption
      <4> QED
        BY <4>1 DEF Amount, Has
    <3> QED
      BY <3>1 DEF Sema!Taken, Units
  <2> QED
    BY <2>1, SemaCardinality DEF SemaInv, SetKept
<1> QED
  BY <1>1, <1>2, <1>3, PTL DEF Sema!Spec

----------------------------------------------------------------------------
(* The pool of threads.hh *)

\* The threads in run.
Running == {t \in Pool!Threads : tpThread[t] = "run"}

\* Types of the state.
PoolTypes ==
    /\ tpThread \in [Pool!Threads -> {"none", "created", "run", "left", "ended"}]
    /\ tpList \in Seq(Pool!Threads)
    /\ tpCall \in [do : {"none", "start", "join"}, at : Nat]

\* Who is in threads_ is there; starting goes on with numbers that are not, and a
\* call of joinThreads leaves ended threads behind it.
PoolInv ==
    /\ PoolTypes
    /\ tpCnt = Cardinality(Running)
    /\ \A t \in Pool!Threads : tpThread[t] # "none" <=> Pool!InPool(t)
    /\ tpCall.do = "start" =>
          tpCall.at > 0 /\ tpJoined = {} /\ \A i \in DOMAIN tpList : tpList[i] < tpCall.at
    /\ tpCall.do = "join" =>
          /\ tpCall.at \in DOMAIN tpList
          /\ \A i \in DOMAIN tpList : i < tpCall.at => tpThread[tpList[i]] = "ended"
    /\ (tpCall.do = "none" /\ tpJoined # {}) =>
          \A i \in DOMAIN tpList : tpThread[tpList[i]] = "ended"
    /\ tpCall.do = "none" <=> tpCall = Pool!NoCall
    /\ tpList = <<>> => tpJoined = {}

\* They can be counted.
LEMMA RunningFinite == IsFiniteSet(Running) /\ Cardinality(Running) \in Nat
<1>1. IsFiniteSet(Pool!Threads)
  BY FS_Interval, PoolAssumption DEF Pool!Threads
<1>2. IsFiniteSet(Running)
  BY <1>1, FS_Subset DEF Running
<1> QED
  BY <1>2, FS_CardinalityType

\* Every step keeps the invariant.
LEMMA PoolStep ==
    ASSUME PoolInv, [Pool!Next]_Pool!tpVars
    PROVE  PoolInv'
<1> USE DEF PoolInv, PoolTypes, Pool!InPool, Pool!Threads, Pool!NoCall
<1>1. CASE Pool!Start
  BY <1>1 DEF Pool!Start, Running
<1>2. CASE Pool!StartOne
  <2>1. CASE UNCHANGED <<tpThread, tpList>>
    BY <1>2, <2>1 DEF Pool!StartOne, Running
  <2>2. CASE Pool!Create(tpCall.at) /\ tpList' = Append(tpList, tpCall.at)
    <3> DEFINE t == tpCall.at
    <3>1. t \in 1..PoolSize
      BY <1>2, PoolAssumption DEF Pool!StartOne
    <3>2. tpThread[t] = "none"
      BY <3>1, <1>2 DEF Pool!StartOne
    <3>3. PoolTypes'
      BY <1>2, <2>2, <3>1 DEF Pool!StartOne, Pool!Create
    <3>4. Running' = Running /\ tpCnt' = tpCnt
      BY <1>2, <2>2, <3>1, <3>2 DEF Pool!StartOne, Pool!Create, Running
    <3>5. /\ Len(tpList') = Len(tpList) + 1 /\ tpList'[Len(tpList) + 1] = t
          /\ DOMAIN tpList' = 1 .. Len(tpList) + 1
          /\ \A i \in DOMAIN tpList : tpList'[i] = tpList[i]
      BY <2>2, <3>1
    <3>6. ASSUME NEW u \in Pool!Threads
          PROVE  tpThread'[u] # "none" <=> \E i \in DOMAIN tpList' : tpList'[i] = u
      <4>1. tpThread' = [tpThread EXCEPT ![t] = "created"]
        BY <2>2 DEF Pool!Create
      <4>2. CASE u = t
        BY <3>1, <3>5, <4>1, <4>2
      <4>3. CASE u # t
        <5>1. tpThread'[u] = tpThread[u]
          BY <4>1, <4>3
        <5>2. (\E i \in DOMAIN tpList' : tpList'[i] = u) <=> \E i \in DOMAIN tpList : tpList[i] = u
          BY <3>5, <4>3
        <5> QED
          BY <5>1, <5>2
      <4> QED
        BY <4>2, <4>3
    <3>7. tpCall' = [tpCall EXCEPT !.at = t + 1] /\ tpJoined' = tpJoined /\ tpCall.do = "start"
      BY <1>2 DEF Pool!StartOne
    <3>8. ASSUME NEW i \in DOMAIN tpList'  PROVE tpList'[i] < t + 1
      <4>1. CASE i \in DOMAIN tpList
        <5>1. tpList[i] < t
          BY <3>7, <4>1
        <5>2. tpList[i] \in 1..PoolSize
          BY <4>1, ElementOf DEF PoolTypes
        <5> QED
          BY <3>1, <3>5, <4>1, <5>1, <5>2
      <4> QED
        BY <3>1, <3>5, <4>1
    <3> QED
      BY <3>1, <3>3, <3>4, <3>5, <3>6, <3>7, <3>8
  <2> QED
    BY <1>2, <2>1, <2>2 DEF Pool!StartOne
<1>3. CASE Pool!Started
  BY <1>3 DEF Pool!Started, Running
<1>4. ASSUME NEW t \in Pool!Threads, Pool!Enter(t)  PROVE PoolInv'
  <2>1. Running' = Running \cup {t} /\ t \notin Running
    BY <1>4 DEF Pool!Enter, Running
  <2>2. tpCnt' = Cardinality(Running')
    BY <1>4, <2>1, RunningFinite, FS_AddElement DEF Pool!Enter
  <2> QED
    BY <1>4, <2>2 DEF Pool!Enter
<1>5. ASSUME NEW t \in Pool!Threads, Pool!Leave(t)  PROVE PoolInv'
  <2>1. Running' = Running \ {t} /\ t \in Running
    BY <1>5 DEF Pool!Leave, Running
  <2>2. tpCnt' = Cardinality(Running')
    BY <1>5, <2>1, RunningFinite, FS_RemoveElement DEF Pool!Leave
  <2> QED
    BY <1>5, <2>2 DEF Pool!Leave
<1>6. ASSUME NEW t \in Pool!Threads, Pool!End(t)  PROVE PoolInv'
  <2>1. Running' = Running
    BY <1>6 DEF Pool!End, Running
  <2> QED
    BY <1>6, <2>1 DEF Pool!End
<1>7. CASE Pool!Stop \/ Pool!Detach
  BY <1>7 DEF Pool!Stop, Pool!Detach, Running
<1>8. CASE Pool!Join
  BY <1>8 DEF Pool!Join, Running
<1>9. CASE Pool!JoinOne
  BY <1>9 DEF Pool!JoinOne, Running
<1>10. CASE UNCHANGED Pool!tpVars
  BY <1>10 DEF Pool!tpVars, Running
<1> QED
  BY <1>1, <1>2, <1>3, <1>4, <1>5, <1>6, <1>7, <1>8, <1>9, <1>10 DEF Pool!Next

\* ThreadPool counts as this module does.
LEMMA PoolCardinality == ASSUME NEW S  PROVE Pool!Cardinality(S) = Cardinality(S)
BY DEF Pool!Cardinality, Cardinality

\* For pools of any size, of whose threads some may not have been created: cnt_ is the
\* number of threads in run, and after joinThreads none runs, for good
\* (threads.hh:179-262).
THEOREM PoolJoined == Pool!Spec => []Pool!JoinedIsStopped
<1>1. Pool!Init => PoolInv
  <2> SUFFICES ASSUME Pool!Init PROVE PoolInv
    OBVIOUS
  <2>1. Running = {}
    BY DEF Pool!Init, Running
  <2> QED
    BY <2>1, FS_EmptySet DEF Pool!Init, PoolInv, PoolTypes, Pool!InPool, Pool!Threads, Pool!NoCall
<1>2. PoolInv /\ [Pool!Next]_Pool!tpVars => PoolInv'
  BY PoolStep
<1>3. PoolInv => Pool!JoinedIsStopped
  <2> SUFFICES ASSUME PoolInv PROVE Pool!JoinedIsStopped
    OBVIOUS
  <2>1. ASSUME tpCall = Pool!NoCall, tpJoined # {}
        PROVE  \A t \in Pool!Threads : tpThread[t] \in {"none", "ended"}
    BY <2>1 DEF PoolInv, Pool!InPool, Pool!NoCall
  <2>2. ASSUME tpCall = Pool!NoCall, tpJoined # {}
        PROVE  Running = {}
    BY <2>1, <2>2 DEF Running
  <2>3. ASSUME tpCall = Pool!NoCall, tpJoined # {}
        PROVE  tpCnt = 0
    BY <2>2, <2>3, FS_EmptySet DEF PoolInv
  <2>4. tpCnt = Pool!Cardinality({t \in Pool!Threads : tpThread[t] = "run"})
    BY PoolCardinality DEF PoolInv, Running
  <2>5. \A t \in Pool!Threads : tpThread[t] # "none" => Pool!InPool(t)
    BY DEF PoolInv
  <2> QED
    BY <2>1, <2>3, <2>4, <2>5 DEF Pool!JoinedIsStopped, Pool!Stopped
<1> QED
  BY <1>1, <1>2, <1>3, PTL DEF Pool!Spec

----------------------------------------------------------------------------
(* The coroutines of coroutine.hh *)

\* The flows of control.
Flows == Coro \cup {Main}

\* Types of the state.
CoTypes ==
    /\ coRun \in Flows /\ coSaved \in [Co!Contexts -> Flows \cup {Co!None}]
    /\ coLink \in [Coro -> Co!Contexts] /\ coFlags \subseteq Coro /\ coEnded \subseteq Coro

\* Each flow that has not ended runs or waits in one context, in its own cur_ or in the
\* prev_ of a coroutine it has called; the flag of one that was ever left is set.
Placed ==
    /\ \A c \in Coro : coSaved[Co!Cur(c)] \in {Co!None, c}
    /\ \A k, l \in Co!Contexts : (coSaved[k] = coSaved[l] /\ coSaved[k] # Co!None) => k = l
    /\ \A k \in Co!Contexts : coSaved[k] # coRun /\ coSaved[k] \notin coEnded
    /\ \A f \in Flows \ (coEnded \cup {coRun}) : \E k \in Co!Contexts : coSaved[k] = f
    /\ \A c \in Coro : coSaved[Co!Prev(c)] \in Coro => coSaved[Co!Prev(c)] \in coFlags
    /\ coRun \in Coro => coRun \in coFlags
    /\ coFlags \cap coEnded = {}

\* A coroutine that has called another has itself somebody to return to.
CallersReturn ==
    \A c, d \in Coro : coSaved[Co!Prev(d)] = c =>
        coLink[c] = Co!Prev(c) /\ coSaved[Co!Prev(c)] # Co!None

\* The coroutines a yield() can come to: each goes on to the prev_ somebody waits in,
\* or to another of them.
Chain(A) ==
    /\ coRun \in Coro => coRun \in A
    /\ \A c \in A :
          \/ coLink[c] = Co!Prev(c) /\ coSaved[Co!Prev(c)] # Co!None
          \/ \E d \in A : coLink[c] = Co!Cur(d) /\ d # c /\ (d = coRun \/ coSaved[Co!Cur(d)] = d)

\* The inductive invariant: a chain of yields leads from the one that runs to somebody
\* who has called.
CoInv == CoTypes /\ Placed /\ CallersReturn /\ \E A \in SUBSET coFlags : Chain(A)

\* The contexts of a coroutine are two, and no other's.
LEMMA ContextsDiffer ==
    /\ \A c \in Coro : Co!Cur(c) \in Co!Contexts /\ Co!Prev(c) \in Co!Contexts
    /\ \A c, d \in Coro : /\ Co!Cur(c) # Co!Prev(d)
                          /\ c # d => Co!Cur(c) # Co!Cur(d) /\ Co!Prev(c) # Co!Prev(d)
    /\ \A k \in Co!Contexts : \E c \in Coro : k = Co!Cur(c) \/ k = Co!Prev(c)
BY DEF Co!Cur, Co!Prev, Co!Contexts

\* swapcontext keeps every flow in its place.
LEMMA SwapPlaces ==
    ASSUME CoTypes, Placed, NEW from \in Co!Contexts, NEW to \in Co!Contexts, from # to,
           Co!Swap(from, to), coEnded' = coEnded, coSaved[from] = Co!None,
           (coRun \in Coro /\ from = Co!Cur(coRun)) \/ \E c \in Coro : from = Co!Prev(c)
    PROVE  Placed' /\ coRun' = coSaved[to] /\ coRun' \in Flows
<1> USE CoAssumption, ContextsDiffer DEF Co!None, Flows
<1>1. /\ \A k \in Co!Contexts : coSaved'[k] = IF k = from THEN coRun ELSE IF k = to THEN Co!None ELSE coSaved[k]
      /\ coRun' = coSaved[to] /\ coFlags' = coFlags \cup ({coSaved[to]} \ {Main}) /\ coSaved[to] # Co!None
      /\ coRun' \in Flows
  BY DEF Co!Swap, CoTypes
<1>2. coRun' # coRun /\ coRun' \notin coEnded /\ coRun \in Flows /\ coRun \notin coEnded
  <2>1. coRun \in Flows /\ coEnded \subseteq Coro
    BY DEF CoTypes
  <2>2. coRun \notin coEnded
    BY <2>1 DEF Placed
  <2> QED
    BY <1>1, <2>1, <2>2 DEF Placed
<1>3. \A c \in Coro : coSaved'[Co!Cur(c)] \in {Co!None, c}
  BY <1>1 DEF Placed
<1>4. \A k, l \in Co!Contexts : (coSaved'[k] = coSaved'[l] /\ coSaved'[k] # Co!None) => k = l
  BY <1>1 DEF Placed
<1>5. \A k \in Co!Contexts : coSaved'[k] # coRun' /\ coSaved'[k] \notin coEnded'
  BY <1>1, <1>2 DEF Placed, CoTypes
<1>6. \A f \in Flows \ (coEnded' \cup {coRun'}) : \E k \in Co!Contexts : coSaved'[k] = f
  <2> SUFFICES ASSUME NEW f \in Flows, f \notin coEnded, f # coRun'  PROVE \E k \in Co!Contexts : coSaved'[k] = f
    OBVIOUS
  <2>1. CASE f = coRun
    BY <1>1, <2>1
  <2>2. CASE f # coRun
    <3>1. PICK k \in Co!Contexts : coSaved[k] = f
      BY <2>2 DEF Placed
    <3>2. k # to /\ k # from
      BY <1>1, <3>1
    <3> QED
      BY <1>1, <3>1, <3>2
  <2> QED
    BY <2>1, <2>2
<1>7. \A c \in Coro : coSaved'[Co!Prev(c)] \in Coro => coSaved'[Co!Prev(c)] \in coFlags'
  BY <1>1 DEF Placed
<1>8. (coRun' \in Coro => coRun' \in coFlags') /\ coFlags' \cap coEnded' = {}
  BY <1>1, <1>2 DEF Placed
<1> QED
  BY <1>1, <1>3, <1>4, <1>5, <1>6, <1>7, <1>8 DEF Placed

\* resume() and operator (): the caller waits in prev_.
LEMMA CoResume ==
    ASSUME CoInv, NEW c \in Coro, Co!Resume(c)
    PROVE  CoInv'
<1> USE CoAssumption, ContextsDiffer DEF Co!None, Flows
<1> DEFINE r == coRun
<1>0. PICK A \in SUBSET coFlags : Chain(A)
  BY DEF CoInv
<1>1. /\ coSaved[Co!Cur(c)] = c /\ coSaved[Co!Prev(c)] = Co!None /\ coEnded' = coEnded
      /\ coLink' = [coLink EXCEPT ![c] = Co!Prev(c)] /\ Co!Swap(Co!Prev(c), Co!Cur(c))
      /\ r \in Coro => coLink[r] = Co!Prev(r)
  BY DEF Co!Resume
<1>2. c # r /\ r \in Flows /\ coLink \in [Coro -> Co!Contexts]
  BY <1>1 DEF CoInv, Placed, CoTypes
<1>3. Placed'
  BY <1>1, SwapPlaces DEF CoInv
<1>4. /\ \A k \in Co!Contexts : coSaved'[k] = IF k = Co!Prev(c) THEN r ELSE IF k = Co!Cur(c) THEN Co!None ELSE coSaved[k]
      /\ coRun' = c /\ coFlags' = coFlags \cup {c}
      /\ \A d \in Coro : coLink'[d] = IF d = c THEN Co!Prev(c) ELSE coLink[d]
  BY <1>1, <1>2 DEF Co!Swap, CoInv, CoTypes
<1>5. CoTypes'
  BY <1>1, <1>2 DEF Co!Swap, CoInv, CoTypes
<1>6. r \in Coro => coSaved[Co!Prev(r)] # Co!None
  BY <1>0, <1>1 DEF Chain, CoInv, CoTypes
<1>7. CallersReturn'
  <2> SUFFICES ASSUME NEW e \in Coro, NEW d \in Coro, coSaved'[Co!Prev(d)] = e
               PROVE  coLink'[e] = Co!Prev(e) /\ coSaved'[Co!Prev(e)] # Co!None
    BY DEF CallersReturn
  <2>1. CASE d = c
    BY <1>1, <1>2, <1>4, <1>6, <2>1
  <2>2. CASE d # c
    <3>1. coSaved[Co!Prev(d)] = e
      BY <1>4, <2>2
    <3>2. e # c
      BY <1>1, <3>1 DEF CoInv, Placed
    <3> QED
      BY <1>4, <3>1, <3>2 DEF CoInv, CallersReturn
  <2> QED
    BY <2>1, <2>2
<1>8. Chain({c})'
  BY <1>2, <1>4 DEF Chain
<1>9. {c} \in SUBSET coFlags'
  BY <1>4
<1> QED
  BY <1>3, <1>5, <1>7, <1>8, <1>9 DEF CoInv

\* yield(coro): the caller waits in its cur_, to which the other one yields.
LEMMA CoYieldTo ==
    ASSUME CoInv, NEW c \in Coro, Co!YieldTo(c)
    PROVE  CoInv'
<1> USE CoAssumption, ContextsDiffer DEF Co!None, Flows
<1> DEFINE r == coRun
<1>0. PICK A \in SUBSET coFlags : Chain(A)
  BY DEF CoInv
<1>1. /\ r \in Coro /\ coSaved[Co!Cur(c)] = c /\ coEnded' = coEnded
      /\ coLink' = [coLink EXCEPT ![c] = Co!Cur(r)] /\ Co!Swap(Co!Cur(r), Co!Cur(c))
  BY DEF Co!YieldTo
<1>2. c # r /\ coLink \in [Coro -> Co!Contexts] /\ coSaved[Co!Cur(r)] = Co!None
  BY <1>1 DEF CoInv, Placed, CoTypes
<1>3. Placed'
  BY <1>1, <1>2, SwapPlaces DEF CoInv
<1>4. /\ \A k \in Co!Contexts : coSaved'[k] = IF k = Co!Cur(r) THEN r ELSE IF k = Co!Cur(c) THEN Co!None ELSE coSaved[k]
      /\ coRun' = c /\ coFlags' = coFlags \cup {c}
      /\ \A d \in Coro : coLink'[d] = IF d = c THEN Co!Cur(r) ELSE coLink[d]
  BY <1>1, <1>2 DEF Co!Swap, CoInv, CoTypes
<1>5. CoTypes'
  BY <1>1, <1>2 DEF Co!Swap, CoInv, CoTypes
<1>6. CallersReturn'
  <2> SUFFICES ASSUME NEW e \in Coro, NEW d \in Coro, coSaved'[Co!Prev(d)] = e
               PROVE  coLink'[e] = Co!Prev(e) /\ coSaved'[Co!Prev(e)] # Co!None
    BY DEF CallersReturn
  <2>1. coSaved[Co!Prev(d)] = e
    BY <1>1, <1>4
  <2>2. e # c
    BY <1>1, <2>1 DEF CoInv, Placed
  <2> QED
    BY <1>1, <1>4, <2>1, <2>2 DEF CoInv, CallersReturn
<1>7. Chain(A \cup {c})'
  <2>1. r \in A /\ A \subseteq Coro
    BY <1>0, <1>1 DEF Chain, CoInv, CoTypes
  <2>2. ASSUME NEW e \in A, e # c
        PROVE  \/ coLink'[e] = Co!Prev(e) /\ coSaved'[Co!Prev(e)] # Co!None
               \/ \E d \in A : coLink'[e] = Co!Cur(d) /\ d # e /\ (d = c \/ coSaved'[Co!Cur(d)] = d)
    <3>1. e \in Coro /\ coLink'[e] = coLink[e]
      BY <1>4, <2>1, <2>2
    <3>2. CASE coLink[e] = Co!Prev(e) /\ coSaved[Co!Prev(e)] # Co!None
      BY <1>1, <1>4, <3>1, <3>2
    <3>3. ASSUME NEW d \in A, coLink[e] = Co!Cur(d), d # e, d = r \/ coSaved[Co!Cur(d)] = d
          PROVE  d = c \/ coSaved'[Co!Cur(d)] = d
      BY <1>1, <1>4, <2>1, <3>3
    <3> QED
      BY <1>0, <3>1, <3>2, <3>3 DEF Chain
  <2>3. coLink'[c] = Co!Cur(r) /\ r # c /\ coSaved'[Co!Cur(r)] = r
    BY <1>1, <1>2, <1>4
  <2> QED
    BY <1>4, <2>1, <2>2, <2>3 DEF Chain
<1>8. A \cup {c} \in SUBSET coFlags'
  BY <1>4
<1> QED
  BY <1>3, <1>5, <1>6, <1>7, <1>8 DEF CoInv

\* Somebody who waits in a prev_ goes on: he has called, and can yield himself.
LEMMA CallerRuns ==
    ASSUME CoTypes', Placed', CallersReturn', coRun' \in Flows,
           coRun' \in Coro => coLink'[coRun'] = Co!Prev(coRun') /\ coSaved'[Co!Prev(coRun')] # Co!None
    PROVE  CoInv'
<1>1. CASE coRun' \in Coro
  <2>1. Chain({coRun})'
    BY <1>1 DEF Chain
  <2>2. {coRun'} \in SUBSET coFlags'
    BY <1>1 DEF Placed
  <2> QED
    BY <2>1, <2>2 DEF CoInv
<1>2. CASE coRun' \notin Coro
  <2>1. Chain({})'
    BY <1>2 DEF Chain
  <2> QED
    BY <2>1 DEF CoInv
<1> QED
  BY <1>1, <1>2

\* yield(): back to who called, or to who yielded to this one.
LEMMA CoYield ==
    ASSUME CoInv, Co!Yield
    PROVE  CoInv'
<1> USE CoAssumption, ContextsDiffer DEF Co!None, Flows
<1> DEFINE r == coRun
           to == coLink[coRun]
           g == coSaved[to]
<1>0. PICK A \in SUBSET coFlags : Chain(A)
  BY DEF CoInv
<1>1. r \in Coro /\ coEnded' = coEnded /\ coLink' = coLink /\ Co!Swap(Co!Cur(r), to)
  BY DEF Co!Yield
<1>2. /\ coLink \in [Coro -> Co!Contexts] /\ to \in Co!Contexts /\ coSaved[Co!Cur(r)] = Co!None
      /\ g # Co!None /\ to # Co!Cur(r)
  BY <1>1 DEF CoInv, Placed, CoTypes, Co!Swap
<1>3. Placed' /\ coRun' = g /\ g \in Flows
  BY <1>1, <1>2, SwapPlaces DEF CoInv
<1>4. /\ \A k \in Co!Contexts : coSaved'[k] = IF k = Co!Cur(r) THEN r ELSE IF k = to THEN Co!None ELSE coSaved[k]
      /\ coFlags' = coFlags \cup ({g} \ {Main})
  BY <1>1, <1>2 DEF Co!Swap, CoInv, CoTypes
<1>5. CoTypes'
  BY <1>1, <1>2, <1>3 DEF Co!Swap, CoInv, CoTypes
<1>6. CallersReturn'
  <2> SUFFICES ASSUME NEW e \in Coro, NEW d \in Coro, coSaved'[Co!Prev(d)] = e
               PROVE  coLink'[e] = Co!Prev(e) /\ coSaved'[Co!Prev(e)] # Co!None
    BY DEF CallersReturn
  <2>1. coSaved[Co!Prev(d)] = e
    BY <1>1, <1>4
  <2>2. coLink[e] = Co!Prev(e) /\ coSaved[Co!Prev(e)] # Co!None /\ e # r
    BY <2>1 DEF CoInv, CallersReturn, Placed
  <2>3. to # Co!Prev(e)
    <3>1. CASE to = Co!Prev(r)
      BY <1>1, <2>2, <3>1
    <3>2. CASE \E x \in Coro : to = Co!Cur(x)
      BY <3>2
    <3> QED
      BY <1>0, <1>1, <3>1, <3>2 DEF Chain, CoInv, CoTypes
  <2> QED
    BY <1>1, <1>4, <2>2, <2>3
<1>7. CASE to = Co!Prev(r)
  <2>1. g \in Coro => coLink'[g] = Co!Prev(g) /\ coSaved'[Co!Prev(g)] # Co!None
    <3>1. g \in Coro => coLink[g] = Co!Prev(g) /\ coSaved[Co!Prev(g)] # Co!None
      BY <1>1, <1>7 DEF CoInv, CallersReturn
    <3>2. g # r
      BY <1>2 DEF CoInv, Placed
    <3> QED
      BY <1>1, <1>4, <1>7, <3>1, <3>2
  <2> QED
    BY <1>3, <1>5, <1>6, <2>1, CallerRuns
<1>8. CASE to # Co!Prev(r)
  <2>1. PICK x \in A : to = Co!Cur(x) /\ x # r /\ coSaved[Co!Cur(x)] = x
    BY <1>0, <1>1, <1>8 DEF Chain
  <2>2. g = x /\ A \subseteq Coro /\ x \in Coro /\ r \in A
    BY <1>0, <1>1, <2>1 DEF CoInv, CoTypes, Chain
  <2>3. ASSUME NEW e \in A
        PROVE  \/ coLink'[e] = Co!Prev(e) /\ coSaved'[Co!Prev(e)] # Co!None
               \/ \E d \in A : coLink'[e] = Co!Cur(d) /\ d # e /\ (d = x \/ coSaved'[Co!Cur(d)] = d)
    <3>1. CASE coLink[e] = Co!Prev(e) /\ coSaved[Co!Prev(e)] # Co!None
      BY <1>1, <1>4, <2>1, <2>2, <3>1
    <3>2. ASSUME NEW d \in A, coLink[e] = Co!Cur(d), d # e, d = r \/ coSaved[Co!Cur(d)] = d
          PROVE  d = x \/ coSaved'[Co!Cur(d)] = d
      BY <1>1, <1>4, <2>1, <2>2, <3>2
    <3> QED
      BY <1>0, <1>1, <3>1, <3>2 DEF Chain
  <2>4. Chain(A)'
    BY <1>3, <2>2, <2>3 DEF Chain
  <2> QED
    BY <1>3, <1>4, <1>5, <1>6, <2>4 DEF CoInv
<1> QED
  BY <1>7, <1>8

\* The function has returned: the thread goes on with who called.
LEMMA CoReturn ==
    ASSUME CoInv, Co!Return
    PROVE  CoInv'
<1> USE CoAssumption, ContextsDiffer DEF Co!None, Flows
<1> DEFINE r == coRun
           g == coSaved[Co!Prev(coRun)]
<1>1. /\ r \in Coro /\ g # Co!None /\ coRun' = g /\ coLink' = coLink
      /\ coEnded' = coEnded \cup {r} /\ coFlags' = coFlags \ {r}
      /\ coSaved' = [coSaved EXCEPT ![Co!Prev(r)] = Co!None]
  BY DEF Co!Return
<1>2. \A k \in Co!Contexts : coSaved'[k] = IF k = Co!Prev(r) THEN Co!None ELSE coSaved[k]
  BY <1>1 DEF CoInv, CoTypes
<1>3. g \in Flows /\ g # r /\ g \notin coEnded
  BY <1>1 DEF CoInv, CoTypes, Placed
<1>4. CoTypes'
  BY <1>1, <1>3 DEF CoInv, CoTypes
<1>5. Placed'
  <2>1. \A c \in Coro : coSaved'[Co!Cur(c)] \in {Co!None, c}
    BY <1>2 DEF CoInv, Placed
  <2>2. \A k, l \in Co!Contexts : (coSaved'[k] = coSaved'[l] /\ coSaved'[k] # Co!None) => k = l
    BY <1>2 DEF CoInv, Placed
  <2>3. \A k \in Co!Contexts : coSaved'[k] # coRun' /\ coSaved'[k] \notin coEnded'
    BY <1>1, <1>2, <1>3 DEF CoInv, Placed, CoTypes
  <2>4. \A f \in Flows \ (coEnded' \cup {coRun'}) : \E k \in Co!Contexts : coSaved'[k] = f
    <3> SUFFICES ASSUME NEW f \in Flows, f \notin coEnded, f # r, f # g  PROVE \E k \in Co!Contexts : coSaved'[k] = f
      BY <1>1
    <3>1. PICK k \in Co!Contexts : coSaved[k] = f
      BY DEF CoInv, Placed
    <3> QED
      BY <1>1, <1>2, <3>1
  <2>5. \A c \in Coro : coSaved'[Co!Prev(c)] \in Coro => coSaved'[Co!Prev(c)] \in coFlags'
    BY <1>1, <1>2 DEF CoInv, Placed
  <2>6. (coRun' \in Coro => coRun' \in coFlags') /\ coFlags' \cap coEnded' = {}
    BY <1>1, <1>3 DEF CoInv, Placed
  <2> QED
    BY <2>1, <2>2, <2>3, <2>4, <2>5, <2>6 DEF Placed
<1>6. CallersReturn'
  <2> SUFFICES ASSUME NEW e \in Coro, NEW d \in Coro, coSaved'[Co!Prev(d)] = e
               PROVE  coLink'[e] = Co!Prev(e) /\ coSaved'[Co!Prev(e)] # Co!None
    BY DEF CallersReturn
  <2>1. coSaved[Co!Prev(d)] = e
    BY <1>2
  <2>2. e # r
    BY <2>1 DEF CoInv, Placed
  <2> QED
    BY <1>1, <1>2, <2>1, <2>2 DEF CoInv, CallersReturn
<1>7. g \in Coro => coLink'[g] = Co!Prev(g) /\ coSaved'[Co!Prev(g)] # Co!None
  BY <1>1, <1>2, <1>3 DEF CoInv, CallersReturn
<1> QED
  BY <1>1, <1>3, <1>4, <1>5, <1>6, <1>7, CallerRuns

\* The destructor takes a context that was never used.
LEMMA CoDestroy ==
    ASSUME CoInv, NEW c \in Coro, Co!Destroy(c)
    PROVE  CoInv'
<1> USE CoAssumption, ContextsDiffer DEF Co!None, Flows
<1>0. PICK A \in SUBSET coFlags : Chain(A)
  BY DEF CoInv
<1>1. /\ c \notin coFlags \cup coEnded /\ c # coRun /\ UNCHANGED <<coRun, coLink, coFlags>>
      /\ coEnded' = coEnded \cup {c} /\ coSaved' = [coSaved EXCEPT ![Co!Cur(c)] = Co!None]
  BY DEF Co!Destroy
<1>2. \A k \in Co!Contexts : coSaved'[k] = IF k = Co!Cur(c) THEN Co!None ELSE coSaved[k]
  BY <1>1 DEF CoInv, CoTypes
<1>3. CoTypes'
  BY <1>1 DEF CoInv, CoTypes
<1>4. coSaved[Co!Cur(c)] = c
  <2>1. PICK k \in Co!Contexts : coSaved[k] = c
    BY <1>1 DEF CoInv, Placed
  <2>2. \A d \in Coro : k # Co!Prev(d)
    BY <1>1, <2>1 DEF CoInv, Placed
  <2> QED
    BY <2>1, <2>2 DEF CoInv, Placed
<1>5. Placed'
  <2>1. \A d \in Coro : coSaved'[Co!Cur(d)] \in {Co!None, d}
    BY <1>2 DEF CoInv, Placed
  <2>2. \A k, l \in Co!Contexts : (coSaved'[k] = coSaved'[l] /\ coSaved'[k] # Co!None) => k = l
    BY <1>2 DEF CoInv, Placed
  <2>3. \A k \in Co!Contexts : coSaved'[k] # coRun' /\ coSaved'[k] \notin coEnded'
    <3>1. \A k \in Co!Contexts : coSaved[k] = c => k = Co!Cur(c)
      BY <1>4 DEF CoInv, Placed
    <3>2. coRun # Co!None /\ coEnded' \subseteq Coro
      BY <1>3 DEF CoInv, CoTypes
    <3> QED
      BY <1>1, <1>2, <3>1, <3>2 DEF CoInv, Placed
  <2>4. \A f \in Flows \ (coEnded' \cup {coRun'}) : \E k \in Co!Contexts : coSaved'[k] = f
    <3> SUFFICES ASSUME NEW f \in Flows, f \notin coEnded, f # c, f # coRun  PROVE \E k \in Co!Contexts : coSaved'[k] = f
      BY <1>1
    <3>1. PICK k \in Co!Contexts : coSaved[k] = f
      BY DEF CoInv, Placed
    <3> QED
      BY <1>2, <1>4, <3>1
  <2>5. \A d \in Coro : coSaved'[Co!Prev(d)] \in Coro => coSaved'[Co!Prev(d)] \in coFlags'
    BY <1>1, <1>2 DEF CoInv, Placed
  <2>6. (coRun' \in Coro => coRun' \in coFlags') /\ coFlags' \cap coEnded' = {}
    BY <1>1 DEF CoInv, Placed
  <2> QED
    BY <2>1, <2>2, <2>3, <2>4, <2>5, <2>6 DEF Placed
<1>6. CallersReturn'
  BY <1>1, <1>2 DEF CoInv, CallersReturn
<1>7. Chain(A)'
  <2>1. A \subseteq Coro /\ c \notin A
    BY <1>1 DEF CoInv, CoTypes
  <2>2. (coRun \in Coro => coRun \in A) /\ UNCHANGED <<coRun, coLink>>
    BY <1>0, <1>1 DEF Chain
  <2>3. ASSUME NEW e \in A
        PROVE  \/ coLink[e] = Co!Prev(e) /\ coSaved'[Co!Prev(e)] # Co!None
               \/ \E d \in A : coLink[e] = Co!Cur(d) /\ d # e /\ (d = coRun \/ coSaved'[Co!Cur(d)] = d)
    BY <1>0, <1>2, <2>1 DEF Chain
  <2> QED
    BY <2>2, <2>3 DEF Chain
<1> QED
  BY <1>1, <1>3, <1>5, <1>6, <1>7 DEF CoInv

\* Coroutines counts as this module does.
LEMMA CoCardinality == ASSUME NEW S  PROVE Co!Cardinality(S) = Cardinality(S)
BY DEF Co!Cardinality, Cardinality

\* For any number of coroutines, whatever is called and yielded in whichever order:
\* yield() finds somebody who waits, and no flow is lost
\* (impl/coroutine_impl.hh:42-67).
THEOREM CoroutinesReturn == Co!Spec => []Co!YieldReturns
<1> USE CoAssumption, ContextsDiffer DEF Co!None, Flows
<1>1. Co!Init => CoInv
  <2> SUFFICES ASSUME Co!Init  PROVE CoInv
    OBVIOUS
  <2>1. \A c \in Coro : coSaved[Co!Cur(c)] = c /\ coSaved[Co!Prev(c)] = Co!None
    BY DEF Co!Init, Co!Cur, Co!Prev, Co!Contexts
  <2>2. CoTypes
    BY DEF Co!Init, CoTypes, Co!Contexts, Co!Prev
  <2>3. Placed
    <3>1. coRun = Main /\ coEnded = {} /\ coFlags = {}
      BY DEF Co!Init
    <3>2. \A k, l \in Co!Contexts : (coSaved[k] = coSaved[l] /\ coSaved[k] # Co!None) => k = l
      BY <2>1
    <3>3. \A k \in Co!Contexts : coSaved[k] # Main
      BY <2>1
    <3> QED
      BY <2>1, <3>1, <3>2, <3>3 DEF Placed
  <2>4. CallersReturn
    BY <2>1 DEF CallersReturn
  <2>5. Chain({})
    BY DEF Chain, Co!Init
  <2> QED
    BY <2>2, <2>3, <2>4, <2>5 DEF CoInv
<1>2. CoInv /\ [Co!Next]_Co!coVars => CoInv'
  <2>1. CoInv /\ UNCHANGED Co!coVars => CoInv'
    BY DEF Co!coVars, CoInv, CoTypes, Placed, CallersReturn, Chain
  <2> QED
    BY <2>1, CoResume, CoYield, CoYieldTo, CoReturn, CoDestroy DEF Co!Next
<1>3. CoInv => Co!YieldReturns
  <2> SUFFICES ASSUME CoInv  PROVE Co!YieldReturns
    OBVIOUS
  <2>0. PICK A \in SUBSET coFlags : Chain(A)
    BY DEF CoInv
  <2>1. coRun \in Coro => coSaved[coLink[coRun]] # Co!None
    BY <2>0 DEF Chain, CoInv, CoTypes
  <2>2. ASSUME NEW f \in Flows \ coEnded
        PROVE  Cardinality({k \in Co!Contexts : coSaved[k] = f}) = IF f = coRun THEN 0 ELSE 1
    <3>1. CASE f = coRun
      <4>1. {k \in Co!Contexts : coSaved[k] = f} = {}
        BY <3>1 DEF CoInv, Placed
      <4> QED
        BY <3>1, <4>1, FS_EmptySet
    <3>2. CASE f # coRun
      <4>1. PICK k \in Co!Contexts : coSaved[k] = f
        BY <3>2 DEF CoInv, Placed
      <4>2. {l \in Co!Contexts : coSaved[l] = f} = {k}
        BY <4>1 DEF CoInv, Placed
      <4> QED
        BY <3>2, <4>2, FS_Singleton
    <3> QED
      BY <3>1, <3>2
  <2>3. coFlags \cap coEnded = {}
    BY DEF CoInv, Placed
  <2>4. ASSUME NEW f \in Flows \ coEnded
        PROVE  Co!Cardinality({k \in Co!Contexts : coSaved[k] = f}) = IF f = coRun THEN 0 ELSE 1
    <3>1. Co!Cardinality({k \in Co!Contexts : coSaved[k] = f}) = Cardinality({k \in Co!Contexts : coSaved[k] = f})
      BY CoCardinality
    <3> QED
      BY <2>2, <3>1
  <2> QED
    BY <2>1, <2>3, <2>4 DEF Co!YieldReturns
<1> QED
  BY <1>1, <1>2, <1>3, PTL DEF Co!Spec

----------------------------------------------------------------------------
\* All of it together, in whatever order the components step: the invariant that the
\* run Library checks on a small instance, for every value of the constants.
THEOREM SharingKept == SharingSpec => []SharingOK
BY StatsKept, ShmMapped, LocksExclude, SemaphoresKept, PoolJoined, CoroutinesReturn, PTL
   DEF SharingSpec, SharingOK
=============================================================================
