---------------------------- MODULE ScheduleLoop ----------------------------
(***************************************************************************)
(* The scheduler of CThreadManager as a control loop: what its arithmetic  *)
(* (ThreadSchedule) makes of the number of workers round after round, when *)
(* every worker it adds or dismisses has come or gone before the next      *)
(* round.  ThreadManager drops that simplification.                        *)
(***************************************************************************)
EXTENDS ThreadSchedule, TLAPS

CONSTANTS MaxCount,  \* bound: workers there can be at the start
          MaxLimit   \* bound: threadCountMin_ and threadCountMax_

ASSUME LoopAssumption == MaxCount \in Nat /\ MaxLimit \in Nat

VARIABLES count,     \* workers, and workerCount_
          active,    \* workers in run, activeCount_
          expect,    \* expect, a local of threadSchedule
          lo, hi     \* threadCountMin_, threadCountMax_

loopVars == <<count, active, expect, lo, hi>>

LoopInit == /\ count \in 0 .. MaxCount /\ active \in 0 .. count /\ expect = 0
            /\ lo \in 0 .. MaxLimit /\ hi \in 0 .. MaxLimit

\* The most workers the limits allow.
Top == IF hi <= lo THEN lo ELSE hi

\* One turn of the loop of threadSchedule.  Tasks that are running go on.
Round == /\ expect' = Expected(expect, count, active, lo, hi)
         /\ count' = count + Change(expect, count, active, lo, hi)
         /\ active' = IF active <= count' THEN active ELSE count'
         /\ UNCHANGED <<lo, hi>>

\* Tasks come and end.
Load == /\ active' \in 0 .. count
        /\ UNCHANGED <<count, expect, lo, hi>>

LoopSpec == LoopInit /\ [][Round \/ Load]_loopVars

\* The scheduler's loop never ends.
FairLoop == LoopSpec /\ WF_loopVars(Round)
-----------------------------------------------------------------------------
(* Properties.                                                             *)

LoopTypeOK == /\ count \in Nat /\ active \in 0 .. count /\ expect \in Nat
              /\ lo \in Nat /\ hi \in Nat

\* A round takes the workers between the limits, wherever they were, and
\* whatever was expected before (threads.hh:380-403).
LimitsKept == [][Round => lo <= count' /\ count' <= Top]_loopVars

\* A round never dismisses a worker that is busy, unless the limits ask for it.
BusyStay == [][Round => active <= count' \/ count' = Top]_loopVars

\* Under a load that no longer changes by itself, adding and dismissing come to
\* an end, with a worker to spare for every busy one as far as the limits allow.
LoadStops == <>[][Round]_loopVars
Settles == LoadStops => <>[][count' = count]_loopVars
SettlesAtEnough == LoadStops => <>[](count >= 2 * active \/ count = Top)
-----------------------------------------------------------------------------
(* Proofs, for counts and limits of any size.                              *)

\* adjustThreadCount always lands between the limits.
LEMMA AdjustInRange ==
    ASSUME NEW n \in Nat, NEW min \in Nat, NEW max \in Nat
    PROVE  /\ adjustThreadCount(n, min, max) \in Nat
           /\ min <= adjustThreadCount(n, min, max)
           /\ adjustThreadCount(n, min, max) <= (IF max <= min THEN min ELSE max)
           /\ n <= adjustThreadCount(n, min, max)
                 \/ adjustThreadCount(n, min, max)
                       = (IF max <= min THEN min ELSE max)
BY DEF adjustThreadCount

\* Where a round takes the number of workers.
LEMMA RoundLands ==
    ASSUME NEW e \in Nat, NEW n \in Nat, NEW a \in Nat, a <= n,
           NEW min \in Nat, NEW max \in Nat
    PROVE  LET top == IF max <= min THEN min ELSE max
               next == n + Change(e, n, a, min, max)
           IN  /\ Expected(e, n, a, min, max) \in Nat
               /\ next \in Nat /\ min <= next /\ next <= top
               /\ a <= next \/ next = top
<1> DEFINE top  == IF max <= min THEN min ELSE max
           m    == adjustThreadCount(n, min, max)
           d    == Decayed(e)
           t    == Expected(e, n, a, min, max)
<1>1. d \in Nat
  BY DEF Decayed
<1>2. m \in Nat /\ min <= m /\ m <= top /\ (n <= m \/ m = top)
  BY AdjustInRange
<1>3. CASE n > m
  <2>1. t \in Nat
    BY <1>1, <1>3 DEF Expected
  <2>2. Change(e, n, a, min, max) = m - n
    BY <1>3 DEF Change
  <2> QED
    BY <1>2, <1>3, <2>1, <2>2
<1>4. CASE ~(n > m)
  <2>1. d + a \in Nat /\ a <= d + a
    BY <1>1
  <2>2. t = adjustThreadCount(d + a, min, max)
    BY <1>4 DEF Expected
  <2>3. t \in Nat /\ min <= t /\ t <= top /\ (d + a <= t \/ t = top)
    <3> HIDE DEF d
    <3>1. ASSUME NEW k \in Nat
          PROVE  LET v == adjustThreadCount(k, min, max)
                 IN  v \in Nat /\ min <= v /\ v <= top /\ (k <= v \/ v = top)
      BY AdjustInRange
    <3> QED
      BY <2>1, <2>2, <3>1
  <2>4. \/ n + Change(e, n, a, min, max) = t
        \/ n + Change(e, n, a, min, max) = n /\ ~(n < t)
    BY <1>2, <1>4, <2>3 DEF Change
  <2>5. n <= top
    BY <1>2, <1>4
  <2> QED
    BY <2>1, <2>3, <2>4, <2>5
<1> QED
  BY <1>2, <1>3, <1>4

\* The counts of the scheduler's loop never leave the natural numbers, in
\* particular the unsigned difference add never underflows them.
THEOREM LoopTypeCorrect == LoopSpec => []LoopTypeOK
<1>1. LoopInit => LoopTypeOK
  BY LoopAssumption DEF LoopInit, LoopTypeOK
<1>2. LoopTypeOK /\ [Round \/ Load]_loopVars => LoopTypeOK'
  <2> SUFFICES ASSUME LoopTypeOK, [Round \/ Load]_loopVars
               PROVE  LoopTypeOK'
    OBVIOUS
  <2>1. CASE Round
    <3>1. expect' \in Nat /\ count' \in Nat
      BY <2>1, RoundLands DEF Round, LoopTypeOK
    <3> QED
      BY <2>1, <3>1 DEF Round, LoopTypeOK
  <2>2. CASE Load
    BY <2>2 DEF Load, LoopTypeOK
  <2>3. CASE UNCHANGED loopVars
    BY <2>3 DEF loopVars, LoopTypeOK
  <2> QED
    BY <2>1, <2>2, <2>3
<1> QED
  BY <1>1, <1>2, PTL DEF LoopSpec

\* Every round of the scheduler takes the workers between the limits,
\* whatever limits the client has set.
THEOREM RoundsKeepLimits == LoopSpec => LimitsKept
<1>1. LoopTypeOK => (Round => lo <= count' /\ count' <= Top)
  BY RoundLands DEF Round, LoopTypeOK, Top
<1> QED
  BY <1>1, LoopTypeCorrect, PTL DEF LimitsKept, LoopSpec

\* No round of the scheduler dismisses a busy worker, unless the limits ask
\* for it.
THEOREM RoundsKeepBusyWorkers == LoopSpec => BusyStay
<1>1. LoopTypeOK => (Round => active <= count' \/ count' = Top)
  BY RoundLands DEF Round, LoopTypeOK, Top
<1> QED
  BY <1>1, LoopTypeCorrect, PTL DEF BusyStay, LoopSpec
=============================================================================
