---------------------------- MODULE FreqControl ----------------------------
(***************************************************************************)
(* CFreqControl and CWideFreqControl (freq_control.hh), token buckets; and *)
(* CFreqCounter (freq_counter.hh), events per slot of the last kDuration   *)
(* slots.  Time is MonoTimeUs, Second of its units are a second.  fcKind   *)
(* is the class.  fcCtl is a CFreqControl, fcLevel what its bucket holds   *)
(* as a fraction, in parts of a Second.  wfCtl is a CWideFreqControl,      *)
(* whose frequency need not be whole and whose bucket is freq_ + 1, with   *)
(* token_ in parts of WholeToken.  Ghosts: fcSince is the time up to which *)
(* tokens had been made at a moment chosen freely, fcTaken what has been   *)
(* taken since that moment.                                                *)
(*                                                                         *)
(* fnCtr is a CFreqCounter: last_, lasti_ and the ring cnt_.  fnTold holds *)
(* the events of every slot since the beginning, fnAnswer the last answer  *)
(* of frequency as a pair of sum and number of slots.                      *)
(*                                                                         *)
(* Left out: the overflow of the 64-bit counters (lines 91, 97), which is  *)
(* out of reach, and the rounding of the double.                           *)
(***************************************************************************)
EXTENDS Integers, FiniteSets, FiniteSetsExt

CONSTANTS
    Second,     \* time units in a second
    Freqs,      \* frequencies (positive)
    Buckets,    \* bucket sizes
    MaxNeed,    \* bound: tokens asked for at once
    WideNum, WideDen,   \* freq_ of a CWideFreqControl: WideNum tokens in WideDen seconds
    KDuration, KGranularity,    \* kDuration; kGranularity, in time units
    MaxCount,   \* bound on the events in a slot
    MaxTime, WideMaxTime, FnMaxTime     \* bounds on the clock, by class

VARIABLES fcKind, fcNow, fcCtl, wfCtl, fcLevel, fcSince, fcTaken, fnCtr, fnTold, fnAnswer

fnVars == <<fnCtr, fnTold, fnAnswer>>
fcVars == <<fcKind, fcNow, fcCtl, wfCtl, fcLevel, fcSince, fcTaken, fnVars>>

Plain == fcKind = "plain" /\ UNCHANGED <<fcKind, wfCtl, fnVars>>
Wide == fcKind = "wide" /\ UNCHANGED <<fcKind, fcNow, fcCtl, fcLevel, fcSince, fnVars>>
Counter ==
    /\ fcKind = "counter"
    /\ UNCHANGED <<fcKind, fcNow, fcCtl, wfCtl, fcLevel, fcSince, fcTaken>>

KSize == KDuration + 1
Idx(t) == t \div KGranularity
Slots == 0 .. Idx(FnMaxTime)

\* The sum of the counters of some slots, as the number of the events they count.
Sum(f, S) == Cardinality({e \in S \X (1 .. MaxCount) : e[2] <= f[e[1]]})

Init ==
    /\ fcKind \in {"plain", "wide", "counter"}
    /\ fnCtr = [last |-> 0, lasti |-> 0, cnt |-> [i \in 0 .. KSize - 1 |-> 0]]
    /\ fnTold = [i \in Slots |-> 0]
    /\ fnAnswer = <<0, 1>>
    /\ wfCtl = [token |-> 0, time |-> 0]
    /\ fcNow = 0 /\ fcSince = 0 /\ fcTaken = 0 /\ fcLevel = 0
    /\ fcCtl = [freq |-> 0, buckSz |-> 0, token |-> 0, delta |-> 0, time |-> 0]

Tick ==
    /\ fcNow < CASE fcKind = "plain" -> MaxTime [] fcKind = "wide" -> WideMaxTime [] OTHER -> FnMaxTime
    /\ fcNow' = fcNow + 1
    /\ UNCHANGED <<fcKind, fcCtl, wfCtl, fcLevel, fcSince, fcTaken, fnVars>>

\* Start watching from here on.
Watch ==
    /\ fcKind # "counter"
    /\ fcSince' = IF fcKind = "plain" THEN fcCtl.time ELSE wfCtl.time
    /\ fcTaken' = 0
    /\ UNCHANGED <<fcKind, fcNow, fcCtl, wfCtl, fcLevel, fnVars>>

\* init: an object in use keeps its tokens and its time.
InitControl(freq, buckSz) ==
    /\ Plain
    /\ fcCtl' = IF fcCtl.freq = 0
                THEN [freq |-> freq, buckSz |-> buckSz, token |-> 0, delta |-> 0, time |-> fcNow]
                ELSE [fcCtl EXCEPT !.freq = freq, !.buckSz = buckSz]
    /\ fcLevel' = IF fcCtl.freq = 0 THEN 0 ELSE fcLevel
    /\ UNCHANGED <<fcNow, fcSince, fcTaken>>

\* A mutant of Generated: the tokens that do not fit the bucket are kept.
GeneratedUncapped(c, now) ==
    LET delta == c.delta + c.freq * (now - c.time)
    IN  [c EXCEPT !.delta = delta % Second, !.token = (delta \div Second) + c.token]

\* generate, with the tokens of the time from time_ to now; the fraction of a token
\* stays in delta_.
Generated(c, now) ==
    LET delta == c.delta + c.freq * (now - c.time)
        tok == (delta \div Second) + c.token
    IN  [c EXCEPT !.delta = delta % Second, !.token = IF tok > c.buckSz THEN c.buckSz ELSE tok]

\* The bucket as a fraction, full at buckSz_ tokens and the fraction that was left over.
Filled(level, c, now) ==
    LET l == level + c.freq * (now - c.time)
    IN  IF l \div Second > c.buckSz THEN c.buckSz * Second + (l % Second) ELSE l

\* The caller's time was read some time ago, or is left out (0); a time before the
\* last one is read again.
Generate(nowUs) ==
    LET now == IF nowUs < fcCtl.time THEN fcNow ELSE nowUs
    IN  /\ Plain
        /\ nowUs <= fcNow /\ fcCtl.freq > 0
        /\ fcCtl' = [(IF now > fcCtl.time THEN Generated(fcCtl, now) ELSE fcCtl) EXCEPT !.time = now]
        /\ fcLevel' = IF now > fcCtl.time THEN Filled(fcLevel, fcCtl, now) ELSE fcLevel
        /\ UNCHANGED <<fcNow, fcSince, fcTaken>>

Take(need) ==
    /\ Plain
    /\ fcCtl' = [fcCtl EXCEPT !.token = @ - need]
    /\ fcLevel' = fcLevel - need * Second
    /\ fcTaken' = fcTaken + need
    /\ UNCHANGED <<fcNow, fcSince>>

\* get and check
Get(need) == fcCtl.token >= need /\ Take(need)

\* overdraw; the debt is bounded by MaxNeed.
Overdraw(need) == fcCtl.freq > 0 /\ fcCtl.token - need >= -MaxNeed /\ Take(need)

----------------------------------------------------------------------------
WholeToken == Second * WideDen
FullBucket == (WideNum + WideDen) * Second

WideGenerated == Min({wfCtl.token + WideNum * (fcNow - wfCtl.time), FullBucket})

\* init of a CWideFreqControl: the tokens are gone.
InitWide == Wide /\ wfCtl' = [token |-> 0, time |-> fcNow] /\ UNCHANGED fcTaken

\* get of a CWideFreqControl generates only when there is no whole token left.
GetWide ==
    LET have == wfCtl.token >= WholeToken
        token == IF have THEN wfCtl.token ELSE WideGenerated
        ok == token >= WholeToken
    IN  /\ Wide
        /\ wfCtl' = [token |-> IF ok THEN token - WholeToken ELSE token,
                     time |-> IF have THEN wfCtl.time ELSE fcNow]
        /\ fcTaken' = fcTaken + (IF ok THEN 1 ELSE 0)

----------------------------------------------------------------------------
\* CFreqCounter::update: the slots between the last one and this one are wiped.
Updated(c) ==
    LET e == Idx(fcNow)
        wiped == IF e < c.lasti + KSize THEN {i % KSize : i \in c.lasti + 1 .. e} ELSE 0 .. KSize - 1
    IN  IF fcNow <= c.last THEN c
        ELSE [last |-> fcNow, lasti |-> e,
              cnt |-> [i \in 0 .. KSize - 1 |-> IF i \in wiped THEN 0 ELSE c.cnt[i]]]

Occur ==
    LET c == Updated(fnCtr)
    IN  /\ Counter /\ fnTold[Idx(fcNow)] < MaxCount
        /\ fnCtr' = [c EXCEPT !.cnt[c.lasti % KSize] = @ + 1]
        /\ fnTold' = [fnTold EXCEPT ![Idx(fcNow)] = @ + 1]
        /\ UNCHANGED fnAnswer

\* sumTo: the sum and the number of slots it goes over, without the present one; in
\* the first slot that one counts, afterwards the first slot is left out.
SumTo(c) ==
    CASE c.lasti < 2 -> <<c.cnt[0], 1>>
      [] c.lasti >= 2 /\ c.lasti < KSize -> <<Sum(c.cnt, 1 .. c.lasti - 1), c.lasti - 1>>
      [] OTHER -> <<Sum(c.cnt, (0 .. KSize - 1) \ {c.lasti % KSize}), KSize - 1>>

\* frequency, frequencyDouble
Frequency ==
    LET c == Updated(fnCtr)
    IN  /\ Counter /\ fnCtr' = c
        /\ fnAnswer' = SumTo(c)
        /\ UNCHANGED fnTold

----------------------------------------------------------------------------
Next ==
    \/ Tick \/ Watch \/ InitWide \/ GetWide \/ Occur \/ Frequency
    \/ \E freq \in Freqs, buckSz \in Buckets : InitControl(freq, buckSz)
    \/ \E now \in 0..MaxTime : Generate(now)
    \/ \E need \in 1..MaxNeed : Get(need) \/ Overdraw(need)

Spec == Init /\ [][Next]_fcVars

----------------------------------------------------------------------------
TypeOK ==
    /\ fcCtl.delta \in 0 .. Second - 1
    /\ fcCtl.token \in Int /\ fcCtl.time \in 0..fcNow
    /\ wfCtl.token \in 0 .. FullBucket /\ wfCtl.time \in 0..fcNow
    /\ fcSince \in 0..fcNow
    /\ fnCtr.last \in 0..fcNow /\ fnCtr.lasti = Idx(fnCtr.last)
    /\ fnCtr.cnt \in [0 .. KSize - 1 -> 0..MaxCount]
    /\ fnAnswer \in Nat \X (Nat \ {0})

\* No fraction of a token is lost or made up, however often generate is called, with
\* times out of order, in debt or not: token_ and delta_ are the bucket as it would
\* be with exact numbers (freq_control.hh:84-103).
ExactTokens == fcCtl.token * Second + fcCtl.delta = fcLevel

\* From any moment on no more is taken than the bucket held then, a debt and one
\* bucket that the next generate adds for the time before, and the tokens of the
\* time since; what is overdrawn at the end is not paid for yet (freq_control.hh:31-36, 119-144).
RateBounded == fcKind = "plain" =>
    (fcTaken + Min({fcCtl.token, 0})) * Second
        < (Max(Buckets) + 1) * Second + Max(Freqs) * (fcNow - fcSince)

\* What is taken of a CWideFreqControl from any moment on is what the bucket held
\* then, one bucket at most, and what was made for the time since tokens were last
\* made before that moment.  So two buckets may go at one instant: the one that is
\* there and the one get makes of a long pause when that is used up
\* (freq_control.hh:155-167, 192-209).
WideRateBounded == fcKind = "wide" =>
    fcTaken * WholeToken <= FullBucket + WideNum * (fcNow - fcSince)

\* Whatever pauses there were and however often the ring has gone round, the sum is
\* that of the last kDuration whole slots before the present one (but for the very
\* first), each of them once
\* (freq_counter.hh:75-107).
CountsWindow ==
    fnCtr.lasti >= 2 =>
        SumTo(fnCtr)[1] = Sum(fnTold, Max({1, fnCtr.lasti - KDuration}) .. fnCtr.lasti - 1)
=============================================================================
