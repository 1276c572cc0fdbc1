--------------------------- MODULE ThreadSchedule ---------------------------
(***************************************************************************)
(* The arithmetic of CThreadManager's scheduler (threads.hh:380-440), with *)
(* the thread counts as plain numbers.                                     *)
(***************************************************************************)
EXTENDS Integers

\* Mutant of adjustThreadCount: the upper limit is forgotten.
NoUpperLimit(count, lo, hi) == IF count < lo THEN lo ELSE count

\* adjustThreadCount: lo is threadCountMin_, hi is threadCountMax_.
adjustThreadCount(count, lo, hi) ==
    IF count < lo \/ hi <= lo THEN lo
    ELSE IF count > hi THEN hi
    ELSE count

\* Half of the last expectation, the decay of strategy 1.
Decayed(expect) == (expect + 1) \div 2

\* Mutants of Expected: the load or the limits are forgotten.
ExpectedIdle(expect, count, active, lo, hi) ==
    adjustThreadCount(Decayed(expect), lo, hi)
ExpectedUnlimited(expect, count, active, lo, hi) == Decayed(expect) + active

\* What one round makes of expect.
Expected(expect, count, active, lo, hi) ==
    IF count > adjustThreadCount(count, lo, hi)
    THEN Decayed(expect)
    ELSE adjustThreadCount(Decayed(expect) + active, lo, hi)

\* Far more workers than needed.
Surplus(count, expect) == count > expect + 4 /\ count > expect + (expect \div 2)

\* Mutant of Change: the operands of the difference are swapped.
ChangeSwapped(expect, count, active, lo, hi) ==
    LET max    == adjustThreadCount(count, lo, hi)
        target == Expected(expect, count, active, lo, hi)
    IN  IF count > max THEN max - count
        ELSE IF Surplus(count, target) \/ count < target THEN count - target
        ELSE 0

\* How many workers one round adds; below zero: how many it dismisses.
Change(expect, count, active, lo, hi) ==
    LET max    == adjustThreadCount(count, lo, hi)
        target == Expected(expect, count, active, lo, hi)
    IN  IF count > max THEN max - count
        ELSE IF Surplus(count, target) \/ count < target THEN target - count
        ELSE 0
=============================================================================
