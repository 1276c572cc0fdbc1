------------------------- MODULE BookkeepingProofs --------------------------
(***************************************************************************)
(* Proofs about the components that keep account of something: for each    *)
(* one an inductive invariant, which every step keeps, and the properties  *)
(* it implies; and what Bookkeeping says of all of them.                   *)
(***************************************************************************)
EXTENDS Bookkeeping, FiniteSetTheorems, SequenceTheorems, WellFoundedInduction, TLAPS

----------------------------------------------------------------------------
(* Integers that threads share (lock_int.hh, atomic_sync.hh) *)

\* Every operation gives an integer of the width.
LEMMA AppliedIsValue ==
    \A v, c \in Ints!Value : \A op \in Ints!Ops : Ints!Apply(op, v, c) \in Ints!Value
<1> USE IntsAssumption
<1> SUFFICES ASSUME NEW v \in Ints!Value, NEW c \in Ints!Value, NEW op \in Ints!Ops
             PROVE  Ints!Apply(op, v, c) \in Ints!Value
  OBVIOUS
<1>1. Modulus \in Nat \ {0} /\ v \in 0 .. Modulus - 1 /\ c \in 0 .. Modulus - 1
  BY DEF Ints!Value
<1>2. \A n \in Int : n % Modulus \in 0 .. Modulus - 1
  BY <1>1
<1>3. Ints!Plus(v, c) \in Ints!Value /\ Ints!Minus(v, c) \in Ints!Value
  <2>1. v + c \in Int /\ v - c \in Int
    BY <1>1
  <2> QED
    BY <2>1, <1>2 DEF Ints!Plus, Ints!Minus, Ints!Value
<1>4. /\ Ints!Either(v, c) \in Ints!Value /\ Ints!Both(v, c) \in Ints!Value
      /\ Ints!Differ(v, c) \in Ints!Value
  BY <1>1 DEF Ints!Either, Ints!Both, Ints!Differ, Ints!Value
<1>5. Ints!NotBoth(v, c) \in Ints!Value
  <2>1. AndBits[<<v, c>>] \in 0 .. Modulus - 1
    BY <1>1 DEF Ints!Value
  <2> QED
    BY <2>1, <1>1 DEF Ints!NotBoth, Ints!Value
<1>6. op \in {"add", "sub", "or", "and", "xor", "assign", "nand"}
  BY DEF Ints!Ops
<1> QED
  BY <1>3, <1>4, <1>5, <1>6 DEF Ints!Apply, Ints!Replace

\* What holds of the extremes while nobody is inside an operation.
IntsExtremes ==
    /\ Ints!Locked => liMax \in liHeld /\ \A h \in liHeld : h <= liMax
    /\ liKind = "minmax" => liMin \in liHeld /\ \A h \in liHeld : h >= liMin

\* Nobody is inside an operation: the integer is what one thread alone would have made.
IntsQuiet ==
    /\ Ints!Quiet
    /\ liVal = liNet /\ liSaw = liTold
    /\ IntsExtremes

\* A thread is inside, and has what will be written; the extremes may lack that.
IntsInside(t) ==
    /\ Ints!Locked /\ liAt[t] # "out" /\ \A u \in LiThread \ {t} : liAt[u] = "out"
    /\ liCopy[t] = liNet
    /\ liTold[t] = IF liSaw[t] = -1 THEN liCopy[t] ELSE liSaw[t]
    /\ \A u \in LiThread \ {t} : liSaw[u] = liTold[u]
    /\ liMax \in liHeld
    /\ \A h \in liHeld : h <= liMax \/ (liAt[t] = "compare" /\ h = liCopy[t])
    /\ liKind = "minmax" =>
          /\ liMin \in liHeld
          /\ \A h \in liHeld : h >= liMin \/ (liAt[t] = "compare" /\ h = liCopy[t])

\* The inductive invariant: the lock is taken exactly while a thread is inside.
IntsInv ==
    /\ Ints!TypeOK
    /\ liKind \in Ints!Kinds /\ liNet \in liHeld /\ liHeld \subseteq Ints!Value
    /\ liTold \in [LiThread -> Ints!Value \cup {-1}]
    /\ IF liLock THEN \E t \in LiThread : IntsInside(t) ELSE IntsQuiet

\* What one thread alone would do stays among the values.
LEMMA AloneTypes ==
    ASSUME IntsInv, NEW t \in LiThread, NEW e, NEW op \in Ints!Ops, NEW c \in Ints!Value,
           NEW new \in BOOLEAN, Ints!Alone(t, e, op, c, new)
    PROVE  /\ liNet' \in Ints!Value
           /\ liNet' = IF Ints!Passes(liNet, e) THEN Ints!Apply(op, liNet, c) ELSE liNet
           /\ liHeld' = liHeld \cup {liNet'} /\ liHeld' \subseteq Ints!Value
           /\ liTold' = [liTold EXCEPT ![t] = IF new THEN liNet' ELSE liNet]
           /\ liTold' \in [LiThread -> Ints!Value \cup {-1}]
<1>1. liNet \in Ints!Value
  BY DEF IntsInv
<1>2. Ints!Apply(op, liNet, c) \in Ints!Value
  BY <1>1, AppliedIsValue
<1>3. liNet' = IF Ints!Passes(liNet, e) THEN Ints!Apply(op, liNet, c) ELSE liNet
  BY DEF Ints!Alone
<1>4. liNet' \in Ints!Value
  BY <1>1, <1>2, <1>3
<1>5. /\ liHeld' = liHeld \cup {liNet'}
      /\ liTold' = [liTold EXCEPT ![t] = IF new THEN liNet' ELSE liNet]
  BY <1>3 DEF Ints!Alone
<1> QED
  BY <1>1, <1>3, <1>4, <1>5 DEF IntsInv

\* An operation begins: with the lock, by itself.
LEMMA BeginKeeps ==
    ASSUME IntsInv, NEW t \in LiThread, NEW e, NEW op \in Ints!Ops, NEW c \in Ints!Value,
           NEW new \in BOOLEAN, Ints!Begin(t, e, op, c, new)
    PROVE  IntsInv'
<1>1. IntsQuiet /\ ~liLock /\ Ints!Locked /\ Ints!Passes(liVal, e) /\ liVal = liNet
  BY DEF IntsInv, IntsQuiet, Ints!Begin
<1>2. Ints!Alone(t, e, op, c, new)
  BY DEF Ints!Begin
<1>3. /\ liNet' = Ints!Apply(op, liVal, c) /\ liNet' \in Ints!Value
      /\ liHeld' = liHeld \cup {liNet'} /\ liHeld' \subseteq Ints!Value
      /\ liTold' = [liTold EXCEPT ![t] = IF new THEN liNet' ELSE liNet]
      /\ liTold' \in [LiThread -> Ints!Value \cup {-1}]
  BY <1>1, <1>2, AloneTypes
<1>4. /\ liLock' = TRUE
      /\ liAt' = [liAt EXCEPT ![t] = "compare"]
      /\ liCopy' = [liCopy EXCEPT ![t] = liNet']
      /\ liSaw' = [liSaw EXCEPT ![t] = IF new THEN -1 ELSE liVal]
      /\ liKind' = liKind /\ liVal' = liVal /\ liMin' = liMin /\ liMax' = liMax
  BY <1>3 DEF Ints!Begin, Ints!Give
<1>5. liVal \in Ints!Value /\ liVal # -1
  BY IntsAssumption DEF IntsInv, Ints!TypeOK, Ints!Value
<1>6. Ints!TypeOK'
  BY <1>3, <1>4, <1>5 DEF IntsInv, Ints!TypeOK, Ints!Value
<1>7. IntsInside(t)'
  <2>1. Ints!Locked' /\ liAt'[t] = "compare" /\ liCopy'[t] = liNet'
    BY <1>1, <1>4 DEF IntsInv, Ints!TypeOK, Ints!Locked
  <2>2. \A u \in LiThread \ {t} :
          liAt'[u] = "out" /\ liSaw'[u] = liSaw[u] /\ liTold'[u] = liTold[u] /\ liSaw[u] = liTold[u]
    BY <1>1, <1>3, <1>4 DEF IntsInv, Ints!TypeOK, IntsQuiet, Ints!Quiet
  <2>3. liTold'[t] = IF liSaw'[t] = -1 THEN liCopy'[t] ELSE liSaw'[t]
    BY <1>1, <1>3, <1>4, <1>5, <2>1 DEF IntsInv, Ints!TypeOK
  <2>4. liMax' \in liHeld' /\ \A h \in liHeld' : h <= liMax' \/ h = liCopy'[t]
    BY <1>1, <1>3, <1>4, <2>1 DEF IntsQuiet, IntsExtremes
  <2>5. liKind' = "minmax" =>
          liMin' \in liHeld' /\ \A h \in liHeld' : h >= liMin' \/ h = liCopy'[t]
    BY <1>1, <1>3, <1>4, <2>1 DEF IntsQuiet, IntsExtremes
  <2> QED
    BY <2>1, <2>2, <2>3, <2>4, <2>5 DEF IntsInside
<1> QED
  BY <1>3, <1>4, <1>6, <1>7 DEF IntsInv

\* A test fails: nothing happens, to the lone thread either.
LEMMA RefuseKeeps ==
    ASSUME IntsInv, NEW t \in LiThread, NEW e, NEW op \in Ints!Ops, NEW c \in Ints!Value,
           NEW new \in BOOLEAN, Ints!Refuse(t, e, op, c, new)
    PROVE  IntsInv'
<1>1. IntsQuiet /\ ~liLock /\ ~Ints!Passes(liVal, e) /\ liVal = liNet
  BY DEF IntsInv, IntsQuiet, Ints!Refuse
<1>2. Ints!Alone(t, e, op, c, new)
  BY DEF Ints!Refuse
<1>3. /\ liNet' = liNet /\ liHeld' = liHeld
      /\ liTold' = [liTold EXCEPT ![t] = liVal]
      /\ liTold' \in [LiThread -> Ints!Value \cup {-1}]
  BY <1>1, <1>2, AloneTypes DEF IntsInv
<1>4. /\ liSaw' = [liSaw EXCEPT ![t] = liVal]
      /\ UNCHANGED <<liKind, liVal, liMin, liMax, liLock, liAt, liCopy>>
  BY DEF Ints!Refuse, Ints!Give
<1>5. liSaw' = liTold'
  BY <1>1, <1>3, <1>4 DEF IntsQuiet
<1> QED
  BY <1>1, <1>3, <1>4, <1>5
     DEF IntsInv, Ints!TypeOK, IntsQuiet, Ints!Quiet, IntsExtremes, Ints!Locked, Ints!Value

\* One instruction does all of it.
LEMMA InstructionKeeps ==
    ASSUME IntsInv, NEW t \in LiThread, NEW e, NEW op \in Ints!Ops, NEW c \in Ints!Value,
           NEW new \in BOOLEAN, Ints!Instruction(t, e, op, c, new)
    PROVE  IntsInv'
<1>1. ~Ints!Locked /\ liKind = "atomic"
  BY DEF Ints!Instruction, Ints!Locked
<1>2. ~liLock /\ IntsQuiet /\ liVal = liNet
  BY <1>1 DEF IntsInv, IntsInside, IntsQuiet
<1>3. Ints!Alone(t, e, op, c, new)
  BY DEF Ints!Instruction
<1>4. /\ liNet' \in Ints!Value
      /\ liNet' = IF Ints!Passes(liNet, e) THEN Ints!Apply(op, liNet, c) ELSE liNet
      /\ liHeld' = liHeld \cup {liNet'} /\ liHeld' \subseteq Ints!Value
      /\ liTold' = [liTold EXCEPT ![t] = IF new THEN liNet' ELSE liNet]
      /\ liTold' \in [LiThread -> Ints!Value \cup {-1}]
  BY <1>3, AloneTypes
<1>5. liVal' = liNet'
  BY <1>2, <1>4 DEF Ints!Instruction
<1>6. /\ liSaw' = [liSaw EXCEPT ![t] = IF new THEN liVal' ELSE liVal]
      /\ UNCHANGED <<liKind, liMin, liMax, liLock, liAt, liCopy>>
  BY DEF Ints!Instruction, Ints!Give
<1>7. liSaw' = liTold'
  BY <1>2, <1>4, <1>5, <1>6 DEF IntsQuiet
<1>8. IntsQuiet'
  BY <1>1, <1>2, <1>5, <1>6, <1>7 DEF IntsQuiet, Ints!Quiet, IntsExtremes, Ints!Locked
<1> QED
  BY <1>2, <1>4, <1>5, <1>6, <1>7, <1>8 DEF IntsInv, Ints!TypeOK, Ints!Value

\* What will be written is compared with the extremes.
LEMMA CompareKeeps ==
    ASSUME IntsInv, NEW t \in LiThread, Ints!Compare(t)
    PROVE  IntsInv'
<1>1. liLock /\ IntsInside(t) /\ liAt[t] = "compare"
  BY DEF IntsInv, Ints!Compare, IntsQuiet, Ints!Quiet, IntsInside
<1>2. /\ liAt' = [liAt EXCEPT ![t] = "store"]
      /\ liMin' = IF liKind = "minmax" /\ liCopy[t] < liMin THEN liCopy[t] ELSE liMin
      /\ liMax' = IF liCopy[t] > liMax THEN liCopy[t] ELSE liMax
      /\ UNCHANGED <<liKind, liVal, liLock, liCopy, liSaw, liNet, liTold, liHeld>>
  BY DEF Ints!Compare, Ints!liGhosts
<1>3. liCopy[t] \in Ints!Value /\ liCopy[t] \in liHeld
  BY <1>1 DEF IntsInv, Ints!TypeOK, IntsInside
<1>4. liHeld \subseteq Int /\ liMin \in Int /\ liMax \in Int /\ liCopy[t] \in Int
  BY <1>3, IntsAssumption DEF IntsInv, Ints!TypeOK, Ints!Value
<1>5. liMax' \in liHeld' /\ \A h \in liHeld' : h <= liMax'
  <2>1. liMax \in liHeld /\ \A h \in liHeld : h <= liMax \/ h = liCopy[t]
    BY <1>1 DEF IntsInside
  <2>2. CASE liCopy[t] > liMax
    BY <1>2, <1>3, <1>4, <2>1, <2>2
  <2>3. CASE ~(liCopy[t] > liMax)
    <3>1. liCopy[t] <= liMax
      BY <1>4, <2>3
    <3> QED
      BY <1>2, <2>1, <2>3, <3>1
  <2> QED
    BY <2>2, <2>3
<1>6. liKind' = "minmax" => liMin' \in liHeld' /\ \A h \in liHeld' : h >= liMin'
  <2> SUFFICES ASSUME liKind = "minmax"
               PROVE  liMin' \in liHeld' /\ \A h \in liHeld' : h >= liMin'
    BY <1>2
  <2>1. liMin \in liHeld /\ \A h \in liHeld : h >= liMin \/ h = liCopy[t]
    BY <1>1 DEF IntsInside
  <2>2. CASE liCopy[t] < liMin
    BY <1>2, <1>3, <1>4, <2>1, <2>2
  <2>3. CASE ~(liCopy[t] < liMin)
    <3>1. liCopy[t] >= liMin
      BY <1>4, <2>3
    <3> QED
      BY <1>2, <2>1, <2>3, <3>1
  <2> QED
    BY <2>2, <2>3
<1>7. Ints!TypeOK'
  BY <1>2, <1>3 DEF IntsInv, Ints!TypeOK, Ints!Value
<1>8. IntsInside(t)'
  <2>1. liAt'[t] = "store" /\ \A u \in LiThread \ {t} : liAt'[u] = "out"
    BY <1>1, <1>2 DEF IntsInv, Ints!TypeOK, IntsInside
  <2> QED
    BY <1>1, <1>2, <1>5, <1>6, <2>1 DEF IntsInside, Ints!Locked
<1> QED
  BY <1>1, <1>2, <1>7, <1>8 DEF IntsInv, Ints!Value

\* The write ends the operation.
LEMMA StoreKeeps ==
    ASSUME IntsInv, NEW t \in LiThread, Ints!Store(t)
    PROVE  IntsInv'
<1>1. liLock /\ IntsInside(t) /\ liAt[t] = "store"
  BY DEF IntsInv, Ints!Store, IntsQuiet, Ints!Quiet, IntsInside
<1>2. /\ liAt' = [liAt EXCEPT ![t] = "out"] /\ liLock' = FALSE
      /\ liVal' = liCopy[t] /\ liCopy' = [liCopy EXCEPT ![t] = 0]
      /\ liSaw' = [liSaw EXCEPT ![t] = IF liSaw[t] = -1 THEN liVal' ELSE liSaw[t]]
      /\ UNCHANGED <<liKind, liMin, liMax, liNet, liTold, liHeld>>
  BY DEF Ints!Store, Ints!Give, Ints!liGhosts
<1>3. liCopy[t] \in Ints!Value /\ 0 \in Ints!Value /\ liCopy[t] = liNet
  BY <1>1, IntsAssumption DEF IntsInv, Ints!TypeOK, Ints!Value, IntsInside
<1>4. Ints!TypeOK'
  <2>1. liSaw' \in [LiThread -> Ints!Value \cup {-1}]
    BY <1>2, <1>3 DEF IntsInv, Ints!TypeOK, Ints!Value
  <2> QED
    BY <1>2, <1>3, <2>1 DEF IntsInv, Ints!TypeOK, Ints!Value
<1>5. liSaw' = liTold'
  <2>1. \A u \in LiThread : liSaw'[u] = liTold[u]
    BY <1>1, <1>2, <1>3 DEF IntsInv, Ints!TypeOK, IntsInside
  <2> QED
    BY <1>2, <1>4, <2>1 DEF IntsInv, Ints!TypeOK, Ints!Value
<1>6. Ints!Quiet'
  BY <1>1, <1>2 DEF IntsInside, Ints!Quiet, IntsInv, Ints!TypeOK
<1>7. IntsExtremes'
  BY <1>1, <1>2 DEF IntsInside, IntsExtremes, Ints!Locked
<1> QED
  BY <1>2, <1>3, <1>4, <1>5, <1>6, <1>7 DEF IntsInv, IntsQuiet, Ints!Value

\* Every step keeps it.
LEMMA IntsStep ==
    ASSUME IntsInv, [Ints!Next]_Ints!liVars
    PROVE  IntsInv'
<1>1. Operand \subseteq Ints!Value
  BY IntsAssumption DEF Ints!Value
<1>2. ASSUME NEW t \in LiThread, NEW e, NEW op \in Ints!Ops, NEW c \in Ints!Value,
             NEW new \in BOOLEAN, Ints!Operate(t, e, op, c, new)
      PROVE  IntsInv'
  BY <1>2, BeginKeeps, RefuseKeeps, InstructionKeeps DEF Ints!Operate
<1>3. ASSUME NEW t \in LiThread, NEW op \in Ints!Ops, NEW c \in Operand, NEW new \in BOOLEAN,
             Ints!Mutate(t, op, c, new) \/ \E e \in Operand : Ints!TestMutate(t, e, op, c, new)
      PROVE  IntsInv'
  BY <1>1, <1>2, <1>3 DEF Ints!Mutate, Ints!TestMutate
<1>4. ASSUME NEW t \in LiThread, Ints!CompareSwap(t)  PROVE IntsInv'
  <2>1. 1 \in Ints!Value
    BY IntsAssumption DEF Ints!Value
  <2>2. "add" \in Ints!Ops
    BY DEF Ints!Ops
  <2> QED
    BY <1>2, <1>4, <2>1, <2>2 DEF Ints!CompareSwap
<1>5. ASSUME NEW t \in LiThread, Ints!Load(t)  PROVE IntsInv'
  <2>1. IntsQuiet /\ liVal = liNet /\ liVal \in Ints!Value
    BY <1>5 DEF Ints!Load, IntsInv, IntsQuiet, Ints!TypeOK
  <2>2. /\ liSaw' = [liSaw EXCEPT ![t] = liVal] /\ liTold' = [liTold EXCEPT ![t] = liVal]
        /\ UNCHANGED <<liKind, liVal, liMin, liMax, liLock, liAt, liCopy, liNet, liHeld>>
    BY <1>5, <2>1 DEF Ints!Load, Ints!Give
  <2>3. liSaw' = liTold' /\ liSaw' \in [LiThread -> Ints!Value \cup {-1}]
    BY <2>1, <2>2 DEF IntsQuiet, IntsInv, Ints!TypeOK
  <2> QED
    BY <1>5, <2>1, <2>2, <2>3
       DEF Ints!Load, IntsInv, Ints!TypeOK, IntsQuiet, Ints!Quiet, IntsExtremes, Ints!Locked, Ints!Value
<1>6. ASSUME Ints!Reset  PROVE IntsInv'
  <2>1. IntsQuiet /\ liVal = liNet /\ liVal \in Ints!Value
    BY <1>6 DEF Ints!Reset, IntsInv, IntsQuiet, Ints!TypeOK
  <2>2. liVal \in Int
    BY <2>1, IntsAssumption DEF Ints!Value
  <2>3. /\ liMin' = IF liKind = "minmax" THEN liVal ELSE liMin
        /\ liMax' = liVal /\ liHeld' = {liVal}
        /\ UNCHANGED <<liKind, liVal, liLock, liAt, liCopy, liSaw, liNet, liTold>>
    BY <1>6, <2>1 DEF Ints!Reset
  <2>4. IntsExtremes'
    BY <2>2, <2>3 DEF IntsExtremes
  <2> QED
    BY <1>6, <2>1, <2>3, <2>4 DEF Ints!Reset, IntsInv, Ints!TypeOK, IntsQuiet, Ints!Quiet, Ints!Value
<1>7. ASSUME NEW t \in LiThread, Ints!Compare(t) \/ Ints!Store(t)  PROVE IntsInv'
  BY <1>7, CompareKeeps, StoreKeeps
<1>8. CASE UNCHANGED Ints!liVars
  BY <1>8 DEF Ints!liVars, Ints!liGhosts, IntsInv, Ints!TypeOK, IntsQuiet, Ints!Quiet, IntsExtremes,
              IntsInside, Ints!Locked, Ints!Value
<1> QED
  BY <1>3, <1>4, <1>5, <1>6, <1>7, <1>8 DEF Ints!Next

\* What the invariant says when nobody is inside.
LEMMA IntsImplied == IntsInv => Ints!NoOperationLost /\ Ints!ExtremesExact
<1> SUFFICES ASSUME IntsInv, Ints!Quiet  PROVE Ints!NoOperationLost /\ Ints!ExtremesExact
  BY DEF Ints!NoOperationLost, Ints!ExtremesExact
<1>0. IntsQuiet
  BY DEF IntsInv, IntsInside, Ints!Quiet
<1>1. liHeld \subseteq Int
  BY IntsAssumption DEF IntsInv, Ints!Value
<1>2. ASSUME Ints!Locked  PROVE liMax = Ints!Max(liHeld)
  <2>1. liMax \in liHeld /\ \A h \in liHeld : liMax >= h
    BY <1>0, <1>1, <1>2 DEF IntsQuiet, IntsExtremes
  <2>2. \A x \in liHeld : (\A h \in liHeld : x >= h) => x = liMax
    BY <1>1, <2>1
  <2> QED
    BY <2>1, <2>2 DEF Ints!Max
<1>3. ASSUME liKind = "minmax"  PROVE liMin = Ints!Min(liHeld)
  <2>1. liMin \in liHeld /\ \A h \in liHeld : liMin <= h
    BY <1>0, <1>1, <1>3 DEF IntsQuiet, IntsExtremes
  <2>2. \A x \in liHeld : (\A h \in liHeld : x <= h) => x = liMin
    BY <1>1, <2>1
  <2> QED
    BY <2>1, <2>2 DEF Ints!Min
<1> QED
  BY <1>0, <1>2, <1>3 DEF Ints!NoOperationLost, Ints!ExtremesExact, IntsQuiet

\* The invariant holds at the start.
LEMMA IntsStart == Ints!Init => IntsInv
<1> SUFFICES ASSUME Ints!Init  PROVE IntsInv
  OBVIOUS
<1>1. 0 \in Ints!Value /\ {0} \subseteq Ints!Value
  BY IntsAssumption DEF Ints!Value
<1>2. Ints!TypeOK /\ liTold \in [LiThread -> Ints!Value \cup {-1}]
  BY <1>1 DEF Ints!Init, Ints!TypeOK
<1>3. IntsQuiet /\ ~liLock
  BY DEF Ints!Init, IntsQuiet, Ints!Quiet, IntsExtremes
<1> QED
  BY <1>1, <1>2, <1>3 DEF Ints!Init, IntsInv

\* Whenever no thread is inside an operation, an integer that threads share is what one
\* thread doing all of them would have made of it, every thread has been told what that
\* one would have been told, and the extremes are those of what it has been since the
\* reset.
THEOREM IntsKept == Ints!Spec => [](Ints!NoOperationLost /\ Ints!ExtremesExact)
<1>1. Ints!Spec => []IntsInv
  BY IntsStart, IntsStep, PTL DEF Ints!Spec
<1> QED
  BY <1>1, IntsImplied, PTL

----------------------------------------------------------------------------
(* Quotients *)

\* A number is its quotient and its remainder.
LEMMA QuotRem ==
    ASSUME NEW n \in Int, NEW s \in Nat \ {0}
    PROVE  /\ n \div s \in Int /\ n % s \in 0 .. s - 1
           /\ n = (n \div s) * s + (n % s)
OBVIOUS

\* There is only one such pair.
LEMMA QuotUnique ==
    ASSUME NEW s \in Nat \ {0}, NEW q \in Int, NEW r \in 0 .. s - 1, NEW p \in Int, NEW t \in 0 .. s - 1,
           q * s + r = p * s + t
    PROVE  q = p /\ r = t
<1>1. CASE q >= p + 1
  <2>1. (q - p - 1) * s >= 0
    BY <1>1
  <2>2. q * s = p * s + s + (q - p - 1) * s
    OBVIOUS
  <2>3. FALSE
    BY <2>1, <2>2
  <2> QED
    BY <2>3
<1>2. CASE p >= q + 1
  <2>1. (p - q - 1) * s >= 0
    BY <1>2
  <2>2. p * s = q * s + s + (p - q - 1) * s
    OBVIOUS
  <2>3. FALSE
    BY <2>1, <2>2
  <2> QED
    BY <2>3
<1> QED
  BY <1>1, <1>2

\* Whole multiples go through a division.
LEMMA QuotShift ==
    ASSUME NEW s \in Nat \ {0}, NEW a \in Int, NEW d \in Int
    PROVE  (a * s + d) \div s = a + (d \div s) /\ (a * s + d) % s = d % s
<1> DEFINE n == a * s + d
           q == n \div s  r == n % s  p == d \div s  t == d % s
<1>1. n \in Int
  OBVIOUS
<1>2. q \in Int /\ r \in 0 .. s - 1 /\ n = q * s + r
  BY <1>1, QuotRem
<1>3. p \in Int /\ t \in 0 .. s - 1 /\ d = p * s + t
  BY QuotRem
<1>4. n = a * s + d
  OBVIOUS
<1> HIDE DEF n, q, r, p, t
<1>5. (a + p) * s = a * s + p * s
  BY <1>3
<1>6. q * s + r = (a + p) * s + t
  BY <1>1, <1>2, <1>3, <1>4, <1>5
<1>7. a + p \in Int
  BY <1>3
<1>8. q = a + p /\ r = t
  BY <1>2, <1>3, <1>6, <1>7, QuotUnique
<1> QED
  BY <1>8 DEF n, q, r, p, t

\* A product grows with its factors.
LEMMA TimesMono ==
    ASSUME NEW a \in Int, NEW b \in Int, NEW c \in Nat, a <= b
    PROVE  a * c <= b * c /\ c * a <= c * b
<1>1. (b - a) * c >= 0
  OBVIOUS
<1> QED
  BY <1>1

----------------------------------------------------------------------------
(* Token buckets (freq_control.hh) *)

\* The highest frequency and the largest bucket.
Fast == Rate!Max(Freqs)
Large == Rate!Max(Buckets)

\* The largest frequency and the largest bucket.
LEMMA Largest ==
    /\ Fast \in Nat /\ \A f \in Freqs : f \in Nat /\ f > 0 /\ f <= Fast
    /\ Large \in Nat /\ \A b \in Buckets : b \in Nat /\ b <= Large
<1>1. Fast \in Freqs /\ \A f \in Freqs : Fast >= f
  <2>1. \E f \in Freqs : \A g \in Freqs : f >= g
    BY RateAssumption
  <2> QED
    BY <2>1 DEF Fast, Rate!Max
<1>2. Large \in Buckets /\ \A b \in Buckets : Large >= b
  <2>1. \E b \in Buckets : \A c \in Buckets : b >= c
    BY RateAssumption
  <2> QED
    BY <2>1 DEF Large, Rate!Max
<1> QED
  BY <1>1, <1>2, RateAssumption

\* A CFreqControl's fields: never more tokens than the largest bucket holds, and less
\* than a token left over.
Control(c, now) ==
    /\ c \in [freq : Freqs \cup {0}, buckSz : Buckets \cup {0}, token : Int, delta : Nat, time : Nat]
    /\ c.delta < Second /\ c.time <= now /\ c.token <= Large
    /\ c.freq = 0 => c.token = 0 /\ c.delta = 0

\* What was taken since a moment, and what is there.
Within(c, since, taken) ==
    /\ since <= c.time
    /\ (taken + c.token) * Second + c.delta < (Large + 1) * Second + Fast * (c.time - since)

\* The same of a CWideFreqControl.
WideWithin(w, since, taken) ==
    /\ since <= w.time
    /\ taken * Rate!WholeToken + w.token <= Rate!FullBucket + WideNum * (w.time - since)

\* The inductive invariant of the token buckets.
RateInv ==
    /\ fcKind \in {"plain", "wide", "counter"}
    /\ fcNow \in Nat /\ fcSince \in 0 .. fcNow /\ fcTaken \in Nat /\ fcLevel \in Int
    /\ Control(fcCtl, fcNow)
    /\ Rate!ExactTokens
    /\ wfCtl \in [token : 0 .. Rate!FullBucket, time : 0 .. fcNow]
    /\ fcKind = "plain" => Within(fcCtl, fcSince, fcTaken)
    /\ fcKind = "wide" => WideWithin(wfCtl, fcSince, fcTaken)

\* generate: what is made is what the time gives, or less when the bucket is full.
LEMMA GeneratedRight ==
    ASSUME NEW now \in Nat, NEW c, Control(c, now), c.freq > 0, c.time < now,
           NEW level, level = c.token * Second + c.delta
    PROVE  LET g == [Rate!Generated(c, now) EXCEPT !.time = now]
           IN  /\ Control(g, now) /\ g.time = now
               /\ g.token * Second + g.delta = Rate!Filled(level, c, now)
               /\ g.token * Second + g.delta <= c.token * Second + c.delta + Fast * (now - c.time)
<1> DEFINE d == c.delta + c.freq * (now - c.time)
           tok == (d \div Second) + c.token
           token == IF tok > c.buckSz THEN c.buckSz ELSE tok
           delta == d % Second
           l == level + c.freq * (now - c.time)
           g == [Rate!Generated(c, now) EXCEPT !.time = now]
<1>0. Second \in Nat \ {0} /\ Second > 0
  BY RateAssumption
<1>1. /\ c.freq \in Nat /\ c.freq <= Fast /\ c.buckSz \in Nat /\ c.buckSz <= Large /\ c.token \in Int
      /\ c.delta \in Nat /\ c.time \in Nat /\ Fast \in Nat /\ Large \in Nat
  BY Largest DEF Control
<1>2. d \in Nat
  <2>1. now - c.time \in Nat
    BY <1>1
  <2> QED
    BY <2>1, <1>1
<1>4. /\ g.token = token /\ g.delta = delta /\ g.time = now /\ g.freq = c.freq /\ g.buckSz = c.buckSz
      /\ g \in [freq : Freqs \cup {0}, buckSz : Buckets \cup {0}, token : {token}, delta : {delta}, time : {now}]
  <2>1. g = [[c EXCEPT !.delta = delta, !.token = token] EXCEPT !.time = now]
    BY DEF Rate!Generated
  <2>2. c \in [freq : Freqs \cup {0}, buckSz : Buckets \cup {0}, token : Int, delta : Nat, time : Nat]
    BY DEF Control
  <2> HIDE DEF delta, token, g
  <2> QED
    BY <2>1, <2>2
<1>5. l = c.token * Second + d
  BY <1>0, <1>1
<1>10. d = c.delta + c.freq * (now - c.time)
  OBVIOUS
<1>15. Rate!Filled(level, c, now) = IF l \div Second > c.buckSz THEN c.buckSz * Second + (l % Second) ELSE l
  BY DEF Rate!Filled
<1> HIDE DEF d, l
<1>3. /\ d \div Second \in Int /\ delta \in 0 .. Second - 1
      /\ d = (d \div Second) * Second + delta
  <2>1. \A n \in Int : n \div Second \in Int /\ n % Second \in 0 .. Second - 1
                        /\ n = (n \div Second) * Second + (n % Second)
    BY <1>0, QuotRem
  <2> QED
    BY <2>1, <1>2
<1>6. /\ l \div Second = c.token + (d \div Second)
      /\ l % Second = delta
  <2>1. \A a \in Int : /\ (a * Second + d) \div Second = a + (d \div Second)
                        /\ (a * Second + d) % Second = d % Second
    BY <1>0, <1>2, QuotShift
  <2>2. c.token \in Int
    BY <1>1
  <2> QED
    BY <2>1, <2>2, <1>5
<1>7. Rate!Filled(level, c, now) =
        IF c.token + (d \div Second) > c.buckSz THEN c.buckSz * Second + delta ELSE c.token * Second + d
  <2> HIDE DEF delta
  <2> QED
    BY <1>5, <1>6, <1>15
<1>8. c.freq * (now - c.time) <= Fast * (now - c.time)
  <2>1. now - c.time \in Nat
    BY <1>1
  <2> QED
    BY <2>1, <1>1, TimesMono
<1>9. tok * Second = (d \div Second) * Second + c.token * Second
  BY <1>0, <1>1, <1>3
<1>11. c.freq * (now - c.time) \in Int /\ Fast * (now - c.time) \in Int
  BY <1>1
<1>12. tok = (d \div Second) + c.token
  OBVIOUS
<1> HIDE DEF tok, delta
<1>13. CASE tok > c.buckSz
  <2>1. token = c.buckSz /\ Rate!Filled(level, c, now) = c.buckSz * Second + delta
    BY <1>1, <1>3, <1>7, <1>12, <1>13
  <2>2. c.buckSz * Second <= tok * Second
    BY <1>0, <1>1, <1>3, <1>12, <1>13, TimesMono
  <2>3. c.buckSz * Second + delta <= c.token * Second + c.delta + Fast * (now - c.time)
    <3>1. c.buckSz * Second \in Int /\ tok * Second \in Int /\ c.token * Second \in Int /\ delta \in Int
          /\ (d \div Second) * Second \in Int
      BY <1>0, <1>1, <1>3, <1>12
    <3> QED
      BY <3>1, <2>2, <1>1, <1>2, <1>3, <1>8, <1>9, <1>10, <1>11
  <2>4. g.token \in Int /\ g.token <= Large
    BY <2>1, <1>4, <1>1
  <2> QED
    BY <2>1, <2>3, <2>4, <1>0, <1>1, <1>3, <1>4 DEF Control
<1>14. CASE ~(tok > c.buckSz)
  <2>1. token = tok /\ Rate!Filled(level, c, now) = c.token * Second + d
    BY <1>1, <1>3, <1>7, <1>12, <1>14
  <2>2. tok * Second + delta = c.token * Second + d
    <3>1. tok * Second \in Int /\ c.token * Second \in Int /\ delta \in Int
          /\ (d \div Second) * Second \in Int
      BY <1>0, <1>1, <1>3, <1>12
    <3> QED
      BY <3>1, <1>2, <1>3, <1>9
  <2>3. tok * Second + delta <= c.token * Second + c.delta + Fast * (now - c.time)
    <3>1. c.token * Second \in Int
      BY <1>0, <1>1
    <3> QED
      BY <3>1, <2>2, <1>1, <1>2, <1>8, <1>10, <1>11
  <2>4. g.token \in Int /\ g.token <= Large
    BY <2>1, <1>4, <1>1, <1>3, <1>12, <1>14
  <2> QED
    BY <2>1, <2>2, <2>3, <2>4, <1>0, <1>1, <1>3, <1>4 DEF Control
<1> QED
  BY <1>13, <1>14

\* A bound holds on as long as no more is made than the time gives.
LEMMA WithinGrows ==
    ASSUME NEW c, NEW g, NEW since \in Nat, NEW taken \in Nat, NEW now \in Nat, NEW then \in Nat,
           Control(c, then), Control(g, now), Within(c, since, taken), c.time <= g.time,
           g.token * Second + g.delta <= c.token * Second + c.delta + Fast * (g.time - c.time)
    PROVE  Within(g, since, taken)
<1>0. Second \in Nat /\ Fast \in Nat /\ Large \in Nat
  BY RateAssumption, Largest
<1>1. /\ c.token \in Int /\ c.delta \in Nat /\ c.time \in Nat
      /\ g.token \in Int /\ g.delta \in Nat /\ g.time \in Nat
  BY DEF Control
<1>2. /\ (taken + g.token) * Second = taken * Second + g.token * Second
      /\ (taken + c.token) * Second = taken * Second + c.token * Second
  BY <1>0, <1>1
<1>3. Fast * (g.time - since) = Fast * (g.time - c.time) + Fast * (c.time - since)
  BY <1>0, <1>1
<1>4. /\ taken * Second \in Int /\ g.token * Second \in Int /\ c.token * Second \in Int
      /\ (Large + 1) * Second \in Int /\ Fast * (g.time - c.time) \in Int /\ Fast * (c.time - since) \in Int
      /\ Fast * (g.time - since) \in Int
  BY <1>0, <1>1
<1>5. taken * Second + c.token * Second + c.delta < (Large + 1) * Second + Fast * (c.time - since)
  BY <1>2 DEF Within
<1>6. taken * Second + g.token * Second + g.delta < (Large + 1) * Second + Fast * (g.time - since)
  BY <1>1, <1>3, <1>4, <1>5
<1>7. since <= g.time
  BY <1>1 DEF Within
<1> QED
  BY <1>2, <1>6, <1>7 DEF Within

\* InitControl keeps the invariant: nothing is made.
LEMMA RateInit ==
    ASSUME RateInv, NEW freq \in Freqs, NEW buckSz \in Buckets, Rate!InitControl(freq, buckSz)
    PROVE  RateInv'
<1>0. Second \in Nat /\ Fast \in Nat /\ Large \in Nat
  BY RateAssumption, Largest
<1>1. /\ fcKind = "plain" /\ fcKind' = "plain"
      /\ UNCHANGED <<fcNow, fcSince, fcTaken, wfCtl>>
  BY DEF Rate!InitControl, Rate!Plain
<1>2. fcCtl \in [freq : Freqs \cup {0}, buckSz : Buckets \cup {0}, token : Int, delta : Nat, time : Nat]
  BY DEF RateInv, Control
<1>3. /\ fcCtl.token \in Int /\ fcCtl.delta \in Nat /\ fcCtl.time \in Nat /\ fcCtl.time <= fcNow
      /\ fcNow \in Nat /\ fcSince \in Nat /\ fcTaken \in Nat
      /\ fcCtl.token * Second + fcCtl.delta = fcLevel
  BY DEF RateInv, Control, Rate!ExactTokens
<1>4. CASE fcCtl.freq = 0
  <2>1. fcCtl' = [freq |-> freq, buckSz |-> buckSz, token |-> 0, delta |-> 0, time |-> fcNow]
        /\ fcLevel' = 0
    BY <1>4 DEF Rate!InitControl
  <2>2. fcCtl.token = 0 /\ fcCtl.delta = 0
    BY <1>4 DEF RateInv, Control
  <2>3. Control(fcCtl', fcNow)
    BY <2>1, <1>0, <1>3, RateAssumption DEF Control
  <2>4. fcCtl'.token * Second + fcCtl'.delta = 0
    BY <2>1, <1>0
  <2>5. fcCtl'.time = fcNow
    BY <2>1
  <2>6. 0 <= Fast * (fcNow - fcCtl.time)
    BY <1>0, <1>3
  <2>7. fcCtl.token * Second + fcCtl.delta = 0
    BY <2>2, <1>0
  <2>8. Within(fcCtl', fcSince, fcTaken)
    <3> DEFINE g == fcCtl'
    <3>1. g.token * Second + g.delta
            <= fcCtl.token * Second + fcCtl.delta + Fast * (g.time - fcCtl.time)
      <4>1. Fast * (fcNow - fcCtl.time) \in Int
        BY <1>0, <1>3
      <4> QED
        BY <4>1, <2>4, <2>5, <2>6, <2>7
    <3>2. Control(fcCtl, fcNow) /\ Within(fcCtl, fcSince, fcTaken)
      BY <1>1 DEF RateInv
    <3>3. Control(g, fcNow) /\ fcCtl.time <= g.time
      BY <2>3, <2>5, <1>3
    <3> HIDE DEF g
    <3>4. Within(g, fcSince, fcTaken)
      BY <3>1, <3>2, <3>3, <1>3, WithinGrows
    <3> QED
      BY <3>4 DEF g
  <2> QED
    BY <1>1, <2>1, <2>3, <2>4, <2>8 DEF RateInv, Rate!ExactTokens, Control, Within, Rate!FullBucket
<1>5. CASE fcCtl.freq # 0
  <2>1. fcCtl' = [fcCtl EXCEPT !.freq = freq, !.buckSz = buckSz] /\ fcLevel' = fcLevel
    BY <1>5 DEF Rate!InitControl
  <2>2. /\ fcCtl' \in [freq : Freqs \cup {0}, buckSz : Buckets \cup {0}, token : Int, delta : Nat, time : Nat]
        /\ fcCtl'.freq = freq /\ fcCtl'.token = fcCtl.token /\ fcCtl'.delta = fcCtl.delta /\ fcCtl'.time = fcCtl.time
    BY <2>1, <1>2
  <2>3. freq # 0
    BY RateAssumption
  <2> QED
    BY <1>1, <2>1, <2>2, <2>3 DEF RateInv, Rate!ExactTokens, Control, Within, Rate!FullBucket
<1> QED
  BY <1>4, <1>5

\* Generate keeps it.
LEMMA RateGenerate ==
    ASSUME RateInv, NEW nowUs \in Nat, Rate!Generate(nowUs)
    PROVE  RateInv'
<1> DEFINE now == IF nowUs < fcCtl.time THEN fcNow ELSE nowUs
<1>0. Second \in Nat /\ Fast \in Nat /\ Large \in Nat
  BY RateAssumption, Largest
<1>1. /\ fcKind = "plain" /\ fcKind' = "plain" /\ fcCtl.freq > 0 /\ nowUs <= fcNow
      /\ UNCHANGED <<fcNow, fcSince, fcTaken, wfCtl>>
      /\ fcCtl' = [(IF now > fcCtl.time THEN Rate!Generated(fcCtl, now) ELSE fcCtl) EXCEPT !.time = now]
      /\ fcLevel' = IF now > fcCtl.time THEN Rate!Filled(fcLevel, fcCtl, now) ELSE fcLevel
  BY DEF Rate!Generate, Rate!Plain
<1>2. fcCtl \in [freq : Freqs \cup {0}, buckSz : Buckets \cup {0}, token : Int, delta : Nat, time : Nat]
  BY DEF RateInv, Control
<1>3. /\ fcCtl.token \in Int /\ fcCtl.delta \in Nat /\ fcCtl.time \in Nat /\ fcCtl.time <= fcNow
      /\ fcNow \in Nat /\ fcSince \in Nat /\ fcTaken \in Nat
      /\ fcCtl.token * Second + fcCtl.delta = fcLevel
      /\ Control(fcCtl, fcNow) /\ Within(fcCtl, fcSince, fcTaken)
  BY <1>1 DEF RateInv, Control, Rate!ExactTokens
<1>4. now \in Nat /\ now <= fcNow /\ fcCtl.time <= now
  BY <1>1, <1>3
<1> HIDE DEF now
<1>5. CASE now > fcCtl.time
  <2> DEFINE g == [Rate!Generated(fcCtl, now) EXCEPT !.time = now]
  <2>1. fcCtl' = g /\ fcLevel' = Rate!Filled(fcLevel, fcCtl, now)
    BY <1>1, <1>5
  <2>2. Control(fcCtl, now)
    BY <1>3, <1>4 DEF Control
  <2>3. /\ Control(g, now) /\ g.time = now
        /\ g.token * Second + g.delta = Rate!Filled(fcLevel, fcCtl, now)
        /\ g.token * Second + g.delta <= fcCtl.token * Second + fcCtl.delta + Fast * (now - fcCtl.time)
    BY <2>2, <1>1, <1>3, <1>4, <1>5, GeneratedRight
  <2> HIDE DEF g
  <2>4. Within(g, fcSince, fcTaken)
    BY <2>2, <2>3, <1>3, <1>4, WithinGrows
  <2>5. Control(g, fcNow)
    BY <2>3, <1>3, <1>4 DEF Control
  <2>6. fcLevel' = g.token * Second + g.delta /\ fcLevel' \in Int
    BY <2>1, <2>3, <2>5, <1>0 DEF Control
  <2> QED
    BY <1>1, <2>1, <2>4, <2>5, <2>6 DEF RateInv, Rate!ExactTokens, Control, Within, Rate!FullBucket
<1>6. CASE ~(now > fcCtl.time)
  <2>1. now = fcCtl.time /\ fcCtl' = [fcCtl EXCEPT !.time = now] /\ fcLevel' = fcLevel
    BY <1>1, <1>3, <1>4, <1>6
  <2>2. fcCtl' = fcCtl
    BY <2>1, <1>2
  <2> QED
    BY <1>1, <2>1, <2>2 DEF RateInv, Rate!ExactTokens, Control, Within, Rate!FullBucket
<1> QED
  BY <1>5, <1>6

\* get and overdraw keep it: what is taken is no longer there.
LEMMA RateTake ==
    ASSUME RateInv, NEW need \in Nat, Rate!Take(need), fcCtl.freq # 0
    PROVE  RateInv'
<1>0. Second \in Nat /\ Fast \in Nat /\ Large \in Nat
  BY RateAssumption, Largest
<1>1. /\ fcKind = "plain" /\ fcKind' = "plain"
      /\ UNCHANGED <<fcNow, fcSince, wfCtl>>
      /\ fcCtl' = [fcCtl EXCEPT !.token = fcCtl.token - need]
      /\ fcLevel' = fcLevel - need * Second /\ fcTaken' = fcTaken + need
  BY DEF Rate!Take, Rate!Plain
<1>2. fcCtl \in [freq : Freqs \cup {0}, buckSz : Buckets \cup {0}, token : Int, delta : Nat, time : Nat]
  BY DEF RateInv, Control
<1>3. /\ fcCtl.token \in Int /\ fcTaken \in Nat /\ fcCtl.token <= Large /\ fcCtl.delta \in Nat
      /\ fcCtl.token * Second + fcCtl.delta = fcLevel
  BY DEF RateInv, Control, Rate!ExactTokens
<1>4. /\ fcCtl' \in [freq : Freqs \cup {0}, buckSz : Buckets \cup {0}, token : Int, delta : Nat, time : Nat]
      /\ fcCtl'.freq = fcCtl.freq /\ fcCtl'.token = fcCtl.token - need
      /\ fcCtl'.delta = fcCtl.delta /\ fcCtl'.time = fcCtl.time
  BY <1>1, <1>2, <1>3
<1>5. (fcCtl.token - need) * Second = fcCtl.token * Second - need * Second
  BY <1>0, <1>3
<1>6. fcTaken' + fcCtl'.token = fcTaken + fcCtl.token
  BY <1>1, <1>3, <1>4
<1>7. fcCtl'.token * Second + fcCtl'.delta = fcLevel' /\ fcLevel' \in Int
  <2>1. need * Second \in Int /\ fcCtl.token * Second \in Int
    BY <1>0, <1>3
  <2> QED
    BY <2>1, <1>1, <1>3, <1>4, <1>5
<1>8. Control(fcCtl', fcNow)
  <2>1. fcCtl.token - need <= Large
    BY <1>0, <1>3
  <2> QED
    BY <2>1, <1>4 DEF RateInv, Control
<1>9. Within(fcCtl', fcSince, fcTaken')
  BY <1>1, <1>4, <1>6 DEF RateInv, Within
<1> QED
  BY <1>1, <1>3, <1>7, <1>8, <1>9 DEF RateInv, Rate!ExactTokens, Control, Within, Rate!FullBucket

\* A CWideFreqControl: what it holds after its time was brought up to now.
LEMMA WideFill ==
    ASSUME NEW w, NEW now \in Nat, NEW since \in 0 .. now, NEW taken \in Nat, NEW token,
           w \in [token : 0 .. Rate!FullBucket, time : 0 .. now], WideWithin(w, since, taken),
           token = Rate!Min({w.token + WideNum * (now - w.time), Rate!FullBucket})
    PROVE  /\ token \in 0 .. Rate!FullBucket
           /\ taken * Rate!WholeToken + token <= Rate!FullBucket + WideNum * (now - since)
<1> DEFINE full == Rate!FullBucket  whole == Rate!WholeToken
<1>0. full \in Nat /\ whole \in Nat /\ WideNum \in Nat
  BY RateAssumption DEF Rate!FullBucket, Rate!WholeToken
<1> HIDE DEF full, whole
<1>1. w.token \in 0 .. full /\ w.time \in 0 .. now
  BY DEF full
<1>2. /\ WideNum * (now - w.time) \in Nat /\ WideNum * (now - since) \in Nat
      /\ taken * whole \in Nat
  BY <1>0, <1>1
<1>3. token \in Int /\ token <= full /\ token <= w.token + WideNum * (now - w.time) /\ token >= 0
  <2> DEFINE a == w.token + WideNum * (now - w.time)
  <2>1. a \in Int /\ a >= 0 /\ token = Rate!Min({a, full})
    BY <1>1, <1>2 DEF full
  <2> HIDE DEF a
  <2>2. \E x \in {a, full} : \A y \in {a, full} : x <= y
    BY <2>1, <1>0
  <2>3. token \in {a, full} /\ \A y \in {a, full} : token <= y
    BY <2>1, <2>2 DEF Rate!Min
  <2> QED
    BY <2>1, <2>3, <1>0 DEF a
<1>4. taken * whole + w.token <= full + WideNum * (w.time - since) /\ since <= w.time
  BY DEF WideWithin, whole, full
<1>5. WideNum * (now - since) = WideNum * (now - w.time) + WideNum * (w.time - since)
  BY <1>0, <1>1
<1>6. WideNum * (w.time - since) \in Int
  BY <1>0, <1>1
<1>7. taken * whole + token <= full + WideNum * (now - since)
  BY <1>4, <1>5, <1>6, <1>0, <1>1, <1>2, <1>3
<1> QED
  BY <1>7, <1>0, <1>3 DEF whole, full

\* One token is taken or none.
LEMMA WideTake ==
    ASSUME NEW w, NEW now \in Nat, NEW since \in 0 .. now, NEW taken \in Nat, NEW token \in 0 .. Rate!FullBucket,
           NEW time \in 0 .. now,
           w = [token |-> IF token >= Rate!WholeToken THEN token - Rate!WholeToken ELSE token, time |-> time],
           WideWithin([token |-> token, time |-> time], since, taken)
    PROVE  /\ w \in [token : 0 .. Rate!FullBucket, time : 0 .. now]
           /\ WideWithin(w, since, taken + (IF token >= Rate!WholeToken THEN 1 ELSE 0))
<1> DEFINE whole == Rate!WholeToken  more == IF token >= Rate!WholeToken THEN 1 ELSE 0
<1>0. Rate!FullBucket \in Nat /\ whole \in Nat
  BY RateAssumption DEF Rate!FullBucket, Rate!WholeToken
<1>1. w.time = time /\ w \in [token : 0 .. Rate!FullBucket, time : 0 .. now]
  BY <1>0
<1>2. (taken + more) * whole + w.token = taken * whole + token
  <2>1. CASE token >= whole
    <3>1. more = 1 /\ w.token = token - whole
      BY <2>1
    <3>2. (taken + 1) * whole = taken * whole + whole
      BY <1>0
    <3>3. taken * whole \in Int /\ token \in Int /\ (taken + 1) * whole \in Int
      BY <1>0
    <3> QED
      BY <3>1, <3>2, <3>3, <1>0
  <2>2. CASE ~(token >= whole)
    <3>1. more = 0 /\ w.token = token
      BY <2>2
    <3> QED
      BY <3>1
  <2> QED
    BY <2>1, <2>2
<1> QED
  BY <1>1, <1>2 DEF WideWithin

\* get of a CWideFreqControl keeps the invariant.
LEMMA RateGetWide ==
    ASSUME RateInv, Rate!GetWide
    PROVE  RateInv'
<1> DEFINE have == wfCtl.token >= Rate!WholeToken
           token == IF have THEN wfCtl.token ELSE Rate!WideGenerated
           time == IF have THEN wfCtl.time ELSE fcNow
           ok == token >= Rate!WholeToken
<1>1. /\ fcKind = "wide" /\ fcKind' = "wide" /\ UNCHANGED <<fcNow, fcCtl, fcLevel, fcSince>>
      /\ wfCtl' = [token |-> IF ok THEN token - Rate!WholeToken ELSE token, time |-> time]
      /\ fcTaken' = fcTaken + (IF ok THEN 1 ELSE 0)
  BY DEF Rate!GetWide, Rate!Wide
<1>2. /\ fcNow \in Nat /\ fcSince \in 0 .. fcNow /\ fcTaken \in Nat
      /\ wfCtl \in [token : 0 .. Rate!FullBucket, time : 0 .. fcNow]
      /\ WideWithin(wfCtl, fcSince, fcTaken)
  BY <1>1 DEF RateInv
<1>3. token \in 0 .. Rate!FullBucket /\ time \in 0 .. fcNow
      /\ WideWithin([token |-> token, time |-> time], fcSince, fcTaken)
  <2>1. CASE have
    BY <2>1, <1>2
  <2>2. CASE ~have
    <3>1. token = Rate!Min({wfCtl.token + WideNum * (fcNow - wfCtl.time), Rate!FullBucket}) /\ time = fcNow
      BY <2>2 DEF Rate!WideGenerated
    <3> HIDE DEF token, time
    <3>2. /\ token \in 0 .. Rate!FullBucket
          /\ fcTaken * Rate!WholeToken + token <= Rate!FullBucket + WideNum * (fcNow - fcSince)
      BY <3>1, <1>2, WideFill
    <3> QED
      BY <3>1, <3>2, <1>2 DEF WideWithin
  <2> QED
    BY <2>1, <2>2
<1> HIDE DEF token, time
<1>4. /\ wfCtl' \in [token : 0 .. Rate!FullBucket, time : 0 .. fcNow]
      /\ WideWithin(wfCtl', fcSince, fcTaken')
  BY <1>1, <1>2, <1>3, WideTake
<1>5. fcTaken' \in Nat
  BY <1>1, <1>2
<1> QED
  BY <1>1, <1>4, <1>5 DEF RateInv, Rate!ExactTokens, Control, WideWithin, Rate!FullBucket, Rate!WholeToken

\* Every step keeps it.
LEMMA RateStep ==
    ASSUME RateInv, [Rate!Next]_Rate!fcVars
    PROVE  RateInv'
<1>0. Second \in Nat /\ Second > 0 /\ Fast \in Nat /\ Large \in Nat /\ WideNum \in Nat
      /\ Rate!FullBucket \in Nat /\ Rate!WholeToken \in Nat
  BY RateAssumption, Largest DEF Rate!FullBucket, Rate!WholeToken
<1>00. /\ fcNow \in Nat /\ fcSince \in 0 .. fcNow /\ fcTaken \in Nat
       /\ fcCtl.token \in Int /\ fcCtl.delta \in Nat /\ fcCtl.time \in 0 .. fcNow /\ fcCtl.token <= Large
       /\ fcCtl.delta < Second /\ wfCtl.token \in 0 .. Rate!FullBucket /\ wfCtl.time \in 0 .. fcNow
  BY DEF RateInv, Control
<1>1. ASSUME Rate!Tick  PROVE RateInv'
  <2>1. fcNow' = fcNow + 1 /\ UNCHANGED <<fcKind, fcCtl, wfCtl, fcLevel, fcSince, fcTaken>>
    BY <1>1 DEF Rate!Tick
  <2>2. fcNow' \in Nat /\ fcSince \in 0 .. fcNow' /\ Control(fcCtl, fcNow')
    BY <2>1, <1>00 DEF RateInv, Control
  <2>3. wfCtl \in [token : 0 .. Rate!FullBucket, time : 0 .. fcNow']
    BY <2>1, <1>00 DEF RateInv
  <2> QED
    BY <2>1, <2>2, <2>3 DEF RateInv, Rate!ExactTokens, Control, Within, WideWithin, Rate!FullBucket, Rate!WholeToken
<1>2. ASSUME Rate!Watch  PROVE RateInv'
  <2>1. /\ fcSince' = (IF fcKind = "plain" THEN fcCtl.time ELSE wfCtl.time) /\ fcTaken' = 0
        /\ UNCHANGED <<fcKind, fcNow, fcCtl, wfCtl, fcLevel>>
    BY <1>2 DEF Rate!Watch
  <2>2. fcSince' \in 0 .. fcNow
    BY <2>1, <1>00
  <2>3. Within(fcCtl, fcCtl.time, 0)
    <3>1. Fast * (fcCtl.time - fcCtl.time) = 0
      BY <1>0, <1>00
    <3>2. fcCtl.token * Second <= Large * Second
      BY <1>0, <1>00, TimesMono
    <3>3. (Large + 1) * Second = Large * Second + Second
      BY <1>0
    <3>4. Large * Second \in Int /\ fcCtl.token * Second \in Int /\ 0 + fcCtl.token = fcCtl.token
      BY <1>0, <1>00
    <3> QED
      BY <3>1, <3>2, <3>3, <3>4, <1>0, <1>00 DEF Within
  <2>4. WideWithin(wfCtl, wfCtl.time, 0)
    <3>1. WideNum * (wfCtl.time - wfCtl.time) = 0
      BY <1>0, <1>00
    <3>2. 0 * Rate!WholeToken = 0
      BY <1>0
    <3> QED
      BY <3>1, <3>2, <1>0, <1>00 DEF WideWithin
  <2>5. fcKind = "plain" => Within(fcCtl, fcSince', fcTaken')
    BY <2>1, <2>3
  <2>6. fcKind = "wide" => WideWithin(wfCtl, fcSince', fcTaken')
    BY <2>1, <2>4
  <2> QED
    BY <2>1, <2>2, <2>5, <2>6 DEF RateInv, Rate!ExactTokens, Control, Within, WideWithin, Rate!FullBucket, Rate!WholeToken
<1>3. ASSUME Rate!InitWide  PROVE RateInv'
  <2>1. /\ fcKind = "wide" /\ UNCHANGED <<fcKind, fcNow, fcCtl, fcLevel, fcSince, fcTaken>>
        /\ wfCtl' = [token |-> 0, time |-> fcNow]
    BY <1>3 DEF Rate!InitWide, Rate!Wide
  <2>2. wfCtl' \in [token : 0 .. Rate!FullBucket, time : 0 .. fcNow] /\ wfCtl'.token = 0 /\ wfCtl'.time = fcNow
    BY <2>1, <1>0, <1>00
  <2>3. fcTaken * Rate!WholeToken + 0 <= Rate!FullBucket + WideNum * (fcNow - fcSince)
    <3>1. fcTaken * Rate!WholeToken + wfCtl.token <= Rate!FullBucket + WideNum * (wfCtl.time - fcSince)
      BY <2>1 DEF RateInv, WideWithin
    <3>2. fcTaken * Rate!WholeToken \in Nat /\ WideNum * (fcNow - fcSince) \in Nat
      BY <1>0, <1>00
    <3>3. WideNum * (wfCtl.time - fcSince) \in Int /\ WideNum * (wfCtl.time - fcSince) <= WideNum * (fcNow - fcSince)
      <4>1. wfCtl.time - fcSince \in Int /\ fcNow - fcSince \in Int /\ wfCtl.time - fcSince <= fcNow - fcSince
        BY <1>00
      <4> QED
        BY <4>1, <1>0, TimesMono
    <3> QED
      BY <3>1, <3>2, <3>3, <1>0, <1>00
  <2>4. WideWithin(wfCtl', fcSince, fcTaken)
    BY <2>2, <2>3, <1>00 DEF WideWithin
  <2> QED
    BY <2>1, <2>2, <2>4 DEF RateInv, Rate!ExactTokens, Control, WideWithin, Rate!FullBucket, Rate!WholeToken
<1>4. ASSUME NEW need \in 1 .. MaxNeed, Rate!Get(need) \/ Rate!Overdraw(need)  PROVE RateInv'
  <2>1. Rate!Take(need) /\ need \in Nat
    BY <1>4, RateAssumption DEF Rate!Get, Rate!Overdraw
  <2>2. fcCtl.freq # 0
    <3>1. CASE Rate!Get(need)
      BY <3>1, <1>4, RateAssumption DEF Rate!Get, RateInv, Control
    <3>2. CASE Rate!Overdraw(need)
      BY <3>2 DEF Rate!Overdraw
    <3> QED
      BY <3>1, <3>2, <1>4
  <2> QED
    BY <2>1, <2>2, RateTake
<1>5. ASSUME UNCHANGED <<fcKind, fcNow, fcCtl, wfCtl, fcLevel, fcSince, fcTaken>>  PROVE RateInv'
  BY <1>5 DEF RateInv, Rate!ExactTokens, Control, Within, WideWithin, Rate!FullBucket, Rate!WholeToken
<1>6. ASSUME Rate!Occur \/ Rate!Frequency  PROVE RateInv'
  BY <1>5, <1>6 DEF Rate!Occur, Rate!Frequency, Rate!Counter
<1>7. CASE UNCHANGED Rate!fcVars
  BY <1>5, <1>7 DEF Rate!fcVars
<1>8. ASSUME NEW n \in 0 .. MaxTime, Rate!Generate(n)  PROVE RateInv'
  <2>1. n \in Nat
    OBVIOUS
  <2> QED
    BY <2>1, <1>8, RateGenerate
<1> QED
  BY <1>1, <1>2, <1>3, <1>4, <1>6, <1>7, <1>8, RateInit, RateGetWide DEF Rate!Next

\* It holds at the start.
LEMMA RateStart == Rate!Init => RateInv
<1> SUFFICES ASSUME Rate!Init  PROVE RateInv
  OBVIOUS
<1>0. Second \in Nat /\ Second > 0 /\ Fast \in Nat /\ Large \in Nat /\ WideNum \in Nat
      /\ Rate!FullBucket \in Nat /\ Rate!WholeToken \in Nat
  BY RateAssumption, Largest DEF Rate!FullBucket, Rate!WholeToken
<1>1. /\ fcKind \in {"plain", "wide", "counter"} /\ wfCtl = [token |-> 0, time |-> 0]
      /\ fcNow = 0 /\ fcSince = 0 /\ fcTaken = 0 /\ fcLevel = 0
      /\ fcCtl = [freq |-> 0, buckSz |-> 0, token |-> 0, delta |-> 0, time |-> 0]
  BY DEF Rate!Init
<1>2. Control(fcCtl, fcNow)
  BY <1>0, <1>1 DEF Control
<1>3. Rate!ExactTokens
  BY <1>0, <1>1 DEF Rate!ExactTokens
<1>4. Within(fcCtl, fcSince, fcTaken)
  <2>1. (0 + 0) * Second + 0 = 0 /\ Fast * (0 - 0) = 0 /\ (Large + 1) * Second > 0
    <3>1. (Large + 1) * Second = Large * Second + Second /\ Large * Second >= 0
      BY <1>0
    <3> QED
      BY <3>1, <1>0
  <2> QED
    BY <2>1, <1>0, <1>1 DEF Within
<1>5. WideWithin(wfCtl, fcSince, fcTaken)
  <2>1. 0 * Rate!WholeToken = 0 /\ WideNum * (0 - 0) = 0
    BY <1>0
  <2> QED
    BY <2>1, <1>0, <1>1 DEF WideWithin
<1>6. wfCtl \in [token : 0 .. Rate!FullBucket, time : 0 .. fcNow]
  BY <1>0, <1>1
<1> QED
  BY <1>1, <1>2, <1>3, <1>4, <1>5, <1>6 DEF RateInv

\* What the invariant says of the rates.
LEMMA RateImplied == RateInv => Rate!ExactTokens /\ Rate!RateBounded /\ Rate!WideRateBounded
<1> SUFFICES ASSUME RateInv  PROVE Rate!RateBounded /\ Rate!WideRateBounded
  BY DEF RateInv
<1>0. Second \in Nat /\ Second > 0 /\ Fast \in Nat /\ Large \in Nat /\ WideNum \in Nat
      /\ Rate!FullBucket \in Nat /\ Rate!WholeToken \in Nat
  BY RateAssumption, Largest DEF Rate!FullBucket, Rate!WholeToken
<1>00. /\ fcNow \in Nat /\ fcSince \in 0 .. fcNow /\ fcTaken \in Nat
       /\ fcCtl.token \in Int /\ fcCtl.delta \in Nat /\ fcCtl.time \in 0 .. fcNow
       /\ wfCtl.token \in 0 .. Rate!FullBucket /\ wfCtl.time \in 0 .. fcNow
  BY DEF RateInv, Control
<1>1. ASSUME fcKind = "plain"  PROVE Rate!RateBounded
  <2> DEFINE m == Rate!Min({fcCtl.token, 0})
  <2>1. m \in Int /\ m <= 0 /\ m <= fcCtl.token /\ m \in {fcCtl.token, 0}
    <3>1. \E x \in {fcCtl.token, 0} : \A y \in {fcCtl.token, 0} : x <= y
      BY <1>00
    <3>2. m \in {fcCtl.token, 0} /\ \A y \in {fcCtl.token, 0} : m <= y
      BY <3>1 DEF Rate!Min
    <3> QED
      BY <3>2, <1>00
  <2> HIDE DEF m
  <2>2. (fcTaken + m) * Second <= (fcTaken + fcCtl.token) * Second
    BY <2>1, <1>0, <1>00, TimesMono
  <2>3. Fast * (fcCtl.time - fcSince) <= Fast * (fcNow - fcSince)
    <3>1. fcCtl.time - fcSince \in Int /\ fcNow - fcSince \in Int /\ fcCtl.time - fcSince <= fcNow - fcSince
      BY <1>00
    <3> QED
      BY <3>1, <1>0, TimesMono
  <2>4. (fcTaken + fcCtl.token) * Second + fcCtl.delta < (Large + 1) * Second + Fast * (fcCtl.time - fcSince)
    BY <1>1 DEF RateInv, Within
  <2>5. (fcTaken + m) * Second < (Large + 1) * Second + Fast * (fcNow - fcSince)
    <3>1. /\ (fcTaken + m) * Second \in Int /\ (fcTaken + fcCtl.token) * Second \in Int
          /\ (Large + 1) * Second \in Int /\ Fast * (fcNow - fcSince) \in Int
          /\ Fast * (fcCtl.time - fcSince) \in Int
      BY <2>1, <1>0, <1>00
    <3> QED
      BY <3>1, <2>2, <2>3, <2>4, <1>00
  <2> QED
    BY <2>5 DEF Rate!RateBounded, m, Fast, Large
<1>2. ASSUME fcKind = "wide"  PROVE Rate!WideRateBounded
  <2>1. fcTaken * Rate!WholeToken \in Nat /\ WideNum * (fcNow - fcSince) \in Nat
    BY <1>0, <1>00
  <2>2. WideNum * (wfCtl.time - fcSince) \in Int /\ WideNum * (wfCtl.time - fcSince) <= WideNum * (fcNow - fcSince)
    <3>1. wfCtl.time - fcSince \in Int /\ fcNow - fcSince \in Int /\ wfCtl.time - fcSince <= fcNow - fcSince
      BY <1>00
    <3> QED
      BY <3>1, <1>0, TimesMono
  <2>3. fcTaken * Rate!WholeToken + wfCtl.token <= Rate!FullBucket + WideNum * (wfCtl.time - fcSince)
    BY <1>2 DEF RateInv, WideWithin
  <2> QED
    BY <2>1, <2>2, <2>3, <1>0, <1>00 DEF Rate!WideRateBounded
<1> QED
  BY <1>1, <1>2 DEF Rate!RateBounded, Rate!WideRateBounded

\* Token buckets lose and make up no token, and let through no more than a bucket and
\* the tokens of the time.
THEOREM RatesKept == Rate!Spec => [](Rate!ExactTokens /\ Rate!RateBounded /\ Rate!WideRateBounded)
<1>1. Rate!Spec => []RateInv
  BY RateStart, RateStep, PTL DEF Rate!Spec
<1> QED
  BY <1>1, RateImplied, PTL

----------------------------------------------------------------------------
(* Events in a window (freq_counter.hh) *)

\* The instance counts as the library does.
LEMMA CardRate == \A S : Rate!Cardinality(S) = Cardinality(S)
  BY DEF Rate!Cardinality, Cardinality

\* Cells of the ring are remainders.
LEMMA CellOf ==
    /\ Rate!KSize \in Nat /\ Rate!KSize > 1 /\ Rate!KSize = KDuration + 1
    /\ \A n \in Int : n % Rate!KSize \in 0 .. Rate!KSize - 1
    /\ \A n \in 0 .. Rate!KSize - 1 : n % Rate!KSize = n
<1>1. KDuration \in Nat \ {0}
  BY WindowAssumption
<1>2. Rate!KSize \in Nat \ {0} /\ Rate!KSize > 1 /\ Rate!KSize = KDuration + 1
  BY <1>1 DEF Rate!KSize
<1> QED
  BY <1>2

\* Slots less than a turn apart have different cells.
LEMMA CellsApart ==
    ASSUME NEW a \in Nat, NEW b \in Nat, a < b, b < a + Rate!KSize
    PROVE  a % Rate!KSize # b % Rate!KSize
<1> DEFINE k == Rate!KSize  q == a \div k  p == b \div k  r == a % k  t == b % k
<1>1. k \in Nat \ {0}
  BY CellOf
<1>2. a = q * k + r /\ q \in Int /\ r \in 0 .. k - 1
  <2>1. \A n \in Int : n \div k \in Int /\ n % k \in 0 .. k - 1 /\ n = (n \div k) * k + (n % k)
    BY <1>1, QuotRem
  <2> QED
    BY <2>1
<1>3. b = p * k + t /\ p \in Int /\ t \in 0 .. k - 1
  <2>1. \A n \in Int : n \div k \in Int /\ n % k \in 0 .. k - 1 /\ n = (n \div k) * k + (n % k)
    BY <1>1, QuotRem
  <2> QED
    BY <2>1
<1> SUFFICES ASSUME r = t  PROVE FALSE
  OBVIOUS
<1> HIDE DEF k, q, p, r, t
<1>4. b - a = (p - q) * k
  BY <1>1, <1>2, <1>3
<1>5. b - a > 0 /\ b - a < k
  BY <1>1 DEF k
<1>6. CASE p - q >= 1
  <2>1. 1 * k <= (p - q) * k
    BY <1>1, <1>2, <1>3, <1>6, TimesMono
  <2> QED
    BY <2>1, <1>1, <1>4, <1>5
<1>7. CASE p - q <= 0
  <2>1. (p - q) * k <= 0 * k
    BY <1>1, <1>2, <1>3, <1>7, TimesMono
  <2> QED
    BY <2>1, <1>1, <1>4, <1>5
<1> QED
  BY <1>2, <1>3, <1>6, <1>7

\* Every cell is that of one of the last slots.
LEMMA CellTaken ==
    ASSUME NEW last \in Nat, NEW r \in 0 .. Rate!KSize - 1, last >= Rate!KSize
    PROVE  \E j \in last - KDuration .. last : j % Rate!KSize = r
<1> DEFINE k == Rate!KSize  m == (last - r) % k  q == (last - r) \div k  j == last - m
<1>1. k \in Nat \ {0} /\ k = KDuration + 1
  BY CellOf
<1>2. m \in 0 .. k - 1 /\ q \in Int /\ last - r = q * k + m
  <2>1. \A n \in Int : n \div k \in Int /\ n % k \in 0 .. k - 1 /\ n = (n \div k) * k + (n % k)
    BY <1>1, QuotRem
  <2> QED
    BY <2>1
<1>4. r % k = r
  BY CellOf
<1> HIDE DEF k, m, q
<1>3. \A a \in Int : (a * k + r) % k = r % k
  <2>1. \A a, d \in Int : (a * k + d) % k = d % k
    BY <1>1, QuotShift
  <2>2. r \in Int
    BY <1>1 DEF k
  <2> QED
    BY <2>1, <2>2
<1>5. j = q * k + r
  <2>1. q * k \in Int
    BY <1>1, <1>2
  <2> QED
    BY <2>1, <1>1, <1>2
<1>6. j % k = r
  BY <1>2, <1>3, <1>4, <1>5
<1>7. j \in last - KDuration .. last
  <2>1. KDuration \in Nat /\ m \in Int /\ 0 <= m /\ m <= KDuration
    BY <1>1, <1>2, WindowAssumption
  <2> QED
    BY <2>1
<1> QED
  BY <1>6, <1>7 DEF k

\* Slots are numbered in the order of time.
LEMMA IdxMono ==
    ASSUME NEW a \in Nat, NEW b \in Nat, a <= b
    PROVE  Rate!Idx(a) \in Nat /\ Rate!Idx(b) \in Nat /\ Rate!Idx(a) <= Rate!Idx(b)
<1> DEFINE g == KGranularity  q == a \div g  p == b \div g  r == a % g  t == b % g
<1>1. g \in Nat \ {0}
  BY WindowAssumption
<1>2. \A n \in Int : n \div g \in Int /\ n % g \in 0 .. g - 1 /\ n = (n \div g) * g + (n % g)
  BY <1>1, QuotRem
<1>3. a = q * g + r /\ q \in Int /\ r \in 0 .. g - 1 /\ b = p * g + t /\ p \in Int /\ t \in 0 .. g - 1
  BY <1>2
<1> HIDE DEF g, q, p, r, t
<1>4. q <= p
  <2> SUFFICES ASSUME p + 1 <= q  PROVE FALSE
    BY <1>3
  <2>1. (p + 1) * g <= q * g
    BY <1>1, <1>3, TimesMono
  <2>2. (p + 1) * g = p * g + g /\ p * g \in Int /\ q * g \in Int
    BY <1>1, <1>3
  <2> QED
    BY <2>1, <2>2, <1>1, <1>3
<1>5. q >= 0
  <2> SUFFICES ASSUME q + 1 <= 0  PROVE FALSE
    BY <1>3
  <2>1. (q + 1) * g <= 0 * g
    BY <1>1, <1>3, TimesMono
  <2>2. (q + 1) * g = q * g + g /\ q * g \in Int /\ 0 * g = 0
    BY <1>1, <1>3
  <2> QED
    BY <2>1, <2>2, <1>1, <1>3
<1> QED
  BY <1>3, <1>4, <1>5 DEF Rate!Idx, g, q, p

\* The ring holds the events of the last KSize slots, the present one included.
Window(c, told) ==
    /\ c \in [last : Nat, lasti : Rate!Slots, cnt : [0 .. Rate!KSize - 1 -> 0 .. MaxCount]]
    /\ c.lasti = Rate!Idx(c.last)
    /\ \A j \in Rate!Slots : j > c.lasti => told[j] = 0
    /\ \A j \in Rate!Slots : j <= c.lasti /\ j + Rate!KSize > c.lasti => c.cnt[j % Rate!KSize] = told[j]

\* The inductive invariant.
WindowInv ==
    /\ fcKind \in {"plain", "wide", "counter"} /\ fcNow \in Nat
    /\ fcKind = "counter" => fcNow <= FnMaxTime
    /\ fnTold \in [Rate!Slots -> 0 .. MaxCount]
    /\ Window(fnCtr, fnTold) /\ fnCtr.last <= fcNow

\* Slots are numbers.
LEMMA SlotsAre == \A j \in Rate!Slots : j \in Nat
<1>1. Rate!Idx(FnMaxTime) \in Nat
  BY IdxMono, WindowAssumption
<1> QED
  BY <1>1 DEF Rate!Slots

\* update wipes the slots that have passed and no other one.
LEMMA UpdateKeepsWindow ==
    ASSUME WindowInv, fcKind = "counter"
    PROVE  LET c == Rate!Updated(fnCtr)
           IN  /\ Window(c, fnTold) /\ c.last <= fcNow /\ c.lasti = Rate!Idx(fcNow)
               /\ Rate!Idx(fcNow) \in Rate!Slots
<1> DEFINE k == Rate!KSize  e == Rate!Idx(fcNow)  lasti == fnCtr.lasti
           wiped == IF e < lasti + k THEN {i % k : i \in lasti + 1 .. e} ELSE 0 .. k - 1
           cnt == [i \in 0 .. k - 1 |-> IF i \in wiped THEN 0 ELSE fnCtr.cnt[i]]
           c == Rate!Updated(fnCtr)
<1>1. /\ k \in Nat /\ k > 1 /\ \A n \in Int : n % k \in 0 .. k - 1
  BY CellOf
<1>2. /\ fnCtr.last \in Nat /\ lasti \in Nat /\ lasti \in Rate!Slots /\ fnCtr.cnt \in [0 .. k - 1 -> 0 .. MaxCount]
      /\ fcNow \in Nat /\ fcNow <= FnMaxTime /\ fnCtr.last <= fcNow /\ lasti = Rate!Idx(fnCtr.last)
  BY SlotsAre DEF WindowInv, Window
<1>3. e \in Nat /\ lasti <= e /\ e \in Rate!Slots
  <2>1. e \in Nat /\ lasti <= e
    BY <1>2, IdxMono
  <2>2. e <= Rate!Idx(FnMaxTime) /\ Rate!Idx(FnMaxTime) \in Nat
    BY <1>2, IdxMono, WindowAssumption
  <2> QED
    BY <2>1, <2>2 DEF Rate!Slots
<1>4. CASE fcNow <= fnCtr.last
  <2>1. c = fnCtr /\ fcNow = fnCtr.last
    BY <1>2, <1>4 DEF Rate!Updated
  <2> QED
    BY <2>1, <1>2, <1>3 DEF WindowInv
<1>5. CASE ~(fcNow <= fnCtr.last)
  <2>1. c = [last |-> fcNow, lasti |-> e, cnt |-> cnt]
    BY <1>5 DEF Rate!Updated
  <2>2. cnt \in [0 .. k - 1 -> 0 .. MaxCount]
    <3>1. 0 \in 0 .. MaxCount
      BY WindowAssumption
    <3> HIDE DEF wiped, k
    <3> QED
      BY <3>1, <1>2
  <2>3. \A j \in Rate!Slots : j > lasti => fnTold[j] = 0
    BY DEF WindowInv, Window
  <2> DEFINE Cell(n) == n % k
  <2>4. ASSUME NEW j \in Rate!Slots, j <= e, j + k > e  PROVE cnt[Cell(j)] = fnTold[j]
    <3>1. \A i \in Rate!Slots : i <= lasti /\ i + k > lasti => fnCtr.cnt[Cell(i)] = fnTold[i]
      BY DEF WindowInv, Window
    <3>2. \A n \in Int : Cell(n) \in 0 .. k - 1
      BY <1>1
    <3>3. \A a, b \in Nat : a < b /\ b < a + k => Cell(a) # Cell(b)
      BY CellsApart
    <3>4. wiped = IF e < lasti + k THEN {Cell(i) : i \in lasti + 1 .. e} ELSE 0 .. k - 1
      OBVIOUS
    <3>5. \A i \in 0 .. k - 1 : cnt[i] = IF i \in wiped THEN 0 ELSE fnCtr.cnt[i]
      OBVIOUS
    <3>6. k \in Nat /\ e \in Nat /\ lasti \in Nat /\ lasti <= e /\ j \in Nat
      BY <1>1, <1>2, <1>3, SlotsAre
    <3> HIDE DEF e, lasti, k, wiped, cnt, c, Cell
    <3>7. Cell(j) \in 0 .. k - 1
      BY <3>2, <3>6
    <3>8. CASE j > lasti
      <4>1. Cell(j) \in wiped
        BY <3>4, <3>6, <3>7, <3>8, <2>4
      <4> QED
        BY <4>1, <3>5, <3>7, <3>8, <2>3
    <3>9. CASE ~(j > lasti)
      <4>1. j <= lasti /\ j + k > lasti /\ e < lasti + k
        BY <3>6, <3>9, <2>4
      <4>2. ASSUME NEW i \in lasti + 1 .. e  PROVE Cell(i) # Cell(j)
        <5>1. i \in Nat /\ j < i /\ i < j + k
          BY <3>6, <3>9, <2>4
        <5> QED
          BY <5>1, <3>6, <3>3
      <4>3. Cell(j) \notin wiped
        BY <4>1, <4>2, <3>4
      <4> QED
        BY <4>1, <4>3, <3>1, <3>5, <3>7
    <3> QED
      BY <3>8, <3>9
  <2>5. \A j \in Rate!Slots : j > e => fnTold[j] = 0
    <3>1. e \in Nat /\ lasti \in Nat /\ lasti <= e
      BY <1>2, <1>3
    <3> HIDE DEF e, lasti
    <3> QED
      BY <3>1, <2>3, SlotsAre
  <2> HIDE DEF e, lasti, k
  <2> HIDE DEF cnt, c
  <2>6. c.last = fcNow /\ c.lasti = e /\ c.cnt = cnt
        /\ c \in [last : Nat, lasti : Rate!Slots, cnt : [0 .. k - 1 -> 0 .. MaxCount]]
    BY <2>1, <2>2, <1>2, <1>3
  <2>7. Window(c, fnTold)
    BY <2>4, <2>5, <2>6 DEF Window, e, k, Cell
  <2>8. c.last <= fcNow
    BY <2>6, <1>2
  <2> QED
    BY <2>6, <2>7, <2>8, <1>3 DEF e, c
<1> QED
  BY <1>4, <1>5

\* An event is counted in its slot and in its cell.
LEMMA OccurKeepsWindow ==
    ASSUME WindowInv, Rate!Occur
    PROVE  WindowInv'
<1> DEFINE k == Rate!KSize  e == Rate!Idx(fcNow)  c == Rate!Updated(fnCtr)
           d == [c EXCEPT !.cnt[c.lasti % k] = c.cnt[c.lasti % k] + 1]
<1>1. /\ fcKind = "counter" /\ UNCHANGED <<fcKind, fcNow>> /\ fnTold[e] < MaxCount
      /\ fnCtr' = d /\ fnTold' = [fnTold EXCEPT ![e] = fnTold[e] + 1]
  BY DEF Rate!Occur, Rate!Counter
<1>2. Window(c, fnTold) /\ c.last <= fcNow /\ c.lasti = e /\ e \in Rate!Slots
  BY <1>1, UpdateKeepsWindow
<1>3. k \in Nat /\ k > 1 /\ \A n \in Int : n % k \in 0 .. k - 1
  BY CellOf
<1>4. fnTold \in [Rate!Slots -> 0 .. MaxCount] /\ MaxCount \in Nat
  BY WindowAssumption DEF WindowInv
<1> HIDE DEF c, e, k
<1>5. /\ c \in [last : Nat, lasti : Rate!Slots, cnt : [0 .. k - 1 -> 0 .. MaxCount]] /\ c.lasti = Rate!Idx(c.last)
      /\ \A j \in Rate!Slots : j > e => fnTold[j] = 0
      /\ \A j \in Rate!Slots : j <= e /\ j + k > e => c.cnt[j % k] = fnTold[j]
  BY <1>2 DEF Window, k
<1>6. e \in Nat /\ e % k \in 0 .. k - 1 /\ c.cnt[e % k] = fnTold[e]
  <2>1. e \in Nat
    BY <1>2, SlotsAre
  <2>2. e <= e /\ e + k > e
    BY <2>1, <1>3
  <2>3. e % k \in 0 .. k - 1
    BY <2>1, <1>3
  <2>4. c.cnt[e % k] = fnTold[e]
    BY <2>2, <1>2, <1>5
  <2> QED
    BY <2>1, <2>3, <2>4
<1> DEFINE cnt == [c.cnt EXCEPT ![e % k] = c.cnt[e % k] + 1]
<1>7. cnt \in [0 .. k - 1 -> 0 .. MaxCount]
  <2>1. fnTold[e] + 1 \in 0 .. MaxCount
    BY <1>1, <1>2, <1>4
  <2> QED
    BY <2>1, <1>5, <1>6
<1>8. d.cnt = cnt /\ d.last = c.last /\ d.lasti = e
      /\ d \in [last : Nat, lasti : Rate!Slots, cnt : [0 .. k - 1 -> 0 .. MaxCount]]
  <2>1. d = [c EXCEPT !.cnt = cnt]
    BY <1>2
  <2> HIDE DEF cnt, d
  <2> QED
    BY <2>1, <1>2, <1>5, <1>7
<1> HIDE DEF d
<1>9. fnTold' \in [Rate!Slots -> 0 .. MaxCount] /\ \A j \in Rate!Slots : fnTold'[j] = IF j = e THEN fnTold[e] + 1 ELSE fnTold[j]
  <2>1. fnTold[e] + 1 \in 0 .. MaxCount
    BY <1>1, <1>2, <1>4
  <2> QED
    BY <2>1, <1>1, <1>2, <1>4
<1>10. \A j \in Rate!Slots : j > e => fnTold'[j] = 0
  BY <1>5, <1>6, <1>9, SlotsAre
<1>11. ASSUME NEW j \in Rate!Slots, j <= e, j + k > e  PROVE cnt[j % k] = fnTold'[j]
  <2>1. j \in Nat /\ j % k \in 0 .. k - 1
    BY <1>3, SlotsAre
  <2>2. CASE j = e
    BY <2>2, <1>5, <1>6, <1>9
  <2>3. CASE j # e
    <3>1. j < e /\ e < j + k
      BY <2>1, <2>3, <1>3, <1>6, <1>11
    <3>2. j % k # e % k
      BY <3>1, <2>1, <1>6, CellsApart DEF k
    <3> QED
      BY <3>2, <2>1, <2>3, <1>5, <1>6, <1>9, <1>11
  <2> QED
    BY <2>2, <2>3
<1>12. Window(d, fnTold')
  BY <1>2, <1>5, <1>8, <1>10, <1>11 DEF Window, k
<1>13. Window(fnCtr, fnTold)'
  BY <1>12, <1>1 DEF Window, Rate!KSize, Rate!Slots, Rate!Idx
<1>14. fnCtr'.last <= fcNow
  BY <1>1, <1>2, <1>8
<1> QED
  BY <1>1, <1>9, <1>13, <1>14 DEF WindowInv, Rate!KSize, Rate!Slots, Rate!Idx

\* Every step keeps it.
LEMMA WindowStep ==
    ASSUME WindowInv, [Rate!Next]_Rate!fcVars
    PROVE  WindowInv'
<1>1. ASSUME UNCHANGED <<fcKind, fcNow, fnCtr, fnTold>>  PROVE WindowInv'
  BY <1>1 DEF WindowInv, Window, Rate!KSize, Rate!Slots, Rate!Idx
<1>2. ASSUME Rate!Tick  PROVE WindowInv'
  <2>1. /\ fcNow' = fcNow + 1 /\ UNCHANGED <<fcKind, fnCtr, fnTold>>
        /\ fcKind = "counter" => fcNow < FnMaxTime
    BY <1>2 DEF Rate!Tick, Rate!fnVars, WindowInv
  <2>2. fcNow \in Nat /\ fnCtr.last \in Nat /\ fnCtr.last <= fcNow /\ FnMaxTime \in Nat
    BY WindowAssumption DEF WindowInv, Window
  <2>3. fcNow' \in Nat /\ (fcKind = "counter" => fcNow' <= FnMaxTime) /\ fnCtr.last <= fcNow'
    BY <2>1, <2>2
  <2> QED
    BY <2>1, <2>3 DEF WindowInv, Window, Rate!KSize, Rate!Slots, Rate!Idx
<1>3. ASSUME Rate!Frequency  PROVE WindowInv'
  <2>1. fcKind = "counter" /\ UNCHANGED <<fcKind, fcNow, fnTold>> /\ fnCtr' = Rate!Updated(fnCtr)
    BY <1>3 DEF Rate!Frequency, Rate!Counter
  <2>2. Window(fnCtr', fnTold) /\ fnCtr'.last <= fcNow
    BY <2>1, UpdateKeepsWindow
  <2> QED
    BY <2>1, <2>2 DEF WindowInv, Window, Rate!KSize, Rate!Slots, Rate!Idx
<1>4. ASSUME Rate!Watch \/ Rate!InitWide \/ Rate!GetWide  PROVE WindowInv'
  BY <1>1, <1>4 DEF Rate!Watch, Rate!InitWide, Rate!GetWide, Rate!Wide, Rate!fnVars
<1>5. ASSUME NEW f, NEW b, Rate!InitControl(f, b)  PROVE WindowInv'
  BY <1>1, <1>5 DEF Rate!InitControl, Rate!Plain, Rate!fnVars
<1>6. ASSUME NEW n, Rate!Generate(n)  PROVE WindowInv'
  BY <1>1, <1>6 DEF Rate!Generate, Rate!Plain, Rate!fnVars
<1>7. ASSUME NEW n, Rate!Get(n) \/ Rate!Overdraw(n)  PROVE WindowInv'
  BY <1>1, <1>7 DEF Rate!Get, Rate!Overdraw, Rate!Take, Rate!Plain, Rate!fnVars
<1>8. CASE UNCHANGED Rate!fcVars
  BY <1>1, <1>8 DEF Rate!fcVars, Rate!fnVars
<1> QED
  BY <1>2, <1>3, <1>4, <1>5, <1>6, <1>7, <1>8, OccurKeepsWindow DEF Rate!Next

\* It holds at the start.
LEMMA WindowStart == Rate!Init => WindowInv
<1> SUFFICES ASSUME Rate!Init  PROVE WindowInv
  OBVIOUS
<1>1. /\ fcKind \in {"plain", "wide", "counter"} /\ fcNow = 0
      /\ fnCtr = [last |-> 0, lasti |-> 0, cnt |-> [i \in 0 .. Rate!KSize - 1 |-> 0]]
      /\ fnTold = [i \in Rate!Slots |-> 0]
  BY DEF Rate!Init
<1>2. Rate!Idx(0) = 0 /\ 0 \in Rate!Slots
  <2>1. Rate!Idx(0) = 0
    BY WindowAssumption DEF Rate!Idx
  <2>2. Rate!Idx(FnMaxTime) \in Nat
    BY IdxMono, WindowAssumption
  <2> QED
    BY <2>1, <2>2 DEF Rate!Slots
<1>3. MaxCount \in Nat /\ FnMaxTime \in Nat
  BY WindowAssumption
<1>4. \A j \in Rate!Slots : fnCtr.cnt[j % Rate!KSize] = fnTold[j] /\ fnTold[j] = 0
  <2>1. \A j \in Rate!Slots : j % Rate!KSize \in 0 .. Rate!KSize - 1
    BY SlotsAre, CellOf
  <2> QED
    BY <2>1, <1>1
<1>5. Window(fnCtr, fnTold)
  <2>1. fnCtr.last = 0 /\ fnCtr.lasti = 0
    BY <1>1
  <2>2. fnCtr \in [last : Nat, lasti : Rate!Slots, cnt : [0 .. Rate!KSize - 1 -> 0 .. MaxCount]]
    BY <1>1, <1>2, <1>3
  <2> QED
    BY <2>1, <2>2, <1>2, <1>4 DEF Window
<1> QED
  BY <1>1, <1>3, <1>5 DEF WindowInv

\* What counters sum to, when they agree slot by slot, is the same.
LEMMA SumMoved ==
    ASSUME NEW S, NEW T, IsFiniteSet(S), NEW f, NEW g, NEW m \in [S -> T],
           \A x, y \in S : m[x] = m[y] => x = y, \A y \in T : \E x \in S : m[x] = y,
           \A x \in S : g[m[x]] = f[x]
    PROVE  Rate!Sum(g, T) = Rate!Sum(f, S)
<1> DEFINE A == {e \in S \X (1 .. MaxCount) : e[2] <= f[e[1]]}
           B == {e \in T \X (1 .. MaxCount) : e[2] <= g[e[1]]}
           h == [e \in A |-> <<m[e[1]], e[2]>>]
<1>1. \A e \in A : <<m[e[1]], e[2]>> \in B
  OBVIOUS
<1>2. \A d, e \in A : <<m[d[1]], d[2]>> = <<m[e[1]], e[2]>> => d = e
  OBVIOUS
<1>3. ASSUME NEW b \in B  PROVE \E e \in A : <<m[e[1]], e[2]>> = b
  <2>1. b[1] \in T /\ b[2] \in 1 .. MaxCount /\ b[2] <= g[b[1]] /\ b = <<b[1], b[2]>>
    OBVIOUS
  <2>2. PICK x \in S : m[x] = b[1]
    BY <2>1
  <2>3. <<x, b[2]>> \in A
    BY <2>1, <2>2
  <2> QED
    BY <2>1, <2>2, <2>3
<1>4. IsFiniteSet(A)
  <2>1. IsFiniteSet(1 .. MaxCount)
    BY FS_Interval, WindowAssumption
  <2>2. IsFiniteSet(S \X (1 .. MaxCount))
    BY <2>1, FS_Product
  <2>3. A \subseteq S \X (1 .. MaxCount)
    OBVIOUS
  <2> QED
    BY <2>2, <2>3, FS_Subset
<1>5. Rate!Sum(f, S) = Cardinality(A) /\ Rate!Sum(g, T) = Cardinality(B)
  BY CardRate DEF Rate!Sum
<1> HIDE DEF A, B
<1>6. h \in Bijection(A, B)
  <2>1. h \in [A -> B]
    BY <1>1
  <2>2. \A d, e \in A : h[d] = h[e] => d = e
    BY <1>2
  <2>3. \A b \in B : \E e \in A : h[e] = b
    BY <1>3
  <2> HIDE DEF h
  <2> QED
    BY <2>1, <2>2, <2>3 DEF Bijection, Injection, Surjection, IsInjective
<1>7. ExistsBijection(A, B)
  BY <1>6 DEF ExistsBijection
<1> QED
  BY <1>4, <1>5, <1>7, FS_Bijection

\* What the invariant says of the answer.
LEMMA WindowImplied == WindowInv => Rate!CountsWindow
<1> SUFFICES ASSUME WindowInv, fnCtr.lasti >= 2
             PROVE  Rate!SumTo(fnCtr)[1] = Rate!Sum(fnTold, Rate!Max({1, fnCtr.lasti - KDuration}) .. fnCtr.lasti - 1)
  BY DEF Rate!CountsWindow
<1> DEFINE k == Rate!KSize  last == fnCtr.lasti  cnt == fnCtr.cnt
<1>1. k \in Nat /\ k > 1 /\ k = KDuration + 1 /\ \A n \in 0 .. k - 1 : n % k = n
  BY CellOf
<1>2. last \in Nat /\ KDuration \in Nat
  BY SlotsAre, WindowAssumption DEF WindowInv, Window
<1>3. \A j \in 1 .. last : j + k > last => cnt[j % k] = fnTold[j]
  <2>1. last \in Rate!Slots
    BY DEF WindowInv, Window
  <2>2. \A j \in 1 .. last : j \in Rate!Slots
    <3>1. Rate!Idx(FnMaxTime) \in Nat
      BY IdxMono, WindowAssumption
    <3> QED
      BY <3>1, <2>1, <1>2 DEF Rate!Slots
  <2> QED
    BY <2>2 DEF WindowInv, Window
<1>4. \A a, b \in Int : Rate!Max({a, b}) = IF a >= b THEN a ELSE b
  <2> SUFFICES ASSUME NEW a \in Int, NEW b \in Int  PROVE Rate!Max({a, b}) = IF a >= b THEN a ELSE b
    OBVIOUS
  <2> DEFINE m == Rate!Max({a, b})
  <2>1. \E x \in {a, b} : \A y \in {a, b} : x >= y
    OBVIOUS
  <2>2. m \in {a, b} /\ \A y \in {a, b} : m >= y
    BY <2>1 DEF Rate!Max
  <2> QED
    BY <2>2
<1>5. CASE last < k
  <2> DEFINE S == 1 .. last - 1
  <2>1. Rate!Max({1, last - KDuration}) = 1
    BY <1>1, <1>2, <1>4, <1>5
  <2>2. Rate!SumTo(fnCtr)[1] = Rate!Sum(cnt, S)
    BY <1>1, <1>2, <1>5 DEF Rate!SumTo
  <2>3. \A x \in S : cnt[x] = fnTold[x]
    <3>1. \A x \in S : x \in 1 .. last /\ x + k > last /\ x % k = x
      BY <1>1, <1>2, <1>5
    <3> QED
      BY <3>1, <1>3
  <2>4. IsFiniteSet(S)
    BY <1>2, FS_Interval
  <2> HIDE DEF S
  <2>5. Rate!Sum(cnt, S) = Rate!Sum(fnTold, S)
    <3> DEFINE m == [x \in S |-> x]
    <3>1. /\ m \in [S -> S] /\ \A x \in S : m[x] = x
      OBVIOUS
    <3> HIDE DEF m
    <3>2. /\ \A x, y \in S : m[x] = m[y] => x = y
          /\ \A y \in S : \E x \in S : m[x] = y
          /\ \A x \in S : cnt[m[x]] = fnTold[x]
      BY <3>1, <2>3
    <3> HIDE DEF cnt
    <3> QED
      BY <3>1, <3>2, <2>4, SumMoved
  <2> QED
    BY <2>1, <2>2, <2>5 DEF S
<1>6. CASE ~(last < k)
  <2> DEFINE S == last - KDuration .. last - 1  T == (0 .. k - 1) \ {last % k}  m == [j \in S |-> j % k]
  <2>1. Rate!Max({1, last - KDuration}) = last - KDuration
    BY <1>1, <1>2, <1>4, <1>6
  <2>2. Rate!SumTo(fnCtr)[1] = Rate!Sum(cnt, T)
    <3>1. ~(last < 2) /\ ~(last >= 2 /\ last < k)
      BY <1>2, <1>6
    <3>2. Rate!SumTo(fnCtr) = <<Rate!Sum(cnt, T), k - 1>>
      BY <3>1 DEF Rate!SumTo
    <3> QED
      BY <3>2
  <2>3. IsFiniteSet(S)
    BY <1>2, FS_Interval
  <2>4. \A x \in S : x \in Nat /\ x \in 1 .. last /\ x + k > last /\ x < last /\ x % k \in 0 .. k - 1
    BY <1>1, <1>2, <1>6, CellOf
  <2>5. \A x \in S : x % k \in T
    <3>1. \A x \in S : x % k # last % k
      <4>1. \A x \in S : last < x + k
        BY <2>4, <1>1, <1>2
      <4> HIDE DEF S
      <4> QED
        BY <4>1, <2>4, <1>2, CellsApart
    <3> QED
      BY <2>4, <3>1
  <2>6. \A x, y \in S : x % k = y % k => x = y
    <3>1. \A x, y \in S : x < y => y < x + k
      BY <1>1, <1>2, <1>6
    <3>2. \A x, y \in S : x < y => x % k # y % k
      <4> HIDE DEF S
      <4> QED
        BY <3>1, <2>4, CellsApart
    <3> QED
      BY <3>2, <2>4
  <2>7. \A y \in T : \E x \in S : x % k = y
    <3> SUFFICES ASSUME NEW y \in T  PROVE \E x \in S : x % k = y
      OBVIOUS
    <3>1. y \in 0 .. k - 1 /\ y # last % k
      OBVIOUS
    <3>2. PICK x \in last - KDuration .. last : x % k = y
      <4>1. \A n \in Nat, r \in 0 .. k - 1 : n >= k => \E x \in n - KDuration .. n : x % k = r
        BY CellTaken
      <4>2. last >= k
        BY <1>1, <1>2, <1>6
      <4> HIDE DEF last, k
      <4> QED
        BY <4>1, <4>2, <3>1, <1>2
    <3>3. x \in S
      BY <3>1, <3>2, <1>2
    <3> QED
      BY <3>2, <3>3
  <2>8. \A x \in S : cnt[x % k] = fnTold[x]
    BY <2>4, <1>3
  <2> HIDE DEF S, T, cnt
  <2>9. Rate!Sum(cnt, T) = Rate!Sum(fnTold, S)
    <3>1. m \in [S -> T] /\ \A x \in S : m[x] = x % k
      BY <2>5
    <3> HIDE DEF m
    <3>2. /\ \A x, y \in S : m[x] = m[y] => x = y
          /\ \A y \in T : \E x \in S : m[x] = y
          /\ \A x \in S : cnt[m[x]] = fnTold[x]
      BY <3>1, <2>6, <2>7, <2>8
    <3> QED
      BY <3>1, <3>2, <2>3, SumMoved
  <2> QED
    BY <2>1, <2>2, <2>9 DEF S
<1> QED
  BY <1>5, <1>6

\* Whatever pauses there were and however often the ring has gone round, the answer is
\* what happened in the window.
THEOREM WindowKept == Rate!Spec => []Rate!CountsWindow
<1>1. Rate!Spec => []WindowInv
  BY WindowStart, WindowStep, PTL DEF Rate!Spec
<1> QED
  BY <1>1, WindowImplied, PTL

----------------------------------------------------------------------------
(* The smallest values (heap.hh) *)

\* A sequence is a function on its places.
LEMMA SeqIsFunction ==
    ASSUME NEW T, NEW s \in Seq(T)
    PROVE  Len(s) \in Nat /\ DOMAIN s = 1 .. Len(s) /\ s \in [1 .. Len(s) -> T]
OBVIOUS

\* So it is with one element changed.
LEMMA ChangedSeq ==
    ASSUME NEW T, NEW s \in Seq(T), NEW i, NEW x \in T
    PROVE  [s EXCEPT ![i] = x] \in Seq(T)
<1>1. Len(s) \in Nat /\ s \in [1 .. Len(s) -> T]
  OBVIOUS
<1>2. [s EXCEPT ![i] = x] \in [1 .. Len(s) -> T]
  BY <1>1
<1> QED
  BY <1>1, <1>2

\* No element of a heap is above the top.
LEMMA TopIsLargest ==
    ASSUME NEW s \in Seq(Int), Heap!IsHeap(s)
    PROVE  \A i \in 1 .. Len(s) : s[i] <= s[1]
<1> DEFINE B == {i \in 1 .. Len(s) : ~(s[i] <= s[1])}
<1> SUFFICES ASSUME B # {}  PROVE FALSE
  OBVIOUS
<1>1. B \subseteq Nat
  OBVIOUS
<1>2. PICK m \in B : \A y \in B : ~(y < m)
  <2> HIDE DEF B
  <2>1. PICK x \in B : \A y \in B : <<y, x>> \notin OpToRel(<, Nat)
    BY <1>1, NatLessThanWellFounded, WFMin, Zenon
  <2>2. \A y \in B : ~(y < x)
    BY <1>1, <2>1, Zenon DEF OpToRel
  <2> QED
    BY <2>2
<1>3. Len(s) \in Nat /\ \A i \in 1 .. Len(s) : s[i] \in Int
  BY SeqIsFunction
<1>4. m \in 2 .. Len(s) /\ ~(s[m] <= s[1])
  <2>1. m \in 1 .. Len(s) /\ ~(s[m] <= s[1])
    OBVIOUS
  <2>2. m # 1
    BY <2>1, <1>3
  <2> QED
    BY <2>1, <2>2, <1>3
<1>5. m \div 2 \in 1 .. Len(s) /\ m \div 2 < m
  BY <1>3, <1>4
<1>6. s[m \div 2] <= s[1]
  <2>1. m \div 2 \notin B
    BY <1>2, <1>5
  <2> QED
    BY <2>1, <1>5
<1>7. s[m] <= s[m \div 2]
  BY <1>4 DEF Heap!IsHeap
<1>8. 1 \in 1 .. Len(s) /\ m \in 1 .. Len(s)
  BY <1>3, <1>4
<1> QED
  BY <1>3, <1>4, <1>5, <1>6, <1>7, <1>8

\* No value is there twice.
Once(s) == \A i, j \in 1 .. Len(s) : s[i] = s[j] => i = j

\* make_heap moves the elements and changes none.
LEMMA HeapsPermute ==
    ASSUME NEW T, NEW s \in Seq(T), NEW t \in Heap!Heaps(s)
    PROVE  /\ t \in Seq(T) /\ Len(t) = Len(s) /\ Heap!IsHeap(t)
           /\ \A i \in 1 .. Len(t) : \E j \in 1 .. Len(s) : t[i] = s[j]
           /\ Once(s) => Once(t)
<1> DEFINE n == Len(s)
<1>1. n \in Nat /\ DOMAIN s = 1 .. n /\ \A i \in 1 .. n : s[i] \in T
  BY SeqIsFunction
<1>2. PICK p \in Heap!Bijection(1 .. n, 1 .. n) : t = [i \in 1 .. n |-> s[p[i]]] /\ Heap!IsHeap(t)
  BY <1>1 DEF Heap!Heaps
<1>3. p \in [1 .. n -> 1 .. n] /\ \A i, j \in 1 .. n : p[i] = p[j] => i = j
  BY <1>2 DEF Heap!Bijection, Heap!Injection, Heap!IsInjective
<1>4. t \in Seq(T) /\ Len(t) = n /\ \A i \in 1 .. n : t[i] = s[p[i]]
  <2>1. t \in [1 .. n -> T]
    BY <1>1, <1>2, <1>3
  <2> QED
    BY <2>1, <1>1, <1>2
<1> HIDE DEF n
<1>5. Once(s) => Once(t)
  BY <1>3, <1>4 DEF Once, n
<1>6. \A i \in 1 .. n : p[i] \in 1 .. n /\ t[i] = s[p[i]]
  BY <1>3, <1>4
<1> QED
  BY <1>2, <1>4, <1>5, <1>6 DEF n

\* The inductive invariant: what was dropped is above all that is kept, and nothing is
\* dropped while there is room.
HeapInv ==
    /\ fhCont \in Seq(Int) /\ fhMax \in Nat /\ fhDropped \subseteq Int
    /\ Heap!IsHeap(fhCont)
    /\ \A d \in fhDropped, i \in 1 .. Len(fhCont) : fhCont[i] <= d
    /\ fhDropped # {} => fhMax > 0 /\ fhMax <= Len(fhCont)
    /\ fhUnique => Once(fhCont)

\* What a push comes to: the elements of Pushed in an order that is a heap.
LEMMA PushPermutes ==
    ASSUME HeapInv, NEW v \in Int, Heap!PushValue(v)
    PROVE  LET q == Heap!Pushed(fhCont, v)
           IN  /\ q \in Seq(Int) /\ fhCont' \in Seq(Int) /\ Len(fhCont') = Len(q) /\ Heap!IsHeap(fhCont')
               /\ \A i \in 1 .. Len(fhCont') : \E j \in 1 .. Len(q) : fhCont'[i] = q[j]
               /\ Once(q) => Once(fhCont')
<1> DEFINE q == Heap!Pushed(fhCont, v)
<1>1. fhCont \in Seq(Int) /\ Heap!IsHeap(fhCont)
  BY DEF HeapInv
<1>2. q \in Seq(Int)
  <2>1. Append(fhCont, v) \in Seq(Int)
    BY <1>1
  <2>2. [fhCont EXCEPT ![1] = v] \in Seq(Int)
    BY <1>1, ChangedSeq
  <2> QED
    BY <2>1, <2>2, <1>1 DEF Heap!Pushed
<1>3. IF q = fhCont THEN fhCont' = fhCont ELSE fhCont' \in Heap!Heaps(q)
  BY DEF Heap!PushValue
<1> HIDE DEF q
<1> DEFINE t == fhCont'
<1> HIDE DEF t
<1>4. /\ t \in Seq(Int) /\ Len(t) = Len(q) /\ Heap!IsHeap(t)
      /\ \A i \in 1 .. Len(t) : \E j \in 1 .. Len(q) : t[i] = q[j]
      /\ Once(q) => Once(t)
  <2>1. CASE q = fhCont
    <3>1. t = q /\ Heap!IsHeap(q)
      BY <1>1, <1>3, <2>1 DEF t
    <3> QED
      BY <3>1, <1>2
  <2>2. CASE q # fhCont
    <3>1. t \in Heap!Heaps(q)
      BY <1>3, <2>2 DEF t
    <3> QED
      BY <3>1, <1>2, HeapsPermute
  <2> QED
    BY <2>1, <2>2
<1> QED
  BY <1>2, <1>4 DEF t, q

\* The larger of two numbers.
LEMMA HeapMax == \A a, b \in Int : Heap!Max({a, b}) = IF a >= b THEN a ELSE b
<1> SUFFICES ASSUME NEW a \in Int, NEW b \in Int  PROVE Heap!Max({a, b}) = IF a >= b THEN a ELSE b
  OBVIOUS
<1> DEFINE m == Heap!Max({a, b})
<1>1. \E x \in {a, b} : \A y \in {a, b} : x >= y
  OBVIOUS
<1>2. m \in {a, b} /\ \A y \in {a, b} : m >= y
  BY <1>1 DEF Heap!Max
<1> QED
  BY <1>2

\* A push keeps the invariant, a new value with nothing twice too.
LEMMA PushKeeps ==
    ASSUME HeapInv, NEW v \in Int, Heap!PushValue(v),
           fhUnique => \A i \in 1 .. Len(fhCont) : fhCont[i] # v
    PROVE  HeapInv'
<1> DEFINE s == fhCont  n == Len(s)  q == Heap!Pushed(s, v)  t == fhCont'
           old == fhDropped  new == fhDropped'
<1>1. /\ s \in Seq(Int) /\ fhMax \in Nat /\ old \subseteq Int /\ Heap!IsHeap(s)
      /\ \A d \in old, i \in 1 .. n : s[i] <= d
      /\ old # {} => fhMax > 0 /\ fhMax <= n
      /\ fhUnique => Once(s)
  BY DEF HeapInv
<1>2. n \in Nat /\ \A i \in 1 .. n : s[i] \in Int
  BY <1>1, SeqIsFunction
<1>3. \A i \in 1 .. n : s[i] <= s[1]
  BY <1>1, TopIsLargest
<1>4. /\ q \in Seq(Int) /\ t \in Seq(Int) /\ Len(t) = Len(q) /\ Heap!IsHeap(t)
      /\ \A i \in 1 .. Len(t) : \E j \in 1 .. Len(q) : t[i] = q[j]
      /\ Once(q) => Once(t)
  BY PushPermutes
<1>5. UNCHANGED <<fhMax, fhUnique>> /\ new = old \cup Heap!Drops(s, v)
  BY DEF Heap!PushValue
<1>6. CASE n < fhMax
  <2>1. q = Append(s, v) /\ new = {}
    BY <1>1, <1>2, <1>5, <1>6 DEF Heap!Pushed, Heap!Drops
  <2>2. fhUnique => Once(q)
    <3>1. Len(q) = n + 1 /\ q[n + 1] = v /\ \A i \in 1 .. n : q[i] = s[i]
      BY <2>1, <1>1
    <3>2. \A i \in 1 .. Len(q) : i \in 1 .. n \/ i = n + 1
      BY <3>1, <1>2
    <3> HIDE DEF n, s, q
    <3>3. ASSUME fhUnique, NEW i \in 1 .. Len(q), NEW j \in 1 .. Len(q), q[i] = q[j]  PROVE i = j
      <4>1. \A a \in 1 .. n : s[a] # v
        BY <3>3 DEF n, s
      <4>2. \A a, b \in 1 .. n : s[a] = s[b] => a = b
        BY <3>3, <1>1 DEF Once, n
      <4> QED
        BY <4>1, <4>2, <3>1, <3>2, <3>3
    <3> QED
      BY <3>3 DEF Once
  <2> HIDE DEF s, n, q, t, new, old
  <2>3. /\ t \in Seq(Int) /\ Heap!IsHeap(t) /\ new = {} /\ (fhUnique => Once(t))
    BY <2>1, <2>2, <1>4
  <2> QED
    BY <2>3, <1>1, <1>4, <1>5 DEF HeapInv, Heap!IsHeap, Once, t, new
<1>7. CASE ~(n < fhMax)
  <2>1. Len(q) = n /\ Len(t) = n
    <3>1. Len([s EXCEPT ![1] = v]) = n
      BY <1>1
    <3>2. q = s \/ q = [s EXCEPT ![1] = v]
      BY <1>7 DEF Heap!Pushed
    <3> QED
      BY <3>1, <3>2, <1>4
  <2>2. fhUnique => Once(q)
    <3>1. CASE q = s
      BY <3>1, <1>1
    <3>2. CASE q # s
      <4>1. q = [s EXCEPT ![1] = v]
        BY <1>7, <3>2 DEF Heap!Pushed
      <4>2. \A i \in 1 .. n : q[i] = IF i = 1 THEN v ELSE s[i]
        BY <4>1, <1>1
      <4> HIDE DEF n, s, q
      <4>3. ASSUME fhUnique, NEW i \in 1 .. n, NEW j \in 1 .. n, q[i] = q[j]  PROVE i = j
        <5>1. \A a \in 1 .. n : s[a] # v
          BY <4>3 DEF n, s
        <5>2. \A a, b \in 1 .. n : s[a] = s[b] => a = b
          BY <4>3, <1>1 DEF Once, n
        <5> QED
          BY <5>1, <5>2, <4>2, <4>3
      <4> QED
        BY <4>3, <2>1 DEF Once
    <3> QED
      BY <3>1, <3>2
  <2>3. /\ new \subseteq Int
        /\ new # {} => fhMax > 0 /\ fhMax <= n
        /\ \A d \in new, j \in 1 .. n : q[j] <= d
    <3>1. CASE fhMax = 0
      <4>1. new = old /\ old = {}
        BY <3>1, <1>1, <1>5 DEF Heap!Drops
      <4> QED
        BY <4>1
    <3>2. CASE fhMax # 0
      <4>1. fhMax > 0 /\ fhMax <= n /\ 1 \in 1 .. n /\ s[1] \in Int
        BY <3>2, <1>1, <1>2, <1>7
      <4>2. new = old \cup {Heap!Max({v, s[1]})}
        BY <3>2, <1>5, <1>7 DEF Heap!Drops, Heap!Top
      <4>3. Heap!Max({v, s[1]}) = IF v >= s[1] THEN v ELSE s[1]
        BY <4>1, HeapMax
      <4>4. q = IF v < s[1] THEN [s EXCEPT ![1] = v] ELSE s
        BY <4>1, <1>7 DEF Heap!Pushed, Heap!Top
      <4>5. \A j \in 1 .. n : q[j] \in Int /\ q[j] <= s[1]
        <5>1. CASE v < s[1]
          <6>1. \A j \in 1 .. n : q[j] = IF j = 1 THEN v ELSE s[j]
            BY <4>4, <5>1, <1>1
          <6> QED
            BY <6>1, <5>1, <4>1, <1>2, <1>3
        <5>2. CASE ~(v < s[1])
          <6>1. q = s
            BY <4>4, <5>2
          <6> QED
            BY <6>1, <1>2, <1>3
        <5> QED
          BY <5>1, <5>2
      <4>6. \A d \in new : d \in Int /\ s[1] <= d
        <5>1. \A d \in old : d \in Int /\ s[1] <= d
          BY <1>1, <4>1
        <5>2. s[1] <= Heap!Max({v, s[1]}) /\ Heap!Max({v, s[1]}) \in Int
          BY <4>1, <4>3
        <5> QED
          BY <5>1, <5>2, <4>2
      <4> HIDE DEF s, n, q, new
      <4>7. \A d \in new, j \in 1 .. n : q[j] <= d
        BY <4>1, <4>5, <4>6
      <4> QED
        BY <4>1, <4>6, <4>7
    <3> QED
      BY <3>1, <3>2
  <2> HIDE DEF s, n, q, t, new, old
  <2>4. \A d \in new, i \in 1 .. Len(t) : t[i] <= d
    BY <2>1, <2>3, <1>4
  <2> QED
    BY <2>1, <2>2, <2>3, <2>4, <1>1, <1>4, <1>5 DEF HeapInv, Heap!IsHeap, Once, t, new
<1> QED
  BY <1>6, <1>7

\* Every step keeps it.
LEMMA HeapStep ==
    ASSUME HeapInv, [Heap!Next]_Heap!fhVars
    PROVE  HeapInv'
<1>1. /\ fhCont \in Seq(Int) /\ fhMax \in Nat /\ fhDropped \subseteq Int /\ Heap!IsHeap(fhCont)
      /\ \A d \in fhDropped, i \in 1 .. Len(fhCont) : fhCont[i] <= d
      /\ fhDropped # {} => fhMax > 0 /\ fhMax <= Len(fhCont)
      /\ fhUnique => Once(fhCont)
  BY DEF HeapInv
<1>2. ASSUME NEW v \in Elem, Heap!Push(v)  PROVE HeapInv'
  BY <1>2, PushKeeps, HeapAssumption DEF Heap!Push
<1>3. ASSUME NEW v \in Elem, Heap!PushUnique(v)  PROVE HeapInv'
  <2>1. CASE v \in Heap!ToSet(fhCont)
    <3> DEFINE t == fhCont'
    <3>1. t \in Heap!Heaps(fhCont) /\ UNCHANGED <<fhMax, fhUnique, fhDropped>>
      BY <1>3, <2>1 DEF Heap!PushUnique
    <3> HIDE DEF t
    <3>2. /\ t \in Seq(Int) /\ Len(t) = Len(fhCont) /\ Heap!IsHeap(t)
          /\ \A i \in 1 .. Len(t) : \E j \in 1 .. Len(fhCont) : t[i] = fhCont[j]
          /\ Once(fhCont) => Once(t)
      BY <3>1, <1>1, HeapsPermute
    <3>3. \A d \in fhDropped, i \in 1 .. Len(t) : t[i] <= d
      BY <3>2, <1>1
    <3> QED
      BY <3>1, <3>2, <3>3, <1>1 DEF HeapInv, Heap!IsHeap, Once, t
  <2>2. CASE v \notin Heap!ToSet(fhCont)
    <3>1. Heap!PushValue(v) /\ v \in Int
      BY <1>3, <2>2, HeapAssumption DEF Heap!PushUnique
    <3>2. \A i \in 1 .. Len(fhCont) : fhCont[i] # v
      BY <2>2, <1>1 DEF Heap!ToSet
    <3> QED
      BY <3>1, <3>2, PushKeeps
  <2> QED
    BY <2>1, <2>2
<1>4. ASSUME Heap!Pop  PROVE HeapInv'
  <2> DEFINE t == fhCont'  r == Tail(fhCont)
  <2>1. fhCont # <<>> /\ t \in Heap!Heaps(r) /\ fhDropped' = {} /\ UNCHANGED <<fhMax, fhUnique>>
    BY <1>4 DEF Heap!Pop
  <2>2. r \in Seq(Int) /\ Len(r) = Len(fhCont) - 1 /\ \A i \in 1 .. Len(r) : r[i] = fhCont[i + 1]
    BY <2>1, <1>1, HeadTailProperties
  <2>3. fhUnique => Once(r)
    <3>1. Len(fhCont) \in Nat
      BY <1>1, SeqIsFunction
    <3>2. ASSUME fhUnique, NEW i \in 1 .. Len(r), NEW j \in 1 .. Len(r), r[i] = r[j]  PROVE i = j
      <4>1. \A a, b \in 1 .. Len(fhCont) : fhCont[a] = fhCont[b] => a = b
        BY <3>2, <1>1 DEF Once
      <4>2. i + 1 \in 1 .. Len(fhCont) /\ j + 1 \in 1 .. Len(fhCont)
        BY <2>2, <3>1
      <4>3. fhCont[i + 1] = fhCont[j + 1]
        BY <2>2, <3>2
      <4>4. i + 1 = j + 1
        BY <4>1, <4>2, <4>3
      <4> QED
        BY <4>4
    <3> HIDE DEF r
    <3> QED
      BY <3>2 DEF Once
  <2> HIDE DEF t, r
  <2>4. t \in Seq(Int) /\ Heap!IsHeap(t) /\ (Once(r) => Once(t))
    BY <2>1, <2>2, HeapsPermute
  <2> QED
    BY <2>1, <2>3, <2>4, <1>1 DEF HeapInv, Heap!IsHeap, Once, t
<1>5. ASSUME NEW n \in 0 .. HeapSize, Heap!SetMaxSize(n)  PROVE HeapInv'
  <2>1. fhMax' = n /\ n \in Nat /\ fhDropped' = {} /\ UNCHANGED <<fhCont, fhUnique>>
    BY <1>5, HeapAssumption DEF Heap!SetMaxSize
  <2> QED
    BY <2>1, <1>1 DEF HeapInv, Heap!IsHeap, Once
<1>6. CASE UNCHANGED Heap!fhVars
  BY <1>6 DEF HeapInv, Heap!fhVars, Heap!IsHeap, Once
<1> QED
  BY <1>2, <1>3, <1>4, <1>5, <1>6 DEF Heap!Next

\* It holds at the start.
LEMMA HeapStart == Heap!Init => HeapInv
  BY HeapAssumption DEF Heap!Init, HeapInv, Heap!IsHeap, Once

\* What it says of the property.
LEMMA HeapImplied == HeapInv => Heap!KeepsSmallest
<1> SUFFICES ASSUME HeapInv  PROVE Heap!KeepsSmallest
  OBVIOUS
<1>1. DOMAIN fhCont = 1 .. Len(fhCont)
  BY DEF HeapInv
<1> QED
  BY <1>1 DEF HeapInv, Heap!KeepsSmallest, Heap!ToSet, Heap!IsInjective, Once

\* However the bound moves and in whatever order values come, the heap holds the smallest
\* of those it was offered.
THEOREM SmallestKept == Heap!Spec => []Heap!KeepsSmallest
<1>1. Heap!Spec => []HeapInv
  BY HeapStart, HeapStep, PTL DEF Heap!Spec
<1> QED
  BY <1>1, HeapImplied, PTL

----------------------------------------------------------------------------
(* Descriptors and shared pointers (fd_data_map.hh, shared_ptr.hh) *)

\* The steps a call consists of.
Steps ==
    {FdMap!SubRef(p) : p \in FdMap!Places} \cup {FdMap!Delete(o) : o \in Obj}
    \cup {FdMap!AddRef(p, o) : p \in FdMap!Places, o \in Obj}
    \cup {FdMap!SwapWith(p, q) : p \in FdMap!Places, q \in FdMap!Places}

\* A step changes the pointer at a place.
Writes(s, p) == (s.do \in {"sub", "add"} /\ s.at = p) \/ (s.do = "swap" /\ p \in {s.at, s.with})

\* The steps of s before the k-th leave place p alone.
Untouched(s, k, p) == \A j \in 1 .. k - 1 : ~Writes(s[j], p)

\* A place among R, not written before step k, holds o or an object that holds o: as long
\* as it does, o stays.
Backed(f, s, R, k, o) ==
    \E q \in R : /\ f[q] = o \/ (f[q] \in Obj /\ f[FdMap!Inside(f[q])] = o)
                 /\ Untouched(s, k, q)

\* Place p is null when step k comes to it: because it is now, because a step before gives
\* its reference back, or because it is exchanged with a place that is null.
Vacant(f, s, R, k, p) ==
    \/ f[p] = FdMap!Null /\ Untouched(s, k, p)
    \/ \E j \in 1 .. k - 1 :
          /\ s[j] = FdMap!SubRef(p) \/ \E q \in R : s[j] = FdMap!SwapWith(q, p) /\ f[q] = FdMap!Null
          /\ \A i \in j + 1 .. k - 1 : ~Writes(s[i], p)

\* Step k of s stays among the places R, takes only references that are there to be
\* taken, to a place that has none, and exchanges a place as it was.
Sound(f, s, R, k) ==
    \/ \E p \in R : s[k] = FdMap!SubRef(p)
    \/ \E p \in R, o \in Obj : s[k] = FdMap!AddRef(p, o) /\ Backed(f, s, R, k, o) /\ Vacant(f, s, R, k, p)
    \/ \E p, q \in R : p # q /\ s[k] = FdMap!SwapWith(p, q) /\ Untouched(s, k, p)

\* The places a thread may write: its own, and with the lock those of the table.
OwnPlaces(t) == {FdMap!Mine(t), FdMap!Other(t)}
TablePlaces == {FdMap!Slot(fd) : fd \in Fd}
Reach(t) == OwnPlaces(t) \cup (IF fdLock = t THEN TablePlaces ELSE {})

\* Nobody points to o.
Free(f, o) == \A p \in FdMap!Places : f[p] # o

\* The steps that go beyond them: an object nobody points to is deleted and then gives
\* back what it held; and a new one, known to its maker only, takes a copy.
Beyond(t) ==
    LET s == fdTodo[t]
    IN  \/ \E o \in fdMem.live : s[1] = FdMap!Delete(o) /\ Free(fdPtr, o)
        \/ \E x \in fdMem.made \ fdMem.live : s[1] = FdMap!SubRef(FdMap!Inside(x))
        \/ \E x, o \in Obj :
              /\ s = <<FdMap!AddRef(FdMap!Inside(x), o)>>
              /\ \A p \in FdMap!Places : fdPtr[p] = x <=> p = FdMap!Mine(t)
              /\ fdPtr[FdMap!Inside(x)] = FdMap!Null
              /\ Backed(fdPtr, s, OwnPlaces(t), 1, o)

TodoSound(t) ==
    \A k \in 1 .. Len(fdTodo[t]) : Sound(fdPtr, fdTodo[t], Reach(t), k) \/ (k = 1 /\ Beyond(t))

Deletes(t, o) == fdTodo[t] # <<>> /\ fdTodo[t][1] = FdMap!Delete(o)

\* The places that hold o.
HeldAt(f, o) == {p \in FdMap!Places : f[p] = o}

\* The inductive invariant for the objects.
SharedInv ==
    /\ fdMem \in [cnt : [Obj -> Int], live : SUBSET Obj, made : SUBSET Obj, bad : {FALSE}]
    /\ fdMem.live \subseteq fdMem.made
    /\ fdPtr \in [FdMap!Places -> Obj \cup {FdMap!Null}]
    /\ fdTodo \in [FdThread -> Seq(Steps)]
    /\ fdLock \in FdThread \cup {FdMap!NoThread}
    /\ \A o \in Obj : fdMem.cnt[o] = Cardinality(HeldAt(fdPtr, o))
    /\ \A p \in FdMap!Places : fdPtr[p] # FdMap!Null => fdPtr[p] \in fdMem.live
    /\ \A x \in Obj \ fdMem.made : fdPtr[FdMap!Inside(x)] = FdMap!Null
    /\ \A t \in FdThread : TodoSound(t)
    /\ \A o \in fdMem.live : Free(fdPtr, o) => \E t \in FdThread : Deletes(t, o)
    /\ \A t, u \in FdThread : t # u => \A o \in Obj : ~(Deletes(t, o) /\ Deletes(u, o))

\* What the slot of fd will hold at the end of the steps s is not null: the last step that
\* writes it takes a reference, or exchanges it with a place that holds one.
Filled(f, s, fd) ==
    \/ f[FdMap!Slot(fd)] # FdMap!Null /\ \A k \in 1 .. Len(s) : ~Writes(s[k], FdMap!Slot(fd))
    \/ \E k \in 1 .. Len(s) :
          /\ \A j \in k + 1 .. Len(s) : ~Writes(s[j], FdMap!Slot(fd))
          /\ \/ \E o \in Obj : s[k] = FdMap!AddRef(FdMap!Slot(fd), o)
             \/ \E q \in FdMap!Places : s[k] = FdMap!SwapWith(q, FdMap!Slot(fd)) /\ f[q] # FdMap!Null

\* What the holder of the lock has still to do.
Rest == IF fdLock = FdMap!NoThread THEN <<>> ELSE fdTodo[fdLock]
InTable == {fd \in Fd : Filled(fdPtr, Rest, fd)}

\* The inductive invariant for the table.
TableInv ==
    /\ fdCap \in Nat /\ fdSz = Cardinality(InTable)
    /\ fdLock # FdMap!NoThread => fdTodo[fdLock] # <<>>
    /\ \A fd \in Fd : fd >= fdCap => fdPtr[FdMap!Slot(fd)] = FdMap!Null
                                     /\ \A k \in 1 .. Len(Rest) : ~Writes(Rest[k], FdMap!Slot(fd))
    /\ \A k \in 1 .. Len(Rest) : \A p \in TablePlaces : \A q \in FdMap!Places : Rest[k] # FdMap!SwapWith(p, q)

\* No two places are the same.
LEMMA PlacesDiffer ==
    /\ \A t, u \in FdThread : FdMap!Mine(t) # FdMap!Other(u)
    /\ \A t, u \in FdThread : FdMap!Mine(t) = FdMap!Mine(u) => t = u
    /\ \A t, u \in FdThread : FdMap!Other(t) = FdMap!Other(u) => t = u
    /\ \A t \in FdThread : \A fd : FdMap!Mine(t) # FdMap!Slot(fd) /\ FdMap!Other(t) # FdMap!Slot(fd)
    /\ \A t \in FdThread : \A o : FdMap!Mine(t) # FdMap!Inside(o) /\ FdMap!Other(t) # FdMap!Inside(o)
    /\ \A fd, o : FdMap!Slot(fd) # FdMap!Inside(o)
    /\ \A fd, hd : FdMap!Slot(fd) = FdMap!Slot(hd) => fd = hd
    /\ \A o, x : FdMap!Inside(o) = FdMap!Inside(x) => o = x
  BY FdMapAssumption DEF FdMap!Mine, FdMap!Other, FdMap!Slot, FdMap!Inside

\* Where the places are.
LEMMA PlacesAre ==
    /\ \A t \in FdThread : FdMap!Mine(t) \in FdMap!Places /\ FdMap!Other(t) \in FdMap!Places
    /\ \A fd \in Fd : FdMap!Slot(fd) \in FdMap!Places
    /\ \A o \in Obj : FdMap!Inside(o) \in FdMap!Places
    /\ \A p \in FdMap!Places : \/ \E t \in FdThread : p = FdMap!Mine(t) \/ p = FdMap!Other(t)
                               \/ \E fd \in Fd : p = FdMap!Slot(fd)
                               \/ \E o \in Obj : p = FdMap!Inside(o)
    /\ FdMap!NoPlace \notin FdMap!Places
    /\ FdMap!Null \notin Obj
<1>1. FdMap!NoPlace \notin FdMap!Places
  BY DEF FdMap!NoPlace, FdMap!Places, FdMap!Mine, FdMap!Other, FdMap!Slot, FdMap!Inside
<1>2. FdMap!Null \notin Obj
  BY FdMapAssumption DEF FdMap!Null
<1> QED
  BY <1>1, <1>2 DEF FdMap!Places

\* What a step writes.
LEMMA StepWrites ==
    /\ \A p, q : Writes(FdMap!SubRef(p), q) <=> q = p
    /\ \A p, o, q : Writes(FdMap!AddRef(p, o), q) <=> q = p
    /\ \A o, q : ~Writes(FdMap!Delete(o), q)
    /\ \A p, q, r : Writes(FdMap!SwapWith(p, q), r) <=> r \in {p, q}
  BY DEF Writes, FdMap!SubRef, FdMap!AddRef, FdMap!Delete, FdMap!SwapWith

\* No two steps are the same.
LEMMA StepsDiffer ==
    /\ \A p, q : FdMap!SubRef(p) = FdMap!SubRef(q) => p = q
    /\ \A p, o, q, x : FdMap!AddRef(p, o) = FdMap!AddRef(q, x) => p = q /\ o = x
    /\ \A o, x : FdMap!Delete(o) = FdMap!Delete(x) => o = x
    /\ \A p, q, r, w : FdMap!SwapWith(p, q) = FdMap!SwapWith(r, w) => p = r /\ q = w
    /\ \A p, q, o : FdMap!SubRef(p) # FdMap!AddRef(q, o) /\ FdMap!SubRef(p) # FdMap!Delete(o)
                    /\ FdMap!AddRef(p, o) # FdMap!SubRef(q) /\ FdMap!Delete(o) # FdMap!SubRef(p)
    /\ \A p, q, r : FdMap!SubRef(p) # FdMap!SwapWith(q, r) /\ FdMap!SwapWith(q, r) # FdMap!SubRef(p)
    /\ \A p, o, x : FdMap!AddRef(p, o) # FdMap!Delete(x) /\ FdMap!Delete(x) # FdMap!AddRef(p, o)
    /\ \A p, q, r, o : FdMap!AddRef(p, o) # FdMap!SwapWith(q, r) /\ FdMap!SwapWith(q, r) # FdMap!AddRef(p, o)
    /\ \A o, q, r : FdMap!Delete(o) # FdMap!SwapWith(q, r) /\ FdMap!SwapWith(q, r) # FdMap!Delete(o)
<1>1. \A p, q, o : FdMap!SubRef(p).do = "sub" /\ FdMap!AddRef(q, o).do = "add" /\ FdMap!Delete(o).do = "delete"
                   /\ FdMap!SwapWith(p, q).do = "swap"
  BY DEF FdMap!SubRef, FdMap!AddRef, FdMap!Delete, FdMap!SwapWith
<1>2. \A p, q, o : FdMap!SubRef(p).at = p /\ FdMap!AddRef(p, o).at = p /\ FdMap!AddRef(p, o).obj = o
                   /\ FdMap!Delete(o).obj = o /\ FdMap!SwapWith(p, q).at = p /\ FdMap!SwapWith(p, q).with = q
  BY DEF FdMap!SubRef, FdMap!AddRef, FdMap!Delete, FdMap!SwapWith
<1>3. "sub" # "add" /\ "sub" # "delete" /\ "sub" # "swap" /\ "add" # "delete" /\ "add" # "swap" /\ "delete" # "swap"
  OBVIOUS
<1> QED
  BY <1>1, <1>2, <1>3

\* What another thread does elsewhere disturbs no step.
LEMMA SoundElsewhere ==
    ASSUME NEW f, NEW g, NEW s, NEW R, NEW k, Sound(f, s, R, k),
           \A q \in R : g[q] = f[q] /\ (f[q] \in Obj => g[FdMap!Inside(f[q])] = f[FdMap!Inside(f[q])])
    PROVE  Sound(g, s, R, k)
<1>1. \A o : Backed(f, s, R, k, o) => Backed(g, s, R, k, o)
  BY DEF Backed
<1>2. \A p \in R : Vacant(f, s, R, k, p) => Vacant(g, s, R, k, p)
  BY DEF Vacant
<1> QED
  BY <1>1, <1>2 DEF Sound

\* What is left of a list when its first step is done, which changes f to g, and has put a
\* step before the rest that writes elsewhere (d is 0) or none (d is 1).
Rests(f, g, s, r, R, d) ==
    /\ Len(s) \in Nat /\ Len(r) \in Nat /\ Len(r) = Len(s) - d
    /\ \A j \in 1 .. Len(s) : j >= 2 => Sound(f, s, R, j)
    /\ \A j \in 1 .. Len(r) : j + d >= 2 => r[j] = s[j + d]
    /\ d = 0 => \A p \in R : ~Writes(r[1], p)
    /\ \A p \in R : ~Writes(s[1], p) =>
          g[p] = f[p] /\ (f[p] \in Obj => g[FdMap!Inside(f[p])] = f[FdMap!Inside(f[p])])
    /\ \A p \in R : s[1] = FdMap!SubRef(p) => g[p] = FdMap!Null
    /\ \A p, q \in R : s[1] = FdMap!SwapWith(q, p) => g[p] = f[q]

\* The rest is as sound as it was.
LEMMA SoundAfterHead ==
    ASSUME NEW f, NEW g, NEW s, NEW r, NEW R, NEW d \in {0, 1}, Rests(f, g, s, r, R, d),
           NEW k \in 1 .. Len(r), k + d >= 2
    PROVE  Sound(g, r, R, k)
<1> USE DEF Rests
<1> DEFINE m == k + d
<1>1. m \in 2 .. Len(s) /\ m \in Nat /\ k \in Nat /\ r[k] = s[m] /\ Sound(f, s, R, m) /\ k = m - d
  OBVIOUS
<1> HIDE DEF m
<1>2. \A j \in 1 .. k - 1 : (j + d \in 2 .. m - 1 /\ r[j] = s[j + d]) \/ (j = 1 /\ d = 0)
  <2> SUFFICES ASSUME NEW j \in 1 .. k - 1, ~(j = 1 /\ d = 0)  PROVE j + d \in 2 .. m - 1 /\ r[j] = s[j + d]
    OBVIOUS
  <2>1. j \in 1 .. Len(r) /\ j + d >= 2 /\ j + d <= m - 1
    BY <1>1
  <2> QED
    BY <2>1, <1>1
<1>3. ASSUME NEW p \in R, Untouched(s, m, p)  PROVE Untouched(r, k, p) /\ ~Writes(s[1], p)
  <2>1. \A j \in 1 .. m - 1 : ~Writes(s[j], p)
    BY <1>3 DEF Untouched
  <2>2. ~Writes(s[1], p)
    BY <2>1, <1>1
  <2>3. \A j \in 1 .. k - 1 : ~Writes(r[j], p)
    BY <2>1, <1>1, <1>2
  <2> QED
    BY <2>2, <2>3 DEF Untouched
<1>4. CASE \E p \in R : s[m] = FdMap!SubRef(p)
  BY <1>1, <1>4 DEF Sound
<1>5. CASE \E p, q \in R : p # q /\ s[m] = FdMap!SwapWith(p, q) /\ Untouched(s, m, p)
  BY <1>1, <1>3, <1>5 DEF Sound
<1>6. ASSUME NEW p \in R, NEW o \in Obj, s[m] = FdMap!AddRef(p, o), Backed(f, s, R, m, o), Vacant(f, s, R, m, p)
      PROVE  Sound(g, r, R, k)
  <2>1. Backed(g, r, R, k, o)
    <3>1. PICK q \in R : (f[q] = o \/ (f[q] \in Obj /\ f[FdMap!Inside(f[q])] = o)) /\ Untouched(s, m, q)
      BY <1>6 DEF Backed
    <3>2. Untouched(r, k, q) /\ ~Writes(s[1], q)
      BY <3>1, <1>3
    <3>3. g[q] = f[q] /\ (f[q] \in Obj => g[FdMap!Inside(f[q])] = f[FdMap!Inside(f[q])])
      BY <3>2
    <3> QED
      BY <3>1, <3>2, <3>3 DEF Backed
  <2>2. Vacant(g, r, R, k, p)
    <3>1. CASE f[p] = FdMap!Null /\ Untouched(s, m, p)
      BY <3>1, <1>3 DEF Vacant
    <3>2. ASSUME NEW j \in 1 .. m - 1,
                 s[j] = FdMap!SubRef(p) \/ \E q \in R : s[j] = FdMap!SwapWith(q, p) /\ f[q] = FdMap!Null,
                 \A i \in j + 1 .. m - 1 : ~Writes(s[i], p)
          PROVE  Vacant(g, r, R, k, p)
      <4>1. CASE j = 1
        <5>1. g[p] = FdMap!Null
          BY <3>2, <4>1
        <5>2. \A i \in 1 .. k - 1 : ~Writes(r[i], p)
          BY <1>1, <1>2, <3>2, <4>1
        <5> QED
          BY <5>1, <5>2 DEF Vacant, Untouched
      <4>2. CASE j # 1
        <5> DEFINE i == j - d
        <5>4. j \in Nat /\ j >= 2 /\ j <= m - 1 /\ m = k + d
          BY <1>1, <4>2 DEF m
        <5>5. i \in 1 .. k - 1 /\ j = i + d /\ i \in 1 .. Len(r) /\ i + d >= 2
          BY <1>1, <5>4
        <5>1. i \in 1 .. k - 1 /\ j >= 2 /\ r[i] = s[j] /\ j = i + d
          BY <5>4, <5>5
        <5>2. \A a \in i + 1 .. k - 1 : ~Writes(r[a], p)
          <6> SUFFICES ASSUME NEW a \in i + 1 .. k - 1  PROVE ~Writes(r[a], p)
            OBVIOUS
          <6>1. r[a] = s[a + d] /\ a + d \in j + 1 .. m - 1
            BY <1>1, <5>1
          <6> QED
            BY <6>1, <3>2
        <5>3. ASSUME NEW q \in R, s[j] = FdMap!SwapWith(q, p), f[q] = FdMap!Null  PROVE g[q] = FdMap!Null
          <6>1. Sound(f, s, R, j)
            BY <1>1, <5>1
          <6>2. Untouched(s, j, q)
            BY <6>1, <5>3, StepsDiffer DEF Sound
          <6>3. ~Writes(s[1], q)
            BY <6>2, <5>1 DEF Untouched
          <6> QED
            BY <6>3, <5>3
        <5> HIDE DEF i
        <5> QED
          BY <5>1, <5>2, <5>3, <3>2 DEF Vacant
      <4> QED
        BY <4>1, <4>2
    <3> QED
      BY <3>1, <3>2, <1>6 DEF Vacant
  <2> QED
    BY <2>1, <2>2, <1>1, <1>6 DEF Sound
<1> QED
  BY <1>1, <1>4, <1>5, <1>6 DEF Sound

\* A list of steps is a plan when each of them is sound.
Plan(f, s, R) == s \in Seq(Steps) /\ \A k \in 1 .. Len(s) : Sound(f, s, R, k)

\* A plan may know of more places than it needs.
LEMMA PlanWider ==
    ASSUME NEW f, NEW s, NEW R, NEW Q, Plan(f, s, R), R \subseteq Q
    PROVE  Plan(f, s, Q)
<1> SUFFICES ASSUME NEW k \in 1 .. Len(s), Sound(f, s, R, k)  PROVE Sound(f, s, Q, k)
  BY DEF Plan
<1>1. \A o : Backed(f, s, R, k, o) => Backed(f, s, Q, k, o)
  BY DEF Backed
<1>2. \A p : Vacant(f, s, R, k, p) => Vacant(f, s, Q, k, p)
  BY DEF Vacant
<1> QED
  BY <1>1, <1>2 DEF Sound

\* Places inside objects.
Inner == {FdMap!Inside(x) : x \in Obj}

\* Threads have places apart, and reach none inside an object.
LEMMA ReachApart ==
    ASSUME SharedInv
    PROVE  /\ \A t \in FdThread : Reach(t) \subseteq FdMap!Places /\ OwnPlaces(t) \subseteq Reach(t)
           /\ \A t, u \in FdThread : t # u => Reach(t) \cap Reach(u) = {}
           /\ \A t \in FdThread : Reach(t) \cap Inner = {}
<1>1. \A t \in FdThread : Reach(t) \subseteq FdMap!Places /\ OwnPlaces(t) \subseteq Reach(t)
  BY PlacesAre DEF Reach, OwnPlaces, TablePlaces
<1>2. \A t, u \in FdThread : t # u => Reach(t) \cap Reach(u) = {}
  BY PlacesDiffer DEF Reach, OwnPlaces, TablePlaces
<1>3. \A t \in FdThread : Reach(t) \cap Inner = {}
  BY PlacesDiffer DEF Reach, OwnPlaces, TablePlaces, Inner
<1> QED
  BY <1>1, <1>2, <1>3

\* The steps a thread takes: it gives a reference back, at a place of its own or in an
\* object that is gone; takes one that somebody holds, to a place that has none; exchanges
\* two places of its own; or deletes an object that nobody points to.
Sub(t, p) ==
    /\ fdTodo[t][1] = FdMap!SubRef(p) /\ p \in FdMap!Places
    /\ p \in Reach(t) \/ \E x \in fdMem.made \ fdMem.live : p = FdMap!Inside(x)
Add(t, p, o) ==
    /\ fdTodo[t][1] = FdMap!AddRef(p, o) /\ p \in FdMap!Places /\ o \in Obj /\ fdPtr[p] = FdMap!Null
    /\ \E q \in Reach(t) \cup Inner : fdPtr[q] = o
    /\ \/ p \in Reach(t)
       \/ \E x \in Obj : /\ p = FdMap!Inside(x) /\ Len(fdTodo[t]) = 1
                         /\ \A q \in FdMap!Places : fdPtr[q] = x <=> q = FdMap!Mine(t)
Swap(t, p, q) == fdTodo[t][1] = FdMap!SwapWith(p, q) /\ p \in Reach(t) /\ q \in Reach(t) /\ p # q
Del(t, o) == fdTodo[t][1] = FdMap!Delete(o) /\ o \in fdMem.live /\ Free(fdPtr, o)

\* A first step is one of these.
LEMMA HeadIs ==
    ASSUME SharedInv, NEW t \in FdThread, fdTodo[t] # <<>>
    PROVE  \/ \E p : Sub(t, p)
           \/ \E p, o : Add(t, p, o)
           \/ \E p, q : Swap(t, p, q)
           \/ \E o : Del(t, o)
<1> DEFINE s == fdTodo[t]
<1>1. s \in Seq(Steps) /\ Len(s) \in Nat /\ 1 \in 1 .. Len(s)
  <2>1. s \in Seq(Steps)
    BY DEF SharedInv
  <2> QED
    BY <2>1
<1>2. Sound(fdPtr, s, Reach(t), 1) \/ Beyond(t)
  BY <1>1 DEF SharedInv, TodoSound
<1>3. Reach(t) \subseteq FdMap!Places /\ OwnPlaces(t) \subseteq Reach(t)
  BY ReachApart
<1>4. \A o, R : Backed(fdPtr, s, R, 1, o) => \E q \in R \cup Inner : fdPtr[q] = o
  BY DEF Backed, Inner
<1>5. \A p, R : Vacant(fdPtr, s, R, 1, p) => fdPtr[p] = FdMap!Null
  BY DEF Vacant
<1>6. fdMem.made \subseteq Obj /\ fdMem.live \subseteq Obj
  BY DEF SharedInv
<1>7. CASE Sound(fdPtr, s, Reach(t), 1)
  <2>1. CASE \E p \in Reach(t) : s[1] = FdMap!SubRef(p)
    BY <2>1, <1>3 DEF Sub
  <2>2. CASE \E p \in Reach(t), o \in Obj : s[1] = FdMap!AddRef(p, o) /\ Backed(fdPtr, s, Reach(t), 1, o)
                                           /\ Vacant(fdPtr, s, Reach(t), 1, p)
    <3>1. PICK p \in Reach(t), o \in Obj : s[1] = FdMap!AddRef(p, o) /\ Backed(fdPtr, s, Reach(t), 1, o)
                                           /\ Vacant(fdPtr, s, Reach(t), 1, p)
      BY <2>2
    <3>2. p \in FdMap!Places /\ fdPtr[p] = FdMap!Null /\ \E q \in Reach(t) \cup Inner : fdPtr[q] = o
      BY <3>1, <1>3, <1>4, <1>5
    <3> QED
      BY <3>1, <3>2 DEF Add
  <2>3. CASE \E p, q \in Reach(t) : p # q /\ s[1] = FdMap!SwapWith(p, q)
    BY <2>3 DEF Swap
  <2> QED
    BY <2>1, <2>2, <2>3, <1>7 DEF Sound
<1>8. CASE Beyond(t)
  <2>1. CASE \E o \in fdMem.live : s[1] = FdMap!Delete(o) /\ Free(fdPtr, o)
    BY <2>1 DEF Del
  <2>2. CASE \E x \in fdMem.made \ fdMem.live : s[1] = FdMap!SubRef(FdMap!Inside(x))
    BY <2>2, <1>6, PlacesAre DEF Sub
  <2>3. CASE \E x, o \in Obj :
              /\ s = <<FdMap!AddRef(FdMap!Inside(x), o)>>
              /\ \A p \in FdMap!Places : fdPtr[p] = x <=> p = FdMap!Mine(t)
              /\ fdPtr[FdMap!Inside(x)] = FdMap!Null
              /\ Backed(fdPtr, s, OwnPlaces(t), 1, o)
    <3>1. PICK x \in Obj, o \in Obj :
              /\ s = <<FdMap!AddRef(FdMap!Inside(x), o)>>
              /\ \A p \in FdMap!Places : fdPtr[p] = x <=> p = FdMap!Mine(t)
              /\ fdPtr[FdMap!Inside(x)] = FdMap!Null
              /\ Backed(fdPtr, s, OwnPlaces(t), 1, o)
      BY <2>3
    <3>2. s[1] = FdMap!AddRef(FdMap!Inside(x), o) /\ Len(s) = 1 /\ FdMap!Inside(x) \in FdMap!Places
      BY <3>1, PlacesAre
    <3>3. \E q \in Reach(t) \cup Inner : fdPtr[q] = o
      BY <3>1, <1>3, <1>4
    <3> QED
      BY <3>1, <3>2, <3>3 DEF Add
  <2> QED
    BY <2>1, <2>2, <2>3, <1>8 DEF Beyond
<1> QED
  BY <1>2, <1>7, <1>8

\* What is put before the rest: nothing, or one step.
LEMMA RestIs ==
    ASSUME NEW s \in Seq(Steps), s # <<>>, NEW e \in Steps
    PROVE  /\ Tail(s) \in Seq(Steps) /\ <<>> \o Tail(s) = Tail(s) /\ Len(Tail(s)) = Len(s) - 1
           /\ \A j \in 1 .. Len(s) - 1 : Tail(s)[j] = s[j + 1]
           /\ <<e>> \o Tail(s) \in Seq(Steps) /\ Len(<<e>> \o Tail(s)) = Len(s)
           /\ (<<e>> \o Tail(s))[1] = e /\ \A j \in 2 .. Len(s) : (<<e>> \o Tail(s))[j] = s[j]
<1> DEFINE r == Tail(s)
<1>1. Len(s) \in Nat /\ r \in Seq(Steps) /\ Len(r) = Len(s) - 1 /\ \A j \in 1 .. Len(s) - 1 : r[j] = s[j + 1]
  BY HeadTailProperties
<1> HIDE DEF r
<1>2. <<>> \o r = r
  BY <1>1
<1>3. /\ <<e>> \in Seq(Steps) /\ Len(<<e>>) = 1 /\ <<e>>[1] = e
  OBVIOUS
<1>4. /\ <<e>> \o r \in Seq(Steps) /\ Len(<<e>> \o r) = 1 + Len(r)
      /\ \A j \in 1 .. 1 + Len(r) : (<<e>> \o r)[j] = IF j <= 1 THEN <<e>>[j] ELSE r[j - 1]
  BY <1>1, <1>3, ConcatProperties
<1>5. (<<e>> \o r)[1] = e
  BY <1>1, <1>3, <1>4
<1>6. \A j \in 2 .. Len(s) : (<<e>> \o r)[j] = s[j]
  <2> SUFFICES ASSUME NEW j \in 2 .. Len(s)  PROVE (<<e>> \o r)[j] = s[j]
    OBVIOUS
  <2>1. (<<e>> \o r)[j] = r[j - 1]
    BY <1>1, <1>4
  <2>2. j - 1 \in 1 .. Len(s) - 1 /\ (j - 1) + 1 = j
    BY <1>1
  <2>3. r[j - 1] = s[j]
    BY <2>2, <1>1
  <2> QED
    BY <2>1, <2>3
<1> QED
  BY <1>1, <1>2, <1>4, <1>5, <1>6 DEF r

Memory == [cnt : [Obj -> Int], live : SUBSET Obj, made : SUBSET Obj, bad : {FALSE}]

\* What a step of a thread does to its list and to the lock.
LEMMA StepIs ==
    ASSUME SharedInv, NEW t \in FdThread, FdMap!Step(t)
    PROVE  LET s == fdTodo[t]
           IN  /\ s # <<>> /\ s \in Seq(Steps) /\ s[1] \in Steps
               /\ fdTodo' = [fdTodo EXCEPT ![t] = FdMap!Expand(s[1]) \o Tail(s)]
               /\ fdMem' = IF s[1].do \in {"sub", "add", "delete"} THEN FdMap!MemAfter(s[1]) ELSE fdMem
               /\ fdPtr' = FdMap!PtrAfter(s[1])
               /\ fdLock' = IF fdLock = t /\ fdTodo'[t] = <<>> THEN FdMap!NoThread ELSE fdLock
               /\ UNCHANGED <<fdCap, fdSz>>
<1>1. fdTodo[t] \in Seq(Steps) /\ fdTodo[t] # <<>>
  BY DEF SharedInv, FdMap!Step
<1>2. Head(fdTodo[t]) = fdTodo[t][1] /\ fdTodo[t][1] \in Steps
  BY <1>1
<1> QED
  BY <1>1, <1>2 DEF FdMap!Step

\* A reference is given back, the last one to the object's deletion.
LEMMA SubDoes ==
    ASSUME SharedInv, NEW t \in FdThread, FdMap!Step(t), NEW p, Sub(t, p)
    PROVE  /\ fdPtr' = [fdPtr EXCEPT ![p] = FdMap!Null]
           /\ fdMem' \in Memory /\ fdMem'.live = fdMem.live /\ fdMem'.made = fdMem.made
           /\ fdPtr[p] = FdMap!Null =>
                 fdMem'.cnt = fdMem.cnt /\ fdTodo' = [fdTodo EXCEPT ![t] = Tail(fdTodo[t])]
           /\ fdPtr[p] # FdMap!Null =>
                 /\ fdMem'.cnt = [fdMem.cnt EXCEPT ![fdPtr[p]] = fdMem.cnt[fdPtr[p]] - 1]
                 /\ fdTodo' = [fdTodo EXCEPT ![t] = IF fdMem.cnt[fdPtr[p]] <= 1
                                                    THEN <<FdMap!Delete(fdPtr[p])>> \o Tail(fdTodo[t])
                                                    ELSE Tail(fdTodo[t])]
<1> DEFINE s == fdTodo[t]  h == s[1]  o == fdPtr[p]
<1>1. s \in Seq(Steps) /\ s # <<>> /\ h \in Steps
  BY StepIs
<1>2. h = FdMap!SubRef(p) /\ p \in FdMap!Places /\ h.do = "sub" /\ h.at = p
  BY DEF Sub, FdMap!SubRef
<1>3. fdMem \in Memory /\ fdPtr \in [FdMap!Places -> Obj \cup {FdMap!Null}]
  BY DEF SharedInv, Memory
<1>4. fdTodo' = [fdTodo EXCEPT ![t] = FdMap!Expand(h) \o Tail(s)] /\ fdMem' = FdMap!MemAfter(h) /\ fdPtr' = FdMap!PtrAfter(h)
  BY <1>2, StepIs
<1>5. fdPtr' = [fdPtr EXCEPT ![p] = FdMap!Null]
  BY <1>2, <1>4 DEF FdMap!PtrAfter
<1>6. <<>> \o Tail(s) = Tail(s)
  BY <1>1, RestIs
<1>7. CASE o = FdMap!Null
  <2>1. fdMem' = fdMem
    BY <1>2, <1>4, <1>7 DEF FdMap!MemAfter
  <2>2. FdMap!Expand(h) = <<>>
    BY <1>2, <1>7 DEF FdMap!Expand, FdMap!Seq1
  <2> QED
    BY <2>1, <2>2, <1>3, <1>4, <1>5, <1>6, <1>7
<1>8. CASE o # FdMap!Null
  <2>1. o \in Obj /\ o \in fdMem.live
    BY <1>2, <1>3, <1>8 DEF SharedInv
  <2> DEFINE c == [fdMem.cnt EXCEPT ![o] = fdMem.cnt[o] - 1]  m == [fdMem EXCEPT !.cnt = c]
  <2>2. c \in [Obj -> Int]
    BY <2>1, <1>3 DEF Memory
  <2>3. m \in Memory /\ m.cnt = c /\ m.live = fdMem.live /\ m.made = fdMem.made /\ m.bad = FALSE
    <3> HIDE DEF c
    <3> QED
      BY <2>2, <1>3 DEF Memory
  <2>4. fdMem' = FdMap!Touch(m, o)
    BY <1>2, <1>4, <1>8 DEF FdMap!MemAfter
  <2> HIDE DEF m
  <2>5. fdMem' = [m EXCEPT !.bad = FALSE]
    <3>1. (m.bad \/ o \notin m.live) = FALSE
      BY <2>1, <2>3
    <3> QED
      BY <2>4, <3>1 DEF FdMap!Touch
  <2>6. fdMem' \in Memory /\ fdMem'.cnt = c /\ fdMem'.live = fdMem.live /\ fdMem'.made = fdMem.made
    <3> HIDE DEF c
    <3> QED
      BY <2>3, <2>5 DEF Memory
  <2>7. FdMap!Expand(h) = IF fdMem.cnt[o] <= 1 THEN <<FdMap!Delete(o)>> ELSE <<>>
    BY <1>2, <1>8 DEF FdMap!Expand, FdMap!Seq1
  <2> QED
    BY <2>6, <2>7, <1>4, <1>5, <1>6, <1>8
<1> QED
  BY <1>7, <1>8

\* Pointers with one set.
Put(f, p, o) == [f EXCEPT ![p] = o]

\* A reference is taken.
LEMMA AddDoes ==
    ASSUME SharedInv, NEW t \in FdThread, FdMap!Step(t), NEW p, NEW o, Add(t, p, o)
    PROVE  /\ fdPtr' = Put(fdPtr, p, o)
           /\ o \in fdMem.live
           /\ fdMem' \in Memory /\ fdMem'.live = fdMem.live /\ fdMem'.made = fdMem.made
           /\ fdMem'.cnt = [fdMem.cnt EXCEPT ![o] = fdMem.cnt[o] + 1]
           /\ fdTodo' = [fdTodo EXCEPT ![t] = Tail(fdTodo[t])]
<1> DEFINE s == fdTodo[t]  h == s[1]
<1>1. s \in Seq(Steps) /\ s # <<>> /\ h \in Steps
  BY StepIs
<1>2. h = FdMap!AddRef(p, o) /\ p \in FdMap!Places /\ o \in Obj /\ h.do = "add" /\ h.at = p /\ h.obj = o
  BY DEF Add, FdMap!AddRef
<1>3. fdMem \in Memory
  BY DEF SharedInv, Memory
<1>4. fdTodo' = [fdTodo EXCEPT ![t] = FdMap!Expand(h) \o Tail(s)] /\ fdMem' = FdMap!MemAfter(h) /\ fdPtr' = FdMap!PtrAfter(h)
  BY <1>2, StepIs
<1>5. fdPtr' = Put(fdPtr, p, o)
  BY <1>2, <1>4 DEF FdMap!PtrAfter, Put
<1>6. <<>> \o Tail(s) = Tail(s)
  BY <1>1, RestIs
<1>7. o \in fdMem.live
  <2>1. PICK q \in Reach(t) \cup Inner : fdPtr[q] = o
    BY DEF Add
  <2>2. q \in FdMap!Places
    BY ReachApart, PlacesAre DEF Inner
  <2> QED
    BY <2>1, <2>2, <1>2, PlacesAre DEF SharedInv
<1> DEFINE c == [fdMem.cnt EXCEPT ![o] = fdMem.cnt[o] + 1]  m == [fdMem EXCEPT !.cnt = c]
<1>8. c \in [Obj -> Int]
  BY <1>2, <1>3 DEF Memory
<1>9. m \in Memory /\ m.cnt = c /\ m.live = fdMem.live /\ m.made = fdMem.made /\ m.bad = FALSE
  <2> HIDE DEF c
  <2> QED
    BY <1>8, <1>3 DEF Memory
<1>10. fdMem' = FdMap!Touch(m, o)
  BY <1>2, <1>4 DEF FdMap!MemAfter
<1> HIDE DEF m
<1>11. fdMem' = [m EXCEPT !.bad = FALSE]
  <2>1. (m.bad \/ o \notin m.live) = FALSE
    BY <1>7, <1>9
  <2> QED
    BY <1>10, <2>1 DEF FdMap!Touch
<1>12. fdMem' \in Memory /\ fdMem'.cnt = c /\ fdMem'.live = fdMem.live /\ fdMem'.made = fdMem.made
  <2> HIDE DEF c
  <2> QED
    BY <1>9, <1>11 DEF Memory
<1>13. FdMap!Expand(h) = <<>>
  BY <1>2 DEF FdMap!Expand
<1> QED
  BY <1>4, <1>5, <1>6, <1>7, <1>12, <1>13

\* Two places are exchanged.
LEMMA SwapDoes ==
    ASSUME SharedInv, NEW t \in FdThread, FdMap!Step(t), NEW p, NEW q, Swap(t, p, q)
    PROVE  /\ p \in FdMap!Places /\ q \in FdMap!Places
           /\ fdPtr' = [fdPtr EXCEPT ![p] = fdPtr[q], ![q] = fdPtr[p]]
           /\ fdMem' = fdMem
           /\ fdTodo' = [fdTodo EXCEPT ![t] = Tail(fdTodo[t])]
<1> DEFINE s == fdTodo[t]  h == s[1]
<1>1. s \in Seq(Steps) /\ s # <<>> /\ h \in Steps
  BY StepIs
<1>2. h = FdMap!SwapWith(p, q) /\ h.do = "swap" /\ h.at = p /\ h.with = q
  BY DEF Swap, FdMap!SwapWith
<1>3. p \in FdMap!Places /\ q \in FdMap!Places
  BY ReachApart DEF Swap
<1>4. fdTodo' = [fdTodo EXCEPT ![t] = FdMap!Expand(h) \o Tail(s)] /\ fdMem' = fdMem /\ fdPtr' = FdMap!PtrAfter(h)
  BY <1>2, StepIs
<1>5. fdPtr' = [fdPtr EXCEPT ![p] = fdPtr[q], ![q] = fdPtr[p]]
  BY <1>2, <1>4 DEF FdMap!PtrAfter
<1>6. <<>> \o Tail(s) = Tail(s)
  BY <1>1, RestIs
<1>7. FdMap!Expand(h) = <<>>
  BY <1>2 DEF FdMap!Expand
<1> QED
  BY <1>3, <1>4, <1>5, <1>6, <1>7

\* An object is deleted, and will give back what it holds.
LEMMA DelDoes ==
    ASSUME SharedInv, NEW t \in FdThread, FdMap!Step(t), NEW o, Del(t, o)
    PROVE  /\ fdPtr' = fdPtr
           /\ fdMem' \in Memory /\ fdMem'.live = fdMem.live \ {o} /\ fdMem'.made = fdMem.made /\ fdMem'.cnt = fdMem.cnt
           /\ fdTodo' = [fdTodo EXCEPT ![t] = IF fdPtr[FdMap!Inside(o)] # FdMap!Null
                                              THEN <<FdMap!SubRef(FdMap!Inside(o))>> \o Tail(fdTodo[t])
                                              ELSE Tail(fdTodo[t])]
<1> DEFINE s == fdTodo[t]  h == s[1]
<1>1. s \in Seq(Steps) /\ s # <<>> /\ h \in Steps
  BY StepIs
<1>2. h = FdMap!Delete(o) /\ h.do = "delete" /\ h.at = FdMap!Inside(o) /\ h.obj = o /\ o \in fdMem.live
  BY DEF Del, FdMap!Delete
<1>3. fdMem \in Memory
  BY DEF SharedInv, Memory
<1>4. fdTodo' = [fdTodo EXCEPT ![t] = FdMap!Expand(h) \o Tail(s)] /\ fdMem' = FdMap!MemAfter(h) /\ fdPtr' = FdMap!PtrAfter(h)
  BY <1>2, StepIs
<1>5. fdPtr' = fdPtr
  BY <1>2, <1>4 DEF FdMap!PtrAfter
<1>6. <<>> \o Tail(s) = Tail(s)
  BY <1>1, RestIs
<1> DEFINE m == FdMap!Touch(fdMem, o)
<1>7. m = [fdMem EXCEPT !.bad = FALSE]
  <2>1. (fdMem.bad \/ o \notin fdMem.live) = FALSE
    BY <1>2, <1>3 DEF Memory
  <2> QED
    BY <2>1 DEF FdMap!Touch
<1>8. fdMem' = [m EXCEPT !.live = m.live \ {o}]
  BY <1>2, <1>4 DEF FdMap!MemAfter
<1> HIDE DEF m
<1>9. fdMem' \in Memory /\ fdMem'.live = fdMem.live \ {o} /\ fdMem'.made = fdMem.made /\ fdMem'.cnt = fdMem.cnt
  BY <1>3, <1>7, <1>8 DEF Memory
<1>10. FdMap!Expand(h) = IF fdPtr[FdMap!Inside(o)] # FdMap!Null THEN <<FdMap!SubRef(FdMap!Inside(o))>> ELSE <<>>
  BY <1>2 DEF FdMap!Expand, FdMap!Seq1
<1> QED
  BY <1>4, <1>5, <1>6, <1>9, <1>10

\* What a function gives on a finite set is a finite set.
LEMMA FiniteImage ==
    ASSUME NEW S, IsFiniteSet(S), NEW m, DOMAIN m = S, m = [x \in S |-> m[x]]
    PROVE  IsFiniteSet({m[x] : x \in S})
<1> DEFINE T == {m[x] : x \in S}
<1>1. m \in Surjection(S, T)
  BY DEF Surjection
<1> HIDE DEF T
<1> QED
  BY <1>1, FS_Surjection DEF T

\* There are finitely many places.
LEMMA PlacesFinite == IsFiniteSet(FdMap!Places)
<1>1. IsFiniteSet(FdThread) /\ IsFiniteSet(Obj)
  BY FdMapAssumption
<1>2. IsFiniteSet(Fd)
  <2>1. PICK lo, hi \in Nat : Fd = {lo, hi}
    BY FdMapAssumption
  <2>2. IsFiniteSet({lo} \cup {hi})
    BY FS_Singleton, FS_Union
  <2>3. Fd = {lo} \cup {hi}
    BY <2>1
  <2> QED
    BY <2>2, <2>3
<1>3. IsFiniteSet({FdMap!Mine(t) : t \in FdThread})
  <2> DEFINE m == [t \in FdThread |-> FdMap!Mine(t)]
  <2>1. IsFiniteSet({m[t] : t \in FdThread})
    BY <1>1, FiniteImage
  <2>2. {m[t] : t \in FdThread} = {FdMap!Mine(t) : t \in FdThread}
    OBVIOUS
  <2> QED
    BY <2>1, <2>2
<1>4. IsFiniteSet({FdMap!Other(t) : t \in FdThread})
  <2> DEFINE m == [t \in FdThread |-> FdMap!Other(t)]
  <2>1. IsFiniteSet({m[t] : t \in FdThread})
    BY <1>1, FiniteImage
  <2>2. {m[t] : t \in FdThread} = {FdMap!Other(t) : t \in FdThread}
    OBVIOUS
  <2> QED
    BY <2>1, <2>2
<1>5. IsFiniteSet({FdMap!Slot(fd) : fd \in Fd})
  <2> DEFINE m == [fd \in Fd |-> FdMap!Slot(fd)]
  <2>1. IsFiniteSet({m[fd] : fd \in Fd})
    BY <1>2, FiniteImage
  <2>2. {m[fd] : fd \in Fd} = {FdMap!Slot(fd) : fd \in Fd}
    OBVIOUS
  <2> QED
    BY <2>1, <2>2
<1>6. IsFiniteSet({FdMap!Inside(o) : o \in Obj})
  <2> DEFINE m == [o \in Obj |-> FdMap!Inside(o)]
  <2>1. IsFiniteSet({m[o] : o \in Obj})
    BY <1>1, FiniteImage
  <2>2. {m[o] : o \in Obj} = {FdMap!Inside(o) : o \in Obj}
    OBVIOUS
  <2> QED
    BY <2>1, <2>2
<1> DEFINE A == {FdMap!Mine(t) : t \in FdThread}  B == {FdMap!Other(t) : t \in FdThread}
           C == {FdMap!Slot(fd) : fd \in Fd}  D == {FdMap!Inside(o) : o \in Obj}
<1>7. FdMap!Places = A \cup B \cup C \cup D
  BY DEF FdMap!Places
<1> HIDE DEF A, B, C, D
<1>8. IsFiniteSet(A \cup B)
  BY <1>3, <1>4, FS_Union DEF A, B
<1>9. IsFiniteSet((A \cup B) \cup C)
  BY <1>5, <1>8, FS_Union DEF C
<1>10. IsFiniteSet((A \cup B \cup C) \cup D)
  BY <1>6, <1>9, FS_Union DEF D
<1> QED
  BY <1>7, <1>10

\* They are finitely many.
LEMMA HeldFinite == \A f, o : IsFiniteSet(HeldAt(f, o)) /\ Cardinality(HeldAt(f, o)) \in Nat
<1> SUFFICES ASSUME NEW f, NEW o  PROVE IsFiniteSet(HeldAt(f, o)) /\ Cardinality(HeldAt(f, o)) \in Nat
  OBVIOUS
<1>1. HeldAt(f, o) \subseteq FdMap!Places
  BY DEF HeldAt
<1>2. IsFiniteSet(HeldAt(f, o))
  BY <1>1, PlacesFinite, FS_Subset
<1> QED
  BY <1>2, FS_CardinalityType

\* A pointer that is cleared is one less for its object and none for the others.
LEMMA HeldCleared ==
    ASSUME NEW f \in [FdMap!Places -> Obj \cup {FdMap!Null}], NEW p \in FdMap!Places, f[p] \in Obj, NEW o \in Obj
    PROVE  Cardinality(HeldAt([f EXCEPT ![p] = FdMap!Null], o))
               = Cardinality(HeldAt(f, o)) - (IF o = f[p] THEN 1 ELSE 0)
<1> DEFINE g == [f EXCEPT ![p] = FdMap!Null]
<1>1. \A q \in FdMap!Places : g[q] = IF q = p THEN FdMap!Null ELSE f[q]
  OBVIOUS
<1>2. FdMap!Null \notin Obj
  BY PlacesAre
<1> HIDE DEF g
<1>3. CASE o = f[p]
  <2>1. HeldAt(g, o) = HeldAt(f, o) \ {p} /\ p \in HeldAt(f, o)
    BY <1>1, <1>2, <1>3 DEF HeldAt
  <2>2. Cardinality(HeldAt(f, o) \ {p}) = Cardinality(HeldAt(f, o)) - 1
    BY <2>1, HeldFinite, FS_RemoveElement
  <2> QED
    BY <2>1, <2>2, <1>3 DEF g
<1>4. CASE o # f[p]
  <2>1. HeldAt(g, o) = HeldAt(f, o)
    BY <1>1, <1>2, <1>4 DEF HeldAt
  <2> QED
    BY <2>1, <1>4, HeldFinite DEF g
<1> QED
  BY <1>3, <1>4

\* A null pointer that is set is one more for its object and none for the others.
LEMMA HeldSet ==
    ASSUME NEW f \in [FdMap!Places -> Obj \cup {FdMap!Null}], NEW p \in FdMap!Places, f[p] = FdMap!Null,
           NEW x \in Obj, NEW o \in Obj
    PROVE  Cardinality(HeldAt(Put(f, p, x), o)) = Cardinality(HeldAt(f, o)) + (IF o = x THEN 1 ELSE 0)
<1> DEFINE g == Put(f, p, x)
<1>1. \A q \in FdMap!Places : g[q] = IF q = p THEN x ELSE f[q]
  BY DEF Put
<1>2. FdMap!Null \notin Obj
  BY PlacesAre
<1> HIDE DEF g
<1>3. CASE o = x
  <2>1. HeldAt(g, o) = HeldAt(f, o) \cup {p} /\ p \notin HeldAt(f, o)
    BY <1>1, <1>2, <1>3 DEF HeldAt
  <2>2. Cardinality(HeldAt(f, o) \cup {p}) = Cardinality(HeldAt(f, o)) + 1
    BY <2>1, HeldFinite, FS_AddElement
  <2> QED
    BY <2>1, <2>2, <1>3 DEF g
<1>4. CASE o # x
  <2>1. HeldAt(g, o) = HeldAt(f, o)
    BY <1>1, <1>2, <1>4 DEF HeldAt
  <2> QED
    BY <2>1, <1>4, HeldFinite DEF g
<1> QED
  BY <1>3, <1>4

\* An exchange is none for all.
LEMMA HeldSwapped ==
    ASSUME NEW f \in [FdMap!Places -> Obj \cup {FdMap!Null}], NEW p \in FdMap!Places, NEW q \in FdMap!Places, p # q,
           NEW o \in Obj
    PROVE  Cardinality(HeldAt([f EXCEPT ![p] = f[q], ![q] = f[p]], o)) = Cardinality(HeldAt(f, o))
<1> DEFINE g == [f EXCEPT ![p] = f[q], ![q] = f[p]]
           H == HeldAt(f, o)  G == HeldAt(g, o)
<1>1. \A r \in FdMap!Places : g[r] = IF r = p THEN f[q] ELSE IF r = q THEN f[p] ELSE f[r]
  OBVIOUS
<1> HIDE DEF g
<1>2. ASSUME NEW a \in FdMap!Places, NEW b \in FdMap!Places, a # b, f[a] = o, f[b] # o, G = (H \ {a}) \cup {b}
      PROVE  Cardinality(G) = Cardinality(H)
  <2>1. a \in H /\ b \notin H \ {a}
    BY <1>2 DEF HeldAt
  <2> HIDE DEF H, G
  <2>2. IsFiniteSet(H) /\ Cardinality(H) \in Nat
    BY HeldFinite DEF H
  <2>3. IsFiniteSet(H \ {a}) /\ Cardinality(H \ {a}) = Cardinality(H) - 1
    BY <2>1, <2>2, FS_RemoveElement
  <2>4. Cardinality((H \ {a}) \cup {b}) = Cardinality(H \ {a}) + 1
    BY <2>1, <2>3, FS_AddElement
  <2> QED
    BY <2>2, <2>3, <2>4, <1>2
<1>3. CASE f[p] = o /\ f[q] = o
  <2>1. G = H
    BY <1>1, <1>3 DEF HeldAt
  <2> QED
    BY <2>1 DEF g
<1>4. CASE f[p] = o /\ f[q] # o
  <2>1. G = (H \ {p}) \cup {q}
    BY <1>1, <1>4 DEF HeldAt
  <2> QED
    BY <2>1, <1>2, <1>4 DEF g
<1>5. CASE f[p] # o /\ f[q] = o
  <2>1. G = (H \ {q}) \cup {p}
    BY <1>1, <1>5 DEF HeldAt
  <2> QED
    BY <2>1, <1>2, <1>5 DEF g
<1>6. CASE f[p] # o /\ f[q] # o
  <2>1. G = H
    BY <1>1, <1>6 DEF HeldAt
  <2> QED
    BY <2>1 DEF g
<1> QED
  BY <1>3, <1>4, <1>5, <1>6

\* What only one place holds.
LEMMA HeldOnce ==
    ASSUME NEW f, NEW o, NEW p \in HeldAt(f, o), Cardinality(HeldAt(f, o)) <= 1
    PROVE  HeldAt(f, o) = {p}
<1> DEFINE H == HeldAt(f, o)
<1>1. IsFiniteSet(H) /\ Cardinality(H) \in Nat
  BY HeldFinite
<1> HIDE DEF H
<1>2. IsFiniteSet(H \ {p}) /\ Cardinality(H \ {p}) = Cardinality(H) - 1 /\ Cardinality(H \ {p}) \in Nat
  <2>1. p \in H
    BY DEF H
  <2>2. IsFiniteSet(H \ {p}) /\ Cardinality(H \ {p}) = Cardinality(H) - 1
    BY <2>1, <1>1, FS_RemoveElement
  <2> QED
    BY <2>2, FS_CardinalityType
<1>3. Cardinality(H \ {p}) = 0
  BY <1>1, <1>2 DEF H
<1>4. H \ {p} = {}
  BY <1>2, <1>3, FS_EmptySet
<1> QED
  BY <1>4 DEF H

\* What all steps have in common: objects are deleted one at a time and by Del only;
\* pointers change where the step writes, at places of the thread, inside objects that
\* are gone or inside one that only the thread has; and a pointer set is copied from a
\* place of the thread or from inside an object.
StepEffect(t) ==
    LET s == fdTodo[t]
    IN  /\ fdPtr' \in [FdMap!Places -> Obj \cup {FdMap!Null}]
        /\ fdMem' \in Memory /\ fdMem'.made = fdMem.made /\ fdMem'.live \subseteq fdMem.live
        /\ \A o \in fdMem.live : o \in fdMem'.live \/ (s[1] = FdMap!Delete(o) /\ Free(fdPtr, o))
        /\ \A o : s[1] = FdMap!Delete(o) => o \notin fdMem'.live
        /\ \A q \in FdMap!Places : ~Writes(s[1], q) => fdPtr'[q] = fdPtr[q]
        /\ \A q \in FdMap!Places : Writes(s[1], q) =>
              \/ q \in Reach(t)
              \/ \E x \in Obj : /\ q = FdMap!Inside(x)
                                /\ \/ x \in fdMem.made \ fdMem.live
                                   \/ Len(s) = 1 /\ \A r \in FdMap!Places : fdPtr[r] = x <=> r = FdMap!Mine(t)
        /\ \A q \in FdMap!Places : \/ fdPtr'[q] \in {fdPtr[q], FdMap!Null}
                                   \/ \E r \in Reach(t) \cup Inner : fdPtr[r] = fdPtr'[q]
        /\ \A p \in FdMap!Places : s[1] = FdMap!SubRef(p) => fdPtr'[p] = FdMap!Null
        /\ \A p, q \in FdMap!Places : s[1] = FdMap!SwapWith(q, p) => fdPtr'[p] = fdPtr[q]

\* What is left of its list: the rest, after a step that Beyond speaks of or none.
RestAfter(t) ==
    LET s == fdTodo[t]
        r == fdTodo'[t]
    IN  /\ fdTodo' = [fdTodo EXCEPT ![t] = r]
        /\ \/ r = Tail(s)
           \/ \E o \in fdMem'.live : r = <<FdMap!Delete(o)>> \o Tail(s) /\ Free(fdPtr', o) /\ ~Free(fdPtr, o)
           \/ \E x \in fdMem'.made \ fdMem'.live : r = <<FdMap!SubRef(FdMap!Inside(x))>> \o Tail(s)

\* A reference given back.
LEMMA SubEffect ==
    ASSUME SharedInv, NEW t \in FdThread, FdMap!Step(t), NEW p, Sub(t, p)
    PROVE  StepEffect(t) /\ RestAfter(t)
<1> DEFINE s == fdTodo[t]  f == fdPtr  g == fdPtr'  o == fdPtr[p]
<1>1. f \in [FdMap!Places -> Obj \cup {FdMap!Null}] /\ fdTodo \in [FdThread -> Seq(Steps)] /\ fdMem.live \subseteq Obj
      /\ fdMem.made \subseteq Obj
  BY DEF SharedInv
<1>2. s[1] = FdMap!SubRef(p) /\ p \in FdMap!Places /\ (p \in Reach(t) \/ \E x \in fdMem.made \ fdMem.live : p = FdMap!Inside(x))
  BY DEF Sub
<1>3. g = [f EXCEPT ![p] = FdMap!Null] /\ fdMem' \in Memory /\ fdMem'.live = fdMem.live /\ fdMem'.made = fdMem.made
  BY SubDoes
<1>4. /\ g \in [FdMap!Places -> Obj \cup {FdMap!Null}]
      /\ \A q \in FdMap!Places : g[q] = IF q = p THEN FdMap!Null ELSE f[q]
  BY <1>1, <1>2, <1>3
<1>5. \A q : Writes(s[1], q) <=> q = p
  BY <1>2, StepWrites
<1>6. \A a : s[1] # FdMap!Delete(a)
  BY <1>2, StepsDiffer
<1>7. \A a, b : s[1] # FdMap!SwapWith(a, b)
  BY <1>2, StepsDiffer
<1>8. \A a : s[1] = FdMap!SubRef(a) => a = p
  BY <1>2, StepsDiffer
<1>9. StepEffect(t)
  BY <1>1, <1>2, <1>3, <1>4, <1>5, <1>6, <1>7, <1>8 DEF StepEffect
<1>10. CASE o = FdMap!Null
  <2>1. fdTodo' = [fdTodo EXCEPT ![t] = Tail(s)]
    BY <1>10, SubDoes
  <2>2. fdTodo'[t] = Tail(s)
    BY <2>1, <1>1
  <2> QED
    BY <2>1, <2>2, <1>9 DEF RestAfter
<1>11. CASE o # FdMap!Null
  <2>1. o \in Obj /\ o \in fdMem.live /\ p \in HeldAt(f, o) /\ fdMem.cnt[o] = Cardinality(HeldAt(f, o))
    BY <1>1, <1>2, <1>11 DEF SharedInv, HeldAt
  <2>2. fdTodo' = [fdTodo EXCEPT ![t] = IF fdMem.cnt[o] <= 1 THEN <<FdMap!Delete(o)>> \o Tail(s) ELSE Tail(s)]
    BY <1>11, SubDoes
  <2>3. fdTodo'[t] = IF fdMem.cnt[o] <= 1 THEN <<FdMap!Delete(o)>> \o Tail(s) ELSE Tail(s)
    BY <2>2, <1>1
  <2>4. CASE fdMem.cnt[o] <= 1
    <3>1. HeldAt(f, o) = {p}
      BY <2>1, <2>4, HeldOnce
    <3>2. Free(g, o) /\ ~Free(f, o)
      BY <3>1, <1>2, <1>4, <1>11 DEF HeldAt, Free
    <3> QED
      BY <3>2, <2>1, <2>2, <2>3, <2>4, <1>3, <1>9 DEF RestAfter
  <2>5. CASE ~(fdMem.cnt[o] <= 1)
    BY <2>2, <2>3, <2>5, <1>9 DEF RestAfter
  <2> QED
    BY <2>4, <2>5
<1> QED
  BY <1>10, <1>11

\* One taken.
LEMMA AddEffect ==
    ASSUME SharedInv, NEW t \in FdThread, FdMap!Step(t), NEW p, NEW o, Add(t, p, o)
    PROVE  StepEffect(t) /\ RestAfter(t)
<1> DEFINE s == fdTodo[t]  f == fdPtr  g == fdPtr'
<1>1. f \in [FdMap!Places -> Obj \cup {FdMap!Null}] /\ fdTodo \in [FdThread -> Seq(Steps)]
  BY DEF SharedInv
<1>2. /\ s[1] = FdMap!AddRef(p, o) /\ p \in FdMap!Places /\ o \in Obj
      /\ \E q \in Reach(t) \cup Inner : f[q] = o
      /\ \/ p \in Reach(t)
         \/ \E x \in Obj : p = FdMap!Inside(x) /\ Len(s) = 1 /\ \A q \in FdMap!Places : f[q] = x <=> q = FdMap!Mine(t)
  BY DEF Add
<1>3. g = Put(f, p, o) /\ fdMem' \in Memory /\ fdMem'.live = fdMem.live /\ fdMem'.made = fdMem.made
      /\ fdTodo' = [fdTodo EXCEPT ![t] = Tail(s)]
  BY AddDoes
<1>4. /\ g \in [FdMap!Places -> Obj \cup {FdMap!Null}]
      /\ \A q \in FdMap!Places : g[q] = IF q = p THEN o ELSE f[q]
  BY <1>1, <1>2, <1>3 DEF Put
<1>5. \A q : Writes(s[1], q) <=> q = p
  BY <1>2, StepWrites
<1>6. \A a : s[1] # FdMap!Delete(a)
  BY <1>2, StepsDiffer
<1>7. \A a, b : s[1] # FdMap!SwapWith(a, b)
  BY <1>2, StepsDiffer
<1>8. \A a : s[1] # FdMap!SubRef(a)
  BY <1>2, StepsDiffer
<1>9. StepEffect(t)
  BY <1>2, <1>3, <1>4, <1>5, <1>6, <1>7, <1>8 DEF StepEffect
<1>10. fdTodo'[t] = Tail(s)
  BY <1>1, <1>3
<1> QED
  BY <1>3, <1>9, <1>10 DEF RestAfter

\* An exchange.
LEMMA SwapEffect ==
    ASSUME SharedInv, NEW t \in FdThread, FdMap!Step(t), NEW p, NEW q, Swap(t, p, q)
    PROVE  StepEffect(t) /\ RestAfter(t)
<1> DEFINE s == fdTodo[t]  f == fdPtr  g == fdPtr'
<1>1. f \in [FdMap!Places -> Obj \cup {FdMap!Null}] /\ fdTodo \in [FdThread -> Seq(Steps)] /\ fdMem \in Memory
  BY DEF SharedInv, Memory
<1>2. s[1] = FdMap!SwapWith(p, q) /\ p \in Reach(t) /\ q \in Reach(t) /\ p # q
  BY DEF Swap
<1>3. /\ p \in FdMap!Places /\ q \in FdMap!Places
      /\ g = [f EXCEPT ![p] = f[q], ![q] = f[p]] /\ fdMem' = fdMem
      /\ fdTodo' = [fdTodo EXCEPT ![t] = Tail(s)]
  BY SwapDoes
<1>4. /\ g \in [FdMap!Places -> Obj \cup {FdMap!Null}]
      /\ \A r \in FdMap!Places : g[r] = IF r = q THEN f[p] ELSE IF r = p THEN f[q] ELSE f[r]
  BY <1>1, <1>3
<1>5. \A r : Writes(s[1], r) <=> r \in {p, q}
  BY <1>2, StepWrites
<1>6. \A a : s[1] # FdMap!Delete(a)
  BY <1>2, StepsDiffer
<1>7. \A a, b : s[1] = FdMap!SwapWith(a, b) => a = p /\ b = q
  <2>1. \A a, b : FdMap!SwapWith(p, q) = FdMap!SwapWith(a, b) => p = a /\ q = b
    BY StepsDiffer
  <2> QED
    BY <2>1, <1>2
<1>8. \A a : s[1] # FdMap!SubRef(a)
  BY <1>2, StepsDiffer
<1>9. StepEffect(t)
  BY <1>1, <1>2, <1>3, <1>4, <1>5, <1>6, <1>7, <1>8 DEF StepEffect
<1>10. fdTodo'[t] = Tail(s)
  BY <1>1, <1>3
<1> QED
  BY <1>3, <1>9, <1>10 DEF RestAfter

\* A deletion.
LEMMA DelEffect ==
    ASSUME SharedInv, NEW t \in FdThread, FdMap!Step(t), NEW o, Del(t, o)
    PROVE  StepEffect(t) /\ RestAfter(t)
<1> DEFINE s == fdTodo[t]  f == fdPtr  g == fdPtr'
<1>1. f \in [FdMap!Places -> Obj \cup {FdMap!Null}] /\ fdTodo \in [FdThread -> Seq(Steps)] /\ fdMem.live \subseteq fdMem.made
  BY DEF SharedInv
<1>2. s[1] = FdMap!Delete(o) /\ o \in fdMem.live /\ Free(f, o)
  BY DEF Del
<1>3. g = f /\ fdMem' \in Memory /\ fdMem'.live = fdMem.live \ {o} /\ fdMem'.made = fdMem.made
  BY DelDoes
<1>4. /\ fdTodo' = [fdTodo EXCEPT ![t] = IF f[FdMap!Inside(o)] # FdMap!Null
                                      THEN <<FdMap!SubRef(FdMap!Inside(o))>> \o Tail(s)
                                      ELSE Tail(s)]
  BY DelDoes
<1>5. \A q : ~Writes(s[1], q)
  BY <1>2, StepWrites
<1>6. \A a : s[1] = FdMap!Delete(a) => a = o
  <2>1. \A a : FdMap!Delete(o) = FdMap!Delete(a) => o = a
    BY StepsDiffer
  <2> QED
    BY <2>1, <1>2
<1>7. \A a, b : s[1] # FdMap!SwapWith(a, b)
  BY <1>2, StepsDiffer
<1>8. \A a : s[1] # FdMap!SubRef(a)
  BY <1>2, StepsDiffer
<1>9. StepEffect(t)
  BY <1>1, <1>2, <1>3, <1>5, <1>6, <1>7, <1>8 DEF StepEffect
<1>10. fdTodo'[t] = IF f[FdMap!Inside(o)] # FdMap!Null THEN <<FdMap!SubRef(FdMap!Inside(o))>> \o Tail(s) ELSE Tail(s)
  BY <1>1, <1>4
<1>11. o \in fdMem'.made \ fdMem'.live
  BY <1>1, <1>2, <1>3
<1> QED
  BY <1>4, <1>9, <1>10, <1>11 DEF RestAfter

\* The lock changes hands for no other thread.
LEMMA ReachStays ==
    ASSUME SharedInv, NEW t \in FdThread, FdMap!Step(t), NEW u \in FdThread, u # t \/ fdTodo'[t] # <<>>
    PROVE  Reach(u)' = Reach(u)
<1>1. fdLock' = IF fdLock = t /\ fdTodo'[t] = <<>> THEN FdMap!NoThread ELSE fdLock
  BY StepIs
<1>2. FdMap!NoThread # u
  BY FdMapAssumption DEF FdMap!NoThread
<1>3. fdLock' = u <=> fdLock = u
  BY <1>1, <1>2
<1> QED
  BY <1>3 DEF Reach, OwnPlaces, TablePlaces

\* The steps of other threads stay what they are.
LEMMA OthersTodo ==
    ASSUME SharedInv, NEW t \in FdThread, FdMap!Step(t), StepEffect(t), RestAfter(t), NEW u \in FdThread, u # t
    PROVE  TodoSound(u)'
<1> DEFINE s == fdTodo[t]  w == fdTodo[u]  f == fdPtr  g == fdPtr'
<1>1. /\ f \in [FdMap!Places -> Obj \cup {FdMap!Null}] /\ fdTodo \in [FdThread -> Seq(Steps)] /\ fdMem \in Memory
      /\ \A p \in FdMap!Places : f[p] # FdMap!Null => f[p] \in fdMem.live
      /\ fdMem.live \subseteq fdMem.made /\ fdMem.made \subseteq Obj
      /\ \A o \in Obj : ~(Deletes(t, o) /\ Deletes(u, o))
  BY DEF SharedInv, Memory
<1>2. fdTodo'[u] = w
  BY <1>1 DEF RestAfter
<1>3. Reach(u)' = Reach(u)
  BY ReachStays
<1>4. /\ Reach(u) \subseteq FdMap!Places /\ OwnPlaces(u) \subseteq Reach(u) /\ OwnPlaces(t) \subseteq Reach(t)
      /\ Reach(t) \cap Reach(u) = {} /\ Reach(u) \cap Inner = {}
  BY ReachApart
<1>5. /\ \A q \in FdMap!Places : ~Writes(s[1], q) => g[q] = f[q]
      /\ \A q \in FdMap!Places : Writes(s[1], q) =>
            \/ q \in Reach(t)
            \/ \E x \in Obj : /\ q = FdMap!Inside(x)
                              /\ \/ x \in fdMem.made \ fdMem.live
                                 \/ Len(s) = 1 /\ \A r \in FdMap!Places : f[r] = x <=> r = FdMap!Mine(t)
      /\ \A q \in FdMap!Places : g[q] \in {f[q], FdMap!Null} \/ \E r \in Reach(t) \cup Inner : f[r] = g[q]
  BY DEF StepEffect
<1>6. \A q \in Reach(u) : g[q] = f[q]
  BY <1>4, <1>5 DEF Inner
<1>7. ASSUME NEW q \in Reach(u), f[q] \in Obj  PROVE g[FdMap!Inside(f[q])] = f[FdMap!Inside(f[q])]
  <2> DEFINE x == f[q]  p == FdMap!Inside(x)
  <2>1. p \in FdMap!Places /\ p \in Inner /\ x # FdMap!Null /\ q \in FdMap!Places
    BY <1>4, <1>7, PlacesAre DEF Inner
  <2>2. x \in fdMem.live
    BY <2>1, <1>1
  <2>3. q # FdMap!Mine(t)
    BY <1>4, <1>7 DEF OwnPlaces
  <2>4. p \notin Reach(t)
    BY <2>1, ReachApart
  <2> SUFFICES ~Writes(s[1], p)
    BY <2>1, <1>5
  <2> SUFFICES ASSUME Writes(s[1], p)  PROVE FALSE
    OBVIOUS
  <2>5. PICK y \in Obj : /\ p = FdMap!Inside(y)
                         /\ \/ y \in fdMem.made \ fdMem.live
                            \/ \A r \in FdMap!Places : f[r] = y <=> r = FdMap!Mine(t)
    BY <2>1, <2>4, <1>5
  <2>6. y = x
    BY <2>5, PlacesDiffer
  <2> QED
    BY <2>1, <2>2, <2>3, <2>5, <2>6
<1>8. ASSUME NEW k, Sound(f, w, Reach(u), k)  PROVE Sound(g, w, Reach(u), k)
  BY <1>6, <1>7, <1>8, SoundElsewhere
<1>9. ASSUME Beyond(u), w # <<>>  PROVE Beyond(u)'
  <2>1. CASE \E o \in fdMem.live : w[1] = FdMap!Delete(o) /\ Free(f, o)
    <3>1. PICK o \in fdMem.live : w[1] = FdMap!Delete(o) /\ Free(f, o)
      BY <2>1
    <3>2. Free(g, o)
      <4>1. o # FdMap!Null
        BY <1>1, PlacesAre
      <4>2. \A r \in Reach(t) \cup Inner : r \in FdMap!Places
        BY ReachApart, PlacesAre DEF Inner
      <4> QED
        BY <4>1, <4>2, <3>1, <1>5 DEF Free
    <3>3. Deletes(u, o)
      BY <3>1, <1>9 DEF Deletes
    <3>4. s # <<>>
      BY StepIs
    <3>5. s[1] # FdMap!Delete(o)
      BY <3>3, <3>4, <1>1 DEF Deletes
    <3>6. o \in fdMem'.live
      BY <3>5, <3>1, StepsDiffer DEF StepEffect
    <3> QED
      BY <3>6, <3>1, <3>2, <1>2 DEF Beyond
  <2>2. CASE \E x \in fdMem.made \ fdMem.live : w[1] = FdMap!SubRef(FdMap!Inside(x))
    BY <2>2, <1>2 DEF Beyond, StepEffect
  <2>3. CASE \E x, o \in Obj :
              /\ w = <<FdMap!AddRef(FdMap!Inside(x), o)>>
              /\ \A p \in FdMap!Places : f[p] = x <=> p = FdMap!Mine(u)
              /\ f[FdMap!Inside(x)] = FdMap!Null
              /\ Backed(f, w, OwnPlaces(u), 1, o)
    <3>1. PICK x \in Obj, o \in Obj :
              /\ w = <<FdMap!AddRef(FdMap!Inside(x), o)>>
              /\ \A p \in FdMap!Places : f[p] = x <=> p = FdMap!Mine(u)
              /\ f[FdMap!Inside(x)] = FdMap!Null
              /\ Backed(f, w, OwnPlaces(u), 1, o)
      BY <2>3
    <3>2. FdMap!Mine(u) \in FdMap!Places /\ FdMap!Mine(u) \in Reach(u) /\ f[FdMap!Mine(u)] = x
      BY <3>1, <1>4, PlacesAre DEF OwnPlaces
    <3>3. g[FdMap!Mine(u)] = x /\ g[FdMap!Inside(x)] = FdMap!Null
      BY <3>1, <3>2, <1>6, <1>7
    <3>4. ASSUME NEW p \in FdMap!Places, g[p] = x  PROVE p = FdMap!Mine(u)
      <4> SUFFICES ASSUME p # FdMap!Mine(u)  PROVE FALSE
        OBVIOUS
      <4>1. f[p] # x /\ x # FdMap!Null
        BY <3>1, PlacesAre
      <4>2. PICK r \in Reach(t) \cup Inner : f[r] = x
        BY <4>1, <3>4, <1>5
      <4>3. r \in FdMap!Places
        BY ReachApart, PlacesAre DEF Inner
      <4>4. r = FdMap!Mine(u)
        BY <4>2, <4>3, <3>1
      <4> QED
        BY <4>4, <3>2, <1>4
    <3>5. Backed(g, w, OwnPlaces(u), 1, o)
      BY <3>1, <1>4, <1>6, <1>7 DEF Backed
    <3>6. \A p \in FdMap!Places : g[p] = x <=> p = FdMap!Mine(u)
      BY <3>3, <3>4
    <3> QED
      BY <3>1, <3>3, <3>5, <3>6, <1>2 DEF Beyond, OwnPlaces, Backed, Untouched, Writes
  <2> QED
    BY <2>1, <2>2, <2>3, <1>9 DEF Beyond
<1>10. \A k \in 1 .. Len(w) : Sound(f, w, Reach(u), k) \/ (k = 1 /\ Beyond(u))
  BY DEF SharedInv, TodoSound
<1>11. \A k \in 1 .. Len(w) : Sound(g, w, Reach(u), k) \/ (k = 1 /\ Beyond(u)')
  <2>1. 1 \in 1 .. Len(w) => w # <<>>
    OBVIOUS
  <2> QED
    BY <2>1, <1>8, <1>9, <1>10
<1>12. TodoSound(u)' <=> \A k \in 1 .. Len(w) : Sound(g, w, Reach(u), k) \/ (k = 1 /\ Beyond(u)')
  BY <1>2, <1>3 DEF TodoSound, Sound, Backed, Vacant, Untouched, Writes
<1> QED
  BY <1>11, <1>12

\* And so do its own, but the first.
LEMMA OwnTodo ==
    ASSUME SharedInv, NEW t \in FdThread, FdMap!Step(t), StepEffect(t), RestAfter(t)
    PROVE  TodoSound(t)' /\ fdTodo'[t] \in Seq(Steps)
<1> DEFINE s == fdTodo[t]  r == fdTodo'[t]  f == fdPtr  g == fdPtr'  R == Reach(t)
<1>1. /\ f \in [FdMap!Places -> Obj \cup {FdMap!Null}] /\ fdTodo \in [FdThread -> Seq(Steps)] /\ fdMem \in Memory
      /\ \A p \in FdMap!Places : f[p] # FdMap!Null => f[p] \in fdMem.live
      /\ fdMem.live \subseteq fdMem.made /\ fdMem.made \subseteq Obj
      /\ \A k \in 1 .. Len(s) : Sound(f, s, R, k) \/ (k = 1 /\ Beyond(t))
  BY DEF SharedInv, Memory, TodoSound
<1>2. s \in Seq(Steps) /\ s # <<>> /\ Len(s) \in Nat
  <2>1. s \in Seq(Steps)
    BY <1>1
  <2>2. s # <<>>
    BY StepIs
  <2>3. Len(s) \in Nat
    BY <2>1
  <2> QED
    BY <2>1, <2>2, <2>3
<1>3. /\ R \subseteq FdMap!Places /\ R \cap Inner = {}
  BY ReachApart
<1>4. /\ \A q \in FdMap!Places : ~Writes(s[1], q) => g[q] = f[q]
      /\ \A q \in FdMap!Places : Writes(s[1], q) =>
            \/ q \in R
            \/ \E x \in Obj : /\ q = FdMap!Inside(x)
                              /\ \/ x \in fdMem.made \ fdMem.live
                                 \/ Len(s) = 1 /\ \A a \in FdMap!Places : f[a] = x <=> a = FdMap!Mine(t)
      /\ \A p \in FdMap!Places : s[1] = FdMap!SubRef(p) => g[p] = FdMap!Null
      /\ \A p, q \in FdMap!Places : s[1] = FdMap!SwapWith(q, p) => g[p] = f[q]
      /\ fdMem' \in Memory
  BY DEF StepEffect
<1>5. ASSUME Len(s) # 1, NEW p \in R, ~Writes(s[1], p)
      PROVE  g[p] = f[p] /\ (f[p] \in Obj => g[FdMap!Inside(f[p])] = f[FdMap!Inside(f[p])])
  <2>1. g[p] = f[p] /\ p \in FdMap!Places
    BY <1>3, <1>4, <1>5
  <2>2. ASSUME f[p] \in Obj  PROVE g[FdMap!Inside(f[p])] = f[FdMap!Inside(f[p])]
    <3> DEFINE x == f[p]  i == FdMap!Inside(x)
    <3>1. i \in FdMap!Places /\ i \in Inner /\ i \notin R /\ x \in fdMem.live
      BY <2>1, <2>2, <1>1, <1>3, PlacesAre DEF Inner
    <3> SUFFICES ASSUME Writes(s[1], i)  PROVE FALSE
      BY <3>1, <1>4
    <3>3. \E y \in Obj : i = FdMap!Inside(y) /\ y \in fdMem.made \ fdMem.live
      <4>1. \A q \in FdMap!Places : (q \notin R /\ Writes(s[1], q)) =>
                \E y \in Obj : q = FdMap!Inside(y) /\ (y \in fdMem.made \ fdMem.live \/ Len(s) = 1)
        BY <1>4
      <4> HIDE DEF s, i, R
      <4> QED
        BY <4>1, <3>1, <1>5
    <3>4. PICK y \in Obj : i = FdMap!Inside(y) /\ y \in fdMem.made \ fdMem.live
      BY <3>3
    <3>5. y = x
      BY <3>4, PlacesDiffer
    <3> QED
      BY <3>1, <3>4, <3>5
  <2> QED
    BY <2>1, <2>2
<1>6. ASSUME NEW d \in {0, 1}, r \in Seq(Steps), Len(r) = Len(s) - d,
             \A j \in 1 .. Len(r) : j + d >= 2 => r[j] = s[j + d],
             d = 0 => (\A p \in R : ~Writes(r[1], p)) /\ Beyond(t)'
      PROVE  TodoSound(t)'
  <2>1. Len(r) \in Nat
    BY <1>6
  <2>2. ASSUME NEW k \in 1 .. Len(r), k + d >= 2  PROVE Sound(g, r, R, k)
    <3>1. Len(s) # 1
      BY <2>1, <2>2, <1>2, <1>6
    <3>2. \A j \in 1 .. Len(s) : j >= 2 => Sound(f, s, R, j)
      BY <1>1
    <3>3. \A p \in R : ~Writes(s[1], p) =>
               g[p] = f[p] /\ (f[p] \in Obj => g[FdMap!Inside(f[p])] = f[FdMap!Inside(f[p])])
      BY <3>1, <1>5
    <3>4. \A p \in R : s[1] = FdMap!SubRef(p) => g[p] = FdMap!Null
      BY <1>3, <1>4
    <3>5. \A p, q \in R : s[1] = FdMap!SwapWith(q, p) => g[p] = f[q]
      BY <1>3, <1>4
    <3>6. /\ Len(s) \in Nat /\ Len(r) \in Nat /\ Len(r) = Len(s) - d
          /\ \A j \in 1 .. Len(r) : j + d >= 2 => r[j] = s[j + d]
      BY <2>1, <1>2, <1>6
    <3>7. d = 0 => \A p \in R : ~Writes(r[1], p)
      BY <1>6
    <3>8. Rests(f, g, s, r, R, d)
      BY <3>2, <3>3, <3>4, <3>5, <3>6, <3>7 DEF Rests
    <3> HIDE DEF s, r, f, g, R
    <3> QED
      BY <3>8, <2>2, SoundAfterHead
  <2>3. \A k \in 1 .. Len(r) : Sound(g, r, R, k) \/ (k = 1 /\ Beyond(t)')
    <3> SUFFICES ASSUME NEW k \in 1 .. Len(r), ~(k + d >= 2)  PROVE k = 1 /\ Beyond(t)'
      BY <2>2
    <3>1. k = 1 /\ d = 0
      BY <2>1
    <3> QED
      BY <3>1, <1>6
  <2>4. CASE r = <<>>
    <3>1. Len(r) = 0
      BY <2>4
    <3> QED
      BY <3>1 DEF TodoSound
  <2>5. CASE r # <<>>
    <3>1. Reach(t)' = R
      BY <2>5, ReachStays
    <3>2. TodoSound(t)' <=> \A k \in 1 .. Len(r) : Sound(g, r, R, k) \/ (k = 1 /\ Beyond(t)')
      BY <3>1 DEF TodoSound, Sound, Backed, Vacant, Untouched, Writes
    <3> QED
      BY <3>2, <2>3
  <2> QED
    BY <2>4, <2>5
<1>7. ASSUME r = Tail(s)  PROVE TodoSound(t)' /\ r \in Seq(Steps)
  <2>1. r \in Seq(Steps) /\ Len(r) = Len(s) - 1 /\ \A j \in 1 .. Len(s) - 1 : r[j] = s[j + 1]
    BY <1>2, <1>7, HeadTailProperties
  <2>2. \A j \in 1 .. Len(r) : j + 1 >= 2 => r[j] = s[j + 1]
    BY <2>1
  <2>3. 1 \in {0, 1} /\ 1 # 0
    OBVIOUS
  <2> HIDE DEF r, s, R
  <2> QED
    BY <2>1, <2>2, <2>3, <1>6
<1>8. ASSUME NEW e \in Steps, r = <<e>> \o Tail(s), \A p \in R : ~Writes(e, p), (r[1] = e => Beyond(t)')
      PROVE  TodoSound(t)' /\ r \in Seq(Steps)
  <2>1. r \in Seq(Steps) /\ Len(r) = Len(s) /\ r[1] = e /\ \A j \in 2 .. Len(s) : r[j] = s[j]
    BY <1>2, <1>8, RestIs
  <2>2. Len(r) = Len(s) - 0 /\ \A j \in 1 .. Len(r) : j + 0 >= 2 => r[j] = s[j + 0]
    BY <2>1, <1>2
  <2>3. (\A p \in R : ~Writes(r[1], p)) /\ Beyond(t)'
    BY <2>1, <1>8
  <2> HIDE DEF r, s, R
  <2> QED
    BY <2>1, <2>2, <2>3, <1>6
<1>9. ASSUME NEW o \in fdMem'.live, r = <<FdMap!Delete(o)>> \o Tail(s), Free(g, o)
      PROVE  TodoSound(t)' /\ r \in Seq(Steps)
  <2>1. FdMap!Delete(o) \in Steps
    BY <1>4 DEF Steps, Memory
  <2>2. \A p \in R : ~Writes(FdMap!Delete(o), p)
    BY StepWrites
  <2>3. r[1] = FdMap!Delete(o) => Beyond(t)'
    BY <1>9 DEF Beyond
  <2> QED
    BY <2>1, <2>2, <2>3, <1>8, <1>9
<1>10. ASSUME NEW x \in fdMem'.made \ fdMem'.live, r = <<FdMap!SubRef(FdMap!Inside(x))>> \o Tail(s)
       PROVE  TodoSound(t)' /\ r \in Seq(Steps)
  <2>1. x \in Obj /\ FdMap!Inside(x) \in FdMap!Places /\ FdMap!Inside(x) \in Inner
    BY <1>4, PlacesAre DEF Memory, Inner
  <2>2. FdMap!SubRef(FdMap!Inside(x)) \in Steps
    BY <2>1 DEF Steps
  <2>3. \A p \in R : ~Writes(FdMap!SubRef(FdMap!Inside(x)), p)
    BY <2>1, <1>3, StepWrites
  <2>4. r[1] = FdMap!SubRef(FdMap!Inside(x)) => Beyond(t)'
    BY DEF Beyond
  <2> QED
    BY <2>2, <2>3, <2>4, <1>8, <1>10
<1> QED
  BY <1>2, <1>7, <1>9, <1>10, HeadTailProperties DEF RestAfter

\* No deletion is sound: it goes beyond the places of a thread.
LEMMA SoundNoDelete == \A f, s, R, k, o : Sound(f, s, R, k) => s[k] # FdMap!Delete(o)
<1>1. \A p, o : FdMap!SubRef(p) # FdMap!Delete(o)
  BY StepsDiffer
<1>2. \A p, x, o : FdMap!AddRef(p, x) # FdMap!Delete(o)
  BY StepsDiffer
<1>3. \A p, q, o : FdMap!SwapWith(p, q) # FdMap!Delete(o)
  BY StepsDiffer
<1> QED
  BY <1>1, <1>2, <1>3 DEF Sound

\* What a step to come deletes is an object nobody points to.
LEMMA DeletesFree ==
    ASSUME SharedInv, NEW u \in FdThread, NEW o, Deletes(u, o)
    PROVE  Free(fdPtr, o)
<1>1. fdTodo[u] # <<>> /\ fdTodo[u][1] = FdMap!Delete(o)
  BY DEF Deletes
<1>2. ASSUME NEW x, Del(u, x)  PROVE Free(fdPtr, o)
  <2>1. fdTodo[u][1] = FdMap!Delete(x) /\ Free(fdPtr, x)
    BY <1>2 DEF Del
  <2>2. x = o
    BY <2>1, <1>1, StepsDiffer
  <2> QED
    BY <2>1, <2>2
<1>3. \A p : ~Sub(u, p)
  BY <1>1, StepsDiffer DEF Sub
<1>4. \A p, x : ~Add(u, p, x)
  BY <1>1, StepsDiffer DEF Add
<1>5. \A p, q : ~Swap(u, p, q)
  BY <1>1, StepsDiffer DEF Swap
<1> QED
  BY <1>1, <1>2, <1>3, <1>4, <1>5, HeadIs

\* The counts after a step, and the deletion of what nobody points to any more.
CountsKept(t) ==
    /\ \A o \in Obj : fdMem'.cnt[o] = Cardinality(HeldAt(fdPtr', o))
    /\ \A o \in Obj : (Free(fdPtr', o) /\ ~Free(fdPtr, o)) => fdTodo'[t] # <<>> /\ fdTodo'[t][1] = FdMap!Delete(o)

\* A reference given back.
LEMMA SubCounts ==
    ASSUME SharedInv, NEW t \in FdThread, FdMap!Step(t), NEW p, Sub(t, p)
    PROVE  CountsKept(t)
<1> DEFINE s == fdTodo[t]  f == fdPtr  x == fdPtr[p]
<1>1. /\ f \in [FdMap!Places -> Obj \cup {FdMap!Null}] /\ fdTodo \in [FdThread -> Seq(Steps)] /\ fdMem \in Memory
      /\ \A o \in Obj : fdMem.cnt[o] = Cardinality(HeldAt(f, o))
  BY DEF SharedInv, Memory
<1>2. p \in FdMap!Places /\ fdPtr' = [f EXCEPT ![p] = FdMap!Null]
  BY SubDoes DEF Sub
<1>3. CASE x = FdMap!Null
  <2>1. fdPtr' = f
    BY <1>1, <1>2, <1>3
  <2>2. fdMem'.cnt = fdMem.cnt
    BY <1>3, SubDoes
  <2> QED
    BY <2>1, <2>2, <1>1 DEF CountsKept
<1>4. CASE x # FdMap!Null
  <2>1. x \in Obj
    BY <1>1, <1>2, <1>4
  <2>2. /\ fdMem'.cnt = [fdMem.cnt EXCEPT ![x] = fdMem.cnt[x] - 1]
        /\ fdTodo' = [fdTodo EXCEPT ![t] = IF fdMem.cnt[x] <= 1 THEN <<FdMap!Delete(x)>> \o Tail(s) ELSE Tail(s)]
    BY <1>4, SubDoes
  <2>3. \A o \in Obj : Cardinality(HeldAt(fdPtr', o)) = Cardinality(HeldAt(f, o)) - (IF o = x THEN 1 ELSE 0)
    BY <2>1, <1>1, <1>2, HeldCleared
  <2>4. \A o \in Obj : fdMem'.cnt[o] = fdMem.cnt[o] - (IF o = x THEN 1 ELSE 0)
    BY <2>1, <2>2, <1>1 DEF Memory
  <2>5. \A o \in Obj : fdMem'.cnt[o] = Cardinality(HeldAt(fdPtr', o))
    BY <2>3, <2>4, <1>1
  <2>6. ASSUME NEW o \in Obj, Free(fdPtr', o), ~Free(f, o)  PROVE fdTodo'[t] # <<>> /\ fdTodo'[t][1] = FdMap!Delete(o)
    <3>1. o = x
      BY <2>6, <1>1, <1>2 DEF Free
    <3>2. HeldAt(fdPtr', o) = {}
      BY <2>6 DEF Free, HeldAt
    <3>3. fdMem'.cnt[o] = 0
      BY <3>2, <2>5, FS_EmptySet
    <3>4. fdMem.cnt[x] <= 1
      BY <3>1, <3>3, <2>1, <2>4, <1>1 DEF Memory
    <3>5. fdTodo'[t] = <<FdMap!Delete(x)>> \o Tail(s)
      BY <3>4, <2>2, <1>1
    <3>6. s \in Seq(Steps) /\ s # <<>> /\ FdMap!Delete(x) \in Steps
      <4>1. FdMap!Delete(x) \in Steps
        BY <2>1 DEF Steps
      <4> QED
        BY <4>1, StepIs
    <3>7. /\ fdTodo'[t][1] = FdMap!Delete(x) /\ fdTodo'[t] \in Seq(Steps) /\ Len(fdTodo'[t]) = Len(s)
      BY <3>5, <3>6, RestIs
    <3>8. Len(s) # 0
      BY <3>6
    <3> QED
      BY <3>1, <3>7, <3>8
  <2> QED
    BY <2>5, <2>6 DEF CountsKept
<1> QED
  BY <1>3, <1>4

\* A reference taken.
LEMMA AddCounts ==
    ASSUME SharedInv, NEW t \in FdThread, FdMap!Step(t), NEW p, NEW x, Add(t, p, x)
    PROVE  CountsKept(t)
<1> DEFINE f == fdPtr
<1>1. /\ f \in [FdMap!Places -> Obj \cup {FdMap!Null}] /\ fdMem \in Memory
      /\ \A o \in Obj : fdMem.cnt[o] = Cardinality(HeldAt(f, o))
  BY DEF SharedInv, Memory
<1>2. p \in FdMap!Places /\ x \in Obj /\ f[p] = FdMap!Null /\ FdMap!Null \notin Obj
  BY PlacesAre DEF Add
<1>3. fdPtr' = Put(f, p, x) /\ fdMem'.cnt = [fdMem.cnt EXCEPT ![x] = fdMem.cnt[x] + 1]
  BY AddDoes
<1>4. \A o \in Obj : Cardinality(HeldAt(fdPtr', o)) = Cardinality(HeldAt(f, o)) + (IF o = x THEN 1 ELSE 0)
  BY <1>1, <1>2, <1>3, HeldSet
<1>5. \A o \in Obj : fdMem'.cnt[o] = fdMem.cnt[o] + (IF o = x THEN 1 ELSE 0)
  BY <1>1, <1>2, <1>3 DEF Memory
<1>6. \A o \in Obj : fdMem'.cnt[o] = Cardinality(HeldAt(fdPtr', o))
  BY <1>4, <1>5, <1>1
<1>7. \A o \in Obj : ~Free(f, o) => ~Free(fdPtr', o)
  BY <1>1, <1>2, <1>3 DEF Free, Put
<1> QED
  BY <1>6, <1>7 DEF CountsKept

\* An exchange.
LEMMA SwapCounts ==
    ASSUME SharedInv, NEW t \in FdThread, FdMap!Step(t), NEW p, NEW q, Swap(t, p, q)
    PROVE  CountsKept(t)
<1> DEFINE f == fdPtr
<1>1. /\ f \in [FdMap!Places -> Obj \cup {FdMap!Null}]
      /\ \A o \in Obj : fdMem.cnt[o] = Cardinality(HeldAt(f, o))
  BY DEF SharedInv
<1>2. p \in FdMap!Places /\ q \in FdMap!Places /\ p # q
      /\ fdPtr' = [f EXCEPT ![p] = f[q], ![q] = f[p]] /\ fdMem' = fdMem
  BY SwapDoes DEF Swap
<1>3. \A o \in Obj : Cardinality(HeldAt(fdPtr', o)) = Cardinality(HeldAt(f, o))
  <2> SUFFICES ASSUME NEW o \in Obj
               PROVE  Cardinality(HeldAt([f EXCEPT ![p] = f[q], ![q] = f[p]], o)) = Cardinality(HeldAt(f, o))
    BY <1>2
  <2> QED
    BY <1>1, <1>2, HeldSwapped
<1>4. \A o \in Obj : ~Free(f, o) => ~Free(fdPtr', o)
  BY <1>1, <1>2 DEF Free
<1> QED
  BY <1>1, <1>2, <1>3, <1>4 DEF CountsKept

\* A deletion.
LEMMA DelCounts ==
    ASSUME SharedInv, NEW t \in FdThread, FdMap!Step(t), NEW o, Del(t, o)
    PROVE  CountsKept(t)
  BY DelDoes DEF CountsKept, SharedInv

\* A step of a thread's list keeps the objects right.
LEMMA StepKeeps ==
    ASSUME SharedInv, NEW t \in FdThread, FdMap!Step(t)
    PROVE  SharedInv' /\ StepEffect(t) /\ RestAfter(t)
<1> DEFINE s == fdTodo[t]  r == fdTodo'[t]  f == fdPtr  g == fdPtr'
<1>1. StepEffect(t) /\ RestAfter(t) /\ CountsKept(t)
  <2>1. fdTodo[t] # <<>>
    BY StepIs
  <2>2. ASSUME NEW p, Sub(t, p)  PROVE StepEffect(t) /\ RestAfter(t) /\ CountsKept(t)
    BY <2>2, SubEffect, SubCounts
  <2>3. ASSUME NEW p, NEW o, Add(t, p, o)  PROVE StepEffect(t) /\ RestAfter(t) /\ CountsKept(t)
    BY <2>3, AddEffect, AddCounts
  <2>4. ASSUME NEW p, NEW q, Swap(t, p, q)  PROVE StepEffect(t) /\ RestAfter(t) /\ CountsKept(t)
    BY <2>4, SwapEffect, SwapCounts
  <2>5. ASSUME NEW o, Del(t, o)  PROVE StepEffect(t) /\ RestAfter(t) /\ CountsKept(t)
    BY <2>5, DelEffect, DelCounts
  <2> QED
    BY <2>1, <2>2, <2>3, <2>4, <2>5, HeadIs
<1>2. /\ f \in [FdMap!Places -> Obj \cup {FdMap!Null}] /\ fdTodo \in [FdThread -> Seq(Steps)] /\ fdMem \in Memory
      /\ \A p \in FdMap!Places : f[p] # FdMap!Null => f[p] \in fdMem.live
      /\ fdMem.live \subseteq fdMem.made /\ fdMem.made \subseteq Obj
      /\ fdLock \in FdThread \cup {FdMap!NoThread}
      /\ \A x \in Obj \ fdMem.made : f[FdMap!Inside(x)] = FdMap!Null
      /\ \A o \in fdMem.live : Free(f, o) => \E u \in FdThread : Deletes(u, o)
      /\ \A u, v \in FdThread : u # v => \A o \in Obj : ~(Deletes(u, o) /\ Deletes(v, o))
  BY DEF SharedInv, Memory
<1>3. /\ g \in [FdMap!Places -> Obj \cup {FdMap!Null}]
      /\ fdMem' \in Memory /\ fdMem'.made = fdMem.made /\ fdMem'.live \subseteq fdMem.live
      /\ \A o \in fdMem.live : o \in fdMem'.live \/ (s[1] = FdMap!Delete(o) /\ Free(f, o))
      /\ \A o : s[1] = FdMap!Delete(o) => o \notin fdMem'.live
      /\ \A q \in FdMap!Places : ~Writes(s[1], q) => g[q] = f[q]
      /\ \A q \in FdMap!Places : Writes(s[1], q) =>
            \/ q \in Reach(t)
            \/ \E x \in Obj : /\ q = FdMap!Inside(x)
                              /\ \/ x \in fdMem.made \ fdMem.live
                                 \/ \A a \in FdMap!Places : f[a] = x <=> a = FdMap!Mine(t)
      /\ \A q \in FdMap!Places : g[q] \in {f[q], FdMap!Null} \/ \E a \in Reach(t) \cup Inner : f[a] = g[q]
  BY <1>1 DEF StepEffect
<1>4. Reach(t) \subseteq FdMap!Places /\ Reach(t) \cap Inner = {} /\ Inner \subseteq FdMap!Places
  BY ReachApart, PlacesAre DEF Inner
<1>5. TodoSound(t)' /\ r \in Seq(Steps)
  BY <1>1, OwnTodo
<1>6. fdTodo' = [fdTodo EXCEPT ![t] = r]
  BY <1>1 DEF RestAfter
<1>7. \A u \in FdThread : u # t => fdTodo'[u] = fdTodo[u]
  BY <1>2, <1>6
<1>8. fdTodo' \in [FdThread -> Seq(Steps)]
  BY <1>2, <1>5, <1>6
<1>9. fdLock' \in FdThread \cup {FdMap!NoThread}
  BY <1>2, StepIs
<1>10. \A p \in FdMap!Places : g[p] # FdMap!Null => g[p] \in fdMem'.live
  <2> SUFFICES ASSUME NEW p \in FdMap!Places, g[p] # FdMap!Null  PROVE g[p] \in fdMem'.live
    OBVIOUS
  <2>1. PICK a \in FdMap!Places : f[a] = g[p]
    BY <1>3, <1>4
  <2>2. g[p] \in fdMem.live /\ ~Free(f, g[p])
    BY <2>1, <1>2 DEF Free
  <2> QED
    BY <2>2, <1>3
<1>11. \A x \in Obj \ fdMem'.made : g[FdMap!Inside(x)] = FdMap!Null
  <2> SUFFICES ASSUME NEW x \in Obj, x \notin fdMem.made  PROVE g[FdMap!Inside(x)] = FdMap!Null
    BY <1>3
  <2>1. FdMap!Inside(x) \in FdMap!Places /\ FdMap!Inside(x) \notin Reach(t) /\ f[FdMap!Inside(x)] = FdMap!Null
    BY <1>2, <1>4, PlacesAre DEF Inner
  <2>2. ASSUME NEW y \in Obj, FdMap!Inside(x) = FdMap!Inside(y),
               y \in fdMem.made \ fdMem.live \/ \A a \in FdMap!Places : f[a] = y <=> a = FdMap!Mine(t)
        PROVE  FALSE
    <3>1. y = x
      BY <2>2, PlacesDiffer
    <3>2. f[FdMap!Mine(t)] = x /\ FdMap!Mine(t) \in FdMap!Places
      BY <3>1, <2>2, PlacesAre
    <3> QED
      BY <3>2, <1>2, PlacesAre
  <2>3. ~Writes(s[1], FdMap!Inside(x))
    BY <2>1, <2>2, <1>3
  <2> QED
    BY <2>1, <2>3, <1>3
<1>12. \A u \in FdThread : TodoSound(u)'
  BY <1>1, <1>5, OthersTodo
<1>13. \A o \in fdMem'.live : Free(g, o) => \E u \in FdThread : Deletes(u, o)'
  <2> SUFFICES ASSUME NEW o \in fdMem'.live, Free(g, o)  PROVE \E u \in FdThread : Deletes(u, o)'
    OBVIOUS
  <2>1. CASE Free(f, o)
    <3>1. PICK u \in FdThread : Deletes(u, o)
      BY <2>1, <1>2, <1>3
    <3>2. u # t
      BY <3>1, <1>3 DEF Deletes
    <3> QED
      BY <3>1, <3>2, <1>7 DEF Deletes
  <2>2. CASE ~Free(f, o)
    <3>1. o \in Obj
      BY <1>3 DEF Memory
    <3> QED
      BY <3>1, <2>2, <1>1 DEF CountsKept, Deletes
  <2> QED
    BY <2>1, <2>2
<1>14. \A o \in Obj : Deletes(t, o)' => ~Free(f, o)
  <2> SUFFICES ASSUME NEW o \in Obj, r # <<>>, r[1] = FdMap!Delete(o)  PROVE ~Free(f, o)
    BY DEF Deletes
  <2>1. s \in Seq(Steps) /\ s # <<>>
    BY StepIs
  <2>2. CASE r = Tail(s)
    <3>1. Len(s) \in Nat /\ Len(s) >= 2 /\ r[1] = s[2]
      <4>1. Len(s) \in Nat /\ r \in Seq(Steps) /\ Len(r) = Len(s) - 1 /\ \A j \in 1 .. Len(s) - 1 : r[j] = s[j + 1]
        BY <2>1, <2>2, HeadTailProperties
      <4>2. Len(r) \in Nat /\ Len(r) # 0
        BY <4>1
      <4> HIDE DEF r, s
      <4> QED
        BY <4>1, <4>2
    <3>2. 2 \in 1 .. Len(s) /\ 2 # 1
      BY <3>1
    <3>3. Sound(f, s, Reach(t), 2)
      BY <3>2 DEF SharedInv, TodoSound
    <3> QED
      BY <3>1, <3>3, SoundNoDelete
  <2>3. ASSUME NEW x \in fdMem'.live, r = <<FdMap!Delete(x)>> \o Tail(s), ~Free(f, x)  PROVE ~Free(f, o)
    <3>1. FdMap!Delete(x) \in Steps
      BY <1>3 DEF Steps, Memory
    <3>2. r[1] = FdMap!Delete(x)
      BY <3>1, <2>1, <2>3, RestIs
    <3>3. x = o
      BY <3>2, StepsDiffer
    <3> QED
      BY <3>3, <2>3
  <2>4. ASSUME NEW x \in fdMem'.made \ fdMem'.live, r = <<FdMap!SubRef(FdMap!Inside(x))>> \o Tail(s)  PROVE FALSE
    <3>1. FdMap!SubRef(FdMap!Inside(x)) \in Steps
      BY <1>2, <1>3, PlacesAre DEF Steps
    <3>2. r[1] = FdMap!SubRef(FdMap!Inside(x))
      BY <3>1, <2>1, <2>4, RestIs
    <3> QED
      BY <3>2, StepsDiffer
  <2> QED
    BY <2>2, <2>3, <2>4, <1>1 DEF RestAfter
<1>15. \A u, v \in FdThread : u # v => \A o \in Obj : ~(Deletes(u, o)' /\ Deletes(v, o)')
  <2>1. \A u \in FdThread, o \in Obj : u # t => (Deletes(u, o)' <=> Deletes(u, o))
    BY <1>7 DEF Deletes
  <2>2. ASSUME NEW u \in FdThread, u # t, NEW o \in Obj, Deletes(u, o)', Deletes(t, o)'  PROVE FALSE
    <3>1. Deletes(u, o)
      BY <2>1, <2>2
    <3> QED
      BY <3>1, <2>2, <1>14, DeletesFree
  <2> QED
    BY <2>1, <2>2, <1>2
<1>16. \A o \in Obj : fdMem'.cnt[o] = Cardinality(HeldAt(g, o))
  BY <1>1 DEF CountsKept
<1>17. fdMem' \in [cnt : [Obj -> Int], live : SUBSET Obj, made : SUBSET Obj, bad : {FALSE}] /\ fdMem'.live \subseteq fdMem'.made
  BY <1>2, <1>3 DEF Memory
<1>18. SharedInv'
  BY <1>3, <1>8, <1>9, <1>10, <1>11, <1>12, <1>13, <1>15, <1>16, <1>17
     DEF SharedInv, HeldAt, Free, Deletes
<1> QED
  BY <1>1, <1>18

\* A place among R other than p holds o, or an object that holds it.
Offers(f, R, p, o) ==
    \E q \in R : q # p /\ (f[q] = o \/ (f[q] \in Obj /\ f[FdMap!Inside(f[q])] = o))

\* The empty list is a plan.
LEMMA NoPlan == \A f, R : Plan(f, <<>>, R)
  BY DEF Plan

\* A reference given back.
LEMMA SubPlan ==
    ASSUME NEW f, NEW R, NEW p \in R, R \subseteq FdMap!Places
    PROVE  Plan(f, <<FdMap!SubRef(p)>>, R)
<1>1. FdMap!SubRef(p) \in Steps
  BY DEF Steps
<1> DEFINE a == FdMap!SubRef(p)
<1> HIDE DEF a
<1>2. <<a>> \in Seq(Steps) /\ Len(<<a>>) = 1 /\ <<a>>[1] = a
  BY <1>1 DEF a
<1>3. Sound(f, <<a>>, R, 1)
  BY <1>2 DEF Sound, a
<1>4. Plan(f, <<a>>, R)
  BY <1>2, <1>3 DEF Plan
<1> QED
  BY <1>4 DEF a

\* One taken.
LEMMA AddPlan ==
    ASSUME NEW f, NEW R, NEW p \in R, R \subseteq FdMap!Places, NEW o \in Obj, Offers(f, R, p, o), f[p] = FdMap!Null
    PROVE  Plan(f, <<FdMap!AddRef(p, o)>>, R)
<1> DEFINE a == FdMap!AddRef(p, o)
<1>1. a \in Steps
  BY DEF Steps
<1>2. Backed(f, <<a>>, R, 1, o) /\ Vacant(f, <<a>>, R, 1, p)
  BY DEF Backed, Vacant, Untouched, Offers
<1>3. <<a>>[1] = a
  OBVIOUS
<1>4. Sound(f, <<a>>, R, 1)
  BY <1>2, <1>3 DEF Sound
<1> HIDE DEF a
<1>5. <<a>> \in Seq(Steps) /\ Len(<<a>>) = 1
  BY <1>1
<1>6. Plan(f, <<a>>, R)
  BY <1>4, <1>5 DEF Plan
<1> QED
  BY <1>6 DEF a

\* A list of two steps.
LEMMA TwoPlan ==
    ASSUME NEW f, NEW R, NEW a \in Steps, NEW b \in Steps, Sound(f, <<a, b>>, R, 1), Sound(f, <<a, b>>, R, 2)
    PROVE  Plan(f, <<a, b>>, R)
<1>1. <<a, b>> \in Seq(Steps) /\ Len(<<a, b>>) = 2
  OBVIOUS
<1> QED
  BY <1>1 DEF Plan

\* And of three.
LEMMA ThreePlan ==
    ASSUME NEW f, NEW R, NEW a \in Steps, NEW b \in Steps, NEW c \in Steps,
           Sound(f, <<a, b, c>>, R, 1), Sound(f, <<a, b, c>>, R, 2), Sound(f, <<a, b, c>>, R, 3)
    PROVE  Plan(f, <<a, b, c>>, R)
<1>1. <<a, b, c>> \in Seq(Steps) /\ Len(<<a, b, c>>) = 3
  OBVIOUS
<1> QED
  BY <1>1 DEF Plan

\* One given back and another taken.
LEMMA SubAddPlan ==
    ASSUME NEW f, NEW R, NEW p \in R, R \subseteq FdMap!Places, NEW o \in Obj, Offers(f, R, p, o)
    PROVE  Plan(f, <<FdMap!SubRef(p), FdMap!AddRef(p, o)>>, R)
<1> DEFINE a == FdMap!SubRef(p)  b == FdMap!AddRef(p, o)  s == <<a, b>>
<1>1. a \in Steps /\ b \in Steps
  BY DEF Steps
<1>2. s[1] = a /\ s[2] = b
  OBVIOUS
<1>3. \A q : Writes(a, q) <=> q = p
  BY StepWrites
<1> HIDE DEF s
<1>4. \A q : q # p => Untouched(s, 2, q)
  BY <1>2, <1>3 DEF Untouched
<1>5. Backed(f, s, R, 2, o)
  BY <1>4 DEF Backed, Offers
<1>6. Vacant(f, s, R, 2, p)
  <2>1. 1 \in 1 .. 2 - 1 /\ \A i \in 1 + 1 .. 2 - 1 : ~Writes(s[i], p)
    OBVIOUS
  <2> QED
    BY <2>1, <1>2 DEF Vacant
<1>7. Sound(f, s, R, 1)
  BY <1>2 DEF Sound
<1>8. Sound(f, s, R, 2)
  BY <1>2, <1>5, <1>6 DEF Sound
<1> QED
  BY <1>1, <1>7, <1>8, TwoPlan DEF s

\* Two places exchanged.
LEMMA SwapPlan ==
    ASSUME NEW f, NEW R, NEW p \in R, NEW q \in R, p # q, R \subseteq FdMap!Places
    PROVE  Plan(f, <<FdMap!SwapWith(p, q)>>, R)
<1> DEFINE a == FdMap!SwapWith(p, q)
<1>1. a \in Steps
  BY DEF Steps
<1>2. Untouched(f, 1, p) /\ <<a>>[1] = a /\ Untouched(<<a>>, 1, p)
  BY DEF Untouched
<1>3. Sound(f, <<a>>, R, 1)
  BY <1>2 DEF Sound
<1> HIDE DEF a
<1>4. <<a>> \in Seq(Steps) /\ Len(<<a>>) = 1
  BY <1>1
<1>5. Plan(f, <<a>>, R)
  BY <1>3, <1>4 DEF Plan
<1> QED
  BY <1>5 DEF a

\* Two places exchanged, and the second then given back.
LEMMA SwapSubPlan ==
    ASSUME NEW f, NEW R, NEW p \in R, NEW q \in R, p # q, R \subseteq FdMap!Places
    PROVE  Plan(f, <<FdMap!SwapWith(p, q), FdMap!SubRef(q)>>, R)
<1> DEFINE a == FdMap!SwapWith(p, q)  b == FdMap!SubRef(q)  s == <<a, b>>
<1>1. a \in Steps /\ b \in Steps
  BY DEF Steps
<1>2. s[1] = a /\ s[2] = b
  OBVIOUS
<1> HIDE DEF s
<1>3. Untouched(s, 1, p)
  BY DEF Untouched
<1>4. Sound(f, s, R, 1)
  BY <1>2, <1>3 DEF Sound
<1>5. Sound(f, s, R, 2)
  BY <1>2 DEF Sound
<1> QED
  BY <1>1, <1>4, <1>5, TwoPlan DEF s

\* A null pointer exchanged with q, to which a reference is then taken.
LEMMA SwapAddPlan ==
    ASSUME NEW f, NEW R, NEW p \in R, NEW q \in R, p # q, R \subseteq FdMap!Places, NEW o \in Obj,
           NEW r \in R, r # p, r # q, f[r] = o, f[p] = FdMap!Null
    PROVE  Plan(f, <<FdMap!SwapWith(p, q), FdMap!AddRef(q, o)>>, R)
<1> DEFINE a == FdMap!SwapWith(p, q)  b == FdMap!AddRef(q, o)  s == <<a, b>>
<1>1. a \in Steps /\ b \in Steps
  BY DEF Steps
<1>2. s[1] = a /\ s[2] = b
  OBVIOUS
<1>3. ~Writes(a, r)
  BY StepWrites
<1> HIDE DEF s
<1>4. Untouched(s, 1, p) /\ Untouched(s, 2, r)
  BY <1>2, <1>3 DEF Untouched
<1>5. Backed(f, s, R, 2, o)
  BY <1>4 DEF Backed
<1>6. Vacant(f, s, R, 2, q)
  <2>1. 1 \in 1 .. 2 - 1 /\ \A i \in 1 + 1 .. 2 - 1 : ~Writes(s[i], q)
    OBVIOUS
  <2> QED
    BY <2>1, <1>2 DEF Vacant
<1>7. Sound(f, s, R, 1)
  BY <1>2, <1>4 DEF Sound
<1>8. Sound(f, s, R, 2)
  BY <1>2, <1>5, <1>6 DEF Sound
<1> QED
  BY <1>1, <1>7, <1>8, TwoPlan DEF s

\* A pointer exchanged with q, which is given back for another.
LEMMA SwapSubAddPlan ==
    ASSUME NEW f, NEW R, NEW p \in R, NEW q \in R, p # q, R \subseteq FdMap!Places, NEW o \in Obj,
           NEW r \in R, r # p, r # q, f[r] = o
    PROVE  Plan(f, <<FdMap!SwapWith(p, q), FdMap!SubRef(q), FdMap!AddRef(q, o)>>, R)
<1> DEFINE a == FdMap!SwapWith(p, q)  b == FdMap!SubRef(q)  c == FdMap!AddRef(q, o)  s == <<a, b, c>>
<1>1. a \in Steps /\ b \in Steps /\ c \in Steps
  BY DEF Steps
<1>2. s[1] = a /\ s[2] = b /\ s[3] = c
  OBVIOUS
<1>3. ~Writes(a, r) /\ ~Writes(b, r)
  BY StepWrites
<1> HIDE DEF s
<1>4. Untouched(s, 1, p) /\ Untouched(s, 3, r)
  BY <1>2, <1>3 DEF Untouched
<1>5. Backed(f, s, R, 3, o)
  BY <1>4 DEF Backed
<1>6. Vacant(f, s, R, 3, q)
  <2>1. 2 \in 1 .. 3 - 1 /\ \A i \in 2 + 1 .. 3 - 1 : ~Writes(s[i], q)
    OBVIOUS
  <2> QED
    BY <2>1, <1>2 DEF Vacant
<1>7. Sound(f, s, R, 1)
  BY <1>2, <1>4 DEF Sound
<1>8. Sound(f, s, R, 2)
  BY <1>2 DEF Sound
<1>9. Sound(f, s, R, 3)
  BY <1>2, <1>5, <1>6 DEF Sound
<1> QED
  BY <1>1, <1>7, <1>8, <1>9, ThreePlan DEF s

\* A reference taken to a null pointer, and another given back.
LEMMA AddSubPlan ==
    ASSUME NEW f, NEW R, NEW p \in R, NEW q \in R, R \subseteq FdMap!Places, NEW o \in Obj,
           Offers(f, R, p, o), f[p] = FdMap!Null
    PROVE  Plan(f, <<FdMap!AddRef(p, o), FdMap!SubRef(q)>>, R)
<1> DEFINE a == FdMap!AddRef(p, o)  b == FdMap!SubRef(q)  s == <<a, b>>
<1>1. a \in Steps /\ b \in Steps
  BY DEF Steps
<1>2. s[1] = a /\ s[2] = b
  OBVIOUS
<1> HIDE DEF s
<1>3. Backed(f, s, R, 1, o) /\ Vacant(f, s, R, 1, p)
  BY DEF Backed, Vacant, Untouched, Offers
<1>4. Sound(f, s, R, 1)
  BY <1>2, <1>3 DEF Sound
<1>5. Sound(f, s, R, 2)
  BY <1>2 DEF Sound
<1> QED
  BY <1>1, <1>4, <1>5, TwoPlan DEF s

\* Joined by \o, lists of a few steps.
LEMMA JoinTwo == \A a, b : <<a>> \o <<b>> = <<a, b>>
<1> SUFFICES ASSUME NEW a, NEW b  PROVE <<a>> \o <<b>> = <<a, b>>
  OBVIOUS
<1> DEFINE S == {a, b}  s == <<a>>  r == <<b>>  w == <<a, b>>
<1>1. s \in Seq(S) /\ r \in Seq(S) /\ Len(s) = 1 /\ Len(r) = 1 /\ s[1] = a /\ r[1] = b
  OBVIOUS
<1>2. w \in Seq(S) /\ Len(w) = 2 /\ w[1] = a /\ w[2] = b
  OBVIOUS
<1> HIDE DEF s, r, w, S
<1>3. /\ s \o r \in Seq(S) /\ Len(s \o r) = Len(s) + Len(r)
      /\ \A j \in 1 .. Len(s) + Len(r) : (s \o r)[j] = IF j <= Len(s) THEN s[j] ELSE r[j - Len(s)]
  BY <1>1, ConcatProperties
<1>4. (s \o r)[1] = w[1] /\ (s \o r)[2] = w[2]
  BY <1>1, <1>2, <1>3
<1>5. Len(s \o r) = 2 /\ \A j \in 1 .. 2 : j = 1 \/ j = 2
  BY <1>1, <1>3
<1>6. s \o r = w
  <2>1. \A j \in 1 .. Len(s \o r) : (s \o r)[j] = w[j]
    BY <1>4, <1>5
  <2>2. Len(s \o r) = Len(w)
    BY <1>2, <1>5
  <2> QED
    BY <1>2, <1>3, <2>1, <2>2, SeqEqual
<1> QED
  BY <1>6 DEF s, r, w

\* And of three.
LEMMA JoinThree == \A a, b, c : <<a>> \o <<b, c>> = <<a, b, c>>
<1> SUFFICES ASSUME NEW a, NEW b, NEW c  PROVE <<a>> \o <<b, c>> = <<a, b, c>>
  OBVIOUS
<1> DEFINE S == {a, b, c}  s == <<a>>  r == <<b, c>>  w == <<a, b, c>>
<1>1. s \in Seq(S) /\ r \in Seq(S) /\ Len(s) = 1 /\ Len(r) = 2 /\ s[1] = a /\ r[1] = b /\ r[2] = c
  OBVIOUS
<1>2. w \in Seq(S) /\ Len(w) = 3 /\ w[1] = a /\ w[2] = b /\ w[3] = c
  OBVIOUS
<1> HIDE DEF s, r, w, S
<1>3. /\ s \o r \in Seq(S) /\ Len(s \o r) = Len(s) + Len(r)
      /\ \A j \in 1 .. Len(s) + Len(r) : (s \o r)[j] = IF j <= Len(s) THEN s[j] ELSE r[j - Len(s)]
  BY <1>1, ConcatProperties
<1>4. (s \o r)[1] = w[1] /\ (s \o r)[2] = w[2] /\ (s \o r)[3] = w[3]
  BY <1>1, <1>2, <1>3
<1>5. Len(s \o r) = 3 /\ \A j \in 1 .. 3 : j = 1 \/ j = 2 \/ j = 3
  BY <1>1, <1>3
<1>6. s \o r = w
  <2>1. \A j \in 1 .. Len(s \o r) : (s \o r)[j] = w[j]
    BY <1>4, <1>5
  <2>2. Len(s \o r) = Len(w)
    BY <1>2, <1>5
  <2> QED
    BY <1>2, <1>3, <2>1, <2>2, SeqEqual
<1> QED
  BY <1>6 DEF s, r, w

\* And with none.
LEMMA JoinNone == (\A a : <<a>> \o <<>> = <<a>> /\ <<>> \o <<a>> = <<a>>) /\ <<>> \o <<>> = <<>>
<1>1. \A a : <<a>> \o <<>> = <<a>>
  OBVIOUS
<1>2. \A a : <<>> \o <<a>> = <<a>>
  OBVIOUS
<1>3. <<>> \o <<>> = <<>>
  OBVIOUS
<1> QED
  BY <1>1, <1>2, <1>3

\* changeRef does what it is to do to a pointer, in steps each of which is sound.
LEMMA ChangePlan ==
    ASSUME NEW f \in [FdMap!Places -> Obj \cup {FdMap!Null}], NEW R, NEW p \in R, R \subseteq FdMap!Places,
           NEW o \in Obj \cup {FdMap!Null}, o # FdMap!Null => Offers(f, R, p, o)
    PROVE  Plan(f, FdMap!ChangeRef(p, f[p], o), R)
<1> DEFINE c == FdMap!ChangeRef(p, f[p], o)
<1>1. CASE f[p] = o
  BY <1>1, NoPlan DEF FdMap!ChangeRef
<1>2. CASE f[p] # o /\ f[p] = FdMap!Null
  <2>1. c = <<FdMap!AddRef(p, o)>>
    BY <1>2, JoinTwo, JoinNone DEF FdMap!ChangeRef, FdMap!Seq1
  <2> HIDE DEF c
  <2>2. o \in Obj /\ Offers(f, R, p, o)
    BY <1>2
  <2> QED
    BY <2>1, <2>2, <1>2, AddPlan DEF c
<1>3. CASE f[p] # FdMap!Null /\ o = FdMap!Null
  <2>1. c = <<FdMap!SubRef(p)>>
    BY <1>3, JoinTwo, JoinNone DEF FdMap!ChangeRef, FdMap!Seq1
  <2> HIDE DEF c
  <2> QED
    BY <2>1, SubPlan DEF c
<1>4. CASE f[p] # o /\ f[p] # FdMap!Null /\ o # FdMap!Null
  <2>1. c = <<FdMap!SubRef(p), FdMap!AddRef(p, o)>>
    BY <1>4, JoinTwo, JoinNone DEF FdMap!ChangeRef, FdMap!Seq1
  <2> HIDE DEF c
  <2>2. o \in Obj /\ Offers(f, R, p, o)
    BY <1>4
  <2> QED
    BY <2>1, <2>2, SubAddPlan DEF c
<1> QED
  BY <1>1, <1>2, <1>3, <1>4

\* A sound step writes among its places.
LEMMA SoundWrites ==
    ASSUME NEW f, NEW s, NEW R, NEW k, Sound(f, s, R, k), NEW q, Writes(s[k], q)
    PROVE  q \in R
<1>1. ASSUME NEW p \in R, s[k] = FdMap!SubRef(p)  PROVE q \in R
  BY <1>1, StepWrites
<1>2. ASSUME NEW p \in R, NEW o, s[k] = FdMap!AddRef(p, o)  PROVE q \in R
  BY <1>2, StepWrites
<1>3. ASSUME NEW p \in R, NEW r \in R, s[k] = FdMap!SwapWith(p, r)  PROVE q \in R
  BY <1>3, StepWrites
<1> QED
  BY <1>1, <1>2, <1>3 DEF Sound

\* Two lists joined.
LEMMA JoinIs ==
    ASSUME NEW a \in Seq(Steps), NEW b \in Seq(Steps)
    PROVE  /\ a \o b \in Seq(Steps) /\ Len(a) \in Nat /\ Len(b) \in Nat /\ Len(a \o b) = Len(a) + Len(b)
           /\ \A j \in 1 .. Len(a) : (a \o b)[j] = a[j]
           /\ \A j \in 1 .. Len(b) : (a \o b)[Len(a) + j] = b[j]
<1> DEFINE c == a \o b
<1>1. /\ c \in Seq(Steps) /\ Len(c) = Len(a) + Len(b)
      /\ \A j \in 1 .. Len(a) + Len(b) : c[j] = IF j <= Len(a) THEN a[j] ELSE b[j - Len(a)]
  BY ConcatProperties
<1>2. Len(a) \in Nat /\ Len(b) \in Nat
  OBVIOUS
<1> HIDE DEF c
<1>3. \A j \in 1 .. Len(a) : c[j] = a[j]
  BY <1>1, <1>2
<1>4. \A j \in 1 .. Len(b) : c[Len(a) + j] = b[j]
  <2> SUFFICES ASSUME NEW j \in 1 .. Len(b)  PROVE c[Len(a) + j] = b[j]
    OBVIOUS
  <2>1. Len(a) + j \in 1 .. Len(a) + Len(b) /\ ~(Len(a) + j <= Len(a)) /\ (Len(a) + j) - Len(a) = j
    BY <1>2
  <2> QED
    BY <2>1, <1>1
<1> QED
  BY <1>1, <1>2, <1>3, <1>4 DEF c

\* What a step may count on does not depend on what comes after.
LEMMA SoundPrefix ==
    ASSUME NEW f, NEW a, NEW c, NEW A, NEW R, A \subseteq R, NEW k \in Nat, k >= 1,
           \A j \in 1 .. k : c[j] = a[j], Sound(f, a, A, k)
    PROVE  Sound(f, c, R, k)
<1>1. \A p : Untouched(a, k, p) => Untouched(c, k, p)
  BY DEF Untouched
<1>2. \A o : Backed(f, a, A, k, o) => Backed(f, c, R, k, o)
  BY <1>1 DEF Backed
<1>3. \A p : Vacant(f, a, A, k, p) => Vacant(f, c, R, k, p)
  <2> SUFFICES ASSUME NEW p, Vacant(f, a, A, k, p)  PROVE Vacant(f, c, R, k, p)
    OBVIOUS
  <2>1. CASE f[p] = FdMap!Null /\ Untouched(a, k, p)
    BY <2>1, <1>1 DEF Vacant
  <2>2. ASSUME NEW j \in 1 .. k - 1,
               a[j] = FdMap!SubRef(p) \/ \E q \in A : a[j] = FdMap!SwapWith(q, p) /\ f[q] = FdMap!Null,
               \A i \in j + 1 .. k - 1 : ~Writes(a[i], p)
        PROVE  Vacant(f, c, R, k, p)
    <3>1. c[j] = a[j] /\ \A i \in j + 1 .. k - 1 : c[i] = a[i]
      OBVIOUS
    <3> QED
      BY <3>1, <2>2 DEF Vacant
  <2> QED
    BY <2>1, <2>2 DEF Vacant
<1>4. c[k] = a[k]
  OBVIOUS
<1> QED
  BY <1>1, <1>2, <1>3, <1>4 DEF Sound

\* Nor on what comes before, if that writes elsewhere.
LEMMA SoundShift ==
    ASSUME NEW f, NEW b, NEW c, NEW B, NEW R, B \subseteq R, NEW n \in Nat, NEW k \in Nat, k >= 1,
           \A j \in 1 .. k : c[n + j] = b[j], Sound(f, b, B, k),
           \A j \in 1 .. n : \A p \in B : ~Writes(c[j], p)
    PROVE  Sound(f, c, R, n + k)
<1>1. ASSUME NEW p \in B, Untouched(b, k, p)  PROVE Untouched(c, n + k, p)
  <2> SUFFICES ASSUME NEW j \in 1 .. (n + k) - 1  PROVE ~Writes(c[j], p)
    BY DEF Untouched
  <2>1. CASE j <= n
    BY <2>1
  <2>2. CASE ~(j <= n)
    <3>1. j - n \in 1 .. k - 1 /\ j - n \in 1 .. k /\ n + (j - n) = j
      BY <2>2
    <3>2. c[j] = b[j - n]
      BY <3>1
    <3> QED
      BY <3>1, <3>2, <1>1 DEF Untouched
  <2> QED
    BY <2>1, <2>2
<1>2. \A o : Backed(f, b, B, k, o) => Backed(f, c, R, n + k, o)
  BY <1>1 DEF Backed
<1>3. \A p \in B : Vacant(f, b, B, k, p) => Vacant(f, c, R, n + k, p)
  <2> SUFFICES ASSUME NEW p \in B, Vacant(f, b, B, k, p)  PROVE Vacant(f, c, R, n + k, p)
    OBVIOUS
  <2>1. CASE f[p] = FdMap!Null /\ Untouched(b, k, p)
    BY <2>1, <1>1 DEF Vacant
  <2>2. ASSUME NEW j \in 1 .. k - 1,
               b[j] = FdMap!SubRef(p) \/ \E q \in B : b[j] = FdMap!SwapWith(q, p) /\ f[q] = FdMap!Null,
               \A i \in j + 1 .. k - 1 : ~Writes(b[i], p)
        PROVE  Vacant(f, c, R, n + k, p)
    <3> DEFINE m == n + j
    <3>1. m \in 1 .. (n + k) - 1 /\ c[m] = b[j] /\ m \in Nat
      OBVIOUS
    <3>2. \A i \in m + 1 .. (n + k) - 1 : ~Writes(c[i], p)
      <4> SUFFICES ASSUME NEW i \in m + 1 .. (n + k) - 1  PROVE ~Writes(c[i], p)
        OBVIOUS
      <4>1. i - n \in j + 1 .. k - 1 /\ i - n \in 1 .. k /\ n + (i - n) = i
        OBVIOUS
      <4>2. c[i] = b[i - n]
        BY <4>1
      <4> QED
        BY <4>1, <4>2, <2>2
    <3> HIDE DEF m
    <3> QED
      BY <3>1, <3>2, <2>2 DEF Vacant
  <2> QED
    BY <2>1, <2>2 DEF Vacant
<1>4. c[n + k] = b[k]
  OBVIOUS
<1> QED
  BY <1>1, <1>2, <1>3, <1>4 DEF Sound

\* Two plans among places apart make one.
LEMMA JoinPlan ==
    ASSUME NEW f, NEW a, NEW b, NEW A, NEW B, Plan(f, a, A), Plan(f, b, B), A \cap B = {}
    PROVE  Plan(f, a \o b, A \cup B)
<1> DEFINE c == a \o b  n == Len(a)
<1>1. a \in Seq(Steps) /\ b \in Seq(Steps) /\ (\A k \in 1 .. n : Sound(f, a, A, k)) /\ \A k \in 1 .. Len(b) : Sound(f, b, B, k)
  BY DEF Plan
<1>2. /\ c \in Seq(Steps) /\ n \in Nat /\ Len(b) \in Nat /\ Len(c) = n + Len(b)
      /\ \A j \in 1 .. n : c[j] = a[j]
      /\ \A j \in 1 .. Len(b) : c[n + j] = b[j]
  BY <1>1, JoinIs
<1> HIDE DEF c, n
<1>3. \A j \in 1 .. n : \A p \in B : ~Writes(c[j], p)
  <2> SUFFICES ASSUME NEW j \in 1 .. n, NEW p \in B, Writes(a[j], p)  PROVE FALSE
    BY <1>2
  <2>1. p \in A
    BY <1>1, SoundWrites
  <2> QED
    BY <2>1
<1>4. \A k \in 1 .. n : Sound(f, c, A \cup B, k)
  <2> SUFFICES ASSUME NEW k \in 1 .. n  PROVE Sound(f, c, A \cup B, k)
    OBVIOUS
  <2>1. k \in Nat /\ k >= 1 /\ \A j \in 1 .. k : c[j] = a[j]
    BY <1>2
  <2>2. A \subseteq A \cup B /\ Sound(f, a, A, k)
    BY <1>1
  <2> QED
    BY <2>1, <2>2, SoundPrefix
<1>5. \A k \in 1 .. Len(b) : Sound(f, c, A \cup B, n + k)
  <2> SUFFICES ASSUME NEW k \in 1 .. Len(b)  PROVE Sound(f, c, A \cup B, n + k)
    OBVIOUS
  <2>1. k \in Nat /\ k >= 1 /\ \A j \in 1 .. k : c[n + j] = b[j]
    BY <1>2
  <2>2. B \subseteq A \cup B /\ Sound(f, b, B, k)
    BY <1>1
  <2> QED
    BY <2>1, <2>2, <1>2, <1>3, SoundShift
<1>6. \A k \in 1 .. Len(c) : Sound(f, c, A \cup B, k)
  <2> SUFFICES ASSUME NEW k \in 1 .. Len(c)  PROVE Sound(f, c, A \cup B, k)
    OBVIOUS
  <2>3. k \in 1 .. n \/ (k - n \in 1 .. Len(b) /\ n + (k - n) = k)
    BY <1>2
  <2> SUFFICES ASSUME k \notin 1 .. n  PROVE Sound(f, c, A \cup B, k)
    BY <1>4
  <2>1. k - n \in 1 .. Len(b) /\ n + (k - n) = k
    BY <2>3
  <2>2. Sound(f, c, A \cup B, n + (k - n))
    BY <2>1, <1>5
  <2> QED
    BY <2>1, <2>2
<1>7. Plan(f, c, A \cup B)
  BY <1>2, <1>6 DEF Plan
<1> QED
  BY <1>7 DEF c

\* A slot the second of two lists does not write is filled by the first, one the first
\* does not write by the second.
LEMMA JoinFilled ==
    ASSUME NEW f, NEW a \in Seq(Steps), NEW b \in Seq(Steps), NEW fd
    PROVE  /\ (\A k \in 1 .. Len(b) : ~Writes(b[k], FdMap!Slot(fd))) => (Filled(f, a \o b, fd) <=> Filled(f, a, fd))
           /\ (\A k \in 1 .. Len(a) : ~Writes(a[k], FdMap!Slot(fd))) => (Filled(f, a \o b, fd) <=> Filled(f, b, fd))
<1> DEFINE c == a \o b  n == Len(a)  m == Len(b)  p == FdMap!Slot(fd)
           Gives(e) == \/ \E o \in Obj : e = FdMap!AddRef(FdMap!Slot(fd), o)
                       \/ \E q \in FdMap!Places : e = FdMap!SwapWith(q, FdMap!Slot(fd)) /\ f[q] # FdMap!Null
           Last(s, k) == (\A j \in k + 1 .. Len(s) : ~Writes(s[j], p)) /\ Gives(s[k])
<1>1. /\ n \in Nat /\ m \in Nat /\ Len(c) = n + m
      /\ \A j \in 1 .. n : c[j] = a[j]
      /\ \A j \in 1 .. m : c[n + j] = b[j]
  BY JoinIs
<1>2. \A s : Filled(f, s, fd) <=> \/ f[p] # FdMap!Null /\ \A k \in 1 .. Len(s) : ~Writes(s[k], p)
                                  \/ \E k \in 1 .. Len(s) : Last(s, k)
  BY DEF Filled
<1>3. \A e : Gives(e) => Writes(e, p)
  BY StepWrites
<1> HIDE DEF c, n, m, p, Gives
<1>4. \A j \in 1 .. n + m : j \in 1 .. n \/ (j - n \in 1 .. m /\ n + (j - n) = j)
  BY <1>1
<1>5. \A j \in 1 .. m : n + j \in 1 .. n + m
  BY <1>1
<1>6. \A j \in 1 .. n : j \in 1 .. n + m
  BY <1>1
<1>7. (\A k \in 1 .. n + m : ~Writes(c[k], p)) <=> (\A k \in 1 .. n : ~Writes(a[k], p)) /\ (\A k \in 1 .. m : ~Writes(b[k], p))
  <2>1. ASSUME \A k \in 1 .. n + m : ~Writes(c[k], p)
        PROVE  (\A k \in 1 .. n : ~Writes(a[k], p)) /\ (\A k \in 1 .. m : ~Writes(b[k], p))
    BY <2>1, <1>1, <1>5, <1>6
  <2>2. ASSUME \A k \in 1 .. n : ~Writes(a[k], p), \A k \in 1 .. m : ~Writes(b[k], p), NEW k \in 1 .. n + m
        PROVE  ~Writes(c[k], p)
    BY <2>2, <1>1, <1>4
  <2> QED
    BY <2>1, <2>2
<1>8. ASSUME \A k \in 1 .. m : ~Writes(b[k], p)  PROVE Filled(f, c, fd) <=> Filled(f, a, fd)
  <2>1. ASSUME NEW k \in 1 .. n + m, Last(c, k)  PROVE k \in 1 .. n /\ Last(a, k)
    <3>1. k \in 1 .. n
      <4> SUFFICES ASSUME k \notin 1 .. n  PROVE FALSE
        OBVIOUS
      <4>1. k - n \in 1 .. m /\ c[k] = b[k - n]
        BY <1>1, <1>4
      <4> QED
        BY <4>1, <2>1, <1>3, <1>8
    <3>2. c[k] = a[k] /\ \A j \in k + 1 .. n : j \in k + 1 .. n + m /\ c[j] = a[j]
      BY <3>1, <1>1
    <3> QED
      BY <3>1, <3>2, <2>1, <1>1 DEF n
  <2>2. ASSUME NEW k \in 1 .. n, Last(a, k)  PROVE k \in 1 .. n + m /\ Last(c, k)
    <3>1. c[k] = a[k] /\ k \in 1 .. n + m
      BY <1>1
    <3>2. ASSUME NEW j \in k + 1 .. n + m  PROVE ~Writes(c[j], p)
      <4>1. CASE j \in 1 .. n
        <5>1. j \in k + 1 .. n /\ c[j] = a[j]
          BY <4>1, <1>1
        <5> QED
          BY <5>1, <2>2 DEF n
      <4>2. CASE j \notin 1 .. n
        <5>1. j \in 1 .. n + m
          BY <1>1
        <5>2. j - n \in 1 .. m /\ c[j] = b[j - n]
          BY <5>1, <4>2, <1>1, <1>4
        <5> QED
          BY <5>2, <1>8
      <4> QED
        BY <4>1, <4>2
    <3> QED
      BY <3>1, <3>2, <2>2, <1>1
  <2>3. (\E k \in 1 .. n + m : Last(c, k)) <=> (\E k \in 1 .. n : Last(a, k))
    BY <2>1, <2>2
  <2>4. Filled(f, c, fd) <=> (f[p] # FdMap!Null /\ \A k \in 1 .. n + m : ~Writes(c[k], p)) \/ \E k \in 1 .. n + m : Last(c, k)
    BY <1>1, <1>2
  <2>5. Filled(f, a, fd) <=> (f[p] # FdMap!Null /\ \A k \in 1 .. n : ~Writes(a[k], p)) \/ \E k \in 1 .. n : Last(a, k)
    BY <1>2 DEF n
  <2> HIDE DEF Last
  <2> QED
    BY <2>3, <2>4, <2>5, <1>7, <1>8
<1>9. ASSUME \A k \in 1 .. n : ~Writes(a[k], p)  PROVE Filled(f, c, fd) <=> Filled(f, b, fd)
  <2>1. ASSUME NEW k \in 1 .. n + m, Last(c, k)  PROVE k - n \in 1 .. m /\ Last(b, k - n)
    <3>1. k - n \in 1 .. m /\ n + (k - n) = k
      <4> SUFFICES ASSUME k \in 1 .. n  PROVE FALSE
        BY <1>4
      <4>1. c[k] = a[k]
        BY <1>1
      <4> QED
        BY <4>1, <2>1, <1>3, <1>9
    <3>2. c[k] = b[k - n]
      BY <3>1, <1>1
    <3>3. ASSUME NEW j \in (k - n) + 1 .. m  PROVE ~Writes(b[j], p)
      <4>1. n + j \in k + 1 .. n + m /\ j \in 1 .. m
        BY <3>1, <1>1
      <4>2. c[n + j] = b[j]
        BY <4>1, <1>1
      <4> QED
        BY <4>1, <4>2, <2>1, <1>1
    <3> QED
      BY <3>1, <3>2, <3>3, <2>1 DEF m
  <2>2. ASSUME NEW k \in 1 .. m, Last(b, k)  PROVE n + k \in 1 .. n + m /\ Last(c, n + k)
    <3>1. c[n + k] = b[k] /\ n + k \in 1 .. n + m
      BY <1>1, <1>5
    <3>2. ASSUME NEW j \in (n + k) + 1 .. n + m  PROVE ~Writes(c[j], p)
      <4>1. j - n \in k + 1 .. m /\ j - n \in 1 .. m /\ n + (j - n) = j
        BY <1>1
      <4>2. c[j] = b[j - n]
        BY <4>1, <1>1
      <4> QED
        BY <4>1, <4>2, <2>2 DEF m
    <3> QED
      BY <3>1, <3>2, <2>2, <1>1
  <2>3. (\E k \in 1 .. n + m : Last(c, k)) <=> (\E k \in 1 .. m : Last(b, k))
    BY <2>1, <2>2
  <2>4. Filled(f, c, fd) <=> (f[p] # FdMap!Null /\ \A k \in 1 .. n + m : ~Writes(c[k], p)) \/ \E k \in 1 .. n + m : Last(c, k)
    BY <1>1, <1>2
  <2>5. Filled(f, b, fd) <=> (f[p] # FdMap!Null /\ \A k \in 1 .. m : ~Writes(b[k], p)) \/ \E k \in 1 .. m : Last(b, k)
    BY <1>2 DEF m
  <2> HIDE DEF Last
  <2> QED
    BY <2>3, <2>4, <2>5, <1>7, <1>9
<1> QED
  BY <1>8, <1>9 DEF c, n, m, p

\* A call that only starts, with a plan for the places the thread then reaches, keeps the
\* objects right.
LEMMA CallKeeps ==
    ASSUME SharedInv, NEW t \in FdThread, NEW s, fdTodo[t] = <<>>, fdTodo' = [fdTodo EXCEPT ![t] = s],
           fdMem' = fdMem, fdPtr' = fdPtr, fdLock' = fdLock \/ (fdLock = FdMap!NoThread /\ fdLock' = t),
           Plan(fdPtr, s, Reach(t)')
    PROVE  SharedInv'
<1> DEFINE f == fdPtr
<1>1. /\ f \in [FdMap!Places -> Obj \cup {FdMap!Null}] /\ fdTodo \in [FdThread -> Seq(Steps)] /\ fdMem \in Memory
      /\ fdLock \in FdThread \cup {FdMap!NoThread}
      /\ \A u \in FdThread : TodoSound(u)
      /\ \A o \in fdMem.live : Free(f, o) => \E u \in FdThread : Deletes(u, o)
      /\ \A u, v \in FdThread : u # v => \A o \in Obj : ~(Deletes(u, o) /\ Deletes(v, o))
  BY DEF SharedInv, Memory
<1>2. fdTodo'[t] = s /\ \A u \in FdThread : u # t => fdTodo'[u] = fdTodo[u]
  BY <1>1
<1>3. s \in Seq(Steps) /\ \A k \in 1 .. Len(s) : Sound(f, s, Reach(t)', k)
  BY DEF Plan
<1>4. fdTodo' \in [FdThread -> Seq(Steps)]
  BY <1>1, <1>3
<1>5. FdMap!NoThread \notin FdThread
  BY FdMapAssumption DEF FdMap!NoThread
<1>6. \A u \in FdThread : u # t => Reach(u)' = Reach(u)
  BY <1>5 DEF Reach, OwnPlaces, TablePlaces
<1>7. \A u \in FdThread : u # t => TodoSound(u)'
  <2> SUFFICES ASSUME NEW u \in FdThread, u # t  PROVE TodoSound(u)'
    OBVIOUS
  <2> DEFINE w == fdTodo[u]
  <2>1. fdTodo'[u] = w /\ Reach(u)' = Reach(u)
    BY <1>2, <1>6
  <2>2. Beyond(u)' <=> Beyond(u)
    BY <2>1 DEF Beyond, OwnPlaces, Free, Backed, Untouched, Writes
  <2>3. TodoSound(u)' <=> \A k \in 1 .. Len(w) : Sound(f, w, Reach(u), k) \/ (k = 1 /\ Beyond(u)')
    BY <2>1 DEF TodoSound, Sound, Backed, Vacant, Untouched, Writes
  <2>4. \A k \in 1 .. Len(w) : Sound(f, w, Reach(u), k) \/ (k = 1 /\ Beyond(u))
    BY <1>1 DEF TodoSound
  <2> QED
    BY <2>2, <2>3, <2>4
<1>8. TodoSound(t)'
  BY <1>2, <1>3 DEF TodoSound, Sound, Backed, Vacant, Untouched, Writes
<1>9. \A o : ~Deletes(t, o)
  BY DEF Deletes
<1>10. \A o : ~Deletes(t, o)'
  <2> SUFFICES ASSUME NEW o, s # <<>>, s[1] = FdMap!Delete(o)  PROVE FALSE
    BY <1>2 DEF Deletes
  <2>1. 1 \in 1 .. Len(s)
    BY <1>3
  <2> QED
    BY <2>1, <1>3, SoundNoDelete
<1>11. \A u \in FdThread : \A o : Deletes(u, o)' <=> Deletes(u, o)
  BY <1>2, <1>9, <1>10 DEF Deletes
<1>12. \A o \in fdMem'.live : Free(f, o) => \E u \in FdThread : Deletes(u, o)'
  BY <1>1, <1>11
<1>13. \A u, v \in FdThread : u # v => \A o \in Obj : ~(Deletes(u, o)' /\ Deletes(v, o)')
  BY <1>1, <1>11
<1>14. fdLock' \in FdThread \cup {FdMap!NoThread}
  BY <1>1
<1>15. /\ fdMem' \in [cnt : [Obj -> Int], live : SUBSET Obj, made : SUBSET Obj, bad : {FALSE}]
       /\ fdMem'.live \subseteq fdMem'.made
       /\ fdPtr' \in [FdMap!Places -> Obj \cup {FdMap!Null}]
       /\ \A o \in Obj : fdMem'.cnt[o] = Cardinality(HeldAt(fdPtr', o))
       /\ \A p \in FdMap!Places : fdPtr'[p] # FdMap!Null => fdPtr'[p] \in fdMem'.live
       /\ \A x \in Obj \ fdMem'.made : fdPtr'[FdMap!Inside(x)] = FdMap!Null
  BY DEF SharedInv
<1>16. \A u \in FdThread : TodoSound(u)'
  BY <1>7, <1>8
<1>17. \A o \in fdMem'.live : Free(fdPtr', o) => \E u \in FdThread : Deletes(u, o)'
  BY <1>12
<1> QED
  BY <1>4, <1>13, <1>14, <1>15, <1>16, <1>17 DEF SharedInv, HeldAt, Free, Deletes

\* What the holder of the lock exchanges is its own.
LEMMA RestWithin ==
    ASSUME SharedInv, fdLock # FdMap!NoThread, NEW k \in 1 .. Len(Rest), NEW p, NEW q, Rest[k] = FdMap!SwapWith(p, q)
    PROVE  p \in Reach(fdLock) /\ q \in Reach(fdLock) /\ Sound(fdPtr, Rest, Reach(fdLock), k)
<1>1. fdLock \in FdThread /\ Rest = fdTodo[fdLock]
  BY DEF SharedInv, Rest
<1>2. Sound(fdPtr, Rest, Reach(fdLock), k) \/ (k = 1 /\ Beyond(fdLock))
  BY <1>1 DEF SharedInv, TodoSound
<1>3. ASSUME k = 1, Beyond(fdLock)  PROVE FALSE
  <2>1. \A o : Rest[1] # FdMap!Delete(o)
    BY <1>3, StepsDiffer
  <2>2. \A r : Rest[1] # FdMap!SubRef(r)
    BY <1>3, StepsDiffer
  <2>3. \A r, o : Rest[1] # FdMap!AddRef(r, o)
    BY <1>3, StepsDiffer
  <2>4. \A r, o : Rest # <<FdMap!AddRef(r, o)>>
    BY <2>3
  <2> QED
    BY <2>1, <2>2, <2>4, <1>1, <1>3 DEF Beyond
<1>4. Sound(fdPtr, Rest, Reach(fdLock), k)
  BY <1>2, <1>3
<1>5. Writes(Rest[k], p) /\ Writes(Rest[k], q)
  BY StepWrites
<1> QED
  BY <1>4, <1>5, SoundWrites

\* Nothing to do, a slot is filled when it is not null.
LEMMA FilledNow == \A f, fd : Filled(f, <<>>, fd) <=> f[FdMap!Slot(fd)] # FdMap!Null
<1>1. Len(<<>>) = 0 /\ 1 .. 0 = {}
  OBVIOUS
<1> QED
  BY <1>1 DEF Filled

\* What happens elsewhere keeps the table.
LEMMA TableElsewhere ==
    ASSUME SharedInv, TableInv, fdLock' = fdLock, fdCap' = fdCap, fdSz' = fdSz,
           fdLock # FdMap!NoThread => fdTodo'[fdLock] = fdTodo[fdLock],
           fdLock # FdMap!NoThread => \A q \in Reach(fdLock) : fdPtr'[q] = fdPtr[q],
           \A q \in TablePlaces : fdPtr'[q] = fdPtr[q]
    PROVE  TableInv'
<1>1. Rest' = Rest
  BY DEF Rest
<1>2. \A fd \in Fd : fdPtr'[FdMap!Slot(fd)] = fdPtr[FdMap!Slot(fd)]
  BY DEF TablePlaces
<1>3. ASSUME NEW k \in 1 .. Len(Rest), NEW q, NEW fd, Rest[k] = FdMap!SwapWith(q, FdMap!Slot(fd))
      PROVE  fdPtr'[q] = fdPtr[q]
  <2>1. fdLock # FdMap!NoThread
    <3> SUFFICES ASSUME fdLock = FdMap!NoThread  PROVE FALSE
      OBVIOUS
    <3>1. Rest = <<>>
      BY DEF Rest
    <3> QED
      BY <3>1, <1>3
  <2> QED
    BY <2>1, <1>3, RestWithin
<1>4. \A fd \in Fd : Filled(fdPtr', Rest, fd) <=> Filled(fdPtr, Rest, fd)
  BY <1>2, <1>3 DEF Filled
<1>5. InTable' = InTable
  BY <1>1, <1>4 DEF InTable, Filled, Writes
<1> QED
  BY <1>1, <1>2, <1>5 DEF TableInv, Writes, TablePlaces

\* The first step of a list that fills a slot fills it, or leaves it to the rest.
LEMMA FilledAfterHead ==
    ASSUME NEW f, NEW g, NEW s, NEW r, NEW fd, NEW d \in {0, 1},
           Len(s) \in Nat, Len(s) >= 1, Len(r) \in Nat, Len(r) = Len(s) - d,
           \A j \in 1 .. Len(r) : j + d >= 2 => r[j] = s[j + d],
           d = 0 => ~Writes(r[1], FdMap!Slot(fd)),
           ~Writes(s[1], FdMap!Slot(fd)) => g[FdMap!Slot(fd)] = f[FdMap!Slot(fd)],
           Writes(s[1], FdMap!Slot(fd)) =>
               (g[FdMap!Slot(fd)] # FdMap!Null <=>
                   \/ \E o \in Obj : s[1] = FdMap!AddRef(FdMap!Slot(fd), o)
                   \/ \E q \in FdMap!Places : s[1] = FdMap!SwapWith(q, FdMap!Slot(fd)) /\ f[q] # FdMap!Null),
           \A k \in 1 .. Len(s) : \A q \in FdMap!Places :
               (k >= 2 /\ s[k] = FdMap!SwapWith(q, FdMap!Slot(fd))) => g[q] = f[q]
    PROVE  Filled(g, r, fd) <=> Filled(f, s, fd)
<1> DEFINE p == FdMap!Slot(fd)  n == Len(s)  m == Len(r)
           Gives(h, e) == \/ \E o \in Obj : e = FdMap!AddRef(FdMap!Slot(fd), o)
                          \/ \E q \in FdMap!Places : e = FdMap!SwapWith(q, FdMap!Slot(fd)) /\ h[q] # FdMap!Null
           Last(h, w, k) == (\A j \in k + 1 .. Len(w) : ~Writes(w[j], p)) /\ Gives(h, w[k])
<1>1. \A h, w : Filled(h, w, fd) <=> \/ h[p] # FdMap!Null /\ \A k \in 1 .. Len(w) : ~Writes(w[k], p)
                                     \/ \E k \in 1 .. Len(w) : Last(h, w, k)
  BY DEF Filled
<1>2. \A h, e : Gives(h, e) => Writes(e, p)
  BY StepWrites
<1>3. \A k \in 1 .. n : k >= 2 => (Gives(g, s[k]) <=> Gives(f, s[k]))
  OBVIOUS
<1>4. /\ n \in Nat /\ n >= 1 /\ m \in Nat /\ m = n - d
      /\ \A j \in 1 .. m : j + d >= 2 => r[j] = s[j + d]
      /\ d = 0 => ~Writes(r[1], p)
      /\ ~Writes(s[1], p) => g[p] = f[p]
      /\ Writes(s[1], p) => (g[p] # FdMap!Null <=> Gives(f, s[1]))
  OBVIOUS
<1> HIDE DEF p, n, m, Gives
<1>5. \A j \in 1 .. m : (j + d \in 2 .. n /\ r[j] = s[j + d]) \/ (j = 1 /\ d = 0)
  BY <1>4
<1>6. \A j \in 2 .. n : j - d \in 1 .. m /\ r[j - d] = s[j]
  <2> SUFFICES ASSUME NEW j \in 2 .. n  PROVE j - d \in 1 .. m /\ r[j - d] = s[j]
    OBVIOUS
  <2>1. j - d \in 1 .. m /\ (j - d) + d = j /\ (j - d) + d >= 2
    BY <1>4
  <2> QED
    BY <2>1, <1>4
<1>7. (\A k \in 1 .. m : ~Writes(r[k], p)) <=> (\A k \in 2 .. n : ~Writes(s[k], p))
  BY <1>4, <1>5, <1>6
<1>8. (\A k \in 1 .. n : ~Writes(s[k], p)) <=> ~Writes(s[1], p) /\ (\A k \in 2 .. n : ~Writes(s[k], p))
  <2>1. \A k \in 1 .. n : k = 1 \/ k \in 2 .. n
    BY <1>4
  <2>2. 1 \in 1 .. n /\ \A k \in 2 .. n : k \in 1 .. n
    BY <1>4
  <2> QED
    BY <2>1, <2>2
<1>9. ASSUME NEW k \in 2 .. n  PROVE Last(g, r, k - d) <=> Last(f, s, k)
  <2>1. Gives(g, r[k - d]) <=> Gives(f, s[k])
    <3>1. k \in 1 .. n /\ k >= 2
      BY <1>4
    <3> QED
      BY <3>1, <1>3, <1>6
  <2>2. (\A j \in (k - d) + 1 .. m : ~Writes(r[j], p)) <=> (\A j \in k + 1 .. n : ~Writes(s[j], p))
    <3>1. ASSUME NEW j \in (k - d) + 1 .. m  PROVE j + d \in k + 1 .. n /\ r[j] = s[j + d]
      BY <1>4, <1>9
    <3>2. ASSUME NEW j \in k + 1 .. n  PROVE j - d \in (k - d) + 1 .. m /\ r[j - d] = s[j]
      <4>1. j \in 2 .. n /\ j - d \in (k - d) + 1 .. m
        BY <1>4
      <4> QED
        BY <4>1, <1>6
    <3> QED
      BY <3>1, <3>2
  <2> QED
    BY <2>1, <2>2 DEF n, m
<1>10. (\E k \in 1 .. m : Last(g, r, k)) <=> (\E k \in 2 .. n : Last(f, s, k))
  <2>1. ASSUME NEW j \in 1 .. m, Last(g, r, j)  PROVE \E k \in 2 .. n : Last(f, s, k)
    <3>1. ~(j = 1 /\ d = 0)
      BY <2>1, <1>2, <1>4
    <3>2. j + d \in 2 .. n /\ (j + d) - d = j
      BY <3>1, <1>4, <1>5
    <3>3. Last(g, r, (j + d) - d)
      BY <3>2, <2>1
    <3> HIDE DEF Last
    <3> QED
      BY <3>2, <3>3, <1>9
  <2>2. ASSUME NEW k \in 2 .. n, Last(f, s, k)  PROVE \E j \in 1 .. m : Last(g, r, j)
    <3>1. k - d \in 1 .. m
      BY <1>6
    <3> HIDE DEF Last
    <3> QED
      BY <3>1, <2>2, <1>9
  <2> QED
    BY <2>1, <2>2
<1>11. Last(f, s, 1) <=> (\A k \in 2 .. n : ~Writes(s[k], p)) /\ Gives(f, s[1])
  BY DEF n
<1>12. (\E k \in 1 .. n : Last(f, s, k)) <=> Last(f, s, 1) \/ \E k \in 2 .. n : Last(f, s, k)
  <2>1. \A k \in 1 .. n : k = 1 \/ k \in 2 .. n
    BY <1>4
  <2>2. 1 \in 1 .. n /\ \A k \in 2 .. n : k \in 1 .. n
    BY <1>4
  <2> HIDE DEF Last
  <2> QED
    BY <2>1, <2>2
<1>13. Filled(g, r, fd) <=> (g[p] # FdMap!Null /\ \A k \in 1 .. m : ~Writes(r[k], p)) \/ \E k \in 1 .. m : Last(g, r, k)
  BY <1>1 DEF m
<1>14. Filled(f, s, fd) <=> (f[p] # FdMap!Null /\ \A k \in 1 .. n : ~Writes(s[k], p)) \/ \E k \in 1 .. n : Last(f, s, k)
  BY <1>1 DEF n
<1> HIDE DEF Last
<1>15. Filled(g, r, fd) <=> (g[p] # FdMap!Null /\ \A k \in 2 .. n : ~Writes(s[k], p)) \/ \E k \in 2 .. n : Last(f, s, k)
  BY <1>7, <1>10, <1>13
<1>16. CASE Writes(s[1], p)
  BY <1>4, <1>8, <1>11, <1>12, <1>14, <1>15, <1>16
<1>17. CASE ~Writes(s[1], p)
  <2>1. ~Gives(f, s[1])
    BY <1>2, <1>17
  <2> QED
    BY <2>1, <1>4, <1>8, <1>11, <1>12, <1>14, <1>15, <1>17
<1> QED
  BY <1>16, <1>17

\* The form of the rest of a list after a step.
LEMMA RestShape ==
    ASSUME SharedInv, NEW t \in FdThread, FdMap!Step(t), RestAfter(t)
    PROVE  \E d \in {0, 1} :
               /\ Len(fdTodo[t]) \in Nat /\ Len(fdTodo[t]) >= 1
               /\ Len(fdTodo'[t]) \in Nat /\ Len(fdTodo'[t]) = Len(fdTodo[t]) - d
               /\ \A j \in 1 .. Len(fdTodo'[t]) : j + d >= 2 => fdTodo'[t][j] = fdTodo[t][j + d]
               /\ d = 0 => \/ \E o \in Obj : fdTodo'[t][1] = FdMap!Delete(o)
                           \/ \E x \in Obj : fdTodo'[t][1] = FdMap!SubRef(FdMap!Inside(x))
<1> DEFINE s == fdTodo[t]  r == fdTodo'[t]
<1>1. s \in Seq(Steps) /\ s # <<>>
  BY StepIs
<1>2. Len(s) \in Nat /\ Len(s) >= 1
  BY <1>1
<1>3. fdMem' \in Memory
  BY StepKeeps DEF StepEffect
<1>4. CASE r = Tail(s)
  <2>1. Len(r) = Len(s) - 1 /\ \A j \in 1 .. Len(s) - 1 : r[j] = s[j + 1]
    BY <1>1, <1>4, HeadTailProperties
  <2> HIDE DEF r, s
  <2>2. Len(r) \in Nat /\ \A j \in 1 .. Len(r) : j + 1 >= 2 => r[j] = s[j + 1]
    BY <2>1, <1>2
  <2>3. 1 \in {0, 1} /\ 1 # 0
    OBVIOUS
  <2>4. \E d \in {0, 1} :
               /\ Len(s) \in Nat /\ Len(s) >= 1
               /\ Len(r) \in Nat /\ Len(r) = Len(s) - d
               /\ \A j \in 1 .. Len(r) : j + d >= 2 => r[j] = s[j + d]
               /\ d = 0 => \/ \E o \in Obj : r[1] = FdMap!Delete(o)
                           \/ \E x \in Obj : r[1] = FdMap!SubRef(FdMap!Inside(x))
    BY <2>1, <2>2, <2>3, <1>2
  <2> QED
    BY <2>4 DEF r, s
<1>5. ASSUME NEW e \in Steps, r = <<e>> \o Tail(s),
             (\E o \in Obj : e = FdMap!Delete(o)) \/ (\E x \in Obj : e = FdMap!SubRef(FdMap!Inside(x)))
      PROVE  \E d \in {0, 1} :
               /\ Len(s) \in Nat /\ Len(s) >= 1
               /\ Len(r) \in Nat /\ Len(r) = Len(s) - d
               /\ \A j \in 1 .. Len(r) : j + d >= 2 => r[j] = s[j + d]
               /\ d = 0 => \/ \E o \in Obj : r[1] = FdMap!Delete(o)
                           \/ \E x \in Obj : r[1] = FdMap!SubRef(FdMap!Inside(x))
  <2>1. Len(r) = Len(s) /\ r[1] = e /\ \A j \in 2 .. Len(s) : r[j] = s[j]
    BY <1>1, <1>5, RestIs
  <2> HIDE DEF r, s
  <2>2. Len(r) \in Nat /\ Len(r) = Len(s) - 0 /\ \A j \in 1 .. Len(r) : j + 0 >= 2 => r[j] = s[j + 0]
    BY <2>1, <1>2
  <2>3. 0 \in {0, 1}
    OBVIOUS
  <2>4. (\E o \in Obj : r[1] = FdMap!Delete(o)) \/ (\E x \in Obj : r[1] = FdMap!SubRef(FdMap!Inside(x)))
    BY <2>1, <1>5
  <2> QED
    BY <2>2, <2>3, <2>4, <1>2
<1>6. ASSUME NEW o \in fdMem'.live, r = <<FdMap!Delete(o)>> \o Tail(s)
      PROVE  \E e \in Steps : /\ r = <<e>> \o Tail(s)
                              /\ (\E a \in Obj : e = FdMap!Delete(a)) \/ (\E x \in Obj : e = FdMap!SubRef(FdMap!Inside(x)))
  <2>1. o \in Obj /\ FdMap!Delete(o) \in Steps
    BY <1>3 DEF Steps, Memory
  <2> QED
    BY <2>1, <1>6
<1>7. ASSUME NEW o \in fdMem'.made \ fdMem'.live, r = <<FdMap!SubRef(FdMap!Inside(o))>> \o Tail(s)
      PROVE  \E e \in Steps : /\ r = <<e>> \o Tail(s)
                              /\ (\E a \in Obj : e = FdMap!Delete(a)) \/ (\E x \in Obj : e = FdMap!SubRef(FdMap!Inside(x)))
  <2>1. o \in Obj /\ FdMap!SubRef(FdMap!Inside(o)) \in Steps
    BY <1>3, PlacesAre DEF Steps, Memory
  <2> QED
    BY <2>1, <1>7
<1> QED
  BY <1>4, <1>5, <1>6, <1>7 DEF RestAfter

\* A step that writes a slot fills it or empties it.
LEMMA SlotWritten ==
    ASSUME SharedInv, TableInv, NEW t \in FdThread, fdLock = t, FdMap!Step(t), NEW fd \in Fd,
           Writes(fdTodo[t][1], FdMap!Slot(fd))
    PROVE  fdPtr'[FdMap!Slot(fd)] # FdMap!Null <=>
               \/ \E o \in Obj : fdTodo[t][1] = FdMap!AddRef(FdMap!Slot(fd), o)
               \/ \E q \in FdMap!Places : fdTodo[t][1] = FdMap!SwapWith(q, FdMap!Slot(fd)) /\ fdPtr[q] # FdMap!Null
<1> DEFINE s == fdTodo[t]  f == fdPtr  g == fdPtr'  c == FdMap!Slot(fd)
<1>1. f \in [FdMap!Places -> Obj \cup {FdMap!Null}] /\ c \in FdMap!Places /\ c \in TablePlaces /\ FdMap!Null \notin Obj
  BY PlacesAre DEF SharedInv, TablePlaces
<1>2. s # <<>> /\ 1 \in 1 .. Len(s) /\ Rest = s
  <2>1. s # <<>> /\ s \in Seq(Steps)
    BY StepIs
  <2>2. FdMap!NoThread # t
    BY FdMapAssumption DEF FdMap!NoThread
  <2> QED
    BY <2>1, <2>2 DEF Rest
<1>3. ASSUME NEW p, Sub(t, p)  PROVE g[c] = FdMap!Null /\ (\A a, b : s[1] # FdMap!AddRef(a, b) /\ s[1] # FdMap!SwapWith(a, b))
  <2>1. s[1] = FdMap!SubRef(p)
    BY <1>3 DEF Sub
  <2>2. c = p
    BY <2>1, StepWrites
  <2>3. g = [f EXCEPT ![p] = FdMap!Null]
    BY <1>3, SubDoes
  <2>4. \A a, b : s[1] # FdMap!AddRef(a, b)
    BY <2>1, StepsDiffer
  <2>5. \A a, b : s[1] # FdMap!SwapWith(a, b)
    BY <2>1, StepsDiffer
  <2> QED
    BY <2>2, <2>3, <2>4, <2>5, <1>1
<1>4. ASSUME NEW p, NEW o, Add(t, p, o)  PROVE g[c] # FdMap!Null /\ o \in Obj /\ s[1] = FdMap!AddRef(c, o)
  <2>1. s[1] = FdMap!AddRef(p, o) /\ o \in Obj
    BY <1>4 DEF Add
  <2>2. c = p
    BY <2>1, StepWrites
  <2>3. g = Put(f, p, o)
    BY <1>4, AddDoes
  <2> QED
    BY <2>1, <2>2, <2>3, <1>1 DEF Put
<1>5. ASSUME NEW p, NEW q, Swap(t, p, q)
      PROVE  /\ g[c] = f[p] /\ p \in FdMap!Places /\ s[1] = FdMap!SwapWith(p, c)
             /\ \A a, b : s[1] # FdMap!AddRef(a, b)
             /\ \A a : s[1] = FdMap!SwapWith(a, c) => a = p
  <2>1. s[1] = FdMap!SwapWith(p, q) /\ p # q
    BY <1>5 DEF Swap
  <2>2. p \in FdMap!Places /\ q \in FdMap!Places /\ g = [f EXCEPT ![p] = f[q], ![q] = f[p]]
    BY <1>5, SwapDoes
  <2>3. c \in {p, q}
    BY <2>1, StepWrites
  <2>4. p \notin TablePlaces
    BY <2>1, <2>2, <1>2 DEF TableInv
  <2>5. c = q
    BY <2>3, <2>4, <1>1
  <2>6. g[c] = f[p]
    BY <2>1, <2>2, <2>5, <1>1
  <2>7. \A a, b : s[1] # FdMap!AddRef(a, b)
    BY <2>1, StepsDiffer
  <2>8. \A a : FdMap!SwapWith(p, q) = FdMap!SwapWith(a, c) => p = a
    BY StepsDiffer
  <2> QED
    BY <2>1, <2>2, <2>5, <2>6, <2>7, <2>8
<1>6. ASSUME NEW o, Del(t, o)  PROVE FALSE
  BY <1>6, StepWrites DEF Del
<1>7. CASE \E p : Sub(t, p)
  BY <1>3, <1>7
<1>8. CASE \E p, o : Add(t, p, o)
  BY <1>4, <1>8
<1>9. CASE \E p, q : Swap(t, p, q)
  BY <1>5, <1>9
<1> QED
  BY <1>2, <1>6, <1>7, <1>8, <1>9, HeadIs

\* A step of a list keeps the table.
LEMMA StepTable ==
    ASSUME SharedInv, TableInv, NEW t \in FdThread, FdMap!Step(t)
    PROVE  TableInv'
<1> DEFINE s == fdTodo[t]  r == fdTodo'[t]  f == fdPtr  g == fdPtr'
<1>1. /\ fdTodo \in [FdThread -> Seq(Steps)] /\ fdLock \in FdThread \cup {FdMap!NoThread}
      /\ FdMap!NoThread \notin FdThread
  BY FdMapAssumption DEF SharedInv, FdMap!NoThread
<1>2. StepEffect(t) /\ RestAfter(t)
  BY StepKeeps
<1>3. /\ \A q \in FdMap!Places : ~Writes(s[1], q) => g[q] = f[q]
      /\ \A q \in FdMap!Places : Writes(s[1], q) => q \in Reach(t) \cup Inner
  BY <1>2 DEF StepEffect, Inner
<1>4. \A u \in FdThread : u # t => fdTodo'[u] = fdTodo[u]
  BY <1>1, <1>2 DEF RestAfter
<1>5. fdLock' = (IF fdLock = t /\ r = <<>> THEN FdMap!NoThread ELSE fdLock) /\ fdCap' = fdCap /\ fdSz' = fdSz
  BY StepIs
<1>6. TablePlaces \subseteq FdMap!Places /\ TablePlaces \cap Inner = {}
  BY PlacesAre, PlacesDiffer DEF TablePlaces, Inner
<1>7. CASE fdLock # t
  <2>1. fdLock' = fdLock
    BY <1>5, <1>7
  <2>2. fdLock # FdMap!NoThread => fdTodo'[fdLock] = fdTodo[fdLock]
    BY <1>1, <1>4, <1>7
  <2>3. ASSUME fdLock # FdMap!NoThread, NEW q \in Reach(fdLock)  PROVE g[q] = f[q]
    <3>1. q \in FdMap!Places /\ q \notin Reach(t) /\ q \notin Inner
      BY <2>3, <1>1, <1>7, ReachApart
    <3> QED
      BY <3>1, <1>3
  <2>4. \A q \in TablePlaces : g[q] = f[q]
    <3>1. TablePlaces \cap Reach(t) = {}
      BY <1>7, PlacesDiffer DEF TablePlaces, Reach, OwnPlaces
    <3> QED
      BY <3>1, <1>3, <1>6
  <2> QED
    BY <2>1, <2>2, <2>3, <2>4, <1>5, TableElsewhere
<1>8. CASE fdLock = t
  <2>1. Rest = s
    BY <1>1, <1>8 DEF Rest
  <2>2. Rest' = r
    BY <1>1, <1>5, <1>8 DEF Rest
  <2>3. PICK d \in {0, 1} :
               /\ Len(s) \in Nat /\ Len(s) >= 1
               /\ Len(r) \in Nat /\ Len(r) = Len(s) - d
               /\ \A j \in 1 .. Len(r) : j + d >= 2 => r[j] = s[j + d]
               /\ d = 0 => \/ \E o \in Obj : r[1] = FdMap!Delete(o)
                           \/ \E x \in Obj : r[1] = FdMap!SubRef(FdMap!Inside(x))
    BY <1>2, RestShape
  <2>4. d = 0 => \A q \in TablePlaces : ~Writes(r[1], q)
    <3>1. \A o, q : ~Writes(FdMap!Delete(o), q)
      BY StepWrites
    <3>2. \A x \in Obj : \A q \in TablePlaces : ~Writes(FdMap!SubRef(FdMap!Inside(x)), q)
      BY StepWrites, <1>6 DEF Inner
    <3> QED
      BY <3>1, <3>2, <2>3
  <2>5. d = 0 => \A a, b : r[1] # FdMap!SwapWith(a, b)
    <3>1. \A o, a, b : FdMap!Delete(o) # FdMap!SwapWith(a, b)
      BY StepsDiffer
    <3>2. \A x, a, b : FdMap!SubRef(x) # FdMap!SwapWith(a, b)
      BY StepsDiffer
    <3> QED
      BY <3>1, <3>2, <2>3
  <2>6. \A j \in 1 .. Len(r) : (j + d \in 1 .. Len(s) /\ r[j] = s[j + d]) \/ (j = 1 /\ d = 0)
    <3> HIDE DEF r, s
    <3> QED
      BY <2>3
  <2>7. \A fd \in Fd : Filled(g, r, fd) <=> Filled(f, s, fd)
    <3> SUFFICES ASSUME NEW fd \in Fd  PROVE Filled(g, r, fd) <=> Filled(f, s, fd)
      OBVIOUS
    <3>1. FdMap!Slot(fd) \in TablePlaces /\ FdMap!Slot(fd) \in FdMap!Places
      BY PlacesAre DEF TablePlaces
    <3>2. d = 0 => ~Writes(r[1], FdMap!Slot(fd))
      BY <3>1, <2>4
    <3>3. ~Writes(s[1], FdMap!Slot(fd)) => g[FdMap!Slot(fd)] = f[FdMap!Slot(fd)]
      BY <3>1, <1>3
    <3>4. Writes(s[1], FdMap!Slot(fd)) =>
               (g[FdMap!Slot(fd)] # FdMap!Null <=>
                   \/ \E o \in Obj : s[1] = FdMap!AddRef(FdMap!Slot(fd), o)
                   \/ \E q \in FdMap!Places : s[1] = FdMap!SwapWith(q, FdMap!Slot(fd)) /\ f[q] # FdMap!Null)
      BY <1>8, SlotWritten
    <3>5. ASSUME NEW k \in 1 .. Len(s), NEW q \in FdMap!Places, k >= 2, s[k] = FdMap!SwapWith(q, FdMap!Slot(fd))
          PROVE  g[q] = f[q]
      <4>1. Sound(f, s, Reach(t), k)
        BY <2>1, <3>5, <1>1, <1>8, RestWithin
      <4>2. Untouched(s, k, q)
        <5>1. \A p : FdMap!SubRef(p) # FdMap!SwapWith(q, FdMap!Slot(fd))
          BY StepsDiffer
        <5>2. \A p, o : FdMap!AddRef(p, o) # FdMap!SwapWith(q, FdMap!Slot(fd))
          BY StepsDiffer
        <5>3. \A a, b : FdMap!SwapWith(a, b) = FdMap!SwapWith(q, FdMap!Slot(fd)) => a = q
          BY StepsDiffer
        <5> QED
          BY <4>1, <3>5, <5>1, <5>2, <5>3 DEF Sound
      <4>3. 1 \in 1 .. k - 1
        BY <3>5, <2>3
      <4>4. ~Writes(s[1], q)
        BY <4>2, <4>3 DEF Untouched
      <4> QED
        BY <4>4, <1>3
    <3> HIDE DEF f, g, s, r
    <3> QED
      BY <3>2, <3>3, <3>4, <3>5, <2>3, FilledAfterHead
  <2>8. InTable' = InTable
    <3>1. InTable' = {fd \in Fd : Filled(g, r, fd)}
      BY <2>2 DEF InTable, Filled, Writes
    <3>2. InTable = {fd \in Fd : Filled(f, s, fd)}
      BY <2>1 DEF InTable
    <3> HIDE DEF f, g, r, s
    <3> QED
      BY <3>1, <3>2, <2>7
  <2>9. 1 \in 1 .. Len(s)
    BY <2>3
  <2>10. ASSUME NEW fd \in Fd, fd >= fdCap
         PROVE  g[FdMap!Slot(fd)] = FdMap!Null /\ \A k \in 1 .. Len(r) : ~Writes(r[k], FdMap!Slot(fd))
    <3>1. f[FdMap!Slot(fd)] = FdMap!Null /\ \A k \in 1 .. Len(s) : ~Writes(s[k], FdMap!Slot(fd))
      BY <2>1, <2>10 DEF TableInv
    <3>2. FdMap!Slot(fd) \in TablePlaces /\ FdMap!Slot(fd) \in FdMap!Places
      BY PlacesAre DEF TablePlaces
    <3> HIDE DEF r, s
    <3> QED
      BY <3>1, <3>2, <2>4, <2>6, <2>9, <1>3
  <2>11. \A k \in 1 .. Len(r) : \A p \in TablePlaces : \A q \in FdMap!Places : r[k] # FdMap!SwapWith(p, q)
    <3>1. \A k \in 1 .. Len(s) : \A p \in TablePlaces : \A q \in FdMap!Places : s[k] # FdMap!SwapWith(p, q)
      BY <2>1 DEF TableInv
    <3> HIDE DEF r, s
    <3> QED
      BY <3>1, <2>5, <2>6
  <2>12. fdLock' # FdMap!NoThread => fdTodo'[fdLock'] # <<>>
    BY <1>5, <1>8
  <2> QED
    BY <2>2, <2>8, <2>10, <2>11, <2>12, <1>5 DEF TableInv, Writes, TablePlaces
<1> QED
  BY <1>7, <1>8

\* The two descriptors.
LEMMA FdIs ==
    /\ FdMap!Min(Fd) \in Nat /\ FdMap!Max(Fd) \in Nat /\ FdMap!Min(Fd) # FdMap!Max(Fd)
    /\ Fd = {FdMap!Min(Fd), FdMap!Max(Fd)} /\ Fd \subseteq Nat
<1>1. PICK lo \in Nat, hi \in Nat : lo < hi /\ Fd = {lo, hi}
  BY FdMapAssumption
<1>2. FdMap!Min(Fd) = lo
  <2>1. \A x \in Fd : (\A y \in Fd : x =< y) <=> x = lo
    BY <1>1
  <2>2. \E x \in Fd : \A y \in Fd : x =< y
    BY <1>1, <2>1
  <2>3. FdMap!Min(Fd) \in Fd /\ \A y \in Fd : FdMap!Min(Fd) =< y
    BY <2>2 DEF FdMap!Min
  <2> QED
    BY <2>1, <2>3
<1>3. FdMap!Max(Fd) = hi
  <2>1. \A x \in Fd : (\A y \in Fd : x >= y) <=> x = hi
    BY <1>1
  <2>2. \E x \in Fd : \A y \in Fd : x >= y
    BY <1>1, <2>1
  <2>3. FdMap!Max(Fd) \in Fd /\ \A y \in Fd : FdMap!Max(Fd) >= y
    BY <2>2 DEF FdMap!Max
  <2> QED
    BY <2>1, <2>3
<1> QED
  BY <1>1, <1>2, <1>3

\* How many of two there are in a set of theirs.
LEMMA PairCount ==
    ASSUME NEW lo, NEW hi, lo # hi, NEW S, S \subseteq {lo, hi}
    PROVE  Cardinality(S) = (IF lo \in S THEN 1 ELSE 0) + (IF hi \in S THEN 1 ELSE 0)
<1>1. Cardinality({}) = 0
  BY FS_EmptySet
<1>2. Cardinality({lo}) = 1 /\ Cardinality({hi}) = 1 /\ IsFiniteSet({lo})
  BY FS_Singleton
<1>3. Cardinality({lo} \cup {hi}) = Cardinality({lo}) + 1
  BY <1>2, FS_AddElement
<1>4. CASE lo \in S /\ hi \in S
  <2>1. S = {lo} \cup {hi}
    BY <1>4
  <2> QED
    BY <2>1, <1>2, <1>3, <1>4
<1>5. CASE lo \in S /\ hi \notin S
  <2>1. S = {lo}
    BY <1>5
  <2> QED
    BY <2>1, <1>2, <1>5
<1>6. CASE lo \notin S /\ hi \in S
  <2>1. S = {hi}
    BY <1>6
  <2> QED
    BY <2>1, <1>2, <1>6
<1>7. CASE lo \notin S /\ hi \notin S
  <2>1. S = {}
    BY <1>7
  <2> QED
    BY <2>1, <1>1, <1>7
<1> QED
  BY <1>4, <1>5, <1>6, <1>7

\* A step exchanges no slot with another place, but maybe another place with a slot.
Tidy(e) == \A p \in TablePlaces : \A q \in FdMap!Places : e # FdMap!SwapWith(p, q)
AllTidy(s) == \A k \in 1 .. Len(s) : Tidy(s[k])
Skips(s, fd) == \A k \in 1 .. Len(s) : ~Writes(s[k], FdMap!Slot(fd))
Has(o) == o # FdMap!Null
Num(has) == IF has THEN 1 ELSE 0

\* Which steps are tidy.
LEMMA TidySteps ==
    /\ \A p : Tidy(FdMap!SubRef(p))
    /\ \A p, o : Tidy(FdMap!AddRef(p, o))
    /\ \A p, q : p \notin TablePlaces => Tidy(FdMap!SwapWith(p, q))
<1>1. \A p, q, r : FdMap!SubRef(p) # FdMap!SwapWith(q, r)
  BY StepsDiffer
<1>2. \A p, o, q, r : FdMap!AddRef(p, o) # FdMap!SwapWith(q, r)
  BY StepsDiffer
<1>3. \A p, q, r, w : FdMap!SwapWith(p, q) = FdMap!SwapWith(r, w) => p = r
  BY StepsDiffer
<1> QED
  BY <1>1, <1>2, <1>3 DEF Tidy

\* Part of a call on the table: a plan for places of the thread and the slot of fd, after
\* which the slot is filled or not; out of the capacity it is not touched unless filled.
Piece(t, s, R, fd, has) ==
    /\ Plan(fdPtr, s, R) /\ R \subseteq OwnPlaces(t) \cup {FdMap!Slot(fd)} /\ AllTidy(s)
    /\ has \in BOOLEAN /\ (Filled(fdPtr, s, fd) <=> has)
    /\ fd < fdCap \/ has \/ Skips(s, fd)

\* A slot that no step writes is filled when it is not null.
LEMMA FilledSkipped == \A f, s, fd : Skips(s, fd) => (Filled(f, s, fd) <=> Has(f[FdMap!Slot(fd)]))
<1> SUFFICES ASSUME NEW f, NEW s, NEW fd, Skips(s, fd)  PROVE Filled(f, s, fd) <=> Has(f[FdMap!Slot(fd)])
  OBVIOUS
<1>1. ASSUME NEW k \in 1 .. Len(s), NEW o, s[k] = FdMap!AddRef(FdMap!Slot(fd), o)  PROVE FALSE
  BY <1>1, StepWrites DEF Skips
<1>2. ASSUME NEW k \in 1 .. Len(s), NEW q, s[k] = FdMap!SwapWith(q, FdMap!Slot(fd))  PROVE FALSE
  BY <1>2, StepWrites DEF Skips
<1> QED
  BY <1>1, <1>2 DEF Filled, Skips, Has

\* A slot that the last step writes is filled by it.
LEMMA FilledEnd ==
    ASSUME NEW f, NEW s, NEW fd, NEW n \in Nat, n >= 1, Len(s) = n, Writes(s[n], FdMap!Slot(fd))
    PROVE  Filled(f, s, fd) <=> \/ \E o \in Obj : s[n] = FdMap!AddRef(FdMap!Slot(fd), o)
                                \/ \E q \in FdMap!Places : s[n] = FdMap!SwapWith(q, FdMap!Slot(fd)) /\ Has(f[q])
<1>1. n \in 1 .. Len(s) /\ \A j \in n + 1 .. Len(s) : FALSE
  OBVIOUS
<1>2. \A k \in 1 .. Len(s) : k # n => n \in k + 1 .. Len(s)
  OBVIOUS
<1>3. \A k \in 1 .. Len(s) : (\A j \in k + 1 .. Len(s) : ~Writes(s[j], FdMap!Slot(fd))) <=> k = n
  BY <1>1, <1>2
<1>4. ~(\A k \in 1 .. Len(s) : ~Writes(s[k], FdMap!Slot(fd)))
  BY <1>1
<1> QED
  BY <1>1, <1>3, <1>4 DEF Filled, Has

\* What a thread does with its own pointers keeps the objects and the table.
LEMMA OwnKeeps ==
    ASSUME SharedInv, TableInv, NEW t \in FdThread, NEW s, FdMap!Start(t, s), Plan(fdPtr, s, OwnPlaces(t))
    PROVE  SharedInv' /\ TableInv'
<1>1. /\ fdTodo[t] = <<>> /\ fdTodo' = [fdTodo EXCEPT ![t] = s] /\ fdMem' = fdMem /\ fdPtr' = fdPtr
      /\ fdLock' = fdLock /\ fdCap' = fdCap /\ fdSz' = fdSz
  BY DEF FdMap!Start
<1>2. OwnPlaces(t) \subseteq Reach(t)'
  BY DEF Reach, OwnPlaces
<1>3. Plan(fdPtr, s, Reach(t)')
  BY <1>2, PlanWider
<1>4. SharedInv'
  BY <1>1, <1>3, CallKeeps
<1>5. fdLock # FdMap!NoThread => fdTodo'[fdLock] = fdTodo[fdLock]
  BY <1>1 DEF SharedInv, TableInv
<1>6. TableInv'
  BY <1>1, <1>5, TableElsewhere
<1> QED
  BY <1>4, <1>6

\* And so does a call on the table that counts what it will have done.
LEMMA LockedKeeps ==
    ASSUME SharedInv, TableInv, NEW t \in FdThread, NEW s, NEW by, FdMap!Locked(t, s, by),
           Plan(fdPtr, s, OwnPlaces(t) \cup TablePlaces), AllTidy(s), fdCap' \in Nat,
           \A fd \in Fd : fd >= fdCap' => fdPtr[FdMap!Slot(fd)] = FdMap!Null /\ Skips(s, fd),
           Cardinality({fd \in Fd : Filled(fdPtr, s, fd)}) = Cardinality({fd \in Fd : Has(fdPtr[FdMap!Slot(fd)])}) + by
    PROVE  SharedInv' /\ TableInv'
<1>1. /\ fdTodo[t] = <<>> /\ fdTodo' = [fdTodo EXCEPT ![t] = s] /\ fdMem' = fdMem /\ fdPtr' = fdPtr
      /\ fdLock = FdMap!NoThread /\ fdLock' = t /\ fdSz' = fdSz + by /\ s # <<>>
  BY DEF FdMap!Locked
<1>2. Reach(t)' = OwnPlaces(t) \cup TablePlaces
  BY <1>1 DEF Reach, OwnPlaces, TablePlaces
<1>3. SharedInv'
  BY <1>1, <1>2, CallKeeps
<1>4. FdMap!NoThread # t /\ fdTodo'[t] = s
  BY <1>1, FdMapAssumption DEF FdMap!NoThread, SharedInv
<1>5. Rest' = s /\ Rest = <<>>
  BY <1>1, <1>4 DEF Rest
<1>6. InTable = {fd \in Fd : Has(fdPtr[FdMap!Slot(fd)])}
  BY <1>5, FilledNow DEF InTable, Has
<1>7. InTable' = {fd \in Fd : Filled(fdPtr, s, fd)}
  BY <1>1, <1>5 DEF InTable, Filled, Writes
<1>8. fdSz' = Cardinality(InTable')
  BY <1>1, <1>6, <1>7 DEF TableInv
<1>9. fdLock' # FdMap!NoThread => fdTodo'[fdLock'] # <<>>
  BY <1>1, <1>4
<1>10. \A fd \in Fd : fd >= fdCap' => fdPtr'[FdMap!Slot(fd)] = FdMap!Null
                                      /\ \A k \in 1 .. Len(s) : ~Writes(s[k], FdMap!Slot(fd))
  BY <1>1 DEF Skips
<1>11. \A k \in 1 .. Len(s) : \A p \in TablePlaces : \A q \in FdMap!Places : s[k] # FdMap!SwapWith(p, q)
  BY DEF AllTidy, Tidy
<1>12. TableInv'
  BY <1>5, <1>8, <1>9, <1>10, <1>11 DEF TableInv, Writes, TablePlaces
<1> QED
  BY <1>3, <1>12

\* A plan for places without a slot leaves it alone.
LEMMA PlanSkips ==
    ASSUME NEW f, NEW s, NEW R, Plan(f, s, R), NEW fd, FdMap!Slot(fd) \notin R
    PROVE  Skips(s, fd)
<1> SUFFICES ASSUME NEW k \in 1 .. Len(s), Writes(s[k], FdMap!Slot(fd))  PROVE FALSE
  BY DEF Skips
<1>1. Sound(f, s, R, k)
  BY DEF Plan
<1> QED
  BY <1>1, SoundWrites

\* A call of one part.
LEMMA PieceKeeps ==
    ASSUME SharedInv, TableInv, NEW t \in FdThread, NEW s, NEW by, FdMap!Locked(t, s, by),
           NEW fd \in Fd, NEW R, NEW has, Piece(t, s, R, fd, has),
           fdCap' = IF fd >= fdCap /\ has THEN fd + 1 ELSE fdCap,
           by = Num(has) - Num(Has(fdPtr[FdMap!Slot(fd)]))
    PROVE  SharedInv' /\ TableInv'
<1> DEFINE f == fdPtr  S == {x \in Fd : Filled(f, s, x)}  Z == {x \in Fd : Has(f[FdMap!Slot(x)])}
           lo == FdMap!Min(Fd)  hi == FdMap!Max(Fd)
<1>1. /\ lo \in Nat /\ hi \in Nat /\ lo # hi /\ Fd = {lo, hi} /\ Fd \subseteq Nat
  BY FdIs
<1>2. /\ Plan(f, s, R) /\ R \subseteq OwnPlaces(t) \cup {FdMap!Slot(fd)} /\ AllTidy(s)
      /\ has \in BOOLEAN /\ (Filled(f, s, fd) <=> has)
      /\ fd < fdCap \/ has \/ Skips(s, fd)
  BY DEF Piece
<1>3. Plan(f, s, OwnPlaces(t) \cup TablePlaces)
  <2>1. R \subseteq OwnPlaces(t) \cup TablePlaces
    BY <1>2 DEF TablePlaces
  <2> QED
    BY <2>1, <1>2, PlanWider
<1>4. \A x \in Fd : x # fd => Skips(s, x)
  <2> SUFFICES ASSUME NEW x \in Fd, x # fd  PROVE Skips(s, x)
    OBVIOUS
  <2>1. FdMap!Slot(x) \notin R
    BY <1>2, PlacesDiffer DEF OwnPlaces
  <2> QED
    BY <2>1, <1>2, PlanSkips
<1>5. \A x \in Fd : x # fd => (Filled(f, s, x) <=> Has(f[FdMap!Slot(x)]))
  BY <1>4, FilledSkipped
<1>6. fdCap \in Nat /\ fdCap' \in Nat
  BY <1>1 DEF TableInv
<1>7. \A x \in Fd : x >= fdCap => f[FdMap!Slot(x)] = FdMap!Null
  BY DEF TableInv
<1>8. ASSUME NEW x \in Fd, x >= fdCap'  PROVE f[FdMap!Slot(x)] = FdMap!Null /\ Skips(s, x)
  <2>1. x >= fdCap
    BY <1>1, <1>6, <1>8
  <2>2. CASE x = fd
    <3>1. ~has
      <4> SUFFICES ASSUME has  PROVE FALSE
        OBVIOUS
      <4>1. fdCap' = fd + 1
        BY <2>1, <2>2
      <4> QED
        BY <4>1, <2>2, <1>1, <1>8
    <3>2. ~(fd < fdCap)
      BY <2>1, <2>2, <1>1, <1>6
    <3> QED
      BY <3>1, <3>2, <2>1, <2>2, <1>2, <1>7
  <2>3. CASE x # fd
    BY <2>1, <2>3, <1>4, <1>7
  <2> QED
    BY <2>2, <2>3
<1>9. Cardinality(S) = Cardinality(Z) + by
  <2> DEFINE n(T, x) == IF x \in T THEN 1 ELSE 0
  <2>1. S \subseteq {lo, hi} /\ Z \subseteq {lo, hi}
    BY <1>1
  <2>2. \A x \in Fd : x # fd => (x \in S <=> x \in Z)
    BY <1>5
  <2>3. (fd \in S <=> has) /\ (fd \in Z <=> Has(f[FdMap!Slot(fd)]))
    BY <1>2
  <2> HIDE DEF S, Z, lo, hi
  <2>4. Cardinality(S) = n(S, lo) + n(S, hi) /\ Cardinality(Z) = n(Z, lo) + n(Z, hi)
    <3>1. lo # hi
      BY <1>1
    <3>2. Cardinality(S) = n(S, lo) + n(S, hi)
      BY <3>1, <2>1, PairCount
    <3>3. Cardinality(Z) = n(Z, lo) + n(Z, hi)
      BY <3>1, <2>1, PairCount
    <3> QED
      BY <3>2, <3>3
  <2>5. n(S, fd) = n(Z, fd) + by
    BY <2>3, <1>2 DEF Num
  <2>6. \A x \in Fd : x # fd => n(S, x) = n(Z, x)
    BY <2>2
  <2>7. \A T, x : n(T, x) \in Int
    OBVIOUS
  <2>8. by \in Int
    BY DEF Num
  <2> HIDE DEF n
  <2>9. CASE fd = lo
    BY <2>4, <2>5, <2>6, <2>7, <2>8, <2>9, <1>1
  <2>10. CASE fd = hi
    BY <2>4, <2>5, <2>6, <2>7, <2>8, <2>10, <1>1
  <2> QED
    BY <2>9, <2>10, <1>1
<1> HIDE DEF f
<1>10. \A x \in Fd : x >= fdCap' => f[FdMap!Slot(x)] = FdMap!Null /\ Skips(s, x)
  BY <1>8
<1> QED
  BY <1>2, <1>3, <1>6, <1>9, <1>10, LockedKeeps DEF f

\* A call of two, one for each descriptor.
LEMMA PiecesKeep ==
    ASSUME SharedInv, TableInv, NEW t \in FdThread, NEW a, NEW b, NEW by, FdMap!Locked(t, a \o b, by),
           NEW A, NEW x, Piece(t, a, A, FdMap!Min(Fd), x), NEW B, NEW y, Piece(t, b, B, FdMap!Max(Fd), y), A \cap B = {},
           x => FdMap!Min(Fd) < fdCap, y => FdMap!Max(Fd) < fdCap, fdCap' = fdCap,
           by = (Num(x) - Num(Has(fdPtr[FdMap!Slot(FdMap!Min(Fd))])))
                + (Num(y) - Num(Has(fdPtr[FdMap!Slot(FdMap!Max(Fd))])))
    PROVE  SharedInv' /\ TableInv'
<1> DEFINE f == fdPtr  lo == FdMap!Min(Fd)  hi == FdMap!Max(Fd)  s == a \o b
           S == {d \in Fd : Filled(f, s, d)}  Z == {d \in Fd : Has(f[FdMap!Slot(d)])}
<1>1. /\ lo \in Nat /\ hi \in Nat /\ lo # hi /\ Fd = {lo, hi} /\ Fd \subseteq Nat
  BY FdIs
<1>2. /\ Plan(f, a, A) /\ A \subseteq OwnPlaces(t) \cup {FdMap!Slot(lo)} /\ AllTidy(a)
      /\ x \in BOOLEAN /\ (Filled(f, a, lo) <=> x)
      /\ lo < fdCap \/ x \/ Skips(a, lo)
  BY DEF Piece
<1>3. /\ Plan(f, b, B) /\ B \subseteq OwnPlaces(t) \cup {FdMap!Slot(hi)} /\ AllTidy(b)
      /\ y \in BOOLEAN /\ (Filled(f, b, hi) <=> y)
      /\ hi < fdCap \/ y \/ Skips(b, hi)
  BY DEF Piece
<1>4. Plan(f, s, OwnPlaces(t) \cup TablePlaces)
  <2>1. A \cup B \subseteq OwnPlaces(t) \cup TablePlaces
    BY <1>1, <1>2, <1>3 DEF TablePlaces
  <2>2. Plan(f, s, A \cup B)
    BY <1>2, <1>3, JoinPlan
  <2> HIDE DEF s
  <2> QED
    BY <2>1, <2>2, PlanWider
<1>5. Skips(b, lo) /\ Skips(a, hi)
  <2>1. FdMap!Slot(lo) \notin B /\ FdMap!Slot(hi) \notin A
    BY <1>1, <1>2, <1>3, PlacesDiffer DEF OwnPlaces
  <2> QED
    BY <2>1, <1>2, <1>3, PlanSkips
<1>6. a \in Seq(Steps) /\ b \in Seq(Steps)
  BY <1>2, <1>3 DEF Plan
<1>7. (Filled(f, s, lo) <=> x) /\ (Filled(f, s, hi) <=> y)
  BY <1>2, <1>3, <1>5, <1>6, JoinFilled DEF Skips
<1>8. \A k \in 1 .. Len(s) : \/ \E j \in 1 .. Len(a) : s[k] = a[j]
                             \/ \E j \in 1 .. Len(b) : s[k] = b[j]
  <2> SUFFICES ASSUME NEW k \in 1 .. Len(s)
               PROVE  (\E j \in 1 .. Len(a) : s[k] = a[j]) \/ (\E j \in 1 .. Len(b) : s[k] = b[j])
    OBVIOUS
  <2>1. /\ Len(a) \in Nat /\ Len(b) \in Nat /\ Len(s) = Len(a) + Len(b)
        /\ \A j \in 1 .. Len(a) : s[j] = a[j]
        /\ \A j \in 1 .. Len(b) : s[Len(a) + j] = b[j]
    BY <1>6, JoinIs
  <2> HIDE DEF s
  <2>2. k \in 1 .. Len(a) \/ (k - Len(a) \in 1 .. Len(b) /\ Len(a) + (k - Len(a)) = k)
    BY <2>1
  <2>3. CASE k \in 1 .. Len(a)
    BY <2>1, <2>3
  <2>4. CASE k - Len(a) \in 1 .. Len(b) /\ Len(a) + (k - Len(a)) = k
    <3>1. s[k] = b[k - Len(a)]
      BY <2>1, <2>4
    <3> QED
      BY <3>1, <2>4
  <2> QED
    BY <2>2, <2>3, <2>4
<1> HIDE DEF s
<1>9. AllTidy(s)
  BY <1>2, <1>3, <1>8 DEF AllTidy
<1>10. \A d : (Skips(a, d) /\ Skips(b, d)) => Skips(s, d)
  BY <1>8 DEF Skips
<1>11. fdCap \in Nat /\ \A d \in Fd : d >= fdCap => f[FdMap!Slot(d)] = FdMap!Null
  BY DEF TableInv
<1>12. ASSUME NEW d \in Fd, d >= fdCap'  PROVE f[FdMap!Slot(d)] = FdMap!Null /\ Skips(s, d)
  <2>1. d >= fdCap /\ ~(d < fdCap)
    BY <1>1, <1>11, <1>12
  <2>2. Skips(a, d) /\ Skips(b, d)
    BY <2>1, <1>1, <1>2, <1>3, <1>5
  <2> QED
    BY <2>1, <2>2, <1>10, <1>11
<1>13. Cardinality(S) = Cardinality(Z) + by
  <2> DEFINE n(T, d) == IF d \in T THEN 1 ELSE 0
  <2>1. S \subseteq {lo, hi} /\ Z \subseteq {lo, hi}
    BY <1>1
  <2>2. /\ lo \in S <=> x
        /\ hi \in S <=> y
        /\ lo \in Z <=> Has(f[FdMap!Slot(lo)])
        /\ hi \in Z <=> Has(f[FdMap!Slot(hi)])
    BY <1>1, <1>7
  <2>3. by = (Num(x) - Num(Has(f[FdMap!Slot(lo)]))) + (Num(y) - Num(Has(f[FdMap!Slot(hi)])))
    OBVIOUS
  <2> HIDE DEF S, Z, lo, hi, f
  <2>4. Cardinality(S) = n(S, lo) + n(S, hi) /\ Cardinality(Z) = n(Z, lo) + n(Z, hi)
    <3>1. lo # hi
      BY <1>1
    <3>2. Cardinality(S) = n(S, lo) + n(S, hi)
      BY <3>1, <2>1, PairCount
    <3>3. Cardinality(Z) = n(Z, lo) + n(Z, hi)
      BY <3>1, <2>1, PairCount
    <3> QED
      BY <3>2, <3>3
  <2>5. n(S, lo) = Num(x) /\ n(S, hi) = Num(y) /\ n(Z, lo) = Num(Has(f[FdMap!Slot(lo)])) /\ n(Z, hi) = Num(Has(f[FdMap!Slot(hi)]))
    BY <2>2 DEF Num
  <2>6. Num(x) \in Int /\ Num(y) \in Int /\ Num(Has(f[FdMap!Slot(lo)])) \in Int /\ Num(Has(f[FdMap!Slot(hi)])) \in Int
    BY DEF Num
  <2>7. Cardinality(S) = Num(x) + Num(y)
        /\ Cardinality(Z) = Num(Has(f[FdMap!Slot(lo)])) + Num(Has(f[FdMap!Slot(hi)]))
    BY <2>4, <2>5
  <2> QED
    BY <2>3, <2>6, <2>7
<1> HIDE DEF f
<1>14. \A d \in Fd : d >= fdCap' => f[FdMap!Slot(d)] = FdMap!Null /\ Skips(s, d)
  BY <1>12
<1>15. fdCap' \in Nat /\ FdMap!Locked(t, s, by)
  BY <1>11 DEF s
<1> QED
  BY <1>4, <1>9, <1>13, <1>14, <1>15, LockedKeeps DEF f

\* What changeRef does, case by case.
LEMMA ChangeIs ==
    ASSUME NEW p, NEW cur, NEW o
    PROVE  /\ cur = o => FdMap!ChangeRef(p, cur, o) = <<>>
           /\ (cur # o /\ cur = FdMap!Null) => FdMap!ChangeRef(p, cur, o) = <<FdMap!AddRef(p, o)>>
           /\ (cur # o /\ o = FdMap!Null) => FdMap!ChangeRef(p, cur, o) = <<FdMap!SubRef(p)>>
           /\ (cur # o /\ cur # FdMap!Null /\ o # FdMap!Null) =>
                 FdMap!ChangeRef(p, cur, o) = <<FdMap!SubRef(p), FdMap!AddRef(p, o)>>
<1>1. cur = o => FdMap!ChangeRef(p, cur, o) = <<>>
  BY DEF FdMap!ChangeRef
<1>2. (cur # o /\ cur = FdMap!Null) => FdMap!ChangeRef(p, cur, o) = <<FdMap!AddRef(p, o)>>
  BY JoinNone DEF FdMap!ChangeRef, FdMap!Seq1
<1>3. (cur # o /\ o = FdMap!Null) => FdMap!ChangeRef(p, cur, o) = <<FdMap!SubRef(p)>>
  BY JoinNone DEF FdMap!ChangeRef, FdMap!Seq1
<1>4. (cur # o /\ cur # FdMap!Null /\ o # FdMap!Null) =>
          FdMap!ChangeRef(p, cur, o) = <<FdMap!SubRef(p), FdMap!AddRef(p, o)>>
  BY JoinTwo DEF FdMap!ChangeRef, FdMap!Seq1
<1> QED
  BY <1>1, <1>2, <1>3, <1>4

\* Lists of a few tidy steps.
LEMMA TidyLists ==
    /\ AllTidy(<<>>)
    /\ \A a : Tidy(a) => AllTidy(<<a>>)
    /\ \A a, b : (Tidy(a) /\ Tidy(b)) => AllTidy(<<a, b>>)
    /\ \A a, b, c : (Tidy(a) /\ Tidy(b) /\ Tidy(c)) => AllTidy(<<a, b, c>>)
<1>1. AllTidy(<<>>)
  BY DEF AllTidy
<1>2. ASSUME NEW a, Tidy(a)  PROVE AllTidy(<<a>>)
  <2>1. Len(<<a>>) = 1 /\ <<a>>[1] = a /\ \A k \in 1 .. 1 : k = 1
    OBVIOUS
  <2> QED
    BY <2>1, <1>2 DEF AllTidy
<1>3. ASSUME NEW a, NEW b, Tidy(a), Tidy(b)  PROVE AllTidy(<<a, b>>)
  <2>1. Len(<<a, b>>) = 2 /\ <<a, b>>[1] = a /\ <<a, b>>[2] = b /\ \A k \in 1 .. 2 : k = 1 \/ k = 2
    OBVIOUS
  <2> QED
    BY <2>1, <1>3 DEF AllTidy
<1>4. ASSUME NEW a, NEW b, NEW c, Tidy(a), Tidy(b), Tidy(c)  PROVE AllTidy(<<a, b, c>>)
  <2>1. /\ Len(<<a, b, c>>) = 3 /\ <<a, b, c>>[1] = a /\ <<a, b, c>>[2] = b /\ <<a, b, c>>[3] = c
        /\ \A k \in 1 .. 3 : k = 1 \/ k = 2 \/ k = 3
    OBVIOUS
  <2> QED
    BY <2>1, <1>4 DEF AllTidy
<1> QED
  BY <1>1, <1>2, <1>3, <1>4

\* changeRef writes its pointer only.
LEMMA ChangeWrites ==
    ASSUME NEW p, NEW cur, NEW o
    PROVE  /\ AllTidy(FdMap!ChangeRef(p, cur, o))
           /\ \A fd : p # FdMap!Slot(fd) => Skips(FdMap!ChangeRef(p, cur, o), fd)
<1> DEFINE c == FdMap!ChangeRef(p, cur, o)  a == FdMap!SubRef(p)  b == FdMap!AddRef(p, o)
<1>1. c \in {<<>>, <<b>>, <<a>>, <<a, b>>}
  BY ChangeIs
<1>2. Tidy(a) /\ Tidy(b)
  BY TidySteps
<1>3. \A q : q # p => ~Writes(a, q) /\ ~Writes(b, q)
  BY StepWrites
<1> HIDE DEF a, b, c
<1>4. AllTidy(c)
  BY <1>1, <1>2, TidyLists
<1>5. \A k \in 1 .. Len(c) : c[k] \in {a, b}
  BY <1>1
<1>6. \A fd : p # FdMap!Slot(fd) => Skips(c, fd)
  BY <1>3, <1>5 DEF Skips
<1> QED
  BY <1>4, <1>6 DEF c

\* What the last step of these lists gives a slot.
LEMMA FilledEnds ==
    ASSUME NEW f, NEW fd
    PROVE  /\ \A o \in Obj : Filled(f, <<FdMap!AddRef(FdMap!Slot(fd), o)>>, fd)
           /\ ~Filled(f, <<FdMap!SubRef(FdMap!Slot(fd))>>, fd)
           /\ \A a : \A o \in Obj : Filled(f, <<a, FdMap!AddRef(FdMap!Slot(fd), o)>>, fd)
           /\ \A a : ~Filled(f, <<a, FdMap!SubRef(FdMap!Slot(fd))>>, fd)
           /\ \A a, b : \A o \in Obj : Filled(f, <<a, b, FdMap!AddRef(FdMap!Slot(fd), o)>>, fd)
           /\ \A q \in FdMap!Places : Filled(f, <<FdMap!SwapWith(q, FdMap!Slot(fd))>>, fd) <=> Has(f[q])
<1> DEFINE p == FdMap!Slot(fd)
           Gives(e) == \/ \E o \in Obj : e = FdMap!AddRef(FdMap!Slot(fd), o)
                       \/ \E q \in FdMap!Places : e = FdMap!SwapWith(q, FdMap!Slot(fd)) /\ Has(f[q])
<1>1. \A s : \A n \in Nat : (n >= 1 /\ Len(s) = n /\ Writes(s[n], p)) => (Filled(f, s, fd) <=> Gives(s[n]))
  BY FilledEnd
<1>2. \A o \in Obj : Gives(FdMap!AddRef(p, o))
  OBVIOUS
<1>3. ~Gives(FdMap!SubRef(p))
  <2>1. \A o : FdMap!SubRef(p) # FdMap!AddRef(p, o)
    BY StepsDiffer
  <2>2. \A q : FdMap!SubRef(p) # FdMap!SwapWith(q, p)
    BY StepsDiffer
  <2> QED
    BY <2>1, <2>2
<1>4. ASSUME NEW q \in FdMap!Places  PROVE Gives(FdMap!SwapWith(q, p)) <=> Has(f[q])
  <2>1. \A o : FdMap!SwapWith(q, p) # FdMap!AddRef(p, o)
    BY StepsDiffer
  <2>2. \A r : FdMap!SwapWith(q, p) = FdMap!SwapWith(r, p) => q = r
    BY StepsDiffer
  <2> QED
    BY <2>1, <2>2
<1>5. /\ \A o : Writes(FdMap!AddRef(p, o), p)
      /\ Writes(FdMap!SubRef(p), p)
      /\ \A q : Writes(FdMap!SwapWith(q, p), p)
  BY StepWrites
<1> HIDE DEF Gives, p
<1>7. \A e : Writes(e, p) => (Filled(f, <<e>>, fd) <=> Gives(e))
  <2> SUFFICES ASSUME NEW e, Writes(e, p)  PROVE Filled(f, <<e>>, fd) <=> Gives(e)
    OBVIOUS
  <2> DEFINE s == <<e>>
  <2>1. Len(s) = 1 /\ s[1] = e /\ 1 \in Nat /\ 1 >= 1
    OBVIOUS
  <2> HIDE DEF s
  <2>2. Filled(f, s, fd) <=> Gives(e)
    BY <2>1, <1>1
  <2> QED
    BY <2>2 DEF s
<1>8. \A a, e : Writes(e, p) => (Filled(f, <<a, e>>, fd) <=> Gives(e))
  <2> SUFFICES ASSUME NEW a, NEW e, Writes(e, p)  PROVE Filled(f, <<a, e>>, fd) <=> Gives(e)
    OBVIOUS
  <2> DEFINE s == <<a, e>>
  <2>1. Len(s) = 2 /\ s[2] = e /\ 2 \in Nat /\ 2 >= 1
    OBVIOUS
  <2> HIDE DEF s
  <2>2. Filled(f, s, fd) <=> Gives(e)
    BY <2>1, <1>1
  <2> QED
    BY <2>2 DEF s
<1>9. \A a, b, e : Writes(e, p) => (Filled(f, <<a, b, e>>, fd) <=> Gives(e))
  <2> SUFFICES ASSUME NEW a, NEW b, NEW e, Writes(e, p)  PROVE Filled(f, <<a, b, e>>, fd) <=> Gives(e)
    OBVIOUS
  <2> DEFINE s == <<a, b, e>>
  <2>1. Len(s) = 3 /\ s[3] = e /\ 3 \in Nat /\ 3 >= 1
    OBVIOUS
  <2> HIDE DEF s
  <2>2. Filled(f, s, fd) <=> Gives(e)
    BY <2>1, <1>1
  <2> QED
    BY <2>2 DEF s
<1>10. \A o \in Obj : Filled(f, <<FdMap!AddRef(p, o)>>, fd)
  BY <1>2, <1>5, <1>7
<1>11. ~Filled(f, <<FdMap!SubRef(p)>>, fd)
  BY <1>3, <1>5, <1>7
<1>12. \A a : \A o \in Obj : Filled(f, <<a, FdMap!AddRef(p, o)>>, fd)
  BY <1>2, <1>5, <1>8
<1>13. \A a : ~Filled(f, <<a, FdMap!SubRef(p)>>, fd)
  BY <1>3, <1>5, <1>8
<1>14. \A a, b : \A o \in Obj : Filled(f, <<a, b, FdMap!AddRef(p, o)>>, fd)
  BY <1>2, <1>5, <1>9
<1>15. \A q \in FdMap!Places : Filled(f, <<FdMap!SwapWith(q, p)>>, fd) <=> Has(f[q])
  BY <1>4, <1>5, <1>7
<1> QED
  BY <1>10, <1>11, <1>12, <1>13, <1>14, <1>15 DEF p

\* A slot assigned holds what it was assigned.
LEMMA FilledChange ==
    ASSUME NEW f, NEW fd, NEW o \in Obj \cup {FdMap!Null}
    PROVE  Filled(f, FdMap!ChangeRef(FdMap!Slot(fd), f[FdMap!Slot(fd)], o), fd) <=> Has(o)
<1> DEFINE p == FdMap!Slot(fd)  c == FdMap!ChangeRef(p, f[p], o)
<1>1. CASE f[p] = o
  <2>1. c = <<>>
    BY <1>1, ChangeIs
  <2> HIDE DEF c
  <2>2. Filled(f, c, fd) <=> f[p] # FdMap!Null
    BY <2>1, FilledNow
  <2> QED
    BY <2>2, <1>1 DEF Has, c
<1>2. CASE f[p] # o /\ f[p] = FdMap!Null
  <2>1. c = <<FdMap!AddRef(p, o)>> /\ o \in Obj
    BY <1>2, ChangeIs
  <2> HIDE DEF c
  <2> QED
    BY <2>1, <1>2, FilledEnds DEF Has, c
<1>3. CASE f[p] # o /\ o = FdMap!Null
  <2>1. c = <<FdMap!SubRef(p)>>
    BY <1>3, ChangeIs
  <2> HIDE DEF c
  <2> QED
    BY <2>1, <1>3, FilledEnds DEF Has, c
<1>4. CASE f[p] # o /\ f[p] # FdMap!Null /\ o # FdMap!Null
  <2>1. c = <<FdMap!SubRef(p), FdMap!AddRef(p, o)>> /\ o \in Obj
    BY <1>4, ChangeIs
  <2> HIDE DEF c
  <2> QED
    BY <2>1, <1>4, FilledEnds DEF Has, c
<1> QED
  BY <1>1, <1>2, <1>3, <1>4

\* setAux gives the slot what it is given, and the place asked for what the slot held.
LEMMA AuxPiece ==
    ASSUME SharedInv, TableInv, NEW t \in FdThread, NEW fd \in Fd, NEW o \in Obj \cup {FdMap!Null}, NEW from,
           NEW old \in {FdMap!NoPlace, FdMap!Mine(t), FdMap!Other(t)},
           \/ from = FdMap!Mine(t) /\ o = fdPtr[FdMap!Mine(t)]
           \/ from = FdMap!Temporary /\ o = FdMap!Null,
           NEW R, FdMap!Slot(fd) \in R, old # FdMap!NoPlace => old \in R, o # FdMap!Null => FdMap!Mine(t) \in R,
           R \subseteq OwnPlaces(t) \cup {FdMap!Slot(fd)}
    PROVE  Piece(t, FdMap!SetAux(fd, o, from, old), R, fd, Has(o))
<1> DEFINE f == fdPtr  c == FdMap!Slot(fd)  s == FdMap!SetAux(fd, o, from, old)
           Done(w) == Plan(f, w, R) /\ AllTidy(w) /\ (Filled(f, w, fd) <=> Has(o))
                      /\ (fd < fdCap \/ Has(o) \/ Skips(w, fd))
<1>1. f \in [FdMap!Places -> Obj \cup {FdMap!Null}]
  BY DEF SharedInv
<1>2. /\ c \in FdMap!Places /\ FdMap!Mine(t) \in FdMap!Places /\ FdMap!Other(t) \in FdMap!Places
      /\ FdMap!NoPlace \notin FdMap!Places /\ FdMap!Null \notin Obj /\ c \in TablePlaces
  BY PlacesAre DEF TablePlaces
<1>3. R \subseteq FdMap!Places
  BY <1>2 DEF OwnPlaces
<1>4. FdMap!Mine(t) # c /\ FdMap!Other(t) # c /\ FdMap!Mine(t) # FdMap!Other(t)
      /\ FdMap!Mine(t) \notin TablePlaces /\ FdMap!Other(t) \notin TablePlaces
  BY PlacesDiffer DEF TablePlaces
<1>5. from # FdMap!NoPlace
  BY <1>2 DEF FdMap!Temporary, FdMap!NoPlace
<1>6. o # FdMap!Null => o \in Obj /\ from = FdMap!Mine(t) /\ o = f[FdMap!Mine(t)] /\ FdMap!Mine(t) \in R
  OBVIOUS
<1>7. o # FdMap!Null => Offers(f, R, c, o)
  BY <1>4, <1>6 DEF Offers
<1>8. fd \in Nat /\ fdCap \in Nat
  BY FdIs DEF TableInv
<1>10. ASSUME fd < fdCap /\ old = FdMap!NoPlace  PROVE Done(s)
  <2>1. s = FdMap!ChangeRef(c, f[c], o)
    <3> DEFINE d == FdMap!ChangeRef(c, f[c], o)
    <3>1. s = <<>> \o d
      BY <1>5, <1>10 DEF FdMap!SetAux, FdMap!Seq1
    <3>2. d \in Seq(Steps)
      BY <1>1, <1>3, <1>7, ChangePlan DEF Plan
    <3> HIDE DEF d, s
    <3>3. <<>> \o d = d
      BY <3>2
    <3> QED
      BY <3>1, <3>3 DEF d
  <2>2. Plan(f, FdMap!ChangeRef(c, f[c], o), R)
    BY <1>1, <1>3, <1>7, ChangePlan
  <2>3. AllTidy(FdMap!ChangeRef(c, f[c], o))
    BY ChangeWrites
  <2>4. Filled(f, FdMap!ChangeRef(c, f[c], o), fd) <=> Has(o)
    BY FilledChange
  <2> QED
    BY <2>1, <2>2, <2>3, <2>4, <1>10
<1>11. ASSUME fd < fdCap /\ old # FdMap!NoPlace /\ (from = old \/ f[old] = o)  PROVE Done(s)
  <2>1. old \in {FdMap!Mine(t), FdMap!Other(t)} /\ old \in R /\ old # c /\ old \notin TablePlaces /\ old \in FdMap!Places
    BY <1>2, <1>4, <1>11
  <2>2. s = <<FdMap!SwapWith(old, c)>>
    <3>1. FdMap!ChangeRef(c, o, o) = <<>>
      BY ChangeIs
    <3> QED
      BY <3>1, <1>11, JoinNone DEF FdMap!SetAux, FdMap!Seq1
  <2>3. Plan(f, <<FdMap!SwapWith(old, c)>>, R)
    BY <2>1, <1>3, SwapPlan
  <2>4. AllTidy(<<FdMap!SwapWith(old, c)>>)
    BY <2>1, TidySteps, TidyLists
  <2>5. f[old] = o
    BY <1>2, <1>11, <2>1 DEF FdMap!Temporary, FdMap!Mine, FdMap!Other
  <2>6. Filled(f, <<FdMap!SwapWith(old, c)>>, fd) <=> Has(o)
    BY <2>1, <2>5, FilledEnds
  <2> QED
    BY <2>2, <2>3, <2>4, <2>6, <1>11
<1>12. ASSUME fd < fdCap /\ old # FdMap!NoPlace /\ from # old /\ f[old] # o  PROVE Done(s)
  <2>1. old \in {FdMap!Mine(t), FdMap!Other(t)} /\ old \in R /\ old # c /\ old \notin TablePlaces /\ old \in FdMap!Places
    BY <1>2, <1>4, <1>12
  <2>2. s = <<FdMap!SwapWith(old, c)>> \o FdMap!ChangeRef(c, f[old], o)
    BY <1>12 DEF FdMap!SetAux, FdMap!Seq1
  <2>3. o # FdMap!Null => FdMap!Mine(t) \in R /\ FdMap!Mine(t) # old /\ FdMap!Mine(t) # c /\ f[FdMap!Mine(t)] = o /\ o \in Obj
    BY <1>4, <1>6, <1>12
  <2>4. Tidy(FdMap!SwapWith(old, c)) /\ Tidy(FdMap!SubRef(c)) /\ Tidy(FdMap!AddRef(c, o))
    BY <2>1, TidySteps
  <2>5. CASE f[old] = FdMap!Null
    <3> DEFINE w == <<FdMap!SwapWith(old, c), FdMap!AddRef(c, o)>>
    <3>1. FdMap!ChangeRef(c, f[old], o) = <<FdMap!AddRef(c, o)>> /\ o # FdMap!Null
      BY <1>12, <2>5, ChangeIs
    <3>2. s = w
      BY <2>2, <3>1, JoinTwo
    <3>3. Plan(f, w, R)
      BY <2>1, <2>3, <2>5, <3>1, <1>3, SwapAddPlan
    <3>4. AllTidy(w)
      BY <2>4, TidyLists
    <3>5. Filled(f, w, fd)
      BY <2>3, <3>1, FilledEnds
    <3> HIDE DEF w
    <3> QED
      BY <3>1, <3>2, <3>3, <3>4, <3>5, <1>12 DEF Has
  <2>6. CASE o = FdMap!Null
    <3> DEFINE w == <<FdMap!SwapWith(old, c), FdMap!SubRef(c)>>
    <3>1. FdMap!ChangeRef(c, f[old], o) = <<FdMap!SubRef(c)>>
      BY <1>12, <2>6, ChangeIs
    <3>2. s = w
      BY <2>2, <3>1, JoinTwo
    <3>3. Plan(f, w, R)
      BY <2>1, <1>3, SwapSubPlan
    <3>4. AllTidy(w)
      BY <2>4, TidyLists
    <3>5. ~Filled(f, w, fd)
      BY FilledEnds
    <3> HIDE DEF w
    <3> QED
      BY <2>6, <3>2, <3>3, <3>4, <3>5, <1>12 DEF Has
  <2>7. CASE f[old] # FdMap!Null /\ o # FdMap!Null
    <3> DEFINE w == <<FdMap!SwapWith(old, c), FdMap!SubRef(c), FdMap!AddRef(c, o)>>
    <3>1. FdMap!ChangeRef(c, f[old], o) = <<FdMap!SubRef(c), FdMap!AddRef(c, o)>>
      BY <1>12, <2>7, ChangeIs
    <3>2. s = w
      BY <2>2, <3>1, JoinThree
    <3>3. Plan(f, w, R)
      BY <2>1, <2>3, <2>7, <1>3, SwapSubAddPlan
    <3>4. AllTidy(w)
      BY <2>4, TidyLists
    <3>5. Filled(f, w, fd)
      BY <2>3, <2>7, FilledEnds
    <3> HIDE DEF w
    <3> QED
      BY <2>7, <3>2, <3>3, <3>4, <3>5, <1>12 DEF Has
  <2> QED
    BY <2>5, <2>6, <2>7
<1>13. ASSUME ~(fd < fdCap)  PROVE Done(s)
  <2>1. f[c] = FdMap!Null
    BY <1>8, <1>13 DEF TableInv
  <2> DEFINE A == FdMap!Seq1(o # FdMap!Null, FdMap!AddRef(c, o))
             B == FdMap!Seq1(old # FdMap!NoPlace /\ f[old] # FdMap!Null, FdMap!SubRef(old))
  <2>2. s = A \o B
    BY <1>13 DEF FdMap!SetAux
  <2>3. old # FdMap!NoPlace => old \in R /\ old # c
    BY <1>4
  <2>4. Tidy(FdMap!AddRef(c, o)) /\ Tidy(FdMap!SubRef(old))
    BY TidySteps
  <2>5. CASE o = FdMap!Null /\ B = <<>>
    <3>1. s = <<>>
      BY <2>2, <2>5, JoinNone DEF FdMap!Seq1
    <3> HIDE DEF s
    <3>2. Filled(f, s, fd) <=> Has(o)
      BY <2>1, <2>5, <3>1, FilledNow DEF Has
    <3>3. Skips(s, fd)
      BY <3>1 DEF Skips
    <3>4. Plan(f, s, R) /\ AllTidy(s)
      BY <3>1, NoPlan, TidyLists
    <3> QED
      BY <3>2, <3>3, <3>4
  <2>6. CASE o = FdMap!Null /\ B # <<>>
    <3>1. B = <<FdMap!SubRef(old)>> /\ old # FdMap!NoPlace
      BY <2>6 DEF FdMap!Seq1
    <3>2. s = <<FdMap!SubRef(old)>>
      BY <2>2, <2>6, <3>1, JoinNone DEF FdMap!Seq1
    <3> HIDE DEF s, A, B
    <3>3. Skips(<<FdMap!SubRef(old)>>, fd)
      <4>1. ~Writes(FdMap!SubRef(old), c)
        BY <2>3, <3>1, StepWrites
      <4> QED
        BY <4>1 DEF Skips
    <3>4. Filled(f, s, fd) <=> Has(o)
      BY <2>1, <2>6, <3>2, <3>3, FilledSkipped DEF Has
    <3>5. Plan(f, s, R) /\ AllTidy(s)
      BY <3>1, <3>2, <2>3, <2>4, <1>3, SubPlan, TidyLists
    <3> QED
      BY <3>2, <3>3, <3>4, <3>5
  <2>7. CASE o # FdMap!Null /\ B = <<>>
    <3>1. s = <<FdMap!AddRef(c, o)>>
      BY <2>2, <2>7, JoinNone DEF FdMap!Seq1
    <3> HIDE DEF s, A, B
    <3>2. Filled(f, s, fd)
      BY <2>7, <3>1, FilledEnds
    <3>3. Plan(f, s, R)
      BY <2>1, <2>7, <3>1, <1>3, <1>7, AddPlan
    <3>4. AllTidy(s)
      BY <3>1, <2>4, TidyLists
    <3> QED
      BY <2>7, <3>2, <3>3, <3>4 DEF Has
  <2>8. CASE o # FdMap!Null /\ B # <<>>
    <3>1. B = <<FdMap!SubRef(old)>> /\ old # FdMap!NoPlace
      BY <2>8 DEF FdMap!Seq1
    <3>2. A = <<FdMap!AddRef(c, o)>>
      BY <2>8 DEF FdMap!Seq1
    <3> HIDE DEF A, B
    <3>3. s = <<FdMap!AddRef(c, o), FdMap!SubRef(old)>>
      BY <2>2, <3>1, <3>2, JoinTwo
    <3> HIDE DEF s
    <3>4. Plan(f, s, R)
      BY <2>1, <2>3, <2>8, <3>1, <3>3, <1>3, <1>7, AddSubPlan
    <3>5. AllTidy(s)
      BY <3>3, <2>4, TidyLists
    <3>6. Skips(B, fd)
      <4>1. ~Writes(FdMap!SubRef(old), c)
        BY <2>3, <3>1, StepWrites
      <4> QED
        BY <4>1, <3>1 DEF Skips
    <3>7. A \in Seq(Steps) /\ B \in Seq(Steps)
      <4>1. Plan(f, A, R)
        BY <2>1, <2>8, <3>2, <1>3, <1>7, AddPlan
      <4>2. Plan(f, B, R)
        BY <2>3, <3>1, <1>3, SubPlan
      <4> QED
        BY <4>1, <4>2 DEF Plan
    <3>8. Filled(f, A \o B, fd) <=> Filled(f, A, fd)
      BY <3>6, <3>7, JoinFilled DEF Skips
    <3>9. Filled(f, A, fd)
      BY <3>2, <2>8, FilledEnds
    <3>10. Filled(f, s, fd)
      BY <2>2, <3>8, <3>9
    <3> QED
      BY <2>8, <3>4, <3>5, <3>10 DEF Has
  <2> QED
    BY <2>5, <2>6, <2>7, <2>8
<1>14. Done(s)
  BY <1>10, <1>11, <1>12, <1>13
<1>15. Has(o) \in BOOLEAN
  BY DEF Has
<1> QED
  BY <1>14, <1>15 DEF Piece

\* A pointer of the thread is assigned what a slot holds: the slot stays as it is.
LEMMA AssignPiece ==
    ASSUME SharedInv, TableInv, NEW t \in FdThread, NEW fd \in Fd, NEW p \in OwnPlaces(t)
    PROVE  Piece(t, FdMap!Assign(p, fdPtr[FdMap!Slot(fd)]), {p, FdMap!Slot(fd)}, fd, Has(fdPtr[FdMap!Slot(fd)]))
<1> DEFINE f == fdPtr  c == FdMap!Slot(fd)  o == f[c]  R == {p, c}  s == FdMap!ChangeRef(p, f[p], o)
<1>1. f \in [FdMap!Places -> Obj \cup {FdMap!Null}]
  BY DEF SharedInv
<1>2. p \in FdMap!Places /\ c \in FdMap!Places /\ p # c
  BY PlacesAre, PlacesDiffer DEF OwnPlaces
<1>3. o \in Obj \cup {FdMap!Null}
  BY <1>1, <1>2
<1>4. Offers(f, R, p, o)
  BY <1>2 DEF Offers
<1>5. Plan(f, s, R)
  BY <1>1, <1>2, <1>3, <1>4, ChangePlan
<1>6. AllTidy(s) /\ Skips(s, fd)
  BY <1>2, ChangeWrites
<1>7. Filled(f, s, fd) <=> Has(o)
  BY <1>6, FilledSkipped
<1>8. R \subseteq OwnPlaces(t) \cup {c} /\ Has(o) \in BOOLEAN
  BY DEF Has
<1>9. FdMap!Assign(p, o) = s
  BY DEF FdMap!Assign
<1> HIDE DEF s, R, o, f
<1> QED
  BY <1>5, <1>6, <1>7, <1>8, <1>9 DEF Piece, s, R, o, f

\* A slot is assigned null.
LEMMA ClearPiece ==
    ASSUME SharedInv, TableInv, NEW t \in FdThread, NEW fd \in Fd
    PROVE  Piece(t, FdMap!Assign(FdMap!Slot(fd), FdMap!Null), {FdMap!Slot(fd)}, fd, FALSE)
<1> DEFINE f == fdPtr  c == FdMap!Slot(fd)  s == FdMap!ChangeRef(c, f[c], FdMap!Null)
<1>1. f \in [FdMap!Places -> Obj \cup {FdMap!Null}]
  BY DEF SharedInv
<1>2. c \in FdMap!Places
  BY PlacesAre
<1>3. Plan(f, s, {c})
  <2>1. FdMap!Null \in Obj \cup {FdMap!Null} /\ {c} \subseteq FdMap!Places /\ c \in {c}
    BY <1>2
  <2> QED
    BY <2>1, <1>1, ChangePlan
<1>4. AllTidy(s)
  BY ChangeWrites
<1>5. ~Filled(f, s, fd)
  BY FilledChange DEF Has
<1>6. fd < fdCap \/ Skips(s, fd)
  <2> SUFFICES ASSUME ~(fd < fdCap)  PROVE Skips(s, fd)
    OBVIOUS
  <2>1. fd \in Nat /\ fdCap \in Nat
    BY FdIs DEF TableInv
  <2>2. f[c] = FdMap!Null
    BY <2>1 DEF TableInv
  <2>3. s = <<>>
    BY <2>2, ChangeIs
  <2> QED
    BY <2>3 DEF Skips
<1>7. FdMap!Assign(c, FdMap!Null) = s
  BY DEF FdMap!Assign
<1> HIDE DEF s, f
<1> QED
  BY <1>3, <1>4, <1>5, <1>6, <1>7 DEF Piece, f

\* Calls on a thread's own pointers.
LEMMA OwnCalls ==
    ASSUME SharedInv, TableInv, NEW t \in FdThread,
           FdMap!Reset(t) \/ FdMap!Copy(t) \/ FdMap!CopyInside(t) \/ FdMap!SwapOwn(t)
    PROVE  SharedInv' /\ TableInv'
<1> DEFINE f == fdPtr  m == FdMap!Mine(t)  w == FdMap!Other(t)  R == OwnPlaces(t)
<1>1. f \in [FdMap!Places -> Obj \cup {FdMap!Null}]
  BY DEF SharedInv
<1>2. m \in FdMap!Places /\ w \in FdMap!Places /\ m # w /\ R = {m, w} /\ R \subseteq FdMap!Places
  BY PlacesAre, PlacesDiffer DEF OwnPlaces
<1>3. ASSUME FdMap!Reset(t)  PROVE SharedInv' /\ TableInv'
  <2>1. Plan(f, <<FdMap!SubRef(m)>>, R)
    BY <1>2, SubPlan
  <2> QED
    BY <2>1, <1>3, OwnKeeps DEF FdMap!Reset
<1>4. ASSUME FdMap!Copy(t)  PROVE SharedInv' /\ TableInv'
  <2> DEFINE s == FdMap!ChangeRef(w, f[w], f[m])
  <2>1. Offers(f, R, w, f[m]) /\ f[m] \in Obj \cup {FdMap!Null}
    BY <1>1, <1>2 DEF Offers
  <2>2. Plan(f, s, R)
    BY <2>1, <1>1, <1>2, ChangePlan
  <2>3. FdMap!Start(t, s)
    BY <1>4 DEF FdMap!Copy, FdMap!Assign
  <2> HIDE DEF s
  <2> QED
    BY <2>2, <2>3, OwnKeeps
<1>5. ASSUME FdMap!CopyInside(t)  PROVE SharedInv' /\ TableInv'
  <2> DEFINE o == f[FdMap!Inside(f[m])]  s == FdMap!ChangeRef(w, f[w], o)
  <2>1. f[m] \in Obj
    BY <1>1, <1>2, <1>5 DEF FdMap!CopyInside
  <2>2. Offers(f, R, w, o) /\ o \in Obj \cup {FdMap!Null}
    BY <2>1, <1>1, <1>2, PlacesAre DEF Offers
  <2>3. Plan(f, s, R)
    BY <2>2, <1>1, <1>2, ChangePlan
  <2>4. FdMap!Start(t, s)
    BY <1>5 DEF FdMap!CopyInside, FdMap!Assign
  <2> HIDE DEF s
  <2> QED
    BY <2>3, <2>4, OwnKeeps
<1>6. ASSUME FdMap!SwapOwn(t)  PROVE SharedInv' /\ TableInv'
  <2>1. Plan(f, <<FdMap!SwapWith(m, w)>>, R)
    BY <1>2, SwapPlan
  <2> QED
    BY <2>1, <1>6, OwnKeeps DEF FdMap!SwapOwn
<1> QED
  BY <1>3, <1>4, <1>5, <1>6

\* Calls on the table.
LEMMA TableCalls ==
    ASSUME SharedInv, TableInv, NEW t \in FdThread,
           \/ FdMap!GetRange(t) \/ FdMap!ClearRange(t) \/ FdMap!ClearAll(t)
           \/ \E fd \in Fd : \/ FdMap!GetData(t, fd)
                             \/ \E old \in {FdMap!NoPlace, FdMap!Mine(t), FdMap!Other(t)} :
                                    FdMap!SetData(t, fd, old) \/ FdMap!ClearData(t, fd, old)
    PROVE  SharedInv' /\ TableInv'
<1> DEFINE f == fdPtr  m == FdMap!Mine(t)  w == FdMap!Other(t)  lo == FdMap!Min(Fd)  hi == FdMap!Max(Fd)
<1>1. f \in [FdMap!Places -> Obj \cup {FdMap!Null}] /\ FdMap!Null \notin Obj
  BY PlacesAre DEF SharedInv
<1>2. m \in FdMap!Places /\ w \in FdMap!Places /\ m # w /\ OwnPlaces(t) = {m, w} /\ m # FdMap!NoPlace /\ w # FdMap!NoPlace
  BY PlacesAre, PlacesDiffer DEF OwnPlaces
<1>3. lo \in Fd /\ hi \in Fd /\ lo # hi /\ Fd \subseteq Nat /\ fdCap \in Nat
  BY FdIs DEF TableInv
<1>4. \A fd \in Fd : FdMap!Slot(fd) \in FdMap!Places /\ FdMap!Slot(fd) # m /\ FdMap!Slot(fd) # w
  BY PlacesAre, PlacesDiffer
<1>5. \A fd, gd : fd # gd => FdMap!Slot(fd) # FdMap!Slot(gd)
  BY PlacesDiffer
<1>6. \A fd \in Fd : Has(f[FdMap!Slot(fd)]) => fd < fdCap
  BY <1>3 DEF TableInv, Has
<1>7. \A o : FdMap!One(o) = Num(Has(o)) /\ Num(Has(o)) \in Int
  BY DEF FdMap!One, Num, Has
<1>8. \A fd \in Fd : \A o : FdMap!Counted(fd, o) = Num(Has(o)) - Num(Has(f[FdMap!Slot(fd)]))
  <2> SUFFICES ASSUME NEW fd \in Fd, NEW o
               PROVE  FdMap!Counted(fd, o) = Num(Has(o)) - Num(Has(f[FdMap!Slot(fd)]))
    OBVIOUS
  <2>1. CASE fd < fdCap
    BY <2>1, <1>7 DEF FdMap!Counted
  <2>2. CASE ~(fd < fdCap)
    <3>1. Num(Has(f[FdMap!Slot(fd)])) = 0
      BY <2>2, <1>6 DEF Num
    <3>2. FdMap!Counted(fd, o) = Num(Has(o)) /\ Num(Has(o)) \in Int
      BY <2>2, <1>7 DEF FdMap!Counted
    <3> QED
      BY <3>1, <3>2
  <2> QED
    BY <2>1, <2>2
<1>9. ASSUME NEW fd \in Fd, FdMap!GetData(t, fd)  PROVE SharedInv' /\ TableInv'
  <2> DEFINE s == FdMap!Assign(w, f[FdMap!Slot(fd)])  has == Has(f[FdMap!Slot(fd)])
  <2>1. Piece(t, s, {w, FdMap!Slot(fd)}, fd, has)
    BY <1>2, AssignPiece
  <2>2. FdMap!Locked(t, s, 0) /\ fdCap' = fdCap
    BY <1>9 DEF FdMap!GetData
  <2>3. fdCap' = IF fd >= fdCap /\ has THEN fd + 1 ELSE fdCap
    BY <2>2, <1>3, <1>6
  <2>4. 0 = Num(has) - Num(has)
    BY <1>7
  <2> HIDE DEF s
  <2> QED
    BY <2>1, <2>2, <2>3, <2>4, PieceKeeps
<1>10. ASSUME NEW fd \in Fd, NEW old \in {FdMap!NoPlace, m, w}, FdMap!SetData(t, fd, old)  PROVE SharedInv' /\ TableInv'
  <2> DEFINE o == f[m]  s == FdMap!SetAux(fd, o, m, old)  R == OwnPlaces(t) \cup {FdMap!Slot(fd)}
  <2>1. o \in Obj \cup {FdMap!Null}
    BY <1>1, <1>2
  <2>2. Piece(t, s, R, fd, Has(o))
    <3>1. FdMap!Slot(fd) \in R /\ (old # FdMap!NoPlace => old \in R) /\ m \in R /\ R \subseteq R
      BY <1>2
    <3> HIDE DEF R
    <3> QED
      BY <2>1, <3>1, AuxPiece DEF R
  <2>3. FdMap!Locked(t, s, FdMap!Counted(fd, o)) /\ fdCap' = IF FdMap!Grows(fd, o) THEN fd + 1 ELSE fdCap
    BY <1>10 DEF FdMap!SetData
  <2>4. fdCap' = IF fd >= fdCap /\ Has(o) THEN fd + 1 ELSE fdCap
    BY <2>3 DEF FdMap!Grows, Has
  <2>5. FdMap!Counted(fd, o) = Num(Has(o)) - Num(Has(f[FdMap!Slot(fd)]))
    BY <1>8
  <2> HIDE DEF s, o, R
  <2> QED
    BY <2>2, <2>3, <2>4, <2>5, PieceKeeps
<1>11. ASSUME NEW fd \in Fd, NEW old \in {FdMap!NoPlace, m, w}, FdMap!ClearData(t, fd, old)  PROVE SharedInv' /\ TableInv'
  <2> DEFINE o == FdMap!Null  s == FdMap!SetAux(fd, o, FdMap!Temporary, old)  R == OwnPlaces(t) \cup {FdMap!Slot(fd)}
  <2>1. o \in Obj \cup {FdMap!Null} /\ ~Has(o)
    BY DEF Has
  <2>2. Piece(t, s, R, fd, Has(o))
    <3>1. FdMap!Slot(fd) \in R /\ (old # FdMap!NoPlace => old \in R) /\ m \in R /\ R \subseteq R
      BY <1>2
    <3> HIDE DEF R
    <3> QED
      BY <2>1, <3>1, AuxPiece DEF R
  <2>3. FdMap!Locked(t, s, FdMap!Counted(fd, o)) /\ fdCap' = fdCap
    BY <1>11 DEF FdMap!ClearData
  <2>4. fdCap' = IF fd >= fdCap /\ Has(o) THEN fd + 1 ELSE fdCap
    BY <2>1, <2>3
  <2>5. FdMap!Counted(fd, o) = Num(Has(o)) - Num(Has(f[FdMap!Slot(fd)]))
    BY <1>8
  <2> HIDE DEF s, o, R
  <2> QED
    BY <2>2, <2>3, <2>4, <2>5, PieceKeeps
<1>12. ASSUME FdMap!GetRange(t)  PROVE SharedInv' /\ TableInv'
  <2> DEFINE a == FdMap!Assign(m, f[FdMap!Slot(lo)])  b == FdMap!Assign(w, f[FdMap!Slot(hi)])
             x == Has(f[FdMap!Slot(lo)])  y == Has(f[FdMap!Slot(hi)])
             A == {m, FdMap!Slot(lo)}  B == {w, FdMap!Slot(hi)}
  <2>1. Piece(t, a, A, lo, x) /\ Piece(t, b, B, hi, y)
    BY <1>2, <1>3, AssignPiece
  <2>2. A \cap B = {}
    BY <1>2, <1>3, <1>4, <1>5
  <2>3. FdMap!Locked(t, a \o b, 0) /\ fdCap' = fdCap
    BY <1>12 DEF FdMap!GetRange
  <2>4. (x => lo < fdCap) /\ (y => hi < fdCap)
    BY <1>3, <1>6
  <2>5. 0 = (Num(x) - Num(x)) + (Num(y) - Num(y))
    <3>1. Num(x) \in Int /\ Num(y) \in Int
      BY <1>7
    <3> HIDE DEF x, y
    <3> QED
      BY <3>1
  <2> HIDE DEF a, b, A, B
  <2> QED
    BY <2>1, <2>2, <2>3, <2>4, <2>5, PiecesKeep
<1>13. ASSUME FdMap!ClearRange(t)  PROVE SharedInv' /\ TableInv'
  <2> DEFINE o == FdMap!Null  a == FdMap!SetAux(lo, o, FdMap!Temporary, m)  b == FdMap!SetAux(hi, o, FdMap!Temporary, w)
             x == Has(o)  A == {m, FdMap!Slot(lo)}  B == {w, FdMap!Slot(hi)}
  <2>1. o \in Obj \cup {FdMap!Null} /\ ~Has(o)
    BY DEF Has
  <2>2. Piece(t, a, A, lo, x)
    <3>1. FdMap!Slot(lo) \in A /\ m \in A /\ A \subseteq OwnPlaces(t) \cup {FdMap!Slot(lo)}
      BY <1>2
    <3> HIDE DEF A
    <3> QED
      BY <2>1, <3>1, <1>3, AuxPiece
  <2>3. Piece(t, b, B, hi, x)
    <3>1. FdMap!Slot(hi) \in B /\ w \in B /\ B \subseteq OwnPlaces(t) \cup {FdMap!Slot(hi)}
      BY <1>2
    <3> HIDE DEF B
    <3> QED
      BY <2>1, <3>1, <1>3, AuxPiece
  <2>4. A \cap B = {}
    BY <1>2, <1>3, <1>4, <1>5
  <2>5. FdMap!Locked(t, a \o b, FdMap!Counted(lo, o) + FdMap!Counted(hi, o)) /\ fdCap' = fdCap
    BY <1>13 DEF FdMap!ClearRange
  <2>6. FdMap!Counted(lo, o) + FdMap!Counted(hi, o)
            = (Num(x) - Num(Has(f[FdMap!Slot(lo)]))) + (Num(x) - Num(Has(f[FdMap!Slot(hi)])))
    BY <1>3, <1>8
  <2>7. x => FALSE
    BY <2>1
  <2> HIDE DEF a, b, A, B, x, o
  <2> QED
    BY <2>2, <2>3, <2>4, <2>5, <2>6, <2>7, PiecesKeep
<1>14. ASSUME FdMap!ClearAll(t)  PROVE SharedInv' /\ TableInv'
  <2> DEFINE a == FdMap!Assign(FdMap!Slot(lo), FdMap!Null)  b == FdMap!Assign(FdMap!Slot(hi), FdMap!Null)
             A == {FdMap!Slot(lo)}  B == {FdMap!Slot(hi)}  Z == {x \in Fd : Has(f[FdMap!Slot(x)])}
  <2>1. Piece(t, a, A, lo, FALSE) /\ Piece(t, b, B, hi, FALSE)
    BY <1>3, ClearPiece
  <2>2. A \cap B = {}
    BY <1>3, <1>5
  <2>3. FdMap!Locked(t, a \o b, -fdSz) /\ fdCap' = fdCap
    BY <1>14 DEF FdMap!ClearAll
  <2>4. fdLock = FdMap!NoThread
    BY <2>3 DEF FdMap!Locked
  <2>5. Rest = <<>>
    BY <2>4 DEF Rest
  <2>6. InTable = Z
    BY <2>5, FilledNow DEF InTable, Has
  <2>7. fdSz = Cardinality(Z)
    BY <2>6 DEF TableInv
  <2>8. Z \subseteq {lo, hi} /\ (lo \in Z <=> Has(f[FdMap!Slot(lo)])) /\ (hi \in Z <=> Has(f[FdMap!Slot(hi)]))
    BY <1>3, FdIs
  <2>9. Cardinality(Z) = (IF lo \in Z THEN 1 ELSE 0) + (IF hi \in Z THEN 1 ELSE 0)
    <3> HIDE DEF Z, lo, hi
    <3> QED
      BY <2>8, <1>3, PairCount
  <2>10. fdSz = Num(Has(f[FdMap!Slot(lo)])) + Num(Has(f[FdMap!Slot(hi)]))
    BY <2>7, <2>8, <2>9 DEF Num
  <2>11. Num(FALSE) = 0 /\ Num(Has(f[FdMap!Slot(lo)])) \in Int /\ Num(Has(f[FdMap!Slot(hi)])) \in Int
    BY <1>7 DEF Num
  <2>12. -fdSz = (Num(FALSE) - Num(Has(f[FdMap!Slot(lo)]))) + (Num(FALSE) - Num(Has(f[FdMap!Slot(hi)])))
    <3> DEFINE x == Num(Has(f[FdMap!Slot(lo)]))  y == Num(Has(f[FdMap!Slot(hi)]))
    <3>1. x \in Int /\ y \in Int /\ fdSz = x + y
      BY <2>10, <2>11
    <3>2. Num(FALSE) = 0
      BY <2>11
    <3> HIDE DEF x, y
    <3>3. -fdSz = (0 - x) + (0 - y)
      BY <3>1
    <3> QED
      BY <3>2, <3>3 DEF x, y
  <2> HIDE DEF a, b, A, B
  <2> QED
    BY <2>1, <2>2, <2>3, <2>12, PiecesKeep
<1> QED
  BY <1>9, <1>10, <1>11, <1>12, <1>13, <1>14

\* The least of a set of numbers.
LEMMA LeastOf ==
    ASSUME NEW S, S \subseteq Nat, S # {}
    PROVE  FdMap!Min(S) \in S
<1>1. PICK m \in S : \A y \in S : ~(y < m)
  <2>1. PICK x \in S : \A y \in S : <<y, x>> \notin OpToRel(<, Nat)
    BY NatLessThanWellFounded, WFMin, Zenon
  <2>2. \A y \in S : ~(y < x)
    BY <2>1, Zenon DEF OpToRel
  <2> QED
    BY <2>2
<1>2. \A y \in S : m =< y
  BY <1>1
<1> QED
  BY <1>2 DEF FdMap!Min

\* What a new object is: known to nobody, empty and then held by its maker.
Made(t, o) ==
    /\ o \in Obj \ fdMem.made /\ Free(fdPtr, o) /\ fdPtr[FdMap!Inside(o)] = FdMap!Null
    /\ fdPtr[FdMap!Mine(t)] = FdMap!Null /\ fdTodo[t] = <<>>
    /\ fdPtr' = Put(fdPtr, FdMap!Mine(t), o)
    /\ fdMem' = [cnt |-> [fdMem.cnt EXCEPT ![o] = 1], live |-> fdMem.live \cup {o}, made |-> fdMem.made \cup {o},
                 bad |-> FALSE]
    /\ \A u \in FdThread : u # t => fdTodo'[u] = fdTodo[u]
    /\ fdTodo' \in [FdThread -> Seq(Steps)]
    /\ \/ fdTodo'[t] = <<>>
       \/ /\ fdPtr[FdMap!Other(t)] \in Obj
          /\ fdTodo'[t] = <<FdMap!AddRef(FdMap!Inside(o), fdPtr[FdMap!Other(t)])>>
    /\ fdLock' = fdLock /\ fdCap' = fdCap /\ fdSz' = fdSz

\* This is what Make does.
LEMMA MakeIs ==
    ASSUME SharedInv, NEW t \in FdThread, NEW o, FdMap!Make(t, o)
    PROVE  Made(t, o)
<1> DEFINE f == fdPtr  y == f[FdMap!Other(t)]  p == FdMap!Inside(o)  s == FdMap!ChangeRef(p, f[p], y)
<1>1. /\ f \in [FdMap!Places -> Obj \cup {FdMap!Null}] /\ fdTodo \in [FdThread -> Seq(Steps)] /\ fdMem \in Memory
      /\ \A q \in FdMap!Places : f[q] # FdMap!Null => f[q] \in fdMem.live
      /\ \A x \in Obj \ fdMem.made : f[FdMap!Inside(x)] = FdMap!Null
      /\ fdMem.live \subseteq fdMem.made
  BY DEF SharedInv, Memory
<1>2. o \in Obj \ fdMem.made
  <2>1. Obj \ fdMem.made \subseteq Nat /\ Obj \ fdMem.made # {} /\ o = FdMap!Min(Obj \ fdMem.made)
    BY FdMapAssumption DEF FdMap!Make
  <2> QED
    BY <2>1, LeastOf
<1>3. Free(f, o) /\ f[p] = FdMap!Null
  <2>1. \A q \in FdMap!Places : f[q] # o
    <3> SUFFICES ASSUME NEW q \in FdMap!Places, f[q] = o  PROVE FALSE
      OBVIOUS
    <3>1. f[q] # FdMap!Null
      BY <1>2, PlacesAre
    <3> QED
      BY <3>1, <1>1, <1>2
  <2> QED
    BY <2>1, <1>1, <1>2 DEF Free
<1>4. y \in Obj \cup {FdMap!Null} /\ FdMap!Null \notin Obj
  BY <1>1, PlacesAre
<1>5. s = IF y = FdMap!Null THEN <<>> ELSE <<FdMap!AddRef(p, y)>>
  BY <1>3, ChangeIs
<1>6. fdTodo' = [fdTodo EXCEPT ![t] = s]
  BY DEF FdMap!Make, FdMap!Assign
<1>7. s \in Seq(Steps) /\ (s = <<>> \/ (y \in Obj /\ s = <<FdMap!AddRef(p, y)>>))
  <2>1. CASE y = FdMap!Null
    BY <2>1, <1>5
  <2>2. CASE y # FdMap!Null
    <3>1. y \in Obj /\ s = <<FdMap!AddRef(p, y)>> /\ p \in FdMap!Places
      BY <2>2, <1>4, <1>5, <1>2, PlacesAre
    <3>2. FdMap!AddRef(p, y) \in Steps
      BY <3>1 DEF Steps
    <3> DEFINE a == FdMap!AddRef(p, y)
    <3> HIDE DEF a
    <3>3. <<a>> \in Seq(Steps)
      BY <3>2 DEF a
    <3> QED
      BY <3>1, <3>3 DEF a
  <2> QED
    BY <2>1, <2>2
<1> HIDE DEF s
<1>8. fdTodo'[t] = s /\ (\A u \in FdThread : u # t => fdTodo'[u] = fdTodo[u]) /\ fdTodo' \in [FdThread -> Seq(Steps)]
  BY <1>1, <1>6, <1>7
<1>9. fdMem' = [cnt |-> [fdMem.cnt EXCEPT ![o] = 1], live |-> fdMem.live \cup {o}, made |-> fdMem.made \cup {o},
                bad |-> FALSE]
  <2>1. fdMem' = [fdMem EXCEPT !.cnt[o] = 1, !.live = fdMem.live \cup {o}, !.made = fdMem.made \cup {o}]
    BY DEF FdMap!Make
  <2> QED
    BY <2>1, <1>1 DEF Memory
<1>10. /\ fdPtr' = Put(f, FdMap!Mine(t), o) /\ f[FdMap!Mine(t)] = FdMap!Null /\ fdTodo[t] = <<>>
       /\ fdLock' = fdLock /\ fdCap' = fdCap /\ fdSz' = fdSz
  BY DEF FdMap!Make, Put
<1> QED
  BY <1>2, <1>3, <1>7, <1>8, <1>9, <1>10 DEF Made

\* The steps of other threads stay what they are.
LEMMA MadeOthers ==
    ASSUME SharedInv, NEW t \in FdThread, NEW o, Made(t, o), NEW u \in FdThread, u # t
    PROVE  TodoSound(u)'
<1> DEFINE f == fdPtr  g == fdPtr'  m == FdMap!Mine(t)  w == fdTodo[u]
<1>1. /\ f \in [FdMap!Places -> Obj \cup {FdMap!Null}] /\ fdMem \in Memory
      /\ \A q \in FdMap!Places : f[q] # FdMap!Null => f[q] \in fdMem.live
      /\ fdMem.live \subseteq fdMem.made /\ fdMem.made \subseteq Obj
  BY DEF SharedInv, Memory
<1>2. m \in FdMap!Places /\ o \in Obj /\ o \notin fdMem.made /\ FdMap!Null \notin Obj
  BY PlacesAre DEF Made
<1>3. /\ g = Put(f, m, o) /\ fdMem'.live = fdMem.live \cup {o} /\ fdMem'.made = fdMem.made \cup {o}
      /\ fdTodo'[u] = w /\ fdLock' = fdLock
  BY DEF Made
<1>4. \A q \in FdMap!Places : g[q] = IF q = m THEN o ELSE f[q]
  BY <1>1, <1>2, <1>3 DEF Put
<1>5. Reach(u)' = Reach(u)
  BY <1>3 DEF Reach, OwnPlaces, TablePlaces
<1>6. Reach(u) \subseteq FdMap!Places /\ OwnPlaces(u) \subseteq Reach(u) /\ m \notin Reach(u) /\ FdMap!Mine(u) \in Reach(u)
  BY ReachApart DEF OwnPlaces
<1>7. \A x \in Obj : FdMap!Inside(x) \in FdMap!Places /\ FdMap!Inside(x) # m
  BY PlacesAre, PlacesDiffer
<1>8. \A q \in Reach(u) : g[q] = f[q] /\ (f[q] \in Obj => g[FdMap!Inside(f[q])] = f[FdMap!Inside(f[q])])
  BY <1>4, <1>6, <1>7
<1>9. \A k : Sound(f, w, Reach(u), k) => Sound(g, w, Reach(u), k)
  BY <1>8, SoundElsewhere
<1>10. \A R, x : R \subseteq Reach(u) /\ Backed(f, w, R, 1, x) => Backed(g, w, R, 1, x)
  BY <1>8 DEF Backed
<1>11. ASSUME Beyond(u)  PROVE Beyond(u)'
  <2>1. ASSUME NEW x \in fdMem.live, w[1] = FdMap!Delete(x), Free(f, x)  PROVE Beyond(u)'
    <3>1. x \in fdMem'.live /\ x # o
      BY <1>1, <1>2, <1>3
    <3>2. Free(g, x)
      BY <3>1, <2>1, <1>4 DEF Free
    <3> QED
      BY <3>1, <3>2, <2>1, <1>3 DEF Beyond, Free
  <2>2. ASSUME NEW x \in fdMem.made \ fdMem.live, w[1] = FdMap!SubRef(FdMap!Inside(x))  PROVE Beyond(u)'
    <3>1. x \in fdMem'.made \ fdMem'.live
      BY <1>1, <1>2, <1>3
    <3> QED
      BY <3>1, <2>2, <1>3 DEF Beyond
  <2>3. ASSUME NEW x \in Obj, NEW z \in Obj, w = <<FdMap!AddRef(FdMap!Inside(x), z)>>,
               \A p \in FdMap!Places : f[p] = x <=> p = FdMap!Mine(u),
               f[FdMap!Inside(x)] = FdMap!Null, Backed(f, w, OwnPlaces(u), 1, z)
        PROVE  Beyond(u)'
    <3>1. x \in fdMem.live /\ x # o
      <4>1. f[FdMap!Mine(u)] = x /\ FdMap!Mine(u) \in FdMap!Places
        BY <2>3, <1>6
      <4> QED
        BY <4>1, <1>1, <1>2
    <3>2. \A p \in FdMap!Places : g[p] = x <=> p = FdMap!Mine(u)
      BY <3>1, <2>3, <1>4, <1>6
    <3>3. g[FdMap!Inside(x)] = FdMap!Null
      BY <2>3, <1>4, <1>7
    <3>4. Backed(g, w, OwnPlaces(u), 1, z)
      BY <2>3, <1>6, <1>10
    <3> QED
      BY <3>2, <3>3, <3>4, <2>3, <1>3 DEF Beyond, OwnPlaces, Backed, Untouched, Writes
  <2> QED
    BY <2>1, <2>2, <2>3, <1>11 DEF Beyond
<1>12. \A k \in 1 .. Len(w) : Sound(f, w, Reach(u), k) \/ (k = 1 /\ Beyond(u))
  BY DEF SharedInv, TodoSound
<1>13. \A k \in 1 .. Len(w) : Sound(g, w, Reach(u), k) \/ (k = 1 /\ Beyond(u)')
  BY <1>9, <1>11, <1>12
<1>14. TodoSound(u)' <=> \A k \in 1 .. Len(w) : Sound(g, w, Reach(u), k) \/ (k = 1 /\ Beyond(u)')
  BY <1>3, <1>5 DEF TodoSound, Sound, Backed, Vacant, Untouched, Writes
<1> QED
  BY <1>13, <1>14

\* Its maker's own steps: the new object takes a copy of what the other pointer holds.
LEMMA MadeOwn ==
    ASSUME SharedInv, NEW t \in FdThread, NEW o, Made(t, o)
    PROVE  TodoSound(t)'
<1> DEFINE f == fdPtr  g == fdPtr'  m == FdMap!Mine(t)  w == FdMap!Other(t)  y == f[w]  r == fdTodo'[t]
<1>1. f \in [FdMap!Places -> Obj \cup {FdMap!Null}]
  BY DEF SharedInv
<1>2. m \in FdMap!Places /\ w \in FdMap!Places /\ m # w /\ o \in Obj /\ FdMap!Inside(o) \in FdMap!Places /\ FdMap!Inside(o) # m
  BY PlacesAre, PlacesDiffer DEF Made
<1>3. \A q \in FdMap!Places : g[q] = IF q = m THEN o ELSE f[q]
  BY <1>1, <1>2 DEF Made, Put
<1>4. CASE r = <<>>
  BY <1>4 DEF TodoSound
<1>5. CASE y \in Obj /\ r = <<FdMap!AddRef(FdMap!Inside(o), y)>>
  <2>1. \A p \in FdMap!Places : g[p] = o <=> p = m
    BY <1>3 DEF Made, Free
  <2>2. g[FdMap!Inside(o)] = FdMap!Null
    BY <1>2, <1>3 DEF Made
  <2>3. Backed(g, r, OwnPlaces(t), 1, y)
    <3>1. w \in OwnPlaces(t) /\ g[w] = y /\ Untouched(r, 1, w)
      BY <1>2, <1>3 DEF OwnPlaces, Untouched
    <3> QED
      BY <3>1 DEF Backed
  <2>4. Beyond(t)'
    BY <2>1, <2>2, <2>3, <1>2, <1>5 DEF Beyond, OwnPlaces, Backed, Untouched, Writes
  <2> DEFINE a == FdMap!AddRef(FdMap!Inside(o), y)
  <2> HIDE DEF a
  <2>5. Len(<<a>>) = 1
    OBVIOUS
  <2>6. Len(r) = 1
    BY <2>5, <1>5 DEF a
  <2> QED
    BY <2>4, <2>6 DEF TodoSound
<1> QED
  BY <1>4, <1>5 DEF Made

\* Making an object keeps all right.
LEMMA MakeKeeps ==
    ASSUME SharedInv, TableInv, NEW t \in FdThread, NEW o, FdMap!Make(t, o)
    PROVE  SharedInv' /\ TableInv'
<1> DEFINE f == fdPtr  g == fdPtr'  m == FdMap!Mine(t)
<1>1. Made(t, o)
  BY MakeIs
<1>2. /\ f \in [FdMap!Places -> Obj \cup {FdMap!Null}] /\ fdMem \in Memory /\ fdMem.live \subseteq fdMem.made
      /\ \A x \in Obj : fdMem.cnt[x] = Cardinality(HeldAt(f, x))
      /\ \A p \in FdMap!Places : f[p] # FdMap!Null => f[p] \in fdMem.live
      /\ \A x \in Obj \ fdMem.made : f[FdMap!Inside(x)] = FdMap!Null
      /\ \A x \in fdMem.live : Free(f, x) => \E u \in FdThread : Deletes(u, x)
      /\ \A u, v \in FdThread : u # v => \A x \in Obj : ~(Deletes(u, x) /\ Deletes(v, x))
      /\ fdLock \in FdThread \cup {FdMap!NoThread}
  BY DEF SharedInv, Memory
<1>3. /\ g = Put(f, m, o) /\ f[m] = FdMap!Null /\ o \in Obj /\ o \notin fdMem.made /\ Free(f, o)
      /\ fdMem' = [cnt |-> [fdMem.cnt EXCEPT ![o] = 1], live |-> fdMem.live \cup {o}, made |-> fdMem.made \cup {o},
                   bad |-> FALSE]
      /\ fdLock' = fdLock /\ fdCap' = fdCap /\ fdSz' = fdSz /\ fdTodo[t] = <<>>
      /\ \A u \in FdThread : u # t => fdTodo'[u] = fdTodo[u]
      /\ fdTodo' \in [FdThread -> Seq(Steps)]
  BY <1>1 DEF Made
<1>4. m \in FdMap!Places /\ FdMap!Null \notin Obj /\ \A x : FdMap!Inside(x) # m
  BY PlacesAre, PlacesDiffer
<1>5. \A q \in FdMap!Places : g[q] = IF q = m THEN o ELSE f[q]
  BY <1>2, <1>3, <1>4 DEF Put
<1>6. fdMem' \in Memory /\ fdMem'.live \subseteq fdMem'.made /\ g \in [FdMap!Places -> Obj \cup {FdMap!Null}]
  BY <1>2, <1>3, <1>4 DEF Memory, Put
<1>7. ASSUME NEW x \in Obj  PROVE fdMem'.cnt[x] = Cardinality(HeldAt(g, x))
  <2>1. Cardinality(HeldAt(g, x)) = Cardinality(HeldAt(f, x)) + (IF x = o THEN 1 ELSE 0)
    BY <1>2, <1>3, <1>4, HeldSet
  <2>2. fdMem'.cnt[x] = IF x = o THEN 1 ELSE fdMem.cnt[x]
    BY <1>2, <1>3 DEF Memory
  <2>3. x = o => Cardinality(HeldAt(f, x)) = 0
    <3>1. HeldAt(f, o) = {}
      BY <1>3 DEF HeldAt, Free
    <3> QED
      BY <3>1, FS_EmptySet
  <2>4. fdMem.cnt[x] = Cardinality(HeldAt(f, x)) /\ Cardinality(HeldAt(f, x)) \in Nat
    BY <1>2, HeldFinite
  <2> QED
    BY <2>1, <2>2, <2>3, <2>4
<1>8. \A p \in FdMap!Places : g[p] # FdMap!Null => g[p] \in fdMem'.live
  BY <1>2, <1>3, <1>5
<1>9. \A x \in Obj \ fdMem'.made : g[FdMap!Inside(x)] = FdMap!Null
  BY <1>2, <1>3, <1>4, <1>5, PlacesAre
<1>10. \A u \in FdThread : TodoSound(u)'
  BY <1>1, MadeOthers, MadeOwn
<1>11. \A x : ~Deletes(t, x)'
  BY <1>1, StepsDiffer DEF Deletes, Made
<1>12. \A u \in FdThread : u # t => \A x : Deletes(u, x)' <=> Deletes(u, x)
  BY <1>3 DEF Deletes
<1>13. ASSUME NEW x \in fdMem'.live, Free(g, x)  PROVE \E u \in FdThread : Deletes(u, x)'
  <2>1. x # o
    BY <1>4, <1>5, <1>13 DEF Free
  <2>2. x \in fdMem.live /\ x \in Obj
    BY <2>1, <1>2, <1>3 DEF Memory
  <2>3. Free(f, x)
    BY <2>2, <1>3, <1>4, <1>5, <1>13 DEF Free
  <2>4. PICK u \in FdThread : Deletes(u, x)
    BY <2>2, <2>3, <1>2
  <2>5. u # t
    BY <2>4, <1>3 DEF Deletes
  <2> QED
    BY <2>4, <2>5, <1>12
<1>14. \A u, v \in FdThread : u # v => \A x \in Obj : ~(Deletes(u, x)' /\ Deletes(v, x)')
  BY <1>2, <1>11, <1>12
<1>15. SharedInv'
  BY <1>3, <1>2, <1>6, <1>7, <1>8, <1>9, <1>10, <1>13, <1>14 DEF SharedInv, Memory, HeldAt, Free, Deletes
<1>16. TableInv'
  <2>1. fdLock # FdMap!NoThread => fdLock \in FdThread /\ fdLock # t
    <3>1. fdLock = t => fdTodo[t] # <<>>
      BY FdMapAssumption DEF TableInv, FdMap!NoThread
    <3> QED
      BY <3>1, <1>2, <1>3
  <2>2. fdLock # FdMap!NoThread => fdTodo'[fdLock] = fdTodo[fdLock]
    BY <2>1, <1>3
  <2>3. fdLock # FdMap!NoThread => \A q \in Reach(fdLock) : q \in FdMap!Places /\ q # m
    BY <2>1, ReachApart DEF OwnPlaces
  <2>4. fdLock # FdMap!NoThread => \A q \in Reach(fdLock) : g[q] = f[q]
    BY <2>3, <1>5
  <2>5. \A q \in TablePlaces : g[q] = f[q]
    BY <1>5, PlacesAre, PlacesDiffer DEF TablePlaces
  <2> QED
    BY <2>2, <2>4, <2>5, <1>3, TableElsewhere
<1> QED
  BY <1>15, <1>16

\* At the start there is nothing.
LEMMA FdStart == FdMap!Init => SharedInv /\ TableInv
<1> SUFFICES ASSUME FdMap!Init  PROVE SharedInv /\ TableInv
  OBVIOUS
<1>1. /\ fdMem = [cnt |-> [o \in Obj |-> 0], live |-> {}, made |-> {}, bad |-> FALSE]
      /\ fdPtr = [p \in FdMap!Places |-> FdMap!Null] /\ fdTodo = [t \in FdThread |-> <<>>]
      /\ fdLock = FdMap!NoThread /\ fdCap = FirstCapacity /\ fdSz = 0
  BY DEF FdMap!Init
<1>2. FdMap!Null \notin Obj
  BY PlacesAre
<1>3. \A o \in Obj : fdMem.cnt[o] = Cardinality(HeldAt(fdPtr, o))
  <2> SUFFICES ASSUME NEW o \in Obj  PROVE Cardinality(HeldAt(fdPtr, o)) = 0
    BY <1>1
  <2>1. HeldAt(fdPtr, o) = {}
    BY <1>1, <1>2 DEF HeldAt
  <2> QED
    BY <2>1, FS_EmptySet
<1>4. \A t \in FdThread : fdTodo[t] = <<>> /\ Len(fdTodo[t]) = 0
  BY <1>1
<1>5. \A t \in FdThread : TodoSound(t) /\ \A o : ~Deletes(t, o)
  BY <1>4 DEF TodoSound, Deletes
<1>6. fdTodo \in [FdThread -> Seq(Steps)]
  <2>1. <<>> \in Seq(Steps)
    OBVIOUS
  <2> QED
    BY <2>1, <1>1
<1>7. \A x \in Obj : fdPtr[FdMap!Inside(x)] = FdMap!Null
  BY <1>1, PlacesAre
<1>8. /\ fdMem \in [cnt : [Obj -> Int], live : SUBSET Obj, made : SUBSET Obj, bad : {FALSE}]
      /\ fdPtr \in [FdMap!Places -> Obj \cup {FdMap!Null}]
      /\ \A p \in FdMap!Places : fdPtr[p] = FdMap!Null
  BY <1>1
<1>9. SharedInv
  BY <1>1, <1>3, <1>5, <1>6, <1>7, <1>8 DEF SharedInv
<1>10. Rest = <<>> /\ Len(Rest) = 0
  BY <1>1 DEF Rest
<1>11. \A fd \in Fd : fdPtr[FdMap!Slot(fd)] = FdMap!Null
  BY <1>8, PlacesAre
<1>12. InTable = {}
  BY <1>10, <1>11, FilledNow DEF InTable
<1>13. fdCap \in Nat /\ fdSz = Cardinality(InTable)
  BY <1>1, <1>12, FdMapAssumption, FS_EmptySet
<1>14. TableInv
  BY <1>1, <1>10, <1>11, <1>13 DEF TableInv
<1> QED
  BY <1>9, <1>14

\* Every step of every thread keeps objects and table right.
LEMMA FdStep == SharedInv /\ TableInv /\ [FdMap!Next]_FdMap!fdVars => SharedInv' /\ TableInv'
<1> SUFFICES ASSUME SharedInv, TableInv, [FdMap!Next]_FdMap!fdVars  PROVE SharedInv' /\ TableInv'
  OBVIOUS
<1>1. ASSUME NEW t \in FdThread, FdMap!Step(t)  PROVE SharedInv' /\ TableInv'
  BY <1>1, StepKeeps, StepTable
<1>2. ASSUME NEW t \in FdThread, FdMap!Reset(t) \/ FdMap!Copy(t) \/ FdMap!CopyInside(t) \/ FdMap!SwapOwn(t)
      PROVE  SharedInv' /\ TableInv'
  BY <1>2, OwnCalls
<1>3. ASSUME NEW t \in FdThread, NEW o \in Obj, FdMap!Make(t, o)  PROVE SharedInv' /\ TableInv'
  BY <1>3, MakeKeeps
<1>4. ASSUME NEW t \in FdThread, \/ FdMap!GetRange(t) \/ FdMap!ClearRange(t) \/ FdMap!ClearAll(t)
                                 \/ \E fd \in Fd :
                                       \/ FdMap!GetData(t, fd)
                                       \/ \E old \in {FdMap!NoPlace, FdMap!Mine(t), FdMap!Other(t)} :
                                              FdMap!SetData(t, fd, old) \/ FdMap!ClearData(t, fd, old)
      PROVE  SharedInv' /\ TableInv'
  BY <1>4, TableCalls
<1>5. CASE UNCHANGED FdMap!fdVars
  <2>1. /\ fdMem' = fdMem /\ fdPtr' = fdPtr /\ fdTodo' = fdTodo /\ fdLock' = fdLock /\ fdCap' = fdCap /\ fdSz' = fdSz
    BY <1>5 DEF FdMap!fdVars
  <2>2. SharedInv'
    <3>1. \A u \in FdThread : Reach(u)' = Reach(u)
      BY <2>1 DEF Reach, OwnPlaces, TablePlaces
    <3>2. \A u \in FdThread : Beyond(u)' <=> Beyond(u)
      BY <2>1 DEF Beyond, OwnPlaces, Free, Backed, Untouched, Writes
    <3>3. \A u \in FdThread : TodoSound(u)' <=> TodoSound(u)
      <4> SUFFICES ASSUME NEW u \in FdThread  PROVE TodoSound(u)' <=> TodoSound(u)
        OBVIOUS
      <4> DEFINE w == fdTodo[u]
      <4>1. fdTodo'[u] = w /\ Reach(u)' = Reach(u) /\ (Beyond(u)' <=> Beyond(u)) /\ fdPtr' = fdPtr
        BY <2>1, <3>1, <3>2
      <4>2. TodoSound(u)' <=> \A k \in 1 .. Len(w) : Sound(fdPtr, w, Reach(u), k) \/ (k = 1 /\ Beyond(u)')
        BY <4>1 DEF TodoSound, Sound, Backed, Vacant, Untouched, Writes
      <4> QED
        BY <4>1, <4>2 DEF TodoSound
    <3>4. \A u \in FdThread : \A o : Deletes(u, o)' <=> Deletes(u, o)
      BY <2>1 DEF Deletes
    <3> QED
      BY <2>1, <3>3, <3>4 DEF SharedInv, Free, HeldAt
  <2>3. TableInv'
    BY <2>1 DEF TableInv, InTable, Filled, Rest, Writes, TablePlaces
  <2> QED
    BY <2>2, <2>3
<1> QED
  BY <1>1, <1>2, <1>3, <1>4, <1>5 DEF FdMap!Next

\* What it says of objects and pointers.
LEMMA SharedImplied == SharedInv => FdMap!CountedRight
<1> SUFFICES ASSUME SharedInv  PROVE FdMap!CountedRight
  OBVIOUS
<1>1. \A S : FdMap!Cardinality(S) = Cardinality(S)
  BY DEF FdMap!Cardinality, Cardinality
<1>2. \A o : FdMap!Holders(o) = HeldAt(fdPtr, o)
  BY DEF FdMap!Holders, HeldAt
<1>3. /\ fdMem \in Memory /\ \A o \in Obj : fdMem.cnt[o] = Cardinality(HeldAt(fdPtr, o))
      /\ \A p \in FdMap!Places : fdPtr[p] # FdMap!Null => fdPtr[p] \in fdMem.live
      /\ \A o \in fdMem.live : Free(fdPtr, o) => \E t \in FdThread : Deletes(t, o)
  BY DEF SharedInv, Memory
<1>4. ASSUME FdMap!Quiet, NEW o \in Obj  PROVE (o \in fdMem.live) = (fdMem.cnt[o] > 0)
  <2>1. \A t \in FdThread : ~Deletes(t, o)
    BY <1>4 DEF FdMap!Quiet, Deletes
  <2>2. o \in fdMem.live => ~Free(fdPtr, o)
    BY <2>1, <1>3
  <2>3. ~Free(fdPtr, o) => o \in fdMem.live
    <3> SUFFICES ASSUME NEW p \in FdMap!Places, fdPtr[p] = o  PROVE o \in fdMem.live
      BY DEF Free
    <3>1. fdPtr[p] # FdMap!Null
      BY PlacesAre
    <3> QED
      BY <3>1, <1>3
  <2>4. IsFiniteSet(HeldAt(fdPtr, o)) /\ Cardinality(HeldAt(fdPtr, o)) \in Nat
    BY HeldFinite
  <2>5. Cardinality(HeldAt(fdPtr, o)) = 0 <=> HeldAt(fdPtr, o) = {}
    BY <2>4, FS_EmptySet
  <2>6. HeldAt(fdPtr, o) = {} <=> Free(fdPtr, o)
    BY DEF HeldAt, Free
  <2>7. fdMem.cnt[o] > 0 <=> ~Free(fdPtr, o)
    BY <2>4, <2>5, <2>6, <1>3
  <2> QED
    BY <2>2, <2>3, <2>7
<1>5. ~fdMem.bad
  BY <1>3 DEF Memory
<1> QED
  BY <1>1, <1>2, <1>3, <1>4, <1>5 DEF FdMap!CountedRight

\* What it says of the table: nobody in it, the slots are as they will be.
LEMMA TableImplied == TableInv => FdMap!SizeIsCount
<1> SUFFICES ASSUME TableInv, fdLock = FdMap!NoThread
             PROVE  fdSz = FdMap!Cardinality({fd \in Fd : fdPtr[FdMap!Slot(fd)] # FdMap!Null})
  BY DEF FdMap!SizeIsCount
<1>1. \A S : FdMap!Cardinality(S) = Cardinality(S)
  BY DEF FdMap!Cardinality, Cardinality
<1>2. InTable = {fd \in Fd : fdPtr[FdMap!Slot(fd)] # FdMap!Null}
  BY FilledNow DEF InTable, Rest
<1> QED
  BY <1>1, <1>2 DEF TableInv

\* Whoever copies, resets, exchanges and passes pointers through the table, in whatever
\* order: nothing deleted is used, what is pointed to lives, and what nobody points to is
\* deleted; and nobody in it, the table knows how many descriptors have data.
THEOREM ReferencesKept == FdMap!Spec => [](FdMap!CountedRight /\ FdMap!SizeIsCount)
<1>1. FdMap!Spec => [](SharedInv /\ TableInv)
  BY FdStart, FdStep, PTL DEF FdMap!Spec
<1> QED
  BY <1>1, SharedImplied, TableImplied, PTL

----------------------------------------------------------------------------
(* All of them *)

\* No more is let through than frequency and bucket allow, what is counted is what
\* happened in the window, no operation on a shared number is lost, a heap keeps the
\* smallest, and objects live as long as somebody points to them, in a table that knows
\* its size: in every run of these components beside each other.
THEOREM BookkeepingKept == BookkeepingSpec => []BookkeepingOK
<1> USE RatesKept, WindowKept, IntsKept, SmallestKept, ReferencesKept
<1> QED
  BY PTL DEF BookkeepingSpec, BookkeepingOK
=============================================================================
