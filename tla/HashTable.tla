----------------------------- MODULE HashTable -----------------------------
(***************************************************************************)
(* CMultiRowHashTable (hash_table.hh): rows of different prime lengths in  *)
(* one buffer, a key has one slot in each row.  htBuf is the buffer (head, *)
(* used counters, row lengths, cells), which outlives the object; htValid  *)
(* tells whether the object is attached to it (head_, rows_).  A cell is a *)
(* pair of key and value, key 0 is the empty key.  htText counts the       *)
(* elements the table should hold, and htLossy remembers that an upgrade   *)
(* has dropped a row that was not empty.                                   *)
(*                                                                         *)
(* The caller's buffer is long enough, and grows by zeroed memory.  The    *)
(* times in the head are left out.  An iterator is erased while it stands  *)
(* on an element (line 240 would count an empty slot down as well).        *)
(***************************************************************************)
EXTENDS Integers, Sequences, SequencesExt, FiniteSets, FiniteSetsExt

CONSTANTS
    HtKey, HtVal,   \* keys (natural numbers but 0) and values
    HashKey,        \* the hash of a key: a function
    MaxRows,        \* kRowMax
    MaxPrime        \* bound: the longest row

VARIABLES htBuf, htValid, htText, htLossy

htVars == <<htBuf, htValid, htText, htLossy>>

Empty == <<0, 0>>
NoBuf == [capa |-> 0]
Elements == HtKey \X HtVal

Init ==
    /\ htBuf = NoBuf
    /\ htValid = FALSE
    /\ htText = [e \in Elements |-> 0]
    /\ htLossy = FALSE

----------------------------------------------------------------------------
\* tools/other.hh: trial division by the odd numbers up to the root.
IsPrime(v) ==
    v = 2 \/ (v > 2 /\ v % 2 = 1 /\ \A i \in 3 .. v : (i % 2 = 1 /\ i * i <= v) => v % i # 0)

PrimeGreater(v, taken) == Min({p \in 2 .. MaxPrime : p >= v /\ p \notin taken /\ IsPrime(p)})

SumOf(s) == FoldLeft(LAMBDA a, b : a + b, 0, s)

\* Adds primes to results until there are count, sharing what is missing of total.
PrimesGenerator(total, count, results) ==
    LET n == count - Len(results)
        add(cols, left) ==
            LET lack == Max({0, total - SumOf(cols)})
            IN  Append(cols, PrimeGreater((lack + left - 1) \div left, ToSet(cols)))
    IN  IF n <= 0 THEN results ELSE FoldLeft(add, results, [i \in 1..n |-> n + 1 - i])

----------------------------------------------------------------------------
Check(capa, row) == 0 < row /\ row <= MaxRows /\ row <= capa

\* initAux: what a buffer must show before a table is attached to it.
CheckHead(b) ==
    /\ b # NoBuf
    /\ Check(b.capa, b.row)
    /\ b.capa <= SumOf(b.cols)
    /\ \A i \in 1..b.row : b.used[i] <= b.cols[i]

\* initRows: the rows, the longest first; the cells of a row follow those of the one before.
Rows(b) == SetToSortSeq(1..b.row, LAMBDA i, j : b.cols[i] > b.cols[j])
Offset(b, i) == SumOf(SubSeq(b.cols, 1, i - 1))
Cells(b, i) == SubSeq(b.data, Offset(b, i) + 1, Offset(b, i) + b.cols[i])

IndexOf(b, i, k) == Offset(b, i) + (HashKey[k] % b.cols[i]) + 1

\* findAux: the row with the key, or for an insertion the first one with an
\* empty slot; 0 if there is none.
FindAux(b, k, forInsert) ==
    LET rows == Rows(b)
        hit(i) == b.data[IndexOf(b, i, k)][1] = (IF forInsert THEN 0 ELSE k)
        n == SelectInSeq(rows, hit)
    IN  IF n = 0 THEN 0 ELSE rows[n]

SetValue(b, i, at, e) ==
    [b EXCEPT !.data = [@ EXCEPT ![at] = e], !.used = [@ EXCEPT ![i] = Min({@ + 1, b.cols[i]})]]

ResetValue(b, i, at) ==
    [b EXCEPT !.data = [@ EXCEPT ![at] = Empty], !.used = [@ EXCEPT ![i] = Max({@ - 1, 0})]]

\* A row that counts no element is not wiped.
ClearRows(b) ==
    LET wiped(i) == b.used[i] # 0
        rowOf(n) == CHOOSE i \in 1..b.row : Offset(b, i) < n /\ n <= Offset(b, i) + b.cols[i]
    IN  [b EXCEPT !.data = [n \in DOMAIN @ |-> IF wiped(rowOf(n)) THEN Empty ELSE @[n]],
                  !.used = [i \in DOMAIN @ |-> IF i <= b.row THEN 0 ELSE @[i]]]

\* upgradeCalc: the row lengths after the upgrade, <<>> if it fails.
UpgradeCols(b, capa, row) ==
    LET kept(n) == SubSeq(b.cols, 1, n)
        stays(n) == n <= row \/ SumOf(kept(n)) < capa + b.cols[n]
        grown == PrimesGenerator(capa, row, b.cols)
    IN  IF ~Check(capa, row) THEN <<>>
        ELSE IF capa <= SumOf(b.cols) THEN kept(Max({n \in 1..b.row : stays(n)}))
        ELSE IF SumOf(grown) < capa THEN <<>>
        ELSE grown

----------------------------------------------------------------------------
\* The parts of a zeroed buffer: the head, a counter and a length for as many rows as
\* there may be, and the elements.
Layout(capa, row, cols) ==
    [capa |-> capa, row |-> row, cols |-> cols, used |-> [i \in 1..MaxRows |-> 0],
     data |-> [n \in 1..SumOf(cols) |-> Empty]]

\* size, what the rows of the table count.
TableSize(b) == SumOf(SubSeq(b.used, 1, b.row))

\* init with create: a table on a zeroed buffer.
Create(capa, row) ==
    LET cols == SortSeq(PrimesGenerator(capa, row, <<>>), >)
    IN  /\ ~htValid /\ Check(capa, row)
        /\ htBuf' = Layout(capa, row, cols)
        /\ htValid' = TRUE
        /\ htText' = [e \in Elements |-> 0]
        /\ htLossy' = FALSE

\* init on a buffer that holds a table.
Attach ==
    /\ ~htValid /\ CheckHead(htBuf)
    /\ htValid' = TRUE
    /\ UNCHANGED <<htBuf, htText, htLossy>>

Uninit ==
    /\ htValid
    /\ htValid' = FALSE
    /\ UNCHANGED <<htBuf, htText, htLossy>>

\* A key that is in the table already is inserted once more.
Insert(e) ==
    LET i == FindAux(htBuf, e[1], TRUE)
    IN  /\ htValid /\ i # 0
        /\ htBuf' = SetValue(htBuf, i, IndexOf(htBuf, i, e[1]), e)
        /\ htText' = [htText EXCEPT ![e] = @ + 1]
        /\ UNCHANGED <<htValid, htLossy>>

\* erase by key, or by an iterator on the element in row i.
EraseIn(k, i) ==
    LET at == IndexOf(htBuf, i, k)
    IN  /\ htBuf' = ResetValue(htBuf, i, at)
        /\ htText' = [htText EXCEPT ![htBuf.data[at]] = @ - 1]
        /\ UNCHANGED <<htValid, htLossy>>

Erase(k) == htValid /\ FindAux(htBuf, k, FALSE) # 0 /\ EraseIn(k, FindAux(htBuf, k, FALSE))

EraseIterator(k) ==
    /\ htValid
    /\ \E i \in 1..htBuf.row : htBuf.data[IndexOf(htBuf, i, k)][1] = k /\ EraseIn(k, i)

Clear ==
    /\ htValid
    /\ htBuf' = ClearRows(htBuf)
    /\ htText' = [e \in Elements |-> 0]
    /\ UNCHANGED <<htValid, htLossy>>

\* upgradeCalc, the caller resizes the buffer, upgradeCommit: all counters are
\* copied, those of the rows that go as well, and the result of init is dropped.
Upgrade(capa, row) ==
    LET cols == UpgradeCols(htBuf, capa, row)
        b == [htBuf EXCEPT !.capa = capa, !.row = Len(cols), !.cols = cols,
                           !.data = [n \in 1..SumOf(cols) |-> IF n <= Len(@) THEN @[n] ELSE Empty]]
        gone == SubSeq(htBuf.data, SumOf(cols) + 1, Len(htBuf.data))
    IN  /\ htValid /\ cols # <<>>
        /\ htBuf' = b
        /\ htValid' = CheckHead(b)
        /\ htText' = [e \in Elements |-> htText[e] - Cardinality({n \in DOMAIN gone : gone[n] = e})]
        /\ htLossy' = (htLossy \/ \E n \in DOMAIN gone : gone[n][1] # 0)

Next ==
    \/ \E capa \in 2..MaxPrime, row \in 1..MaxRows : Create(capa, row) \/ Upgrade(capa, row)
    \/ Attach \/ Uninit \/ Clear
    \/ \E e \in Elements : Insert(e)
    \/ \E k \in HtKey : Erase(k) \/ EraseIterator(k)

Spec == Init /\ [][Next]_htVars

----------------------------------------------------------------------------
Occupied(b, i) == Cardinality({n \in 1..b.cols[i] : Cells(b, i)[n][1] # 0})

TypeOK ==
    /\ htValid \in BOOLEAN /\ htLossy \in BOOLEAN
    /\ htText \in [Elements -> Nat]
    /\ htBuf # NoBuf =>
        /\ \A i \in 1..htBuf.row : IsPrime(htBuf.cols[i])
        /\ IsInjective(htBuf.cols)
        /\ Len(htBuf.data) = SumOf(htBuf.cols)

\* The rows hold exactly what was inserted and not erased: through collisions, the
\* reuse of slots of earlier rows and rows added or dropped by an upgrade; a key
\* is found whenever an element with it is there (hash_table.hh:200-254, 274-325).
HoldsElements ==
    htBuf # NoBuf =>
        /\ \A e \in Elements : Cardinality({n \in DOMAIN htBuf.data : htBuf.data[n] = e}) = htText[e]
        /\ \A k \in HtKey : (FindAux(htBuf, k, FALSE) # 0) = (\E v \in HtVal : htText[<<k, v>>] > 0)

\* As long as no upgrade has dropped elements, the counters are those of the cells,
\* so that size() is right, clear() wipes every row and the next process can attach
\* (hash_table.hh:327-348, 382-403).
UsedIsExact ==
    (htBuf # NoBuf /\ ~htLossy) =>
        /\ \A i \in 1..htBuf.row : htBuf.used[i] = Occupied(htBuf, i)
        /\ TableSize(htBuf) = FoldSet(LAMBDA e, n : n + htText[e], 0, Elements)
        /\ CheckHead(htBuf)
=============================================================================
