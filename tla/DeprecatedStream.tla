-------------------------- MODULE DeprecatedStream --------------------------
(***************************************************************************)
(* The byte streams of deprecated/data_stream.hh, over the memory they     *)
(* share with the present ones (impl/data_stream_impl.hh): the same items  *)
(* on the wire, without stubs.  An old program packs, and an old one reads *)
(* what has arrived; old and new programs understand each other if each    *)
(* operation does what the one of data_stream.hh does.                     *)
(***************************************************************************)
EXTENDS ByteStream

CONSTANTS
    OldPlain,       \* values and varints that may be packed
    OldRaws,        \* arrays without a length: <<bytes of an element, elements>>
    OldArrays,      \* arrays with a length: <<what it is, bytes of the length, of an element, elements>>
    OldSize,        \* the size of the memory of a stream over an array
    OldMax          \* bound: items of one message

VARIABLES odOut, odIn, odSent, odScript, odGot

oldVars == <<odOut, odIn, odSent, odScript, odGot>>

----------------------------------------------------------------------------
\* Manip::raw and Manip::array, of an array, a container or a range.
OldRaw(w, vs) == Raw(w, vs)
OldArray(how, lw, w, vs) == Array(how, lw, w, vs)
OldItems == OldPlain \cup {OldRaw(r[1], r[2]) : r \in OldRaws} \cup {OldArray(a[1], a[2], a[3], a[4]) : a \in OldArrays}

\* ensure
EnsureOld(o, len) ==
    IF ~Good(o) THEN o ELSE IF HasRoom(o, len) THEN DataEnsure(o, len) ELSE Bad(o, 1)

\* seek and skip
SeekOld(o, pos) ==
    IF ~Good(o) THEN o
    ELSE IF pos < 0 \/ (o.kind = "fixed" /\ pos > Size(o.buf)) THEN Bad(o, 1)
    ELSE [(IF pos > o.cur THEN DataEnsure(o, pos - o.cur) ELSE o) EXCEPT !.cur = pos]

SkipOld(o, off) == SeekOld(o, o.cur + off)

SkipFillOld(o, off, v) ==
    LET s == SkipOld(o, off)
    IN  IF Good(s) /\ o.cur < s.cur THEN [s EXCEPT !.buf = Fill(@, o.begin + o.cur, off, v)] ELSE s

AppendOld(o, bytes) == LET e == EnsureOld(o, Len(bytes)) IN IF Good(e) THEN DataAppend(e, bytes) ELSE e

\* writePod
PodOld(o, v, w) == AppendOld(o, IF w > 1 /\ NeedReverse(o) THEN SwapByteOrder(HostBytes(v, w)) ELSE HostBytes(v, w))

\* writeRange
RangeOld(o, w, vs) == FoldLeft(LAMBDA s, v : IF Good(s) THEN PodOld(s, v, w) ELSE s, o, vs)

\* writeRaw
RawOld(o, w, vs) ==
    IF vs = <<>> THEN o
    ELSE IF w > 1 /\ NeedReverse(o) THEN RangeOld(o, w, vs)
    ELSE AppendOld(o, FlattenSeq([i \in 1..Len(vs) |-> HostBytes(vs[i], w)]))

\* Manip::offset_value
AtOld(o, pos, w, v) ==
    LET there == SeekOld(o, pos)
        done == IF Good(there) THEN PodOld(there, v, w) ELSE there
    IN  IF Good(done) THEN SeekOld(done, o.cur) ELSE done

\* Manip::array of an array, and of a container or a range, whose length comes last.
ArrayOld(o, item) ==
    LET n == Len(item.vs) % (256 ^ item.lw)
        head == PodOld(o, IF item.how = "ptr" THEN n ELSE 0, item.lw)
        body == IF item.how = "list" THEN RangeOld(head, item.w, item.vs) ELSE RawOld(head, item.w, item.vs)
    IN  IF ~Good(head) \/ item.vs = <<>> THEN head
        ELSE IF item.how = "ptr" \/ ~Good(body) THEN body
        ELSE AtOld(body, o.cur, item.lw, n)

\* writeVarint, unrolled in the code: the bytes that one ensure asks for.
GroupsOld(u) == IF u < 128 THEN 1 ELSE IF u < 128 ^ 2 THEN 2 ELSE IF u < 128 ^ 3 THEN 3 ELSE IF u < 128 ^ 4 THEN 4 ELSE 5
VarintOld(o, u) ==
    AppendOld(o, [i \in 1 .. GroupsOld(u) |->
                    ((u \div (128 ^ (i - 1))) % 128) + (IF i < GroupsOld(u) THEN 128 ELSE 0)])

\* operator <<
WriteOld(o, item) ==
    CASE item.k = "pod" -> PodOld(o, item.vs[1], item.w)
      [] item.k = "raw" -> RawOld(o, item.w, item.vs)
      [] item.k = "array" -> ArrayOld(o, item)
      [] item.k = "varint" -> VarintOld(o, ToUnsigned(item.vs[1], item.signed))

\* Manip::net_order_value and its relatives
OrderedOld(o, item, little) == LittleEndian(WriteOld(LittleEndian(o, little), item), o.little)

\* Manip::insert
InsertOld(o, pos, item) ==
    LET there == IF o.cur = pos THEN o ELSE SeekOld(o, pos)
        ds == WriteOld(OutStream("ref", <<>>, TRUE), item)
        e == EnsureOld(o, ds.cur)
    IN  IF o.cur <= pos THEN IF Good(there) THEN WriteOld(there, item) ELSE there
        ELSE IF ds.cur = 0 \/ ~Good(e) THEN e
        ELSE DataInsert(e, pos, Bytes(ds.buf, 0, ds.cur))

\* finish
FinishOld(o) == IF Good(o) THEN ExportData(o) ELSE o
FinishIntoOld(o, capa) == IF Good(o) /\ capa < o.begin + o.cur THEN Bad(o, 1) ELSE FinishOld(o)

----------------------------------------------------------------------------
\* CInByteStream: seek, left, ensure
SeekInOld(s, pos) ==
    IF ~Good(s) THEN s ELSE IF pos \in 0 .. Size(s.data) THEN [s EXCEPT !.cur = pos] ELSE Bad(s, 1)
SkipInOld(s, off) == SeekInOld(s, s.cur + off)
LeftOld(s) == Size(s.data) - s.cur
EnsureInOld(s, n) == IF Good(s) /\ LeftOld(s) < n THEN Bad(s, 1) ELSE s

\* readPod
ReadPodOld(s, w) ==
    LET e == EnsureInOld(s, w)
        bs == Bytes(s.data, s.cur, w)
    IN  IF ~Good(e) THEN Result(e, <<>>)
        ELSE Result([e EXCEPT !.cur = @ + w], <<FromHostBytes(IF w > 1 /\ NeedReverse(s) THEN SwapByteOrder(bs) ELSE bs)>>)

\* The loops of >>
ReadEachOld(s, w, n) ==
    FoldLeft(LAMBDA r, i : IF Good(r.s) THEN LET one == ReadPodOld(r.s, w) IN Result(one.s, r.vs \o one.vs) ELSE r,
             Result(s, <<>>), [i \in 1..n |-> i])

\* readRaw
ReadRawOld(s, w, n) ==
    LET e == EnsureInOld(s, n * w)
    IN  IF n = 0 THEN Result(s, <<>>)
        ELSE IF w > 1 /\ NeedReverse(s) THEN ReadEachOld(s, w, n)
        ELSE IF ~Good(e) THEN Result(e, <<>>)
        ELSE Result([e EXCEPT !.cur = @ + n * w],
                    [i \in 1..n |-> FromHostBytes(Bytes(s.data, s.cur + (i - 1) * w, w))])

\* Manip::array
ReadArrayOld(s, item, max) ==
    LET len == ReadPodOld(s, item.lw)
        n == len.vs[1]
    IN  IF ~Good(len.s) THEN len
        ELSE IF n > max /\ (item.how = "ptr" \/ max # 0) THEN Result(Bad(len.s, 1), <<>>)
        ELSE IF item.how = "list" THEN ReadEachOld(len.s, item.w, n) ELSE ReadRawOld(len.s, item.w, n)

\* readVarint: two bytes at most for one byte, otherwise up to the first below 128.
ReadVarintOld(s, w, signed) ==
    LET last == {i \in 1 .. Size(s.data) - s.cur : s.data[s.cur + i - 1] < 128 \/ (w = 1 /\ i = 2)}
        n == CHOOSE i \in last : \A j \in last : i <= j
        u == FoldLeft(LAMBDA acc, i : acc + (s.data[s.cur + i - 1] % 128) * (128 ^ (i - 1)), 0, [i \in 1..n |-> i])
    IN  IF ~Good(s) THEN Result(s, <<>>)
        ELSE IF last = {} THEN Result(Bad([s EXCEPT !.cur = Size(s.data)], 1), <<>>)
        ELSE Result([s EXCEPT !.cur = @ + n], <<FromUnsigned(IF w < 4 THEN u % (256 ^ w) ELSE u, signed)>>)

\* operator >>
ReadOld(s, item, max) ==
    CASE item.k = "pod" -> ReadPodOld(s, item.w)
      [] item.k = "raw" -> ReadRawOld(s, item.w, Len(item.vs))
      [] item.k = "array" -> ReadArrayOld(s, item, max)
      [] item.k = "varint" -> ReadVarintOld(s, item.w, item.signed)

ReadOrderedOld(s, item, max, little) ==
    LET r == ReadOld(LittleEndian(s, little), item, max)
    IN  Result(LittleEndian(r.s, s.little), r.vs)

ReadAtOld(s, pos, item, max) ==
    LET there == SeekInOld(s, pos)
        r == ReadOld(there, item, max)
    IN  IF ~Good(there) THEN Result(there, <<>>) ELSE IF Good(r.s) THEN Result(SeekInOld(r.s, s.cur), r.vs) ELSE r

EndOld(s) == IF Good(s) /\ LeftOld(s) # 0 THEN Bad(s, 1) ELSE s

----------------------------------------------------------------------------
\* COutByteStreamBasic over a container of the caller, over one of its own with room
\* reserved, and over an array.
NewStreams ==
    {OutStream("ref", <<>>, TRUE), OutStream("own", Resize(<<>>, 2), FALSE), OutStream("fixed", Resize(<<>>, OldSize), TRUE)}

Init ==
    /\ odOut \in NewStreams
    /\ odIn = NoSource /\ odSent = FALSE /\ odScript = <<>> /\ odGot = <<>>

Packing == ~odSent
Boundary(i) == FoldLeft(LAMBDA n, e : n + Len(Wire(e.item, e.little)), 0, SubSeq(odScript, 1, i))

\* An item is packed behind the others, or in front of them.
Pack(item, little) ==
    /\ Packing /\ Len(odScript) < OldMax
    /\ odOut' = OrderedOld(odOut, item, little)
    /\ odScript' = IF Good(odOut') THEN Append(odScript, [item |-> item, little |-> little]) ELSE odScript
    /\ UNCHANGED <<odIn, odSent, odGot>>

PackFirst(item) ==
    /\ Packing /\ Len(odScript) \in 1 .. OldMax - 1
    /\ odOut' = InsertOld(odOut, 0, item)
    /\ odScript' = IF Good(odOut') THEN <<[item |-> item, little |-> FALSE]>> \o odScript ELSE odScript
    /\ UNCHANGED <<odIn, odSent, odGot>>

\* What is skipped with a filling is bytes of one value; skipped back over it is gone.
Filling(v) == OldRaw(1, <<v, v>>)

Pad(v) ==
    /\ Packing /\ Len(odScript) < OldMax
    /\ odOut' = SkipFillOld(odOut, 2, v)
    /\ odScript' = IF Good(odOut') THEN Append(odScript, [item |-> Filling(v), little |-> odOut.little]) ELSE odScript
    /\ UNCHANGED <<odIn, odSent, odGot>>

Back(v) ==
    /\ Packing /\ odScript # <<>> /\ Last(odScript).item = Filling(v)
    /\ odOut' = SkipOld(odOut, -2)
    /\ odScript' = IF Good(odOut') THEN Front(odScript) ELSE odScript
    /\ UNCHANGED <<odIn, odSent, odGot>>

\* Manip::end; the first n bytes arrive.
Send(n) ==
    /\ Packing /\ Good(odOut) /\ n \in 0 .. odOut.cur
    /\ odIn' = InStream([i \in 0 .. n - 1 |-> Exported(odOut)[i + 1]], TRUE)
    /\ odOut' = FinishOld(odOut) /\ odSent' = TRUE
    /\ UNCHANGED <<odScript, odGot>>

SendInto(capa) ==
    /\ Packing /\ Good(odOut)
    /\ odOut' = FinishIntoOld(odOut, capa) /\ ~Good(odOut')
    /\ UNCHANGED <<odIn, odSent, odScript, odGot>>

Get(max) ==
    /\ ~Packing /\ Len(odGot) < Len(odScript)
    /\ LET e == odScript[Len(odGot) + 1]
           r == ReadOrderedOld(odIn, e.item, max, e.little)
       IN  odIn' = r.s /\ odGot' = IF Good(r.s) THEN Append(odGot, r.vs) ELSE odGot
    /\ UNCHANGED <<odOut, odSent, odScript>>

End ==
    /\ ~Packing
    /\ odIn' = EndOld(odIn)
    /\ UNCHANGED <<odOut, odSent, odScript, odGot>>

Next ==
    \/ \E item \in OldItems, little \in BOOLEAN : Pack(item, little)
    \/ \E item \in OldItems : PackFirst(item)
    \/ Pad(4) \/ Back(4)
    \/ \E n \in {odOut.cur - 1, odOut.cur} : Send(n)
    \/ SendInto(1)
    \/ \E max \in {1, 9} : Get(max)
    \/ End

Spec == Init /\ [][Next]_oldVars

----------------------------------------------------------------------------
Whole == Good(odIn) /\ Size(odIn.data) = Boundary(Len(odScript))

TypeOK ==
    /\ odOut.begin + odOut.cur \in 0 .. Size(odOut.buf)
    /\ odOut.kind = "fixed" => DOMAIN odOut.buf = 0 .. OldSize - 1
    /\ odIn.cur \in 0 .. Size(odIn.data)

\* What an old program packs, the present library packs as well, byte for byte, and what
\* it reads of a message, or of a part of one, it reads as well (data_stream.hh:1227,
\* 1681); every value comes back as it was packed.
Compatible ==
    /\ odGot = SubSeq([i \in 1..Len(odScript) |-> odScript[i].item.vs], 1, Len(odGot))
    /\ Packing /\ Good(odOut) =>
        /\ Exported(odOut) = FlattenSeq([i \in 1..Len(odScript) |-> Wire(odScript[i].item, odScript[i].little)])
        /\ \A item \in OldItems : WriteOld(odOut, item) = WriteItem(odOut, item)
    /\ ~Packing /\ Len(odGot) < Len(odScript) =>
        LET e == odScript[Len(odGot) + 1]
        IN  ReadOrderedOld(odIn, e.item, 9, e.little) = ReadOrdered(odIn, e.item, 9, e.little)
    /\ ~Packing /\ Whole => \A i \in 1..Len(odScript) :
        LET s == LittleEndian(odIn, odScript[i].little)
        IN  ReadAtOld(s, Boundary(i - 1), odScript[i].item, 9) = Result(s, odScript[i].item.vs)
=============================================================================
