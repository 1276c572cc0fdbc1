----------------------------- MODULE ByteStream -----------------------------
(***************************************************************************)
(* Packing and unpacking.  First what both have in common                  *)
(* (impl/data_stream_impl.hh):                                             *)
(* CDataStreamBase, the status, byte order and stubs of a stream, and the  *)
(* wire form of the things a program packs.                                *)
(*                                                                         *)
(* A stream is a record; the fields of this module's operators are         *)
(*    status  0, or the sticky error                                       *)
(*    little  dataByteOrder_: TRUE for little endian                       *)
(*    stubs   the positions no operation may pass, the top one last        *)
(*                                                                         *)
(* An item is something that is packed with one <<:                        *)
(*    pod     one integer of w bytes                                       *)
(*    raw     the integers vs of w bytes each, Manip::raw of an array      *)
(*    array   the same after a length of lw bytes, Manip::array of an      *)
(*            array, of a string or of any other container (how)           *)
(*    varint  one integer of w bytes in base 128, zigzag if signed         *)
(***************************************************************************)
EXTENDS Integers, Sequences, SequencesExt

CONSTANT HostLittle        \* tools::HostByteOrder(): the byte order of the machine

----------------------------------------------------------------------------
(* A block of memory is a function from offsets, counted from 0 as in the  *)
(* code, to bytes.  A write past the end makes the block longer, so that   *)
(* the type invariant of its owner fails; a read past it is an error of TLC.*)

\* The n bytes that start at pos.
Bytes(mem, pos, n) == [i \in 1..n |-> mem[pos + i - 1]]

\* __buf_copy: the bytes of s, which is not part of mem.
Store(mem, pos, s) ==
    [i \in DOMAIN mem \cup (pos .. pos + Len(s) - 1) |->
        IF i \in pos .. pos + Len(s) - 1 THEN s[i - pos + 1] ELSE mem[i]]

\* __buf_move: source and destination may overlap.
Move(mem, dst, src, n) == Store(mem, dst, Bytes(mem, src, n))

\* Reserved room is filled in.
Fill(mem, pos, n, v) == Store(mem, pos, [i \in 1..n |-> v])

\* resize of std::string and std::vector<char>: new bytes are 0.
Resize(mem, n) ==
    [i \in 0 .. n - 1 |-> IF i \in DOMAIN mem THEN mem[i] ELSE 0]

\* size() of the block.
Size(mem) == IF DOMAIN mem = {} THEN 0 ELSE (CHOOSE i \in DOMAIN mem : \A j \in DOMAIN mem : j <= i) + 1

----------------------------------------------------------------------------
\* bo: net byte order is big endian, host byte order that of the machine.
ByteOrder(net) == IF net THEN FALSE ELSE HostLittle

\* CDataStreamBase()
StreamBase(net, code) == [status |-> code, little |-> ByteOrder(net), stubs |-> <<>>]

Good(s) == s.status = 0

Bad(s, code) == [s EXCEPT !.status = code]

NeedReverse(s) == HostLittle # s.little

\* netByteOrder, littleEndian
NetOrder(s, net) == [s EXCEPT !.little = ByteOrder(net)]
LittleEndian(s, little) == [s EXCEPT !.little = little]

\* A mutant of PushStub: also after an error.
PushStubAlways(s, pos) == [s EXCEPT !.stubs = Append(@, pos)]

PushStub(s, pos) == IF Good(s) THEN [s EXCEPT !.stubs = Append(@, pos)] ELSE s

\* popStub: the stream without its top stub, an error if there is none.
PopStub(s) ==
    IF ~Good(s) THEN s
    ELSE IF s.stubs = <<>> THEN Bad(s, 1)
    ELSE [s EXCEPT !.stubs = Front(@)]

\* checkStub: whether pos may be reached, and what becomes of the stream.
StubAllows(s, pos) == Good(s) /\ (s.stubs = <<>> \/ pos <= Last(s.stubs))
CheckStub(s, pos) == IF Good(s) /\ ~StubAllows(s, pos) THEN Bad(s, 1) ELSE s

\* getStub: the nearer one of the end and the top stub.
GetStub(s, end) == IF s.stubs = <<>> \/ end < Last(s.stubs) THEN end ELSE Last(s.stubs)

ClearStub(s) == IF Good(s) THEN [s EXCEPT !.stubs = <<>>] ELSE s

----------------------------------------------------------------------------
\* Integers and bytes.

LittleBytes(v, w) == [i \in 1..w |-> (v \div (256 ^ (i - 1))) % 256]

\* The bytes of an integer in the memory of this machine.
HostBytes(v, w) == IF HostLittle THEN LittleBytes(v, w) ELSE Reverse(LittleBytes(v, w))

\* tools::SwapByteOrder, on the bytes of the integer.
SwapByteOrder(bs) == Reverse(bs)

\* The integer a machine makes of bytes in its memory.
FromHostBytes(bs) ==
    LET le == IF HostLittle THEN bs ELSE Reverse(bs)
    IN  FoldLeft(LAMBDA acc, i : acc + le[i] * (256 ^ (i - 1)), 0, [i \in 1..Len(bs) |-> i])

\* CManipulatorVarint::toUnsigned: zigzag keeps small negative numbers short.
ToUnsigned(v, signed) ==
    IF ~signed THEN v
    ELSE IF v >= 0 THEN 2 * v ELSE (-2) * v - 1

FromUnsigned(u, signed) ==
    IF ~signed THEN u
    ELSE IF u % 2 = 0 THEN u \div 2 ELSE - ((u + 1) \div 2)

----------------------------------------------------------------------------
\* Items.

Pod(w, v) == [k |-> "pod", w |-> w, vs |-> <<v>>]
Raw(w, vs) == [k |-> "raw", w |-> w, vs |-> vs]
Array(how, lw, w, vs) == [k |-> "array", how |-> how, lw |-> lw, w |-> w, vs |-> vs]
Varint(w, signed, v) == [k |-> "varint", w |-> w, signed |-> signed, vs |-> <<v>>]

\* What the documentation of the manipulators says an item looks like in the
\* data: the reference the streams are compared with.
WireInt(v, w, little) == IF little THEN LittleBytes(v, w) ELSE Reverse(LittleBytes(v, w))

WireVarint(u) ==
    LET groups == CHOOSE n \in 1..5 :
                      /\ n = 5 \/ u < 128 ^ n
                      /\ n = 1 \/ u >= 128 ^ (n - 1)
    IN  [i \in 1..groups |->
            ((u \div (128 ^ (i - 1))) % 128) + (IF i < groups THEN 128 ELSE 0)]

Wire(item, little) ==
    LET elements == FlattenSeq([i \in 1..Len(item.vs) |-> WireInt(item.vs[i], item.w, little)])
    IN  CASE item.k \in {"pod", "raw"} -> elements
          [] item.k = "array" -> WireInt(Len(item.vs), item.lw, little) \o elements
          [] item.k = "varint" -> WireVarint(ToUnsigned(item.vs[1], item.signed))

----------------------------------------------------------------------------
\* Packing: COutByteStreamBasic (data_stream.hh:1527) over its three kinds of memory
\* (impl/data_stream_impl.hh): ref, an external string or vector the data is appended
\* to; own, an internal one; fixed, an array of fixed size.  An operation maps a stream
\* to the stream it leaves.  Such a stream has also buf, the memory; begin, where its
\* data starts; cur, the position relative to begin.

\* The constructors; reserve is the initial size of an own buffer.
OutStream(kind, mem, net) ==
    [kind |-> kind, buf |-> mem, begin |-> IF kind = "ref" THEN Size(mem) ELSE 0, cur |-> 0]
        @@ StreamBase(net, 0)

\* __buf_data::ensure: growth by half, or no growth.
HasRoom(o, len) == o.kind # "fixed" \/ o.cur + len <= Size(o.buf)
DataEnsure(o, len) ==
    LET old == Size(o.buf)
    IN  IF o.kind # "fixed" /\ o.begin + o.cur + len > old
        THEN [o EXCEPT !.buf = Resize(@, old + old \div 2 + len)]
        ELSE o

\* ensure of the stream: the stub first, then the memory.
Ensure(o, len) ==
    IF ~StubAllows(o, o.cur + len) THEN CheckStub(o, o.cur + len)
    ELSE IF HasRoom(o, len) THEN DataEnsure(o, len)
    ELSE Bad(o, 1)

\* insert of the memory: the tail makes room, append is an insert at cur.
DataInsert(o, off, s) ==
    LET at(i) == o.begin + i
        moved == IF off < o.cur THEN Move(o.buf, at(off + Len(s)), at(off), o.cur - off) ELSE o.buf
    IN  [o EXCEPT !.buf = Store(moved, at(off), s), !.cur = @ + Len(s)]

DataAppend(o, s) == DataInsert(o, o.cur, s)

\* ensure(n), and if it succeeds append the bytes.
EnsureAppend(o, s) ==
    LET e == Ensure(o, Len(s)) IN IF Good(e) THEN DataAppend(e, s) ELSE e

\* seek of the stream and of its memory.
Seek(o, pos) ==
    IF ~StubAllows(o, pos) THEN CheckStub(o, pos)
    ELSE IF o.kind = "fixed"
         THEN IF pos > Size(o.buf) THEN Bad(o, 1) ELSE [o EXCEPT !.cur = pos]
         ELSE [(IF pos > o.cur THEN DataEnsure(o, pos - o.cur) ELSE o) EXCEPT !.cur = pos]

\* skip(off): positions are unsigned, so that a negative one is beyond every stub.
Skip(o, off) ==
    IF ~Good(o) THEN o
    ELSE IF o.cur + off < 0 THEN Bad(o, 1)
    ELSE LET c == CheckStub(o, o.cur + off) IN IF Good(c) THEN Seek(c, o.cur + off) ELSE c

\* skip(off, fill)
SkipFill(o, off, v) ==
    LET s == Skip(o, off)
    IN  IF Good(s) /\ o.cur < s.cur
        THEN [s EXCEPT !.buf = Fill(@, o.begin + o.cur, s.cur - o.cur, v)]
        ELSE s

WritePod(o, v, w) ==
    EnsureAppend(o, IF w > 1 /\ NeedReverse(o) THEN SwapByteOrder(HostBytes(v, w)) ELSE HostBytes(v, w))

\* writeRange, and writeRaw where elements cannot be copied as a block.
WriteEach(o, w, vs) == FoldLeft(LAMBDA s, v : IF Good(s) THEN WritePod(s, v, w) ELSE s, o, vs)

\* writeRaw
WriteRaw(o, w, vs) ==
    IF vs = <<>> THEN o
    ELSE IF w > 1 /\ NeedReverse(o) THEN WriteEach(o, w, vs)
    ELSE EnsureAppend(o, FlattenSeq([i \in 1..Len(vs) |-> HostBytes(vs[i], w)]))

\* Manip::offset_value
WriteAt(o, pos, w, v) ==
    LET there == Seek(o, pos)
        done == IF Good(there) THEN WritePod(there, v, w) ELSE there
    IN  IF Good(done) THEN Seek(done, o.cur) ELSE done

\* Manip::array.  The length of an array is known; that of a container is
\* counted while its elements are packed, and put in its place afterwards.
\* A length is stored in lw bytes, whatever does not fit is lost.
WriteArray(o, item) ==
    LET len == Len(item.vs) % (256 ^ item.lw)
    IN  IF item.how = "ptr"
        THEN LET s == WritePod(o, len, item.lw) IN IF Good(s) THEN WriteRaw(s, item.w, item.vs) ELSE s
        ELSE LET s == WritePod(o, 0, item.lw)
                 t == IF item.how = "string" THEN WriteRaw(s, item.w, item.vs)
                                             ELSE WriteEach(s, item.w, item.vs)
             IN  IF ~Good(s) \/ item.vs = <<>> THEN s
                 ELSE IF Good(t) THEN WriteAt(t, o.cur, item.lw, len) ELSE t

\* writeVarint: seven bits a byte, the low ones first; room for all bytes of
\* an integer of up to 32 bits is asked for at once.
VarintBytes(u) ==
    LET last == CHOOSE n \in 0..4 : (u \div (128 ^ n)) \in 0..127
    IN  [i \in 1 .. last + 1 |->
            IF i <= last THEN ((u \div (128 ^ (i - 1))) % 128) + 128 ELSE u \div (128 ^ last)]

WriteVarint(o, v, signed) == EnsureAppend(o, VarintBytes(ToUnsigned(v, signed)))

\* operator <<
WriteItem(o, item) ==
    CASE item.k = "pod" -> WritePod(o, item.vs[1], item.w)
      [] item.k = "raw" -> WriteRaw(o, item.w, item.vs)
      [] item.k = "array" -> WriteArray(o, item)
      [] item.k = "varint" -> WriteVarint(o, item.vs[1], item.signed)

\* Manip::net_order_value and its relatives: the order is put back.
WriteOrdered(o, item, little) ==
    LittleEndian(WriteItem(LittleEndian(o, little), item), o.little)

\* Manip::insert: in the middle of the data the item is packed by a stream of
\* its own, which has net byte order.
InsertItem(o, pos, item) ==
    IF o.cur <= pos
    THEN LET s == IF o.cur = pos THEN o ELSE Seek(o, pos) IN IF Good(s) THEN WriteItem(s, item) ELSE s
    ELSE LET ds == WriteItem(OutStream("own", <<>>, TRUE), item)
             bytes == Bytes(ds.buf, 0, ds.cur)
             e == Ensure(o, Len(bytes))
         IN  IF bytes = <<>> THEN o
             ELSE IF Good(e) THEN DataInsert(e, pos, bytes) ELSE e

\* Manip::stub
OutStub(o, sz) == PushStub(o, sz + o.cur)

\* Manip::stub_pop(align, check)
OutPopStub(o, align, check) ==
    LET p == PopStub(o)
        pos == Last(o.stubs)
    IN  IF ~Good(p) THEN p
        ELSE IF check /\ o.cur # pos THEN Bad(p, 1)
        ELSE Seek(p, IF align THEN pos ELSE p.cur)

\* exportData: the memory is cut after the data, and the stream starts again.
ExportData(o) ==
    IF o.kind = "fixed" THEN [o EXCEPT !.cur = 0]
    ELSE [o EXCEPT !.buf = Resize(@, o.begin + o.cur), !.begin = 0, !.cur = 0]

\* finish() and Manip::end
Finish(o) == IF Good(o) THEN ClearStub(ExportData(o)) ELSE o

\* finish(dst, sz) into an array of capa bytes, which has to be large enough.
FinishInto(o, capa) ==
    IF Good(o) /\ capa < o.begin + o.cur THEN Bad(o, 1) ELSE Finish(o)

\* What finish hands out: the memory up to the end of the data.
Exported(o) == Bytes(o.buf, 0, o.begin + o.cur)

----------------------------------------------------------------------------
\* Unpacking: CInByteStream (data_stream.hh:1033).  Such a stream has also data, the
\* memory it reads (data_ and len_), and cur.  A read maps a stream to a record of s,
\* the stream it leaves, and vs, what it stored in the variables or the container of
\* the caller.

\* setSource; the default constructor leaves a stream that is not good.
InStream(mem, net) == [data |-> mem, cur |-> 0] @@ StreamBase(net, 0)
NoSource == [data |-> <<>>, cur |-> 0] @@ StreamBase(TRUE, 1)

\* seek: a negative position is larger than every length.
SeekIn(s, pos) ==
    LET allowed == pos >= 0 /\ StubAllows(s, pos)
    IN  IF ~Good(s) THEN s
        ELSE IF ~allowed \/ pos > Size(s.data) THEN Bad(s, 1)
        ELSE [s EXCEPT !.cur = pos]

SkipIn(s, off) == SeekIn(s, s.cur + off)

\* left()
LeftOver(s) == GetStub(s, Size(s.data)) - s.cur

\* ensure
CanRead(s, n) == StubAllows(s, s.cur + n) /\ LeftOver(s) >= n
CheckRead(s, n) == IF Good(s) /\ ~CanRead(s, n) THEN Bad(s, 1) ELSE s

Result(s, vs) == [s |-> s, vs |-> vs]

\* readPod
ReadPod(s, w) ==
    IF ~CanRead(s, w) THEN Result(CheckRead(s, w), <<>>)
    ELSE LET bs == Bytes(s.data, s.cur, w)
         IN  Result([s EXCEPT !.cur = @ + w],
                    <<FromHostBytes(IF w > 1 /\ NeedReverse(s) THEN SwapByteOrder(bs) ELSE bs)>>)

\* A loop of >> that stops at the first error.
ReadEach(s, w, n) ==
    FoldLeft(LAMBDA r, i : IF ~Good(r.s) THEN r
                           ELSE LET one == ReadPod(r.s, w) IN Result(one.s, r.vs \o one.vs),
             Result(s, <<>>), [i \in 1..n |-> i])

\* readRaw: as a block where the bytes are in the order of the machine.
ReadRaw(s, w, n) ==
    IF n = 0 THEN Result(s, <<>>)
    ELSE IF w > 1 /\ NeedReverse(s) THEN ReadEach(s, w, n)
    ELSE IF ~CanRead(s, n * w) THEN Result(CheckRead(s, n * w), <<>>)
    ELSE Result([s EXCEPT !.cur = @ + n * w],
                [i \in 1..n |-> FromHostBytes(Bytes(s.data, s.cur + (i - 1) * w, w))])

\* Manip::array: a length that exceeds max is an error; 0 stands for no limit
\* where the elements go to a container.
ReadArray(s, item, max) ==
    LET len == ReadPod(s, item.lw)
        n == len.vs[1]
        tooMany == n > max /\ (item.how = "ptr" \/ max # 0)
    IN  IF ~Good(len.s) THEN len
        ELSE IF tooMany THEN Result(Bad(len.s, 1), <<>>)
        ELSE IF item.how = "list" THEN ReadEach(len.s, item.w, n)
        ELSE ReadRaw(len.s, item.w, n)

\* readVarint: up to the first byte below 128; one of a single byte never
\* reads more than two.
ReadVarint(s, w, signed) ==
    LET ends == {i \in 1..5 : CanRead(s, i) /\ (s.data[s.cur + i - 1] < 128 \/ (w = 1 /\ i = 2))}
        n == CHOOSE i \in ends : \A j \in ends : i <= j
        readable == {i \in 0..5 : CanRead(s, i)}
        most == CHOOSE i \in readable : \A j \in readable : j <= i
        group(i) == (s.data[s.cur + i - 1] % 128) * (128 ^ (i - 1))
        u == IF w = 1 THEN s.data[s.cur]
             ELSE FoldLeft(LAMBDA acc, i : acc + group(i), 0, [i \in 1..n |-> i])
    IN  IF ~Good(s) THEN Result(s, <<>>)
        ELSE IF ends = {} THEN Result(Bad([s EXCEPT !.cur = @ + most], 1), <<>>)
        ELSE Result([s EXCEPT !.cur = @ + n], <<FromUnsigned(IF w < 4 THEN u % (256 ^ w) ELSE u, signed)>>)

\* operator >>, with a limit for arrays.
ReadItem(s, item, max) ==
    CASE item.k = "pod" -> ReadPod(s, item.w)
      [] item.k = "raw" -> ReadRaw(s, item.w, Len(item.vs))
      [] item.k = "array" -> ReadArray(s, item, max)
      [] item.k = "varint" -> ReadVarint(s, item.w, item.signed)

\* Manip::net_order_value and its relatives
ReadOrdered(s, item, max, little) ==
    LET r == ReadItem(LittleEndian(s, little), item, max)
    IN  Result(LittleEndian(r.s, s.little), r.vs)

\* Manip::offset_value: back to the old place only after a success.
ReadAt(s, pos, item, max) ==
    LET there == SeekIn(s, pos)
        r == ReadItem(there, item, max)
    IN  IF ~Good(there) THEN Result(there, <<>>)
        ELSE IF Good(r.s) THEN Result(SeekIn(r.s, s.cur), r.vs) ELSE r

\* Manip::stub
InStub(s, sz) == PushStub(s, sz + s.cur)

\* Manip::stub_pop(align, check)
InPopStub(s, align, check) ==
    LET p == PopStub(s)
        pos == Last(s.stubs)
    IN  IF ~Good(p) THEN p
        ELSE IF check /\ s.cur # pos THEN Bad(p, 1)
        ELSE SeekIn(p, IF align THEN pos ELSE p.cur)

\* Manip::end: all of the data has to be read; stubs do not count any more.
EndIn(s) ==
    LET c == ClearStub(s) IN IF Good(c) /\ LeftOver(c) # 0 THEN Bad(c, 1) ELSE c
=============================================================================
