-------------------------- MODULE StreamRoundTrip ---------------------------
(***************************************************************************)
(* A program packs a message with COutByteStreamBasic, and another one     *)
(* unpacks it, or as much of it as has arrived, with CInByteStream, >> for *)
(* <<, in the same order.  script is the list of items that the packing    *)
(* program believes to be in the message, each with its byte order; got    *)
(* are the values the reading program has so far.                          *)
(***************************************************************************)
EXTENDS ByteStream

CONSTANTS
    Items,          \* what may be packed
    Start,          \* bytes an external buffer holds before the data
    FixedSize,      \* the size of the memory of a stream over an array
    MaxItems,       \* bound: items of one message
    MaxEdits        \* bound: calls that pack it

VARIABLES out, in, script, got, phase, edits

streamVars == <<out, in, script, got, phase, edits>>

WireLen(e) == Len(Wire(e.item, e.little))

\* The position behind the first i items.
Boundary(i) == FoldLeft(LAMBDA n, e : n + WireLen(e), 0, SubSeq(script, 1, i))

Init ==
    /\ out \in { OutStream("ref", [i \in 0 .. Len(Start) - 1 |-> Start[i + 1]], TRUE),
                 OutStream("own", Resize(<<>>, 2), FALSE),
                 OutStream("fixed", Resize(<<>>, FixedSize), TRUE) }
    /\ in = NoSource
    /\ script = <<>>
    /\ got = <<>>
    /\ phase = "write"
    /\ edits = 0

Writing(o, s) ==
    /\ phase = "write"
    /\ edits < MaxEdits
    /\ edits' = edits + 1
    /\ out' = o
    /\ script' = IF Good(o) THEN s ELSE script
    /\ UNCHANGED <<in, got, phase>>

Entry(item, little) == [item |-> item, little |-> little]

Put(item) ==
    /\ Len(script) < MaxItems
    /\ Writing(WriteItem(out, item), Append(script, Entry(item, out.little)))

PutOrdered(item, little) ==
    /\ Len(script) < MaxItems
    /\ Writing(WriteOrdered(out, item, little), Append(script, Entry(item, little)))

\* Manip::net_order, host_order, little_endian, big_endian
SetNetOrder(net) == Writing(NetOrder(out, net), script)
SetEndian(little) == Writing(LittleEndian(out, little), script)

\* Manip::insert between two items, or behind the last one.
PutInsert(i, item) ==
    /\ Len(script) < MaxItems
    /\ Writing(InsertItem(out, Boundary(i), item),
               InsertAt(script, i + 1, Entry(item, i = Len(script) /\ out.little)))

\* Manip::offset_value on an integer that is there already.
PutAt(i, v) ==
    /\ script[i].item.k = "pod"
    /\ LET item == [script[i].item EXCEPT !.vs = <<v>>]
       IN  Writing(WriteAt(out, Boundary(i - 1), item.w, v),
                   [script EXCEPT ![i] = Entry(item, out.little)])

\* Manip::seek and skip back to a boundary: what follows is packed again.
SeekBack(i) == Writing(Seek(out, Boundary(i)), SubSeq(script, 1, i))
SkipBack(i) == Writing(Skip(out, Boundary(i) - Boundary(Len(script))), SubSeq(script, 1, i))

\* Manip::skip(off, fill) leaves bytes of one value.
Pad(n, v) ==
    /\ Len(script) < MaxItems
    /\ Writing(SkipFill(out, n, v), Append(script, Entry(Raw(1, [i \in 1..n |-> v]), out.little)))

PutStub(n) ==
    /\ Len(out.stubs) < 2
    /\ Writing(OutStub(out, n), script)

\* Manip::stub_pop; aligned, it leaves a gap of whatever the memory held.
DropStub(align, check) ==
    LET o == OutPopStub(out, align, check)
        gap == Bytes(o.buf, o.begin + out.cur, o.cur - out.cur)
    IN  Writing(o, IF o.cur > out.cur THEN Append(script, Entry(Raw(1, gap), out.little)) ELSE script)

\* Manip::end, and the arrival of the first n bytes of the message.
Send(n) ==
    LET message == SubSeq(Exported(out), Len(Exported(out)) - out.cur + 1, Len(Exported(out)))
    IN  /\ phase = "write"
        /\ out' = Finish(out)
        /\ Good(out')
        /\ n <= Len(message)
        /\ in' = InStream([i \in 0 .. n - 1 |-> message[i + 1]], TRUE)
        /\ phase' = "read"
        /\ UNCHANGED <<script, got, edits>>

\* finish into an array that may be too small for the message.
SendInto(capa) ==
    /\ phase = "write"
    /\ Good(out)
    /\ out' = FinishInto(out, capa)
    /\ ~Good(out')
    /\ UNCHANGED <<in, script, got, phase, edits>>

Reading(s) ==
    /\ phase = "read"
    /\ in' = s
    /\ UNCHANGED <<out, script, edits>>

\* >> of the next item, into an array or a container of at most max elements.
Get(max) ==
    /\ Len(got) < Len(script)
    /\ LET e == script[Len(got) + 1]
           r == ReadOrdered(in, e.item, max, e.little)
       IN  /\ Reading(r.s)
           /\ got' = IF Good(r.s) THEN Append(got, r.vs) ELSE got
    /\ UNCHANGED phase

\* A stub around the next item, and its end.
GetStubbed ==
    /\ Len(got) < Len(script)
    /\ in.stubs = <<>>
    /\ Reading(InStub(in, WireLen(script[Len(got) + 1])))
    /\ UNCHANGED <<got, phase>>

\* stub_pop, aligned: an item that was not read is ignored, and nothing else.
LeaveStub(align, check) ==
    LET s == InPopStub(in, align, check)
    IN  /\ Reading(s)
        /\ got' = IF Good(s) /\ s.cur > in.cur THEN Append(got, script[Len(got) + 1].item.vs) ELSE got
        /\ UNCHANGED phase

End ==
    /\ Reading(EndIn(in))
    /\ phase' = "closed"
    /\ UNCHANGED got

Next ==
    \/ \E item \in Items : Put(item)
    \/ \E item \in Items, little \in BOOLEAN : PutOrdered(item, little)
    \/ \E net \in BOOLEAN : SetNetOrder(net)
    \/ \E little \in BOOLEAN : SetEndian(little)
    \/ \E i \in 0 .. Len(script), item \in Items : PutInsert(i, item)
    \/ \E i \in 1 .. Len(script) : PutAt(i, 5)
    \/ \E i \in 0 .. Len(script) : SeekBack(i) \/ SkipBack(i)
    \/ Pad(2, 4)
    \/ \E n \in {0, 3} : PutStub(n)
    \/ \E align, check \in BOOLEAN : DropStub(align, check)
    \/ \E n \in 0 .. out.cur : Send(n)
    \/ SendInto(1)
    \/ \E max \in {1, 9} : Get(max)
    \/ GetStubbed
    \/ \E align, check \in BOOLEAN : LeaveStub(align, check)
    \/ End

Spec == Init /\ [][Next]_streamVars

----------------------------------------------------------------------------
Values == [i \in 1..Len(script) |-> script[i].item.vs]

\* Positions stay inside the data, and while a stream is good, in front of
\* every stub it will go back to (impl/data_stream_impl.hh:152).
TypeOK ==
    /\ phase \in {"write", "read", "closed"}
    /\ out.begin + out.cur \in 0 .. Size(out.buf)
    /\ out.kind = "fixed" => DOMAIN out.buf = 0 .. FixedSize - 1
    /\ in.cur \in 0 .. Size(in.data)
    /\ {out.status, in.status} \subseteq {0, 1}

StubsHold ==
    /\ Good(out) /\ out.stubs # <<>> => out.cur <= Last(out.stubs)
    /\ Good(in) /\ in.stubs # <<>> => in.cur <= Last(in.stubs)

\* The memory holds what was there before and the wire form of the items, one
\* after the other, whatever was inserted, overwritten or grown in between
\* (data_stream.hh:1746, 1804, 1812; impl/data_stream_impl.hh:262).
Packed ==
    phase = "write" /\ Good(out) =>
        Exported(out) = (IF out.kind = "ref" THEN Start ELSE <<>>)
                            \o FlattenSeq([i \in 1..Len(script) |-> Wire(script[i].item, script[i].little)])

\* A reader has the first values of the message, or an error, but no wrong
\* ones; and if it ends without an error, what it has is all of the data that
\* arrived: nothing is overlooked, and no value is made of fewer bytes than it
\* was packed into (data_stream.hh:1389, 1458).
RoundTrip ==
    /\ got = SubSeq(Values, 1, Len(got))
    /\ phase # "write" /\ Good(in) => Boundary(Len(got)) <= Size(in.data)
    /\ phase = "closed" /\ Good(in) => Boundary(Len(got)) = Size(in.data)

\* offset_value finds every item of a whole message at its place, and comes
\* back (data_stream.hh:1352).
AnyPlace ==
    phase = "read" /\ Good(in) /\ in.stubs = <<>> /\ Size(in.data) = Boundary(Len(script)) =>
        \A i \in 1..Len(script) :
            LET s == LittleEndian(in, script[i].little)
            IN  ReadAt(s, Boundary(i - 1), script[i].item, 9) = Result(s, script[i].item.vs)

\* After an error nothing is packed or read until the stream gets a new status
\* (impl/data_stream_impl.hh:104).
ErrorsStay ==
    /\ ~Good(out) => out' = [out EXCEPT !.little = out'.little]
    /\ phase = "read" /\ ~Good(in) => in' = in
=============================================================================
