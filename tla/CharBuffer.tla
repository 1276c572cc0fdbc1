----------------------------- MODULE CharBuffer -----------------------------
(***************************************************************************)
(* CCharBuffer (char_buffer.hh): string operations on a block of memory of *)
(* fixed size that belongs to the caller.  cbMem is that block, cbSize is  *)
(* sz_; capa_ is the size of the block.  cbText is the string the caller   *)
(* believes to have: every action applies to it what the operation         *)
(* promises.  cbThrown says that the last call threw std::out_of_range.    *)
(*                                                                         *)
(* Pointers and iterators into the buffer are offsets.  The source of a    *)
(* copy is memory of its own, except in AppendSelf.                        *)
(***************************************************************************)
EXTENDS Integers, Sequences, SequencesExt

CONSTANTS
    Byte,       \* what a cell holds; the smallest one is what resize fills in
    Capa        \* the size of the block of memory

VARIABLES cbMem, cbSize, cbText, cbThrown

cbVars == <<cbMem, cbSize, cbText, cbThrown>>

Source == SeqOf(Byte, 2)

\* The n bytes that start at pos.
Bytes(mem, pos, n) == [i \in 1..n |-> mem[pos + i - 1]]

\* copy_aux: the bytes of s, which is not part of mem.  Past the end the block gets
\* longer, and TypeOK fails.
Store(mem, pos, s) ==
    [i \in DOMAIN mem \cup (pos .. pos + Len(s) - 1) |->
        IF i \in pos .. pos + Len(s) - 1 THEN s[i - pos + 1] ELSE mem[i]]

\* move_aux: source and destination may overlap.
Move(mem, dst, src, n) == Store(mem, dst, Bytes(mem, src, n))

\* assign_aux
Fill(mem, pos, n, v) == Store(mem, pos, [i \in 1..n |-> v])

Content == Bytes(cbMem, 0, cbSize)

Init ==
    /\ cbMem = [i \in 0 .. Capa - 1 |-> 0]
    /\ cbSize = 0
    /\ cbText = <<>>
    /\ cbThrown = FALSE

Throw(bad) ==
    /\ bad
    /\ cbThrown' = TRUE
    /\ UNCHANGED <<cbMem, cbSize, cbText>>

\* check_size_range_throw, check_capa_throw
SizeRangeBad(off, count) == off > cbSize \/ (count > 0 /\ off + count > cbSize)
CapaBad(n) == n > Capa


\* mutate_aux: the tail moves to its new place.
MutateAux(off, count, newCount) ==
    LET c == cbSize - off - count
    IN  IF c > 0 /\ count # newCount
        THEN Move(cbMem, off + newCount, off + count, c)
        ELSE cbMem

LimitCount(off, count) == IF cbSize - off < count THEN cbSize - off ELSE count

\* What std::string makes of the same request.
Spliced(text, off, count, s) ==
    SubSeq(text, 1, off) \o s \o SubSeq(text, off + count + 1, Len(text))

\* replace in all its forms; insert and append are replacements of nothing.
Replace(off, count, s) ==
    LET bad == \/ SizeRangeBad(off, count)
               \/ CapaBad(off + Len(s))
               \/ CapaBad(cbSize + Len(s) - count)
    IN  \/ Throw(bad)
        \/ /\ ~bad
           /\ cbMem' = Store(MutateAux(off, count, Len(s)), off, s)
           /\ cbSize' = cbSize + Len(s) - count
           /\ cbText' = Spliced(cbText, off, count, s)
           /\ cbThrown' = FALSE

AppendBytes(s) == Replace(cbSize, 0, s)

Insert(off, s) == Replace(off, 0, s)

\* append of the buffer itself: the source is the front of the same memory.
AppendSelf == AppendBytes(Content)

PushBack(v) ==
    \/ Throw(CapaBad(cbSize + 1))
    \/ /\ ~CapaBad(cbSize + 1)
       /\ cbMem' = Store(cbMem, cbSize, <<v>>)
       /\ cbSize' = cbSize + 1
       /\ cbText' = Append(cbText, v)
       /\ cbThrown' = FALSE

\* resize(count, val)
ResizeTo(count, v) ==
    \/ Throw(CapaBad(count))
    \/ /\ ~CapaBad(count)
       /\ cbMem' = IF count > cbSize THEN Fill(cbMem, cbSize, count - cbSize, v) ELSE cbMem
       /\ cbSize' = count
       /\ cbText' = [i \in 1..count |-> IF i <= Len(cbText) THEN cbText[i] ELSE v]
       /\ cbThrown' = FALSE

\* erase(offset, count); an offset at the end is out of range.
Erase(off, count) ==
    LET n == LimitCount(off, IF off + count > cbSize THEN cbSize - off ELSE count)
    IN  \/ Throw(off >= cbSize)
        \/ /\ off < cbSize
           /\ cbMem' = MutateAux(off, n, 0)
           /\ cbSize' = cbSize - n
           /\ cbText' = Spliced(cbText, off, n, <<>>)
           /\ cbThrown' = FALSE

\* clear: the memory keeps its bytes.
Clear ==
    /\ cbSize' = 0
    /\ cbText' = <<>>
    /\ cbThrown' = FALSE
    /\ UNCHANGED cbMem

\* assign of the same block with another size shows the bytes that are there,
\* at most as many as the capacity.
Assign(size) ==
    /\ cbSize' = (IF size < Capa THEN size ELSE Capa)
    /\ cbText' = Bytes(cbMem, 0, cbSize')
    /\ cbThrown' = FALSE
    /\ UNCHANGED cbMem

\* substr: a buffer on the tail of the same memory.
Substr(off, count) == Bytes(cbMem, off, LimitCount(off, count))

\* copy(buf, count, offset): what it hands out.
CopyOut(off, count) ==
    Bytes(cbMem, off, IF off + count > cbSize THEN cbSize - off ELSE count)

\* compare: the common part first, then the lengths.
Compare(a, b) ==
    LET n == IF Len(a) < Len(b) THEN Len(a) ELSE Len(b)
        differ == {i \in 1..n : a[i] # b[i]}
        first == CHOOSE i \in differ : \A j \in differ : i <= j
    IN  IF differ # {} THEN (IF a[first] < b[first] THEN -1 ELSE 1)
        ELSE IF Len(a) < Len(b) THEN -1
        ELSE IF Len(a) > Len(b) THEN 1 ELSE 0

Less(a, b) == Compare(a, b) < 0

Next ==
    \/ \E off \in 0 .. Capa + 1, count \in 0 .. Capa, s \in Source : Replace(off, count, s)
    \/ \E s \in Source : AppendBytes(s)
    \/ \E off \in 0 .. Capa, s \in Source : Insert(off, s)
    \/ AppendSelf
    \/ \E v \in Byte : PushBack(v)
    \/ \E n \in 0 .. Capa + 1, v \in Byte : ResizeTo(n, v)
    \/ \E off \in 0 .. Capa, count \in 0 .. Capa : Erase(off, count)
    \/ Clear
    \/ \E n \in 0 .. Capa + 1 : Assign(n)

Spec == Init /\ [][Next]_cbVars

----------------------------------------------------------------------------
\* The buffer stays inside the memory it was given (char_buffer.hh:785-811).
TypeOK ==
    /\ cbMem \in [0 .. Capa - 1 -> Byte]
    /\ cbSize \in 0 .. Capa
    /\ cbThrown \in BOOLEAN

\* The bytes in front of sz_ are the string the sequence of calls should have
\* produced, whatever was moved to make room (char_buffer.hh:833).
TextKept == Content = cbText

\* substr and copy agree with the string from every offset (char_buffer.hh:325,
\* 682), and compare orders it with every other string as the order of its
\* prefixes says (char_buffer.hh:699).
ViewsOK ==
    /\ \A off \in 0 .. cbSize - 1, count \in 0 .. Capa :
          LET part == SubSeq(cbText, off + 1, off + LimitCount(off, count))
          IN  Substr(off, count) = part /\ CopyOut(off, count) = part
    /\ \A s \in Source :
          /\ Less(s, Content) \/ Less(Content, s) \/ s = cbText
          /\ ~ (Less(s, Content) /\ Less(Content, s))
          /\ IsStrictPrefix(s, cbText) => Less(s, Content)
=============================================================================
