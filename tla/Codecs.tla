------------------------------- MODULE Codecs -------------------------------
(***************************************************************************)
(* The classes that turn one text into another: CCompressorZlib,           *)
(* CCompressorLzo, CCompressorQuickLZ and CCompressorSnappy, CEncryptorAes *)
(* and CCharsetConvert.                                                    *)
(* cdIn and cdOut are the caller's two buffers, which trade places.        *)
(*                                                                         *)
(* What a compression library writes is abstract: a buffer holds cells, or *)
(* it is packed, with the length the class put before it.  zlib and snappy *)
(* notice a damaged text; lzo and quicklz trust it and get none here.  The *)
(* block cipher is a permutation of blocks of two cells, another one for   *)
(* each key.  A conversion adds 1 to the cells it can convert.             *)
(***************************************************************************)
EXTENDS Integers, Sequences, SequencesExt, FiniteSetsExt

CONSTANTS
    Cell,           \* cells, 0..n
    CdKey,          \* keys
    MaxText,        \* bound on the length of a text
    Chunk           \* cells iconv converts at once (64)

VARIABLES
    cdKind,         \* the class
    cdKey,          \* key_ and intens_, as the one schedule of keys they make
    cdMode,         \* mode_, "none" while cv_ is not valid
    cdIn, cdOut,
    cdRet,          \* what the last call returned
    cdWas           \* ghost: the last call and its argument from

cdVars == <<cdKind, cdKey, cdMode, cdIn, cdOut, cdRet, cdWas>>

Modes == {"normal", "translit", "ignore"}
Size == Cardinality(Cell)
BlockSize == 2
Bad == Max(Cell)                    \* a cell with no conversion

Texts == BoundedSeq(Cell, MaxText)
\* A buffer, with what it was encrypted from, with which key and from which cell on.
Text(s) == [packed |-> FALSE, len |-> 0, of |-> s, plain |-> <<>>, key |-> Min(CdKey) - 1, from |-> 0]
Packed(s, len) == [Text(s) EXCEPT !.packed = TRUE, !.len = len]
Nothing == <<"none", 0>>

Init ==
    /\ cdKind \in {"zlib", "lzo", "quicklz", "snappy", "aes", "iconv"}
    /\ cdKey = Min(CdKey) /\ cdMode = "none"
    /\ cdIn \in {Text(s) : s \in Texts} /\ cdOut = Text(<<>>)
    /\ cdRet = "none" /\ cdWas = Nothing

CallsFrom(name, from) == cdWas' = <<name, from>> /\ UNCHANGED <<cdKind, cdIn>>
Zeros(n) == [i \in 1..n |-> 0]
Calls(name) == CallsFrom(name, 0)
Same == UNCHANGED <<cdKey, cdMode>>
Return(ret, out) == cdRet' = ret /\ cdOut' = out

\* The caller goes on with what came out.
Trade ==
    /\ cdRet = "true"
    /\ cdIn' = cdOut /\ cdOut' = cdIn
    /\ cdRet' = "none" /\ cdWas' = Nothing
    /\ UNCHANGED <<cdKind, cdKey, cdMode>>

----------------------------------------------------------------------------
\* zlib: the length as a varint, then the text; compress2 may fail (no memory) and
\* leave the room it was given.
CompressZlib == Return("true", Packed(cdIn.of, Len(cdIn.of)))
CompressFails == Return("false", Text(Zeros(Len(cdIn.of))))

\* lzo: the length in 64 bits, after the text was compressed.
CompressLzo == Return("true", Packed(cdIn.of, Len(cdIn.of)))

\* quicklz and snappy write the length themselves; quicklz makes nothing of nothing.
CompressQuickLZ == Return("true", IF cdIn.of = <<>> THEN Text(<<>>) ELSE Packed(cdIn.of, Len(cdIn.of)))
CompressSnappy == Return("true", Packed(cdIn.of, Len(cdIn.of)))

\* The library's length is the one that counts in the end.
Restore(in) == in.of

\* zlib fails when the room for the announced length is too small, and has then used it.
DecompressZlib ==
    IF cdIn.len < Len(cdIn.of)
    THEN Return("false", Text(Zeros(cdIn.len))) ELSE Return("true", Text(Restore(cdIn)))
DecompressLzo == Return("true", Text(Restore(cdIn)))
DecompressQuickLZ == Return("true", Text(Restore(cdIn)))

\* snappy looks at the whole text first, the length included.
DecompressSnappy ==
    IF cdIn.len # Len(cdIn.of) THEN Return("false", cdOut) ELSE Return("true", Text(Restore(cdIn)))

\* Too short for a length, or for a text of quicklz; snappy rejects what it did not
\* write, and zlib too, with the room made that the first cell asks for.
TooShort == cdIn.of = <<>> /\ Return("false", cdOut)
Foreign == cdIn.of # <<>> /\ Return("false", IF cdKind = "zlib" THEN Text(Zeros(cdIn.of[1])) ELSE cdOut)

\* The calls of each class, compress and decompress of a vector or a string.
Compresses(kind) == cdKind = kind /\ ~cdIn.packed /\ Calls("compress") /\ Same
Decompresses(kind) == cdKind = kind /\ Calls("decompress") /\ Same
Unpacks(kind) == cdIn.packed /\ Decompresses(kind)
Rejects(kind) == ~cdIn.packed /\ Decompresses(kind)

Zlib ==
    \/ Compresses("zlib") /\ (CompressZlib \/ CompressFails)
    \/ Unpacks("zlib") /\ DecompressZlib
    \/ Rejects("zlib") /\ (TooShort \/ Foreign)

Lzo ==
    \/ Compresses("lzo") /\ CompressLzo
    \/ Unpacks("lzo") /\ DecompressLzo
    \/ Rejects("lzo") /\ TooShort

QuickLZ ==
    \/ Compresses("quicklz") /\ CompressQuickLZ
    \/ Unpacks("quicklz") /\ DecompressQuickLZ
    \/ Rejects("quicklz") /\ TooShort

Snappy ==
    \/ Compresses("snappy") /\ CompressSnappy
    \/ Unpacks("snappy") /\ DecompressSnappy
    \/ Rejects("snappy") /\ (TooShort \/ Foreign)

\* Somebody damages the length.
Damage ==
    /\ cdKind \in {"zlib", "snappy"} /\ cdIn.packed
    /\ \E n \in 0..MaxText : cdIn' = [cdIn EXCEPT !.len = n]
    /\ UNCHANGED <<cdKind, cdKey, cdMode, cdOut>> /\ cdRet' = "none" /\ cdWas' = Nothing

----------------------------------------------------------------------------
\* AES_encrypt and AES_decrypt
Encrypt(k, b) == <<(b[1] + b[2] + k) % Size, (b[2] + k) % Size>>
Decrypt(k, c) == LET b2 == (c[2] - k) % Size IN <<(c[1] - b2 - k) % Size, b2>>

Blocks(s) == [i \in 1 .. Len(s) \div BlockSize |-> SubSeq(s, (i - 1) * BlockSize + 1, i * BlockSize)]
Encrypted(k, s) == FlattenSeq([i \in 1 .. Len(s) \div BlockSize |-> Encrypt(k, Blocks(s)[i])])
Decrypted(k, s) == FlattenSeq([i \in 1 .. Len(s) \div BlockSize |-> Decrypt(k, Blocks(s)[i])])

\* setKey, setIntensity and setKeyAndIntensity: the schedules of both directions are
\* made anew from the key and its intensity.
UpdateKeys(k) == cdKey' = k
SetKey(k) ==
    /\ cdKind = "aes" /\ Calls("key")
    /\ UpdateKeys(k) /\ UNCHANGED <<cdMode, cdOut>> /\ cdRet' = "none"

\* The last block is filled with the number of cells that fill it, a whole block
\* when there is nothing to fill.
Fill(s) == LET n == BlockSize - (Len(s) % BlockSize) IN s \o [i \in 1..n |-> n]

\* The first from cells are copied as they are.
EncryptTemplate(from) ==
    /\ Len(cdIn.of) <= MaxText
    /\ IF Len(cdIn.of) < from
       THEN Return("false", cdOut)
       ELSE Return("true",
                [Text(SubSeq(cdIn.of, 1, from)
                        \o Encrypted(cdKey, Fill(SubSeq(cdIn.of, from + 1, Len(cdIn.of)))))
                    EXCEPT !.plain = cdIn.of, !.key = cdKey, !.from = from])

\* There is a last cell to look at: a text that ends at from is undefined without it.
DecryptTemplate(from) ==
    LET text == SubSeq(cdIn.of, from + 1, Len(cdIn.of))
        plain == SubSeq(cdIn.of, 1, from) \o Decrypted(cdKey, text)
        fill == plain[Len(plain)]
    IN  /\ Len(cdIn.of) > 0
        /\ IF Len(cdIn.of) < from \/ Len(text) % BlockSize # 0
           THEN Return("false", cdOut)
           ELSE IF fill = 0 \/ fill > BlockSize
           THEN Return("false", Text(plain))
           ELSE fill <= Len(plain) /\ Return("true", Text(SubSeq(plain, 1, Len(plain) - fill)))

\* encrypt and decrypt of a vector or a string.
Aes(from) ==
    /\ cdKind = "aes" /\ Same
    /\ \/ CallsFrom("encrypt", from) /\ EncryptTemplate(from)
       \/ CallsFrom("decrypt", from) /\ DecryptTemplate(from)

----------------------------------------------------------------------------
\* init does nothing to a converter in use, and iconv_open may not know the charsets.
InitConvert(mode) ==
    /\ cdKind = "iconv" /\ Calls("init")
    /\ \/ cdMode = "none" /\ cdMode' = mode /\ cdRet' = "true"
       \/ cdMode' = cdMode /\ cdRet' = "false"
    /\ UNCHANGED <<cdKey, cdOut>>

\* iconv, once: what it converts, stopping before a bad cell or when its output is full.
FirstBad(s) == Min({i \in 1 .. Len(s) : s[i] = Bad /\ cdMode = "normal"} \cup {Len(s) + 1})
Takes(s) == Min({FirstBad(s) - 1, Chunk})
Converted(s) ==
    LET kept == SelectSeq(s, LAMBDA c : c # Bad \/ cdMode = "translit")
    IN  [i \in 1 .. Len(kept) |-> (kept[i] + 1) % Size]

\* The loop: chunk after chunk until nothing is left or iconv cannot proceed.
ConvertLoop(in, out) ==
    LET done[n \in 0 .. Len(in)] ==
            LET rest == SubSeq(in, n + 1, Len(in))
            IN  IF Takes(rest) = 0 THEN n ELSE done[n + Takes(rest)]
    IN  [left |-> Len(in) - done[0], out |-> out \o Converted(SubSeq(in, 1, done[0]))]

Convert ==
    LET loop == ConvertLoop(cdIn.of, cdOut.of)
    IN  /\ cdKind = "iconv" /\ Calls("convert") /\ Same
        /\ Len(cdIn.of) + Len(cdOut.of) <= 2 * MaxText
        /\ IF cdMode = "none" THEN Return("false", cdOut)
           ELSE Return(IF loop.left = 0 THEN "true" ELSE "false", Text(loop.out))

----------------------------------------------------------------------------
Next ==
    \/ Trade \/ Zlib \/ Lzo \/ QuickLZ \/ Snappy \/ Damage \/ Convert
    \/ \E k \in CdKey : SetKey(k)
    \/ \E from \in 0..MaxText : Aes(from)
    \/ \E mode \in Modes : InitConvert(mode)

Spec == Init /\ [][Next]_cdVars

----------------------------------------------------------------------------
TypeOK ==
    /\ cdKey \in CdKey /\ cdMode \in Modes \cup {"none"}
    /\ \A b \in {cdIn, cdOut} : b.of \in Seq(Cell) /\ Len(b.of) <= 2 * MaxText + BlockSize
    /\ cdRet \in {"none", "true", "false"}

\* What is unpacked is what was packed, of the right size even when the length before
\* it is not: a wrong length is an error or makes no difference (compress_zlib.hh:134-152,
\* compress_lzo.hh:121-136, compress_quicklz.hh:148-160, compress_snappy.hh:95-105).
Unpacked == cdWas[1] = "decompress" /\ cdRet = "true" => cdIn.packed /\ cdOut.of = cdIn.of

\* Packing any text and then unpacking it succeeds, but for quicklz's empty text.
PackedReadable ==
    cdWas[1] = "decompress" /\ cdIn.packed /\ cdIn.len = Len(cdIn.of) => cdRet = "true"

\* What is decrypted with the key and from the place it was encrypted with is the text,
\* the filling gone; keys and calls in between make no difference (encrypt_aes.hh:161-202).
Deciphered ==
    cdWas = <<"decrypt", cdIn.from>> /\ cdIn.key = cdKey => cdRet = "true" /\ cdOut.of = cdIn.plain

\* A conversion is appended, all of it, and an error means there is a bad cell, before
\* which everything was converted (charset_convert.hh:150-171).
ConvertedWhole ==
    cdWas[1] = "convert" /\ cdMode # "none" =>
        /\ (cdRet = "true") <=> (FirstBad(cdIn.of) > Len(cdIn.of))
        /\ IsSuffix(Converted(SubSeq(cdIn.of, 1, FirstBad(cdIn.of) - 1)), cdOut.of)
=============================================================================
