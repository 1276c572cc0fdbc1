---------------------------- MODULE CrashSymbols ----------------------------
(***************************************************************************)
(* What a crash report says of an address (tools/signal.hh): CReader,      *)
(* which reads a file through a small buffer, CMapsLine and CSymbolInfo,   *)
(* which look the address up in /proc/self/maps, in the tables of symbols  *)
(* of the file that is mapped there, and in the lines that objdump prints. *)
(* A step is one call of the reader or one round of another loop.          *)
(*                                                                         *)
(* A file is a sequence of characters to CReader, and its tables are       *)
(* sequences of entries; read gives any number of characters up to a chunk *)
(* and does not fail.  Maps keeps to what the code relies on: a dynamic    *)
(* file is mapped from its start, and a name fits NameSize.                *)
(***************************************************************************)
EXTENDS Integers, Sequences, SequencesExt, FiniteSetsExt

CONSTANTS
    Window,         \* size of a reader's buffer (1023)
    NameSize,       \* size of filename_ (1024)
    Batch,          \* entries of a table read at once (16 and 32)
    Maps,           \* the mappings: [start, end, access, name]
    Elf,            \* what the mapped files are: a function from names
    Chunks          \* characters that read gives at once

VARIABLES
    syCall,         \* the function that was called: symbol, code or stack
    syPc, syPhase,
    syReader,
    syField, syNums, syTexts,   \* the field of a line that is next, and what was read of it
    syName, syOffset,       \* filename_, mapOffset_
    syTable, syAt,          \* the table of symbols and the entry looked at
    sySymbol,               \* symname_
    syPrev,                 \* prev and prevfile
    syLine, sySource,       \* line_, srcfilename_
    syFound                 \* what isCode or getStackRange answers

syVars == <<syCall, syPc, syPhase, syReader, syField, syNums, syTexts, syName, syOffset, syTable, syAt, sySymbol, syPrev, syLine, sySource, syFound>>

----------------------------------------------------------------------------
\* CReader: buf is the data in the buffer, pos what was read of the text.
Reader(text) == [text |-> text, pos |-> 0, buf |-> <<>>, cur |-> 0, eof |-> FALSE, chunk |-> Max(Chunks)]
ReaderValid(r) == r.cur < Len(r.buf) \/ (r.cur = Len(r.buf) /\ ~r.eof)

\* readData: what is left moves to the front, and the room behind it is filled.
ReadData(r) ==
    LET kept == SubSeq(r.buf, r.cur + 1, Len(r.buf))
        n == Min({Window - Len(kept), r.chunk, Len(r.text) - r.pos})
    IN  [r EXCEPT !.buf = kept \o SubSeq(r.text, r.pos + 1, r.pos + n), !.pos = @ + n, !.cur = 0,
                  !.eof = @ \/ (n = 0 /\ Len(kept) < Window)]

Left(r) == Len(r.buf) - r.cur
EnsureChars(r, n) == IF ~ReaderValid(r) \/ n <= Left(r) THEN r ELSE ReadData(r)
HasChars(r, n) == ReaderValid(r) /\ n <= Left(EnsureChars(r, n))

Moved(r, n) == [EnsureChars(r, n) EXCEPT !.cur = @ + n]
PutBack(r) == [r EXCEPT !.cur = @ - 1]

GetChar(r) ==
    LET e == EnsureChars(r, 1)
    IN  IF ReaderValid(r) /\ Left(e) > 0
        THEN [r |-> Moved(e, 1), c |-> <<e.buf[e.cur + 1]>>] ELSE [r |-> e, c |-> <<>>]

\* The loops of getChar and putBack: characters up to a stop, the end, or max of them.
Readers == [text : Seq(STRING), pos : Nat, buf : Seq(STRING), cur : Nat, eof : BOOLEAN, chunk : Chunks]
Scan(first, Stop(_), max) ==
    LET read(r) == r.pos - Left(r)
        go[r \in Readers] ==
            LET one == GetChar(r)
                more == go[one.r]
            IN  IF read(r) - read(first) = max THEN [r |-> r, got |-> <<>>]
                ELSE IF one.c = <<>> THEN [r |-> one.r, got |-> <<>>]
                ELSE IF Stop(one.c[1]) THEN [r |-> PutBack(one.r), got |-> <<>>]
                ELSE [more EXCEPT !.got = one.c \o @]
    IN  go[first]

\* What a call of the reader makes of it: [r, ok, nums, texts].
Gives(r, ok) == [r |-> r, ok |-> ok, nums |-> <<>>, texts |-> <<>>]

Digits == <<"0", "1", "2", "3", "4", "5", "6", "7", "8", "9", "a", "b", "c", "d", "e", "f">>
DigitValue(c) == (CHOOSE i \in DOMAIN Digits : Digits[i] = c) - 1

\* getHex and getDec
Number(r, base) ==
    LET s == Scan(r, LAMBDA c : c \notin {Digits[i] : i \in 1..base}, Len(r.text))
    IN  [Gives(s.r, s.got # <<>>) EXCEPT
            !.nums = <<FoldLeft(LAMBDA n, c : n * base + DigitValue(c), 0, s.got)>>]

\* skip, skipSpace, skipUntil and getBuf
SkipChars(r, n) == Gives(IF HasChars(r, n) THEN Moved(r, n) ELSE EnsureChars(r, n), HasChars(r, n))
SkipSpace(r) == Gives(Scan(r, LAMBDA c : c # " ", Len(r.text)).r, ReaderValid(r))
SkipUntil(r, end) == Gives(Scan(r, LAMBDA c : c = end, Len(r.text)).r, TRUE)
GetBuf(r, max, end) == LET s == Scan(r, LAMBDA c : c = end, max) IN [Gives(s.r, TRUE) EXCEPT !.texts = <<s.got>>]
Whole(s, len) == [s EXCEPT !.ok = Len(s.texts[1]) = len]

\* The calls of CMapsLine::parse, and those of sourceAndLine.
MapsFields == <<"hex", "skip", "hex", "space", "access", "space", "hex", "space", "device", "space", "dec", "space", "name", "skip">>
LineFields == <<"file", "space", "dec", "space", "skip 2", "hex", "rest", "skip">>
AccessLen == 4
DeviceLen == 5
Field(r, call) ==
    CASE call = "hex" -> Number(r, 16)
      [] call = "dec" -> Number(r, 10)
      [] call = "skip" -> SkipChars(r, 1)
      [] call = "skip 2" -> SkipChars(r, 2)
      [] call = "space" -> SkipSpace(r)
      [] call = "access" -> Whole(GetBuf(r, AccessLen, ""), AccessLen)
      [] call = "device" -> Whole(GetBuf(r, DeviceLen, ""), DeviceLen)
      [] call = "name" -> IF syCall = "code" THEN SkipUntil(r, "\n") ELSE GetBuf(r, NameSize, "\n")
      [] call = "file" -> GetBuf(r, NameSize, " ")
      [] call = "rest" -> SkipUntil(r, "\n")

----------------------------------------------------------------------------
\* The texts of the files: the kernel's and objdump's formats.
Hex2(n) == <<Digits[n \div 16 + 1], Digits[(n % 16) + 1]>>
MapsText == FlattenSeq([i \in DOMAIN Maps |->
    Hex2(Maps[i].start) \o <<"-">> \o Hex2(Maps[i].end) \o <<" ">> \o Maps[i].access
        \o <<" ", "0", " ", "f", "d", ":", "0", "1", " ", "7", " ", " ">> \o Maps[i].name \o <<"\n">>])
LinesText(lines) == FlattenSeq([i \in DOMAIN lines |->
    lines[i].file \o <<" ", " ", Digits[lines[i].line + 1], " ", "0", "x">> \o Hex2(lines[i].addr) \o <<"\n">>])

Sought == Elf[syName]
Init ==
    /\ syCall = "none" /\ syPc = 0 /\ syPhase = "done"
    /\ syReader = Reader(<<>>) /\ syField = 1 /\ syNums = <<>> /\ syTexts = <<>> /\ syName = <<>> /\ syOffset = 0 /\ syTable = "symtab" /\ syAt = 0
    /\ sySymbol = "" /\ syPrev = [line |-> 0, file |-> <<>>] /\ syLine = 0 /\ sySource = <<>> /\ syFound = <<>>

KeepMaps == UNCHANGED <<syCall, syPc, syName, syOffset, syFound>>
KeepReader == UNCHANGED <<syReader, syField, syNums, syTexts>>
KeepSymbol == UNCHANGED <<syTable, syAt, sySymbol>>
KeepLine == UNCHANGED <<syPrev, syLine, sySource>>

\* symbolize resets everything; isCode and getStackRange only read the maps.
Call(call, pc) ==
    /\ syPhase = "done" /\ syCall = "none"
    /\ syCall' = call /\ syPc' = pc
    /\ syPhase' = "maps" /\ syReader' = Reader(MapsText)
    /\ UNCHANGED <<syField, syNums, syTexts, syName, syOffset, syFound>> /\ KeepSymbol /\ KeepLine

Took(s) == syReader' = s.r /\ syNums' = syNums \o s.nums /\ syTexts' = syTexts \o s.texts
NextLine == syField' = 1 /\ syNums' = <<>> /\ syTexts' = <<>>

Answer(name, found) ==
    /\ syPhase' = "done" /\ syName' = name /\ syFound' = found
    /\ NextLine /\ UNCHANGED <<syReader, syOffset>>

\* A field of a line of the maps; a line that cannot be read ends the search.
MapsField(chunk) ==
    /\ syPhase = "maps" /\ syField <= Len(MapsFields)
    /\ \E s \in {Field([syReader EXCEPT !.chunk = chunk], MapsFields[syField])} :
          IF (~ReaderValid(syReader) /\ syField = 1) \/ ~s.ok
          THEN Answer(<<>>, <<>>)
          ELSE Took(s) /\ syField' = syField + 1 /\ UNCHANGED <<syPhase, syName, syOffset, syFound>>
    /\ UNCHANGED <<syCall, syPc>> /\ KeepSymbol /\ KeepLine

Inside == syNums[1] <= syPc /\ syPc < syNums[2]
Executable == <<"r", "-", "x", "p">>
Stack == <<"[", "s", "]">>
Wanted ==
    CASE syCall = "symbol" -> Inside
      [] syCall = "code" -> Inside /\ syTexts[1] = Executable
      [] syCall = "stack" -> syTexts[3] = Stack

\* The line was read: the rest of a round of searchMaps, isCode or getStackRange.
MapsLine ==
    /\ syPhase = "maps" /\ syField > Len(MapsFields)
    /\ IF ~Wanted THEN NextLine /\ UNCHANGED <<syPhase, syReader, syName, syOffset, syFound>>
       ELSE IF syCall # "symbol" THEN Answer(syName, <<syNums[1], syNums[2]>>)
       ELSE /\ syName' = syTexts[3] /\ syOffset' = syNums[1]
            /\ syPhase' = IF syTexts[3] \in DOMAIN Elf THEN "head" ELSE "done"
            /\ NextLine /\ UNCHANGED <<syReader, syFound>>
    /\ UNCHANGED <<syCall, syPc>> /\ KeepSymbol /\ KeepLine

\* The head of the file, and its section 0.
ReadHead ==
    /\ syPhase = "head"
    /\ syPhase' = IF Sought.elf THEN "sections" ELSE "done"
    /\ KeepReader /\ KeepMaps /\ KeepSymbol /\ KeepLine

\* A table is not there, or has no such symbol: on to the next one.
NextTable ==
    /\ syAt' = 0 /\ UNCHANGED sySymbol
    /\ IF syTable = "symtab" THEN syTable' = "dynsym" /\ syPhase' = "sections"
                             ELSE UNCHANGED syTable /\ syPhase' = "done"

\* A round of a loop over a table: entries from syAt on, a batch at most.  A file that
\* ends before its table gives none, and the round is repeated for ever.
Round(table) == {i \in syAt + 1 .. syAt + Batch : i <= Len(table)}

\* getSectionEntryOfType
SectionBatch ==
    LET hits == {i \in Round(Sought.sections) : Sought.sections[i] = syTable}
    IN  /\ syPhase = "sections"
        /\ IF hits # {} THEN syPhase' = "symbols" /\ syAt' = 0 /\ UNCHANGED <<syTable, sySymbol>>
           ELSE IF syAt >= Len(Sought.sections) THEN NextTable
           ELSE syAt' = syAt + Cardinality(Round(Sought.sections)) /\ UNCHANGED <<syPhase, syTable, sySymbol>>
        /\ KeepReader /\ KeepMaps /\ KeepLine

\* searchInSymTable: symbols of size 0 are exact, those without a value are left out.
HasAddress(s, pc) ==
    LET addr == s.value + IF Sought.dyn THEN syOffset ELSE 0
    IN  /\ s.value # 0
        /\ (s.size > 0 /\ addr <= pc /\ pc < addr + s.size) \/ (s.size = 0 /\ addr = pc)

SymbolBatch ==
    LET table == Sought[syTable]
        hits == {i \in Round(table) : HasAddress(table[i], syPc)}
    IN  /\ syPhase = "symbols"
        /\ IF hits # {} THEN /\ sySymbol' = table[Min(hits)].name
                             /\ syPhase' = "source" /\ UNCHANGED <<syTable, syAt>>
           ELSE IF syAt >= Len(table) THEN NextTable
           ELSE syAt' = syAt + Cardinality(Round(table)) /\ UNCHANGED <<syPhase, syTable, sySymbol>>
        /\ KeepReader /\ KeepMaps /\ KeepLine

\* sourceAndLine runs objdump, which may not be there.
Objdump ==
    /\ syPhase = "source"
    /\ \/ syPhase' = "done" /\ UNCHANGED syReader
       \/ syPhase' = "lines" /\ syReader' = Reader(LinesText(Sought.lines))
    /\ UNCHANGED <<syField, syNums, syTexts>> /\ KeepMaps /\ KeepSymbol /\ KeepLine

Off == syPc - IF Sought.dyn THEN syOffset ELSE 0

\* A field of one of its lines; the rest is skipped when a field cannot be read.
Rest == Len(LineFields) - 1
SourceField(chunk) ==
    /\ syPhase = "lines" /\ syField < Rest
    /\ \E s \in {Field([syReader EXCEPT !.chunk = chunk], LineFields[syField])} :
          IF ~ReaderValid(syReader) /\ syField = 1
          THEN syPhase' = "done" /\ KeepReader
          ELSE /\ Took(s) /\ UNCHANGED syPhase
               /\ syField' = IF s.ok /\ (syField = 1 => s.texts[1] # <<>>) THEN syField + 1 ELSE Rest + 1
    /\ KeepMaps /\ KeepSymbol /\ KeepLine

LineNo == IF Len(syNums) > 0 THEN syNums[1] ELSE syPrev.line

\* The first line that is not below the address ends the loop.
SourceLine ==
    /\ syPhase = "lines" /\ syField = Rest
    /\ IF Off <= syNums[2]
       THEN /\ syPhase' = "done" /\ UNCHANGED syField
            /\ syLine' = IF Off < syNums[2] THEN syPrev.line ELSE LineNo
            /\ sySource' = IF syLine' = 0 THEN <<>> ELSE IF Off < syNums[2] THEN syPrev.file ELSE syTexts[1]
       ELSE syField' = Rest + 1 /\ UNCHANGED <<syPhase, syLine, sySource>>
    /\ UNCHANGED <<syReader, syNums, syTexts, syPrev>> /\ KeepMaps /\ KeepSymbol

\* Another line: what was read of this one is kept, of a line of its own too.
SourceNext(chunk) ==
    /\ syPhase = "lines" /\ syField = Rest + 1
    /\ syPrev' = [line |-> LineNo, file |-> syTexts[1]]
    /\ \E s \in {SkipUntil([syReader EXCEPT !.chunk = chunk], "\n")} : syReader' = SkipChars(s.r, 1).r
    /\ NextLine /\ UNCHANGED <<syPhase, syLine, sySource>> /\ KeepMaps /\ KeepSymbol

Next ==
    \/ \E call \in {"symbol", "code", "stack"}, pc \in 1..Max({m.end : m \in Range(Maps)}) : Call(call, pc)
    \/ \E chunk \in Chunks : MapsField(chunk) \/ SourceField(chunk) \/ SourceNext(chunk)
    \/ MapsLine \/ SourceLine \/ ReadHead \/ SectionBatch \/ SymbolBatch \/ Objdump

Spec == Init /\ [][Next]_syVars

----------------------------------------------------------------------------
TypeOK ==
    /\ Len(syReader.buf) <= Window /\ syReader.cur \in 0 .. Len(syReader.buf)
    /\ Len(syName) < NameSize /\ syAt \in Nat /\ syLine \in Nat

\* Through a buffer of any size and reads of any length, what is read is the file in
\* order, nothing twice and nothing left out (signal.hh:153-196).
ReadsInOrder ==
    syReader.buf = SubSeq(syReader.text, syReader.pos - Len(syReader.buf) + 1, syReader.pos)

Over(call) == syPhase = "done" /\ syCall = call
Mapping(pc, Good(_)) == {m \in Range(Maps) : m.start <= pc /\ pc < m.end /\ Good(m)}

\* The maps say where the address is, whether it is code, and where the stack is
\* (signal.hh:198-231, 267-345).
MapsRight ==
    /\ Over("symbol") => {m.name : m \in Mapping(syPc, LAMBDA m : TRUE)} \subseteq {syName}
    /\ Over("code") => (syFound # <<>>) <=> (Mapping(syPc, LAMBDA m : m.access = Executable) # {})
    /\ Over("stack") => \A m \in Range(Maps) : m.name = Stack => syFound = <<m.start, m.end>>

\* The symbol found contains the address, and one is found if a table has it; the line
\* is the last one that does not lie behind the address (signal.hh:370-438, 448-490).
SymbolRight ==
    Over("symbol") /\ syName \in DOMAIN Elf =>
        LET all == UNION {Range(Sought[t]) : t \in {u \in {"symtab", "dynsym"} : u \in Range(Sought.sections)}}
            here == {s \in all : HasAddress(s, syPc)}
        IN  /\ sySymbol # "" => \E s \in here : s.name = sySymbol
            /\ sySymbol = "" => ~Sought.elf \/ here = {}

LineRight ==
    syLine # 0 => \E e \in Range(Sought.lines) :
        /\ e.line = syLine /\ e.file = sySource /\ e.addr <= Off
        /\ \A f \in Range(Sought.lines) : f.addr <= Off => f.addr <= e.addr
=============================================================================
