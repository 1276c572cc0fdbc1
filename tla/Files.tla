-------------------------------- MODULE Files -------------------------------
(***************************************************************************)
(* IFileDesc and CFile (file.hh): objects that own a descriptor, the open  *)
(* files that descriptors share after a copy, and the names of a directory.*)
(* A file is its length, a buffer its size.  The system calls are external *)
(* and may fail; read and write may do less than they are told.  block,     *)
(* which sets a flag of the open file, is left out.                        *)
(***************************************************************************)
EXTENDS Integers, FiniteSetsExt, Functions

CONSTANTS
    File,       \* CFile objects
    Name,       \* names of the directory
    MaxFd,      \* descriptors of the process
    MaxIno,     \* files, with and without a name
    MaxLen      \* bound of lengths, positions and buffers

VARIABLES
    fiFd,       \* fd_ of each object, 0 if it is not valid
    fiDesc,     \* the open file of each descriptor, 0 if it is closed
    fiOpen,     \* open files
    fiName,     \* the file of each name, 0 if there is none
    fiLen,      \* lengths of the files
    fiBuf,      \* size of the buffer that is read into
    fiLost      \* descriptors left open that no object knows

fiVars == <<fiFd, fiDesc, fiOpen, fiName, fiLen, fiBuf, fiLost>>
disk == <<fiName, fiLen>>

Fds == 1..MaxFd
Inos == 1..MaxIno
NoFile == [ino |-> 0, pos |-> 0]

Init ==
    /\ fiFd = [f \in File |-> 0]
    /\ fiDesc = [d \in Fds |-> 0]
    /\ fiOpen = [o \in Fds |-> NoFile]
    /\ fiName = [n \in Name |-> 0]
    /\ fiLen = [i \in Inos |-> 0]
    /\ fiBuf = 0
    /\ fiLost = {}

Valid(f) == fiFd[f] # 0
At(f) == fiDesc[fiFd[f]]
Pos(f) == fiOpen[At(f)].pos

\* length, -1 without a file
Length(f) == IF Valid(f) THEN fiLen[fiOpen[At(f)].ino] ELSE -1

\* filename: where the link of the descriptor leads, nowhere if the name was removed.
Filename(f) == IF Valid(f) THEN {n \in Name : fiName[n] = fiOpen[At(f)].ino} ELSE {}
Deleted(f) == Valid(f) /\ Filename(f) = {}

\* An open file goes with its last descriptor.
Kept(desc, open) == [o \in Fds |-> IF o \in Range(desc) THEN open[o] ELSE NoFile]
\* The space of a file that has neither a name nor a descriptor is free again.
Held(name, open) == [i \in Inos |-> IF i \in Range(name) \/ (\E o \in Fds : open[o].ino = i) THEN fiLen[i] ELSE 0]
Closed(f) == IF Valid(f) THEN [fiDesc EXCEPT ![fiFd[f]] = 0] ELSE fiDesc

----------------------------------------------------------------------------
\* close
Close(f) ==
    /\ fiFd' = [fiFd EXCEPT ![f] = 0]
    /\ fiDesc' = Closed(f)
    /\ fiOpen' = Kept(Closed(f), fiOpen)
    /\ fiLen' = Held(fiName, fiOpen')
    /\ UNCHANGED <<fiName, fiBuf, fiLost>>

\* open: what was open is closed first, whatever becomes of the new file.
Open(f, n, create, trunc) ==
    LET left == Kept(Closed(f), fiOpen)
        free == {d \in Fds : Closed(f)[d] = 0}
        unused == {i \in Inos : i \notin Range(fiName) /\ \A o \in Fds : left[o].ino # i}
        old == fiName[n]
        o == Min({x \in Fds : left[x] = NoFile})
    IN  /\ free # {} /\ (old # 0 \/ (create /\ unused # {}))
        /\ LET i == IF old # 0 THEN old ELSE Min(unused)
           IN  /\ fiOpen' = [left EXCEPT ![o] = [ino |-> i, pos |-> 0]]
               /\ fiName' = [fiName EXCEPT ![n] = i]
               /\ fiLen' = [Held(fiName', fiOpen') EXCEPT ![i] = IF trunc \/ old = 0 THEN 0 ELSE @]
        /\ fiFd' = [fiFd EXCEPT ![f] = Min(free)]
        /\ fiDesc' = [Closed(f) EXCEPT ![Min(free)] = o]
        /\ UNCHANGED <<fiBuf, fiLost>>

OpenFails(f) == Close(f)

\* copyFrom: a valid object keeps its number, which then means the other's file.
CopyFrom(f, g) ==
    IF ~Valid(g) THEN Close(f)
    ELSE /\ IF ~Valid(f)
            THEN LET free == {d \in Fds : fiDesc[d] = 0}
                 IN  /\ free # {}
                     /\ fiFd' = [fiFd EXCEPT ![f] = Min(free)]
                     /\ fiDesc' = [fiDesc EXCEPT ![Min(free)] = At(g)]
            ELSE fiFd' = fiFd /\ fiDesc' = [fiDesc EXCEPT ![fiFd[f]] = At(g)]
         /\ fiOpen' = Kept(fiDesc', fiOpen)
         /\ fiLen' = Held(fiName, fiOpen')
         /\ UNCHANGED <<fiName, fiBuf, fiLost>>

\* dup or dup2 fails: fd_ is -1, and what was open stays so.
CopyFails(f, g) ==
    /\ Valid(g) /\ fiLost = {}    \* one lost descriptor shows as much as many
    /\ fiFd' = [fiFd EXCEPT ![f] = 0]
    /\ fiLost' = fiLost \cup ({fiFd[f]} \ {0})
    /\ UNCHANGED <<fiDesc, fiOpen, disk, fiBuf>>

\* readData with n bytes read, or -1 if read failed.
Read(f, size, n, append) ==
    LET from == IF append THEN fiBuf ELSE 0
        came == IF n > 0 THEN n ELSE 0
    IN  /\ Valid(f) /\ from + size <= MaxLen
        /\ n <= size /\ (n > 0 => n <= Length(f) - Pos(f))
        /\ fiBuf' = from + came
        /\ fiOpen' = [fiOpen EXCEPT ![At(f)].pos = @ + came]
        /\ UNCHANGED <<fiFd, fiDesc, disk, fiLost>>

\* write, n bytes of it done
Write(f, n) ==
    LET end == Pos(f) + n
    IN  /\ Valid(f) /\ end <= MaxLen
        /\ fiLen' = IF n > 0 /\ end > Length(f) THEN [fiLen EXCEPT ![fiOpen[At(f)].ino] = end] ELSE fiLen
        /\ fiOpen' = [fiOpen EXCEPT ![At(f)].pos = end]
        /\ UNCHANGED <<fiFd, fiDesc, fiName, fiBuf, fiLost>>

\* seek, from the beginning, the position or the end
Seek(f, offset, whence) ==
    LET pos == offset + CASE whence = "set" -> 0 [] whence = "cur" -> Pos(f) [] whence = "end" -> Length(f)
    IN  /\ Valid(f) /\ pos \in 0..MaxLen
        /\ fiOpen' = [fiOpen EXCEPT ![At(f)].pos = pos]
        /\ UNCHANGED <<fiFd, fiDesc, disk, fiBuf, fiLost>>

Truncate(f, len) ==
    /\ Valid(f)
    /\ fiLen' = [fiLen EXCEPT ![fiOpen[At(f)].ino] = len]
    /\ UNCHANGED <<fiFd, fiDesc, fiOpen, fiName, fiBuf, fiLost>>

\* unlink and rename of an object go by the name of its file.
Unlink(f) ==
    /\ \E n \in Filename(f) : fiName' = [fiName EXCEPT ![n] = 0]
    /\ UNCHANGED <<fiFd, fiDesc, fiOpen, fiLen, fiBuf, fiLost>>

Rename(f, new) ==
    /\ \E n \in Filename(f) : fiName' = [[fiName EXCEPT ![n] = 0] EXCEPT ![new] = fiName[n]]
    /\ fiLen' = Held(fiName', fiOpen)
    /\ UNCHANGED <<fiFd, fiDesc, fiOpen, fiBuf, fiLost>>

Next == \E f \in File :
    \/ Close(f) \/ OpenFails(f)
    \/ \E n \in Name, create, trunc \in BOOLEAN : Open(f, n, create, trunc)
    \/ \E g \in File : CopyFrom(f, g) \/ CopyFails(f, g)
    \/ \E size \in 1..MaxLen, append \in BOOLEAN : \E n \in -1..size : Read(f, size, n, append)
    \/ \E n \in 0..1 : Write(f, n)
    \/ \E s \in {<<0, "set">>, <<1, "cur">>, <<0, "end">>} : Seek(f, s[1], s[2])
    \/ \E len \in {0, MaxLen} : Truncate(f, len)
    \/ Unlink(f)
    \/ \E n \in Name : Rename(f, n)

Spec == Init /\ [][Next]_fiVars

----------------------------------------------------------------------------
TypeOK ==
    /\ fiFd \in [File -> 0..MaxFd] /\ fiDesc \in [Fds -> 0..MaxFd]
    /\ fiOpen \in [Fds -> [ino : 0..MaxIno, pos : 0..MaxLen]]
    /\ fiName \in [Name -> 0..MaxIno] /\ fiLen \in [Inos -> 0..MaxLen]
    /\ fiBuf \in 0..MaxLen /\ fiLost \subseteq Fds

\* Every open descriptor belongs to one object, the objects' descriptors are open, and
\* none is forgotten but by a copy that fails (file.hh:408-415).
DescriptorsOwned ==
    /\ \A f \in File : Valid(f) => fiDesc[fiFd[f]] # 0 /\ fiFd[f] \notin fiLost
    /\ \A f, g \in File : Valid(f) /\ f # g => fiFd[f] # fiFd[g]
    /\ \A d \in Fds : fiDesc[d] # 0 => d \in Range(fiFd) \cup fiLost
    /\ \A d \in Fds : fiDesc[d] # 0 => fiOpen[fiDesc[d]].ino # 0
=============================================================================
