----------------------------- MODULE ShmCreate -----------------------------
(***************************************************************************)
(* CPosixShmImpl::init and CSysvShmImpl::init: processes that map a        *)
(* segment by its name, creating it when it is not there.  smKind says     *)
(* which class they use.  smName is the segment the name stands for (0 for *)
(* none), smLen the length of each segment ever made.  smProc is where a   *)
(* process is: the segment it has open or mapped, the length it has read,  *)
(* whether it thinks it has created it, the last return value, and the     *)
(* number of bytes mapped.                                                 *)
(*                                                                         *)
(* Every system call may fail.  All processes ask for the same length, or  *)
(* for the length there is (0): with different lengths the truncation of   *)
(* line 59 could shorten a segment that has grown since line 54.           *)
(***************************************************************************)
EXTENDS Integers, Sequences, FiniteSets

CONSTANTS
    Proc,       \* processes
    ReadOnly,   \* those that map read-only
    Exact,      \* those that ask for SegLen bytes, not for what is there
    SegLen,     \* the bytes asked for
    MaxSeg      \* bound: segments made

VARIABLES smKind, smName, smLen, smProc

smVars == <<smKind, smName, smLen, smProc>>

Out(ret) == [pc |-> "out", seg |-> 0, real |-> 0, create |-> FALSE, ret |-> ret, sz |-> 0]

Init ==
    /\ smKind \in {"posix", "sysv"}
    /\ smName = 0
    /\ smLen = <<>>
    /\ smProc = [p \in Proc |-> Out(0)]

Wants(p) == IF p \in Exact THEN SegLen ELSE 0
Set(p, r) == smProc' = [smProc EXCEPT ![p] = r]
At(p, pc) == smKind = "posix" /\ smProc[p].pc = pc
Fail(p) == Set(p, Out(-1)) /\ UNCHANGED <<smKind, smName, smLen>>

\* What a name stands for: opened with the flag to create it, it is made if it is not
\* there; unlinked, it stands for nothing.
MadeIfMissing(len) ==
    IF smName # 0
    THEN smName' = smName /\ smLen' = smLen
    ELSE Len(smLen) < MaxSeg /\ smName' = Len(smLen) + 1 /\ smLen' = Append(smLen, len)
Unlinked == smName' = 0

\* The size of the array, which its object keeps: what was asked for, or what there is.
ArraySize(p) == IF Wants(p) = 0 THEN smProc[p].real ELSE Wants(p)

----------------------------------------------------------------------------
\* The POSIX segment.  Open without O_CREAT first.
Open(p) ==
    /\ At(p, "out")
    /\ IF smName # 0
       THEN Set(p, [Out(0) EXCEPT !.pc = "length", !.seg = smName])
       ELSE Set(p, IF p \in ReadOnly THEN Out(-1) ELSE [Out(0) EXCEPT !.pc = "create"])
    /\ UNCHANGED <<smKind, smName, smLen>>

\* Open with O_CREAT, which also opens a segment that has appeared meanwhile.
Create(p) ==
    /\ At(p, "create")
    /\ MadeIfMissing(0)
    /\ Set(p, [smProc[p] EXCEPT !.pc = "length", !.seg = smName', !.create = TRUE])
    /\ UNCHANGED smKind

ReadLength(p) ==
    /\ At(p, "length")
    /\ Set(p, [smProc[p] EXCEPT !.pc = "truncate", !.real = smLen[smProc[p].seg]])
    /\ UNCHANGED <<smKind, smName, smLen>>

\* Only a segment that was too short is made longer; a failure here leaves the file.
Truncate(p) ==
    /\ At(p, "truncate")
    /\ smProc[p].real < Wants(p) => p \notin ReadOnly
    /\ smLen' = IF smProc[p].real < Wants(p) THEN [smLen EXCEPT ![smProc[p].seg] = Wants(p)] ELSE smLen
    /\ Set(p, [smProc[p] EXCEPT !.pc = "map", !.sz = ArraySize(p)])
    /\ UNCHANGED <<smKind, smName>>

\* mmap, not of 0 bytes.
Map(p) ==
    /\ At(p, "map") /\ smProc[p].sz > 0
    /\ Set(p, [smProc[p] EXCEPT !.pc = "mapped", !.ret = IF smProc[p].create THEN 1 ELSE 0])
    /\ UNCHANGED <<smKind, smName, smLen>>

\* When the mapping fails, who has opened with O_CREAT removes the name again.
MapFails(p) ==
    /\ At(p, "map")
    /\ Set(p, Out(-1))
    /\ IF smProc[p].create THEN Unlinked ELSE smName' = smName
    /\ UNCHANGED <<smKind, smLen>>

CallFails(p) == smKind = "posix" /\ smProc[p].pc \in {"create", "length", "truncate"} /\ Fail(p)

----------------------------------------------------------------------------
\* The System V segment: made with its length; one that is longer than the segment
\* there is cannot be had.
Get(p) ==
    LET fits == smName # 0 /\ SegLen <= smLen[smName]
    IN  /\ smKind = "sysv" /\ smProc[p].pc = "out"
        /\ Set(p, IF fits THEN [Out(0) EXCEPT !.pc = "attach", !.seg = smName]
                  ELSE IF p \in ReadOnly THEN Out(-1) ELSE [Out(0) EXCEPT !.pc = "get"])
        /\ UNCHANGED <<smKind, smName, smLen>>

\* shmget once more, with IPC_CREAT.
GetCreate(p) ==
    /\ smKind = "sysv" /\ smProc[p].pc = "get"
    /\ MadeIfMissing(SegLen)
    /\ Set(p, [smProc[p] EXCEPT !.pc = "attach", !.seg = smName', !.create = TRUE])
    /\ UNCHANGED smKind

Attach(p) ==
    /\ smKind = "sysv" /\ smProc[p].pc = "attach"
    /\ Set(p, [smProc[p] EXCEPT !.pc = "mapped", !.sz = SegLen, !.ret = IF smProc[p].create THEN 1 ELSE 0])
    /\ UNCHANGED <<smKind, smName, smLen>>

AttachFails(p) ==
    /\ smKind = "sysv" /\ smProc[p].pc = "attach"
    /\ Set(p, Out(-1))
    /\ smName' = IF smProc[p].create /\ smName = smProc[p].seg THEN 0 ELSE smName
    /\ UNCHANGED <<smKind, smLen>>

----------------------------------------------------------------------------
\* setDeleted: the POSIX name is removed, whatever it stands for by now.
SetDeleted(p) ==
    /\ smProc[p].pc = "mapped"
    /\ IF smKind = "posix" \/ smName = smProc[p].seg THEN Unlinked ELSE smName' = smName
    /\ UNCHANGED <<smKind, smLen, smProc>>

\* uninit, or the death of the process at any point.
Leave(p) ==
    /\ smProc[p].pc # "out"
    /\ Set(p, Out(0))
    /\ UNCHANGED <<smKind, smName, smLen>>

Next ==
    \E p \in Proc :
        \/ Open(p) \/ Create(p) \/ ReadLength(p) \/ Truncate(p) \/ Map(p) \/ MapFails(p) \/ CallFails(p)
        \/ Get(p) \/ GetCreate(p) \/ Attach(p) \/ AttachFails(p)
        \/ SetDeleted(p) \/ Leave(p)

Spec == Init /\ [][Next]_smVars

----------------------------------------------------------------------------
TypeOK ==
    /\ smName \in 0..MaxSeg
    /\ \A p \in Proc : smProc[p].seg \in 0..Len(smLen) /\ smProc[p].ret \in {-1, 0, 1}

\* However the processes race and fail, whoever has mapped a segment has no more
\* bytes than it has, so that no access is beyond its end, and as many as asked for;
\* who maps read-only is never told that it has created it
\* (impl/posix_shm_impl.hh:38-74, impl/sysv_shm_impl.hh:36-70).
MappedWithinSegment ==
    \A p \in Proc : smProc[p].pc = "mapped" =>
        /\ smProc[p].sz <= smLen[smProc[p].seg] /\ smProc[p].sz > 0
        /\ p \in Exact => smProc[p].sz = SegLen
        /\ p \in ReadOnly => smProc[p].ret = 0
=============================================================================
