----------------------------- MODULE Components -----------------------------
(***************************************************************************)
(* The components through which threads and processes share something:     *)
(* counters in slots, segments of memory, locks, semaphores, a pool of     *)
(* threads and coroutines; and those that serve a process: daemons, files, *)
(* epoll, sockets and the log.  Each steps on its own, whatever the others *)
(* do.                                                                     *)
(***************************************************************************)
EXTENDS Integers, Sequences, FiniteSets

CONSTANTS
    Writer, Attr, Capacity, MaxGiven,           \* AttrStats
    Proc, ReadOnly, Exact, SegLen, MaxSeg,      \* ShmCreate
    LkThread, FileOf, MaxAttempts,              \* Locks
    SeProc, Sem, SemOps, SeMax, MaxSets,        \* Semaphores
    PoolSize,                                   \* ThreadPool
    Coro, Main,                                 \* Coroutines
    Program, Monitored, KRestart, KTimeout, DmMaxTime,     \* Daemons
    File, Name, MaxFd, MaxIno, MaxLen,                     \* Files
    EpFd, MaxEvents,                                       \* Epoll
    Addrs, Addrs6, Backlog, MaxData,                       \* Sockets
    LgThread, Pieces, MaxSize, MaxLogs, MaxLives, MaxFiles, MaxRemoved, MaxAgain, ReportSize  \* Logger

VARIABLES
    atAttr, atVal, atSite, atCall, atNext, atGiven, atTaken,
    smKind, smName, smLen, smProc,
    lkKind, lkHeld, lkGuard, lkTry,
    seKind, seName, seSet, seProc,
    tpThread, tpCancel, tpList, tpCnt, tpCall, tpJoined, tpDetached,
    coRun, coSaved, coLink, coFlags, coEnded,
    dmNow, dmMon, dmSrv, dmEnd, dmSem, dmSets,
    fiFd, fiDesc, fiOpen, fiName, fiLen, fiBuf, fiLost,
    epValid, epOpen, epSet, epReady, epData, epEvents, epAt,
    skSock, skPeer, skTold, skPending, skLink, skOut, skSent, skBuf, skKind,
    udp, udNet, udFrom, udBuf, udRet,
    lgMax, lgDir, lgText, lgFd, lgNamed, lgLock, lgThread, lgCrash, lgLives, lgNext, lgOk, lgRemoved, lgStuck

ASSUME StatsAssumption == Capacity \in Nat /\ 0 \notin Attr
ASSUME ShmAssumption == SegLen \in Nat \ {0} /\ MaxSeg \in Nat
ASSUME LockAssumption == MaxAttempts \in Nat
ASSUME SemaAssumption ==
    /\ IsFiniteSet(SeProc) /\ SeMax \in Nat /\ MaxSets \in Nat
    /\ \A ops \in SemOps : DOMAIN ops \subseteq Sem /\ \A s \in DOMAIN ops : ops[s] \in Int
ASSUME PoolAssumption == PoolSize \in Nat
ASSUME CoAssumption == Main \notin Coro /\ "none" \notin Coro \cup {Main}
ASSUME DaemonAssumption ==
    /\ IsFiniteSet(Program) /\ KRestart \in Nat /\ KRestart > 1 /\ KTimeout \in Nat
ASSUME SocketAssumption == "none" \notin Addrs /\ "auto" \notin Addrs
ASSUME FileAssumption == MaxFd \in Nat /\ MaxIno \in Nat /\ MaxLen \in Nat
ASSUME PollAssumption == MaxEvents \in Nat
ASSUME LogAssumption == Pieces \in Nat \ {0} /\ ReportSize \in Nat /\ "none" \notin LgThread

Stats == INSTANCE AttrStats
Shm == INSTANCE ShmCreate
Lock == INSTANCE Locks
Sema == INSTANCE Semaphores
Pool == INSTANCE ThreadPool
Co == INSTANCE Coroutines
Daemon == INSTANCE Daemons
Files == INSTANCE Files
Poll == INSTANCE Epoll
Sock == INSTANCE Sockets
Log == INSTANCE Logger

SharingSpec ==
    /\ Stats!Spec /\ Shm!Spec /\ Lock!Spec /\ Sema!Spec /\ Pool!Spec /\ Co!Spec

ServicesSpec == Daemon!Spec /\ Files!Spec /\ Poll!Spec /\ Sock!Spec /\ Log!Spec

----------------------------------------------------------------------------
\* Between threads and processes: no count is lost, nobody has more of a segment than
\* there is, locks exclude, what a dead process had of a semaphore is there again,
\* nobody runs in a joined pool, and coroutines yield to who waits for them.
SharingOK ==
    /\ Stats!NoCountLost
    /\ Shm!MappedWithinSegment
    /\ Lock!GuardsExclude
    /\ Sema!NothingLost
    /\ Pool!JoinedIsStopped
    /\ Co!YieldReturns

\* For a process: logged messages are whole and in order, the oldest files are dropped
\* first and one thread reports a crash; every descriptor has its owner, no edge is
\* lost, sockets are connected to whom they say and tear nothing; no more daemons run
\* than calls set their semaphore, and one is not started again too often.
ServicesOK ==
    /\ Log!WholeMessages /\ Log!OldestDropped /\ Log!OrderKept /\ Log!NobodyWaitsForEver
    /\ Files!DescriptorsOwned
    /\ Poll!NoEdgeLost
    /\ Sock!PeerIsPeer /\ Sock!NothingTorn /\ Sock!FromIsSender
    /\ Daemon!OnePerSetVal /\ Daemon!RestartsBounded
=============================================================================
