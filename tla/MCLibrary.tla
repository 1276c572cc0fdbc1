----------------------------- MODULE MCLibrary ------------------------------
(***************************************************************************)
(* The components that work alone, one instance of each: in a behaviour    *)
(* one of them runs, and the others stay as they began.  TLC so checks all *)
(* of them in one run.  Components and Bookkeeping have the instances of   *)
(* those that are proved about.                                            *)
(***************************************************************************)
EXTENDS Components, Bookkeeping, TLC, Bitwise

VARIABLES
    focus,      \* the component that runs
    cbMem, cbSize, cbText, cbThrown, out, in, script, got, phase, edits, slState, slHead,
    slText, htBuf, htValid, htText, htLossy, chRing, chPos, odOut, odIn, odSent, odScript,
    odGot, saAddr, saCall, cdKind, cdKey, cdMode, cdIn, cdOut, cdRet, cdWas, syCall, syPc,
    syPhase, syReader, syField, syNums, syTexts, syName, syOffset, syTable, syAt, sySymbol,
    syPrev, syLine, sySource, syFound

Item == INSTANCE ByteStream WITH HostLittle <- TRUE
Items ==
    {Item!Pod(2, 258), Item!Raw(2, <<1, 515>>), Item!Array("string", 1, 1, <<7, 8>>),
     Item!Array("list", 2, 2, <<258>>), Item!Array("ptr", 1, 2, <<3, 4>>), Item!Array("list", 1, 1, <<>>),
     Item!Varint(2, TRUE, -200), Item!Varint(1, FALSE, 200), Item!Varint(4, FALSE, 70000)}
Pairs == (0 .. 3) \X (0 .. 3)
BitsOr == [p \in Pairs |-> p[1] | p[2]]
BitsAnd == [p \in Pairs |-> p[1] & p[2]]
BitsXor == [p \in Pairs |-> p[1] ^^ p[2]]
Operations == {<<>>, (0 :> -1), (0 :> 1), (0 :> -1 @@ 1 :> -1), (0 :> 1 @@ 1 :> 1), (1 :> 0)}
LockFiles == ("a" :> "f" @@ "b" :> "g" @@ "c" :> "g" @@ "d" :> "h")
Hashes == (5 :> 5 @@ 6 :> 35 @@ 7 :> 14)
OldPlain == {Item!Pod(2, 258), Item!Varint(2, TRUE, -200), Item!Varint(1, FALSE, 200)}
OldRaws == {<<2, <<1, 515>>>>}
OldArrays == {<<"string", 1, 1, <<7, 8>>>>, <<"list", 2, 2, <<258>>>>}
HostAddrs == ("" :> {} @@ "n" :> {<<4, "a">>, <<6, "b">>} @@ "eth" :> {} @@ "bad" :> {})
ServPorts == ("80" :> <<0, 80>> @@ "0" :> <<0, 0>>)
Access(s) == <<"r", "-", s, "p">>
Symbol(v, z, n) == [value |-> v, size |-> z, name |-> n]
Line(f, n, a) == [file |-> <<f>>, line |-> n, addr |-> a]
CrashMaps == <<
    [start |-> 16, end |-> 20, access |-> Access("x"), name |-> <<"a">>],
    [start |-> 20, end |-> 24, access |-> Access("w"), name |-> <<"a">>],
    [start |-> 32, end |-> 38, access |-> Access("x"), name |-> <<"b">>],
    [start |-> 38, end |-> 40, access |-> Access("x"), name |-> <<"c">>],
    [start |-> 40, end |-> 42, access |-> Access("w"), name |-> <<"[", "s", "]">>] >>
CrashElf ==
    (<<"a">> :> [elf |-> TRUE, dyn |-> FALSE, sections |-> <<"null", "text", "dynsym", "strtab", "symtab">>,
                 symtab |-> <<Symbol(0, 9, "z"), Symbol(18, 2, "main"), Symbol(17, 0, "mark")>>,
                 dynsym |-> <<Symbol(16, 1, "dyn")>>,
                 lines |-> <<Line("m", 1, 17), Line("m", 3, 18), Line("n", 2, 19)>>]
     @@ <<"b">> :> [elf |-> TRUE, dyn |-> TRUE, sections |-> <<"null", "dynsym">>, symtab |-> <<>>,
                    dynsym |-> <<Symbol(0, 0, "zero"), Symbol(1, 2, "f"), Symbol(4, 2, "g")>>,
                    lines |-> <<Line("p", 4, 1), Line("p", 5, 4), Line("q", 6, 5)>>]
     @@ <<"c">> :> [elf |-> FALSE, dyn |-> FALSE, sections |-> <<>>, symtab |-> <<>>, dynsym |-> <<>>, lines |-> <<>>])

Buffer == INSTANCE CharBuffer WITH Byte <- {0, 1}, Capa <- 4
Stream == INSTANCE StreamRoundTrip WITH
    HostLittle <- TRUE, FixedSize <- 5, MaxItems <- 2, MaxEdits <- 2, Items <- Items,
    Start <- <<9>>
List == INSTANCE SingleList WITH Node <- 1..3, Val <- {7, 8}
Table == INSTANCE HashTable WITH
    HtKey <- {5, 6, 7}, HtVal <- {1}, HashKey <- Hashes, MaxRows <- 2, MaxPrime <- 7
Ring == INSTANCE ConsistentHash WITH RingSize <- 11, Value <- 1..3, MaxWeight <- 2
Old == INSTANCE DeprecatedStream WITH
    HostLittle <- TRUE, OldPlain <- OldPlain, OldRaws <- OldRaws, OldArrays <- OldArrays,
    OldSize <- 5, OldMax <- 2
Addr == INSTANCE SockAddr WITH
    Host <- {"", "n", "eth", "bad"}, HostAddrs <- HostAddrs, IfAddr <- ("eth" :> "e"),
    Serv <- {"", "80", "bad"}, ServPort <- ServPorts, Number <- {"any", "x"},
    Port <- {<<0, 0>>, <<1, 2>>, <<80, 0>>}
Codec == INSTANCE Codecs WITH Cell <- {0, 1, 2}, CdKey <- {1, 2}, MaxText <- 3, Chunk <- 2
Crash == INSTANCE CrashSymbols WITH
    Window <- 6, NameSize <- 5, Batch <- 2, Maps <- CrashMaps, Elf <- CrashElf,
    Chunks <- {2, 6}

bufferVars == <<cbMem, cbSize, cbText, cbThrown>>
streamVars == <<out, in, script, got, phase, edits>>
listVars == <<slState, slHead, slText>>
tableVars == <<htBuf, htValid, htText, htLossy>>
ringVars == <<chRing, chPos>>
heapVars == <<fhCont, fhMax, fhUnique, fhDropped>>
freqVars == <<fcKind, fcNow, fcCtl, wfCtl, fcLevel, fcSince, fcTaken, fnCtr, fnTold,
    fnAnswer>>
fdmapVars == <<fdMem, fdPtr, fdTodo, fdLock, fdCap, fdSz>>
statsVars == <<atAttr, atVal, atSite, atCall, atNext, atGiven, atTaken>>
shmVars == <<smKind, smName, smLen, smProc>>
locksVars == <<lkKind, lkHeld, lkGuard, lkTry>>
semaphoresVars == <<seKind, seName, seSet, seProc>>
poolVars == <<tpThread, tpCancel, tpList, tpCnt, tpCall, tpJoined, tpDetached>>
loggerVars == <<lgMax, lgDir, lgText, lgFd, lgNamed, lgLock, lgThread, lgCrash, lgLives,
    lgNext, lgOk, lgRemoved, lgStuck>>
coroutinesVars == <<coRun, coSaved, coLink, coFlags, coEnded>>
oldVars == <<odOut, odIn, odSent, odScript, odGot>>
addrVars == <<saAddr, saCall>>
fileVars == <<fiFd, fiDesc, fiOpen, fiName, fiLen, fiBuf, fiLost>>
epollVars == <<epValid, epOpen, epSet, epReady, epData, epEvents, epAt>>
socketVars == <<skSock, skPeer, skTold, skPending, skLink, skOut, skSent, skBuf, skKind,
    udp, udNet, udFrom, udBuf, udRet>>
intsVars == <<liKind, liVal, liMin, liMax, liLock, liAt, liCopy, liSaw, liNet, liTold,
    liHeld>>
codecsVars == <<cdKind, cdKey, cdMode, cdIn, cdOut, cdRet, cdWas>>
crashVars == <<syCall, syPc, syPhase, syReader, syField, syNums, syTexts, syName, syOffset,
    syTable, syAt, sySymbol, syPrev, syLine, sySource, syFound>>
daemonsVars == <<dmNow, dmMon, dmSrv, dmEnd, dmSem, dmSets>>

\* A component that does not run has one initial state.
Init ==
    /\ focus \in {
          "buffer", "stream", "list", "table", "ring", "heap", "freq", "fdmap", "stats", "shm",
          "locks", "semaphores", "pool", "logger", "coroutines", "old", "addr", "file",
          "epoll", "socket", "ints", "codecs", "crash", "daemons"}
    /\ Buffer!Init
    /\ Stream!Init /\ (focus # "stream" => out.kind = "own")
    /\ List!Init
    /\ Table!Init
    /\ Ring!Init
    /\ Heap!Init /\ (focus # "heap" => fhMax = 0 /\ fhUnique)
    /\ Rate!Init /\ (focus # "freq" => fcKind = "plain")
    /\ FdMap!Init
    /\ Stats!Init
    /\ Shm!Init /\ (focus # "shm" => smKind = "posix")
    /\ Lock!Init /\ (focus # "locks" => lkKind = "mutex")
    /\ Sema!Init /\ (focus # "semaphores" => seKind = "posix")
    /\ Pool!Init
    /\ Log!Init /\ (focus # "logger" => lgMax = 0)
    /\ Co!Init
    /\ Old!Init /\ (focus # "old" => odOut.kind = "own")
    /\ Addr!Init
    /\ Files!Init
    /\ Poll!Init
    /\ Sock!Init /\ (focus # "socket" => skKind = "tcp")
    /\ Ints!Init /\ (focus # "ints" => liKind = "atomic")
    /\ Codec!Init /\ (focus # "codecs" => cdKind = "lzo" /\ cdIn.of = <<>>)
    /\ Crash!Init
    /\ Daemon!Init

\* The components that do not run.
Others ==
    /\ focus' = focus
    /\ IF focus = "buffer" THEN TRUE ELSE UNCHANGED bufferVars
    /\ IF focus = "stream" THEN TRUE ELSE UNCHANGED streamVars
    /\ IF focus = "list" THEN TRUE ELSE UNCHANGED listVars
    /\ IF focus = "table" THEN TRUE ELSE UNCHANGED tableVars
    /\ IF focus = "ring" THEN TRUE ELSE UNCHANGED ringVars
    /\ IF focus = "heap" THEN TRUE ELSE UNCHANGED heapVars
    /\ IF focus = "freq" THEN TRUE ELSE UNCHANGED freqVars
    /\ IF focus = "fdmap" THEN TRUE ELSE UNCHANGED fdmapVars
    /\ IF focus = "stats" THEN TRUE ELSE UNCHANGED statsVars
    /\ IF focus = "shm" THEN TRUE ELSE UNCHANGED shmVars
    /\ IF focus = "locks" THEN TRUE ELSE UNCHANGED locksVars
    /\ IF focus = "semaphores" THEN TRUE ELSE UNCHANGED semaphoresVars
    /\ IF focus = "pool" THEN TRUE ELSE UNCHANGED poolVars
    /\ IF focus = "logger" THEN TRUE ELSE UNCHANGED loggerVars
    /\ IF focus = "coroutines" THEN TRUE ELSE UNCHANGED coroutinesVars
    /\ IF focus = "old" THEN TRUE ELSE UNCHANGED oldVars
    /\ IF focus = "addr" THEN TRUE ELSE UNCHANGED addrVars
    /\ IF focus = "file" THEN TRUE ELSE UNCHANGED fileVars
    /\ IF focus = "epoll" THEN TRUE ELSE UNCHANGED epollVars
    /\ IF focus = "socket" THEN TRUE ELSE UNCHANGED socketVars
    /\ IF focus = "ints" THEN TRUE ELSE UNCHANGED intsVars
    /\ IF focus = "codecs" THEN TRUE ELSE UNCHANGED codecsVars
    /\ IF focus = "crash" THEN TRUE ELSE UNCHANGED crashVars
    /\ IF focus = "daemons" THEN TRUE ELSE UNCHANGED daemonsVars

Next ==
    \/ focus = "buffer" /\ Others /\ Buffer!Next
    \/ focus = "stream" /\ Others /\ Stream!Next
    \/ focus = "list" /\ Others /\ List!Next
    \/ focus = "table" /\ Others /\ Table!Next
    \/ focus = "ring" /\ Others /\ Ring!Next
    \/ focus = "heap" /\ Others /\ Heap!Next
    \/ focus = "freq" /\ Others /\ Rate!Next
    \/ focus = "fdmap" /\ Others /\ FdMap!Next
    \/ focus = "stats" /\ Others /\ Stats!Next
    \/ focus = "shm" /\ Others /\ Shm!Next
    \/ focus = "locks" /\ Others /\ Lock!Next
    \/ focus = "semaphores" /\ Others /\ Sema!Next
    \/ focus = "pool" /\ Others /\ Pool!Next
    \/ focus = "logger" /\ Others /\ Log!Next
    \/ focus = "coroutines" /\ Others /\ Co!Next
    \/ focus = "old" /\ Others /\ Old!Next
    \/ focus = "addr" /\ Others /\ Addr!Next
    \/ focus = "file" /\ Others /\ Files!Next
    \/ focus = "epoll" /\ Others /\ Poll!Next
    \/ focus = "socket" /\ Others /\ Sock!Next
    \/ focus = "ints" /\ Others /\ Ints!Next
    \/ focus = "codecs" /\ Others /\ Codec!Next
    \/ focus = "crash" /\ Others /\ Crash!Next
    \/ focus = "daemons" /\ Others /\ Daemon!Next

vars == <<focus,
    bufferVars, streamVars, listVars, tableVars, ringVars, heapVars, freqVars, fdmapVars,
    statsVars, shmVars, locksVars, semaphoresVars, poolVars, loggerVars, coroutinesVars,
    oldVars, addrVars, fileVars, epollVars, socketVars, intsVars, codecsVars, crashVars,
    daemonsVars>>

Spec == Init /\ [][Next]_vars

----------------------------------------------------------------------------
\* The values of each component are of their types and inside their bounds.
TypesOK ==
    /\ focus = "buffer" => Buffer!TypeOK
    /\ focus = "stream" => Stream!TypeOK
    /\ focus = "list" => List!TypeOK
    /\ focus = "table" => Table!TypeOK
    /\ focus = "ring" => Ring!TypeOK
    /\ focus = "heap" => Heap!TypeOK
    /\ focus = "freq" => Rate!TypeOK
    /\ focus = "fdmap" => FdMap!TypeOK
    /\ focus = "stats" => Stats!TypeOK
    /\ focus = "shm" => Shm!TypeOK
    /\ focus = "locks" => Lock!TypeOK
    /\ focus = "semaphores" => Sema!TypeOK
    /\ focus = "pool" => Pool!TypeOK
    /\ focus = "logger" => Log!TypeOK
    /\ focus = "coroutines" => Co!TypeOK
    /\ focus = "old" => Old!TypeOK
    /\ focus = "addr" => Addr!TypeOK
    /\ focus = "file" => Files!TypeOK
    /\ focus = "epoll" => Poll!TypeOK
    /\ focus = "socket" => Sock!TypeOK
    /\ focus = "ints" => Ints!TypeOK
    /\ focus = "codecs" => Codec!TypeOK
    /\ focus = "crash" => Crash!TypeOK
    /\ focus = "daemons" => Daemon!TypeOK


\* Containers hold what was put into them, whatever was done in which order, and
\* their bookkeeping (links, counters, used rows, owners of points) is
\* exact.
ContainersOK ==
    /\ focus = "list" => List!ListsAreSequences /\ List!NodesOwned
    /\ focus = "table" => Table!HoldsElements /\ Table!UsedIsExact
    /\ focus = "ring" => Ring!PointsOwned

\* A stream with an error changes no more until it is given a new status; and when a
\* node of a ring comes or goes, only its own keys move.
StepsOK ==
    [][/\ focus = "stream" => Stream!ErrorsStay
       /\ focus = "ring" => Ring!OnlyItsKeysMove
       /\ focus = "addr" => Addr!PartsKept]_vars
=============================================================================
