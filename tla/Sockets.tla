------------------------------- MODULE Sockets ------------------------------
(***************************************************************************)
(* CListenSocket and CTcpConnSocket (sockets.hh): a listener, a client     *)
(* that connects to it, without waiting or not, and the socket that        *)
(* accepts; and the data on their connection.  The kernel's part is        *)
(* external and may refuse.                                                *)
(*                                                                         *)
(* And CUdpSocket: udp is each object, with the datagrams that wait for    *)
(* it, udNet what was ever sent.  Of that the network delivers anything,   *)
(* late, twice or never.  udFrom and udBuf are the receiver's, whose buffer*)
(* holds one byte before the call, and udRet is what its last call         *)
(* returned.  skKind is the protocol.                                      *)
(***************************************************************************)
EXTENDS Integers, Sequences, FiniteSets, SequencesExt

CONSTANTS
    Addrs,      \* addresses, "none" is no valid one
    Addrs6,     \* those of IPv6; the others are of IPv4
    Backlog,    \* queueSz of listen, and the datagrams that wait for a socket
    MaxData     \* bound of the data of one connection, and of the datagrams

VARIABLES
    skSock,     \* the socket behind each object's descriptor
    skPeer,     \* peer_
    skTold,     \* the address of the last listenAddr that returned true
    skPending,  \* connections that wait to be accepted, FALSE if given up by the client
    skLink,     \* client and server have the two ends of one connection
    skOut,      \* what the client sends on its connection and the server has not read
    skSent,     \* what was sent on the present connection
    skBuf,      \* the server's buffer
    skKind, udp, udNet, udFrom, udBuf, udRet

skVars == <<skSock, skPeer, skTold, skPending, skLink, skOut, skSent, skBuf>>
udVars == <<udp, udNet, udFrom, udBuf, udRet>>
wire == <<skLink, skOut, skSent, skBuf>>

Objects == {"listener", "client", "server"}
Udps == {"left", "right"}
None == "none"
Auto == "auto"      \* a port of the kernel's choice
Family == [a \in Addrs |-> IF a \in Addrs6 THEN 6 ELSE 4]
\* fam 0: no valid descriptor
NoSocket == [fam |-> 0, bound |-> None, is |-> "new", peer |-> None]

Init ==
    /\ skSock = [o \in Objects |-> NoSocket]
    /\ skPeer = [o \in Objects |-> None]
    /\ skTold = None
    /\ skPending = <<>> /\ skLink = FALSE
    /\ skOut = <<>> /\ skSent = <<>> /\ skBuf = <<>>
    /\ skKind \in {"tcp", "udp"}
    /\ udp = [o \in Udps |-> [sock |-> NoSocket, peer |-> None, queue |-> <<>>]]
    /\ udNet = {} /\ udFrom = None /\ udBuf = <<>> /\ udRet = 0

Valid(o) == skSock[o].fam # 0

\* getSock: IPv6 is taken for IPv4.
Made(fam) == [NoSocket EXCEPT !.fam = 4]

\* The socket, or a new one where there is none.
Ensured(o, a) == IF Valid(o) THEN skSock[o] ELSE Made(Family[a])

GetSock(o, fam) ==
    /\ ~Valid(o)
    /\ skSock' = [skSock EXCEPT ![o] = Made(fam)]
    /\ UNCHANGED <<skPeer, skTold, skPending, wire>>

\* bindTo: the kernel binds a new socket to an address of its family that nobody has.
CanBind(s, a) ==
    /\ s.bound = None /\ s.fam = Family[a]
    /\ \A p \in Objects : skSock[p].bound # a

\* bindAddr: a socket made for it stays, also when the address is refused.
BindAddr(o, a) ==
    /\ a # None
    /\ LET s == Ensured(o, a)
       IN  skSock' = [skSock EXCEPT ![o] = IF CanBind(s, a) THEN [s EXCEPT !.bound = a] ELSE s]
    /\ UNCHANGED <<skPeer, skTold, skPending, wire>>

\* listenAddr: the address is bound only if the socket is made here; listen gives a
\* socket without an address one of the kernel's choice.
ListenAddr(a) ==
    LET s == Ensured("listener", a)
        fresh == ~Valid("listener")
        bound == IF fresh THEN [s EXCEPT !.bound = a] ELSE s
    IN  /\ a # None
        /\ IF fresh /\ ~CanBind(s, a)
           THEN skSock' = [skSock EXCEPT !["listener"] = s] /\ UNCHANGED skTold
           ELSE /\ skSock' = [skSock EXCEPT !["listener"] =
                        [bound EXCEPT !.is = "listening", !.bound = IF @ = None THEN Auto ELSE @]]
                /\ skTold' = a
        /\ UNCHANGED <<skPeer, skPending, wire>>

\* connectTo fails if the kernel refuses; a connection that is not made at once is on
\* its way.
Listens(a) ==
    /\ skSock["listener"].is = "listening" /\ skSock["listener"].bound = a
    /\ Len(skPending) < Backlog
CanConnect(s, a) == s.is = "new" /\ s.fam = Family[a]

Connected(s, a, pending) ==
    \/ /\ Listens(a)
       /\ skSock' = [skSock EXCEPT !["client"] = [s EXCEPT !.is = "connected", !.peer = a, !.bound = Auto]]
       /\ skPending' = Append(pending, TRUE)
    \/ /\ skSock' = [skSock EXCEPT !["client"] = [s EXCEPT !.is = "connecting", !.peer = a, !.bound = Auto]]
       /\ skPending' = pending

\* The client has no other end any more.
NewWire == skLink' = FALSE /\ skOut' = <<>> /\ skSent' = <<>> /\ skBuf' = <<>>
GivenUp == [i \in DOMAIN skPending |-> FALSE]

ConnectAddr(a) ==
    LET s == Ensured("client", a)
    IN  /\ a # None
        /\ \/ /\ CanConnect(s, a) /\ Connected(s, a, skPending)
              /\ skPeer' = [skPeer EXCEPT !["client"] = a]
              /\ NewWire
           \/ /\ skSock' = [skSock EXCEPT !["client"] = s]
              /\ UNCHANGED <<skPeer, skPending, wire>>
        /\ UNCHANGED <<skTold>>

\* reconnect: to the last peer, on a socket of its own.
Reconnect ==
    LET a == skPeer["client"]
        s == Made(Family[a])
    IN  /\ a # None
        /\ \/ CanConnect(s, a) /\ Connected(s, a, GivenUp)
           \/ skSock' = [skSock EXCEPT !["client"] = s] /\ skPending' = GivenUp
        /\ NewWire
        /\ UNCHANGED <<skPeer, skTold>>

\* A connection that was on its way is made, or was refused.
Progress ==
    /\ skSock["client"].is = "connecting"
    /\ \/ /\ Listens(skSock["client"].peer)
          /\ skSock' = [skSock EXCEPT !["client"].is = "connected"]
          /\ skPending' = Append(skPending, TRUE)
       \/ /\ skSock' = [skSock EXCEPT !["client"] = [@ EXCEPT !.is = "new", !.peer = None]]
          /\ UNCHANGED skPending
    /\ UNCHANGED <<skPeer, skTold, wire>>

\* acceptSocket: true also where there was nothing to accept and the socket is not valid.
AcceptSocket ==
    /\ ~Valid("server") /\ skSock["listener"].is = "listening"
    /\ IF skPending # <<>>
       THEN /\ skSock' = [skSock EXCEPT !["server"] =
                    [fam |-> 4, bound |-> None, is |-> "connected", peer |-> Auto]]
            /\ skPeer' = [skPeer EXCEPT !["server"] = Auto]
            /\ skPending' = Tail(skPending)
            /\ skLink' = Head(skPending)
       ELSE UNCHANGED <<skSock, skPeer, skPending, skLink>>
    /\ UNCHANGED <<skTold, skOut, skSent, skBuf>>

\* close of either end ends what was on its way.
Close(o) ==
    /\ Valid(o)
    /\ skSock' = [skSock EXCEPT ![o] = NoSocket]
    /\ skPending' = IF o = "listener" THEN <<>> ELSE IF o = "client" THEN GivenUp ELSE skPending
    /\ IF o = "listener" THEN UNCHANGED wire ELSE NewWire
    /\ UNCHANGED <<skPeer, skTold>>

----------------------------------------------------------------------------
\* sendData: some of the data goes.
SendData(n) ==
    /\ skLink /\ Len(skSent) + n <= MaxData
    /\ LET data == [i \in 1..n |-> Len(skSent) + i]
       IN  skOut' = skOut \o data /\ skSent' = skSent \o data
    /\ UNCHANGED <<skSock, skPeer, skTold, skPending, skLink, skBuf>>

\* A buffer that grows by sz, gets data and shrinks to what came (nothing if ret <= 0).
Received(buf, sz, data, ret) ==
    LET grown == buf \o [i \in 1..sz |-> 0]
        got == [i \in DOMAIN grown |-> IF i \in Len(buf) + 1 .. Len(buf) + ret THEN data[i - Len(buf)] ELSE grown[i]]
    IN  IF ret <= 0 THEN buf ELSE IF ret < sz THEN SubSeq(got, 1, Len(buf) + ret) ELSE got

\* recvData; -1 if nothing came.
RecvData(sz, n) ==
    /\ skLink /\ n <= sz /\ n <= Len(skOut)
    /\ skBuf' = Received(skBuf, sz, skOut, n)
    /\ skOut' = IF n > 0 THEN SubSeq(skOut, n + 1, Len(skOut)) ELSE skOut
    /\ UNCHANGED <<skSock, skPeer, skTold, skPending, skLink, skSent>>

----------------------------------------------------------------------------
\* What the last call received is nobody's concern after the next one.
NoCall == udFrom' = None /\ udBuf' = <<>> /\ udRet' = 0

UdpValid(o) == udp[o].sock.fam # 0
UdpEnsured(o, a) == IF UdpValid(o) THEN udp[o].sock ELSE Made(Family[a])
Free(s, a) == s.fam = Family[a] /\ \A p \in Udps : udp[p].sock.bound # a

\* The kernel gives a socket without an address one of its own choice.
Placed(s) ==
    IF s.bound # None THEN {s} ELSE {[s EXCEPT !.bound = a] : a \in {a \in Addrs : Free(s, a)}}

BindUdp(o, a) ==
    LET s == UdpEnsured(o, a)
    IN  /\ udp' = [udp EXCEPT ![o].sock = IF s.bound = None /\ Free(s, a) THEN [s EXCEPT !.bound = a] ELSE s]
        /\ NoCall /\ UNCHANGED udNet

\* CUdpSocket::connectAddr: to another peer as often as one likes, or refused.
ConnectUdp(o, a) ==
    LET s == UdpEnsured(o, a)
    IN  /\ \/ /\ s.fam = Family[a]
              /\ \E t \in Placed(s) : udp' = [udp EXCEPT ![o] = [@ EXCEPT !.sock = [t EXCEPT !.peer = a], !.peer = a]]
           \/ udp' = [udp EXCEPT ![o].sock = s]
        /\ NoCall /\ UNCHANGED udNet

CloseUdp(o) ==
    /\ UdpValid(o)
    /\ udp' = [udp EXCEPT ![o] = [@ EXCEPT !.sock = NoSocket, !.queue = <<>>]]
    /\ NoCall /\ UNCHANGED udNet

\* sendData: without a valid address to whom the socket is connected to, if it is.
SendUdp(o, to, len) ==
    LET s == udp[o].sock
        dest == IF to = None THEN s.peer ELSE to
    IN  /\ UdpValid(o) /\ dest # None /\ Family[dest] = s.fam /\ Cardinality(udNet) < MaxData
        /\ \E t \in Placed(s) :
              /\ udp' = [udp EXCEPT ![o].sock = t]
              /\ udNet' = udNet \cup {[from |-> t.bound, to |-> dest, len |-> len]}
        /\ NoCall

\* A datagram arrives at the socket that has its address now.
Arrive(o, d) ==
    /\ udp[o].sock.bound = d.to /\ udp[o].sock.peer \in {None, d.from} /\ Len(udp[o].queue) < Backlog
    /\ udp' = [udp EXCEPT ![o].queue = Append(@, d)]
    /\ NoCall /\ UNCHANGED udNet

\* CSockAddr::setAddr refuses an address that is not as long as its family's.
SetAddr(old, addr, len) == IF len \in {4, 6} THEN addr ELSE old

\* recvData(from, buf): the first datagram, or what of it is no longer than sz.  from
\* is set again from a zeroed address of the full length.
RecvUdp(o, sz) ==
    LET d == udp[o].queue[1]
        ret == IF d.len < sz THEN d.len ELSE sz
        from == SetAddr(None, d.from, Family[d.from])
    IN  /\ UdpValid(o) /\ udp[o].queue # <<>>
        /\ udp' = [udp EXCEPT ![o].queue = Tail(@)]
        /\ udBuf' = Received(<<"old">>, sz, [i \in 1..d.len |-> <<d, i>>], ret)
        /\ udFrom' = SetAddr(from, None, 128)
        /\ udRet' = ret
        /\ UNCHANGED udNet

NextTcp ==
    \/ \E o \in {"listener", "client"}, fam \in {4, 6} : GetSock(o, fam)
    \/ \E o \in {"listener", "client"}, a \in Addrs : BindAddr(o, a)
    \/ \E a \in Addrs : ListenAddr(a) \/ ConnectAddr(a)
    \/ Reconnect \/ Progress \/ AcceptSocket
    \/ \E o \in Objects : Close(o)
    \/ \E n \in 1..2 : SendData(n)
    \/ \E sz \in 1..2, n \in -1..2 : RecvData(sz, n)

NextUdp ==
    \E o \in Udps :
        \/ \E a \in Addrs : BindUdp(o, a) \/ ConnectUdp(o, a)
        \/ CloseUdp(o)
        \/ \E to \in Addrs \cup {None}, len \in 1..2 : SendUdp(o, to, len)
        \/ \E d \in udNet : Arrive(o, d)
        \/ \E sz \in 1..2 : RecvUdp(o, sz)

Next ==
    \/ skKind = "tcp" /\ NextTcp /\ UNCHANGED <<skKind, udVars>>
    \/ skKind = "udp" /\ NextUdp /\ UNCHANGED <<skKind, skVars>>

Spec == Init /\ [][Next]_<<skKind, skVars, udVars>>

----------------------------------------------------------------------------
TypeOK ==
    /\ skSock \in [Objects -> [fam : {0, 4, 6}, bound : Addrs \cup {None, Auto},
                               is : {"new", "listening", "connecting", "connected"},
                               peer : Addrs \cup {None, Auto}]]
    /\ skPeer \in [Objects -> Addrs \cup {None, Auto}]
    /\ Len(skSent) <= MaxData /\ Len(skBuf) + Len(skOut) = Len(skSent)

\* peerAddr of a connected socket is whom it is connected to (sockets.hh:285, 396, 462).
PeerIsPeer ==
    /\ \A o \in Objects : skSock[o].peer # None => skPeer[o] = skSock[o].peer
    /\ \A o \in Udps : udp[o].sock.peer # None => udp[o].peer = udp[o].sock.peer

\* sockets.hh:424 says of listenAddr that it listens at the given address: where it
\* has returned true, the listener listens there.
ListensAtGiven ==
    skSock["listener"].is = "listening" => skSock["listener"].bound = skTold

\* Received is what was sent, in order and without gaps (sockets.hh:170-181).
NothingTorn == skBuf \o skOut = skSent

\* from names the sender of the datagram whose beginning the call put behind what the
\* buffer held, and nobody else's (sockets.hh:298-327).
FromIsSender ==
    udRet > 0 =>
        /\ Len(udBuf) = udRet + 1 /\ udBuf[1] = "old"
        /\ \E d \in udNet : d.from = udFrom /\ \A i \in 1..udRet : udBuf[i + 1] = <<d, i>>
=============================================================================
