------------------------------ MODULE SockAddr ------------------------------
(***************************************************************************)
(* CSockAddr (sock_addr.hh): an IPv4 or IPv6 address and port, or nothing, *)
(* and the calls that set it as a whole or in part.  A port is its two     *)
(* bytes, an IP a name; resolving a host or service (getaddrinfo, ioctl)   *)
(* is external and may fail where it worked before.                        *)
(***************************************************************************)
EXTENDS Sequences, SequencesExt

CONSTANTS
    Host,       \* host names, "" is none
    HostAddrs,  \* per host, the <<family, IP>> getaddrinfo may give
    IfAddr,     \* per name of an interface, its IPv4 address
    Serv,       \* service names, "" is none
    ServPort,   \* per known service its port, as two bytes in network order
    Number,     \* IPv4 addresses given as numbers
    Port        \* ports given as numbers of the (little-endian) host

VARIABLES
    saAddr,     \* sa_
    saCall      \* the last call and its result

saVars == <<saAddr, saCall>>

None == <<>>
Addr(fam, ip, port) == [fam |-> fam, ip |-> ip, port |-> port]
NoPort == <<0, 0>>
IsIpv4(a) == a # None /\ a.fam = 4
IsIpv6(a) == a # None /\ a.fam = 6
Valid(a) == a # None

\* htons and ntohs on a little-endian host.
Converted(port, hostOrder) == IF hostOrder THEN Reverse(port) ELSE port
GetPort(a, hostOrder) == Converted(IF Valid(a) THEN a.port ELSE NoPort, hostOrder)

Loopback == {<<4, "lo">>, <<6, "lo">>}

\* tryGai: what getaddrinfo may give, None for failure.
TryGai(host, serv) ==
    LET ips == IF host = "" THEN Loopback ELSE HostAddrs[host]
        port == IF serv = "" THEN NoPort ELSE ServPort[serv]
    IN  {None} \cup IF (host = "" /\ serv = "") \/ (serv # "" /\ serv \notin DOMAIN ServPort) THEN {}
                    ELSE {Addr(i[1], i[2], port) : i \in ips}

\* tryIfr
TryIfr(host) == IF host \in DOMAIN IfAddr THEN {None, Addr(4, IfAddr[host], NoPort)} ELSE {None}

\* setSs: an address of a length of its own is refused.
SetSs(a, new) == IF new = None THEN a ELSE new

\* setIpAux: the host's name, or else an interface.
SetIpAux(host) == {g \in TryGai(host, "") : g # None} \cup TryIfr(host)

\* setPortAux
SetPortAux(a, port, hostOrder) == IF Valid(a) THEN [a EXCEPT !.port = Converted(port, hostOrder)] ELSE a

----------------------------------------------------------------------------
Did(op, ok, a) ==
    /\ saAddr' = a
    /\ saCall' = [op |-> op, ok |-> ok]

Init == saAddr = None /\ saCall = [op |-> "", ok |-> TRUE]

\* setPort by name; without an address one is made of it.
PortOf(a, serv) ==
    {IF ~Valid(a) THEN SetSs(a, g) ELSE IF g = None THEN None ELSE SetPortAux(a, g.port, FALSE)
        : g \in TryGai("", serv)}

\* CSockAddr(host, serv): both at once, or one after the other.
Construct(host, serv) ==
    \E both \in TryGai(host, serv), ip \in SetIpAux(host) :
        LET start == IF host = "" THEN None ELSE ip
        IN  IF both # None THEN Did("new", TRUE, both)
            ELSE IF host # "" /\ ip = None THEN Did("new", FALSE, None)
            ELSE IF serv = "" THEN Did("new", Valid(start), start)
            ELSE \E p \in PortOf(start, serv) : Did("new", Valid(p), p)

\* CSockAddr(host, port)
ConstructPort(host, port, hostOrder) ==
    \E a \in IF host = "" THEN PortOf(None, "0") ELSE SetIpAux(host) :
        Did("new", Valid(a), IF port = NoPort THEN a ELSE SetPortAux(a, port, hostOrder))

\* setIp(host): the port stays.
SetIp(host) ==
    \E a \in SetIpAux(host) :
        IF a = None THEN Did("ip", FALSE, saAddr)
        ELSE LET port == GetPort(saAddr, FALSE)
             IN  Did("ip", TRUE, IF port = NoPort THEN a ELSE SetPortAux(a, port, FALSE))

\* setIp(ipv4): an address of another family is replaced through "0.0.0.0".
SetIpv4(ip) ==
    IF IsIpv4(saAddr) THEN Did("ip", TRUE, [saAddr EXCEPT !.ip = ip])
    ELSE \/ Did("ip", TRUE, Addr(4, ip, GetPort(saAddr, FALSE)))
         \/ Did("ip", FALSE, saAddr)

\* setIp(ipv6) only where there is an IPv6 address.
SetIpv6(ip) == Did("ip", IsIpv6(saAddr), IF IsIpv6(saAddr) THEN [saAddr EXCEPT !.ip = ip] ELSE saAddr)

SetServ(serv) ==
    \E p \in PortOf(saAddr, serv) : Did("port", p # None, IF p = None THEN saAddr ELSE p)

\* setPort(port); without an address the service "0" makes one.
SetPort(port, hostOrder) ==
    IF Valid(saAddr) THEN Did("port", TRUE, SetPortAux(saAddr, port, hostOrder))
    ELSE \E a \in PortOf(None, "0") : Did("port", Valid(a), SetPortAux(a, port, hostOrder))

\* setAddr: an address from a system call, or what has not the length of one.
SetAddr(a) == Did("addr", Valid(a), SetSs(saAddr, a))

Clear == Did("clear", TRUE, None)

Next ==
    \/ \E h \in Host, s \in Serv : Construct(h, s)
    \/ \E h \in Host, p \in Port, o \in BOOLEAN : ConstructPort(h, p, o)
    \/ \E h \in Host : SetIp(h)
    \/ \E n \in Number : SetIpv4(n)
    \/ \E n \in Number : SetIpv6(n)
    \/ \E s \in Serv : SetServ(s)
    \/ \E p \in Port, o \in BOOLEAN : SetPort(p, o)
    \/ \E a \in {None, Addr(6, "peer", <<1, 2>>)} : SetAddr(a)
    \/ Clear

Spec == Init /\ [][Next]_saVars

----------------------------------------------------------------------------
TypeOK == saAddr = None \/ (saAddr.fam \in {4, 6} /\ Len(saAddr.port) = 2)

\* Setting the IP keeps the port and setting the port keeps the IP, and what fails
\* changes nothing (sock_addr.hh:112-172).
PartsKept ==
    /\ saCall'.op = "ip" /\ saCall'.ok /\ Valid(saAddr) => saAddr'.port = saAddr.port
    /\ saCall'.op = "port" /\ Valid(saAddr) => saAddr' = [saAddr EXCEPT !.port = saAddr'.port]
    /\ saCall'.op \in {"ip", "port", "addr"} /\ ~saCall'.ok => saAddr' = saAddr
    /\ saCall'.op = "new" => saCall'.ok = Valid(saAddr')
=============================================================================
