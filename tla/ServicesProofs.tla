--------------------------- MODULE ServicesProofs ---------------------------
(***************************************************************************)
(* Proofs about the components that serve a process: daemons, sockets,     *)
(* epoll, files and the log.  For each one an inductive invariant, which   *)
(* every step keeps, and the properties it implies; and what Components    *)
(* says of all of them.                                                    *)
(***************************************************************************)
EXTENDS Components, FiniteSetTheorems, SequenceTheorems, WellFoundedInduction, TLAPS

\* A sequence is its beginning and the rest.
LEMMA CutInTwo ==
    ASSUME NEW T, NEW s \in Seq(T), NEW n \in 1..Len(s)
    PROVE  /\ SubSeq(s, 1, n) \in Seq(T) /\ SubSeq(s, n + 1, Len(s)) \in Seq(T)
           /\ SubSeq(s, 1, n) \o SubSeq(s, n + 1, Len(s)) = s
<1>1. SubSeq(s, 1, n) \in Seq(T) /\ SubSeq(s, n + 1, Len(s)) \in Seq(T)
  OBVIOUS
<1>2. SubSeq(s, 1, n) \o SubSeq(s, n + 1, Len(s)) = s
  BY ConcatAdjacentSubSeq
<1> QED BY <1>1, <1>2

\* A function on the first numbers is a sequence.
LEMMA SeqOf ==
    ASSUME NEW T, NEW n \in Nat, NEW g, g \in [1..n -> T]
    PROVE  g \in Seq(T) /\ Len(g) = n
  OBVIOUS

\* The elements of two sequences joined.
LEMMA JoinAt ==
    ASSUME NEW T, NEW a \in Seq(T), NEW b \in Seq(T)
    PROVE  /\ a \o b \in Seq(T) /\ Len(a \o b) = Len(a) + Len(b)
           /\ \A j \in 1..Len(a) : (a \o b)[j] = a[j]
           /\ \A j \in 1..Len(b) : (a \o b)[Len(a) + j] = b[j]
<1>1. a \o b \in Seq(T) /\ Len(a \o b) = Len(a) + Len(b)
  OBVIOUS
<1>2. \A j \in 1..Len(a) : (a \o b)[j] = a[j]
  OBVIOUS
<1>3. \A j \in 1..Len(b) : (a \o b)[Len(a) + j] = b[j]
  OBVIOUS
<1> QED BY <1>1, <1>2, <1>3

\* A set of numbers has its least one.
LEMMA LeastIn == ASSUME NEW S, S \subseteq Nat, S # {}  PROVE Files!Min(S) \in S
<1>1. PICK x \in S : \A y \in S : <<y, x>> \notin OpToRel(<, Nat)
  BY NatLessThanWellFounded, WFMin, Zenon
<1>2. \A y \in S : ~(y < x)
  BY <1>1, Zenon DEF OpToRel
<1>3. \A y \in S : x <= y
  BY <1>2
<1> QED BY <1>3 DEF Files!Min

\* A sequence with one element changed.
LEMMA SeqSet ==
    ASSUME NEW T, NEW s \in Seq(T), NEW i, NEW x \in T
    PROVE  /\ [s EXCEPT ![i] = x] \in Seq(T) /\ Len([s EXCEPT ![i] = x]) = Len(s)
           /\ \A j \in 1..Len(s) : [s EXCEPT ![i] = x][j] = IF j = i THEN x ELSE s[j]
<1>1. s \in [1..Len(s) -> T] /\ Len(s) \in Nat
  OBVIOUS
<1>2. [s EXCEPT ![i] = x] \in [1..Len(s) -> T]
  BY <1>1
<1>3. \A j \in 1..Len(s) : [s EXCEPT ![i] = x][j] = IF j = i THEN x ELSE s[j]
  BY <1>1
<1> QED BY <1>1, <1>2, <1>3, SeqOf

----------------------------------------------------------------------------
(* Daemons: monitors and one instance of a program (system.hh) *)

\* The instance counts as the library does.
LEMMA CardDaemon == \A S : Daemon!Cardinality(S) = Cardinality(S)
  BY DEF Daemon!Cardinality, Cardinality

\* Remainders are places of the ring.
LEMMA ModRange ==
    ASSUME NEW a \in Nat
    PROVE  a % KRestart \in Daemon!Ring /\ a % KRestart \in Nat
  BY DaemonAssumption DEF Daemon!Ring

\* Numbers less than a turn apart have different places in the ring.
LEMMA ModApart ==
    ASSUME NEW a \in Nat, NEW b \in Nat, a < b, b < a + KRestart
    PROVE  a % KRestart # b % KRestart
<1> USE DaemonAssumption
<1> DEFINE K == KRestart  q == a \div K  p == b \div K
<1>1. a = K * q + (a % K) /\ q \in Nat
  OBVIOUS
<1>2. b = K * p + (b % K) /\ p \in Nat
  OBVIOUS
<1>3. CASE p = q
  BY <1>1, <1>2, <1>3
<1>4. CASE p # q
  <2>1. SUFFICES ASSUME a % K = b % K PROVE FALSE
    OBVIOUS
  <2>2. b - a = K * (p - q)
    BY <1>1, <1>2, <2>1
  <2>3. CASE p > q
    <3>1. K * (p - q) >= K
      BY <1>1, <1>2, <2>3
    <3> QED BY <2>2, <3>1
  <2>4. CASE p < q
    <3>1. K * (q - p) >= K
      BY <1>1, <1>2, <2>4
    <3>2. K * (p - q) = - (K * (q - p))
      BY <1>1, <1>2
    <3> QED BY <2>2, <3>1, <3>2
  <2> QED BY <2>3, <2>4, <1>4, <1>1, <1>2
<1> QED BY <1>3, <1>4

\* The remainder, from a quotient.
LEMMA ModOf ==
    ASSUME NEW a \in Nat, NEW q \in Nat, NEW r \in Nat, r < KRestart, a = KRestart * q + r
    PROVE  a % KRestart = r
<1> USE DaemonAssumption
<1> DEFINE K == KRestart  p == a \div K
<1>1. a = K * p + (a % K) /\ p \in Nat /\ a % K \in Nat /\ a % K < K
  OBVIOUS
<1>2. K * (p - q) = r - (a % K)
  BY <1>1
<1> HIDE DEF p
<1>3. CASE p > q
  <2>1. K * (p - q) >= K
    BY <1>1, <1>3
  <2> QED BY <1>1, <1>2, <2>1
<1>4. CASE p < q
  <2>1. K * (q - p) >= K
    BY <1>1, <1>4
  <2>2. K * (p - q) = - (K * (q - p))
    BY <1>1
  <2> QED BY <1>1, <1>2, <2>1, <2>2
<1>5. CASE p = q
  BY <1>1, <1>5
<1> QED BY <1>1, <1>3, <1>4, <1>5

\* The place after the last one is the first.
LEMMA ModNext ==
    ASSUME NEW a \in Nat
    PROVE  Daemon!Next1(a % KRestart) = (a + 1) % KRestart
<1> USE DaemonAssumption
<1> DEFINE K == KRestart  q == a \div K  r == a % K
<1>1. a = K * q + r /\ q \in Nat /\ r \in Nat /\ r < K
  OBVIOUS
<1> HIDE DEF q, r
<1>2. CASE r + 1 < K
  <2>1. a + 1 = K * q + (r + 1)
    BY <1>1
  <2>2. (a + 1) % K = r + 1
    BY <1>1, <1>2, <2>1, ModOf
  <2>3. (r + 1) % K = r + 1
    BY <1>1, <1>2
  <2> QED BY <2>2, <2>3 DEF Daemon!Next1, r
<1>3. CASE r + 1 = K
  <2>1. a + 1 = K * (q + 1) + 0
    BY <1>1, <1>3
  <2>2. (a + 1) % K = 0
    BY <1>1, <2>1, ModOf
  <2>3. (r + 1) % K = 0
    BY <1>1, <1>3
  <2> QED BY <2>2, <2>3 DEF Daemon!Next1, r
<1> QED BY <1>1, <1>2, <1>3

\* A turn back is the same place.
LEMMA ModBack ==
    ASSUME NEW a \in Nat, a >= KRestart
    PROVE  (a - KRestart) % KRestart = a % KRestart
<1> USE DaemonAssumption
<1> DEFINE K == KRestart  b == a - K  q == b \div K  r == b % K
<1>1. b \in Nat
  OBVIOUS
<1>2. b = K * q + r /\ q \in Nat /\ r \in Nat /\ r < K
  BY <1>1
<1>3. a % K = r
  <2> HIDE DEF q, r
  <2>1. a = K * (q + 1) + r
    BY <1>2
  <2> QED BY <1>2, <2>1, ModOf
<1> QED BY <1>3

Places == {"none", "fork", "forked", "wait", "sleep", "exit"}

Monitors ==
    [pc : Places, index : Daemon!Ring, times : [Daemon!Ring -> Nat], ign : BOOLEAN, forks : Seq(Nat),
     why : {"none", "too often", "no fork", "ended", "killed"}]

EndTypes == {"none", "exit 1"} \cup Daemon!Ends
Servers == Daemon!Inside \cup {"none", "gone", "zombie"}

\* The forks whose time has been noted.
Noted(m) == IF m.pc = "forked" THEN Len(m.forks) - 1 ELSE Len(m.forks)

\* The ring of times
RingRight(m) ==
    m.pc # "exit" =>
        /\ m.pc = "forked" => m.forks # <<>>
        /\ m.index = Noted(m) % KRestart
        /\ \A j \in 1..Noted(m) : j > Noted(m) - KRestart => m.times[(j - 1) % KRestart] >= m.forks[j]

ForksApart(f) ==
    \A i \in 1 .. Len(f) - KRestart + 1 : f[i + KRestart - 1] - f[i] > KTimeout

MonRight(p, m, srv, end, now) ==
    /\ m \in Monitors /\ srv \in Servers /\ end \in EndTypes
    /\ \A i \in DOMAIN m.forks : m.forks[i] <= now
    /\ \A i \in Daemon!Ring : m.times[i] <= now
    /\ RingRight(m)
    /\ ForksApart(m.forks)
    /\ p \notin Monitored => m.pc = "none"
    /\ p \in Monitored /\ m.pc \in {"none", "fork", "sleep"} => srv = "none"

MonsRight ==
    /\ dmMon \in [Program -> Monitors] /\ dmSrv \in [Program -> Servers] /\ dmEnd \in [Program -> EndTypes]
    /\ dmNow \in Nat
    /\ \A p \in Program : MonRight(p, dmMon[p], dmSrv[p], dmEnd[p], dmNow)

SemRight ==
    /\ dmSem \in [there : BOOLEAN, val : Nat, adj : [Program -> {0, 1}]] /\ dmSets \in Nat
    /\ \A p \in Program : dmSem.adj[p] = 1 => dmSrv[p] = "run"
    /\ dmSets > 0 => dmSem.val > 0 \/ \E p \in Program : dmSem.adj[p] = 1
    /\ Cardinality(Daemon!Running) + dmSem.val <= dmSets

DaemonInv == MonsRight /\ SemRight

\* The types of what a monitor remembers.
LEMMA ForkSeq ==
    ASSUME NEW m \in Monitors
    PROVE  /\ m.forks \in Seq(Nat) /\ Len(m.forks) \in Nat /\ DOMAIN m.forks = 1..Len(m.forks)
           /\ \A i \in 1..Len(m.forks) : m.forks[i] \in Nat
           /\ m.times \in [Daemon!Ring -> Nat] /\ m.index \in Daemon!Ring
<1>1. m.forks \in Seq(Nat) /\ m.times \in [Daemon!Ring -> Nat] /\ m.index \in Daemon!Ring
  BY DEF Monitors
<1> QED BY <1>1

\* A program's monitor and server change, and are right after it.
LEMMA MonStep ==
    ASSUME MonsRight, NEW p \in Program, NEW m, NEW s, NEW e, MonRight(p, m, s, e, dmNow),
           dmMon' = [dmMon EXCEPT ![p] = m], dmSrv' = [dmSrv EXCEPT ![p] = s], dmEnd' = [dmEnd EXCEPT ![p] = e],
           UNCHANGED dmNow
    PROVE  MonsRight'
BY DEF MonsRight, MonRight, RingRight, ForksApart, Noted

\* No program runs at first.
LEMMA MonInit == Daemon!Init => MonsRight
<1> SUFFICES ASSUME Daemon!Init  PROVE MonsRight
  OBVIOUS
<1> USE DaemonAssumption
<1>1. 0 \in Daemon!Ring /\ 0 % KRestart = 0
  BY DEF Daemon!Ring
<1>2. Daemon!NoMonitor \in Monitors
  BY <1>1 DEF Daemon!NoMonitor, Monitors, Places
<1>3. RingRight(Daemon!NoMonitor) /\ ForksApart(Daemon!NoMonitor.forks)
  BY <1>1 DEF RingRight, ForksApart, Daemon!NoMonitor, Noted
<1>4. ASSUME NEW p \in Program
      PROVE MonRight(p, Daemon!NoMonitor, "none", "none", dmNow)
  BY <1>2, <1>3 DEF Daemon!Init, Daemon!StartTime, MonRight, Daemon!NoMonitor, Servers, EndTypes, Places
<1> QED BY <1>2, <1>4 DEF Daemon!Init, MonsRight, Daemon!StartTime, Servers, EndTypes, Places

\* Time passes, or nothing of the monitors changes but the time.
LEMMA MonTick == MonsRight /\ Daemon!Tick => MonsRight'
<1> SUFFICES ASSUME MonsRight, Daemon!Tick  PROVE MonsRight'
  OBVIOUS
<1>1. dmNow' = dmNow + 1 /\ UNCHANGED <<dmMon, dmSrv, dmEnd>>
  BY DEF Daemon!Tick
<1>2. ASSUME NEW p \in Program, NEW i \in DOMAIN dmMon[p].forks  PROVE dmMon[p].forks[i] <= dmNow + 1
  <2>1. dmMon[p].forks[i] \in Nat /\ dmMon[p].forks[i] <= dmNow
    BY ForkSeq DEF MonsRight, MonRight
  <2> QED BY <2>1 DEF MonsRight
<1>3. ASSUME NEW p \in Program, NEW i \in Daemon!Ring  PROVE dmMon[p].times[i] <= dmNow + 1
  <2>1. dmMon[p].times[i] \in Nat /\ dmMon[p].times[i] <= dmNow
    BY DEF MonsRight, MonRight, Monitors
  <2> QED BY <2>1 DEF MonsRight
<1>4. ASSUME NEW p \in Program  PROVE MonRight(p, dmMon[p], dmSrv[p], dmEnd[p], dmNow + 1)
  BY <1>2, <1>3 DEF MonsRight, MonRight
<1> QED BY <1>1, <1>4 DEF MonsRight

\* What MonsRight says of one program.
LEMMA MonWhole == ASSUME MonsRight, NEW p \in Program
    PROVE /\ MonRight(p, dmMon[p], dmSrv[p], dmEnd[p], dmNow)
          /\ dmSrv = [dmSrv EXCEPT ![p] = dmSrv[p]] /\ dmEnd = [dmEnd EXCEPT ![p] = dmEnd[p]]
          /\ dmMon = [dmMon EXCEPT ![p] = dmMon[p]]
          /\ dmMon[p] \in Monitors
BY DEF MonsRight, MonRight

\* A program becomes the monitor of its server.
LEMMA MonDaemon == ASSUME MonsRight, NEW p \in Program, Daemon!Daemon(p)  PROVE MonsRight'
<1> DEFINE m == [dmMon[p] EXCEPT !.pc = "fork", !.ign = TRUE]
<1>0. p \in Monitored /\ dmMon[p].pc = "none" /\ dmMon[p] \in Monitors
  BY MonWhole DEF Daemon!Daemon
<1>1. m \in Monitors /\ m.pc = "fork" /\ m.ign /\ m.index = dmMon[p].index /\ m.times = dmMon[p].times
      /\ m.forks = dmMon[p].forks /\ m.why = dmMon[p].why
  BY <1>0 DEF Monitors, Places
<1>2. dmMon' = [dmMon EXCEPT ![p] = m] /\ UNCHANGED <<dmNow, dmSrv, dmEnd>>
  BY DEF Daemon!Daemon, MonsRight
<1> HIDE DEF m
<1>3. MonRight(p, m, dmSrv[p], dmEnd[p], dmNow)
  <2>1. RingRight(m)
    BY <1>0, <1>1, MonWhole DEF RingRight, Noted, MonRight
  <2> QED BY <1>0, <1>1, <2>1, MonWhole DEF MonRight
<1> QED BY <1>2, <1>3, MonWhole, MonStep

\* A monitor ends, for one of the reasons it may have.
LEMMA MonLeave ==
    ASSUME MonsRight, NEW p \in Program, NEW why \in {"too often", "no fork", "killed"}, Daemon!Leave(p, why),
           dmMon[p].pc \in {"fork", "forked", "wait", "sleep"}, UNCHANGED <<dmNow, dmSrv, dmEnd>>
    PROVE  MonsRight'
<1> DEFINE m == [dmMon[p] EXCEPT !.pc = "exit", !.why = why]
<1>1. m \in Monitors /\ m.pc = "exit" /\ m.ign = dmMon[p].ign /\ m.forks = dmMon[p].forks /\ m.why = why
      /\ m.times = dmMon[p].times
  BY MonWhole DEF Monitors, Places
<1>2. dmMon' = [dmMon EXCEPT ![p] = m]
  BY DEF Daemon!Leave, MonsRight
<1> HIDE DEF m
<1>3. MonRight(p, m, dmSrv[p], dmEnd[p], dmNow)
  BY <1>1, MonWhole DEF MonRight, RingRight
<1> QED BY <1>2, <1>3, MonWhole, MonStep

\* The fork is far enough from the one KRestart - 1 forks before.
LEMMA ForksGrow ==
    ASSUME NEW m \in Monitors, NEW now \in Nat, RingRight(m), ForksApart(m.forks), m.pc = "fork",
           \A i \in DOMAIN m.forks : m.forks[i] <= now,
           m.times[Daemon!Next1(m.index)] # 0, now > m.times[Daemon!Next1(m.index)] + KTimeout
    PROVE  ForksApart(Append(m.forks, now))
<1> USE DaemonAssumption
<1> DEFINE n == Len(m.forks)  f == Append(m.forks, now)
<1>0. n \in Nat /\ m.forks \in Seq(Nat) /\ Len(f) = n + 1 /\ f[n + 1] = now /\ \A i \in 1..n : f[i] = m.forks[i] /\ f[i] \in Nat
  BY ForkSeq
<1> HIDE DEF n, f
<1>00. m.times \in [Daemon!Ring -> Nat]
  BY ForkSeq
<1> SUFFICES ASSUME NEW i \in 1 .. Len(f) - KRestart + 1
             PROVE  f[i + KRestart - 1] - f[i] > KTimeout
  BY DEF ForksApart, f
<1>1. CASE i + KRestart - 1 <= n
  <2>1. i \in 1 .. n - KRestart + 1 /\ i + KRestart - 1 \in 1..n /\ i \in 1..n
    BY <1>0, <1>1
  <2>2. m.forks[i + KRestart - 1] - m.forks[i] > KTimeout
    BY <2>1 DEF ForksApart, n
  <2> QED BY <1>0, <2>1, <2>2
<1>2. CASE i + KRestart - 1 = n + 1
  <2>1. i \in 1..n /\ i > n - KRestart /\ n + 1 >= KRestart /\ i - 1 = n + 1 - KRestart
    BY <1>0, <1>2
  <2>2. m.times[(i - 1) % KRestart] >= m.forks[i]
    BY <2>1 DEF RingRight, Noted, n
  <2>3. Daemon!Next1(m.index) = (n + 1) % KRestart
    BY <1>0, ModNext DEF RingRight, Noted, n
  <2>4. (i - 1) % KRestart = (n + 1) % KRestart
    <3>1. n + 1 \in Nat /\ i - 1 = (n + 1) - KRestart
      BY <1>0, <2>1
    <3> QED BY <2>1, <3>1, ModBack
  <2>5. m.times[(i - 1) % KRestart] \in Nat
    <3>1. i - 1 \in Nat
      BY <2>1
    <3> QED BY <1>00, <3>1, ModRange
  <2> DEFINE t == m.times[(i - 1) % KRestart]
  <2>6. now > t + KTimeout
    BY <2>3, <2>4
  <2>7. f[i + KRestart - 1] = now /\ f[i] = m.forks[i] /\ f[i] \in Nat
    BY <1>0, <1>2, <2>1
  <2> HIDE DEF t
  <2>8. t >= f[i]
    BY <2>2, <2>7 DEF t
  <2>9. t \in Nat
    BY <2>5 DEF t
  <2> QED BY <2>6, <2>7, <2>8, <2>9
<1>3. i + KRestart - 1 <= n \/ i + KRestart - 1 = n + 1
  <2>1. Len(f) = n + 1 /\ n \in Nat
    BY <1>0
  <2>2. i <= n + 1 - KRestart + 1 /\ i \in Int
    BY <2>1, DaemonAssumption
  <2> QED BY <2>1, <2>2, DaemonAssumption
<1> QED BY <1>1, <1>2, <1>3

\* The monitor forks, unless its ring says that it did so too often.
LEMMA MonFork == ASSUME MonsRight, NEW p \in Program, Daemon!Fork(p)  PROVE MonsRight'
<1>0. dmMon[p].pc = "fork" /\ UNCHANGED <<dmNow, dmEnd>> /\ dmMon[p] \in Monitors /\ dmNow \in Nat
  BY MonWhole DEF Daemon!Fork, MonsRight
<1>1. ASSUME NEW why \in {"too often", "no fork"}, Daemon!Leave(p, why), UNCHANGED dmSrv  PROVE MonsRight'
  BY <1>0, <1>1, MonLeave
<1> DEFINE m == [dmMon[p] EXCEPT !.pc = "forked", !.forks = Append(@, dmNow)]
<1>2. ASSUME Daemon!IsTimeout(dmMon[p].times[Daemon!Next1(dmMon[p].index)], KTimeout), dmMon' = [dmMon EXCEPT ![p] = m],
             Daemon!Goto(p, "open")
      PROVE  MonsRight'
  <2>0. Append(dmMon[p].forks, dmNow) \in Seq(Nat)
    BY <1>0, ForkSeq
  <2>1. m \in Monitors /\ m.pc = "forked" /\ m.ign = dmMon[p].ign /\ m.index = dmMon[p].index /\ m.times = dmMon[p].times
        /\ m.forks = Append(dmMon[p].forks, dmNow) /\ m.why = dmMon[p].why
    BY <1>0, <2>0 DEF Monitors, Places
  <2> HIDE DEF m
  <2>2. Len(m.forks) = Len(dmMon[p].forks) + 1 /\ \A i \in DOMAIN m.forks : m.forks[i] <= dmNow
    <3>1. /\ Len(m.forks) = Len(dmMon[p].forks) + 1 /\ DOMAIN m.forks = 1 .. Len(dmMon[p].forks) + 1
          /\ m.forks[Len(dmMon[p].forks) + 1] = dmNow
          /\ \A i \in 1 .. Len(dmMon[p].forks) : m.forks[i] = dmMon[p].forks[i]
      BY <1>0, <2>1, ForkSeq
    <3>2. \A i \in 1 .. Len(dmMon[p].forks) : dmMon[p].forks[i] <= dmNow
      BY <1>0, ForkSeq, MonWhole DEF MonRight
    <3>3. Len(dmMon[p].forks) \in Nat
      BY <1>0, ForkSeq
    <3> QED BY <1>0, <3>1, <3>2, <3>3
  <2>3. RingRight(m)
    <3>1. Noted(m) = Noted(dmMon[p])
      BY <1>0, <2>1, <2>2, ForkSeq DEF Noted
    <3>2. \A j \in 1..Noted(m) : m.forks[j] = dmMon[p].forks[j]
      BY <1>0, <2>1, <3>1, ForkSeq DEF Noted
    <3>3. m.forks # <<>>
      <4>1. Len(m.forks) # 0
        BY <1>0, <2>2, ForkSeq
      <4> QED BY <4>1
    <3> QED BY <1>0, <2>1, <3>1, <3>2, <3>3, MonWhole DEF RingRight, MonRight
  <2>4. ForksApart(m.forks)
    <3>1. \A i \in DOMAIN dmMon[p].forks : dmMon[p].forks[i] <= dmNow
      BY MonWhole DEF MonRight
    <3>2. RingRight(dmMon[p]) /\ ForksApart(dmMon[p].forks)
      BY MonWhole DEF MonRight
    <3>3. Daemon!Next1(dmMon[p].index) \in Daemon!Ring
      <4>1. Len(dmMon[p].forks) + 1 \in Nat /\ dmMon[p].index = Len(dmMon[p].forks) % KRestart
        BY <1>0, <3>2, ForkSeq DEF RingRight, Noted
      <4> QED BY <1>0, <4>1, ForkSeq, ModNext, ModRange
    <3>4. dmMon[p].times[Daemon!Next1(dmMon[p].index)] # 0 
      BY <1>2 DEF Daemon!IsTimeout
    <3>5. dmNow > dmMon[p].times[Daemon!Next1(dmMon[p].index)] + KTimeout
      <4>1. dmMon[p].times[Daemon!Next1(dmMon[p].index)] <= dmNow
        BY <3>3, MonWhole DEF MonRight
      <4>2. dmMon[p].times[Daemon!Next1(dmMon[p].index)] \in Nat
        BY <1>0, <3>3, ForkSeq
      <4> QED BY <1>0, <1>2, <4>1, <4>2 DEF Daemon!IsTimeout, Daemon!Time
    <3> QED BY <1>0, <2>1, <3>1, <3>2, <3>4, <3>5, ForksGrow
  <2>5. MonRight(p, m, "open", dmEnd[p], dmNow)
    <3>1. \A i \in Daemon!Ring : m.times[i] <= dmNow
      BY <2>1, MonWhole DEF MonRight
    <3> QED
    BY <3>1, <1>0, <2>1, <2>2, <2>3, <2>4, MonWhole DEF MonRight, Servers, Daemon!Inside
  <2> QED BY <1>0, <1>2, <2>5, MonWhole, MonStep DEF Daemon!Goto
<1>3. dmMon' = [dmMon EXCEPT ![p].pc = "forked", ![p].forks = Append(@, dmNow)] =>
      dmMon' = [dmMon EXCEPT ![p] = m]
  BY DEF MonsRight
<1> QED BY <1>1, <1>2, <1>3 DEF Daemon!Fork

\* The time of the fork replaces the oldest one in the ring.
LEMMA MonForked == ASSUME MonsRight, NEW p \in Program, Daemon!Forked(p)  PROVE MonsRight'
<1> USE DaemonAssumption
<1> DEFINE o == dmMon[p]
           t == [o.times EXCEPT ![o.index] = dmNow]
           m == [o EXCEPT !.pc = "wait", !.ign = FALSE, !.times = t, !.index = Daemon!Next1(o.index)]
           n == Len(o.forks)
<1>0. o.pc = "forked" /\ UNCHANGED <<dmNow, dmSrv, dmEnd>> /\ o \in Monitors /\ dmNow \in Nat
  BY MonWhole DEF Daemon!Forked, MonsRight
<1>1. dmMon' = [dmMon EXCEPT ![p] = m]
  BY DEF Daemon!Forked, Daemon!Time, MonsRight
<1>2. /\ n \in Nat /\ o.forks \in Seq(Nat) /\ (\A j \in 1..n : o.forks[j] \in Nat) /\ o.times \in [Daemon!Ring -> Nat] /\ n # 0
      /\ o.index \in Daemon!Ring /\ o.index = (n - 1) % KRestart
      /\ \A j \in 1 .. n - 1 : j > n - 1 - KRestart => o.times[(j - 1) % KRestart] >= o.forks[j]
      /\ \A j \in 1..n : o.forks[j] <= dmNow
      /\ \A i \in Daemon!Ring : o.times[i] <= dmNow
  <2>1. RingRight(o) /\ (\A i \in DOMAIN o.forks : o.forks[i] <= dmNow) /\ (\A i \in Daemon!Ring : o.times[i] <= dmNow)
    BY MonWhole DEF MonRight
  <2>2. /\ n \in Nat /\ o.forks \in Seq(Nat) /\ (\A j \in 1..n : o.forks[j] \in Nat) /\ o.times \in [Daemon!Ring -> Nat]
        /\ o.index \in Daemon!Ring /\ DOMAIN o.forks = 1..n
    BY <1>0, ForkSeq
  <2>3. n # 0 /\ Noted(o) = n - 1
    BY <1>0, <2>1, <2>2 DEF RingRight, Noted
  <2> HIDE DEF o, n
  <2> QED BY <1>0, <2>1, <2>2, <2>3 DEF RingRight
<1>3. Daemon!Next1(o.index) = n % KRestart /\ n % KRestart \in Daemon!Ring
  <2>1. n - 1 \in Nat /\ n = (n - 1) + 1
    BY <1>2
  <2> HIDE DEF n, o
  <2> QED BY <1>2, <2>1, ModNext, ModRange
<1>4. /\ m \in Monitors /\ m.pc = "wait" /\ m.ign = FALSE /\ m.index = n % KRestart /\ m.times = t /\ m.forks = o.forks
      /\ m.why = o.why
  <2>1. t \in [Daemon!Ring -> Nat]
    BY <1>0, <1>2
  <2>2. /\ DOMAIN o = {"pc", "index", "times", "ign", "forks", "why"} /\ o.forks \in Seq(Nat)
        /\ o.why \in {"none", "too often", "no fork", "ended", "killed"}
        /\ o = [pc |-> o.pc, index |-> o.index, times |-> o.times, ign |-> o.ign, forks |-> o.forks, why |-> o.why]
    BY <1>0 DEF Monitors
  <2> DEFINE i == Daemon!Next1(o.index)
  <2>3. i \in Daemon!Ring
    BY <1>3
  <2>5. m = [o EXCEPT !.pc = "wait", !.ign = FALSE, !.times = t, !.index = i]
    OBVIOUS
  <2> HIDE DEF t, o, n, i, m
  <2>4. m = [pc |-> "wait", index |-> i, times |-> t, ign |-> FALSE, forks |-> o.forks, why |-> o.why]
    BY <2>2, <2>5
  <2> QED BY <1>3, <2>1, <2>2, <2>3, <2>4 DEF Monitors, Places, i
<1>5. \A i \in Daemon!Ring : t[i] = IF i = o.index THEN dmNow ELSE o.times[i]
  BY <1>2
<1>6. MonRight(p, o, dmSrv[p], dmEnd[p], dmNow)
  BY MonWhole
<1> HIDE DEF m, o, n, t
<1>7. ASSUME NEW j \in 1..n, j > n - KRestart  PROVE t[(j - 1) % KRestart] >= o.forks[j]
  <2>00. j - 1 \in Nat
    BY <1>2
  <2>0. j - 1 \in Nat /\ (j - 1) % KRestart \in Daemon!Ring
    BY <2>00, ModRange
  <2>1. CASE j = n
    <3>1. t[(j - 1) % KRestart] = dmNow
      BY <1>2, <1>5, <2>0, <2>1
    <3> QED BY <1>0, <1>2, <3>1
  <2>2. CASE j # n
    <3>1. j - 1 < n - 1 /\ n - 1 < (j - 1) + KRestart /\ n - 1 \in Nat /\ j \in 1 .. n - 1 /\ j > n - 1 - KRestart
      BY <1>2, <1>7, <2>2
    <3>2. (j - 1) % KRestart # (n - 1) % KRestart
      BY <2>0, <3>1, ModApart
    <3>3. t[(j - 1) % KRestart] = o.times[(j - 1) % KRestart]
      BY <1>2, <1>5, <2>0, <3>2
    <3> QED BY <1>2, <3>1, <3>3
  <2> QED BY <2>1, <2>2
<1>8. RingRight(m)
  <2>1. Noted(m) = n
    BY <1>4 DEF Noted, n
  <2> QED BY <1>4, <1>7, <2>1 DEF RingRight
<1>9. \A i \in Daemon!Ring : m.times[i] <= dmNow
  BY <1>0, <1>2, <1>4, <1>5
<1>10. MonRight(p, m, dmSrv[p], dmEnd[p], dmNow)
  BY <1>0, <1>4, <1>6, <1>8, <1>9 DEF MonRight
<1> QED BY <1>0, <1>1, <1>10, MonWhole, MonStep

\* The monitor has waited for its server, and ends or goes on as it ended.
LEMMA MonWait == ASSUME MonsRight, NEW p \in Program, Daemon!Wait(p)  PROVE MonsRight'
<1> DEFINE m == [dmMon[p] EXCEPT !.pc = "sleep"]
           x == [dmMon[p] EXCEPT !.pc = "exit", !.why = "ended"]
<1>0. dmMon[p].pc = "wait" /\ dmSrv[p] \in {"zombie", "gone"} /\ UNCHANGED <<dmNow, dmEnd>> /\ dmMon[p] \in Monitors
      /\ dmSrv' = [dmSrv EXCEPT ![p] = "none"] /\ MonRight(p, dmMon[p], dmSrv[p], dmEnd[p], dmNow) /\ p \in Monitored
  BY MonWhole DEF Daemon!Wait, Daemon!Goto, MonRight
<1>1. CASE dmMon' = [dmMon EXCEPT ![p].pc = "sleep"]
  <2>1. /\ m \in Monitors /\ m.pc = "sleep" /\ m.ign = dmMon[p].ign /\ m.index = dmMon[p].index /\ m.times = dmMon[p].times
        /\ m.forks = dmMon[p].forks /\ m.why = dmMon[p].why
    BY <1>0 DEF Monitors, Places
  <2>2. dmMon' = [dmMon EXCEPT ![p] = m]
    BY <1>1 DEF MonsRight
  <2> HIDE DEF m
  <2>3. RingRight(m)
    BY <1>0, <2>1 DEF RingRight, Noted, MonRight
  <2>4. MonRight(p, m, "none", dmEnd[p], dmNow)
    BY <1>0, <2>1, <2>3 DEF MonRight, Servers
  <2> QED BY <1>0, <2>2, <2>4, MonWhole, MonStep
<1>2. CASE Daemon!Leave(p, "ended")
  <2>1. /\ x \in Monitors /\ x.pc = "exit" /\ x.ign = dmMon[p].ign /\ x.times = dmMon[p].times
        /\ x.forks = dmMon[p].forks /\ x.why = "ended"
    BY <1>0 DEF Monitors, Places
  <2>2. dmMon' = [dmMon EXCEPT ![p] = x]
    BY <1>2 DEF MonsRight, Daemon!Leave
  <2> HIDE DEF x
  <2>3. MonRight(p, x, "none", dmEnd[p], dmNow)
    BY <1>0, <1>2, <2>1 DEF MonRight, Servers, RingRight
  <2> QED BY <1>0, <2>2, <2>3, MonWhole, MonStep
<1> QED BY <1>1, <1>2 DEF Daemon!Wait

\* The monitor has slept.
LEMMA MonSleep == ASSUME MonsRight, NEW p \in Program, Daemon!Sleep(p)  PROVE MonsRight'
<1> DEFINE m == [dmMon[p] EXCEPT !.pc = "fork"]
<1>0. dmMon[p].pc = "sleep" /\ UNCHANGED <<dmNow, dmEnd, dmSrv>> /\ dmMon[p] \in Monitors
      /\ MonRight(p, dmMon[p], dmSrv[p], dmEnd[p], dmNow)
  BY MonWhole DEF Daemon!Sleep
<1>1. /\ m \in Monitors /\ m.pc = "fork" /\ m.ign = dmMon[p].ign /\ m.index = dmMon[p].index /\ m.times = dmMon[p].times
      /\ m.forks = dmMon[p].forks /\ m.why = dmMon[p].why
  BY <1>0 DEF Monitors, Places
<1>2. dmMon' = [dmMon EXCEPT ![p] = m]
  BY DEF MonsRight, Daemon!Sleep
<1> HIDE DEF m
<1>3. RingRight(m)
  BY <1>0, <1>1 DEF RingRight, Noted, MonRight
<1>4. MonRight(p, m, dmSrv[p], dmEnd[p], dmNow)
  BY <1>0, <1>1, <1>3 DEF MonRight
<1> QED BY <1>0, <1>2, <1>4, MonWhole, MonStep

\* A server goes on, or one without a monitor is started.
LEMMA MonServe ==
    ASSUME MonsRight, NEW p \in Program, NEW s \in Daemon!Inside, UNCHANGED <<dmNow, dmMon, dmEnd>>,
           dmSrv' = [dmSrv EXCEPT ![p] = s], p \notin Monitored \/ dmSrv[p] \in Daemon!Inside
    PROVE  MonsRight'
<1>1. MonRight(p, dmMon[p], s, dmEnd[p], dmNow)
  BY MonWhole DEF MonRight, Servers, Daemon!Inside
<1> QED BY <1>1, MonWhole, MonStep

\* A server ends.
LEMMA MonEnded ==
    ASSUME MonsRight, NEW p \in Program, NEW end \in Daemon!Ends \cup {"exit 1"}, Daemon!Ended(p, end),
           dmSrv[p] \in Daemon!Inside
    PROVE  MonsRight'
<1> DEFINE s == IF dmMon[p].ign \/ dmMon[p].pc \in {"none", "exit"} THEN "gone" ELSE "zombie"
           e == IF p \in Monitored THEN end ELSE dmEnd[p]
<1>0. MonRight(p, dmMon[p], dmSrv[p], dmEnd[p], dmNow) /\ dmMon[p] \in Monitors
  BY MonWhole
<1>1. UNCHANGED <<dmNow, dmMon>> /\ dmSrv' = [dmSrv EXCEPT ![p] = s] /\ dmEnd' = [dmEnd EXCEPT ![p] = e]
  BY MonWhole DEF Daemon!Ended, Daemon!Goto
<1>2. e \in EndTypes /\ s \in Servers
  BY <1>0 DEF EndTypes, Servers, MonRight, Monitors
<1>3. MonRight(p, dmMon[p], s, e, dmNow)
  BY <1>0, <1>2 DEF MonRight, Daemon!Inside
<1> QED BY <1>1, <1>3, MonWhole, MonStep

\* Every step keeps what the monitors know.
LEMMA MonsStep == MonsRight /\ [Daemon!Next]_Daemon!dmVars => MonsRight'
<1> SUFFICES ASSUME MonsRight, [Daemon!Next]_Daemon!dmVars  PROVE MonsRight'
  OBVIOUS
<1>1. ASSUME NEW p \in Program, Daemon!Kill(p)  PROVE MonsRight'
  BY <1>1, MonLeave DEF Daemon!Kill
<1>2. ASSUME NEW p \in Program, \/ Daemon!Start(p) \/ Daemon!OpenSem(p) \/ Daemon!CreateSem(p) \/ Daemon!SetVal(p) \/ Daemon!TimeApply(p)
      PROVE  MonsRight'
  <2>1. \E s \in Daemon!Inside : dmSrv' = [dmSrv EXCEPT ![p] = s]
    BY <1>2 DEF Daemon!Start, Daemon!OpenSem, Daemon!CreateSem, Daemon!SetVal, Daemon!TimeApply,
          Daemon!Goto, Daemon!Inside
  <2>2. UNCHANGED <<dmNow, dmMon, dmEnd>> /\ (p \notin Monitored \/ dmSrv[p] \in Daemon!Inside)
    BY <1>2 DEF Daemon!Start, Daemon!OpenSem, Daemon!CreateSem, Daemon!SetVal, Daemon!TimeApply, Daemon!At,
          Daemon!Inside
  <2> QED BY <2>1, <2>2, MonServe
<1>3. ASSUME NEW p \in Program, Daemon!Excluded(p) \/ \E end \in Daemon!Ends : Daemon!End(p, end)
      PROVE MonsRight'
  BY <1>3, MonEnded DEF Daemon!Excluded, Daemon!End, Daemon!Inside
<1>4. CASE UNCHANGED Daemon!dmVars
  BY <1>4 DEF Daemon!dmVars, MonsRight
<1> QED
  BY <1>1, <1>2, <1>3, <1>4, MonTick, MonDaemon, MonFork, MonForked, MonWait, MonSleep DEF Daemon!Next

\* who runs
LEMMA RunningIn ==
    ASSUME dmSrv \in [Program -> Servers]
    PROVE  IsFiniteSet(Daemon!Running) /\ Cardinality(Daemon!Running) \in Nat
<1>1. Daemon!Running \subseteq Program
  BY DEF Daemon!Running
<1> QED BY <1>1, DaemonAssumption, FS_Subset, FS_CardinalityType

\* How the number of running programs changes with one of them.
LEMMA RunningStep ==
    ASSUME NEW p \in Program, dmSrv \in [Program -> Servers], NEW s \in Servers, dmSrv' = [dmSrv EXCEPT ![p] = s]
    PROVE  /\ s # "run" /\ dmSrv[p] # "run" => Cardinality(Daemon!Running)' = Cardinality(Daemon!Running)
           /\ s = "run" /\ dmSrv[p] # "run" => Cardinality(Daemon!Running)' = Cardinality(Daemon!Running) + 1
           /\ s # "run" /\ dmSrv[p] = "run" => Cardinality(Daemon!Running)' = Cardinality(Daemon!Running) - 1
<1> DEFINE R == Daemon!Running
<1>1. IsFiniteSet(R) /\ Cardinality(R) \in Nat
  BY RunningIn
<1>2. R' = IF s = "run" THEN R \cup {p} ELSE R \ {p}
  BY DEF Daemon!Running
<1>3. p \in R <=> dmSrv[p] = "run"
  BY DEF Daemon!Running
<1>4. Cardinality(R)' = Cardinality(IF s = "run" THEN R \cup {p} ELSE R \ {p})
  BY <1>2
<1>5. Cardinality(R \cup {p}) = IF p \in R THEN Cardinality(R) ELSE Cardinality(R) + 1
  BY <1>1, FS_AddElement
<1>6. Cardinality(R \ {p}) = IF p \in R THEN Cardinality(R) - 1 ELSE Cardinality(R)
  BY <1>1, FS_RemoveElement
<1> HIDE DEF R
<1> QED BY <1>1, <1>3, <1>4, <1>5, <1>6 DEF R

\* The servers are of their type.
LEMMA Servs == MonsRight => dmSrv \in [Program -> Servers]
  BY DEF MonsRight

\* A server goes on to another place, and the semaphore stays as it is.
LEMMA SemMove ==
    ASSUME MonsRight, SemRight, NEW p \in Program, NEW s \in Servers \ {"run"}, dmSrv[p] # "run",
           dmSrv' = [dmSrv EXCEPT ![p] = s], dmSem' \in [there : BOOLEAN, val : Nat, adj : [Program -> {0, 1}]],
           dmSem'.val = dmSem.val, dmSem'.adj = dmSem.adj, dmSets' = dmSets
    PROVE  SemRight'
<1>1. Cardinality(Daemon!Running)' = Cardinality(Daemon!Running) /\ Cardinality(Daemon!Running) \in Nat
  <2>1. dmSrv \in [Program -> Servers] /\ s \in Servers /\ s # "run"
    BY Servs
  <2> QED BY <2>1, RunningStep, RunningIn
<1>2. \A q \in Program : dmSem'.adj[q] = 1 => dmSrv'[q] = "run"
  BY DEF SemRight, MonsRight
<1> QED BY <1>1, <1>2 DEF SemRight

\* Setting the value forgets what was to be undone.
LEMMA SemSet == ASSUME MonsRight, SemRight, NEW p \in Program, Daemon!SetVal(p)  PROVE SemRight'
<1>1. dmSrv[p] = "set" /\ dmSrv' = [dmSrv EXCEPT ![p] = "apply"] /\ dmSets' = dmSets + 1
      /\ dmSem' = [dmSem EXCEPT !.val = 1, !.adj = [q \in Program |-> 0]]
  BY DEF Daemon!SetVal, Daemon!At, Daemon!Goto
<1>2. dmSem' \in [there : BOOLEAN, val : Nat, adj : [Program -> {0, 1}]] /\ dmSem'.val = 1 /\ dmSem'.adj = [q \in Program |-> 0]
  BY <1>1 DEF SemRight
<1>3. Cardinality(Daemon!Running)' = Cardinality(Daemon!Running) /\ Cardinality(Daemon!Running) \in Nat
  <2>1. dmSrv \in [Program -> Servers] /\ "apply" \in Servers
    BY Servs DEF Servers, Daemon!Inside
  <2> QED BY <1>1, <2>1, RunningStep, RunningIn
<1>4. dmSem.val \in Nat /\ dmSets \in Nat /\ Cardinality(Daemon!Running) + dmSem.val <= dmSets
  BY DEF SemRight
<1>5. Cardinality(Daemon!Running)' + dmSem'.val <= dmSets'
  BY <1>1, <1>2, <1>3, <1>4
<1> QED BY <1>1, <1>2, <1>4, <1>5 DEF SemRight

\* Who takes the semaphore runs.
LEMMA SemApply ==
    ASSUME MonsRight, SemRight, NEW p \in Program, Daemon!TimeApply(p)
    PROVE  SemRight'
<1>1. dmSrv[p] = "apply" /\ dmSrv' = [dmSrv EXCEPT ![p] = "run"] /\ dmSets' = dmSets /\ dmSem.val > 0
      /\ dmSem' = [dmSem EXCEPT !.val = @ - 1, !.adj[p] = @ + 1]
  BY DEF Daemon!TimeApply, Daemon!At, Daemon!Goto
<1>2. dmSem.adj[p] = 0 /\ dmSem.adj \in [Program -> {0, 1}] /\ dmSem.val \in Nat /\ dmSets \in Nat
      /\ Cardinality(Daemon!Running) + dmSem.val <= dmSets
  BY <1>1 DEF SemRight
<1>3. dmSem' \in [there : BOOLEAN, val : Nat, adj : [Program -> {0, 1}]] /\ dmSem'.val = dmSem.val - 1
      /\ dmSem'.adj = [dmSem.adj EXCEPT ![p] = 1]
  <2>1. dmSem \in [there : BOOLEAN, val : Nat, adj : [Program -> {0, 1}]]
    BY DEF SemRight
  <2>3. [dmSem.adj EXCEPT ![p] = dmSem.adj[p] + 1] = [dmSem.adj EXCEPT ![p] = 1]
    BY <1>2
  <2>2. dmSem' = [there |-> dmSem.there, val |-> dmSem.val - 1, adj |-> [dmSem.adj EXCEPT ![p] = 1]]
    BY <1>1, <2>1, <2>3
  <2> QED BY <1>1, <1>2, <2>1, <2>2
<1>4. Cardinality(Daemon!Running)' = Cardinality(Daemon!Running) + 1 /\ Cardinality(Daemon!Running) \in Nat
  <2>1. dmSrv \in [Program -> Servers] /\ "run" \in Servers
    BY Servs DEF Servers, Daemon!Inside
  <2> QED BY <1>1, <2>1, RunningStep, RunningIn
<1>5. \A q \in Program : dmSem'.adj[q] = 1 => dmSrv'[q] = "run"
  BY <1>1, <1>2, <1>3 DEF SemRight, MonsRight
<1>6. dmSem'.adj[p] = 1
  BY <1>2, <1>3
<1>7. Cardinality(Daemon!Running)' + dmSem'.val <= dmSets'
  BY <1>1, <1>2, <1>3, <1>4
<1> QED BY <1>1, <1>2, <1>3, <1>5, <1>6, <1>7 DEF SemRight

\* What a program took of the semaphore is there again when it ends.
LEMMA SemEnded ==
    ASSUME MonsRight, SemRight, NEW p \in Program, NEW end, Daemon!Ended(p, end)
    PROVE  SemRight'
<1>1. PICK s \in {"gone", "zombie"} : dmSrv' = [dmSrv EXCEPT ![p] = s]
  BY DEF Daemon!Ended, Daemon!Goto
<1>2. dmSem' = [dmSem EXCEPT !.val = @ + dmSem.adj[p], !.adj[p] = 0] /\ dmSets' = dmSets
  BY DEF Daemon!Ended
<1>3. dmSem.adj[p] \in {0, 1} /\ dmSem.adj \in [Program -> {0, 1}] /\ dmSem.val \in Nat /\ dmSets \in Nat
      /\ Cardinality(Daemon!Running) + dmSem.val <= dmSets /\ (dmSem.adj[p] = 1 => dmSrv[p] = "run")
  BY <1>1 DEF SemRight
<1>4. dmSem' \in [there : BOOLEAN, val : Nat, adj : [Program -> {0, 1}]] /\ dmSem'.val = dmSem.val + dmSem.adj[p]
      /\ dmSem'.adj = [dmSem.adj EXCEPT ![p] = 0]
  <2>1. dmSem \in [there : BOOLEAN, val : Nat, adj : [Program -> {0, 1}]]
    BY DEF SemRight
  <2>2. dmSem' = [there |-> dmSem.there, val |-> dmSem.val + dmSem.adj[p], adj |-> [dmSem.adj EXCEPT ![p] = 0]]
    BY <1>2, <1>3, <2>1
  <2> QED BY <1>2, <1>3, <2>1, <2>2
<1>5. Cardinality(Daemon!Running)' = Cardinality(Daemon!Running) - (IF dmSrv[p] = "run" THEN 1 ELSE 0)
      /\ Cardinality(Daemon!Running) \in Nat
  <2>1. dmSrv \in [Program -> Servers] /\ s \in Servers /\ s # "run"
    BY Servs DEF Servers, Daemon!Inside
  <2>2. Cardinality(Daemon!Running) \in Nat
    BY <2>1, RunningIn
  <2>3. CASE dmSrv[p] = "run"
    BY <1>1, <2>1, <2>2, <2>3, RunningStep
  <2>4. CASE dmSrv[p] # "run"
    <3>1. Cardinality(Daemon!Running)' = Cardinality(Daemon!Running)
      BY <1>1, <2>1, <2>4, RunningStep
    <3> QED BY <2>2, <2>4, <3>1
  <2> QED BY <2>3, <2>4
<1>6. \A q \in Program : dmSem'.adj[q] = 1 => dmSrv'[q] = "run"
  BY <1>1, <1>3, <1>4 DEF SemRight, MonsRight
<1>7. Cardinality(Daemon!Running)' + dmSem'.val <= dmSets'
  <2>1. CASE dmSem.adj[p] = 1
    BY <2>1, <1>2, <1>3, <1>4, <1>5
  <2>2. CASE dmSem.adj[p] = 0
    <3>1. Cardinality(Daemon!Running)' <= Cardinality(Daemon!Running) /\ Cardinality(Daemon!Running)' \in Int
      BY <1>5
    <3> QED BY <3>1, <2>2, <1>2, <1>3, <1>4, <1>5
  <2> QED BY <2>1, <2>2, <1>3
<1>8. dmSets' > 0 => dmSem'.val > 0 \/ \E q \in Program : dmSem'.adj[q] = 1
  BY <1>2, <1>3, <1>4 DEF SemRight
<1> QED BY <1>2, <1>3, <1>4, <1>6, <1>7, <1>8 DEF SemRight

\* Every step keeps the semaphore and who runs together.
LEMMA SemStep == MonsRight /\ SemRight /\ [Daemon!Next]_Daemon!dmVars => SemRight'
<1> SUFFICES ASSUME MonsRight, SemRight, [Daemon!Next]_Daemon!dmVars  PROVE SemRight'
  OBVIOUS
<1>1. ASSUME NEW p \in Program, NEW s \in Servers \ {"run"}, dmSrv[p] # "run", dmSrv' = [dmSrv EXCEPT ![p] = s], UNCHANGED <<dmSem, dmSets>>
      PROVE  SemRight'
  BY <1>1, SemMove DEF SemRight
<1>2. ASSUME UNCHANGED <<dmSrv, dmSem, dmSets>>  PROVE SemRight'
  <2>1. Daemon!Running' = Daemon!Running
    BY <1>2 DEF Daemon!Running
  <2> QED BY <1>2, <2>1 DEF SemRight
<1>3. CASE Daemon!Tick \/ UNCHANGED Daemon!dmVars
  BY <1>2, <1>3 DEF Daemon!Tick, Daemon!dmVars, Daemon!semVars
<1>4. ASSUME NEW p \in Program, Daemon!Daemon(p) \/ Daemon!Forked(p) \/ Daemon!Kill(p) \/ Daemon!Sleep(p)
      PROVE SemRight'
  BY <1>2, <1>4 DEF Daemon!Daemon, Daemon!Forked, Daemon!Kill, Daemon!Sleep, Daemon!semVars
<1>5. ASSUME NEW p \in Program, Daemon!Fork(p)  PROVE SemRight'
  <2>1. dmSrv[p] = "none"
    BY <1>5, MonWhole DEF Daemon!Fork, MonRight
  <2>2. UNCHANGED <<dmSem, dmSets>> /\ (UNCHANGED dmSrv \/ dmSrv' = [dmSrv EXCEPT ![p] = "open"])
    BY <1>5 DEF Daemon!Fork, Daemon!Goto, Daemon!semVars
  <2> QED BY <1>1, <1>2, <2>1, <2>2 DEF Servers, Daemon!Inside
<1>6. ASSUME NEW p \in Program, Daemon!Wait(p) \/ Daemon!Start(p) \/ Daemon!OpenSem(p)  PROVE SemRight'
  <2>1. UNCHANGED <<dmSem, dmSets>> /\ dmSrv[p] # "run" /\ \E s \in {"none", "open", "apply", "create"} : dmSrv' = [dmSrv EXCEPT ![p] = s]
    BY <1>6 DEF Daemon!Wait, Daemon!Start, Daemon!OpenSem, Daemon!Goto, Daemon!At, Daemon!semVars
  <2> QED BY <1>1, <2>1 DEF Servers, Daemon!Inside
<1>7. ASSUME NEW p \in Program, Daemon!CreateSem(p)  PROVE SemRight'
  <2>1. dmSem' = [dmSem EXCEPT !.there = TRUE] /\ dmSets' = dmSets /\ dmSrv[p] # "run" /\ dmSrv' = [dmSrv EXCEPT ![p] = "set"]
    BY <1>7 DEF Daemon!CreateSem, Daemon!Goto, Daemon!At
  <2>2. dmSem' \in [there : BOOLEAN, val : Nat, adj : [Program -> {0, 1}]] /\ dmSem'.val = dmSem.val /\ dmSem'.adj = dmSem.adj
    BY <2>1 DEF SemRight
  <2> QED BY <2>1, <2>2, SemMove DEF Servers, Daemon!Inside
<1>8. ASSUME NEW p \in Program, Daemon!Excluded(p) \/ \E end \in Daemon!Ends : Daemon!End(p, end)
      PROVE SemRight'
  BY <1>8, SemEnded DEF Daemon!Excluded, Daemon!End
<1> QED BY <1>3, <1>4, <1>5, <1>6, <1>7, <1>8, SemSet, SemApply DEF Daemon!Next

\* At first there is no semaphore.
LEMMA SemInit == Daemon!Init => SemRight
<1>1. Daemon!Init => Daemon!Running = {}
  BY DEF Daemon!Init, Daemon!Running
<1> QED BY <1>1, FS_EmptySet DEF Daemon!Init, SemRight

\* No more servers run than calls set the semaphore, and whoever ends lets one in; and a
\* monitor forks fewer than KRestart times in any KTimeout seconds (system.hh).
THEOREM DaemonsKept == Daemon!Spec => [](Daemon!OnePerSetVal /\ Daemon!RestartsBounded)
<1>1. Daemon!Init => DaemonInv
  BY MonInit, SemInit DEF DaemonInv
<1>2. DaemonInv /\ [Daemon!Next]_Daemon!dmVars => DaemonInv'
  BY MonsStep, SemStep DEF DaemonInv
<1>3. DaemonInv => Daemon!OnePerSetVal /\ Daemon!RestartsBounded
  <2> SUFFICES ASSUME DaemonInv  PROVE Daemon!OnePerSetVal /\ Daemon!RestartsBounded
    OBVIOUS
  <2>1. Daemon!OnePerSetVal
    <3>1. Daemon!Cardinality(Daemon!Running) = Cardinality(Daemon!Running)
      BY CardDaemon
    <3>2. \A q \in Program : dmSem.adj[q] = 1 => q \in Daemon!Running
      BY DEF DaemonInv, SemRight, Daemon!Running
    <3> QED BY <3>1, <3>2 DEF Daemon!OnePerSetVal, DaemonInv, SemRight
  <2>2. Daemon!RestartsBounded
    BY DEF DaemonInv, MonsRight, MonRight, ForksApart, Daemon!RestartsBounded
  <2> QED BY <2>1, <2>2
<1> QED BY <1>1, <1>2, <1>3, PTL DEF Daemon!Spec

----------------------------------------------------------------------------
(* Sockets (sockets.hh) *)

SockEnds == Addrs \cup {"none", "auto"}
SockTypes == [fam : {0, 4, 6}, bound : SockEnds, is : {"new", "listening", "connecting", "connected"}, peer : SockEnds]
UdpPlaces == Addrs \cup {"none"}

\* A socket and what its object says of it
SockRight(s, peer) == s \in SockTypes /\ (s.peer # "none" => peer = s.peer) /\ (s.is # "new" => s.fam # 0)

TcpInv ==
    /\ skSock \in [Sock!Objects -> SockTypes] /\ skPeer \in [Sock!Objects -> SockEnds]
    /\ \A o \in Sock!Objects : SockRight(skSock[o], skPeer[o])
    /\ skOut \in Seq(Nat) /\ skSent \in Seq(Nat) /\ skBuf \in Seq(Nat)
    /\ skBuf \o skOut = skSent

Datagrams == [from : Addrs, to : Addrs, len : Nat]
UdpSocks == [fam : {0, 4, 6}, bound : UdpPlaces, is : {"new"}, peer : UdpPlaces]

UdpRight(u) ==
    /\ u \in [sock : UdpSocks, peer : UdpPlaces, queue : Seq(Datagrams)]
    /\ u.sock.peer # "none" => u.peer = u.sock.peer
    /\ u.queue \in Seq(udNet)

UdpInv ==
    /\ udNet \subseteq Datagrams
    /\ DOMAIN udp = Sock!Udps /\ \A o \in Sock!Udps : UdpRight(udp[o])
    /\ Sock!FromIsSender

\* A socket that socket() has just made.
LEMMA MadeSock == \A f : Sock!Made(f) = [fam |-> 4, bound |-> "none", is |-> "new", peer |-> "none"]
  BY DEF Sock!Made, Sock!NoSocket, Sock!None

\* No socket.
LEMMA NoSock == Sock!NoSocket = [fam |-> 0, bound |-> "none", is |-> "new", peer |-> "none"]
  BY DEF Sock!NoSocket, Sock!None

\* One object's socket changes.
LEMMA SockSet ==
    ASSUME TcpInv, NEW o \in Sock!Objects, NEW s, NEW peer \in SockEnds, SockRight(s, peer),
           skSock' = [skSock EXCEPT ![o] = s], skPeer' = [skPeer EXCEPT ![o] = peer],
           skOut' \in Seq(Nat), skSent' \in Seq(Nat), skBuf' \in Seq(Nat), skBuf' \o skOut' = skSent'
    PROVE  TcpInv'
<1>1. s \in SockTypes
  BY DEF SockRight
<1>2. skSock' \in [Sock!Objects -> SockTypes] /\ skPeer' \in [Sock!Objects -> SockEnds]
  BY <1>1 DEF TcpInv
<1>3. \A q \in Sock!Objects : SockRight(skSock[q], skPeer[q])'
  <2> TAKE q \in Sock!Objects
  <2>1. CASE q = o
    <3>1. skSock'[q] = s /\ skPeer'[q] = peer
      BY <2>1 DEF TcpInv
    <3> QED BY <3>1 DEF SockRight
  <2>2. CASE q # o
    <3>1. skSock'[q] = skSock[q] /\ skPeer'[q] = skPeer[q]
      BY <2>2 DEF TcpInv
    <3> QED BY <3>1 DEF SockRight, TcpInv
  <2> QED BY <2>1, <2>2
<1> QED BY <1>2, <1>3 DEF TcpInv

\* An object keeps its peer when nothing is assigned to it.
LEMMA PeerSame ==
    ASSUME TcpInv, NEW o \in Sock!Objects
    PROVE  skPeer = [skPeer EXCEPT ![o] = skPeer[o]] /\ skPeer[o] \in SockEnds
  BY DEF TcpInv

\* The socket changes, the peer and the wire do not.
LEMMA SockOnly ==
    ASSUME TcpInv, NEW o \in Sock!Objects, NEW s, SockRight(s, skPeer[o]),
           skSock' = [skSock EXCEPT ![o] = s],
           skPeer' = skPeer, UNCHANGED Sock!wire \/ Sock!NewWire
    PROVE  TcpInv'
<1>1. skPeer' = [skPeer EXCEPT ![o] = skPeer[o]] /\ skPeer[o] \in SockEnds
  BY PeerSame
<1>2. skOut' \in Seq(Nat) /\ skSent' \in Seq(Nat) /\ skBuf' \in Seq(Nat) /\ skBuf' \o skOut' = skSent'
  <2>1. CASE UNCHANGED Sock!wire
    BY <2>1 DEF TcpInv, Sock!wire
  <2>2. CASE Sock!NewWire
    <3>1. skOut' = <<>> /\ skSent' = <<>> /\ skBuf' = <<>>
      BY <2>2 DEF Sock!NewWire
    <3>2. <<>> \in Seq(Nat) /\ <<>> \o <<>> = <<>>
      OBVIOUS
    <3> QED BY <3>1, <3>2
  <2> QED BY <2>1, <2>2
<1> QED BY <1>1, <1>2, SockSet

\* What TcpInv says of one object.
LEMMA SockWhole == ASSUME TcpInv, NEW o \in Sock!Objects
  PROVE skSock[o] \in SockTypes /\ SockRight(skSock[o], skPeer[o])
  BY DEF TcpInv

\* ensureSocket gives a socket that is right, and keeps the one there is.
LEMMA EnsuredRight ==
    ASSUME TcpInv, NEW o \in Sock!Objects, NEW a
    PROVE  /\ SockRight(Sock!Ensured(o, a), skPeer[o]) /\ Sock!Ensured(o, a).fam # 0
           /\ Sock!Valid(o) => Sock!Ensured(o, a) = skSock[o]
           /\ ~Sock!Valid(o) => Sock!Ensured(o, a).bound = "none"
<1>1. CASE Sock!Valid(o)
  BY <1>1, SockWhole DEF Sock!Ensured, Sock!Valid
<1>2. CASE ~Sock!Valid(o)
  BY <1>2, MadeSock DEF Sock!Ensured, SockRight, SockTypes, SockEnds
<1> QED BY <1>1, <1>2

\* getSocket keeps TcpInv.
LEMMA TcpGet ==
    ASSUME TcpInv, NEW o \in {"listener", "client"}, NEW fam, Sock!GetSock(o, fam)
    PROVE  TcpInv'
<1> DEFINE s == Sock!Made(fam)
<1>1. SockRight(s, skPeer[o])
  BY MadeSock DEF SockRight, SockTypes, SockEnds
<1> QED BY <1>1, SockOnly DEF Sock!GetSock, Sock!Objects

\* bindAddr keeps TcpInv.
LEMMA TcpBind ==
    ASSUME TcpInv, NEW o \in {"listener", "client"}, NEW a \in Addrs, Sock!BindAddr(o, a)
    PROVE  TcpInv'
<1> DEFINE s == Sock!Ensured(o, a)
<1>0. o \in Sock!Objects
  BY DEF Sock!Objects
<1>1. SockRight(s, skPeer[o]) /\ s.fam # 0 /\ (Sock!Valid(o) => s = skSock[o]) /\ (~Sock!Valid(o) => s.bound = "none")
  BY <1>0, EnsuredRight
<1>2. CASE Sock!CanBind(s, a)
  <2> DEFINE t == [s EXCEPT !.bound = a]
  <2>1. skSock' = [skSock EXCEPT ![o] = t] /\ UNCHANGED <<skPeer, Sock!wire>>
    BY <1>2 DEF Sock!BindAddr, Sock!wire
  <2>2. SockRight(t, skPeer[o]) /\ t.bound = a
    BY <1>1 DEF SockRight, SockTypes, SockEnds
  <2> HIDE DEF t
  <2> QED BY <1>0, <2>1, <2>2, SockOnly
<1>3. CASE ~Sock!CanBind(s, a)
  <2>1. skSock' = [skSock EXCEPT ![o] = s] /\ UNCHANGED <<skPeer, Sock!wire>>
    BY <1>3 DEF Sock!BindAddr, Sock!wire, Sock!None
  <2> HIDE DEF s
  <2> QED BY <1>0, <1>1, <2>1, SockOnly
<1> QED BY <1>2, <1>3

\* listenAddr keeps TcpInv.
LEMMA TcpListen == ASSUME TcpInv, NEW a \in Addrs, Sock!ListenAddr(a) PROVE TcpInv'
<1> DEFINE s == Sock!Ensured("listener", a)
           b == IF ~Sock!Valid("listener") THEN [s EXCEPT !.bound = a] ELSE s
           t == [b EXCEPT !.is = "listening", !.bound = IF @ = "none" THEN "auto" ELSE @]
<1>0. "listener" \in Sock!Objects
  BY DEF Sock!Objects
<1>1. /\ SockRight(s, skPeer["listener"]) /\ s.fam # 0 
      /\ Sock!Valid("listener") => s = skSock["listener"]
      /\ ~Sock!Valid("listener") => s.bound = "none"
  BY <1>0, EnsuredRight
<1>2. CASE ~Sock!Valid("listener") /\ ~Sock!CanBind(s, a)
  <2>1. skSock' = [skSock EXCEPT !["listener"] = s] /\ UNCHANGED <<skPeer, Sock!wire>>
    BY <1>2 DEF Sock!ListenAddr, Sock!wire
  <2> HIDE DEF s
  <2> QED BY <1>0, <1>1, <2>1, SockOnly
<1>3. CASE ~(~Sock!Valid("listener") /\ ~Sock!CanBind(s, a))
  <2>1. skSock' = [skSock EXCEPT !["listener"] = t] /\ UNCHANGED <<skPeer, Sock!wire>>
    BY <1>3 DEF Sock!ListenAddr, Sock!wire, Sock!None, Sock!Auto
  <2>2. b \in SockTypes /\ b.fam = s.fam /\ b.peer = s.peer /\ b.bound = IF ~Sock!Valid("listener") THEN a ELSE s.bound
    BY <1>1 DEF SockRight, SockTypes, SockEnds
  <2> HIDE DEF b
  <2>3. t \in SockTypes /\ t.fam = b.fam /\ t.peer = b.peer /\ t.is = "listening" /\ t.bound = IF b.bound = "none" THEN "auto" ELSE b.bound
    BY <2>2 DEF SockTypes, SockEnds
  <2> HIDE DEF t, s
  <2>4. SockRight(t, skPeer["listener"])
    BY <1>1, <2>2, <2>3 DEF SockRight
  <2> QED BY <1>0, <2>1, <2>4, SockOnly
<1> QED BY <1>2, <1>3

\* connectTo
LEMMA ConnectedRight ==
    ASSUME NEW s, s \in SockTypes, s.fam # 0, NEW a \in Addrs, NEW pending, Sock!Connected(s, a, pending)
    PROVE  \E t : SockRight(t, a) /\ skSock' = [skSock EXCEPT !["client"] = t]
<1> DEFINE t1 == [s EXCEPT !.is = "connected", !.peer = a, !.bound = "auto"]
           t2 == [s EXCEPT !.is = "connecting", !.peer = a, !.bound = "auto"]
<1>1. SockRight(t1, a) /\ SockRight(t2, a)
  BY DEF SockRight, SockTypes, SockEnds
<1>2. skSock' = [skSock EXCEPT !["client"] = t1] \/ skSock' = [skSock EXCEPT !["client"] = t2]
  BY DEF Sock!Connected, Sock!Auto
<1> QED BY <1>1, <1>2

\* connectAddr keeps TcpInv.
LEMMA TcpConnect == ASSUME TcpInv, NEW a \in Addrs, Sock!ConnectAddr(a) PROVE TcpInv'
<1> DEFINE s == Sock!Ensured("client", a)
<1>0. "client" \in Sock!Objects
  BY DEF Sock!Objects
<1>1. SockRight(s, skPeer["client"]) /\ s.fam # 0
  BY <1>0, EnsuredRight
<1>2. CASE Sock!Connected(s, a, skPending) /\ skPeer' = [skPeer EXCEPT !["client"] = a] /\ Sock!NewWire
  <2>1. PICK t : SockRight(t, a) /\ skSock' = [skSock EXCEPT !["client"] = t]
    BY <1>1, <1>2, ConnectedRight DEF SockRight
  <2>2. skOut' \in Seq(Nat) /\ skSent' \in Seq(Nat) /\ skBuf' \in Seq(Nat) /\ skBuf' \o skOut' = skSent'
    BY <1>2 DEF Sock!NewWire
  <2> QED BY <1>0, <1>2, <2>1, <2>2, SockSet DEF SockEnds
<1>3. CASE skSock' = [skSock EXCEPT !["client"] = s] /\ UNCHANGED <<skPeer, Sock!wire>>
  BY <1>0, <1>1, <1>3, SockOnly DEF Sock!ConnectAddr
<1> QED BY <1>2, <1>3 DEF Sock!ConnectAddr, Sock!wire

\* Connecting again to the peer keeps TcpInv.
LEMMA TcpReconnect == ASSUME TcpInv, Sock!Reconnect PROVE TcpInv'
<1> DEFINE a == skPeer["client"]  s == Sock!Made(Sock!Family[a])
<1>0. "client" \in Sock!Objects
  BY DEF Sock!Objects
<1>1. s \in SockTypes /\ s.fam # 0 /\ SockRight(s, a)
  BY MadeSock DEF SockRight, SockTypes, SockEnds
<1>2. Sock!NewWire /\ UNCHANGED skPeer /\ a # "none"
  BY DEF Sock!Reconnect, Sock!None
<1>3. CASE Sock!Connected(s, a, Sock!GivenUp)
  <2>1. PICK t : SockRight(t, a) /\ skSock' = [skSock EXCEPT !["client"] = t]
    <3>1. a \in SockEnds /\ a # "none"
      BY <1>0, <1>2 DEF TcpInv
    <3> DEFINE t1 == [s EXCEPT !.is = "connected", !.peer = a, !.bound = "auto"]
               t2 == [s EXCEPT !.is = "connecting", !.peer = a, !.bound = "auto"]
    <3>2. SockRight(t1, a) /\ SockRight(t2, a)
      BY <1>1, <3>1 DEF SockRight, SockTypes, SockEnds
    <3>3. skSock' = [skSock EXCEPT !["client"] = t1] \/ skSock' = [skSock EXCEPT !["client"] = t2]
      BY <1>3 DEF Sock!Connected, Sock!Auto
    <3> QED BY <3>2, <3>3
  <2> QED BY <1>0, <1>2, <2>1, SockOnly
<1>4. CASE skSock' = [skSock EXCEPT !["client"] = s]
  BY <1>0, <1>1, <1>2, <1>4, SockOnly
<1> QED BY <1>3, <1>4 DEF Sock!Reconnect

\* A connection that comes about keeps TcpInv.
LEMMA TcpProgress == ASSUME TcpInv, Sock!Progress PROVE TcpInv'
<1> DEFINE s == skSock["client"]
           t1 == [s EXCEPT !.is = "connected"]  t2 == [s EXCEPT !.is = "new", !.peer = "none"]
<1>0. "client" \in Sock!Objects
  BY DEF Sock!Objects
<1>1. SockRight(s, skPeer["client"]) /\ s.is = "connecting"
  BY <1>0, SockWhole DEF Sock!Progress
<1>2. SockRight(t1, skPeer["client"]) /\ SockRight(t2, skPeer["client"])
  BY <1>1 DEF SockRight, SockTypes, SockEnds
<1>3. skSock' = [skSock EXCEPT !["client"] = t1] \/ skSock' = [skSock EXCEPT !["client"] = t2]
  BY DEF Sock!Progress, Sock!None
<1> HIDE DEF t1, t2
<1> QED BY <1>0, <1>2, <1>3, SockOnly DEF Sock!Progress

\* acceptSocket keeps TcpInv.
LEMMA TcpAccept == ASSUME TcpInv, Sock!AcceptSocket PROVE TcpInv'
<1> DEFINE s == [fam |-> 4, bound |-> "none", is |-> "connected", peer |-> "auto"]
<1>0. "server" \in Sock!Objects
  BY DEF Sock!Objects
<1>1. SockRight(s, "auto")
  BY DEF SockRight, SockTypes, SockEnds
<1>2. CASE skPending # <<>>
  <2>1. skSock' = [skSock EXCEPT !["server"] = s] /\ skPeer' = [skPeer EXCEPT !["server"] = "auto"] /\ UNCHANGED <<skOut, skSent, skBuf>>
    BY <1>2 DEF Sock!AcceptSocket, Sock!None, Sock!Auto
  <2>2. skOut' \in Seq(Nat) /\ skSent' \in Seq(Nat) /\ skBuf' \in Seq(Nat) /\ skBuf' \o skOut' = skSent'
    BY <2>1 DEF TcpInv
  <2> HIDE DEF s
  <2> QED BY <1>0, <1>1, <2>1, <2>2, SockSet DEF SockEnds
<1>3. CASE skPending = <<>>
  BY <1>3 DEF Sock!AcceptSocket, TcpInv
<1> QED BY <1>2, <1>3

\* close keeps TcpInv.
LEMMA TcpClose == ASSUME TcpInv, NEW o \in Sock!Objects, Sock!Close(o) PROVE TcpInv'
<1>1. SockRight(Sock!NoSocket, skPeer[o])
  BY NoSock DEF SockRight, SockTypes, SockEnds
<1> QED BY <1>1, SockOnly DEF Sock!Close

\* Joining is associative.
LEMMA JoinNats == \A a, b, c \in Seq(Nat) : a \o (b \o c) = (a \o b) \o c
  OBVIOUS

\* What is sent goes behind what is under way.
LEMMA TcpSend == ASSUME TcpInv, NEW n \in 1..2, Sock!SendData(n) PROVE TcpInv'
<1> DEFINE data == [i \in 1..n |-> Len(skSent) + i]
<1>1. data \in Seq(Nat)
  BY DEF TcpInv
<1>2. skOut' = skOut \o data /\ skSent' = skSent \o data /\ skBuf' = skBuf /\ UNCHANGED <<skSock, skPeer>>
  BY DEF Sock!SendData
<1> HIDE DEF data
<1>3. skOut' \in Seq(Nat) /\ skSent' \in Seq(Nat)
  BY <1>1, <1>2 DEF TcpInv
<1>4. skBuf \o (skOut \o data) = (skBuf \o skOut) \o data
  <2>1. skBuf \in Seq(Nat) /\ skOut \in Seq(Nat)
    BY DEF TcpInv
  <2> QED BY <1>1, <2>1, JoinNats, Zenon
<1> QED BY <1>2, <1>3, <1>4 DEF TcpInv

\* recvData puts what came behind what the buffer held.
LEMMA ReceivedRight ==
    ASSUME NEW T, NEW U, NEW buf \in Seq(T), NEW sz \in Nat, NEW data \in Seq(U), NEW ret \in Nat, ret > 0, ret <= sz, ret <= Len(data)
    PROVE  Sock!Received(buf, sz, data, ret) = buf \o SubSeq(data, 1, ret)
<1> DEFINE z == [i \in 1..sz |-> 0]
           grown == buf \o z
           got == [i \in DOMAIN grown |-> IF i \in Len(buf) + 1 .. Len(buf) + ret THEN data[i - Len(buf)] ELSE grown[i]]
           r == IF ret < sz THEN SubSeq(got, 1, Len(buf) + ret) ELSE got
           want == buf \o SubSeq(data, 1, ret)
<1>1. Sock!Received(buf, sz, data, ret) = r
  <2>1. ~(ret <= 0)
    OBVIOUS
  <2> QED BY <2>1, Zenon DEF Sock!Received
<1>2. z \in Seq({0}) /\ Len(z) = sz
  OBVIOUS
<1> HIDE DEF z
<1>3. Len(grown) = Len(buf) + sz /\ DOMAIN grown = 1..Len(buf) + sz /\ \A i \in 1..Len(buf) : grown[i] = buf[i]
  BY <1>2
<1> HIDE DEF grown
<1>4. r = [i \in 1..Len(buf) + ret |-> IF i <= Len(buf) THEN buf[i] ELSE data[i - Len(buf)]]
  <2>1. got = [i \in 1..Len(buf) + sz |-> IF i \in Len(buf) + 1 .. Len(buf) + ret THEN data[i - Len(buf)] ELSE grown[i]]
    BY <1>3
  <2>2. CASE ret < sz
    <3>1. r = SubSeq(got, 1, Len(buf) + ret)
      BY <2>2
    <3>2. SubSeq(got, 1, Len(buf) + ret) = [i \in 1..Len(buf) + ret |-> got[i]]
      <4> DEFINE n == Len(buf) + sz  W == {got[i] : i \in 1..n}
      <4>1. got \in [1..n -> W]
        BY <1>3, Zenon
      <4>0. n \in Nat /\ Len(buf) + ret \in 0..n
        BY <2>2
      <4> HIDE DEF got, n, W
      <4>2. got \in Seq(W) /\ Len(got) = n
        BY <4>1, <4>0
      <4> QED BY <4>2, <4>0
    <3> HIDE DEF got, r
    <3>3. \A i \in 1..Len(buf) + ret : got[i] = IF i <= Len(buf) THEN buf[i] ELSE data[i - Len(buf)]
      BY <2>1, <2>2, <1>3
    <3> QED BY <3>1, <3>2, <3>3
  <2>3. CASE ret = sz
    <3>1. r = got
      BY <2>3
    <3> HIDE DEF got, r
    <3> QED BY <2>1, <2>3, <3>1, <1>3
  <2> QED BY <2>2, <2>3
<1>5. want = [i \in 1..Len(buf) + ret |-> IF i <= Len(buf) THEN buf[i] ELSE data[i - Len(buf)]]
  OBVIOUS
<1> QED BY <1>1, <1>4, <1>5

\* What is received comes off the front of what is under way.
LEMMA TcpRecv ==
    ASSUME TcpInv, NEW sz \in 1..2, NEW n \in -1..2, Sock!RecvData(sz, n)
    PROVE  TcpInv'
<1> DEFINE rest == SubSeq(skOut, n + 1, Len(skOut))
<1>1. skOut \in Seq(Nat) /\ skBuf \in Seq(Nat) /\ n <= sz /\ n <= Len(skOut) /\ UNCHANGED <<skSock, skPeer, skSent>>
  BY DEF TcpInv, Sock!RecvData
<1>2. CASE n > 0
  <2>1. skBuf' = skBuf \o SubSeq(skOut, 1, n) /\ skOut' = rest
    <3>1. Sock!Received(skBuf, sz, skOut, n) = skBuf \o SubSeq(skOut, 1, n)
      <4>1. skBuf \in Seq(Nat) /\ skOut \in Seq(Nat) /\ n \in Nat /\ sz \in Nat /\ n > 0 /\ n <= sz /\ n <= Len(skOut)
        BY <1>1, <1>2
      <4> HIDE DEF rest
      <4> QED BY <4>1, ReceivedRight
    <3> QED BY <1>2, <3>1 DEF Sock!RecvData
  <2>2. SubSeq(skOut, 1, n) \in Seq(Nat) /\ rest \in Seq(Nat) /\ SubSeq(skOut, 1, n) \o rest = skOut
    <3>1. n \in 1..Len(skOut)
      BY <1>1, <1>2
    <3> QED BY <1>1, <3>1, CutInTwo, Zenon
  <2>3. (skBuf \o SubSeq(skOut, 1, n)) \o rest = skBuf \o (SubSeq(skOut, 1, n) \o rest)
    BY <1>1, <2>2, JoinNats, Zenon
  <2> HIDE DEF rest
  <2>4. skBuf' \in Seq(Nat) /\ skOut' \in Seq(Nat)
    BY <1>1, <2>1, <2>2
  <2>5. skBuf' \o skOut' = skSent'
    BY <1>1, <2>1, <2>2, <2>3 DEF TcpInv
  <2> QED BY <1>1, <2>4, <2>5 DEF TcpInv
<1>3. CASE ~(n > 0)
  <2>1. n <= 0
    BY <1>3
  <2>2. skBuf' = skBuf /\ skOut' = skOut
    BY <1>3, <2>1 DEF Sock!RecvData, Sock!Received
  <2> QED BY <1>1, <2>2 DEF TcpInv
<1> QED BY <1>2, <1>3

\* Every step of a connection keeps TcpInv.
LEMMA TcpStep == TcpInv /\ [Sock!NextTcp]_Sock!skVars => TcpInv'
<1> SUFFICES ASSUME TcpInv, [Sock!NextTcp]_Sock!skVars  PROVE TcpInv'
  OBVIOUS
<1>1. CASE UNCHANGED Sock!skVars
  BY <1>1 DEF TcpInv, Sock!skVars
<1> QED
  BY <1>1, TcpGet, TcpBind, TcpListen, TcpConnect, TcpReconnect, TcpProgress, TcpAccept, TcpClose, TcpSend,
        TcpRecv
  DEF Sock!NextTcp

----------------------------------------------------------------------------

\* One object changes.
LEMMA UdpSet ==
    ASSUME UdpInv, NEW o \in Sock!Udps, NEW u, UdpRight(u), udp' = [udp EXCEPT ![o] = u], UNCHANGED udNet, Sock!NoCall
    PROVE  UdpInv'
<1>1. DOMAIN udp' = Sock!Udps
  BY DEF UdpInv
<1>2. \A q \in Sock!Udps : UdpRight(udp[q])'
  <2> TAKE q \in Sock!Udps
  <2>1. udp'[q] = IF q = o THEN u ELSE udp[q]
    BY DEF UdpInv
  <2>2. CASE q = o
    BY <2>1, <2>2 DEF UdpRight
  <2>3. CASE q # o
    <3>1. UdpRight(udp[q]) /\ udp'[q] = udp[q]
      BY <2>1, <2>3 DEF UdpInv
    <3> QED BY <3>1 DEF UdpRight
  <2> QED BY <2>2, <2>3
<1>3. Sock!FromIsSender'
  BY DEF Sock!FromIsSender, Sock!NoCall
<1> QED BY <1>1, <1>2, <1>3 DEF UdpInv

\* What UdpInv says of one object.
LEMMA UdpWhole ==
    ASSUME UdpInv, NEW o \in Sock!Udps
    PROVE  UdpRight(udp[o]) /\ udp[o].sock \in UdpSocks
  BY DEF UdpInv, UdpRight

\* An object's socket changes, outside of a call that receives.
LEMMA UdpSock ==
    ASSUME UdpInv, NEW o \in Sock!Udps, NEW s \in UdpSocks, s.peer \in {"none", udp[o].sock.peer},
           udp' = [udp EXCEPT ![o].sock = s], UNCHANGED udNet, Sock!NoCall
    PROVE  UdpInv'
<1> DEFINE u == [udp[o] EXCEPT !.sock = s]
<1>1. /\ u.sock = s /\ u.peer = udp[o].peer /\ u.queue = udp[o].queue
      /\ u \in [sock : UdpSocks, peer : UdpPlaces, queue : Seq(Datagrams)]
  BY UdpWhole DEF UdpRight
<1>2. UdpRight(u)
  <2> HIDE DEF u
  <2> QED BY <1>1, UdpWhole DEF UdpRight
<1>3. udp' = [udp EXCEPT ![o] = u]
  OBVIOUS
<1> HIDE DEF u
<1> QED BY <1>2, <1>3, UdpSet

\* ensureSocket keeps the peer or forgets it.
LEMMA UdpEnsuredRight ==
    ASSUME UdpInv, NEW o \in Sock!Udps, NEW a
    PROVE  /\ Sock!UdpEnsured(o, a) \in UdpSocks /\ Sock!UdpEnsured(o, a).peer \in {"none", udp[o].sock.peer}
<1>1. CASE Sock!UdpValid(o)
  BY <1>1, UdpWhole DEF Sock!UdpEnsured
<1>2. CASE ~Sock!UdpValid(o)
  BY <1>2, MadeSock DEF Sock!UdpEnsured, UdpSocks, UdpPlaces
<1> QED BY <1>1, <1>2

\* bindAddr keeps UdpInv.
LEMMA UdpBind ==
    ASSUME UdpInv, NEW o \in Sock!Udps, NEW a \in Addrs, Sock!BindUdp(o, a)
    PROVE  UdpInv'
<1> DEFINE s == Sock!UdpEnsured(o, a)  t == [s EXCEPT !.bound = a]
<1>1. s \in UdpSocks /\ s.peer \in {"none", udp[o].sock.peer}
  BY UdpEnsuredRight
<1>2. udp' = [udp EXCEPT ![o].sock = s] \/ udp' = [udp EXCEPT ![o].sock = t]
  BY DEF Sock!BindUdp
<1> HIDE DEF s
<1>3. t \in UdpSocks /\ t.peer = s.peer
  BY <1>1 DEF UdpSocks, UdpPlaces
<1> HIDE DEF t
<1> QED BY <1>1, <1>2, <1>3, UdpSock DEF Sock!BindUdp

\* The kernel gives a socket without an address one.
LEMMA PlacedRight ==
    ASSUME NEW s \in UdpSocks, NEW t \in Sock!Placed(s)
    PROVE  t \in UdpSocks /\ t.peer = s.peer /\ t.bound \in Addrs
<1>1. CASE s.bound # "none"
  BY <1>1 DEF Sock!Placed, Sock!None, UdpSocks, UdpPlaces
<1>2. CASE s.bound = "none"
  <2>1. PICK a \in Addrs : t = [s EXCEPT !.bound = a]
    BY <1>2 DEF Sock!Placed, Sock!None
  <2> QED BY <2>1 DEF UdpSocks, UdpPlaces
<1> QED BY <1>1, <1>2

\* connectAddr keeps UdpInv.
LEMMA UdpConnect ==
    ASSUME UdpInv, NEW o \in Sock!Udps, NEW a \in Addrs, Sock!ConnectUdp(o, a)
    PROVE  UdpInv'
<1> DEFINE s == Sock!UdpEnsured(o, a)
<1>1. s \in UdpSocks /\ s.peer \in {"none", udp[o].sock.peer}
  BY UdpEnsuredRight
<1>2. CASE udp' = [udp EXCEPT ![o].sock = s]
  <2> HIDE DEF s
  <2> QED BY <1>1, <1>2, UdpSock DEF Sock!ConnectUdp
<1>3. ASSUME NEW t \in Sock!Placed(s), udp' = [udp EXCEPT ![o] = [@ EXCEPT !.sock = [t EXCEPT !.peer = a], !.peer = a]]
      PROVE  UdpInv'
  <2> DEFINE r == [t EXCEPT !.peer = a]  u == [udp[o] EXCEPT !.sock = r, !.peer = a]
  <2>1. t \in UdpSocks
    BY <1>1, <1>3, PlacedRight
  <2>2. r \in UdpSocks /\ r.peer = a
    BY <2>1 DEF UdpSocks, UdpPlaces
  <2>3. udp' = [udp EXCEPT ![o] = u]
    BY <1>3
  <2> HIDE DEF r
  <2>4. u.sock = r /\ u.peer = a /\ u.queue = udp[o].queue /\ u \in [sock : UdpSocks, peer : UdpPlaces, queue : Seq(Datagrams)]
    BY <2>2, UdpWhole DEF UdpRight, UdpPlaces
  <2> HIDE DEF u
  <2>5. UdpRight(u)
    BY <2>2, <2>4, UdpWhole DEF UdpRight
  <2> QED BY <2>3, <2>5, UdpSet DEF Sock!ConnectUdp
<1> QED BY <1>2, <1>3 DEF Sock!ConnectUdp

\* close keeps UdpInv.
LEMMA UdpClose == ASSUME UdpInv, NEW o \in Sock!Udps, Sock!CloseUdp(o) PROVE UdpInv'
<1> DEFINE u == [udp[o] EXCEPT !.sock = Sock!NoSocket, !.queue = <<>>]
<1>1. Sock!NoSocket \in UdpSocks /\ Sock!NoSocket.peer = "none"
  BY NoSock DEF UdpSocks, UdpPlaces
<1>2. u.sock = Sock!NoSocket /\ u.peer = udp[o].peer /\ u.queue = <<>> /\ u \in [sock : UdpSocks, peer : UdpPlaces, queue : Seq(Datagrams)]
  <2>1. <<>> \in Seq(Datagrams) /\ udp[o] \in [sock : UdpSocks, peer : UdpPlaces, queue : Seq(Datagrams)]
    BY UdpWhole DEF UdpRight
  <2> DEFINE v == udp[o]  empty == <<>>  none == Sock!NoSocket  Q == Seq(Datagrams)
             w == [v EXCEPT !.sock = none, !.queue = empty]
  <2>2. v \in [sock : UdpSocks, peer : UdpPlaces, queue : Q] /\ none \in UdpSocks /\ empty \in Q
    BY <1>1, <2>1
  <2> HIDE DEF v, empty, none, Q
  <2>3. w \in [sock : UdpSocks, peer : UdpPlaces, queue : Q] /\ w.sock = none /\ w.peer = v.peer /\ w.queue = empty
    BY <2>2
  <2> QED BY <2>3 DEF v, empty, none, Q
<1>3. udp' = [udp EXCEPT ![o] = u]
  BY DEF Sock!CloseUdp
<1> HIDE DEF u
<1>4. UdpRight(u)
  BY <1>1, <1>2 DEF UdpRight
<1> QED BY <1>3, <1>4, UdpSet DEF Sock!CloseUdp

\* A datagram that is sent says whom it is from.
LEMMA UdpSend ==
    ASSUME UdpInv, NEW o \in Sock!Udps, NEW to \in Addrs \cup {"none"}, NEW len \in 1..2, Sock!SendUdp(o, to, len)
    PROVE  UdpInv'
<1> DEFINE s == udp[o].sock  dest == IF to = "none" THEN s.peer ELSE to
<1>1. s \in UdpSocks
  BY UdpWhole
<1>2. PICK t \in Sock!Placed(s) :
         udp' = [udp EXCEPT ![o].sock = t] /\ udNet' = udNet \cup {[from |-> t.bound, to |-> dest, len |-> len]}
  BY DEF Sock!SendUdp, Sock!None
<1>3. t \in UdpSocks /\ t.peer = s.peer /\ t.bound \in Addrs
  BY <1>1, <1>2, PlacedRight
<1>4. dest \in Addrs
  <2>1. dest # "none"
    BY DEF Sock!SendUdp, Sock!None
  <2>2. s.peer \in Addrs \cup {"none"}
    BY <1>1 DEF UdpSocks, UdpPlaces
  <2> HIDE DEF s
  <2> QED BY <2>1, <2>2
<1>5. udNet' \subseteq Datagrams /\ udNet \subseteq udNet'
  BY <1>2, <1>3, <1>4 DEF Datagrams, UdpInv
<1> DEFINE u == [udp[o] EXCEPT !.sock = t]
<1>6. /\ u.sock = t /\ u.peer = udp[o].peer /\ u.queue = udp[o].queue
      /\ u \in [sock : UdpSocks, peer : UdpPlaces, queue : Seq(Datagrams)]
  BY <1>3, UdpWhole DEF UdpRight
<1>7. udp' = [udp EXCEPT ![o] = u]
  BY <1>2
<1> HIDE DEF u
<1>8. DOMAIN udp' = Sock!Udps
  BY <1>7 DEF UdpInv
<1>9. \A q \in Sock!Udps : UdpRight(udp[q])'
  <2> TAKE q \in Sock!Udps
  <2>1. udp'[q] = IF q = o THEN u ELSE udp[q]
    BY <1>7 DEF UdpInv
  <2>2. udp[q].queue \in Seq(udNet')
    BY <1>5, UdpWhole DEF UdpRight
  <2> QED BY <2>1, <2>2, <1>3, <1>6, UdpWhole DEF UdpRight
<1>10. Sock!FromIsSender'
  BY DEF Sock!FromIsSender, Sock!NoCall, Sock!SendUdp
<1> QED BY <1>5, <1>8, <1>9, <1>10 DEF UdpInv

\* A datagram that arrives is one that was sent.
LEMMA UdpArrive ==
    ASSUME UdpInv, NEW o \in Sock!Udps, NEW d \in udNet, Sock!Arrive(o, d)
    PROVE  UdpInv'
<1> DEFINE u == [udp[o] EXCEPT !.queue = Append(udp[o].queue, d)]
<1>0. udp[o].queue \in Seq(udNet) /\ udp[o].queue \in Seq(Datagrams) /\ d \in Datagrams
  BY UdpWhole DEF UdpRight, UdpInv
<1>1. Append(udp[o].queue, d) \in Seq(udNet) /\ Append(udp[o].queue, d) \in Seq(Datagrams)
  BY <1>0
<1>2. /\ u.sock = udp[o].sock /\ u.peer = udp[o].peer /\ u.queue = Append(udp[o].queue, d)
      /\ u \in [sock : UdpSocks, peer : UdpPlaces, queue : Seq(Datagrams)]
  BY <1>1, UdpWhole DEF UdpRight
<1>3. udp' = [udp EXCEPT ![o] = u]
  BY DEF Sock!Arrive
<1> HIDE DEF u
<1>4. UdpRight(u)
  BY <1>1, <1>2, UdpWhole DEF UdpRight
<1> QED BY <1>3, <1>4, UdpSet DEF Sock!Arrive

\* recvData: the buffer holds the beginning of the datagram whose sender from names.
LEMMA UdpRecv ==
    ASSUME UdpInv, NEW o \in Sock!Udps, NEW sz \in 1..2, Sock!RecvUdp(o, sz)
    PROVE  UdpInv'
<1> DEFINE queue == udp[o].queue
           d == queue[1]
           ret == IF d.len < sz THEN d.len ELSE sz
           data == [i \in 1..d.len |-> <<d, i>>]
           u == [udp[o] EXCEPT !.queue = Tail(queue)]
<1>0. queue \in Seq(udNet) /\ queue # <<>> /\ udNet \subseteq Datagrams /\ UNCHANGED udNet
  BY UdpWhole DEF UdpRight, UdpInv, Sock!RecvUdp
<1>1. d \in udNet /\ d \in Datagrams /\ Tail(queue) \in Seq(udNet) /\ Tail(queue) \in Seq(Datagrams)
  <2>1. d \in udNet /\ Tail(queue) \in Seq(udNet)
    BY <1>0
  <2>2. Seq(udNet) \subseteq Seq(Datagrams)
    BY <1>0
  <2> QED BY <2>1, <2>2, <1>0
<1>2. /\ udp' = [udp EXCEPT ![o] = u] /\ udRet' = ret
      /\ udBuf' = Sock!Received(<<"old">>, sz, data, ret)
      /\ udFrom' = Sock!SetAddr(Sock!SetAddr("none", d.from, Sock!Family[d.from]), "none", 128)
  BY DEF Sock!RecvUdp, Sock!None
<1>3. /\ u.sock = udp[o].sock /\ u.peer = udp[o].peer /\ u.queue = Tail(queue)
      /\ u \in [sock : UdpSocks, peer : UdpPlaces, queue : Seq(Datagrams)]
  BY <1>1, UdpWhole DEF UdpRight
<1> HIDE DEF u
<1>4. UdpRight(u)
  BY <1>1, <1>3, UdpWhole DEF UdpRight
<1>5. DOMAIN udp' = Sock!Udps /\ \A q \in Sock!Udps : UdpRight(udp[q])'
  <2>1. DOMAIN udp' = Sock!Udps
    BY <1>2 DEF UdpInv
  <2>2. ASSUME NEW q \in Sock!Udps  PROVE UdpRight(udp[q])'
    <3>1. CASE q = o
      <4>1. udp'[q] = u
        BY <3>1, <1>2 DEF UdpInv
      <4> QED BY <4>1, <1>0, <1>4 DEF UdpRight
    <3>2. CASE q # o
      <4>1. UdpRight(udp[q]) /\ udp'[q] = udp[q]
        BY <3>2, <1>2 DEF UdpInv
      <4> QED BY <4>1, <1>0 DEF UdpRight
    <3> QED BY <3>1, <3>2
  <2> QED BY <2>1, <2>2
<1> HIDE DEF queue, d
<1>6. d.from \in Addrs /\ d.len \in Nat
  BY <1>1 DEF Datagrams
<1>7. udFrom' = d.from
  BY <1>2, <1>6 DEF Sock!SetAddr, Sock!Family
<1>8. ret \in Nat /\ ret <= sz /\ ret <= d.len
  BY <1>6
<1>9. Sock!FromIsSender'
  <2> SUFFICES ASSUME ret > 0
               PROVE  /\ Len(udBuf') = ret + 1 /\ udBuf'[1] = "old"
                      /\ \A i \in 1..ret : udBuf'[i + 1] = <<d, i>>
    BY <1>0, <1>1, <1>2, <1>7 DEF Sock!FromIsSender
  <2>1. data \in Seq({<<d, i>> : i \in 1..d.len}) /\ Len(data) = d.len
    BY <1>6
  <2>2. <<"old">> \in Seq({"old"}) /\ sz \in Nat
    OBVIOUS
  <2> HIDE DEF data, ret
  <2>3. Sock!Received(<<"old">>, sz, data, ret) = <<"old">> \o SubSeq(data, 1, ret)
    <3> DEFINE T == {"old"}  U == {<<d, i>> : i \in 1..d.len}  b == <<"old">>
    <3>1. b \in Seq(T) /\ data \in Seq(U) /\ ret \in Nat /\ ret > 0 /\ ret <= sz /\ ret <= Len(data) /\ sz \in Nat
      BY <1>8, <2>1, <2>2
    <3> HIDE DEF T, U, b
    <3>2. Sock!Received(b, sz, data, ret) = b \o SubSeq(data, 1, ret)
      BY <3>1, ReceivedRight
    <3> QED BY <3>2 DEF b
  <2>4. udBuf' = <<"old">> \o SubSeq(data, 1, ret)
    BY <1>2, <2>3
  <2>5. /\ SubSeq(data, 1, ret) \in Seq({<<d, i>> : i \in 1..d.len}) /\ Len(SubSeq(data, 1, ret)) = ret
        /\ \A i \in 1..ret : SubSeq(data, 1, ret)[i] = data[i]
    BY <1>8, <2>1
  <2>6. \A i \in 1..ret : data[i] = <<d, i>>
    BY <1>6, <1>8 DEF data
  <2> DEFINE sub == SubSeq(data, 1, ret)  buf == udBuf'
  <2>7. buf = <<"old">> \o sub /\ Len(sub) = ret /\ \A i \in 1..ret : sub[i] = <<d, i>>
    BY <2>4, <2>5, <2>6
  <2>8. \E T : sub \in Seq(T)
    BY <2>5
  <2> HIDE DEF sub, buf
  <2>9. Len(buf) = ret + 1 /\ buf[1] = "old" /\ \A i \in 1..ret : buf[i + 1] = <<d, i>>
    BY <1>8, <2>7, <2>8
  <2> QED BY <2>9 DEF buf
<1> QED BY <1>0, <1>5, <1>9 DEF UdpInv

\* Every step of the datagrams keeps UdpInv.
LEMMA UdpStep == UdpInv /\ [Sock!NextUdp]_Sock!udVars => UdpInv'
<1> SUFFICES ASSUME UdpInv, [Sock!NextUdp]_Sock!udVars  PROVE UdpInv'
  OBVIOUS
<1>1. CASE UNCHANGED Sock!udVars
  BY <1>1 DEF UdpInv, UdpRight, Sock!FromIsSender, Sock!udVars
<1> QED BY <1>1, UdpBind, UdpConnect, UdpClose, UdpSend, UdpArrive, UdpRecv DEF Sock!NextUdp, Sock!None

\* The peer an object remembers is the one it is connected to, what is received is what
\* was sent, in order, and a datagram is received with its sender's name (sockets.hh).
THEOREM SocketsKept ==
    Sock!Spec => [](Sock!PeerIsPeer /\ Sock!NothingTorn /\ Sock!FromIsSender)
<1> DEFINE svars == <<skKind, Sock!skVars, Sock!udVars>>
<1>1. Sock!Init => TcpInv /\ UdpInv
  <2> SUFFICES ASSUME Sock!Init  PROVE TcpInv /\ UdpInv
    OBVIOUS
  <2>1. SockRight(Sock!NoSocket, "none") /\ Sock!NoSocket \in SockTypes
    BY NoSock DEF SockRight, SockTypes, SockEnds
  <2>2. TcpInv
    <3>1. <<>> \in Seq(Nat) /\ <<>> \o <<>> = <<>>
      OBVIOUS
    <3>2. /\ skSock = [o \in Sock!Objects |-> Sock!NoSocket] /\ skPeer = [o \in Sock!Objects |-> "none"]
          /\ skOut = <<>> /\ skSent = <<>> /\ skBuf = <<>>
      BY DEF Sock!Init, Sock!None
    <3> QED BY <2>1, <3>1, <3>2 DEF TcpInv, SockEnds, Sock!Objects
  <2>3. UdpInv
    <3> DEFINE u == [sock |-> Sock!NoSocket, peer |-> "none", queue |-> <<>>]
    <3>1. Sock!NoSocket \in UdpSocks /\ Sock!NoSocket.peer = "none"
      BY NoSock DEF UdpSocks, UdpPlaces
    <3>2. UdpRight(u)
      BY <3>1 DEF UdpRight, UdpPlaces
    <3>3. udp = [o \in Sock!Udps |-> u] /\ udNet = {} /\ udRet = 0
      BY DEF Sock!Init, Sock!None
    <3> HIDE DEF u
    <3> QED BY <3>2, <3>3 DEF UdpInv, Sock!FromIsSender
  <2> QED BY <2>2, <2>3
<1>2. TcpInv /\ UdpInv /\ [Sock!Next]_svars => TcpInv' /\ UdpInv'
  <2>1. [Sock!Next]_svars => [Sock!NextTcp]_Sock!skVars /\ [Sock!NextUdp]_Sock!udVars
    BY DEF Sock!Next
  <2> QED BY <2>1, TcpStep, UdpStep
<1>3. TcpInv /\ UdpInv => Sock!PeerIsPeer /\ Sock!NothingTorn /\ Sock!FromIsSender
  <2> SUFFICES ASSUME TcpInv, UdpInv  PROVE Sock!PeerIsPeer /\ Sock!NothingTorn /\ Sock!FromIsSender
    OBVIOUS
  <2>1. Sock!PeerIsPeer
    BY DEF TcpInv, UdpInv, UdpRight, SockRight, Sock!PeerIsPeer, Sock!None
  <2>2. Sock!NothingTorn /\ Sock!FromIsSender
    BY DEF TcpInv, UdpInv, Sock!NothingTorn
  <2> QED BY <2>1, <2>2
<1> QED BY <1>1, <1>2, <1>3, PTL DEF Sock!Spec

----------------------------------------------------------------------------
(* Edge-triggered epoll (epoll.hh) *)

\* What it is to be in a sequence.
LEMMA Held == \A s, x : Poll!Contains(s, x) <=> \E i \in 1..Len(s) : s[i] = x
  BY DEF Poll!Contains

\* Taking one element out of the ready list keeps the others.
LEMMA WithoutKeeps ==
    ASSUME NEW T, NEW s \in Seq(T), NEW x
    PROVE  /\ Poll!Without(s, x) \in Seq(T)
           /\ \A y : y # x /\ Poll!Contains(s, y) => Poll!Contains(Poll!Without(s, x), y)
<1>1. CASE ~Poll!Contains(s, x)
  BY <1>1 DEF Poll!Without
<1>2. CASE Poll!Contains(s, x)
  <2> DEFINE i == CHOOSE i \in DOMAIN s : s[i] = x
             a == SubSeq(s, 1, i - 1)  b == SubSeq(s, i + 1, Len(s))
  <2>1. i \in 1..Len(s) /\ s[i] = x
    <3>1. \E j \in DOMAIN s : s[j] = x
      BY <1>2, Held
    <3> QED BY <3>1
  <2>2. Poll!Without(s, x) = a \o b
    BY <1>2 DEF Poll!Without, Poll!RemoveAt
  <2> HIDE DEF i
  <2>3. /\ a \in Seq(T) /\ b \in Seq(T) /\ Len(a) = i - 1 /\ Len(b) = Len(s) - i
        /\ \A j \in 1..i - 1 : a[j] = s[j]
        /\ \A j \in 1..Len(s) - i : b[j] = s[j + i]
    BY <2>1
  <2> HIDE DEF a, b
  <2>4. /\ a \o b \in Seq(T) /\ Len(a \o b) = Len(s) - 1
        /\ \A j \in 1..i - 1 : (a \o b)[j] = s[j]
        /\ \A j \in i + 1 .. Len(s) : (a \o b)[j - 1] = s[j]
    <3> DEFINE ab == a \o b
    <3>0. /\ ab \in Seq(T) /\ Len(ab) = Len(a) + Len(b)
          /\ \A j \in 1..Len(a) : ab[j] = a[j]
          /\ \A j \in 1..Len(b) : ab[Len(a) + j] = b[j]
      <4>1. a \in Seq(T) /\ b \in Seq(T)
        BY <2>3
      <4> QED BY <4>1, JoinAt
    <3> HIDE DEF ab
    <3>1. ab \in Seq(T) /\ Len(ab) = Len(s) - 1
      BY <2>1, <2>3, <3>0
    <3>2. \A j \in 1..i - 1 : ab[j] = s[j]
      BY <2>1, <2>3, <3>0
    <3>3. ASSUME NEW j \in i + 1 .. Len(s)  PROVE ab[j - 1] = s[j]
      <4>2. j - i \in 1..Len(s) - i /\ (j - i) + i = j /\ Len(a) + (j - i) = j - 1
        <5>1. Len(a) = i - 1 /\ i \in Int /\ Len(s) \in Int
          BY <2>1, <2>3
        <5> QED BY <5>1
      <4>1. ab[j - 1] = b[j - i]
        BY <2>1, <2>3, <3>0, <4>2
      <4> QED BY <2>3, <4>1, <4>2
    <3> QED BY <3>1, <3>2, <3>3 DEF ab
  <2>5. ASSUME NEW y, y # x, Poll!Contains(s, y)  PROVE Poll!Contains(a \o b, y)
    <3>1. PICK j \in 1..Len(s) : s[j] = y
      BY <2>5, Held
    <3>2. j # i
      BY <2>1, <2>5, <3>1
    <3>3. CASE j < i
      <4>1. j \in 1..Len(a \o b) /\ (a \o b)[j] = y
        BY <2>1, <2>4, <3>1, <3>3
      <4> QED BY <4>1, Held
    <3>4. CASE j > i
      <4>1. j \in i + 1 .. Len(s) /\ j - 1 \in 1 .. Len(s) - 1
        BY <2>1, <3>1, <3>4
      <4>2. j - 1 \in 1..Len(a \o b) /\ (a \o b)[j - 1] = s[j]
        BY <2>4, <4>1
      <4> QED BY <3>1, <4>2, Held
    <3> QED BY <2>1, <3>2, <3>3, <3>4
  <2> QED BY <2>2, <2>4, <2>5
<1> QED BY <1>1, <1>2

\* Appending to the ready list keeps what is there.
LEMMA AppendKeeps ==
    ASSUME NEW T, NEW s \in Seq(T), NEW x \in T
    PROVE  Append(s, x) \in Seq(T) /\ \A y : Poll!Contains(s, y) \/ y = x => Poll!Contains(Append(s, x), y)
<1>1. Append(s, x) \in Seq(T) /\ Len(Append(s, x)) = Len(s) + 1 /\ Append(s, x)[Len(s) + 1] = x
      /\ \A i \in 1..Len(s) : Append(s, x)[i] = s[i]
  OBVIOUS
<1>2. ASSUME NEW y, Poll!Contains(s, y) \/ y = x  PROVE Poll!Contains(Append(s, x), y)
  <2> DEFINE t == Append(s, x)
  <2>1. t \in Seq(T) /\ Len(t) = Len(s) + 1 /\ t[Len(s) + 1] = x /\ \A i \in 1..Len(s) : t[i] = s[i]
    BY <1>1
  <2> HIDE DEF t
  <2>2. \E i \in 1..Len(t) : t[i] = y
    BY <1>2, <2>1, Held
  <2> QED BY <2>2, Held DEF t
<1> QED BY <1>1, <1>2

Revents == [fd : EpFd \cup {0}]

PollInv ==
    /\ epSet \in [EpFd -> Poll!Flags \cup {Poll!NoFlags}] /\ epData \subseteq EpFd
    /\ epReady \in Seq(EpFd) /\ epEvents \in Seq(Revents)
    /\ epAt \in 0..Len(epEvents)
    /\ Poll!NoEdgeLost

\* epoll_ctl keeps PollInv: a descriptor that has something is put into the ready list.
LEMMA PollCtrl ==
    ASSUME PollInv, NEW fd \in EpFd, NEW flags \in Poll!Flags \cup {Poll!NoFlags}, Poll!Ctrl(fd, flags)
    PROVE  PollInv'
<1> DEFINE rest == Poll!Without(epReady, fd)
<1>1. rest \in Seq(EpFd) /\ \A y : y # fd /\ Poll!Contains(epReady, y) => Poll!Contains(rest, y)
  BY WithoutKeeps DEF PollInv
<1>2. /\ epSet' = [epSet EXCEPT ![fd] = flags]
      /\ epReady' = IF flags = "in" /\ fd \in epData THEN Append(rest, fd) ELSE rest
      /\ UNCHANGED <<epData, epEvents, epAt>>
  BY DEF Poll!Ctrl, Poll!Rearmed
<1> HIDE DEF rest
<1>3. Append(rest, fd) \in Seq(EpFd) /\ \A y : Poll!Contains(rest, y) \/ y = fd => Poll!Contains(Append(rest, fd), y)
  BY <1>1, AppendKeeps
<1>4. ASSUME NEW x \in epData', epSet'[x] = "in"  PROVE Poll!Contains(epReady', x) \/ x \in Poll!Unhandled'
  <2>1. Poll!Unhandled' = Poll!Unhandled
    BY <1>2 DEF Poll!Unhandled
  <2>2. CASE x = fd
    <3>1. flags = "in" /\ fd \in epData
      BY <1>2, <1>4, <2>2 DEF PollInv
    <3> QED BY <1>2, <1>3, <2>2, <3>1
  <2>3. CASE x # fd
    <3>1. Poll!Contains(epReady, x) \/ x \in Poll!Unhandled
      BY <1>2, <1>4, <2>3 DEF PollInv, Poll!NoEdgeLost
    <3> QED BY <1>1, <1>2, <1>3, <2>1, <2>3, <3>1
  <2> QED BY <2>2, <2>3
<1>5. Poll!NoEdgeLost'
  BY <1>4 DEF Poll!NoEdgeLost
<1>6. epReady' \in Seq(EpFd) /\ epSet' \in [EpFd -> Poll!Flags \cup {Poll!NoFlags}]
  BY <1>1, <1>2, <1>3 DEF PollInv
<1> QED BY <1>2, <1>5, <1>6 DEF PollInv

\* What registers and reports nothing keeps PollInv.
LEMMA PollSame ==
    ASSUME PollInv, UNCHANGED <<epSet, epReady, epData, epEvents, epAt>>  PROVE PollInv'
  BY DEF PollInv, Poll!NoEdgeLost, Poll!Unhandled

\* addFd, modFd and delFd keep PollInv.
LEMMA PollRegister ==
    ASSUME PollInv, NEW fd \in EpFd, NEW f \in Poll!Flags, NEW more \in BOOLEAN,
           Poll!AddFd(fd, f, more) \/ Poll!ModFd(fd, f, more) \/ Poll!DelFd(fd)
    PROVE  PollInv'
  BY PollCtrl, PollSame DEF Poll!AddFd, Poll!ModFd, Poll!DelFd, Poll!epVars

\* wait reports what is first in the ready list.
LEMMA PollWait == ASSUME PollInv, Poll!Wait  PROVE PollInv'
<1> DEFINE n == IF Len(epReady) < MaxEvents THEN Len(epReady) ELSE MaxEvents
           r == SubSeq(epReady, 1, n)  rest == SubSeq(epReady, n + 1, Len(epReady))
           ev == [i \in DOMAIN r |-> [fd |-> r[i]]]
<1>0. epReady \in Seq(EpFd) /\ n \in 0..Len(epReady) /\ n \in Nat
  BY PollAssumption DEF PollInv
<1>1. epEvents' = ev /\ epReady' = SubSeq(epReady, Len(r) + 1, Len(epReady)) /\ epAt = 0 /\ epAt' = (IF r = <<>> THEN 0 ELSE 1)
      /\ UNCHANGED <<epSet, epData>>
  BY DEF Poll!Wait, Poll!Reported, Poll!Event
<1> HIDE DEF n
<1>2. /\ r \in Seq(EpFd) /\ Len(r) = n /\ DOMAIN r = 1..n /\ (\A i \in 1..n : r[i] = epReady[i])
      /\ rest \in Seq(EpFd) /\ Len(rest) = Len(epReady) - n /\ (\A i \in 1..Len(epReady) - n : rest[i] = epReady[i + n])
  BY <1>0
<1>3. epReady' = rest
  BY <1>1, <1>2
<1> HIDE DEF r, rest
<1>4. ev \in Seq(Revents) /\ Len(ev) = n /\ \A i \in 1..n : ev[i].fd = epReady[i]
  <2>1. ev = [i \in 1..n |-> [fd |-> r[i]]] /\ \A i \in 1..n : [fd |-> r[i]] \in Revents
    BY <1>2 DEF Revents
  <2>2. ev \in [1..n -> Revents]
    BY <2>1
  <2>3. \A i \in 1..n : ev[i].fd = epReady[i]
    BY <2>1, <1>2
  <2> HIDE DEF ev
  <2> QED BY <1>0, <2>2, <2>3, SeqOf
<1> HIDE DEF ev
<1>5. epAt' \in 0..Len(epEvents')
  BY <1>0, <1>1, <1>2, <1>4
<1>6. ASSUME NEW x \in epData', epSet'[x] = "in"  PROVE Poll!Contains(epReady', x) \/ x \in Poll!Unhandled'
  <2>1. Poll!Unhandled = {}
    BY <1>1 DEF Poll!Unhandled
  <2>2. PICK j \in 1..Len(epReady) : epReady[j] = x
    <3>1. Poll!Contains(epReady, x)
      BY <1>1, <1>6, <2>1 DEF PollInv, Poll!NoEdgeLost
    <3> QED BY <3>1, Held
  <2>3. CASE j <= n
    <3>1. n > 0 /\ r # <<>>
      BY <1>0, <1>2, <2>2, <2>3
    <3>2. epAt' = 1 /\ j \in 1..Len(epEvents') /\ epEvents'[j].fd = x
      BY <1>0, <1>1, <1>4, <2>2, <2>3, <3>1
    <3> QED BY <3>2 DEF Poll!Unhandled
  <2>4. CASE j > n
    <3>1. j - n \in 1..Len(rest) /\ rest[j - n] = x
      <4>1. j - n \in 1..Len(epReady) - n /\ (j - n) + n = j
        BY <1>0, <2>2, <2>4
      <4> QED BY <4>1, <1>2, <2>2
    <3> QED BY <3>1, <1>3, Held
  <2> QED BY <1>0, <2>2, <2>3, <2>4
<1>7. Poll!NoEdgeLost'
  BY <1>6 DEF Poll!NoEdgeLost
<1> QED BY <1>1, <1>2, <1>3, <1>4, <1>5, <1>7 DEF PollInv

\* A wait that fails keeps PollInv.
LEMMA PollWaitFails == ASSUME PollInv, Poll!WaitFails  PROVE PollInv'
<1>1. epAt = 0 /\ epEvents' = [i \in 1..MaxEvents |-> IF i \in DOMAIN epEvents THEN epEvents[i] ELSE [fd |-> 0]]
      /\ UNCHANGED <<epSet, epReady, epData, epAt>>
  BY DEF Poll!WaitFails, Poll!Stale
<1>2. epEvents' \in Seq(Revents)
  <2>1. epEvents' \in [1..MaxEvents -> Revents]
    <3>1. epEvents \in Seq(Revents) /\ [fd |-> 0] \in Revents
      BY DEF PollInv, Revents
    <3>2. \A i \in DOMAIN epEvents : epEvents[i] \in Revents
      BY <3>1
    <3> QED BY <1>1, <3>1, <3>2
  <2> QED BY <2>1, PollAssumption, SeqOf
<1>3. Poll!Unhandled' = {} /\ Poll!Unhandled = {}
  BY <1>1 DEF Poll!Unhandled
<1>4. Poll!NoEdgeLost'
  BY <1>1, <1>3 DEF PollInv, Poll!NoEdgeLost
<1>5. epAt' \in 0..Len(epEvents')
  <2>1. Len(epEvents') \in Nat
    BY <1>2
  <2>2. epAt' = 0
    BY <1>1
  <2> QED BY <2>1, <2>2
<1> QED BY <1>1, <1>2, <1>4, <1>5 DEF PollInv

\* The caller reads what an event reported.
LEMMA PollHandle == ASSUME PollInv, Poll!Handle  PROVE PollInv'
<1>1. epAt # 0 /\ epData' = epData \ {epEvents[epAt].fd} /\ epAt' = (IF epAt = Len(epEvents) THEN 0 ELSE epAt + 1)
      /\ UNCHANGED <<epSet, epReady, epEvents>>
  BY DEF Poll!Handle
<1>2. epAt \in 1..Len(epEvents) /\ epAt' \in 0..Len(epEvents) /\ epEvents \in Seq(Revents)
  BY <1>1 DEF PollInv
<1>3. ASSUME NEW x \in epData', epSet'[x] = "in"  PROVE Poll!Contains(epReady', x) \/ x \in Poll!Unhandled'
  <2>1. CASE Poll!Contains(epReady, x)
    BY <1>1, <2>1
  <2>2. CASE x \in Poll!Unhandled
    <3>1. PICK i \in epAt .. Len(epEvents) : epEvents[i].fd = x
      BY <1>1, <2>2 DEF Poll!Unhandled
    <3>2. i # epAt
      BY <1>1, <1>3, <3>1
    <3>3. epAt' = epAt + 1 /\ i \in epAt' .. Len(epEvents') /\ epEvents'[i].fd = x /\ epAt' # 0
      BY <1>1, <1>2, <3>1, <3>2
    <3> QED BY <3>1, <3>3 DEF Poll!Unhandled
  <2> QED BY <1>1, <1>3, <2>1, <2>2 DEF PollInv, Poll!NoEdgeLost
<1>4. Poll!NoEdgeLost'
  BY <1>3 DEF Poll!NoEdgeLost
<1> QED BY <1>1, <1>2, <1>4 DEF PollInv

\* Data that arrives puts its descriptor into the ready list.
LEMMA PollArrive == ASSUME PollInv, NEW fd \in EpFd, Poll!Arrive(fd)  PROVE PollInv'
<1>1. epData' = epData \cup {fd} /\ UNCHANGED <<epSet, epEvents, epAt>>
      /\ epReady' = IF epSet[fd] = "in" /\ ~Poll!Contains(epReady, fd) THEN Append(epReady, fd) ELSE epReady
  BY DEF Poll!Arrive
<1>2. epReady \in Seq(EpFd) /\ Append(epReady, fd) \in Seq(EpFd) /\ \A y : Poll!Contains(epReady, y) \/ y = fd => Poll!Contains(Append(epReady, fd), y)
  BY AppendKeeps DEF PollInv
<1>3. ASSUME NEW x \in epData', epSet'[x] = "in"  PROVE Poll!Contains(epReady', x) \/ x \in Poll!Unhandled'
  <2>1. Poll!Unhandled' = Poll!Unhandled
    BY <1>1 DEF Poll!Unhandled
  <2>2. CASE x = fd
    BY <1>1, <1>2, <1>3, <2>2
  <2>3. CASE x # fd
    <3>1. Poll!Contains(epReady, x) \/ x \in Poll!Unhandled
      BY <1>1, <1>3, <2>3 DEF PollInv, Poll!NoEdgeLost
    <3> QED BY <1>1, <1>2, <2>1, <3>1
  <2> QED BY <2>2, <2>3
<1>4. Poll!NoEdgeLost'
  BY <1>3 DEF Poll!NoEdgeLost
<1>5. epReady' \in Seq(EpFd)
  BY <1>1, <1>2
<1> QED BY <1>1, <1>4, <1>5 DEF PollInv

\* A closed descriptor leaves the set and the ready list.
LEMMA PollClose == ASSUME PollInv, NEW fd \in EpFd, Poll!CloseFd(fd)  PROVE PollInv'
<1>1. /\ epData' = epData \ {fd} /\ epSet' = [epSet EXCEPT ![fd] = Poll!NoFlags]
      /\ epReady' = Poll!Without(epReady, fd) /\ UNCHANGED <<epEvents, epAt>>
  BY DEF Poll!CloseFd
<1>2. Poll!Without(epReady, fd) \in Seq(EpFd) /\ \A y : y # fd /\ Poll!Contains(epReady, y) => Poll!Contains(Poll!Without(epReady, fd), y)
  BY WithoutKeeps DEF PollInv
<1>3. ASSUME NEW x \in epData', epSet'[x] = "in"  PROVE Poll!Contains(epReady', x) \/ x \in Poll!Unhandled'
  <2>1. Poll!Unhandled' = Poll!Unhandled
    BY <1>1 DEF Poll!Unhandled
  <2>2. x # fd /\ x \in epData /\ epSet[x] = "in"
    BY <1>1, <1>3 DEF PollInv
  <2>3. Poll!Contains(epReady, x) \/ x \in Poll!Unhandled
    BY <2>2 DEF PollInv, Poll!NoEdgeLost
  <2> QED BY <1>1, <1>2, <2>1, <2>2, <2>3
<1>4. Poll!NoEdgeLost'
  BY <1>3 DEF Poll!NoEdgeLost
<1>5. epReady' \in Seq(EpFd) /\ epSet' \in [EpFd -> Poll!Flags \cup {Poll!NoFlags}] /\ epData' \subseteq EpFd
  BY <1>1, <1>2 DEF PollInv
<1> QED BY <1>1, <1>4, <1>5 DEF PollInv

\* Whoever has data that nobody was told of is going to be reported (epoll.hh).
THEOREM EdgesKept == Poll!Spec => []Poll!NoEdgeLost
<1>1. Poll!Init => PollInv
  <2> SUFFICES ASSUME Poll!Init  PROVE PollInv
    OBVIOUS
  <2>1. /\ epSet = [fd \in EpFd |-> Poll!NoFlags] /\ epReady = <<>> /\ epData = {} /\ epEvents = <<>> /\ epAt = 0
    BY DEF Poll!Init
  <2>2. <<>> \in Seq(EpFd) /\ <<>> \in Seq(Revents) /\ Len(<<>>) = 0
    OBVIOUS
  <2> QED BY <2>1, <2>2 DEF PollInv, Poll!NoEdgeLost
<1>2. PollInv /\ [Poll!Next]_Poll!epVars => PollInv'
  <2> SUFFICES ASSUME PollInv, [Poll!Next]_Poll!epVars  PROVE PollInv'
    OBVIOUS
  <2>1. CASE UNCHANGED Poll!epVars
    BY <2>1, PollSame DEF Poll!epVars
  <2>2. CASE Poll!Create
    BY <2>2, PollSame DEF Poll!Create
  <2>3. ASSUME NEW fd \in EpFd, Poll!OpenFd(fd)  PROVE PollInv'
    BY <2>3, PollSame DEF Poll!OpenFd
  <2>4. ASSUME NEW fd \in EpFd, Poll!DelFd(fd)  PROVE PollInv'
    BY <2>4, PollRegister DEF Poll!Flags
  <2> QED BY <2>1, <2>2, <2>3, <2>4, PollRegister, PollWait, PollWaitFails, PollHandle, PollArrive,
        PollClose DEF Poll!Next
<1>3. PollInv => Poll!NoEdgeLost
  BY DEF PollInv
<1> QED BY <1>1, <1>2, <1>3, PTL DEF Poll!Spec

----------------------------------------------------------------------------
(* Files and their descriptors (file.hh) *)

\* Where a descriptor is free, the others do not reach every open file.
LEMMA OneLeft ==
    ASSUME NEW desc, NEW d \in Files!Fds, desc[d] = 0
    PROVE  \E o \in Files!Fds : \A e \in Files!Fds : desc[e] # o
<1> SUFFICES ASSUME \A o \in Files!Fds : \E e \in Files!Fds : desc[e] = o  PROVE FALSE
  OBVIOUS
<1> DEFINE S == Files!Fds  T == S \ {d}  g == [o \in S |-> CHOOSE e \in S : desc[e] = o]
<1>1. IsFiniteSet(S)
  BY FileAssumption, FS_Interval DEF Files!Fds
<1>2. IsFiniteSet(T) /\ Cardinality(T) < Cardinality(S)
  <2>1. Cardinality(S) \in Nat /\ d \in S
    BY <1>1, FS_CardinalityType
  <2> HIDE DEF S
  <2>2. IsFiniteSet(T) /\ Cardinality(T) = Cardinality(S) - 1
    BY <1>1, <2>1, FS_RemoveElement
  <2> QED BY <2>1, <2>2
<1>3. \A o \in S : g[o] \in S /\ desc[g[o]] = o /\ o # 0
  BY DEF Files!Fds
<1>4. g \in [S -> T]
  BY <1>3
<1> HIDE DEF g, S, T
<1>5. \E x, y \in S : x # y /\ g[x] = g[y]
  BY <1>1, <1>2, <1>4, FS_PigeonHole
<1> QED BY <1>3, <1>5

\* Who has which descriptor
Owned(fd, desc, lost) ==
    /\ fd \in [File -> 0..MaxFd] /\ desc \in [Files!Fds -> 0..MaxFd] /\ lost \subseteq Files!Fds
    /\ \A f \in File : fd[f] # 0 => desc[fd[f]] # 0 /\ fd[f] \notin lost
    /\ \A f, g \in File : fd[f] # 0 /\ f # g => fd[f] # fd[g]
    /\ \A d \in Files!Fds : desc[d] # 0 => d \in lost \/ \E f \in File : fd[f] = d
    /\ \A d \in lost : desc[d] # 0

OpenFiles == [ino : 0..MaxIno, pos : Int]

OpenRight(desc, open) ==
    /\ open \in [Files!Fds -> OpenFiles]
    /\ \A d \in Files!Fds : desc[d] # 0 => open[desc[d]].ino # 0

FileInv ==
    /\ Owned(fiFd, fiDesc, fiLost) /\ OpenRight(fiDesc, fiOpen) /\ fiName \in [Name -> 0..MaxIno]

\* The descriptors there are.
LEMMA Descs ==
    Files!Fds = 1..MaxFd /\ Files!Fds \subseteq Nat /\ 0 \notin Files!Fds /\ Files!Fds \cup {0} = 0..MaxFd
  BY FileAssumption DEF Files!Fds

\* A file object closes its descriptor.
LEMMA Dropped ==
    ASSUME NEW fd, NEW desc, NEW lost, Owned(fd, desc, lost), NEW f \in File
    PROVE  Owned([fd EXCEPT ![f] = 0], IF fd[f] # 0 THEN [desc EXCEPT ![fd[f]] = 0] ELSE desc, lost)
<1> DEFINE a == [fd EXCEPT ![f] = 0]  b == IF fd[f] # 0 THEN [desc EXCEPT ![fd[f]] = 0] ELSE desc
<1>1. /\ fd \in [File -> 0..MaxFd] /\ desc \in [Files!Fds -> 0..MaxFd]
      /\ a \in [File -> 0..MaxFd] /\ b \in [Files!Fds -> 0..MaxFd]
  <2>1. fd \in [File -> 0..MaxFd] /\ desc \in [Files!Fds -> 0..MaxFd] /\ 0 \in 0..MaxFd
    BY FileAssumption DEF Owned
  <2> QED BY <2>1, Descs
<1>2. \A g \in File : a[g] = IF g = f THEN 0 ELSE fd[g]
  BY <1>1
<1>3. \A d \in Files!Fds : b[d] = IF d = fd[f] THEN 0 ELSE desc[d]
  BY <1>1, Descs
<1> HIDE DEF a, b
<1>4. \A g \in File : fd[g] # 0 => fd[g] \in Files!Fds
  BY <1>1, Descs
<1> QED BY <1>1, <1>2, <1>3, <1>4 DEF Owned

\* A file object without a descriptor gets a free one.
LEMMA Given ==
    ASSUME NEW fd, NEW desc, NEW lost, Owned(fd, desc, lost), NEW f \in File, fd[f] = 0,
           NEW d \in Files!Fds, desc[d] = 0, NEW o \in Files!Fds
    PROVE  Owned([fd EXCEPT ![f] = d], [desc EXCEPT ![d] = o], lost)
<1> DEFINE a == [fd EXCEPT ![f] = d]  b == [desc EXCEPT ![d] = o]
<1>1. /\ fd \in [File -> 0..MaxFd] /\ desc \in [Files!Fds -> 0..MaxFd]
      /\ a \in [File -> 0..MaxFd] /\ b \in [Files!Fds -> 0..MaxFd] /\ d # 0 /\ o # 0
  BY Descs DEF Owned
<1>2. \A g \in File : a[g] = IF g = f THEN d ELSE fd[g]
  BY <1>1
<1>3. \A e \in Files!Fds : b[e] = IF e = d THEN o ELSE desc[e]
  BY <1>1
<1> HIDE DEF a, b
<1>4. \A g \in File : fd[g] # 0 => fd[g] \in Files!Fds
  BY <1>1, Descs
<1>5. \A g \in File : a[g] # 0 => b[a[g]] # 0 /\ a[g] \notin lost
  BY <1>1, <1>2, <1>3, <1>4 DEF Owned
<1>6. \A g, h \in File : a[g] # 0 /\ g # h => a[g] # a[h]
  BY <1>1, <1>2, <1>3, <1>4 DEF Owned
<1>7. \A e \in Files!Fds : b[e] # 0 => e \in lost \/ \E g \in File : a[g] = e
  <2> TAKE e \in Files!Fds
  <2>1. CASE e = d
    BY <2>1, <1>2
  <2>2. CASE e # d
    <3>1. desc[e] # 0 => e \in lost \/ \E g \in File : fd[g] = e
      BY DEF Owned
    <3> QED BY <2>2, <3>1, <1>2, <1>3, Descs
  <2> QED BY <2>1, <2>2
<1>8. \A e \in lost : b[e] # 0
  <2>1. lost \subseteq Files!Fds /\ \A e \in lost : desc[e] # 0
    BY DEF Owned
  <2> QED BY <1>1, <1>3, <2>1
<1>9. a \in [File -> 0..MaxFd] /\ b \in [Files!Fds -> 0..MaxFd] /\ lost \subseteq Files!Fds
  BY <1>1 DEF Owned
<1>10. Owned(a, b, lost)
  BY <1>5, <1>6, <1>7, <1>8, <1>9, Zenon DEF Owned
<1> QED BY <1>10 DEF a, b

\* dup2: the object's descriptor comes to another open file.
LEMMA Redirected ==
    ASSUME NEW fd, NEW desc, NEW lost, Owned(fd, desc, lost), NEW f \in File, fd[f] # 0, NEW o \in Files!Fds
    PROVE  Owned(fd, [desc EXCEPT ![fd[f]] = o], lost)
<1> DEFINE b == [desc EXCEPT ![fd[f]] = o]
<1>1. /\ fd \in [File -> 0..MaxFd] /\ desc \in [Files!Fds -> 0..MaxFd]
      /\ b \in [Files!Fds -> 0..MaxFd] /\ o # 0
  BY Descs DEF Owned
<1>3. \A e \in Files!Fds : b[e] = IF e = fd[f] THEN o ELSE desc[e]
  BY <1>1
<1> HIDE DEF b
<1>4. \A g \in File : fd[g] # 0 => fd[g] \in Files!Fds
  BY <1>1, Descs
<1> QED BY <1>1, <1>3, <1>4 DEF Owned

\* The object forgets its descriptor without closing it.
LEMMA DescLost ==
    ASSUME NEW fd, NEW desc, NEW lost, Owned(fd, desc, lost), NEW f \in File
    PROVE  Owned([fd EXCEPT ![f] = 0], desc, lost \cup ({fd[f]} \ {0}))
<1> DEFINE a == [fd EXCEPT ![f] = 0]  c == lost \cup ({fd[f]} \ {0})
<1>1. /\ fd \in [File -> 0..MaxFd] /\ desc \in [Files!Fds -> 0..MaxFd]
      /\ a \in [File -> 0..MaxFd] /\ c \subseteq Files!Fds
  <2>1. fd \in [File -> 0..MaxFd] /\ desc \in [Files!Fds -> 0..MaxFd] /\ 0 \in 0..MaxFd /\ lost \subseteq Files!Fds
    BY FileAssumption DEF Owned
  <2>2. fd[f] \in Files!Fds \cup {0}
    BY <2>1, Descs
  <2> QED BY <2>1, <2>2
<1>2. \A g \in File : a[g] = IF g = f THEN 0 ELSE fd[g]
  BY <1>1
<1>4. \A g \in File : fd[g] # 0 => fd[g] \in Files!Fds
  BY <1>1, Descs
<1> HIDE DEF a
<1> QED BY <1>1, <1>2, <1>4 DEF Owned

\* An open file goes with its last descriptor, and not before.
LEMMA KeptRight ==
    ASSUME NEW desc, NEW open, OpenRight(desc, open), NEW desc2 \in [Files!Fds -> 0..MaxFd],
           \A d \in Files!Fds : desc2[d] # 0 => \E e \in Files!Fds : desc[e] = desc2[d]
    PROVE  OpenRight(desc2, Files!Kept(desc2, open))
<1> DEFINE k == Files!Kept(desc2, open)
<1>1. k = [o \in Files!Fds |-> IF o \in Files!Range(desc2) THEN open[o] ELSE [ino |-> 0, pos |-> 0]]
  BY DEF Files!Kept, Files!NoFile
<1>2. k \in [Files!Fds -> OpenFiles]
  BY <1>1, FileAssumption DEF OpenFiles, OpenRight
<1>3. ASSUME NEW d \in Files!Fds, desc2[d] # 0  PROVE k[desc2[d]].ino # 0
  <2>1. desc2[d] \in Files!Fds /\ desc2[d] \in Files!Range(desc2)
    BY <1>3, Descs DEF Files!Range
  <2>2. k[desc2[d]] = open[desc2[d]]
    BY <1>1, <2>1
  <2>3. PICK e \in Files!Fds : desc[e] = desc2[d]
    BY <1>3
  <2> QED BY <1>3, <2>2, <2>3 DEF OpenRight
<1> QED BY <1>2, <1>3 DEF OpenRight

\* What FileInv says of one object, and of the table once it is closed.
LEMMA FileFacts ==
    ASSUME FileInv, NEW f \in File
    PROVE  /\ fiFd[f] \in 0..MaxFd /\ fiDesc \in [Files!Fds -> 0..MaxFd] /\ fiOpen \in [Files!Fds -> OpenFiles]
           /\ Files!Valid(f) => fiFd[f] \in Files!Fds /\ Files!At(f) \in Files!Fds /\ fiOpen[Files!At(f)].ino # 0
           /\ Files!Closed(f) \in [Files!Fds -> 0..MaxFd]
           /\ Owned([fiFd EXCEPT ![f] = 0], Files!Closed(f), fiLost)
           /\ \A d \in Files!Fds : Files!Closed(f)[d] # 0 => Files!Closed(f)[d] = fiDesc[d]
<1>1. fiFd[f] \in 0..MaxFd /\ fiDesc \in [Files!Fds -> 0..MaxFd] /\ fiOpen \in [Files!Fds -> OpenFiles]
  BY DEF FileInv, Owned, OpenRight
<1>2. Files!Valid(f) => fiFd[f] \in Files!Fds /\ Files!At(f) \in Files!Fds /\ fiOpen[Files!At(f)].ino # 0
  BY <1>1, Descs DEF FileInv, Owned, OpenRight, Files!Valid, Files!At
<1>3. Owned([fiFd EXCEPT ![f] = 0], Files!Closed(f), fiLost)
  BY Dropped DEF FileInv, Files!Closed, Files!Valid
<1>4. Files!Closed(f) \in [Files!Fds -> 0..MaxFd]
  BY <1>3 DEF Owned
<1>5. \A d \in Files!Fds : Files!Closed(f)[d] # 0 => Files!Closed(f)[d] = fiDesc[d]
  BY <1>1, <1>2 DEF Files!Closed
<1> QED BY <1>1, <1>2, <1>3, <1>4, <1>5

\* close keeps FileInv.
LEMMA FileClose == ASSUME FileInv, NEW f \in File, Files!Close(f)  PROVE FileInv'
<1>1. /\ fiFd' = [fiFd EXCEPT ![f] = 0] /\ fiDesc' = Files!Closed(f) /\ fiOpen' = Files!Kept(Files!Closed(f), fiOpen)
      /\ UNCHANGED <<fiName, fiLost>>
  BY DEF Files!Close
<1>2. OpenRight(fiDesc', fiOpen')
  <2>1. OpenRight(Files!Closed(f), Files!Kept(Files!Closed(f), fiOpen))
    BY FileFacts, KeptRight DEF FileInv
  <2> QED BY <1>1, <2>1
<1>3. Owned(fiFd', fiDesc', fiLost')
  BY <1>1, FileFacts
<1> QED BY <1>1, <1>2, <1>3 DEF FileInv

\* open keeps FileInv: the object gets the lowest free descriptor.
LEMMA FileOpen ==
    ASSUME FileInv, NEW f \in File, NEW n \in Name, NEW create, NEW trunc, Files!Open(f, n, create, trunc)
    PROVE  FileInv'
<1> DEFINE closed == Files!Closed(f)
           left == Files!Kept(closed, fiOpen)
           free == {d \in Files!Fds : closed[d] = 0}
           unused == {i \in Files!Inos : i \notin Files!Range(fiName) /\ \A o \in Files!Fds : left[o].ino # i}
           none == {x \in Files!Fds : left[x] = Files!NoFile}
           i == IF fiName[n] # 0 THEN fiName[n] ELSE Files!Min(unused)
           d == Files!Min(free)  o == Files!Min(none)
<1>1. /\ free # {} /\ (fiName[n] # 0 \/ unused # {})
      /\ fiOpen' = [left EXCEPT ![o] = [ino |-> i, pos |-> 0]] /\ fiName' = [fiName EXCEPT ![n] = i]
      /\ fiFd' = [fiFd EXCEPT ![f] = d] /\ fiDesc' = [closed EXCEPT ![d] = o] /\ fiLost' = fiLost
  BY DEF Files!Open
<1>2. closed \in [Files!Fds -> 0..MaxFd] /\ Owned([fiFd EXCEPT ![f] = 0], closed, fiLost) /\ OpenRight(closed, left)
  BY FileFacts, KeptRight DEF FileInv
<1> HIDE DEF closed
<1>3. d \in free
  <2>1. free \subseteq Nat
    BY Descs
  <2> HIDE DEF free
  <2> QED BY <1>1, <2>1, LeastIn
<1>4. none # {}
  <2>1. PICK x \in Files!Fds : \A e \in Files!Fds : closed[e] # x
    BY <1>3, OneLeft
  <2>2. x \notin Files!Range(closed)
    BY <1>2, <2>1 DEF Files!Range
  <2>3. left[x] = Files!NoFile
    BY <2>2 DEF Files!Kept
  <2> QED BY <2>3
<1>5. o \in none
  <2>1. none \subseteq Nat
    BY Descs
  <2> HIDE DEF none
  <2> QED BY <1>4, <2>1, LeastIn
<1>6. i \in 1..MaxIno
  <2>1. CASE fiName[n] # 0
    BY <2>1, FileAssumption DEF FileInv
  <2>2. CASE fiName[n] = 0
    <3>1. unused \subseteq Nat /\ unused \subseteq 1..MaxIno /\ unused # {}
      BY <1>1, <2>2 DEF Files!Inos
    <3> HIDE DEF unused
    <3> QED BY <2>2, <3>1, LeastIn
  <2> QED BY <2>1, <2>2
<1>7. d \in Files!Fds /\ closed[d] = 0 /\ o \in Files!Fds
  BY <1>3, <1>5
<1> HIDE DEF left, free, none, unused, i, d, o
<1>8. Owned(fiFd', fiDesc', fiLost')
  <2> DEFINE a == [fiFd EXCEPT ![f] = 0]
  <2>1. a[f] = 0 /\ [a EXCEPT ![f] = d] = [fiFd EXCEPT ![f] = d]
    BY DEF FileInv, Owned
  <2>2. Owned(a, closed, fiLost)
    BY <1>2
  <2> HIDE DEF a
  <2>3. Owned([a EXCEPT ![f] = d], [closed EXCEPT ![d] = o], fiLost)
    BY <1>7, <2>1, <2>2, Given
  <2> QED BY <1>1, <2>1, <2>3
<1>9. OpenRight(fiDesc', fiOpen')
  <2>1. left \in [Files!Fds -> OpenFiles] /\ [ino |-> i, pos |-> 0] \in OpenFiles
    BY <1>2, <1>6 DEF OpenRight, OpenFiles
  <2>2. fiOpen' \in [Files!Fds -> OpenFiles] /\ fiOpen'[o].ino # 0 /\ \A x \in Files!Fds \ {o} : fiOpen'[x] = left[x]
    BY <1>1, <1>6, <1>7, <2>1
  <2>3. ASSUME NEW e \in Files!Fds, fiDesc'[e] # 0  PROVE fiOpen'[fiDesc'[e]].ino # 0
    <3>1. CASE e = d
      BY <1>1, <1>2, <1>7, <2>2, <3>1
    <3>2. CASE e # d
      <4>1. fiDesc'[e] = closed[e] /\ closed[e] \in Files!Fds
        BY <1>1, <1>2, <2>3, <3>2, Descs
      <4>2. left[closed[e]].ino # 0
        BY <1>2, <2>3, <4>1 DEF OpenRight
      <4> QED BY <2>2, <4>1, <4>2
    <3> QED BY <3>1, <3>2
  <2> QED BY <2>2, <2>3 DEF OpenRight
<1>10. fiName' \in [Name -> 0..MaxIno]
  BY <1>1, <1>6, FileAssumption DEF FileInv
<1> QED BY <1>8, <1>9, <1>10 DEF FileInv

\* copyFrom: a number of the object's own, or the one it had, leads to the other's file.
LEMMA FileCopy ==
    ASSUME FileInv, NEW f \in File, NEW g \in File, Files!CopyFrom(f, g)
    PROVE  FileInv'
<1>1. CASE ~Files!Valid(g)
  BY <1>1, FileClose DEF Files!CopyFrom
<1>2. CASE Files!Valid(g)
  <2> DEFINE o == Files!At(g)
  <2>1. o \in Files!Fds /\ fiDesc \in [Files!Fds -> 0..MaxFd] /\ fiFd[g] \in Files!Fds /\ o = fiDesc[fiFd[g]]
    BY <1>2, FileFacts DEF Files!At
  <2>2. fiOpen' = Files!Kept(fiDesc', fiOpen) /\ UNCHANGED <<fiName, fiLost>>
    BY <1>2 DEF Files!CopyFrom
  <2>3. PICK d \in Files!Fds : fiDesc' = [fiDesc EXCEPT ![d] = o] /\ Owned(fiFd', fiDesc', fiLost')
    <3>1. CASE Files!Valid(f)
      <4>1. fiFd' = fiFd /\ fiDesc' = [fiDesc EXCEPT ![fiFd[f]] = o] /\ fiFd[f] \in Files!Fds
        BY <1>2, <3>1, FileFacts DEF Files!CopyFrom
      <4> HIDE DEF o
      <4>2. Owned(fiFd, [fiDesc EXCEPT ![fiFd[f]] = o], fiLost)
        BY <2>1, <3>1, Redirected DEF FileInv, Files!Valid
      <4> QED BY <2>2, <4>1, <4>2
    <3>2. CASE ~Files!Valid(f)
      <4> DEFINE free == {d \in Files!Fds : fiDesc[d] = 0}  d == Files!Min(free)
      <4>1. free # {} /\ fiFd' = [fiFd EXCEPT ![f] = d] /\ fiDesc' = [fiDesc EXCEPT ![d] = o]
        BY <1>2, <3>2 DEF Files!CopyFrom
      <4>2. d \in free
        <5>1. free \subseteq Nat
          BY Descs
        <5> HIDE DEF free
        <5> QED BY <4>1, <5>1, LeastIn
      <4>3. d \in Files!Fds /\ fiDesc[d] = 0
        BY <4>2
      <4> HIDE DEF free, d, o
      <4>4. Owned([fiFd EXCEPT ![f] = d], [fiDesc EXCEPT ![d] = o], fiLost)
        BY <2>1, <3>2, <4>3, Given DEF FileInv, Files!Valid
      <4> QED BY <2>2, <4>1, <4>3, <4>4
    <3> QED BY <3>1, <3>2
  <2> HIDE DEF o
  <2>4. OpenRight(fiDesc', Files!Kept(fiDesc', fiOpen))
    <3>1. fiDesc' \in [Files!Fds -> 0..MaxFd]
      BY <2>3 DEF Owned
    <3>2. \A e \in Files!Fds : fiDesc'[e] # 0 => \E x \in Files!Fds : fiDesc[x] = fiDesc'[e]
      BY <2>1, <2>3
    <3> QED BY <3>1, <3>2, KeptRight DEF FileInv
  <2> QED BY <2>2, <2>3, <2>4 DEF FileInv
<1> QED BY <1>1, <1>2

\* A copy that fails keeps FileInv.
LEMMA FileCopyFails ==
    ASSUME FileInv, NEW f \in File, NEW g \in File, Files!CopyFails(f, g)
    PROVE  FileInv'
<1>1. fiFd' = [fiFd EXCEPT ![f] = 0] /\ fiLost' = fiLost \cup ({fiFd[f]} \ {0}) /\ UNCHANGED <<fiDesc, fiOpen, fiName>>
  BY DEF Files!CopyFails, Files!disk
<1>2. Owned(fiFd', fiDesc', fiLost')
  BY <1>1, DescLost DEF FileInv
<1> QED BY <1>1, <1>2 DEF FileInv

\* Only the position of an open file moves.
LEMMA FileMoves ==
    ASSUME FileInv, NEW f \in File, Files!Valid(f), NEW p \in Int,
           fiOpen' = [fiOpen EXCEPT ![Files!At(f)].pos = p], UNCHANGED <<fiFd, fiDesc, fiName, fiLost>>
    PROVE  FileInv'
<1> DEFINE o == Files!At(f)  r == [fiOpen[o] EXCEPT !.pos = p]
<1>1. o \in Files!Fds /\ fiOpen \in [Files!Fds -> OpenFiles]
  BY FileFacts
<1>2. fiOpen' = [fiOpen EXCEPT ![o] = r]
  OBVIOUS
<1>3. r \in OpenFiles /\ r.ino = fiOpen[o].ino
  BY <1>1 DEF OpenFiles
<1> HIDE DEF o, r
<1>4. fiOpen' \in [Files!Fds -> OpenFiles] /\ \A x \in Files!Fds : fiOpen'[x].ino = fiOpen[x].ino
  BY <1>1, <1>2, <1>3
<1>5. OpenRight(fiDesc', fiOpen')
  <2>1. \A d \in Files!Fds : fiDesc[d] # 0 => fiDesc[d] \in Files!Fds
    BY Descs DEF FileInv, Owned
  <2> QED BY <1>4, <2>1 DEF FileInv, OpenRight
<1> QED BY <1>5 DEF FileInv

\* Reading, writing and seeking move positions only.
LEMMA FileReads ==
    ASSUME FileInv, NEW f \in File, 
           \/ \E size \in 1..MaxLen, append \in BOOLEAN : \E n \in -1..size : Files!Read(f, size, n, append)
           \/ \E n \in 0..1 : Files!Write(f, n)
           \/ \E s \in {<<0, "set">>, <<1, "cur">>, <<0, "end">>} : Files!Seek(f, s[1], s[2])
    PROVE  FileInv'
<1>0. Files!Valid(f)
  BY DEF Files!Read, Files!Write, Files!Seek
<1>1. Files!Pos(f) \in Int /\ Files!At(f) \in Files!Fds
  BY <1>0, FileFacts DEF Files!Pos, OpenFiles
<1>2. ASSUME NEW size \in 1..MaxLen, NEW append \in BOOLEAN, NEW n \in -1..size, Files!Read(f, size, n, append)
      PROVE FileInv'
  <2> DEFINE p == Files!Pos(f) + (IF n > 0 THEN n ELSE 0)
  <2>1. p \in Int
    BY <1>1
  <2>2. fiOpen' = [fiOpen EXCEPT ![Files!At(f)].pos = p] /\ UNCHANGED <<fiFd, fiDesc, fiName, fiLost>>
    BY <1>2 DEF Files!Read, Files!Pos, Files!disk
  <2> HIDE DEF p
  <2> QED BY <1>0, <2>1, <2>2, FileMoves
<1>3. ASSUME NEW n \in 0..1, Files!Write(f, n)  PROVE FileInv'
  <2> DEFINE p == Files!Pos(f) + n
  <2>1. p \in Int
    BY <1>1
  <2>2. fiOpen' = [fiOpen EXCEPT ![Files!At(f)].pos = p] /\ UNCHANGED <<fiFd, fiDesc, fiName, fiLost>>
    BY <1>3 DEF Files!Write
  <2> HIDE DEF p
  <2> QED BY <1>0, <2>1, <2>2, FileMoves
<1>4. ASSUME NEW offset, NEW whence, Files!Seek(f, offset, whence)  PROVE FileInv'
  <2>1. PICK p \in 0..MaxLen : fiOpen' = [fiOpen EXCEPT ![Files!At(f)].pos = p]
    BY <1>4 DEF Files!Seek
  <2>2. p \in Int /\ UNCHANGED <<fiFd, fiDesc, fiName, fiLost>>
    BY <1>4 DEF Files!Seek, Files!disk
  <2> QED BY <1>0, <2>1, <2>2, FileMoves
<1> QED BY <1>2, <1>3, <1>4

\* unlink and rename change no descriptor.
LEMMA FileNames ==
    ASSUME FileInv, NEW f \in File, NEW n \in Name, Files!Unlink(f) \/ Files!Rename(f, n)
    PROVE  FileInv'
<1>1. fiName' \in [Name -> 0..MaxIno] /\ UNCHANGED <<fiFd, fiDesc, fiOpen, fiLost>>
  BY FileAssumption DEF Files!Unlink, Files!Rename, Files!Filename, FileInv
<1> QED BY <1>1 DEF FileInv

\* Every step keeps FileInv.
LEMMA FileStep == FileInv /\ [Files!Next]_Files!fiVars => FileInv'
<1> SUFFICES ASSUME FileInv, [Files!Next]_Files!fiVars  PROVE FileInv'
  OBVIOUS
<1>1. CASE UNCHANGED Files!fiVars
  BY <1>1 DEF FileInv, Files!fiVars
<1>2. ASSUME NEW f \in File, Files!OpenFails(f)  PROVE FileInv'
  BY <1>2, FileClose DEF Files!OpenFails
<1>3. ASSUME NEW f \in File, NEW len, Files!Truncate(f, len)  PROVE FileInv'
  BY <1>3 DEF FileInv, Files!Truncate
<1>4. ASSUME NEW f \in File, Files!Unlink(f)  PROVE FileInv'
  <2>1. \E n \in Name : TRUE
    BY <1>4 DEF Files!Unlink, Files!Filename
  <2> QED BY <1>4, <2>1, FileNames
<1> QED BY <1>1, <1>2, <1>3, <1>4, FileClose, FileOpen, FileCopy, FileCopyFails, FileReads,
      FileNames DEF Files!Next

\* Each file object has a descriptor of its own, that is open, or none; and whatever is
\* open belongs to an object or was lost by one (file.hh).
THEOREM DescriptorsKept == Files!Spec => []Files!DescriptorsOwned
<1>1. Files!Init => FileInv
  <2> SUFFICES ASSUME Files!Init  PROVE FileInv
    OBVIOUS
  <2>1. /\ fiFd = [f \in File |-> 0] /\ fiDesc = [d \in Files!Fds |-> 0] /\ fiOpen = [o \in Files!Fds |-> [ino |-> 0, pos |-> 0]]
        /\ fiName = [n \in Name |-> 0] /\ fiLost = {}
    BY DEF Files!Init, Files!NoFile
  <2>2. Owned(fiFd, fiDesc, fiLost)
    BY <2>1, FileAssumption DEF Owned
  <2>3. OpenRight(fiDesc, fiOpen)
    BY <2>1, FileAssumption DEF OpenRight, OpenFiles
  <2>4. fiName \in [Name -> 0..MaxIno]
    BY <2>1, FileAssumption
  <2> QED BY <2>2, <2>3, <2>4 DEF FileInv
<1>3. FileInv => Files!DescriptorsOwned
  <2> SUFFICES ASSUME FileInv  PROVE Files!DescriptorsOwned
    OBVIOUS
  <2>1. Files!Range(fiFd) = {fiFd[f] : f \in File}
    BY DEF Files!Range, FileInv, Owned
  <2> QED BY <2>1 DEF Files!DescriptorsOwned, FileInv, Owned, OpenRight, Files!Valid
<1> QED BY <1>1, <1>3, FileStep, PTL DEF Files!Spec

----------------------------------------------------------------------------
(* The log (logger_impl.hh) *)

LgBusy == {"check", "roll", "close", "write"}
Doings == [pc : LgBusy \cup {"idle", "pause"}, msg : Nat, cur : Nat, again : BOOLEAN]
LgNames == 0..lgMax

\* Who works holds the lock, for the message counted last.
DoingRight(t, m, lock, fd, next, max) ==
    /\ m \in Doings
    /\ m.pc \in LgBusy => lock = t /\ m.msg = next - 1
    /\ m.pc \in {"roll", "close"} => fd # 0
    /\ m.pc \in {"check", "close"} => m.cur = 0
    /\ m.pc = "roll" => m.cur \in 0..max /\ (max > 0 => m.cur < max)
    /\ m.pc = "write" /\ fd = 0 => m.cur = 0

WorkInv ==
    /\ lgMax \in Nat /\ lgNext \in Nat /\ lgFd \in Nat
    /\ lgDir \in [LgNames -> Nat] /\ lgText \in Seq(Seq(Nat \X Nat))
    /\ lgThread \in [LgThread -> Doings] /\ lgLock \in LgThread \cup {"none"}
    /\ \A t \in LgThread : DoingRight(t, lgThread[t], lgLock, lgFd, lgNext, lgMax)

\* One thread goes on.
LEMMA LogMove ==
    ASSUME WorkInv, NEW t \in LgThread, NEW m, lgThread' = [lgThread EXCEPT ![t] = m],
           DoingRight(t, m, lgLock', lgFd', lgNext', lgMax), lgMax' = lgMax, lgLock \in {t, "none"},
           lgLock' \in {t, "none"}, lgNext' \in Nat, lgFd' \in Nat,
           lgDir' \in [LgNames -> Nat], lgText' \in Seq(Seq(Nat \X Nat))
    PROVE  WorkInv'
<1>1. lgThread' \in [LgThread -> Doings]
  BY DEF WorkInv, DoingRight
<1>2. \A u \in LgThread : DoingRight(u, lgThread[u], lgLock, lgFd, lgNext, lgMax)'
  <2> TAKE u \in LgThread
  <2>1. CASE u = t
    <3>1. lgThread'[u] = m
      BY <2>1 DEF WorkInv
    <3> QED BY <2>1, <3>1 DEF DoingRight
  <2>2. CASE u # t
    <3>1. lgThread'[u] = lgThread[u]
      BY <2>2 DEF WorkInv
    <3>2. lgThread[u].pc \notin LgBusy /\ lgThread[u] \in Doings
      BY <2>2, LogAssumption DEF WorkInv, DoingRight
    <3> QED BY <3>1, <3>2 DEF DoingRight, LgBusy
  <2> QED BY <2>1, <2>2
<1> QED BY <1>1, <1>2 DEF WorkInv, LgNames

\* No thread does; a file may be opened.
LEMMA LogRests ==
    ASSUME WorkInv, UNCHANGED <<lgThread, lgLock, lgNext, lgMax>>,
           lgFd' = lgFd \/ (lgFd = 0 /\ lgFd' \in Nat) \/ (lgLock = "none" /\ lgFd' \in Nat),
           lgDir' \in [LgNames -> Nat], lgText' \in Seq(Seq(Nat \X Nat))
    PROVE  WorkInv'
<1>1. lgFd' \in Nat
  BY DEF WorkInv
<1>2. \A u \in LgThread : DoingRight(u, lgThread[u], lgLock, lgFd, lgNext, lgMax)'
  <2> TAKE u \in LgThread
  <2>1. DoingRight(u, lgThread[u], lgLock, lgFd, lgNext, lgMax) /\ (lgLock = "none" => lgThread[u].pc \notin LgBusy)
    BY LogAssumption DEF WorkInv, DoingRight
  <2> QED BY <2>1 DEF DoingRight, LgBusy
<1> QED BY <1>1, <1>2 DEF WorkInv, LgNames

\* openFile opens the file that has the first name, or makes one.
LEMMA LogOpened ==
    ASSUME WorkInv, Log!Opened, lgMax' = lgMax
    PROVE  /\ lgFd' \in Nat \ {0} /\ lgDir' \in [LgNames -> Nat] /\ lgText' \in Seq(Seq(Nat \X Nat))
           /\ \/ lgDir[0] # 0 /\ lgDir' = lgDir /\ lgText' = lgText /\ lgFd' = lgDir[0]
              \/ /\ lgDir[0] = 0 /\ lgText' = Append(lgText, <<>>) /\ lgFd' = Len(lgText) + 1
                 /\ lgDir' = [lgDir EXCEPT ![0] = Len(lgText) + 1]
<1>1. CASE lgDir[0] # 0
  BY <1>1 DEF Log!Opened, Log!lgDisk, WorkInv, LgNames
<1>2. CASE lgDir[0] = 0
  <2>1. /\ lgText' = Append(lgText, <<>>) /\ lgFd' = Len(lgText) + 1
        /\ lgDir' = [lgDir EXCEPT ![0] = Len(lgText) + 1]
    BY <1>2 DEF Log!Opened
  <2>2. Len(lgText) \in Nat /\ <<>> \in Seq(Nat \X Nat)
    BY DEF WorkInv
  <2>3. Append(lgText, <<>>) \in Seq(Seq(Nat \X Nat))
    BY <2>2 DEF WorkInv
  <2>4. lgDir' \in [LgNames -> Nat]
    <3>1. Len(lgText) + 1 \in Nat /\ lgDir \in [LgNames -> Nat]
      BY <2>2 DEF WorkInv
    <3> QED BY <2>1, <3>1
  <2> QED BY <1>2, <2>1, <2>2, <2>3, <2>4
<1> QED BY <1>1, <1>2

\* What WorkInv says of one thread.
LEMMA LogWhole == ASSUME WorkInv, NEW t \in LgThread
    PROVE  lgThread[t] \in Doings /\ DoingRight(t, lgThread[t], lgLock, lgFd, lgNext, lgMax)
  BY DEF WorkInv

\* A thread between its calls.
LEMMA LogIdle == Log!Idle \in Doings /\ Log!Idle.pc = "idle" /\ Log!Idle.cur = 0
  BY DEF Log!Idle, Doings

\* At first nobody works.
LEMMA WorkInit == Log!Init => WorkInv
<1> SUFFICES ASSUME Log!Init  PROVE WorkInv
  OBVIOUS
<1>1. lgMax \in Nat /\ lgNext \in Nat /\ lgFd \in Nat /\ lgLock = "none"
  BY DEF Log!Init, Log!Nobody
<1>2. lgDir \in [LgNames -> Nat]
  BY <1>1 DEF Log!Init, Log!Names, LgNames
<1>3. lgText \in Seq(Seq(Nat \X Nat))
  <2>1. lgText \in [1..lgMax -> Seq(Nat \X Nat)]
    BY <1>1 DEF Log!Init
  <2> QED BY <1>1, <2>1
<1>4. ASSUME NEW t \in LgThread  PROVE lgThread[t] = Log!Idle
  BY DEF Log!Init
<1>5. lgThread \in [LgThread -> Doings]
  BY LogIdle DEF Log!Init
<1>6. ASSUME NEW t \in LgThread  PROVE DoingRight(t, lgThread[t], lgLock, lgFd, lgNext, lgMax)
  BY <1>4, LogIdle DEF DoingRight, LgBusy
<1> QED BY <1>1, <1>2, <1>3, <1>5, <1>6 DEF WorkInv

\* Who takes the lock looks at the size of the file first.
LEMMA WorkCheck == ASSUME WorkInv, NEW t \in LgThread, Log!Check(t)  PROVE WorkInv'
<1>1. lgFd' \in {0, lgFd} /\ lgThread[t].pc = "check" /\ UNCHANGED <<lgMax, lgDir, lgText, lgLock, lgNext>>
  BY DEF Log!Check, Log!At, Log!Runs
<1>6. \/ /\ lgFd' # 0
         /\ lgThread' = [lgThread EXCEPT ![t] = [lgThread[t] EXCEPT !.pc = "roll", !.cur = IF lgMax = 0 THEN 0 ELSE lgMax - 1]]
      \/ lgThread' = [lgThread EXCEPT ![t] = [lgThread[t] EXCEPT !.pc = "write"]]
  BY DEF Log!Check, Log!At, Log!Runs
<1>2. /\ lgThread[t] \in Doings /\ DoingRight(t, lgThread[t], lgLock, lgFd, lgNext, lgMax)
      /\ lgMax \in Nat /\ lgNext \in Nat /\ lgFd \in Nat
  BY DEF WorkInv
<1>3. lgLock = t /\ lgThread[t].msg = lgNext - 1 /\ lgThread[t].cur = 0
  BY <1>1, <1>2 DEF DoingRight, LgBusy
<1>7. lgFd' \in Nat /\ lgNext' \in Nat /\ lgDir' \in [LgNames -> Nat] /\ lgText' \in Seq(Seq(Nat \X Nat))
  BY <1>1 DEF WorkInv
<1>4. CASE /\ lgFd' # 0
           /\ lgThread' = [lgThread EXCEPT ![t] = [lgThread[t] EXCEPT !.pc = "roll", !.cur = IF lgMax = 0 THEN 0 ELSE lgMax - 1]]
  <2> DEFINE c == IF lgMax = 0 THEN 0 ELSE lgMax - 1
             m == [lgThread[t] EXCEPT !.pc = "roll", !.cur = c]
  <2>1. c \in Nat /\ c \in 0..lgMax /\ (lgMax > 0 => c < lgMax)
    BY <1>2
  <2> HIDE DEF c
  <2>2. m \in Doings /\ m.msg = lgThread[t].msg /\ m.pc = "roll" /\ m.cur = c
    BY <1>2, <2>1 DEF Doings, LgBusy
  <2>3. lgThread' = [lgThread EXCEPT ![t] = m]
    BY <1>4 DEF c
  <2> HIDE DEF m
  <2>4. DoingRight(t, m, lgLock', lgFd', lgNext', lgMax)
    BY <1>1, <1>2, <1>3, <1>4, <2>1, <2>2 DEF DoingRight, LgBusy
  <2> QED BY <1>1, <1>2, <1>3, <1>7, <2>3, <2>4, LogMove
<1>5. CASE lgThread' = [lgThread EXCEPT ![t] = [lgThread[t] EXCEPT !.pc = "write"]]
  <2> DEFINE m == [lgThread[t] EXCEPT !.pc = "write"]
  <2>2. m \in Doings /\ m.msg = lgThread[t].msg /\ m.pc = "write" /\ m.cur = 0
    BY <1>2, <1>3 DEF Doings, LgBusy
  <2>3. lgThread' = [lgThread EXCEPT ![t] = m]
    BY <1>5
  <2> HIDE DEF m
  <2>4. DoingRight(t, m, lgLock', lgFd', lgNext', lgMax)
    BY <1>1, <1>2, <1>3, <2>2 DEF DoingRight, LgBusy
  <2> QED BY <1>1, <1>2, <1>3, <1>7, <2>3, <2>4, LogMove
<1> QED BY <1>4, <1>5, <1>6

\* A thread begins to log a message.
LEMMA WorkLog == ASSUME WorkInv, NEW t \in LgThread, Log!Log(t)  PROVE WorkInv'
<1> DEFINE m == [Log!Idle EXCEPT !.pc = "check", !.msg = lgNext]
<1>1. m \in Doings /\ m.pc = "check" /\ m.msg = lgNext /\ m.cur = 0
  BY DEF Log!Idle, Doings, LgBusy, WorkInv
<1>2. /\ lgThread' = [lgThread EXCEPT ![t] = m] /\ lgLock = "none" /\ lgLock' = t /\ lgNext' = lgNext + 1
      /\ UNCHANGED <<lgMax, lgDir, lgText, lgFd>>
  BY DEF Log!Log, Log!Nobody
<1> HIDE DEF m
<1>3. DoingRight(t, m, lgLock', lgFd', lgNext', lgMax)
  BY <1>1, <1>2 DEF DoingRight, WorkInv, Doings, LgBusy
<1>4. lgNext' \in Nat /\ lgFd' \in Nat /\ lgMax' = lgMax /\ lgDir' \in [LgNames -> Nat] /\ lgText' \in Seq(Seq(Nat \X Nat))
  BY <1>2 DEF WorkInv
<1> QED BY <1>2, <1>3, <1>4, LogMove

\* One name is taken over by the next.
LEMMA WorkRollOne == ASSUME WorkInv, NEW t \in LgThread, Log!RollOne(t)  PROVE WorkInv'
<1> DEFINE m == [lgThread[t] EXCEPT !.cur = @ - 1]
<1>1. /\ lgThread' = [lgThread EXCEPT ![t] = m] /\ lgThread[t].pc = "roll" /\ lgThread[t].cur > 0
      /\ UNCHANGED <<lgMax, lgFd, lgText, lgLock, lgNext>>
  BY DEF Log!RollOne, Log!At
<1>2. lgThread[t] \in Doings /\ DoingRight(t, lgThread[t], lgLock, lgFd, lgNext, lgMax) /\ lgMax \in Nat
  BY DEF WorkInv
<1>3. m \in Doings /\ m.msg = lgThread[t].msg /\ m.pc = "roll" /\ m.cur = lgThread[t].cur - 1
  BY <1>1, <1>2 DEF Doings, LgBusy
<1> HIDE DEF m
<1>4. lgLock = t
  BY <1>1, <1>2 DEF DoingRight, LgBusy
<1>5. DoingRight(t, m, lgLock', lgFd', lgNext', lgMax)
  BY <1>1, <1>2, <1>3 DEF DoingRight, LgBusy, Doings
<1>6. lgDir' \in [LgNames -> Nat]
  <2>1. lgThread[t].cur \in LgNames
    BY <1>1, <1>2 DEF DoingRight, LgNames
  <2> DEFINE c == lgThread[t].cur
  <2>2. lgDir' = lgDir \/ lgDir' = [lgDir EXCEPT ![c + 1] = lgDir[c], ![c] = 0]
    BY DEF Log!RollOne, Log!Renamed
  <2>3. lgDir \in [LgNames -> Nat] /\ c \in LgNames
    BY <2>1 DEF WorkInv
  <2> HIDE DEF c
  <2> QED BY <2>2, <2>3
<1> QED BY <1>1, <1>4, <1>5, <1>6, LogMove DEF WorkInv

\* The thread that works goes on to close or to write.
LEMMA WorkGoto ==
    ASSUME WorkInv, NEW t \in LgThread, NEW pc \in {"close", "write"}, Log!Goto(t, pc), lgThread[t].pc \in {"roll", "close"},
           lgThread[t].cur = 0, lgFd' \in Nat, pc = "close" => lgFd' # 0,
           lgDir' \in [LgNames -> Nat], UNCHANGED <<lgMax, lgText, lgLock, lgNext>>
    PROVE  WorkInv'
<1> DEFINE m == [lgThread[t] EXCEPT !.pc = pc]
<1>1. lgThread' = [lgThread EXCEPT ![t] = m]
  BY DEF Log!Goto
<1>2. lgThread[t] \in Doings /\ DoingRight(t, lgThread[t], lgLock, lgFd, lgNext, lgMax) /\ lgMax \in Nat
  BY DEF WorkInv
<1>3. m \in Doings /\ m.msg = lgThread[t].msg /\ m.pc = pc /\ m.cur = 0
  BY <1>2 DEF Doings, LgBusy
<1> HIDE DEF m
<1>4. lgLock = t /\ lgThread[t].msg = lgNext - 1
  BY <1>2 DEF DoingRight, LgBusy
<1>5. DoingRight(t, m, lgLock', lgFd', lgNext', lgMax)
  BY <1>2, <1>3, <1>4 DEF DoingRight, LgBusy
<1> QED BY <1>1, <1>4, <1>5, LogMove DEF WorkInv

\* The open file gets the next name, or none.
LEMMA WorkRollLast == ASSUME WorkInv, NEW t \in LgThread, Log!RollLast(t)  PROVE WorkInv'
<1>1. lgThread[t].pc = "roll" /\ lgThread[t].cur = 0 /\ Log!Goto(t, "close") /\ UNCHANGED <<lgMax, lgText, lgLock, lgNext, lgFd>>
  BY DEF Log!RollLast, Log!At
<1>2. lgFd # 0
  BY <1>1, LogWhole DEF DoingRight
<1>3. lgDir' \in [LgNames -> Nat]
  <2>1. CASE Log!Deleted
    BY <2>1 DEF Log!RollLast, WorkInv
  <2>2. CASE ~Log!Deleted
    <3> DEFINE name == CHOOSE n \in Log!Names : lgDir[n] = lgFd
    <3>1. name \in LgNames
      BY <2>2 DEF Log!Deleted, LgNames, Log!Names
    <3>2. IF lgMax = 0 THEN lgDir' = [lgDir EXCEPT ![name] = 0] \/ lgDir' = lgDir ELSE Log!Renamed(name, 1)
      BY <2>2 DEF Log!RollLast
    <3> HIDE DEF name
    <3> QED BY <3>1, <3>2 DEF Log!Renamed, WorkInv
  <2> QED BY <2>1, <2>2
<1> QED BY <1>1, <1>2, <1>3, WorkGoto DEF WorkInv

\* The file is closed.
LEMMA WorkClose == ASSUME WorkInv, NEW t \in LgThread, Log!Close(t)  PROVE WorkInv'
<1>1. lgThread[t].pc = "close" /\ Log!Goto(t, "write") /\ lgFd' = 0 /\ UNCHANGED <<lgMax, lgText, lgLock, lgNext, lgDir>>
  BY DEF Log!Close, Log!At
<1>2. lgThread[t].cur = 0
  BY <1>1, LogWhole DEF DoingRight
<1> QED BY <1>1, <1>2, WorkGoto DEF WorkInv

\* What a write does.
LEMMA LogWritten ==
    ASSUME WorkInv, NEW t \in LgThread, NEW n \in 0..Pieces, Log!Write(t, n)
    PROVE  /\ lgThread[t].pc = "write" /\ lgThread[t].cur + n <= Pieces
           /\ \/ lgFd = 0 /\ n = 0 /\ lgThread[t].cur = 0 /\ Log!Opened
              \/ /\ lgFd # 0 /\ n > 0 /\ lgFd' = lgFd /\ lgDir' = lgDir
                 /\ lgText' = [lgText EXCEPT ![lgFd] = @ \o [i \in 1..n |-> <<lgThread[t].msg, lgThread[t].cur + i>>]]
           /\ lgText' \in Seq(Seq(Nat \X Nat)) /\ lgDir' \in [LgNames -> Nat] /\ lgFd' \in Nat /\ lgFd' # 0
<1>1. lgThread[t] \in Doings /\ DoingRight(t, lgThread[t], lgLock, lgFd, lgNext, lgMax)
  BY DEF WorkInv
<1>2. lgThread[t].pc = "write" /\ lgThread[t].cur + n <= Pieces /\ lgMax' = lgMax
  BY DEF Log!Write, Log!At
<1>3. CASE lgFd = 0
  <2>1. Log!Opened /\ n = 0
    BY <1>3 DEF Log!Write
  <2>2. lgThread[t].cur = 0
    BY <1>1, <1>2, <1>3 DEF DoingRight
  <2> QED BY <1>2, <1>3, <2>1, <2>2, LogOpened
<1>4. CASE lgFd # 0
  <2> DEFINE more == [i \in 1..n |-> <<lgThread[t].msg, lgThread[t].cur + i>>]
  <2>1. n > 0 /\ lgFd' = lgFd /\ lgDir' = lgDir /\ lgText' = [lgText EXCEPT ![lgFd] = @ \o more]
    BY <1>4 DEF Log!Write, Log!Piece
  <2>2. more \in Seq(Nat \X Nat)
    <3>1. more \in [1..n -> Nat \X Nat]
      BY <1>1 DEF Doings
    <3>2. n \in Nat
      BY LogAssumption
    <3> QED BY <3>1, <3>2, SeqOf
  <2> HIDE DEF more
  <2>3. lgText' \in Seq(Seq(Nat \X Nat))
    <3>1. ASSUME NEW s \in Seq(Nat \X Nat)  PROVE s \o more \in Seq(Nat \X Nat)
      BY <2>2, JoinAt
    <3>2. CASE lgFd \in 1..Len(lgText)
      <4>1. lgText[lgFd] \in Seq(Nat \X Nat) /\ lgText \in Seq(Seq(Nat \X Nat))
        BY <3>2 DEF WorkInv
      <4> DEFINE x == lgText[lgFd] \o more
      <4>2. x \in Seq(Nat \X Nat)
        BY <3>1, <4>1
      <4>3. lgText' = [lgText EXCEPT ![lgFd] = x]
        BY <2>1
      <4> HIDE DEF x
      <4> QED BY <4>1, <4>2, <4>3, SeqSet
    <3>3. CASE lgFd \notin 1..Len(lgText)
      <4>1. lgText' = lgText
        BY <2>1, <3>3 DEF WorkInv
      <4> QED BY <4>1 DEF WorkInv
    <3> QED BY <3>2, <3>3
  <2> QED BY <1>2, <1>4, <2>1, <2>3 DEF more, WorkInv
<1> QED BY <1>3, <1>4

\* A message, or some of it, is written.
LEMMA WorkWrite ==
    ASSUME WorkInv, NEW t \in LgThread, NEW n \in 0..Pieces, Log!Write(t, n)
    PROVE  WorkInv'
<1>1. /\ lgThread[t].pc = "write" /\ lgText' \in Seq(Seq(Nat \X Nat)) /\ lgDir' \in [LgNames -> Nat] /\ lgFd' \in Nat /\ lgFd' # 0
  BY LogWritten
<1>2. UNCHANGED <<lgMax, lgNext>>
  BY DEF Log!Write
<1>3. lgThread[t] \in Doings /\ DoingRight(t, lgThread[t], lgLock, lgFd, lgNext, lgMax) /\ lgLock = t /\ lgNext \in Nat
  BY <1>1 DEF WorkInv, DoingRight, LgBusy
<1>4. CASE lgThread[t].cur + n = Pieces
  <2>1. lgThread' = [lgThread EXCEPT ![t] = Log!Idle] /\ lgLock' = "none"
    BY <1>4 DEF Log!Write, Log!Return, Log!Nobody
  <2>2. DoingRight(t, Log!Idle, lgLock', lgFd', lgNext', lgMax)
    BY LogIdle DEF DoingRight, LgBusy
  <2> QED BY <1>1, <1>2, <1>3, <2>1, <2>2, LogMove
<1>5. CASE lgThread[t].cur + n # Pieces
  <2> DEFINE m == [lgThread[t] EXCEPT !.cur = @ + n]
  <2>1. lgThread' = [lgThread EXCEPT ![t] = m] /\ lgLock' = lgLock
    BY <1>5 DEF Log!Write
  <2>2. m \in Doings /\ m.msg = lgThread[t].msg /\ m.pc = "write"
    <3>1. lgThread[t].cur + n \in Nat
      <4>1. lgThread[t].cur \in Nat /\ n \in Nat
        BY <1>3, LogAssumption DEF Doings
      <4> QED BY <4>1
    <3> QED BY <1>1, <1>3, <3>1 DEF Doings
  <2> HIDE DEF m
  <2>3. DoingRight(t, m, lgLock', lgFd', lgNext', lgMax)
    BY <1>1, <1>2, <1>3, <2>1, <2>2 DEF DoingRight, LgBusy
  <2> QED BY <1>1, <1>2, <1>3, <2>1, <2>3, LogMove
<1> QED BY <1>4, <1>5

\* A write that fails ends the call, or the file is closed and the message begins again.
LEMMA LogFailed ==
    ASSUME WorkInv, NEW t \in LgThread, Log!WriteFails(t)
    PROVE  /\ lgThread[t].pc = "write" /\ UNCHANGED <<lgMax, lgDir, lgText, lgNext, lgOk, lgRemoved, lgStuck>>
           /\ \/ lgThread' = [lgThread EXCEPT ![t] = Log!Idle] /\ lgLock' = "none" /\ lgFd' = lgFd
              \/ /\ lgThread' = [lgThread EXCEPT ![t] = [lgThread[t] EXCEPT !.again = TRUE, !.cur = 0]]
                 /\ lgLock' = lgLock /\ lgFd' = 0
  BY DEF Log!WriteFails, Log!Return, Log!Nobody, Log!At

\* A message begins again.
LEMMA LogAgain == ASSUME NEW m \in Doings, m.pc = "write"
    PROVE  /\ [m EXCEPT !.again = TRUE, !.cur = 0] \in Doings
           /\ [m EXCEPT !.again = TRUE, !.cur = 0].pc = "write"
           /\ [m EXCEPT !.again = TRUE, !.cur = 0].msg = m.msg
           /\ [m EXCEPT !.again = TRUE, !.cur = 0].cur = 0
  BY DEF Doings

\* A write that fails keeps WorkInv.
LEMMA WorkFails == ASSUME WorkInv, NEW t \in LgThread, Log!WriteFails(t)  PROVE WorkInv'
<1>1. lgThread[t] \in Doings /\ DoingRight(t, lgThread[t], lgLock, lgFd, lgNext, lgMax) /\ lgNext \in Nat
  BY DEF WorkInv
<1>2. /\ lgThread[t].pc = "write" /\ UNCHANGED <<lgMax, lgDir, lgText, lgNext>>
  BY LogFailed
<1>3. lgLock = t
  BY <1>1, <1>2 DEF DoingRight, LgBusy
<1>4. CASE lgThread' = [lgThread EXCEPT ![t] = Log!Idle] /\ lgLock' = "none" /\ lgFd' = lgFd
  <2>1. DoingRight(t, Log!Idle, lgLock', lgFd', lgNext', lgMax)
    BY LogIdle DEF DoingRight, LgBusy
  <2> QED BY <1>2, <1>3, <1>4, <2>1, LogMove DEF WorkInv
<1>5. CASE /\ lgThread' = [lgThread EXCEPT ![t] = [lgThread[t] EXCEPT !.again = TRUE, !.cur = 0]]
           /\ lgLock' = lgLock /\ lgFd' = 0
  <2> DEFINE m == [lgThread[t] EXCEPT !.again = TRUE, !.cur = 0]
  <2>1. m \in Doings /\ m.pc = "write" /\ m.msg = lgThread[t].msg /\ m.cur = 0
    BY <1>1, <1>2, LogAgain
  <2>2. lgThread' = [lgThread EXCEPT ![t] = m]
    BY <1>5
  <2> HIDE DEF m
  <2>3. DoingRight(t, m, lgLock', lgFd', lgNext', lgMax)
    BY <1>1, <1>2, <1>5, <2>1 DEF DoingRight, LgBusy
  <2> QED BY <1>2, <1>3, <1>5, <2>2, <2>3, LogMove DEF WorkInv
<1> QED BY <1>4, <1>5, LogFailed

\* A crashed thread enters the handler, or waits in it.
LEMMA WorkEnter == ASSUME WorkInv, NEW t \in LgThread, Log!Enter(t)  PROVE WorkInv'
<1>1. UNCHANGED <<lgMax, lgDir, lgText, lgFd, lgLock, lgNext>>
  BY DEF Log!Enter
<1>2. CASE lgThread' = lgThread
  BY <1>1, <1>2, LogRests DEF WorkInv
<1>3. CASE Log!Goto(t, "pause")
  <2> DEFINE m == [lgThread[t] EXCEPT !.pc = "pause"]
  <2>1. m \in Doings /\ m.pc = "pause"
    BY LogWhole DEF Doings
  <2>2. lgThread' = [lgThread EXCEPT ![t] = m]
    BY <1>3 DEF Log!Goto
  <2> HIDE DEF m
  <2>3. lgThread' \in [LgThread -> Doings]
    BY <2>1, <2>2 DEF WorkInv
  <2>4. ASSUME NEW u \in LgThread  PROVE DoingRight(u, lgThread'[u], lgLock, lgFd, lgNext, lgMax)
    <3>1. CASE u = t
      <4>1. lgThread'[u] = m
        BY <2>2, <3>1 DEF WorkInv
      <4> QED BY <2>1, <4>1 DEF DoingRight, LgBusy
    <3>2. CASE u # t
      <4>1. lgThread'[u] = lgThread[u]
        BY <2>2, <3>2 DEF WorkInv
      <4> QED BY <4>1, LogWhole
    <3> QED BY <3>1, <3>2
  <2> QED BY <1>1, <2>3, <2>4 DEF WorkInv, LgNames
<1> QED BY <1>2, <1>3 DEF Log!Enter

\* A process that dies has no threads in the log.
LEMMA WorkDie == ASSUME WorkInv, Log!Die  PROVE WorkInv'
<1>1. lgFd' = 0 /\ lgLock' = "none" /\ lgThread' = [t \in LgThread |-> Log!Idle] /\ UNCHANGED <<lgMax, lgDir, lgText, lgNext>>
  BY DEF Log!Die, Log!Nobody
<1>2. lgThread' \in [LgThread -> Doings]
  BY <1>1, LogIdle
<1>3. ASSUME NEW u \in LgThread  PROVE DoingRight(u, lgThread[u], lgLock, lgFd, lgNext, lgMax)'
  <2>1. lgThread'[u] = Log!Idle
    BY <1>1
  <2> QED BY <2>1, LogIdle DEF DoingRight, LgBusy
<1> QED BY <1>1, <1>2, <1>3 DEF WorkInv, LgNames

\* init opens the file.
LEMMA WorkInitLog == ASSUME WorkInv, NEW t \in LgThread, Log!InitLog(t)  PROVE WorkInv'
<1>1. lgLock = "none" /\ UNCHANGED <<lgThread, lgLock, lgNext, lgMax>>
  BY DEF Log!InitLog, Log!Nobody
<1>2. CASE Log!Opened
  BY <1>1, <1>2, LogOpened, LogRests
<1>3. CASE lgFd' = 0 /\ UNCHANGED Log!lgDisk
  BY <1>1, <1>3, LogRests DEF Log!lgDisk, WorkInv
<1> QED BY <1>2, <1>3 DEF Log!InitLog

\* A write of the crash report.
LEMMA WorkReport == ASSUME WorkInv, Log!Report  PROVE WorkInv'
<1>1. UNCHANGED <<lgThread, lgLock, lgNext, lgMax>>
  BY DEF Log!Report
<1>2. CASE lgFd = 0 /\ Log!Opened
  BY <1>1, <1>2, LogOpened, LogRests
<1>3. CASE UNCHANGED <<lgDir, lgText, lgFd>>
  BY <1>1, <1>3, LogRests DEF WorkInv
<1> QED BY <1>2, <1>3 DEF Log!Report

\* Somebody removes a file by its name.
LEMMA WorkRemove == ASSUME WorkInv, NEW n \in Log!Names, Log!Remove(n)  PROVE WorkInv'
<1>1. UNCHANGED <<lgThread, lgLock, lgNext, lgMax, lgFd, lgText>> /\ lgDir' = [lgDir EXCEPT ![n] = 0]
  BY DEF Log!Remove
<1>2. lgDir' \in [LgNames -> Nat]
  BY <1>1 DEF WorkInv
<1> QED BY <1>1, <1>2, LogRests DEF WorkInv

\* Every step keeps WorkInv.
LEMMA WorkStep == WorkInv /\ [Log!Next]_Log!lgVars => WorkInv'
<1> SUFFICES ASSUME WorkInv, [Log!Next]_Log!lgVars  PROVE WorkInv'
  OBVIOUS
<1>1. CASE UNCHANGED Log!lgVars
  BY <1>1, LogRests DEF Log!lgVars, WorkInv
<1>2. ASSUME NEW t \in LgThread, Log!RegisterCrashHandler(t)  PROVE WorkInv'
  BY <1>2, LogRests DEF Log!RegisterCrashHandler, WorkInv
<1> QED BY <1>1, <1>2, WorkReport, WorkDie, WorkRemove, WorkInitLog, WorkLog, WorkCheck, WorkRollOne,
      WorkRollLast,
           WorkClose, WorkWrite, WorkFails, WorkEnter DEF Log!Next

----------------------------------------------------------------------------

\* The names and their files, of which there are len: no name has an older file than
\* the next, and what has none is in lost or older than all that have one.
DirRight(dir, len, lost, max) ==
    /\ dir \in [0..max -> 0..len] /\ dir[0] \in {0, len}
    /\ \A i, j \in 0..max : (i < j /\ dir[i] # 0 /\ dir[j] # 0) => dir[j] < dir[i]
    /\ \A f \in (1..len) \ lost :
          (\E n \in 0..max : dir[n] = f) \/ \A n \in 0..max : dir[n] = 0 \/ dir[n] > f

\* The open file has not been renamed.
Newest(fd, dir, max) == fd # 0 => \A n \in 1..max : dir[n] # fd

\* The next name is free while the files are renamed, or has a file that could not be.
RollRight(m, fd, dir, stuck, max) ==
    /\ m.pc \in {"check", "roll", "write"} => Newest(fd, dir, max)
    /\ m.pc = "roll" /\ m.cur + 1 < max => dir[m.cur + 1] \in stuck \cup {0}

\* The files for whose place nobody answers.
Lost == lgRemoved \cup lgStuck

DirInv ==
    /\ DirRight(lgDir, Len(lgText), Lost, lgMax) /\ lgFd \in {0, Len(lgText)}
    /\ lgLock = "none" => Newest(lgFd, lgDir, lgMax)
    /\ \A t \in LgThread : RollRight(lgThread[t], lgFd, lgDir, lgStuck, lgMax)

\* A file that is made has the first name and is the newest.
LEMMA DirMakes ==
    ASSUME NEW max \in Nat, NEW len \in Nat, NEW lost, NEW dir, DirRight(dir, len, lost, max), dir[0] = 0
    PROVE  /\ DirRight([dir EXCEPT ![0] = len + 1], len + 1, lost, max)
           /\ Newest(len + 1, [dir EXCEPT ![0] = len + 1], max)
<1> DEFINE d == [dir EXCEPT ![0] = len + 1]
<1>1. /\ d \in [0..max -> 0..len + 1] /\ d[0] = len + 1 /\ len + 1 \in Nat
      /\ \A n \in 1..max : d[n] = dir[n] /\ d[n] <= len /\ n \in 0..max
  BY DEF DirRight
<1> HIDE DEF d
<1>2. \A i, j \in 0..max : (i < j /\ d[i] # 0 /\ d[j] # 0) => d[j] < d[i]
  BY <1>1 DEF DirRight
<1>3. ASSUME NEW f \in (1..len + 1) \ lost
      PROVE  (\E n \in 0..max : d[n] = f) \/ \A n \in 0..max : d[n] = 0 \/ d[n] > f
  <2>1. CASE f = len + 1
    BY <1>1, <2>1
  <2>2. CASE f # len + 1
    <3>1. f \in (1..len) \ lost
      BY <2>2
    <3>2. CASE \E n \in 0..max : dir[n] = f
      <4>1. PICK n \in 0..max : dir[n] = f
        BY <3>2
      <4>2. n \in 1..max
        BY <3>1, <4>1
      <4> QED BY <1>1, <4>1, <4>2
    <3>3. CASE \A n \in 0..max : dir[n] = 0 \/ dir[n] > f
      <4> SUFFICES ASSUME NEW n \in 0..max  PROVE d[n] = 0 \/ d[n] > f
        OBVIOUS
      <4> QED BY <1>1, <3>1, <3>3
    <3> QED BY <3>1, <3>2, <3>3 DEF DirRight
  <2> QED BY <2>1, <2>2
<1>4. \A n \in 1..max : d[n] # len + 1
  BY <1>1
<1> QED BY <1>1, <1>2, <1>3, <1>4 DEF DirRight, Newest, d

\* Only the first name is the newest file's.
LEMMA DirHas ==
    ASSUME NEW max \in Nat, NEW len \in Nat, NEW lost, NEW dir, DirRight(dir, len, lost, max)
    PROVE  Newest(dir[0], dir, max)
  BY DEF DirRight, Newest

\* More of the files are lost.
LEMMA DirMore ==
    ASSUME NEW max, NEW len, NEW lost, NEW more, NEW dir, DirRight(dir, len, lost, max), lost \subseteq more
    PROVE  DirRight(dir, len, more, max)
  BY DEF DirRight

\* A name is removed.
LEMMA DirRemoves ==
    ASSUME NEW max \in Nat, NEW len \in Nat, NEW lost, NEW dir, DirRight(dir, len, lost, max), NEW n \in 0..max
    PROVE  DirRight([dir EXCEPT ![n] = 0], len, lost \cup {dir[n]}, max)
<1> DEFINE d == [dir EXCEPT ![n] = 0]
<1>1. d \in [0..max -> 0..len] /\ d[n] = 0 /\ \A k \in 0..max : k # n => d[k] = dir[k]
  BY DEF DirRight
<1> HIDE DEF d
<1>2. \A i, j \in 0..max : (i < j /\ d[i] # 0 /\ d[j] # 0) => d[j] < d[i]
  BY <1>1 DEF DirRight
<1>3. ASSUME NEW f \in (1..len) \ (lost \cup {dir[n]})
      PROVE  (\E k \in 0..max : d[k] = f) \/ \A k \in 0..max : d[k] = 0 \/ d[k] > f
  <2>1. CASE \E k \in 0..max : dir[k] = f
    BY <1>1, <2>1
  <2>2. CASE \A k \in 0..max : dir[k] = 0 \/ dir[k] > f
    BY <1>1, <2>2
  <2> QED BY <2>1, <2>2 DEF DirRight
<1>4. d[0] \in {0, len}
  BY <1>1 DEF DirRight
<1> QED BY <1>1, <1>2, <1>3, <1>4 DEF DirRight, d

Moved(dir, n) == IF dir[n] = 0 THEN dir ELSE [dir EXCEPT ![n + 1] = dir[n], ![n] = 0]

\* A file gets the next name, which was free, a lost file's or the oldest file's.
LEMMA DirRenames ==
    ASSUME NEW max \in Nat, NEW len \in Nat, NEW lost, NEW dir, DirRight(dir, len, lost, max),
           NEW n \in 0..max, n < max, n + 1 < max => dir[n + 1] \in lost \cup {0}, NEW d, d = Moved(dir, n)
    PROVE  /\ DirRight(d, len, lost \ {dir[n]}, max) /\ d[n] = 0
           /\ \A fd : n > 0 /\ Newest(fd, dir, max) => Newest(fd, d, max)
<1>1. CASE dir[n] = 0
  BY <1>1 DEF Moved, DirRight
<1>2. CASE dir[n] # 0
  <2>0. n + 1 \in 0..max /\ n # n + 1
    OBVIOUS
  <2>1. /\ d \in [0..max -> 0..len] /\ d[n] = 0 /\ d[n + 1] = dir[n]
        /\ \A k \in 0..max : k # n /\ k # n + 1 => d[k] = dir[k]
    <3>1. d = [dir EXCEPT ![n + 1] = dir[n], ![n] = 0]
      BY <1>2 DEF Moved
    <3>2. dir \in [0..max -> 0..len] /\ dir[n] \in 0..len /\ 0 \in 0..len
      BY DEF DirRight
    <3> QED BY <2>0, <3>1, <3>2
  <2>2. \A i, j \in 0..max : (i < j /\ d[i] # 0 /\ d[j] # 0) => d[j] < d[i]
    <3> SUFFICES ASSUME NEW i \in 0..max, NEW j \in 0..max, i < j, d[i] # 0, d[j] # 0  PROVE d[j] < d[i]
      OBVIOUS
    <3>1. CASE i = n + 1
      <4>1. d[i] = dir[n] /\ d[j] = dir[j] /\ n < j
        BY <2>1, <3>1
      <4> QED BY <1>2, <4>1 DEF DirRight
    <3>2. CASE j = n + 1
      <4>1. d[j] = dir[n] /\ d[i] = dir[i] /\ i < n
        BY <2>1, <3>2
      <4> QED BY <1>2, <4>1 DEF DirRight
    <3>3. CASE i # n + 1 /\ j # n + 1
      BY <2>1, <3>3 DEF DirRight
    <3> QED BY <3>1, <3>2, <3>3
  <2>3. ASSUME NEW f \in (1..len) \ (lost \ {dir[n]})
        PROVE  (\E k \in 0..max : d[k] = f) \/ \A k \in 0..max : d[k] = 0 \/ d[k] > f
    <3>0. CASE f = dir[n]
      BY <2>0, <2>1, <3>0
    <3>1. CASE f \notin lost /\ \E k \in 0..max : dir[k] = f
      <4>1. PICK k \in 0..max : dir[k] = f
        BY <3>1
      <4>2. CASE k = n
        <5>1. d[n + 1] = f
          BY <2>1, <4>1, <4>2
        <5> QED BY <2>0, <5>1
      <4>3. CASE k = n + 1
        <5>1. n + 1 = max /\ f # 0
          BY <3>1, <4>1, <4>3
        <5> SUFFICES ASSUME NEW i \in 0..max  PROVE d[i] = 0 \/ d[i] > f
          OBVIOUS
        <5>2. \A h \in 0..max : h < k /\ dir[h] # 0 => dir[h] > f
          BY <4>1 DEF DirRight
        <5>3. CASE i = n + 1
          BY <1>2, <2>1, <4>3, <5>2, <5>3
        <5>4. CASE i # n + 1
          <6>1. i < k
            BY <4>3, <5>1, <5>4
          <6>2. d[i] = 0 \/ d[i] = dir[i]
            BY <2>1, <5>4
          <6> QED BY <5>2, <6>1, <6>2
        <5> QED BY <5>3, <5>4
      <4>4. CASE k # n /\ k # n + 1
        BY <2>1, <4>1, <4>4
      <4> QED BY <4>2, <4>3, <4>4
    <3>2. CASE \A k \in 0..max : dir[k] = 0 \/ dir[k] > f
      <4> SUFFICES ASSUME NEW i \in 0..max  PROVE d[i] = 0 \/ d[i] > f
        OBVIOUS
      <4> QED BY <2>1, <3>2
    <3> QED BY <3>0, <3>1, <3>2 DEF DirRight
  <2>4. d[0] \in {0, len}
    BY <2>0, <2>1 DEF DirRight
  <2>5. ASSUME NEW fd, n > 0, Newest(fd, dir, max)  PROVE Newest(fd, d, max)
    <3> SUFFICES ASSUME fd # 0, NEW k \in 1..max  PROVE d[k] # fd
      BY DEF Newest
    <3>1. n \in 1..max /\ k \in 0..max
      BY <2>5
    <3>2. d[k] \in {0, dir[k], dir[n]}
      BY <2>1, <3>1
    <3> QED BY <2>5, <3>1, <3>2 DEF Newest
  <2> QED BY <2>1, <2>2, <2>3, <2>4, <2>5 DEF DirRight
<1> QED BY <1>1, <1>2

\* One thread goes on, with the names in order.
LEMMA DirMove ==
    ASSUME WorkInv, DirInv, NEW t \in LgThread, NEW m, lgThread' = [lgThread EXCEPT ![t] = m], lgMax' = lgMax,
           DirRight(lgDir', Len(lgText'), Lost', lgMax), lgFd' \in {0, Len(lgText')},
           RollRight(m, lgFd', lgDir', lgStuck', lgMax), lgLock \in {t, "none"},
           lgLock' = "none" => Newest(lgFd', lgDir', lgMax)
    PROVE  DirInv'
<1>1. ASSUME NEW u \in LgThread  PROVE RollRight(lgThread'[u], lgFd', lgDir', lgStuck', lgMax)
  <2>1. CASE u = t
    <3>1. lgThread'[u] = m
      BY <2>1 DEF WorkInv
    <3> QED BY <3>1
  <2>2. CASE u # t
    <3>1. lgThread'[u] = lgThread[u]
      BY <2>2 DEF WorkInv
    <3>2. lgThread[u].pc \notin LgBusy
      BY <2>2, LogAssumption DEF WorkInv, DoingRight
    <3> QED BY <3>1, <3>2 DEF RollRight, LgBusy
  <2> QED BY <2>1, <2>2
<1> QED BY <1>1 DEF DirInv

\* None does, and the files are left alone.
LEMMA DirRests ==
    ASSUME DirInv, UNCHANGED <<lgThread, lgMax, lgText, lgLock, lgStuck>>, lgFd' \in {0, lgFd},
           \/ lgDir' = lgDir /\ lgRemoved' = lgRemoved
           \/ \E n \in 0..lgMax : lgDir' = [lgDir EXCEPT ![n] = 0] /\ lgRemoved' = lgRemoved \cup {lgDir[n]},
           lgMax \in Nat, Len(lgText) \in Nat, WorkInv
    PROVE  DirInv'
<1>1. DirRight(lgDir', Len(lgText), Lost', lgMax)
  <2>1. DirRight(lgDir, Len(lgText), Lost, lgMax)
    BY DEF DirInv
  <2>2. CASE lgDir' = lgDir /\ lgRemoved' = lgRemoved
    BY <2>1, <2>2 DEF Lost
  <2>3. ASSUME NEW n \in 0..lgMax, lgDir' = [lgDir EXCEPT ![n] = 0], lgRemoved' = lgRemoved \cup {lgDir[n]}
        PROVE  DirRight(lgDir', Len(lgText), Lost', lgMax)
    <3>1. Lost' = Lost \cup {lgDir[n]}
      BY <2>3 DEF Lost
    <3> QED BY <2>1, <2>3, <3>1, DirRemoves
  <2> QED BY <2>2, <2>3
<1>2. \A n \in 0..lgMax : lgDir'[n] \in {0, lgDir[n]}
  BY DEF DirInv, DirRight
<1>3. \A k \in 1..lgMax : k \in 0..lgMax
  BY DEF DirInv
<1>4. Newest(lgFd, lgDir, lgMax) => Newest(lgFd', lgDir', lgMax)
  BY <1>2, <1>3 DEF Newest
<1>5. ASSUME NEW u \in LgThread  PROVE RollRight(lgThread[u], lgFd', lgDir', lgStuck', lgMax)
  <2>1. RollRight(lgThread[u], lgFd, lgDir, lgStuck, lgMax)
    BY DEF DirInv
  <2>2. CASE lgThread[u].pc = "roll" /\ lgThread[u].cur + 1 < lgMax
    <3>1. lgDir[lgThread[u].cur + 1] \in lgStuck \cup {0}
      BY <2>1, <2>2 DEF RollRight
    <3>2. lgDir'[lgThread[u].cur + 1] \in lgStuck' \cup {0}
      <4>1. lgThread[u].cur + 1 \in 0..lgMax
        BY <2>2, LogWhole DEF Doings
      <4> QED BY <1>2, <3>1, <4>1
    <3> QED BY <1>4, <2>1, <3>2 DEF RollRight
  <2>3. CASE ~(lgThread[u].pc = "roll" /\ lgThread[u].cur + 1 < lgMax)
    BY <1>4, <2>1, <2>3 DEF RollRight
  <2> QED BY <2>2, <2>3
<1> QED BY <1>1, <1>4, <1>5 DEF DirInv

\* A file is opened, by its name or anew.
LEMMA DirOpened ==
    ASSUME WorkInv, DirInv, Log!Opened, lgMax' = lgMax, Lost' = Lost
    PROVE  /\ DirRight(lgDir', Len(lgText'), Lost', lgMax) /\ lgFd' = Len(lgText') /\ lgFd' # 0
           /\ Newest(lgFd', lgDir', lgMax)
<1>1. lgMax \in Nat /\ Len(lgText) \in Nat /\ DirRight(lgDir, Len(lgText), Lost, lgMax)
  BY DEF WorkInv, DirInv
<1>2. CASE lgDir[0] # 0 /\ lgDir' = lgDir /\ lgText' = lgText /\ lgFd' = lgDir[0]
  <2>1. lgDir[0] = Len(lgText)
    BY <1>1, <1>2 DEF DirRight
  <2> QED BY <1>1, <1>2, <2>1, DirHas
<1>3. CASE /\ lgDir[0] = 0 /\ lgText' = Append(lgText, <<>>) /\ lgFd' = Len(lgText) + 1
           /\ lgDir' = [lgDir EXCEPT ![0] = Len(lgText) + 1]
  <2>1. Len(lgText') = Len(lgText) + 1
    BY <1>3 DEF WorkInv
  <2>2. /\ DirRight(lgDir', Len(lgText) + 1, Lost, lgMax) /\ Newest(Len(lgText) + 1, lgDir', lgMax)
    <3> DEFINE len == Len(lgText)
    <3>1. /\ lgDir[0] = 0 /\ lgDir' = [lgDir EXCEPT ![0] = len + 1] /\ len \in Nat /\ lgMax \in Nat
          /\ DirRight(lgDir, len, Lost, lgMax)
      BY <1>1, <1>3
    <3> HIDE DEF len
    <3>2. DirRight(lgDir', len + 1, Lost, lgMax) /\ Newest(len + 1, lgDir', lgMax)
      BY <3>1, DirMakes
    <3> QED BY <3>2 DEF len
  <2> QED BY <1>1, <1>3, <2>1, <2>2
<1> QED BY <1>2, <1>3, LogOpened

\* Nobody was rolling files when one is opened.
LEMMA DirOpens ==
    ASSUME WorkInv, DirInv, Log!Opened, UNCHANGED <<lgMax, lgRemoved, lgStuck, lgThread>>, lgFd = 0 \/ lgLock = "none"
    PROVE  DirInv'
<1>1. /\ DirRight(lgDir', Len(lgText'), Lost', lgMax) /\ lgFd' = Len(lgText') /\ lgFd' # 0
      /\ Newest(lgFd', lgDir', lgMax)
  BY DirOpened DEF Lost
<1>2. ASSUME NEW u \in LgThread  PROVE RollRight(lgThread[u], lgFd', lgDir', lgStuck', lgMax)
  <2>1. lgThread[u].pc # "roll"
    BY LogAssumption DEF WorkInv, DoingRight, LgBusy
  <2> QED BY <1>1, <2>1 DEF RollRight
<1> QED BY <1>1, <1>2 DEF DirInv

\* At first there are no files.
LEMMA DirInit == Log!Init => DirInv
<1> SUFFICES ASSUME Log!Init  PROVE DirInv
  OBVIOUS
<1>1. lgMax \in {0, 2} /\ lgFd = 0 /\ lgLock = "none" /\ lgDir = [n \in 0..lgMax |-> IF n = 0 THEN 0 ELSE lgMax + 1 - n]
  BY DEF Log!Init, Log!Nobody, Log!Names
<1>2. Len(lgText) = lgMax
  <2>1. lgText \in [1..lgMax -> {<<>>}] /\ lgMax \in Nat
    BY <1>1 DEF Log!Init
  <2> QED BY <2>1
<1>3. DirRight(lgDir, lgMax, Lost, lgMax)
  BY <1>1 DEF DirRight
<1>4. ASSUME NEW t \in LgThread  PROVE RollRight(lgThread[t], lgFd, lgDir, lgStuck, lgMax)
  <2>1. lgThread[t] = Log!Idle
    BY DEF Log!Init
  <2> QED BY <2>1, LogIdle DEF RollRight
<1> QED BY <1>1, <1>2, <1>3, <1>4 DEF DirInv, Newest

\* What a working thread knows.
LEMMA LogWorks ==
    ASSUME WorkInv, DirInv, NEW t \in LgThread, lgThread[t].pc \in LgBusy
    PROVE  /\ lgLock = t /\ lgLock # "none" /\ lgMax \in Nat /\ Len(lgText) \in Nat /\ lgThread[t] \in Doings
           /\ DirRight(lgDir, Len(lgText), Lost, lgMax) /\ lgFd \in {0, Len(lgText)}
           /\ RollRight(lgThread[t], lgFd, lgDir, lgStuck, lgMax)
  BY LogAssumption DEF WorkInv, DirInv, DoingRight

\* Letting go of a deleted file keeps DirInv.
LEMMA DirCheck == ASSUME WorkInv, DirInv, NEW t \in LgThread, Log!Check(t)  PROVE DirInv'
<1>1. lgFd' \in {0, lgFd} /\ lgThread[t].pc = "check" /\ UNCHANGED <<lgMax, lgDir, lgText, lgLock, lgRemoved, lgStuck>>
  BY DEF Log!Check, Log!At, Log!Runs
<1>2. \/ lgThread' = [lgThread EXCEPT ![t] = [lgThread[t] EXCEPT !.pc = "roll", !.cur = IF lgMax = 0 THEN 0 ELSE lgMax - 1]]
      \/ lgThread' = [lgThread EXCEPT ![t] = [lgThread[t] EXCEPT !.pc = "write"]]
  BY DEF Log!Check
<1>3. /\ lgLock = t /\ lgLock # "none" /\ lgMax \in Nat /\ lgThread[t] \in Doings
      /\ DirRight(lgDir, Len(lgText), Lost, lgMax) /\ lgFd \in {0, Len(lgText)}
      /\ RollRight(lgThread[t], lgFd, lgDir, lgStuck, lgMax)
  BY <1>1, LogWorks DEF LgBusy
<1>4. Newest(lgFd', lgDir', lgMax)
  BY <1>1, <1>3 DEF RollRight, Newest
<1>5. ASSUME NEW m, m.pc = "roll" => ~(m.cur + 1 < lgMax), lgThread' = [lgThread EXCEPT ![t] = m]  PROVE DirInv'
  <2>1. RollRight(m, lgFd', lgDir', lgStuck', lgMax)
    BY <1>4, <1>5 DEF RollRight
  <2> QED BY <1>1, <1>3, <1>5, <2>1, DirMove DEF Lost
<1>6. CASE lgThread' = [lgThread EXCEPT ![t] = [lgThread[t] EXCEPT !.pc = "roll", !.cur = IF lgMax = 0 THEN 0 ELSE lgMax - 1]]
  <2> DEFINE c == IF lgMax = 0 THEN 0 ELSE lgMax - 1
             m == [lgThread[t] EXCEPT !.pc = "roll", !.cur = c]
  <2>1. ~(c + 1 < lgMax)
    BY <1>3
  <2> HIDE DEF c
  <2>2. m.cur = c
    BY <1>3 DEF Doings
  <2>3. lgThread' = [lgThread EXCEPT ![t] = m]
    BY <1>6 DEF c
  <2> HIDE DEF m
  <2> QED BY <1>5, <2>1, <2>2, <2>3
<1>7. CASE lgThread' = [lgThread EXCEPT ![t] = [lgThread[t] EXCEPT !.pc = "write"]]
  <2> DEFINE m == [lgThread[t] EXCEPT !.pc = "write"]
  <2>1. m.pc = "write"
    BY <1>3 DEF Doings
  <2>2. lgThread' = [lgThread EXCEPT ![t] = m]
    BY <1>7
  <2> HIDE DEF m
  <2> QED BY <1>5, <2>1, <2>2
<1> QED BY <1>2, <1>6, <1>7

\* Beginning a message keeps DirInv.
LEMMA DirLog == ASSUME WorkInv, DirInv, NEW t \in LgThread, Log!Log(t)  PROVE DirInv'
<1> DEFINE m == [Log!Idle EXCEPT !.pc = "check", !.msg = lgNext]
<1>1. m.pc = "check"
  BY DEF Log!Idle
<1>2. /\ lgThread' = [lgThread EXCEPT ![t] = m] /\ lgLock = "none" /\ lgLock' = t
      /\ UNCHANGED <<lgMax, lgDir, lgText, lgFd, lgRemoved, lgStuck>>
  BY DEF Log!Log, Log!Nobody
<1> HIDE DEF m
<1>3. RollRight(m, lgFd', lgDir', lgStuck', lgMax)
  BY <1>1, <1>2 DEF RollRight, DirInv
<1>4. lgLock' # "none"
  BY <1>2, LogAssumption
<1>5. DirRight(lgDir', Len(lgText'), Lost', lgMax) /\ lgFd' \in {0, Len(lgText')} /\ lgMax' = lgMax
  BY <1>2 DEF DirInv, Lost
<1> QED BY <1>2, <1>3, <1>4, <1>5, DirMove

\* Renaming one file, or failing to, keeps the order of the names.
LEMMA DirRenamed ==
    ASSUME WorkInv, DirInv, NEW c \in 0..lgMax, c < lgMax, c + 1 < lgMax => lgDir[c + 1] \in lgStuck \cup {0},
           Log!Renamed(c, c + 1), lgRemoved' = lgRemoved
    PROVE  /\ DirRight(lgDir', Len(lgText), Lost', lgMax) /\ lgDir'[c] \in lgStuck' \cup {0}
           /\ \A fd : c > 0 /\ Newest(fd, lgDir, lgMax) => Newest(fd, lgDir', lgMax)
<1>0. lgMax \in Nat /\ Len(lgText) \in Nat /\ DirRight(lgDir, Len(lgText), Lost, lgMax)
  BY DEF WorkInv, DirInv
<1>1. CASE lgDir[c] = 0
  <2>1. lgDir' = lgDir /\ Lost' = Lost
    BY <1>1 DEF Log!Renamed, Lost
  <2> QED BY <1>0, <1>1, <2>1
<1>2. CASE lgDir[c] # 0 /\ lgDir' = [lgDir EXCEPT ![c + 1] = lgDir[c], ![c] = 0] /\ lgStuck' = lgStuck \ {lgDir[c]}
  <2>1. lgDir' = Moved(lgDir, c)
    BY <1>2 DEF Moved
  <2>2. c + 1 < lgMax => lgDir[c + 1] \in Lost \cup {0}
    BY DEF Lost
  <2>3. /\ DirRight(lgDir', Len(lgText), Lost \ {lgDir[c]}, lgMax) /\ lgDir'[c] = 0
        /\ \A fd : c > 0 /\ Newest(fd, lgDir, lgMax) => Newest(fd, lgDir', lgMax)
    BY <1>0, <2>1, <2>2, DirRenames
  <2>4. Lost \ {lgDir[c]} \subseteq Lost'
    BY <1>2 DEF Lost
  <2> QED BY <2>3, <2>4, DirMore
<1>3. CASE lgDir' = lgDir /\ lgStuck' = lgStuck \cup {lgDir[c]}
  <2>1. Lost \subseteq Lost'
    BY <1>3 DEF Lost
  <2> QED BY <1>0, <1>3, <2>1, DirMore
<1> QED BY <1>1, <1>2, <1>3 DEF Log!Renamed

\* Renaming one of the older files keeps DirInv.
LEMMA DirRollOne == ASSUME WorkInv, DirInv, NEW t \in LgThread, Log!RollOne(t)  PROVE DirInv'
<1> DEFINE m == [lgThread[t] EXCEPT !.cur = @ - 1]
           c == lgThread[t].cur
<1>1. /\ lgThread' = [lgThread EXCEPT ![t] = m] /\ lgThread[t].pc = "roll" /\ c > 0
      /\ UNCHANGED <<lgMax, lgFd, lgText, lgLock, lgRemoved>> /\ Log!Renamed(c, c + 1)
  BY DEF Log!RollOne, Log!At
<1>2. /\ lgLock = t /\ lgLock # "none" /\ lgMax \in Nat /\ Len(lgText) \in Nat /\ lgThread[t] \in Doings
      /\ lgFd \in {0, Len(lgText)} /\ RollRight(lgThread[t], lgFd, lgDir, lgStuck, lgMax)
  BY <1>1, LogWorks DEF LgBusy
<1>3. c \in 0..lgMax /\ c < lgMax /\ (c + 1 < lgMax => lgDir[c + 1] \in lgStuck \cup {0})
  BY <1>1, <1>2, LogWhole DEF DoingRight, RollRight
<1>4. m.pc = "roll" /\ m.cur = c - 1
  BY <1>1, <1>2 DEF Doings
<1>5. Newest(lgFd, lgDir, lgMax)
  BY <1>1, <1>2 DEF RollRight
<1> HIDE DEF m, c
<1>6. DirRight(lgDir', Len(lgText), Lost', lgMax) /\ lgDir'[c] \in lgStuck' \cup {0} /\ Newest(lgFd, lgDir', lgMax)
  BY <1>1, <1>3, <1>5, DirRenamed
<1>7. m.cur + 1 = c
  BY <1>3, <1>4
<1>8. RollRight(m, lgFd', lgDir', lgStuck', lgMax)
  BY <1>1, <1>6, <1>7 DEF RollRight
<1> QED BY <1>1, <1>2, <1>6, <1>8, DirMove

\* Renaming or removing the open file, or failing to, keeps DirInv.
LEMMA DirRollLast == ASSUME WorkInv, DirInv, NEW t \in LgThread, Log!RollLast(t)  PROVE DirInv'
<1> DEFINE m == [lgThread[t] EXCEPT !.pc = "close"]
<1>1. /\ lgThread' = [lgThread EXCEPT ![t] = m] /\ lgThread[t].pc = "roll" /\ lgThread[t].cur = 0
      /\ UNCHANGED <<lgMax, lgFd, lgText, lgLock>>
  BY DEF Log!RollLast, Log!At, Log!Goto
<1>2. /\ lgLock = t /\ lgLock # "none" /\ lgMax \in Nat /\ Len(lgText) \in Nat /\ lgThread[t] \in Doings
      /\ DirRight(lgDir, Len(lgText), Lost, lgMax) /\ lgFd \in {0, Len(lgText)}
      /\ RollRight(lgThread[t], lgFd, lgDir, lgStuck, lgMax)
  BY <1>1, LogWorks DEF LgBusy
<1>3. m.pc = "close"
  BY <1>1, <1>2 DEF Doings
<1> HIDE DEF m
<1>4. RollRight(m, lgFd', lgDir', lgStuck', lgMax)
  BY <1>3 DEF RollRight
<1>5. DirRight(lgDir', Len(lgText), Lost', lgMax)
  <2>1. CASE UNCHANGED <<lgDir, lgRemoved, lgStuck>>
    BY <1>2, <2>1 DEF Lost
  <2>2. CASE ~Log!Deleted
    <3> DEFINE name == CHOOSE n \in Log!Names : lgDir[n] = lgFd
    <3>1. name \in 0..lgMax /\ lgDir[name] = lgFd
      BY <2>2 DEF Log!Deleted, Log!Names
    <3>2. IF lgMax = 0
          THEN /\ \/ lgDir' = [lgDir EXCEPT ![name] = 0] /\ lgRemoved' = lgRemoved \cup {lgFd}
                  \/ UNCHANGED <<lgDir, lgRemoved>>
               /\ UNCHANGED lgStuck
          ELSE Log!Renamed(name, 1) /\ UNCHANGED lgRemoved
      BY <2>2 DEF Log!RollLast
    <3> HIDE DEF name
    <3>3. lgFd # 0
      BY <1>1, LogWhole DEF DoingRight
    <3>4. name = 0
      <4>1. name \notin 1..lgMax
        BY <1>1, <1>2, <3>1, <3>3 DEF RollRight, Newest
      <4> QED BY <1>2, <3>1, <4>1
    <3>5. CASE lgMax = 0 /\ lgDir' = [lgDir EXCEPT ![name] = 0] /\ lgRemoved' = lgRemoved \cup {lgFd} /\ UNCHANGED lgStuck
      <4>1. Lost' = Lost \cup {lgDir[name]}
        BY <3>1, <3>5 DEF Lost
      <4> QED BY <1>2, <3>1, <3>5, <4>1, DirRemoves
    <3>6. CASE lgMax # 0
      <4>1. Log!Renamed(0, 0 + 1) /\ lgRemoved' = lgRemoved
        BY <3>2, <3>4, <3>6
      <4>2. 0 \in 0..lgMax /\ 0 < lgMax /\ (0 + 1 < lgMax => lgDir[0 + 1] \in lgStuck \cup {0})
        BY <1>1, <1>2, <3>6 DEF RollRight
      <4> QED BY <4>1, <4>2, DirRenamed
    <3> QED BY <2>1, <3>2, <3>5, <3>6
  <2> QED BY <2>1, <2>2 DEF Log!RollLast
<1> QED BY <1>1, <1>2, <1>4, <1>5, DirMove

\* Closing the file keeps DirInv.
LEMMA DirClose == ASSUME WorkInv, DirInv, NEW t \in LgThread, Log!Close(t)  PROVE DirInv'
<1> DEFINE m == [lgThread[t] EXCEPT !.pc = "write"]
<1>1. /\ lgThread' = [lgThread EXCEPT ![t] = m] /\ lgThread[t].pc = "close" /\ lgFd' = 0
      /\ UNCHANGED <<lgMax, lgDir, lgText, lgLock, lgRemoved, lgStuck>>
  BY DEF Log!Close, Log!At, Log!Goto
<1>2. /\ lgLock = t /\ lgLock # "none" /\ lgThread[t] \in Doings /\ DirRight(lgDir, Len(lgText), Lost, lgMax)
  BY <1>1, LogWorks DEF LgBusy
<1>3. m.pc = "write"
  BY <1>1, <1>2 DEF Doings
<1> HIDE DEF m
<1>4. RollRight(m, lgFd', lgDir', lgStuck', lgMax)
  BY <1>1, <1>3 DEF RollRight, Newest
<1> QED BY <1>1, <1>2, <1>4, DirMove DEF Lost

\* Writing keeps DirInv.
LEMMA DirWrite ==
    ASSUME WorkInv, DirInv, NEW t \in LgThread, NEW n \in 0..Pieces, Log!Write(t, n)
    PROVE  DirInv'
<1>1. lgThread[t].pc = "write" /\ UNCHANGED <<lgMax, lgRemoved, lgStuck>>
  BY DEF Log!Write, Log!At
<1>2. /\ lgLock = t /\ lgMax \in Nat /\ lgThread[t] \in Doings
      /\ DirRight(lgDir, Len(lgText), Lost, lgMax) /\ lgFd \in {0, Len(lgText)}
      /\ Newest(lgFd, lgDir, lgMax)
  BY <1>1, LogWorks DEF LgBusy, RollRight
<1>3. /\ DirRight(lgDir', Len(lgText'), Lost', lgMax) /\ lgFd' \in {0, Len(lgText')}
      /\ Newest(lgFd', lgDir', lgMax)
  <2>1. CASE Log!Opened
    BY <1>1, <2>1, DirOpened DEF Lost
  <2>2. CASE /\ lgFd' = lgFd /\ lgDir' = lgDir
             /\ lgText' = [lgText EXCEPT ![lgFd] = @ \o [i \in 1..n |-> <<lgThread[t].msg, lgThread[t].cur + i>>]]
    <3>1. Len(lgText') = Len(lgText)
      BY <2>2 DEF WorkInv
    <3> QED BY <1>1, <1>2, <2>2, <3>1 DEF Lost
  <2> QED BY <2>1, <2>2, LogWritten
<1>4. PICK m : lgThread' = [lgThread EXCEPT ![t] = m] /\ m.pc # "roll"
  <2>1. CASE lgThread[t].cur + n = Pieces
    <3>1. lgThread' = [lgThread EXCEPT ![t] = Log!Idle]
      BY <2>1 DEF Log!Write, Log!Return
    <3> QED BY <3>1, LogIdle
  <2>2. CASE lgThread[t].cur + n # Pieces
    <3>1. lgThread' = [lgThread EXCEPT ![t] = [lgThread[t] EXCEPT !.cur = @ + n]]
      BY <2>2 DEF Log!Write
    <3>2. [lgThread[t] EXCEPT !.cur = @ + n].pc = "write"
      BY <1>1, <1>2 DEF Doings
    <3> QED BY <3>1, <3>2
  <2> QED BY <2>1, <2>2
<1>5. RollRight(m, lgFd', lgDir', lgStuck', lgMax)
  BY <1>3, <1>4 DEF RollRight
<1> QED BY <1>1, <1>2, <1>3, <1>4, <1>5, DirMove

\* A write that fails keeps DirInv.
LEMMA DirFails == ASSUME WorkInv, DirInv, NEW t \in LgThread, Log!WriteFails(t)  PROVE DirInv'
<1>1. lgThread[t].pc = "write" /\ UNCHANGED <<lgMax, lgRemoved, lgStuck, lgText, lgDir>> /\ lgFd' \in {0, lgFd}
  BY LogFailed
<1>2. /\ lgLock = t /\ lgThread[t] \in Doings
      /\ DirRight(lgDir, Len(lgText), Lost, lgMax) /\ lgFd \in {0, Len(lgText)}
      /\ Newest(lgFd, lgDir, lgMax)
  BY <1>1, LogWorks DEF LgBusy, RollRight
<1>3. Newest(lgFd', lgDir', lgMax)
  BY <1>1, <1>2 DEF Newest
<1>4. PICK m : lgThread' = [lgThread EXCEPT ![t] = m] /\ m.pc # "roll"
  <2>1. CASE lgThread' = [lgThread EXCEPT ![t] = Log!Idle]
    BY <2>1, LogIdle
  <2>2. CASE lgThread' = [lgThread EXCEPT ![t] = [lgThread[t] EXCEPT !.again = TRUE, !.cur = 0]]
    <3>1. [lgThread[t] EXCEPT !.again = TRUE, !.cur = 0].pc # "roll"
      BY <1>1, <1>2, LogAgain
    <3> QED BY <2>2, <3>1
  <2> QED BY <2>1, <2>2, LogFailed
<1>5. RollRight(m, lgFd', lgDir', lgStuck', lgMax)
  BY <1>3, <1>4 DEF RollRight
<1> QED BY <1>1, <1>2, <1>3, <1>4, <1>5, DirMove DEF Lost

\* A crash keeps DirInv.
LEMMA DirEnter == ASSUME WorkInv, DirInv, NEW t \in LgThread, Log!Enter(t)  PROVE DirInv'
<1>1. UNCHANGED <<lgMax, lgDir, lgText, lgFd, lgLock, lgRemoved, lgStuck>>
  BY DEF Log!Enter
<1>2. ASSUME NEW u \in LgThread  PROVE lgThread'[u] = lgThread[u] \/ lgThread'[u].pc = "pause"
  <2>1. lgThread[u] \in Doings /\ lgThread \in [LgThread -> Doings]
    BY DEF WorkInv
  <2>2. CASE lgThread' = lgThread
    BY <2>2
  <2>3. CASE lgThread' = [lgThread EXCEPT ![t].pc = "pause"]
    BY <2>1, <2>3 DEF Doings
  <2> QED BY <2>2, <2>3 DEF Log!Enter, Log!Goto
<1>3. ASSUME NEW u \in LgThread  PROVE RollRight(lgThread'[u], lgFd, lgDir, lgStuck, lgMax)
  BY <1>2 DEF RollRight, DirInv
<1> QED BY <1>1, <1>3 DEF DirInv, Lost

\* The end of the process leaves the files.
LEMMA DirDie == ASSUME WorkInv, DirInv, Log!Die  PROVE DirInv'
<1>1. lgFd' = 0 /\ lgThread' = [t \in LgThread |-> Log!Idle] /\ UNCHANGED <<lgMax, lgDir, lgText, lgRemoved, lgStuck>>
  BY DEF Log!Die
<1>2. ASSUME NEW u \in LgThread  PROVE RollRight(lgThread'[u], lgFd', lgDir', lgStuck', lgMax)
  <2>1. lgThread'[u] = Log!Idle
    BY <1>1
  <2> QED BY <2>1, LogIdle DEF RollRight
<1> QED BY <1>1, <1>2 DEF DirInv, Newest, Lost

\* Every step keeps DirInv.
LEMMA DirStep == WorkInv /\ DirInv /\ [Log!Next]_Log!lgVars => DirInv'
<1> SUFFICES ASSUME WorkInv, DirInv, [Log!Next]_Log!lgVars  PROVE DirInv'
  OBVIOUS
<1>0. lgMax \in Nat /\ Len(lgText) \in Nat
  BY DEF WorkInv
<1>1. CASE UNCHANGED Log!lgVars
  BY <1>0, <1>1, DirRests DEF Log!lgVars
<1>2. ASSUME NEW t \in LgThread, Log!RegisterCrashHandler(t)  PROVE DirInv'
  BY <1>0, <1>2, DirRests DEF Log!RegisterCrashHandler
<1>3. ASSUME NEW n \in Log!Names, Log!Remove(n)  PROVE DirInv'
  BY <1>0, <1>3, DirRests DEF Log!Remove, Log!Names
<1>4. ASSUME NEW t \in LgThread, Log!InitLog(t)  PROVE DirInv'
  <2>1. lgLock = "none" /\ UNCHANGED <<lgThread, lgLock, lgMax, lgRemoved, lgStuck>>
    BY <1>4 DEF Log!InitLog, Log!Nobody
  <2>2. CASE Log!Opened
    BY <2>1, <2>2, DirOpens
  <2>3. CASE lgFd' = 0 /\ UNCHANGED Log!lgDisk
    BY <1>0, <2>1, <2>3, DirRests DEF Log!lgDisk
  <2> QED BY <1>4, <2>2, <2>3 DEF Log!InitLog
<1>5. ASSUME Log!Report  PROVE DirInv'
  <2>1. UNCHANGED <<lgThread, lgLock, lgMax, lgRemoved, lgStuck>>
    BY <1>5 DEF Log!Report
  <2>2. CASE lgFd = 0 /\ Log!Opened
    BY <2>1, <2>2, DirOpens
  <2>3. CASE UNCHANGED <<lgDir, lgText, lgFd>>
    BY <1>0, <2>1, <2>3, DirRests
  <2> QED BY <1>5, <2>2, <2>3 DEF Log!Report
<1> QED BY <1>1, <1>2, <1>3, <1>4, <1>5, DirDie, DirLog, DirCheck, DirRollOne, DirRollLast,
           DirClose, DirWrite, DirFails, DirEnter DEF Log!Next

----------------------------------------------------------------------------

Texts == Seq(Seq(Nat \X Nat))

\* Nothing is in the files that was not logged, and it is there in the order in which
\* it was logged.
Before(text, next) == \A f \in 1..Len(text) : \A i \in 1..Len(text[f]) : text[f][i][1] < next

Ordered(text) ==
    \A f, g \in 1..Len(text) : f <= g =>
        \A i \in 1..Len(text[f]), j \in 1..Len(text[g]) :
            (f < g \/ i < j) => text[f][i][1] <= text[g][j][1]

\* A message is whole and in one piece in a file.
WholeIn(text, m) ==
    \E f \in 1..Len(text) : \E i \in 0..Len(text[f]) - Pieces : \A k \in 1..Pieces : text[f][i + k] = <<m, k>>

\* A file ends with the first pieces of a message.
EndsWith(s, msg, n) == n <= Len(s) /\ \A k \in 1..n : s[Len(s) - n + k] = <<msg, k>>

TailRight(m, text, fd) == m.pc = "write" /\ fd # 0 => EndsWith(text[fd], m.msg, m.cur)

TextInv ==
    /\ Before(lgText, lgNext) /\ Ordered(lgText) /\ \A m \in lgOk : WholeIn(lgText, m)
    /\ \A t \in LgThread : TailRight(lgThread[t], lgText, lgFd)

\* The types of what is in a file.
LEMMA TextTypes ==
    ASSUME NEW text \in Texts, NEW f \in 1..Len(text)
    PROVE  /\ text[f] \in Seq(Nat \X Nat) /\ Len(text[f]) \in Nat
           /\ \A i \in 1..Len(text[f]) : text[f][i] \in Nat \X Nat /\ text[f][i][1] \in Nat
<1>1. text[f] \in Seq(Nat \X Nat)
  BY DEF Texts
<1>2. \A i \in 1..Len(text[f]) : text[f][i] \in Nat \X Nat
  BY <1>1
<1> QED BY <1>1, <1>2

\* An empty file more changes no order and no message.
LEMMA TextMakes ==
    ASSUME NEW text \in Texts, NEW next, Before(text, next), Ordered(text)
    PROVE  /\ Append(text, <<>>) \in Texts /\ Len(Append(text, <<>>)) = Len(text) + 1
           /\ Before(Append(text, <<>>), next) /\ Ordered(Append(text, <<>>))
           /\ \A m : WholeIn(text, m) => WholeIn(Append(text, <<>>), m)
<1> DEFINE u == Append(text, <<>>)
<1>0. <<>> \in Seq(Nat \X Nat)
  OBVIOUS
<1>1. /\ u \in Texts /\ Len(u) = Len(text) + 1 /\ Len(text) \in Nat /\ u[Len(text) + 1] = <<>>
      /\ \A f \in 1..Len(text) : u[f] = text[f]
  BY <1>0 DEF Texts
<1> HIDE DEF u
<1>2. \A f \in 1..Len(u) : f \in 1..Len(text) \/ Len(u[f]) = 0
  BY <1>1
<1>3. Before(u, next)
  <2> SUFFICES ASSUME NEW f \in 1..Len(u), NEW i \in 1..Len(u[f])  PROVE u[f][i][1] < next
    BY DEF Before
  <2>1. f \in 1..Len(text)
    BY <1>2
  <2> QED BY <1>1, <2>1 DEF Before
<1>4. Ordered(u)
  <2> SUFFICES ASSUME NEW f \in 1..Len(u), NEW g \in 1..Len(u), f <= g,
                      NEW i \in 1..Len(u[f]), NEW j \in 1..Len(u[g]), f < g \/ i < j
               PROVE  u[f][i][1] <= u[g][j][1]
    BY DEF Ordered
  <2>1. f \in 1..Len(text) /\ g \in 1..Len(text)
    BY <1>2
  <2> QED BY <1>1, <2>1 DEF Ordered
<1>5. ASSUME NEW m, WholeIn(text, m)  PROVE WholeIn(u, m)
  <2>1. PICK f \in 1..Len(text) : \E i \in 0..Len(text[f]) - Pieces : \A k \in 1..Pieces : text[f][i + k] = <<m, k>>
    BY <1>5 DEF WholeIn
  <2>2. f \in 1..Len(u) /\ u[f] = text[f]
    BY <1>1
  <2> QED BY <2>1, <2>2 DEF WholeIn
<1> QED BY <1>1, <1>3, <1>4, <1>5 DEF u

\* The last file of a text is longer in another one by pieces of a message.
Longer(text, u, len, old, new, msg, cur, n) ==
    /\ u \in Texts /\ len \in 1..Len(text) /\ len = Len(text) /\ Len(u) = len
    /\ old \in Seq(Nat \X Nat) /\ new \in Seq(Nat \X Nat) /\ old = text[len] /\ new = u[len]
    /\ \A f \in 1..len : f # len => u[f] = text[f]
    /\ Len(new) = Len(old) + n
    /\ \A i \in 1..Len(old) : new[i] = old[i]
    /\ \A i \in 1..n : new[Len(old) + i] = <<msg, cur + i>>

\* It grew by pieces of the message counted last.
LEMMA TextAdds ==
    ASSUME NEW text \in Texts, NEW next \in Nat, Before(text, next), Ordered(text),
           NEW msg \in Nat, msg = next - 1, NEW cur \in Nat, NEW n \in Nat,
           NEW u, NEW len, NEW old, NEW new, Longer(text, u, len, old, new, msg, cur, n)
    PROVE  /\ Before(u, next) /\ Ordered(u) /\ \A m : WholeIn(text, m) => WholeIn(u, m)
           /\ EndsWith(old, msg, cur) => EndsWith(new, msg, cur + n)
<1>1. len \in 1..Len(text) /\ Len(text) \in Nat /\ Len(old) \in Nat /\ Len(new) \in Nat
  BY DEF Longer, Texts
<1>4. /\ Len(new) = Len(old) + n
      /\ \A i \in 1..Len(old) : new[i] = old[i]
      /\ \A i \in 1..n : new[Len(old) + i] = <<msg, cur + i>>
  BY DEF Longer
<1>5. len = Len(text) /\ Len(u) = len /\ u[len] = new /\ text[len] = old /\ \A f \in 1..len : f # len => u[f] = text[f]
  BY DEF Longer
<1> DEFINE Old(f, i) == f \in 1..len /\ i \in 1..Len(text[f]) /\ u[f][i] = text[f][i]
           New(f, i) == f = len /\ i \in Len(old) + 1 .. Len(old) + n /\ u[f][i] = <<msg, cur + (i - Len(old))>>
<1>6. ASSUME NEW f \in 1..len, NEW i \in 1..Len(u[f])  PROVE Old(f, i) \/ New(f, i)
  <2>1. CASE f # len
    BY <1>5, <2>1
  <2>2. CASE f = len /\ i \in 1..Len(old)
    BY <1>4, <1>5, <2>2
  <2>3. CASE f = len /\ i \notin 1..Len(old)
    <3>1. i \in Len(old) + 1 .. Len(old) + n
      BY <1>1, <1>4, <1>5, <2>3
    <3>2. i - Len(old) \in 1..n /\ Len(old) + (i - Len(old)) = i
      BY <1>1, <3>1
    <3>3. new[i] = <<msg, cur + (i - Len(old))>>
      BY <1>4, <3>2
    <3> QED BY <1>5, <2>3, <3>1, <3>3
  <2> QED BY <2>1, <2>2, <2>3
<1>7. ASSUME NEW f, NEW i, Old(f, i)
      PROVE  /\ f \in 1..len /\ i \in 1..Len(text[f]) /\ u[f][i][1] = text[f][i][1]
             /\ text[f][i][1] \in Nat /\ text[f][i][1] <= msg
  <2>1. f \in 1..Len(text) /\ i \in 1..Len(text[f]) /\ u[f][i] = text[f][i]
    BY <1>5, <1>7
  <2>2. text[f][i][1] \in Nat
    BY <2>1, TextTypes
  <2>3. text[f][i][1] < next
    BY <2>1 DEF Before
  <2>4. text[f][i][1] <= msg
    BY <2>2, <2>3
  <2> QED BY <1>5, <2>1, <2>2, <2>4
<1>8. ASSUME NEW f, NEW i, New(f, i)  PROVE u[f][i][1] = msg /\ f = len /\ i \in Int /\ i > Len(old)
  <2>1. u[f][i] = <<msg, cur + (i - Len(old))>>
    BY <1>8
  <2>2. u[f][i][1] = msg
    BY <2>1
  <2> QED BY <1>1, <1>8, <2>2
<1> HIDE DEF Old, New
<1>12. Before(u, next)
  <2> SUFFICES ASSUME NEW f \in 1..Len(u), NEW i \in 1..Len(u[f])  PROVE u[f][i][1] < next
    BY DEF Before
  <2>1. Old(f, i) \/ New(f, i)
    BY <1>5, <1>6
  <2>2. msg < next
    OBVIOUS
  <2>3. CASE Old(f, i)
    <3>1. u[f][i][1] \in Nat /\ u[f][i][1] <= msg
      BY <1>7, <2>3
    <3> QED BY <2>2, <3>1
  <2>4. CASE New(f, i)
    <3>1. u[f][i][1] = msg
      BY <1>8, <2>4
    <3> QED BY <2>2, <3>1
  <2> QED BY <2>1, <2>3, <2>4
<1>9. Ordered(u)
  <2> SUFFICES ASSUME NEW f \in 1..Len(u), NEW g \in 1..Len(u), f <= g,
                      NEW i \in 1..Len(u[f]), NEW j \in 1..Len(u[g]), f < g \/ i < j
               PROVE  u[f][i][1] <= u[g][j][1]
    BY DEF Ordered
  <2>1. (Old(f, i) \/ New(f, i)) /\ (Old(g, j) \/ New(g, j))
    BY <1>5, <1>6
  <2>2. CASE New(g, j)
    <3>1. u[g][j][1] = msg
      BY <1>8, <2>2
    <3>2. CASE Old(f, i)
      <4>1. u[f][i][1] = text[f][i][1] /\ text[f][i][1] <= msg
        BY <1>7, <3>2
      <4> QED BY <3>1, <4>1
    <3>3. CASE New(f, i)
      <4>1. u[f][i][1] = msg
        BY <1>8, <3>3
      <4> QED BY <3>1, <4>1
    <3> QED BY <2>1, <3>2, <3>3
  <2>3. CASE Old(f, i) /\ Old(g, j)
    <3>1. f \in 1..len /\ i \in 1..Len(text[f]) /\ u[f][i][1] = text[f][i][1]
      BY <1>7, <2>3
    <3>2. g \in 1..len /\ j \in 1..Len(text[g]) /\ u[g][j][1] = text[g][j][1]
      BY <1>7, <2>3
    <3>3. text[f][i][1] <= text[g][j][1]
      BY <1>5, <3>1, <3>2 DEF Ordered
    <3> QED BY <3>1, <3>2, <3>3
  <2>4. CASE New(f, i) /\ Old(g, j)
    <3>1. f = len /\ i \in Int /\ i > Len(old)
      BY <1>8, <2>4
    <3>2. g \in 1..len /\ j \in 1..Len(text[g])
      BY <1>7, <2>4
    <3>3. g = len /\ Len(text[g]) = Len(old)
      BY <1>5, <1>1, <3>1, <3>2
    <3> QED BY <1>1, <3>1, <3>2, <3>3
  <2> QED BY <2>1, <2>2, <2>3, <2>4
<1>10. ASSUME NEW m, WholeIn(text, m)  PROVE WholeIn(u, m)
  <2>0. PICK f \in 1..Len(text) : \E i \in 0..Len(text[f]) - Pieces : \A k \in 1..Pieces : text[f][i + k] = <<m, k>>
    BY <1>10 DEF WholeIn
  <2>1. PICK i \in 0..Len(text[f]) - Pieces : \A k \in 1..Pieces : text[f][i + k] = <<m, k>>
    BY <2>0
  <2>2. Len(text[f]) \in Nat /\ Pieces \in Nat
    BY TextTypes, LogAssumption
  <2>3. Len(text[f]) <= Len(u[f]) /\ Len(u[f]) \in Nat /\ \A h \in 1..Len(text[f]) : u[f][h] = text[f][h]
    <3>1. CASE f = len
      <4>1. text[f] = old /\ u[f] = new
        BY <1>5, <3>1
      <4> QED BY <1>1, <1>4, <4>1
    <3>2. CASE f # len
      <4>1. u[f] = text[f]
        BY <1>5, <3>2
      <4> QED BY <2>2, <4>1
    <3> QED BY <3>1, <3>2
  <2>4. i \in 0..Len(u[f]) - Pieces
    BY <2>2, <2>3
  <2>5. ASSUME NEW k \in 1..Pieces  PROVE u[f][i + k] = <<m, k>>
    <3>1. i + k \in 1..Len(text[f])
      BY <2>2
    <3> QED BY <2>1, <2>3, <3>1
  <2>6. f \in 1..Len(u)
    BY <1>1, <1>5
  <2>7. \E h \in 0..Len(u[f]) - Pieces : \A k \in 1..Pieces : u[f][h + k] = <<m, k>>
    BY <2>4, <2>5
  <2> QED BY <2>6, <2>7 DEF WholeIn
<1>11. ASSUME EndsWith(old, msg, cur)  PROVE EndsWith(new, msg, cur + n)
  <2>1. cur <= Len(old) /\ \A k \in 1..cur : old[Len(old) - cur + k] = <<msg, k>>
    BY <1>11 DEF EndsWith
  <2>2. ASSUME NEW k \in 1..cur + n  PROVE new[Len(new) - (cur + n) + k] = <<msg, k>>
    <3>1. Len(new) - (cur + n) + k = Len(old) - cur + k
      BY <1>1, <1>4
    <3>2. CASE k <= cur
      <4>1. Len(old) - cur + k \in 1..Len(old) /\ k \in 1..cur
        BY <1>1, <2>1, <3>2
      <4> QED BY <1>4, <2>1, <3>1, <4>1
    <3>3. CASE k > cur
      <4>1. k - cur \in 1..n /\ Len(old) + (k - cur) = Len(old) - cur + k /\ cur + (k - cur) = k
        BY <1>1, <3>3
      <4> QED BY <1>4, <3>1, <4>1
    <3> QED BY <3>2, <3>3
  <2>3. cur + n <= Len(new)
    BY <1>1, <1>4, <2>1
  <2> QED BY <2>2, <2>3 DEF EndsWith
<1> QED BY <1>9, <1>10, <1>11, <1>12

Added(text, msg, cur, n) == [text EXCEPT ![Len(text)] = text[Len(text)] \o [i \in 1..n |-> <<msg, cur + i>>]]

\* The next pieces of the message counted last go to the end of the last file.
Adds(text, next, msg, cur, n, u) ==
    /\ text \in Texts /\ next \in Nat /\ Before(text, next) /\ Ordered(text) /\ Len(text) # 0
    /\ msg \in Nat /\ msg = next - 1 /\ cur \in Nat /\ n \in Nat /\ u = Added(text, msg, cur, n)

\* The next pieces of the message counted last keep the order, and every message that
\* was whole.
LEMMA TextWrites ==
    ASSUME NEW text, NEW next, NEW msg, NEW cur, NEW n, NEW u, Adds(text, next, msg, cur, n, u)
    PROVE  /\ u \in Texts /\ Len(u) = Len(text)
           /\ Before(u, next) /\ Ordered(u) /\ \A m : WholeIn(text, m) => WholeIn(u, m)
           /\ EndsWith(text[Len(text)], msg, cur) => EndsWith(u[Len(text)], msg, cur + n)
<1>0. /\ text \in Texts /\ next \in Nat /\ Before(text, next) /\ Ordered(text) /\ Len(text) # 0
      /\ msg \in Nat /\ msg = next - 1 /\ cur \in Nat /\ n \in Nat /\ u = Added(text, msg, cur, n)
  BY DEF Adds
<1> DEFINE T == Nat \X Nat
           S == Seq(T)
           len == Len(text)
           old == text[len]
           more == [i \in 1..n |-> <<msg, cur + i>>]
           new == old \o more
<1>1. len \in 1..Len(text) /\ old \in S /\ Len(old) \in Nat /\ text \in Seq(S)
  BY <1>0 DEF Texts
<1>2. more \in Seq(T) /\ Len(more) = n /\ \A i \in 1..n : more[i] = <<msg, cur + i>>
  <2>1. more \in [1..n -> T]
    BY <1>0
  <2> QED BY <1>0, <2>1, SeqOf
<1>3. u = [text EXCEPT ![len] = new]
  BY <1>0 DEF Added
<1> HIDE DEF T, more
<1>4. /\ new \in Seq(T) /\ Len(new) = Len(old) + n
      /\ \A i \in 1..Len(old) : new[i] = old[i]
      /\ \A i \in 1..n : new[Len(old) + i] = <<msg, cur + i>>
  <2>1. old \in Seq(T) /\ more \in Seq(T)
    BY <1>1, <1>2
  <2>2. /\ old \o more \in Seq(T) /\ Len(old \o more) = Len(old) + Len(more)
        /\ \A j \in 1..Len(old) : (old \o more)[j] = old[j]
        /\ \A j \in 1..Len(more) : (old \o more)[Len(old) + j] = more[j]
    BY <2>1, JoinAt
  <2> QED BY <1>2, <2>2
<1> HIDE DEF new
<1>5. /\ u \in Seq(S) /\ Len(u) = len /\ u[len] = new
      /\ \A f \in 1..len : f # len => u[f] = text[f]
  <2>1. text \in Seq(S) /\ new \in S
    BY <1>1, <1>4
  <2> HIDE DEF S
  <2>2. [text EXCEPT ![len] = new] \in Seq(S) /\ Len([text EXCEPT ![len] = new]) = Len(text)
        /\ \A f \in 1..Len(text) : [text EXCEPT ![len] = new][f] = IF f = len THEN new ELSE text[f]
    BY <2>1, SeqSet
  <2> QED BY <1>1, <1>3, <2>2
<1> HIDE DEF len, old
<1>6. len = Len(text) /\ old = text[len] /\ new = u[len] /\ Len(u) = len
  BY <1>1, <1>5 DEF len, old
<1>7. u \in Texts /\ old \in Seq(Nat \X Nat) /\ new \in Seq(Nat \X Nat)
  BY <1>1, <1>4, <1>5 DEF T, Texts
<1>8. /\ Before(u, next) /\ Ordered(u) /\ \A m : WholeIn(text, m) => WholeIn(u, m)
      /\ EndsWith(old, msg, cur) => EndsWith(new, msg, cur + n)
  <2>1. Longer(text, u, len, old, new, msg, cur, n)
    BY <1>1, <1>4, <1>5, <1>6, <1>7 DEF Longer
  <2> QED BY <1>0, <2>1, TextAdds
<1> QED BY <1>6, <1>7, <1>8

\* A file that ends with all pieces of a message has it whole.
LEMMA TailIsWhole ==
    ASSUME NEW text \in Texts, NEW f \in 1..Len(text), NEW m, EndsWith(text[f], m, Pieces)
    PROVE  WholeIn(text, m)
<1>1. Len(text[f]) \in Nat /\ Pieces \in Nat
  BY TextTypes, LogAssumption
<1>2. Len(text[f]) - Pieces \in 0..Len(text[f]) - Pieces
  BY <1>1 DEF EndsWith
<1> QED BY <1>2 DEF WholeIn, EndsWith

\* One thread goes on, with the texts in order.
LEMMA TextMove ==
    ASSUME WorkInv, TextInv, NEW t \in LgThread, NEW m, lgThread' = [lgThread EXCEPT ![t] = m],
           lgLock \in {t, "none"}, Before(lgText', lgNext'), Ordered(lgText'), \A k \in lgOk' : WholeIn(lgText', k),
           TailRight(m, lgText', lgFd')
    PROVE  TextInv'
<1>1. ASSUME NEW u \in LgThread  PROVE TailRight(lgThread'[u], lgText', lgFd')
  <2>1. CASE u = t
    <3>1. lgThread'[u] = m
      BY <2>1 DEF WorkInv
    <3> QED BY <3>1
  <2>2. CASE u # t
    <3>1. lgThread'[u] = lgThread[u]
      BY <2>2 DEF WorkInv
    <3>2. lgThread[u].pc # "write"
      BY <2>2, LogAssumption DEF WorkInv, DoingRight, LgBusy
    <3> QED BY <3>1, <3>2 DEF TailRight
  <2> QED BY <2>1, <2>2
<1> QED BY <1>1 DEF TextInv

\* One thread goes on without writing, or begins to.
LEMMA TextWaits ==
    ASSUME WorkInv, DirInv, TextInv, NEW t \in LgThread, NEW m, lgThread' = [lgThread EXCEPT ![t] = m],
           lgLock \in {t, "none"}, UNCHANGED <<lgText, lgOk>>, lgNext' \in {lgNext, lgNext + 1},
           m.pc = "write" => m.cur = 0, lgFd' \in {0, lgFd}
    PROVE  TextInv'
<1>1. Before(lgText', lgNext')
  <2> SUFFICES ASSUME NEW f \in 1..Len(lgText), NEW i \in 1..Len(lgText[f])  PROVE lgText[f][i][1] < lgNext'
    BY DEF Before
  <2>1. lgText[f][i][1] < lgNext
    BY DEF TextInv, Before
  <2>2. lgText[f][i][1] \in Nat /\ lgNext \in Nat
    BY TextTypes DEF WorkInv, Texts
  <2> QED BY <2>1, <2>2
<1>2. TailRight(m, lgText', lgFd')
  <2> SUFFICES ASSUME m.pc = "write", lgFd' # 0  PROVE EndsWith(lgText[lgFd'], m.msg, m.cur)
    BY DEF TailRight
  <2>1. lgFd' \in 1..Len(lgText) /\ lgText \in Texts
    BY DEF DirInv, WorkInv, Texts
  <2>2. Len(lgText[lgFd']) \in Nat
    BY <2>1, TextTypes
  <2>3. m.cur = 0
    OBVIOUS
  <2> QED BY <2>2, <2>3 DEF EndsWith
<1> QED BY <1>1, <1>2, TextMove DEF TextInv

\* No thread goes on, and nothing is written.
LEMMA TextRests ==
    ASSUME TextInv, UNCHANGED <<lgThread, lgText, lgOk, lgNext>>, lgFd' \in {0, lgFd}
    PROVE  TextInv'
  BY DEF TextInv, TailRight

\* A file is opened, by its name or anew.
LEMMA TextOpened ==
    ASSUME WorkInv, TextInv, Log!Opened, lgMax' = lgMax
    PROVE  /\ Before(lgText', lgNext) /\ Ordered(lgText') /\ \A m \in lgOk : WholeIn(lgText', m)
           /\ lgText' \in Texts
<1>1. lgText \in Texts /\ Before(lgText, lgNext) /\ Ordered(lgText) /\ \A m \in lgOk : WholeIn(lgText, m)
  BY DEF WorkInv, TextInv, Texts
<1>2. CASE lgText' = lgText
  BY <1>1, <1>2
<1>3. CASE lgText' = Append(lgText, <<>>)
  BY <1>1, <1>3, TextMakes
<1> QED BY <1>2, <1>3, LogOpened

\* Opening a file writes nothing.
LEMMA TextOpens ==
    ASSUME WorkInv, DirInv, TextInv, Log!Opened, UNCHANGED <<lgMax, lgRemoved, lgStuck, lgThread, lgOk, lgNext>>,
           lgFd = 0 \/ lgLock = "none"
    PROVE  TextInv'
<1>1. /\ Before(lgText', lgNext) /\ Ordered(lgText') /\ \A m \in lgOk : WholeIn(lgText', m)
      /\ lgText' \in Texts
  BY TextOpened
<1>2. lgFd' = Len(lgText') /\ lgFd' # 0
  BY DirOpened DEF Lost
<1>3. Len(lgText'[lgFd']) \in Nat
  <2>1. lgFd' \in 1..Len(lgText')
    BY <1>1, <1>2 DEF Texts
  <2> QED BY <1>1, <2>1, TextTypes
<1>4. ASSUME NEW u \in LgThread  PROVE TailRight(lgThread[u], lgText', lgFd')
  <2>1. lgThread[u].pc = "write" => lgThread[u].cur = 0
    BY LogAssumption DEF WorkInv, DoingRight, LgBusy
  <2> QED BY <1>3, <2>1 DEF TailRight, EndsWith
<1> QED BY <1>1, <1>4 DEF TextInv

\* At first nothing is written.
LEMMA TextInit == Log!Init => TextInv
<1> SUFFICES ASSUME Log!Init  PROVE TextInv
  OBVIOUS
<1>1. lgOk = {} /\ lgFd = 0 /\ \A f \in 1..Len(lgText) : Len(lgText[f]) = 0
  <2>1. lgText \in [1..lgMax -> {<<>>}] /\ lgMax \in Nat
    BY DEF Log!Init
  <2> QED BY <2>1 DEF Log!Init
<1>2. Before(lgText, lgNext)
  BY <1>1 DEF Before
<1>3. Ordered(lgText)
  BY <1>1 DEF Ordered
<1> QED BY <1>1, <1>2, <1>3 DEF TextInv, TailRight

\* Letting go of a deleted file writes nothing.
LEMMA TextCheck ==
    ASSUME WorkInv, DirInv, TextInv, NEW t \in LgThread, Log!Check(t)
    PROVE  TextInv'
<1>1. lgFd' \in {0, lgFd} /\ lgThread[t].pc = "check" /\ UNCHANGED <<lgText, lgOk, lgNext>>
  BY DEF Log!Check, Log!At, Log!Runs
<1>2. lgLock = t /\ lgThread[t] \in Doings /\ lgThread[t].cur = 0
  BY <1>1, LogWhole DEF DoingRight, LgBusy
<1>3. CASE lgThread' = [lgThread EXCEPT ![t] = [lgThread[t] EXCEPT !.pc = "roll", !.cur = IF lgMax = 0 THEN 0 ELSE lgMax - 1]]
  <2> DEFINE c == IF lgMax = 0 THEN 0 ELSE lgMax - 1
             m == [lgThread[t] EXCEPT !.pc = "roll", !.cur = c]
  <2> HIDE DEF c
  <2>1. m.pc = "roll"
    BY <1>2 DEF Doings
  <2>2. lgThread' = [lgThread EXCEPT ![t] = m]
    BY <1>3 DEF c
  <2> HIDE DEF m
  <2> QED BY <1>1, <1>2, <2>1, <2>2, TextWaits
<1>4. CASE lgThread' = [lgThread EXCEPT ![t] = [lgThread[t] EXCEPT !.pc = "write"]]
  <2> DEFINE m == [lgThread[t] EXCEPT !.pc = "write"]
  <2>1. m.cur = 0
    BY <1>2 DEF Doings
  <2>2. lgThread' = [lgThread EXCEPT ![t] = m]
    BY <1>4
  <2> HIDE DEF m
  <2> QED BY <1>1, <1>2, <2>1, <2>2, TextWaits
<1> QED BY <1>3, <1>4 DEF Log!Check

\* A message that begins is newer than all there are.
LEMMA TextLog == ASSUME WorkInv, DirInv, TextInv, NEW t \in LgThread, Log!Log(t)  PROVE TextInv'
<1> DEFINE m == [Log!Idle EXCEPT !.pc = "check", !.msg = lgNext]
<1>1. m.pc = "check"
  BY DEF Log!Idle
<1>2. /\ lgThread' = [lgThread EXCEPT ![t] = m] /\ lgLock = "none" /\ lgNext' = lgNext + 1
      /\ UNCHANGED <<lgText, lgFd, lgOk>>
  BY DEF Log!Log, Log!Nobody
<1> HIDE DEF m
<1> QED BY <1>1, <1>2, TextWaits

\* Rolling files writes nothing.
LEMMA TextRoll ==
    ASSUME WorkInv, DirInv, TextInv, NEW t \in LgThread, Log!RollOne(t) \/ Log!RollLast(t) \/ Log!Close(t)
    PROVE  TextInv'
<1>1. /\ lgThread[t].pc \in {"roll", "close"} /\ UNCHANGED <<lgText, lgOk, lgNext>> /\ lgFd' \in {0, lgFd}
  BY DEF Log!RollOne, Log!RollLast, Log!Close, Log!At
<1>2. lgLock = t /\ lgThread[t] \in Doings /\ DoingRight(t, lgThread[t], lgLock, lgFd, lgNext, lgMax)
  BY <1>1, LogWhole DEF DoingRight, LgBusy
<1>3. PICK m : lgThread' = [lgThread EXCEPT ![t] = m] /\ (m.pc = "write" => m.cur = 0)
  <2>1. CASE Log!RollOne(t)
    <3>1. lgThread' = [lgThread EXCEPT ![t] = [lgThread[t] EXCEPT !.cur = @ - 1]] /\ lgThread[t].pc = "roll"
      BY <2>1 DEF Log!RollOne, Log!At
    <3>2. [lgThread[t] EXCEPT !.cur = @ - 1].pc = "roll"
      BY <1>2, <3>1 DEF Doings
    <3> QED BY <3>1, <3>2
  <2>2. CASE Log!RollLast(t)
    <3>1. lgThread' = [lgThread EXCEPT ![t] = [lgThread[t] EXCEPT !.pc = "close"]]
      BY <2>2 DEF Log!RollLast, Log!Goto
    <3>2. [lgThread[t] EXCEPT !.pc = "close"].pc = "close"
      BY <1>2 DEF Doings
    <3> QED BY <3>1, <3>2
  <2>3. CASE Log!Close(t)
    <3>1. lgThread' = [lgThread EXCEPT ![t] = [lgThread[t] EXCEPT !.pc = "write"]] /\ lgThread[t].pc = "close"
      BY <2>3 DEF Log!Close, Log!Goto, Log!At
    <3>2. [lgThread[t] EXCEPT !.pc = "write"].cur = 0
      BY <1>2, <3>1 DEF Doings, DoingRight
    <3> QED BY <3>1, <3>2
  <2> QED BY <2>1, <2>2, <2>3
<1> QED BY <1>1, <1>2, <1>3, TextWaits

\* What is written goes on where the message stopped, and a message is logged when it is
\* whole.
LEMMA TextWrite ==
    ASSUME WorkInv, DirInv, TextInv, NEW t \in LgThread, NEW n \in 0..Pieces, Log!Write(t, n)
    PROVE  TextInv'
<1> DEFINE msg == lgThread[t].msg  cur == lgThread[t].cur
<1>1. /\ lgThread[t].pc = "write" /\ cur + n <= Pieces /\ lgFd' # 0
      /\ \/ lgFd = 0 /\ n = 0 /\ cur = 0 /\ Log!Opened
         \/ lgFd # 0 /\ n > 0 /\ lgFd' = lgFd /\ lgText' = [lgText EXCEPT ![lgFd] = @ \o [i \in 1..n |-> <<msg, cur + i>>]]
  BY LogWritten
<1>2. /\ lgLock = t /\ lgThread[t] \in Doings /\ msg = lgNext - 1 /\ msg \in Nat /\ cur \in Nat /\ n \in Nat
      /\ lgNext' = lgNext /\ lgMax' = lgMax /\ lgRemoved' = lgRemoved /\ lgStuck' = lgStuck
  <2>1. lgLock = t /\ msg = lgNext - 1 /\ lgThread[t] \in Doings
    BY <1>1, LogWhole DEF DoingRight, LgBusy
  <2>2. lgNext' = lgNext /\ lgMax' = lgMax /\ lgRemoved' = lgRemoved /\ lgStuck' = lgStuck
    BY DEF Log!Write
  <2>3. msg \in Nat /\ cur \in Nat /\ n \in Nat
    BY <2>1, LogAssumption DEF Doings
  <2> QED BY <2>1, <2>2, <2>3
<1>3. lgText \in Texts /\ Before(lgText, lgNext) /\ Ordered(lgText) /\ (\A m \in lgOk : WholeIn(lgText, m)) /\ lgNext \in Nat
  BY DEF WorkInv, TextInv, Texts
<1>4. /\ Before(lgText', lgNext) /\ Ordered(lgText') /\ (\A m \in lgOk : WholeIn(lgText', m))
      /\ lgText' \in Texts /\ lgFd' \in 1..Len(lgText') /\ EndsWith(lgText'[lgFd'], msg, cur + n)
  <2>1. CASE lgFd = 0 /\ n = 0 /\ cur = 0 /\ Log!Opened
    <3>1. /\ Before(lgText', lgNext) /\ Ordered(lgText') /\ (\A m \in lgOk : WholeIn(lgText', m)) /\ lgText' \in Texts
      BY <1>2, <2>1, TextOpened
    <3>2. lgFd' = Len(lgText')
      BY <1>2, <2>1, DirOpened DEF Lost
    <3>3. lgFd' \in 1..Len(lgText')
      BY <1>1, <3>1, <3>2 DEF Texts
    <3>4. Len(lgText'[lgFd']) \in Nat
      BY <3>1, <3>3, TextTypes
    <3>5. cur + n = 0
      BY <2>1
    <3> QED BY <3>1, <3>3, <3>4, <3>5 DEF EndsWith
  <2>2. CASE lgFd # 0 /\ n > 0 /\ lgFd' = lgFd /\ lgText' = [lgText EXCEPT ![lgFd] = @ \o [i \in 1..n |-> <<msg, cur + i>>]]
    <3>1. lgFd = Len(lgText)
      BY <2>2 DEF DirInv
    <3>2. Adds(lgText, lgNext, msg, cur, n, lgText')
      <4>1. lgText' = Added(lgText, msg, cur, n)
        BY <2>2, <3>1 DEF Added
      <4> QED BY <1>2, <1>3, <2>2, <3>1, <4>1 DEF Adds
    <3>3. EndsWith(lgText[lgFd], msg, cur)
      BY <1>1, <2>2 DEF TextInv, TailRight
    <3> HIDE DEF msg, cur
    <3>4. /\ lgText' \in Texts /\ Len(lgText') = Len(lgText)
          /\ Before(lgText', lgNext) /\ Ordered(lgText') /\ \A m : WholeIn(lgText, m) => WholeIn(lgText', m)
          /\ EndsWith(lgText[Len(lgText)], msg, cur) => EndsWith(lgText'[Len(lgText)], msg, cur + n)
      BY <3>2, TextWrites
    <3>5. lgFd' \in 1..Len(lgText')
      BY <1>3, <2>2, <3>1, <3>4 DEF Texts
    <3> QED BY <1>3, <2>2, <3>1, <3>3, <3>4, <3>5
  <2> QED BY <1>1, <2>1, <2>2
<1>5. CASE cur + n = Pieces
  <2>1. lgThread' = [lgThread EXCEPT ![t] = Log!Idle] /\ lgOk' = lgOk \cup {msg}
    BY <1>5 DEF Log!Write, Log!Return
  <2>2. WholeIn(lgText', msg)
    BY <1>4, <1>5, TailIsWhole
  <2>3. TailRight(Log!Idle, lgText', lgFd')
    BY LogIdle DEF TailRight
  <2>4. \A k \in lgOk' : WholeIn(lgText', k)
    BY <1>4, <2>1, <2>2
  <2> QED BY <1>2, <1>4, <2>1, <2>3, <2>4, TextMove
<1>6. CASE cur + n # Pieces
  <2> DEFINE m == [lgThread[t] EXCEPT !.cur = cur + n]
  <2>1. lgThread' = [lgThread EXCEPT ![t] = m] /\ lgOk' = lgOk
    BY <1>6 DEF Log!Write
  <2>2. m.msg = msg /\ m.cur = cur + n
    BY <1>2 DEF Doings
  <2> HIDE DEF m
  <2>3. TailRight(m, lgText', lgFd')
    BY <1>4, <2>2 DEF TailRight
  <2> QED BY <1>2, <1>4, <2>1, <2>3, TextMove
<1> QED BY <1>5, <1>6

\* A write that fails writes nothing, and the message begins again in another file.
LEMMA TextFails ==
    ASSUME WorkInv, DirInv, TextInv, NEW t \in LgThread, Log!WriteFails(t)
    PROVE  TextInv'
<1>1. lgThread[t].pc = "write" /\ UNCHANGED <<lgText, lgNext, lgOk>> /\ lgFd' \in {0, lgFd}
  BY LogFailed
<1>2. lgLock = t /\ lgThread[t] \in Doings
  BY <1>1, LogWhole DEF DoingRight, LgBusy
<1>3. PICK m : lgThread' = [lgThread EXCEPT ![t] = m] /\ (m.pc = "write" => m.cur = 0)
  <2>1. CASE lgThread' = [lgThread EXCEPT ![t] = Log!Idle]
    BY <2>1, LogIdle
  <2>2. CASE lgThread' = [lgThread EXCEPT ![t] = [lgThread[t] EXCEPT !.again = TRUE, !.cur = 0]]
    <3>1. [lgThread[t] EXCEPT !.again = TRUE, !.cur = 0].cur = 0
      BY <1>1, <1>2, LogAgain
    <3> QED BY <2>2, <3>1
  <2> QED BY <2>1, <2>2, LogFailed
<1> QED BY <1>1, <1>2, <1>3, TextWaits

\* A crash writes nothing yet.
LEMMA TextEnter == ASSUME WorkInv, TextInv, NEW t \in LgThread, Log!Enter(t)  PROVE TextInv'
<1>1. UNCHANGED <<lgText, lgFd, lgNext, lgOk>>
  BY DEF Log!Enter
<1>2. ASSUME NEW u \in LgThread  PROVE lgThread'[u] = lgThread[u] \/ lgThread'[u].pc = "pause"
  <2>1. lgThread[u] \in Doings /\ lgThread \in [LgThread -> Doings]
    BY DEF WorkInv
  <2>2. CASE lgThread' = lgThread
    BY <2>2
  <2>3. CASE lgThread' = [lgThread EXCEPT ![t].pc = "pause"]
    BY <2>1, <2>3 DEF Doings
  <2> QED BY <2>2, <2>3 DEF Log!Enter, Log!Goto
<1>3. ASSUME NEW u \in LgThread  PROVE TailRight(lgThread'[u], lgText, lgFd)
  BY <1>2 DEF TailRight, TextInv
<1> QED BY <1>1, <1>3 DEF TextInv

\* The end of the process leaves what is written.
LEMMA TextDie == ASSUME TextInv, Log!Die  PROVE TextInv'
  BY DEF TextInv, Log!Die, TailRight

\* Every step keeps TextInv.
LEMMA TextStep == WorkInv /\ DirInv /\ TextInv /\ [Log!Next]_Log!lgVars => TextInv'
<1> SUFFICES ASSUME WorkInv, DirInv, TextInv, [Log!Next]_Log!lgVars  PROVE TextInv'
  OBVIOUS
<1>1. CASE UNCHANGED Log!lgVars
  BY <1>1, TextRests DEF Log!lgVars
<1>2. ASSUME NEW t \in LgThread, Log!RegisterCrashHandler(t)  PROVE TextInv'
  BY <1>2, TextRests DEF Log!RegisterCrashHandler
<1>3. ASSUME NEW n \in Log!Names, Log!Remove(n)  PROVE TextInv'
  BY <1>3, TextRests DEF Log!Remove
<1>4. ASSUME NEW t \in LgThread, Log!InitLog(t)  PROVE TextInv'
  <2>1. lgLock = "none" /\ UNCHANGED <<lgThread, lgMax, lgRemoved, lgStuck, lgOk, lgNext>>
    BY <1>4 DEF Log!InitLog, Log!Nobody
  <2>2. CASE Log!Opened
    BY <2>1, <2>2, TextOpens
  <2>3. CASE lgFd' = 0 /\ UNCHANGED Log!lgDisk
    BY <2>1, <2>3, TextRests DEF Log!lgDisk
  <2> QED BY <1>4, <2>2, <2>3 DEF Log!InitLog
<1>5. ASSUME Log!Report  PROVE TextInv'
  <2>1. UNCHANGED <<lgThread, lgMax, lgRemoved, lgStuck, lgOk, lgNext>>
    BY <1>5 DEF Log!Report
  <2>2. CASE lgFd = 0 /\ Log!Opened
    BY <2>1, <2>2, TextOpens
  <2>3. CASE UNCHANGED <<lgDir, lgText, lgFd>>
    BY <2>1, <2>3, TextRests
  <2> QED BY <1>5, <2>2, <2>3 DEF Log!Report
<1> QED BY <1>1, <1>2, <1>3, <1>4, <1>5, TextDie, TextLog, TextCheck, TextRoll,
           TextWrite, TextFails, TextEnter DEF Log!Next

----------------------------------------------------------------------------

\* Who paused left somebody else in the handler.
PauseInv == Log!NobodyWaitsForEver

\* A thread goes on outside of the handler.
LEMMA PauseMove ==
    ASSUME WorkInv, PauseInv, NEW t \in LgThread, NEW m, lgThread' = [lgThread EXCEPT ![t] = m],
           m.pc # "pause", lgCrash' = lgCrash
    PROVE  PauseInv'
<1>1. ASSUME NEW u \in LgThread, lgThread'[u].pc = "pause"  PROVE lgCrash.entered \notin {"none", u}
  <2>1. u # t /\ lgThread[u].pc = "pause"
    BY <1>1 DEF WorkInv
  <2> QED BY <2>1 DEF PauseInv, Log!NobodyWaitsForEver, Log!Nobody
<1> QED BY <1>1 DEF PauseInv, Log!NobodyWaitsForEver, Log!Nobody

\* No thread moves.
LEMMA PauseRests ==
    ASSUME PauseInv, lgThread' = lgThread, lgCrash'.entered = lgCrash.entered  PROVE PauseInv'
  BY DEF PauseInv, Log!NobodyWaitsForEver

\* A working thread goes on.
LEMMA PauseGoto ==
    ASSUME WorkInv, PauseInv, NEW t \in LgThread, NEW pc, pc # "pause", Log!Goto(t, pc), lgCrash' = lgCrash
    PROVE  PauseInv'
<1>1. [lgThread[t] EXCEPT !.pc = pc].pc = pc
  BY LogWhole DEF Doings
<1> QED BY <1>1, PauseMove DEF Log!Goto

Crashes == [handled : BOOLEAN, entered : LgThread \cup {"none"}, again : Nat, at : Nat]

\* Who pauses found another thread in the handler.
LEMMA PauseEnter == ASSUME WorkInv, PauseInv, NEW t \in LgThread, Log!Enter(t)  PROVE PauseInv'
<1>1. lgThread[t].pc # "pause"
  BY DEF Log!Enter
<1>2. CASE lgCrash.entered \in {"none", t}
  <2>1. lgThread' = lgThread /\ lgCrash'.entered = t
    BY <1>2 DEF Log!Enter, Log!Nobody
  <2>2. ASSUME NEW u \in LgThread, lgThread[u].pc = "pause"  PROVE t \notin {"none", u}
    BY <1>1, <2>2, LogAssumption
  <2> QED BY <2>1, <2>2 DEF PauseInv, Log!NobodyWaitsForEver, Log!Nobody
<1>3. CASE lgCrash.entered \notin {"none", t}
  <2>1. lgThread' = [lgThread EXCEPT ![t].pc = "pause"] /\ lgCrash' = lgCrash
    BY <1>3 DEF Log!Enter, Log!Nobody, Log!Goto
  <2>2. ASSUME NEW u \in LgThread, lgThread'[u].pc = "pause"  PROVE lgCrash.entered \notin {"none", u}
    <3>1. CASE u = t
      BY <1>3, <3>1
    <3>2. CASE u # t
      <4>1. lgThread[u].pc = "pause"
        BY <2>1, <2>2, <3>2 DEF WorkInv
      <4> QED BY <4>1 DEF PauseInv, Log!NobodyWaitsForEver, Log!Nobody
    <3> QED BY <3>1, <3>2
  <2> QED BY <2>1, <2>2 DEF PauseInv, Log!NobodyWaitsForEver, Log!Nobody
<1> QED BY <1>2, <1>3

\* Nothing has crashed.
LEMMA LogCrash == Log!Calm \in Crashes
  BY DEF Log!Calm, Crashes, Log!Nobody

\* Every step keeps somebody in the handler for who pauses there.
LEMMA PauseStep ==
    WorkInv /\ PauseInv /\ lgCrash \in Crashes /\ [Log!Next]_Log!lgVars => PauseInv' /\ lgCrash' \in Crashes
<1> SUFFICES ASSUME WorkInv, PauseInv, lgCrash \in Crashes, [Log!Next]_Log!lgVars
             PROVE  PauseInv' /\ lgCrash' \in Crashes
  OBVIOUS
<1>1. ASSUME lgThread' = lgThread, lgCrash' = lgCrash  PROVE PauseInv' /\ lgCrash' \in Crashes
  BY <1>1, PauseRests
<1>2. CASE UNCHANGED Log!lgVars
  BY <1>1, <1>2 DEF Log!lgVars
<1>3. ASSUME NEW t \in LgThread, Log!RegisterCrashHandler(t)  PROVE PauseInv' /\ lgCrash' \in Crashes
  <2>1. lgCrash' = [lgCrash EXCEPT !.handled = TRUE] /\ lgThread' = lgThread
    BY <1>3 DEF Log!RegisterCrashHandler
  <2>2. lgCrash' \in Crashes /\ lgCrash'.entered = lgCrash.entered
    BY <2>1 DEF Crashes
  <2> QED BY <2>1, <2>2, PauseRests
<1>4. ASSUME NEW n \in Log!Names, Log!Remove(n)  PROVE PauseInv' /\ lgCrash' \in Crashes
  BY <1>1, <1>4 DEF Log!Remove
<1>5. ASSUME NEW t \in LgThread, Log!InitLog(t)  PROVE PauseInv' /\ lgCrash' \in Crashes
  BY <1>1, <1>5 DEF Log!InitLog
<1>6. ASSUME Log!Report  PROVE PauseInv' /\ lgCrash' \in Crashes
  <2>1. lgCrash' = [lgCrash EXCEPT !.at = lgCrash.at + 1] /\ lgThread' = lgThread
    BY <1>6 DEF Log!Report
  <2>2. lgCrash.at + 1 \in Nat
    BY DEF Crashes
  <2>3. lgCrash' \in Crashes /\ lgCrash'.entered = lgCrash.entered
    BY <2>1, <2>2 DEF Crashes
  <2> QED BY <2>1, <2>3, PauseRests
<1>7. ASSUME Log!Die  PROVE PauseInv' /\ lgCrash' \in Crashes
  <2>1. lgThread' = [t \in LgThread |-> Log!Idle] /\ lgCrash' = Log!Calm
    BY <1>7 DEF Log!Die
  <2>2. \A u \in LgThread : lgThread'[u].pc # "pause"
    BY <2>1, LogIdle
  <2> QED BY <2>1, <2>2, LogCrash DEF PauseInv, Log!NobodyWaitsForEver
<1>8. ASSUME NEW t \in LgThread, NEW m, lgThread' = [lgThread EXCEPT ![t] = m], m.pc # "pause", lgCrash' = lgCrash
      PROVE  PauseInv' /\ lgCrash' \in Crashes
  BY <1>8, PauseMove
<1>9. ASSUME NEW t \in LgThread, Log!Log(t)  PROVE PauseInv' /\ lgCrash' \in Crashes
  <2> DEFINE m == [Log!Idle EXCEPT !.pc = "check", !.msg = lgNext]
  <2>1. m.pc # "pause"
    BY DEF Log!Idle
  <2>2. lgThread' = [lgThread EXCEPT ![t] = m] /\ lgCrash' = lgCrash
    BY <1>9 DEF Log!Log
  <2> HIDE DEF m
  <2> QED BY <1>8, <2>1, <2>2
<1>10. ASSUME NEW t \in LgThread, Log!Check(t)  PROVE PauseInv' /\ lgCrash' \in Crashes
  <2>1. lgCrash' = lgCrash
    BY <1>10 DEF Log!Check
  <2>2. CASE lgThread' = [lgThread EXCEPT ![t] = [lgThread[t] EXCEPT !.pc = "roll", !.cur = IF lgMax = 0 THEN 0 ELSE lgMax - 1]]
    <3> DEFINE c == IF lgMax = 0 THEN 0 ELSE lgMax - 1
               m == [lgThread[t] EXCEPT !.pc = "roll", !.cur = c]
    <3> HIDE DEF c
    <3>1. m.pc = "roll"
      BY LogWhole DEF Doings
    <3>2. lgThread' = [lgThread EXCEPT ![t] = m]
      BY <2>2 DEF c
    <3> HIDE DEF m
    <3> QED BY <1>8, <2>1, <3>1, <3>2
  <2>3. CASE lgThread' = [lgThread EXCEPT ![t] = [lgThread[t] EXCEPT !.pc = "write"]]
    <3>1. [lgThread[t] EXCEPT !.pc = "write"].pc = "write"
      BY LogWhole DEF Doings
    <3> QED BY <1>8, <2>1, <2>3, <3>1
  <2> QED BY <1>10, <2>2, <2>3 DEF Log!Check
<1>11. ASSUME NEW t \in LgThread, Log!RollOne(t)  PROVE PauseInv' /\ lgCrash' \in Crashes
  <2>1. lgThread' = [lgThread EXCEPT ![t] = [lgThread[t] EXCEPT !.cur = @ - 1]] /\ lgThread[t].pc = "roll" /\ lgCrash' = lgCrash
    BY <1>11 DEF Log!RollOne, Log!At
  <2>2. [lgThread[t] EXCEPT !.cur = @ - 1].pc = "roll"
    BY <2>1, LogWhole DEF Doings
  <2> QED BY <1>8, <2>1, <2>2
<1>12. ASSUME NEW t \in LgThread, Log!RollLast(t) \/ Log!Close(t)  PROVE PauseInv' /\ lgCrash' \in Crashes
  BY <1>12, PauseGoto DEF Log!RollLast, Log!Close
<1>13. ASSUME NEW t \in LgThread, NEW n \in 0..Pieces, Log!Write(t, n)  PROVE PauseInv' /\ lgCrash' \in Crashes
  <2>1. lgCrash' = lgCrash /\ lgThread[t].pc = "write"
    BY <1>13 DEF Log!Write, Log!At
  <2>2. CASE lgThread' = [lgThread EXCEPT ![t] = Log!Idle]
    BY <1>8, <2>1, <2>2, LogIdle
  <2>3. CASE lgThread' = [lgThread EXCEPT ![t] = [lgThread[t] EXCEPT !.cur = @ + n]]
    <3>1. [lgThread[t] EXCEPT !.cur = @ + n].pc = "write"
      BY <2>1, LogWhole DEF Doings
    <3> QED BY <1>8, <2>1, <2>3, <3>1
  <2> QED BY <1>13, <2>2, <2>3 DEF Log!Write, Log!Return
<1>14. ASSUME NEW t \in LgThread, Log!WriteFails(t)  PROVE PauseInv' /\ lgCrash' \in Crashes
  <2>1. lgCrash' = lgCrash /\ lgThread[t].pc = "write" /\ lgThread[t] \in Doings
    BY <1>14, LogWhole DEF Log!WriteFails, Log!At
  <2>2. CASE lgThread' = [lgThread EXCEPT ![t] = Log!Idle]
    BY <1>8, <2>1, <2>2, LogIdle
  <2>3. CASE lgThread' = [lgThread EXCEPT ![t] = [lgThread[t] EXCEPT !.again = TRUE, !.cur = 0]]
    <3>1. [lgThread[t] EXCEPT !.again = TRUE, !.cur = 0].pc = "write"
      BY <2>1, LogAgain
    <3> QED BY <1>8, <2>1, <2>3, <3>1
  <2> QED BY <1>14, <2>2, <2>3, LogFailed
<1>15. ASSUME NEW t \in LgThread, Log!Enter(t)  PROVE PauseInv' /\ lgCrash' \in Crashes
  <2>1. CASE lgCrash' = lgCrash
    BY <1>15, <2>1, PauseEnter
  <2>2. CASE lgCrash' = [handled |-> TRUE, entered |-> t, again |-> lgCrash.again + 1,
                         at |-> IF lgCrash.again + 1 = MaxAgain THEN ReportSize ELSE 0]
    <3>1. lgCrash.again + 1 \in Nat /\ (IF lgCrash.again + 1 = MaxAgain THEN ReportSize ELSE 0) \in Nat
      BY LogAssumption DEF Crashes
    <3>2. lgCrash' \in Crashes
      BY <2>2, <3>1 DEF Crashes
    <3> QED BY <1>15, <3>2, PauseEnter
  <2> QED BY <1>15, <2>1, <2>2 DEF Log!Enter
<1> QED BY <1>2, <1>3, <1>4, <1>5, <1>6, <1>7, <1>9, <1>10, <1>11, <1>12, <1>13, <1>14, <1>15 DEF Log!Next

\* Messages that were logged are whole in a file and all files in order; rolling drops
\* the oldest file, files whose own rename failed apart; and who waits for a crash to be
\* reported does not wait alone.
THEOREM MessagesKept ==
    Log!Spec => [](Log!WholeMessages /\ Log!OldestDropped /\ Log!OrderKept /\ Log!NobodyWaitsForEver)
<1> DEFINE Inv == WorkInv /\ DirInv /\ TextInv /\ PauseInv /\ lgCrash \in Crashes
<1>1. Log!Init => Inv
  <2> SUFFICES ASSUME Log!Init  PROVE Inv
    OBVIOUS
  <2>1. PauseInv
    BY LogIdle DEF PauseInv, Log!NobodyWaitsForEver, Log!Init
  <2>2. lgCrash \in Crashes
    BY LogCrash DEF Log!Init
  <2> QED BY <2>1, <2>2, WorkInit, DirInit, TextInit
<1>2. Inv /\ [Log!Next]_Log!lgVars => Inv'
  BY WorkStep, DirStep, TextStep, PauseStep
<1>3. Inv => Log!WholeMessages /\ Log!OldestDropped /\ Log!OrderKept /\ Log!NobodyWaitsForEver
  <2> SUFFICES ASSUME Inv  PROVE Log!WholeMessages /\ Log!OldestDropped /\ Log!OrderKept /\ Log!NobodyWaitsForEver
    OBVIOUS
  <2>1. lgMax \in Nat /\ lgText \in Texts /\ DOMAIN lgText = 1..Len(lgText)
    BY DEF WorkInv, Texts
  <2>2. \A f \in 1..Len(lgText) : DOMAIN lgText[f] = 1..Len(lgText[f])
    BY <2>1, TextTypes
  <2>3. Log!WholeMessages
    BY <2>1 DEF TextInv, WholeIn, Log!WholeMessages, Log!Piece
  <2>4. Log!OldestDropped
    BY <2>1 DEF DirInv, DirRight, Lost, Log!OldestDropped, Log!Names
  <2>5. Log!OrderKept
    BY <2>1, <2>2 DEF TextInv, Ordered, Log!OrderKept
  <2> QED BY <2>3, <2>4, <2>5 DEF PauseInv
<1> QED BY <1>1, <1>2, <1>3, PTL DEF Log!Spec

----------------------------------------------------------------------------
\* ServicesOK: what was logged is whole, in order, and the oldest dropped first; files,
\* epoll and sockets keep what they have, and daemons are let in and started in bounds
\* (logger_impl.hh, file.hh, epoll.hh, sockets.hh, system.hh).
THEOREM ServicesKept == ServicesSpec => []ServicesOK
BY DaemonsKept, SocketsKept, EdgesKept, DescriptorsKept, MessagesKept, PTL DEF ServicesSpec, ServicesOK
=============================================================================
