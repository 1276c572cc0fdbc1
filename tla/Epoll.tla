-------------------------------- MODULE Epoll -------------------------------
(***************************************************************************)
(* CEpoll (epoll.hh), edge-triggered always, with the caller the library   *)
(* is made for: it handles the events of a wait one by one, reads a        *)
(* descriptor until there is nothing left, and may close, open and         *)
(* register descriptors in between.  The kernel's part is external.        *)
(***************************************************************************)
EXTENDS Naturals, Sequences, SequencesExt

CONSTANTS
    EpFd,       \* numbers of descriptors
    MaxEvents   \* size of revents_ in a wait (128)

VARIABLES
    epValid,    \* valid()
    epOpen,     \* descriptors that are open
    epSet,      \* descriptors registered, with what is asked for
    epReady,    \* descriptors with an edge not reported yet
    epData,     \* descriptors with something to read
    epEvents,   \* revents_
    epAt        \* the event the caller handles next, 0 if it handles none

epVars == <<epValid, epOpen, epSet, epReady, epData, epEvents, epAt>>

Flags == {"in", "none"}
NoFlags == "off"
Event(fd) == [fd |-> fd]
Stale == [fd |-> 0]

Init ==
    /\ epValid = FALSE /\ epOpen = {}
    /\ epSet = [fd \in EpFd |-> NoFlags]
    /\ epReady = <<>> /\ epData = {}
    /\ epEvents = <<>> /\ epAt = 0

Registered(fd) == epSet[fd] # NoFlags

\* create: once
Create ==
    /\ epValid' = TRUE
    /\ UNCHANGED <<epOpen, epSet, epReady, epData, epEvents, epAt>>

\* epReady has a descriptor only once.
Without(ready, fd) ==
    IF Contains(ready, fd) THEN RemoveAt(ready, CHOOSE i \in DOMAIN ready : ready[i] = fd) ELSE ready

\* ctrl: what can be read when a descriptor is registered is an edge.
Rearmed(ready, fd, flags) ==
    LET rest == Without(ready, fd)
    IN  IF flags = "in" /\ fd \in epData THEN Append(rest, fd) ELSE rest

Ctrl(fd, flags) ==
    /\ epSet' = [epSet EXCEPT ![fd] = flags]
    /\ epReady' = Rearmed(epReady, fd, flags)
    /\ UNCHANGED <<epValid, epOpen, epData, epEvents, epAt>>

\* addFd: changed if it is registered already and mod allows it.
AddFd(fd, flags, mod) ==
    IF epValid /\ fd \in epOpen /\ (~Registered(fd) \/ mod) THEN Ctrl(fd, flags) ELSE UNCHANGED epVars

\* modFd: added if it is not registered and add allows it.
ModFd(fd, flags, add) ==
    IF epValid /\ fd \in epOpen /\ (Registered(fd) \/ add) THEN Ctrl(fd, flags) ELSE UNCHANGED epVars

DelFd(fd) ==
    IF epValid /\ fd \in epOpen /\ Registered(fd) THEN Ctrl(fd, NoFlags) ELSE UNCHANGED epVars

\* wait: as many edges as revents_ takes, each reported once.
Reported == SubSeq(epReady, 1, IF Len(epReady) < MaxEvents THEN Len(epReady) ELSE MaxEvents)

Wait ==
    /\ epValid /\ epAt = 0
    /\ epEvents' = [i \in DOMAIN Reported |-> Event(Reported[i])]
    /\ epReady' = SubSeq(epReady, Len(Reported) + 1, Len(epReady))
    /\ epAt' = IF Reported = <<>> THEN 0 ELSE 1
    /\ UNCHANGED <<epValid, epOpen, epSet, epData>>

\* A wait that fails leaves what was there, and empty events behind it.
WaitFails ==
    /\ epValid /\ epAt = 0
    /\ epEvents' = [i \in 1..MaxEvents |-> IF i \in DOMAIN epEvents THEN epEvents[i] ELSE Stale]
    /\ UNCHANGED <<epValid, epOpen, epSet, epReady, epData, epAt>>

\* The caller reads the descriptor of an event until there is nothing left.
Handle ==
    /\ epAt # 0
    /\ epData' = epData \ {epEvents[epAt].fd}
    /\ epAt' = IF epAt = Len(epEvents) THEN 0 ELSE epAt + 1
    /\ UNCHANGED <<epValid, epOpen, epSet, epReady, epEvents>>

\* Data for an open descriptor, an edge if it is asked for.
Arrive(fd) ==
    /\ fd \in epOpen
    /\ epData' = epData \cup {fd}
    /\ epReady' = IF epSet[fd] = "in" /\ ~Contains(epReady, fd) THEN Append(epReady, fd) ELSE epReady
    /\ UNCHANGED <<epValid, epOpen, epSet, epEvents, epAt>>

\* A number is used again after close, also while an event for it waits to be handled.
OpenFd(fd) ==
    /\ epOpen' = epOpen \cup {fd}
    /\ UNCHANGED <<epValid, epSet, epReady, epData, epEvents, epAt>>

CloseFd(fd) ==
    /\ epOpen' = epOpen \ {fd} /\ epData' = epData \ {fd}
    /\ epSet' = [epSet EXCEPT ![fd] = NoFlags]
    /\ epReady' = Without(epReady, fd)
    /\ UNCHANGED <<epValid, epEvents, epAt>>

Next ==
    \/ Create \/ Wait \/ WaitFails \/ Handle
    \/ \E fd \in EpFd :
        \/ \E f \in Flags, more \in BOOLEAN : AddFd(fd, f, more) \/ ModFd(fd, f, more)
        \/ DelFd(fd) \/ Arrive(fd) \/ OpenFd(fd) \/ CloseFd(fd)

Spec == Init /\ [][Next]_epVars

----------------------------------------------------------------------------
TypeOK ==
    /\ epValid \in BOOLEAN /\ epOpen \subseteq EpFd /\ epData \subseteq EpFd
    /\ epSet \in [EpFd -> Flags \cup {NoFlags}]
    /\ epReady \in Seq(EpFd) /\ IsInjective(epReady)
    /\ Len(epEvents) <= MaxEvents /\ epAt \in 0..Len(epEvents)

\* The events a caller has yet to handle.
Unhandled == IF epAt = 0 THEN {} ELSE {epEvents[i].fd : i \in epAt .. Len(epEvents)}

\* With edge-triggered events only (epoll.hh:219) nothing that can be read is forgotten:
\* it is about to be reported, or was reported and is handled.
NoEdgeLost ==
    \A fd \in epData : epSet[fd] = "in" =>
        Contains(epReady, fd) \/ fd \in Unhandled
=============================================================================
