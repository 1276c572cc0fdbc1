----------------------------- MODULE FdDataMap -----------------------------
(***************************************************************************)
(* CFdDataMap (fd_data_map.hh): a table of shared pointers by descriptor   *)
(* under a lock, and CSharedPtr (shared_ptr.hh, impl/shared_ptr_impl.hh)   *)
(* with its atomic count.  Threads have pointers of their own; an object   *)
(* may hold a pointer to another one from the day it is made.              *)
(*                                                                         *)
(* A call is a list of steps, fdTodo, on places that hold pointers; the    *)
(* calls on the table take fdLock first, count, and give it back with the  *)
(* last step.  fdMem is the heap: count and liveness of each object, and   *)
(* whether a step has touched one that was deleted.                        *)
(*                                                                         *)
(* A pointer is not assigned from inside the object it alone holds         *)
(* (impl/shared_ptr_impl.hh:30-36 would release the source first), and     *)
(* objects do not hold each other in a circle.                             *)
(***************************************************************************)
EXTENDS Integers, Sequences, FiniteSets, FiniteSetsExt

CONSTANTS
    FdThread,       \* threads (strings)
    Obj,            \* the objects that can be made, once each (positive numbers)
    Fd,             \* descriptors, from 0 on
    FirstCapacity   \* capacity at construction

VARIABLES fdMem, fdPtr, fdTodo, fdLock, fdCap, fdSz

fdVars == <<fdMem, fdPtr, fdTodo, fdLock, fdCap, fdSz>>

Null == 0
NoThread == "none"
Mine(t) == <<t, 1>>
Other(t) == <<t, 2>>
Slot(fd) == <<"slot", fd>>
Inside(o) == <<"inside", o>>
NoPlace == <<"nowhere", 0>>
Temporary == <<"temporary", 0>>
Places == {Mine(t) : t \in FdThread} \cup {Other(t) : t \in FdThread}
          \cup {Slot(fd) : fd \in Fd} \cup {Inside(o) : o \in Obj}

Init ==
    /\ fdMem = [cnt |-> [o \in Obj |-> 0], live |-> {}, made |-> {}, bad |-> FALSE]
    /\ fdPtr = [p \in Places |-> Null]
    /\ fdTodo = [t \in FdThread |-> <<>>]
    /\ fdLock = NoThread
    /\ fdCap = FirstCapacity
    /\ fdSz = 0

----------------------------------------------------------------------------
\* The steps of a call.
SubRef(p) == [do |-> "sub", at |-> p, obj |-> Null]
AddRef(p, o) == [do |-> "add", at |-> p, obj |-> o]
Delete(o) == [do |-> "delete", at |-> Inside(o), obj |-> o]
SwapWith(p, q) == [do |-> "swap", at |-> p, with |-> q]

Seq1(cond, s) == IF cond THEN <<s>> ELSE <<>>

\* changeRef: the reference of the old object goes before the new one is taken.
ChangeRef(p, cur, o) ==
    IF cur = o THEN <<>> ELSE Seq1(cur # Null, SubRef(p)) \o Seq1(o # Null, AddRef(p, o))

Assign(p, o) == ChangeRef(p, fdPtr[p], o)

\* What a step leaves to do: the last reference deletes the object, and with it
\* the pointer inside.
Expand(s) ==
    CASE s.do = "sub" -> Seq1(fdPtr[s.at] # Null /\ fdMem.cnt[fdPtr[s.at]] <= 1, Delete(fdPtr[s.at]))
      [] s.do = "delete" -> Seq1(fdPtr[s.at] # Null, SubRef(s.at))
      [] OTHER -> <<>>

Touch(m, o) == [m EXCEPT !.bad = @ \/ o \notin m.live]

MemAfter(s) ==
    LET old == fdPtr[s.at]
    IN  CASE s.do = "sub" /\ old # Null -> Touch([fdMem EXCEPT !.cnt[old] = @ - 1], old)
          [] s.do = "add" -> Touch([fdMem EXCEPT !.cnt[s.obj] = @ + 1], s.obj)
          [] s.do = "delete" -> [Touch(fdMem, s.obj) EXCEPT !.live = @ \ {s.obj}]
          [] OTHER -> fdMem

PtrAfter(s) ==
    CASE s.do = "sub" -> [fdPtr EXCEPT ![s.at] = Null]
      [] s.do = "add" -> [fdPtr EXCEPT ![s.at] = s.obj]
      [] s.do = "swap" -> [fdPtr EXCEPT ![s.at] = fdPtr[s.with], ![s.with] = fdPtr[s.at]]
      [] OTHER -> fdPtr

Step(t) ==
    /\ fdTodo[t] # <<>>
    /\ LET s == Head(fdTodo[t])
       IN  /\ fdTodo' = [fdTodo EXCEPT ![t] = Expand(s) \o Tail(@)]
           /\ fdMem' = IF s.do \in {"sub", "add", "delete"} THEN MemAfter(s) ELSE fdMem
           /\ fdPtr' = PtrAfter(s)
           /\ fdLock' = IF fdLock = t /\ fdTodo'[t] = <<>> THEN NoThread ELSE fdLock
    /\ UNCHANGED <<fdCap, fdSz>>

----------------------------------------------------------------------------
\* Calls on a thread's own pointers.
Start(t, steps) ==
    /\ fdTodo[t] = <<>> /\ steps # <<>>
    /\ fdTodo' = [fdTodo EXCEPT ![t] = steps]
    /\ UNCHANGED <<fdMem, fdPtr, fdLock, fdCap, fdSz>>

\* A new object, named after the ones before, with a copy of the other pointer inside.
Make(t, o) ==
    /\ fdTodo[t] = <<>> /\ fdPtr[Mine(t)] = Null /\ Obj \ fdMem.made # {} /\ o = Min(Obj \ fdMem.made)
    /\ fdMem' = [fdMem EXCEPT !.cnt[o] = 1, !.live = @ \cup {o}, !.made = @ \cup {o}]
    /\ fdPtr' = [fdPtr EXCEPT ![Mine(t)] = o]
    /\ fdTodo' = [fdTodo EXCEPT ![t] = Assign(Inside(o), fdPtr[Other(t)])]
    /\ UNCHANGED <<fdLock, fdCap, fdSz>>

Reset(t) == fdPtr[Mine(t)] # Null /\ Start(t, <<SubRef(Mine(t))>>)
Copy(t) == Start(t, Assign(Other(t), fdPtr[Mine(t)]))
CopyInside(t) == fdPtr[Mine(t)] # Null /\ Start(t, Assign(Other(t), fdPtr[Inside(fdPtr[Mine(t)])]))
SwapOwn(t) == Start(t, <<SwapWith(Mine(t), Other(t))>>)

----------------------------------------------------------------------------
\* Calls on the table.
One(o) == IF o = Null THEN 0 ELSE 1

\* setAux: old is where the previous pointer goes, NoPlace for nowhere.
Grows(fd, o) == fd >= fdCap /\ o # Null
Counted(fd, o) == IF fd < fdCap THEN One(o) - One(fdPtr[Slot(fd)]) ELSE One(o)

SetAux(fd, o, from, old) ==
    IF fd < fdCap
    THEN Seq1(old # NoPlace, SwapWith(old, Slot(fd)))
         \o (IF from = old THEN <<>>
             ELSE ChangeRef(Slot(fd), IF old = NoPlace THEN fdPtr[Slot(fd)] ELSE fdPtr[old], o))
    ELSE Seq1(o # Null, AddRef(Slot(fd), o))
         \o Seq1(old # NoPlace /\ fdPtr[old] # Null, SubRef(old))

Locked(t, steps, by) ==
    /\ fdTodo[t] = <<>> /\ fdLock = NoThread /\ steps # <<>>
    /\ fdLock' = t
    /\ fdSz' = fdSz + by
    /\ fdTodo' = [fdTodo EXCEPT ![t] = steps]
    /\ UNCHANGED <<fdMem, fdPtr>>

\* setData; a slot beyond the capacity makes the table grow.
SetData(t, fd, old) ==
    LET o == fdPtr[Mine(t)]
    IN  /\ Locked(t, SetAux(fd, o, Mine(t), old), Counted(fd, o))
        /\ fdCap' = IF Grows(fd, o) THEN fd + 1 ELSE fdCap

\* getData, of one descriptor and of two.
GetData(t, fd) == Locked(t, Assign(Other(t), fdPtr[Slot(fd)]), 0) /\ UNCHANGED fdCap

GetRange(t) ==
    /\ Locked(t, Assign(Mine(t), fdPtr[Slot(Min(Fd))]) \o Assign(Other(t), fdPtr[Slot(Max(Fd))]), 0)
    /\ UNCHANGED fdCap

\* clearData, of one descriptor and of two.
ClearData(t, fd, old) ==
    Locked(t, SetAux(fd, Null, Temporary, old), Counted(fd, Null)) /\ UNCHANGED fdCap

ClearRange(t) ==
    /\ Locked(t, SetAux(Min(Fd), Null, Temporary, Mine(t)) \o SetAux(Max(Fd), Null, Temporary, Other(t)),
                 Counted(Min(Fd), Null) + Counted(Max(Fd), Null))
    /\ UNCHANGED fdCap

\* clear
ClearAll(t) ==
    /\ Locked(t, Assign(Slot(Min(Fd)), Null) \o Assign(Slot(Max(Fd)), Null), -fdSz)
    /\ UNCHANGED fdCap

Next ==
    \E t \in FdThread :
        \/ Step(t) \/ Reset(t) \/ Copy(t) \/ CopyInside(t) \/ SwapOwn(t)
        \/ \E o \in Obj : Make(t, o)
        \/ GetRange(t) \/ ClearRange(t) \/ ClearAll(t)
        \/ \E fd \in Fd :
              \/ GetData(t, fd)
              \/ \E old \in {NoPlace, Mine(t), Other(t)} : SetData(t, fd, old) \/ ClearData(t, fd, old)

Spec == Init /\ [][Next]_fdVars

----------------------------------------------------------------------------
Holders(o) == {p \in Places : fdPtr[p] = o}
Quiet == \A t \in FdThread : fdTodo[t] = <<>>

TypeOK ==
    /\ fdPtr \in [Places -> Obj \cup {Null}]
    /\ fdMem.cnt \in [Obj -> Int] /\ fdMem.live \subseteq fdMem.made /\ fdMem.made \subseteq Obj
    /\ fdLock \in FdThread \cup {NoThread} /\ fdCap \in Nat /\ fdSz \in Int

\* No object is used or deleted after it was deleted, no pointer is left to one, and
\* when no call is going on the objects alive are those somebody points to, with as
\* many references as pointers (impl/shared_ptr_impl.hh:26-45).
CountedRight ==
    /\ ~fdMem.bad
    /\ \A p \in Places : (fdPtr[p] # Null /\ p \notin {Inside(o) : o \in Obj}) => fdPtr[p] \in fdMem.live
    /\ Quiet => \A o \in Obj :
          /\ (o \in fdMem.live) = (fdMem.cnt[o] > 0)
          /\ o \in fdMem.live => fdMem.cnt[o] = Cardinality(Holders(o))

\* Whenever nobody is in the table its size is the number of descriptors with data;
\* growth, pointers handed out in exchange and the aliasing of old and new included
\* (fd_data_map.hh:276-293).
SizeIsCount ==
    fdLock = NoThread => fdSz = Cardinality({fd \in Fd : fdPtr[Slot(fd)] # Null})
=============================================================================
