------------------------------ MODULE RingBuf -------------------------------
(***************************************************************************)
(* CRingBuf (ring_buf.hh): a ring of capa_ = capacity + 1 slots without a  *)
(* lock.  One thread pushes and owns tail_, one thread pops and owns       *)
(* head_; a slot is raw memory except while it holds an element.           *)
(*                                                                         *)
(* ppc and cpc are the program counters of push and pop, one step for each *)
(* access to memory the other thread can see.  head_ and tail_ are         *)
(* volatile, the slots are not: a compiler may move a slot access across   *)
(* the store to the index that hands the slot over.  Spec keeps the order  *)
(* of the source, ReorderedSpec does not.                                  *)
(***************************************************************************)
EXTENDS Integers, SequenceTheorems, TLAPS

CONSTANTS Values,    \* the elements
          Capacity,  \* the argument of the constructor
          NoItem     \* no element: raw memory, no push in progress

\* init asserts capa_ > 1.
ASSUME RingAssumption == Capacity \in Nat \ {0} /\ NoItem \notin Values

VARIABLES buf,     \* the slots
          head,    \* head_, where pop takes
          tail,    \* tail_, where push puts
          ppc,     \* "idle", "check", "construct", "publish", "late"
          item,    \* the argument of the push in progress
          pushed,  \* what the last push returned
          cpc,     \* "idle", "read", "destroy", "publish", "late"
          got,     \* *v of the pop in progress
          popped   \* what the last pop handed out; NoItem if it returned false

ringVars == <<buf, head, tail, ppc, item, pushed, cpc, got, popped>>
producerVars == <<ppc, item, pushed>>
consumerVars == <<cpc, got, popped>>

capa  == Capacity + 1
Slots == 0 .. capa - 1

Init == /\ buf = [i \in Slots |-> NoItem]
        /\ head = 0 /\ tail = 0
        /\ ppc = "idle" /\ item = NoItem /\ pushed = TRUE
        /\ cpc = "idle" /\ got = NoItem /\ popped = NoItem

\* Mutant of next: it wraps one slot late.
nextOffByOne(cur) == IF cur + 1 > capa THEN cur + 1 - capa ELSE cur + 1

next(cur) == IF cur + 1 >= capa THEN cur + 1 - capa ELSE cur + 1

-----------------------------------------------------------------------------
(* push, by the producer.                                                  *)

PushCall == /\ ppc = "idle"
            /\ \E v \in Values : item' = v
            /\ ppc' = "check"
            /\ UNCHANGED <<buf, head, tail, pushed, consumerVars>>

\* Mutants of IsFull: no slot is left to tell full from empty; one slot too
\* many is.
NeverFull    == FALSE
FullOneEarly == next(tail) = head \/ next(next(tail)) = head

IsFull == next(tail) = head

\* n == head_: full, return false.
PushFull == /\ ppc = "check" /\ IsFull
            /\ ppc' = "idle" /\ item' = NoItem /\ pushed' = FALSE
            /\ UNCHANGED <<buf, head, tail, consumerVars>>

PushRoom == /\ ppc = "check" /\ ~IsFull
            /\ ppc' = "construct"
            /\ UNCHANGED <<buf, head, tail, item, pushed, consumerVars>>

PushConstruct == /\ ppc = "construct"
                 /\ buf' = [buf EXCEPT ![tail] = item]
                 /\ ppc' = "publish"
                 /\ UNCHANGED <<head, tail, item, pushed, consumerVars>>

\* tail_ = n, return true.
PushPublish == /\ ppc = "publish"
               /\ tail' = next(tail)
               /\ ppc' = "idle" /\ item' = NoItem /\ pushed' = TRUE
               /\ UNCHANGED <<buf, head, consumerVars>>

-----------------------------------------------------------------------------
(* pop, by the consumer.                                                   *)

PopEmpty == /\ cpc = "idle" /\ head = tail
            /\ popped' = NoItem
            /\ UNCHANGED <<buf, head, tail, producerVars, cpc, got>>

PopSome == /\ cpc = "idle" /\ head # tail
           /\ cpc' = "read"
           /\ UNCHANGED <<buf, head, tail, producerVars, got, popped>>

\* *v = buf_[head_].
PopRead == /\ cpc = "read"
           /\ got' = buf[head]
           /\ cpc' = "destroy"
           /\ UNCHANGED <<buf, head, tail, producerVars, popped>>

\* Mutant of PopDestroy: the element is left where it is.
PopForget == /\ cpc = "destroy"
             /\ cpc' = "publish"
             /\ UNCHANGED <<buf, head, tail, producerVars, got, popped>>

PopDestroy == /\ cpc = "destroy"
              /\ buf' = [buf EXCEPT ![head] = NoItem]
              /\ cpc' = "publish"
              /\ UNCHANGED <<head, tail, producerVars, got, popped>>

\* head_ = n, return true.
PopPublish == /\ cpc = "publish"
              /\ head' = next(head)
              /\ cpc' = "idle" /\ got' = NoItem /\ popped' = got
              /\ UNCHANGED <<buf, tail, producerVars>>

-----------------------------------------------------------------------------
\* How many slots i lies behind h on the ring.
Distance(h, i) == IF i >= h THEN i - h ELSE i + capa - h

\* The slots that pop has not handed back yet.
Window == {i \in Slots : Distance(head, i) < Distance(head, tail)}

\* ~CRingBuf pops what is left, with nobody else around; then a new ring.
Renew == /\ ppc = "idle" /\ cpc = "idle"
         /\ buf' = [i \in Slots |-> IF i \in Window THEN NoItem ELSE buf[i]]
         /\ head' = 0 /\ tail' = 0
         /\ UNCHANGED <<producerVars, consumerVars>>

Next == \/ PushCall \/ PushFull \/ PushRoom \/ PushConstruct \/ PushPublish
        \/ PopEmpty \/ PopSome \/ PopRead \/ PopDestroy \/ PopPublish
        \/ Renew

Spec == Init /\ [][Next]_ringVars

-----------------------------------------------------------------------------
(* The same program compiled with the slot accesses behind the index stores. *)

\* tail_ = n first, the element after it.
PushPublishEarly == /\ ppc = "construct"
                    /\ tail' = next(tail)
                    /\ ppc' = "late"
                    /\ UNCHANGED <<buf, head, item, pushed, consumerVars>>

PushConstructLate == /\ ppc = "late"
                     /\ \E i \in Slots :
                           next(i) = tail /\ buf' = [buf EXCEPT ![i] = item]
                     /\ ppc' = "idle" /\ item' = NoItem /\ pushed' = TRUE
                     /\ UNCHANGED <<head, tail, consumerVars>>

\* head_ = n first, the access to the slot after it.
PopPublishEarly == /\ cpc = "read"
                   /\ head' = next(head)
                   /\ cpc' = "late"
                   /\ UNCHANGED <<buf, tail, producerVars, got, popped>>

PopReadLate == /\ cpc = "late"
               /\ \E i \in Slots :
                     /\ next(i) = head
                     /\ popped' = buf[i]
                     /\ buf' = [buf EXCEPT ![i] = NoItem]
               /\ cpc' = "idle"
               /\ UNCHANGED <<head, tail, producerVars, got>>

ReorderedNext == \/ Next
                 \/ PushPublishEarly \/ PushConstructLate
                 \/ PopPublishEarly \/ PopReadLate

ReorderedSpec == Init /\ [][ReorderedNext]_ringVars
-----------------------------------------------------------------------------
(* Properties.                                                             *)

TypeOK == /\ buf \in [Slots -> Values \cup {NoItem}]
          /\ head \in Slots /\ tail \in Slots
          /\ ppc \in {"idle", "check", "construct", "publish", "late"}
          /\ item \in Values \cup {NoItem} /\ pushed \in BOOLEAN
          /\ cpc \in {"idle", "read", "destroy", "publish", "late"}
          /\ got \in Values \cup {NoItem} /\ popped \in Values \cup {NoItem}

\* The two threads are never at the same slot at the same time, although no
\* lock separates ring_buf.hh:48 from lines 58-59.
DisjointSlots == (/\ ppc \in {"construct", "publish"}
                  /\ cpc \in {"read", "destroy", "publish"}) => head # tail

\* Elements live exactly in the slots between head_ and tail_, give or take
\* the two in flight: push never constructs over an element, pop never reads
\* or destroys raw memory, and the destructor leaves nothing behind.
SlotsOK == \A i \in Slots :
              (buf[i] # NoItem) <=>
                 \/ i \in Window /\ ~(cpc = "publish" /\ i = head)
                 \/ ppc = "publish" /\ i = tail

\* pop hands out an element whenever it does not answer empty; ring_buf.hh:5
\* says that one producer and one consumer need no lock.
PopsElements == [][cpc # "idle" /\ cpc' = "idle" => popped' # NoItem]_ringVars

\* The ring implements the bounded FIFO queue: the front element counts as
\* queued until head_ moves, the new one from the moment tail_ moves.
SlotAt(k) == IF head + k - 1 >= capa THEN head + k - 1 - capa ELSE head + k - 1

Contents == [k \in 1 .. Distance(head, tail) |->
                IF k = 1 /\ cpc = "publish" THEN got ELSE buf[SlotAt(k)]]

Fifo == INSTANCE BoundedFifo
            WITH queue <- Contents, offered <- item, Bound <- Capacity
ImplementsFifo == Fifo!Spec

-----------------------------------------------------------------------------
(* Proofs about Spec, with the accesses to memory in the order the source  *)
(* states, for every capacity and every set of elements; first the         *)
(* inductive invariant.                                                    *)

\* What push and pop have found out stays true until they return: the other
\* thread can only make more room, or bring more elements.
RoomOK == /\ ppc \in {"construct", "publish"} => next(tail) # head
          /\ cpc # "idle" => head # tail

\* The local variables of push and pop.
LocalsOK == /\ ppc # "late" /\ cpc # "late"
            /\ (ppc = "idle") <=> (item = NoItem)
            /\ cpc \in {"destroy", "publish"} => got \in Values
            /\ cpc = "destroy" => got = buf[head]
            /\ ppc = "publish" => buf[tail] = item

RingInv == TypeOK /\ RoomOK /\ LocalsOK /\ SlotsOK

\* The slots of the ring.
LEMMA CapaType == capa \in Nat /\ capa >= 2 /\ Slots = 0 .. capa - 1
BY RingAssumption DEF capa, Slots

\* The successor on the ring is a bijection of the slots.
LEMMA NextType ==
    \A i, j \in Slots : next(i) \in Slots /\ (next(i) = next(j) => i = j)
BY CapaType DEF next

\* Distances are smaller than the number of slots.
LEMMA DistanceType ==
    \A h, t \in Slots : Distance(h, t) \in Nat /\ Distance(h, t) \in 0 .. capa - 1
BY CapaType DEF Distance

\* Distances along the ring.
LEMMA DistanceFacts ==
    ASSUME NEW h \in Slots, NEW t \in Slots
    PROVE  /\ Distance(h, t) = 0 <=> h = t
           /\ next(t) # h => Distance(h, next(t)) = Distance(h, t) + 1
           /\ h # t => Distance(next(h), t) = Distance(h, t) - 1
BY CapaType DEF Distance, next

\* The empty ring satisfies the invariant.
LEMMA InitRing == Init => RingInv
BY RingAssumption, CapaType
   DEF Init, RingInv, TypeOK, RoomOK, LocalsOK, SlotsOK, Window, Distance

\* Every step keeps the types, the free slot and the locals of both sides.
LEMMA StepTypeRoomLocals ==
    RingInv /\ [Next]_ringVars => TypeOK' /\ RoomOK' /\ LocalsOK'
PROOF
<1> SUFFICES ASSUME RingInv, [Next]_ringVars
             PROVE  TypeOK' /\ RoomOK' /\ LocalsOK'
  OBVIOUS
<1> USE RingAssumption, CapaType, NextType
        DEF RingInv, TypeOK, RoomOK, LocalsOK, producerVars, consumerVars
<1>1. CASE PushCall
  BY <1>1 DEF PushCall
<1>2. CASE PushFull
  BY <1>2 DEF PushFull
<1>3. CASE PushRoom
  BY <1>3 DEF PushRoom, IsFull
<1>4. CASE PushConstruct
  BY <1>4 DEF PushConstruct, SlotsOK
<1>5. CASE PushPublish
  BY <1>5 DEF PushPublish
<1>6. CASE PopEmpty
  BY <1>6 DEF PopEmpty
<1>7. CASE PopSome
  BY <1>7 DEF PopSome
<1>8. CASE PopRead
  <2>1. Distance(head, head) = 0 /\ Distance(head, tail) > 0
    BY <1>8 DEF PopRead, Distance
  <2>2. head \in Window
    BY <2>1 DEF Window
  <2>3. buf[head] \in Values
    BY <1>8, <2>2 DEF PopRead, SlotsOK
  <2> QED BY <1>8, <2>3 DEF PopRead
<1>9. CASE PopDestroy
  BY <1>9 DEF PopDestroy
<1>10. CASE PopPublish
  BY <1>10 DEF PopPublish
<1>11. CASE Renew
  BY <1>11 DEF Renew, next
<1>12. CASE UNCHANGED ringVars
  BY <1>12 DEF ringVars
<1> QED BY <1>1, <1>2, <1>3, <1>4, <1>5, <1>6, <1>7, <1>8, <1>9, <1>10,
           <1>11, <1>12 DEF Next

\* Every step keeps the slots in the window filled, and the others empty.
LEMMA StepSlots == RingInv /\ [Next]_ringVars => SlotsOK'
PROOF
<1> SUFFICES ASSUME RingInv, [Next]_ringVars, NEW i \in Slots
             PROVE  (buf'[i] # NoItem) <=>
                       \/ i \in Window' /\ ~(cpc' = "publish" /\ i = head')
                       \/ ppc' = "publish" /\ i = tail'
  BY DEF SlotsOK, Slots, capa
<1>0. TypeOK /\ RoomOK /\ LocalsOK /\ TypeOK' /\ RoomOK'
  BY StepTypeRoomLocals DEF RingInv
<1>s. (buf[i] # NoItem) <=>
         \/ i \in Window /\ ~(cpc = "publish" /\ i = head)
         \/ ppc = "publish" /\ i = tail
  BY DEF RingInv, SlotsOK
<1>w. /\ i \in Window <=> Distance(head, i) < Distance(head, tail)
      /\ i \in Window' <=> Distance(head', i) < Distance(head', tail')
  BY DEF Window, Slots, capa, Distance
<1> USE DEF producerVars, consumerVars
<1>1. CASE PushCall \/ PushFull \/ PushRoom \/ PopEmpty \/ PopSome \/ PopRead
  BY <1>s, <1>w, <1>1
     DEF PushCall, PushFull, PushRoom, PopEmpty, PopSome, PopRead
<1>2. CASE PushConstruct
  <2>1. item # NoItem /\ tail \in Slots
    BY <1>0, <1>2 DEF PushConstruct, LocalsOK, TypeOK
  <2>2. i = tail => ~(Distance(head, i) < Distance(head, tail))
    BY <1>0, DistanceType, CapaType DEF TypeOK
  <2> QED BY <1>0, <1>s, <1>w, <1>2, <2>1, <2>2 DEF PushConstruct, TypeOK
<1>3. CASE PushPublish
  <2>1. Distance(head, next(tail)) = Distance(head, tail) + 1
    BY <1>0, <1>3, DistanceFacts DEF PushPublish, RoomOK, TypeOK
  <2>2. Distance(head, i) = Distance(head, tail) <=> i = tail
    BY <1>0, CapaType DEF Distance, TypeOK
  <2>3. Distance(head, i) \in Nat /\ Distance(head, tail) \in Nat
    BY <1>0, CapaType, DistanceType DEF TypeOK
  <2>4. cpc = "publish" => tail # head
    BY <1>0 DEF RoomOK
  <2> QED BY <1>s, <1>w, <1>3, <2>1, <2>2, <2>3, <2>4 DEF PushPublish
<1>4. CASE PopDestroy
  <2>1. head \in Slots /\ head # tail
    BY <1>0, <1>4 DEF PopDestroy, TypeOK, RoomOK
  <2> QED BY <1>0, <1>s, <1>w, <1>4, <2>1 DEF PopDestroy, TypeOK
<1>5. CASE PopPublish
  <2>1. head \in Slots /\ tail \in Slots /\ head # tail
    BY <1>0, <1>5 DEF PopPublish, TypeOK, RoomOK
  <2>2. Distance(next(head), tail) = Distance(head, tail) - 1
    BY <2>1, DistanceFacts
  <2>3. i # head => Distance(next(head), i) = Distance(head, i) - 1
    BY <2>1, DistanceFacts
  <2>4. Distance(next(head), head) = capa - 1
    BY <2>1, CapaType DEF Distance, next
  <2>5. Distance(head, i) \in Nat /\ Distance(head, tail) \in 0 .. capa - 1
    BY <2>1, CapaType, DistanceType
  <2>6. i \in Window' <=> i \in Window /\ i # head
    BY <1>w, <1>5, <2>2, <2>3, <2>4, <2>5, CapaType DEF PopPublish
  <2> QED BY <1>s, <1>5, <2>6 DEF PopPublish
<1>6. CASE Renew
  <2>1. i \notin Window'
    BY <1>6, <1>w, CapaType DEF Renew, Distance
  <2> QED BY <1>s, <1>6, <2>1 DEF Renew
<1>7. CASE UNCHANGED ringVars
  BY <1>s, <1>w, <1>7 DEF ringVars
<1> QED BY <1>1, <1>2, <1>3, <1>4, <1>5, <1>6, <1>7 DEF Next

\* The invariant holds in every state.
LEMMA RingInvariant == Spec => []RingInv
<1>1. RingInv /\ [Next]_ringVars => RingInv'
  BY StepTypeRoomLocals, StepSlots DEF RingInv
<1> QED BY <1>1, InitRing, PTL DEF Spec

\* The indices stay inside the array, for every capacity.
THEOREM RingTypeCorrect == Spec => []TypeOK
BY RingInvariant, PTL DEF RingInv

\* Without a lock the two threads never work on the same slot.
THEOREM ThreadsStayApart == Spec => []DisjointSlots
<1>1. RingInv => DisjointSlots
  BY DEF RingInv, RoomOK, DisjointSlots
<1> QED BY <1>1, RingInvariant, PTL

\* No element is overwritten, read after its destruction or leaked.
THEOREM ElementsLiveInWindow == Spec => []SlotsOK
BY RingInvariant, PTL DEF RingInv

-----------------------------------------------------------------------------
(* The ring implements the bounded FIFO queue.                             *)

\* The k-th slot of the window holds the k-th element.
ContentsOK == /\ Contents \in Seq(Values)
              /\ Len(Contents) = Distance(head, tail)
              /\ \A k \in 1 .. Distance(head, tail) :
                    /\ SlotAt(k) \in Window
                    /\ Contents[k] = IF k = 1 /\ cpc = "publish" THEN got
                                     ELSE buf[SlotAt(k)]

\* The contents of the window are elements.
LEMMA ContentsType == RingInv => ContentsOK
<1> SUFFICES ASSUME RingInv PROVE ContentsOK
  OBVIOUS
<1>0. TypeOK /\ LocalsOK /\ SlotsOK /\ Distance(head, tail) \in Nat
  BY DistanceType DEF RingInv, TypeOK
<1>1. ASSUME NEW k \in 1 .. Distance(head, tail)
      PROVE  /\ SlotAt(k) \in Window
             /\ (SlotAt(k) = head) <=> (k = 1)
  BY <1>0, CapaType DEF SlotAt, Window, Distance, TypeOK
<1>2. ASSUME NEW k \in 1 .. Distance(head, tail)
      PROVE  (IF k = 1 /\ cpc = "publish" THEN got ELSE buf[SlotAt(k)])
                \in Values
  <2>1. SlotAt(k) \in Slots /\ SlotAt(k) \in Window
    BY <1>1 DEF Window
  <2>2. CASE k = 1 /\ cpc = "publish"
    BY <1>0, <2>2 DEF LocalsOK
  <2>3. CASE ~(k = 1 /\ cpc = "publish")
    BY <1>0, <1>1, <2>1, <2>3 DEF SlotsOK, TypeOK
  <2> QED BY <2>2, <2>3
<1> QED BY <1>0, <1>1, <1>2 DEF Contents, ContentsOK

\* So they are after a step.
LEMMA ContentsTypeNext == RingInv' => ContentsOK'
BY ContentsType, PTL

\* Equal windows with equal slots have equal contents.
LEMMA ContentsStay ==
    ASSUME UNCHANGED <<head, tail>>,
           \A k \in 1 .. Distance(head, tail) :
              (IF k = 1 /\ cpc' = "publish" THEN got' ELSE buf'[SlotAt(k)])
              = (IF k = 1 /\ cpc = "publish" THEN got ELSE buf[SlotAt(k)])
    PROVE  Contents' = Contents
BY DEF Contents, Distance, SlotAt, capa

\* Every step of the ring is a step of the queue or none.
LEMMA StepFifo == RingInv /\ RingInv' /\ [Next]_ringVars => [Fifo!Next]_(Fifo!fifoVars)
PROOF
<1> SUFFICES ASSUME RingInv, RingInv', [Next]_ringVars
             PROVE  [Fifo!Next]_(Fifo!fifoVars)
  OBVIOUS
<1>0. TypeOK /\ RoomOK /\ LocalsOK /\ SlotsOK /\ TypeOK'
  BY DEF RingInv
<1>s. head \in Slots /\ tail \in Slots
  BY <1>0 DEF TypeOK
<1>d. Distance(head, tail) \in Nat /\ Distance(head, tail) \in 0 .. capa - 1
  BY <1>s, DistanceType
<1>c. ContentsOK /\ ContentsOK'
  BY ContentsType, ContentsTypeNext
<1> USE DEF producerVars, consumerVars
<1>1. CASE PushCall
  <2>1. Contents' = Contents
    BY <1>1, ContentsStay DEF PushCall
  <2> QED BY <1>0, <1>1, <2>1 DEF PushCall, LocalsOK, Fifo!Next, Fifo!Offer
<1>2. CASE PushFull
  <2>1. Distance(head, tail) = Capacity
    <3>1. Distance(head, tail) = capa - 1
      BY <1>s, <1>2, CapaType DEF PushFull, IsFull, next, Distance
    <3> QED BY <3>1, RingAssumption DEF capa
  <2>2. Contents' = Contents
    BY <1>2, ContentsStay DEF PushFull
  <2> QED BY <1>0, <1>2, <1>c, <2>1, <2>2
             DEF PushFull, LocalsOK, ContentsOK, Fifo!Next, Fifo!RefuseFull
<1>3. CASE PushRoom \/ PopSome
  <2>1. Contents' = Contents
    BY <1>0, <1>3, ContentsStay DEF PushRoom, PopSome
  <2> QED BY <1>3, <2>1 DEF PushRoom, PopSome, Fifo!fifoVars
<1>4. CASE PushConstruct
  <2>1. tail \notin Window
    BY <1>s, <1>d DEF Window
  <2>2. \A k \in 1 .. Distance(head, tail) : buf'[SlotAt(k)] = buf[SlotAt(k)]
    BY <1>0, <1>4, <1>c, <2>1 DEF PushConstruct, TypeOK, Window, ContentsOK
  <2>3. Contents' = Contents
    BY <1>4, <2>2, ContentsStay DEF PushConstruct
  <2> QED BY <1>4, <2>3 DEF PushConstruct, Fifo!fifoVars
<1>5. CASE PushPublish
  <2>1. Distance(head, next(tail)) = Distance(head, tail) + 1
    BY <1>0, <1>s, <1>5, DistanceFacts DEF PushPublish, RoomOK
  <2>2. SlotAt(Distance(head, tail) + 1) = tail
    BY <1>s, CapaType DEF SlotAt, Distance
  <2>3. item \in Values /\ buf[tail] = item
    BY <1>0, <1>5 DEF PushPublish, LocalsOK, TypeOK
  <2>4. Len(Contents) < Capacity
    <3>1. Distance(head, next(tail)) \in 0 .. capa - 1
      BY <1>s, DistanceType, NextType
    <3> QED BY <1>c, <1>d, <2>1, <3>1, RingAssumption DEF ContentsOK, capa
  <2>5. Contents' = Append(Contents, item)
    <3>1. /\ Contents' \in Seq(Values)
          /\ Len(Contents') = Distance(head, tail) + 1
          /\ \A k \in 1 .. Distance(head, tail) + 1 :
                Contents'[k] = IF k = 1 /\ cpc = "publish" THEN got
                               ELSE buf[SlotAt(k)]
      BY <1>c, <1>5, <2>1 DEF PushPublish, ContentsOK, Distance, SlotAt, capa
    <3>2. Contents'[Distance(head, tail) + 1] = item
      <4>1. cpc = "publish" => Distance(head, tail) # 0
        BY <1>0, <1>s, DistanceFacts DEF RoomOK
      <4> QED BY <1>d, <2>2, <2>3, <3>1, <4>1
    <3>3. \A k \in 1 .. Distance(head, tail) : Contents'[k] = Contents[k]
      BY <1>c, <1>d, <3>1 DEF ContentsOK
    <3>4. /\ Contents \in Seq(Values) /\ Len(Contents) = Distance(head, tail)
          /\ Append(Contents, item) \in Seq(Values)
          /\ Len(Append(Contents, item)) = Distance(head, tail) + 1
      BY <1>c, <2>3 DEF ContentsOK
    <3>5. \A k \in 1 .. Len(Contents') :
             Contents'[k] = Append(Contents, item)[k]
      BY <1>d, <2>3, <3>1, <3>2, <3>3, <3>4
    <3> QED BY <3>1, <3>4, <3>5, SeqEqual
  <2> QED BY <1>0, <1>5, <2>3, <2>4, <2>5, RingAssumption
             DEF PushPublish, Fifo!Next, Fifo!Accept
<1>6. CASE PopEmpty
  <2>1. Contents = <<>>
    BY <1>c, <1>s, <1>6, DistanceFacts DEF PopEmpty, ContentsOK
  <2>2. Contents' = Contents
    BY <1>6, ContentsStay DEF PopEmpty
  <2> QED BY <1>6, <2>1, <2>2 DEF PopEmpty, Fifo!Next, Fifo!AnswerEmpty
<1>7. CASE PopRead
  <2>1. Contents' = Contents
    BY <1>7, ContentsStay DEF PopRead
  <2> QED BY <1>7, <2>1 DEF PopRead, Fifo!fifoVars
<1>8. CASE PopDestroy
  <2>1. \A k \in 1 .. Distance(head, tail) :
           SlotAt(k) \in Slots /\ (SlotAt(k) = head <=> k = 1)
    BY <1>s, CapaType DEF SlotAt, Distance
  <2>2. \A k \in 1 .. Distance(head, tail) :
           (IF k = 1 /\ cpc' = "publish" THEN got' ELSE buf'[SlotAt(k)])
           = (IF k = 1 /\ cpc = "publish" THEN got ELSE buf[SlotAt(k)])
    BY <1>0, <1>8, <2>1 DEF PopDestroy, LocalsOK, TypeOK
  <2>3. Contents' = Contents
    BY <1>8, <2>2, ContentsStay DEF PopDestroy
  <2> QED BY <1>8, <2>3 DEF PopDestroy, Fifo!fifoVars
<1>9. CASE PopPublish
  <2>1. head # tail /\ Distance(next(head), tail) = Distance(head, tail) - 1
    BY <1>0, <1>s, <1>9, DistanceFacts DEF PopPublish, RoomOK
  <2>2. Distance(head, tail) # 0
    BY <1>s, <2>1, DistanceFacts
  <2>3. /\ Contents \in Seq(Values) /\ Contents # <<>>
        /\ Len(Contents) = Distance(head, tail)
        /\ Head(Contents) = got
    BY <1>c, <1>d, <1>9, <2>2 DEF PopPublish, ContentsOK
  <2>4. Contents' = Tail(Contents)
    <3>1. /\ Contents' \in Seq(Values)
          /\ Len(Contents') = Distance(head, tail) - 1
          /\ \A k \in 1 .. Distance(head, tail) - 1 :
                Contents'[k] = buf[SlotAt(k)']
      BY <1>c, <1>9, <2>1 DEF PopPublish, ContentsOK, Distance, capa
    <3>2. \A k \in 1 .. Distance(head, tail) - 1 : SlotAt(k)' = SlotAt(k + 1)
      BY <1>s, <1>9, CapaType DEF PopPublish, SlotAt, Distance, next, capa
    <3>3. \A k \in 1 .. Distance(head, tail) - 1 :
             Contents[k + 1] = buf[SlotAt(k + 1)]
      BY <1>c, <1>d DEF ContentsOK
    <3>4. /\ Tail(Contents) \in Seq(Values)
          /\ Len(Tail(Contents)) = Distance(head, tail) - 1
          /\ \A k \in 1 .. Distance(head, tail) - 1 :
                Tail(Contents)[k] = Contents[k + 1]
      BY <2>3, HeadTailProperties
    <3> QED BY <3>1, <3>2, <3>3, <3>4, SeqEqual
  <2> QED BY <1>9, <2>3, <2>4 DEF PopPublish, Fifo!Next, Fifo!Deliver
<1>10. CASE Renew
  <2>1. Len(Contents') = 0 /\ Contents' \in Seq(Values)
    BY <1>c, <1>10, CapaType DEF Renew, ContentsOK, Distance
  <2>2. Contents' = <<>>
    BY <2>1
  <2> QED BY <1>0, <1>10, <2>2
             DEF Renew, LocalsOK, Fifo!Next, Fifo!Discard
<1>11. CASE UNCHANGED ringVars
  <2>1. Contents' = Contents
    BY <1>11, ContentsStay DEF ringVars
  <2> QED BY <1>11, <2>1 DEF ringVars, Fifo!fifoVars
<1> QED BY <1>1, <1>2, <1>3, <1>4, <1>5, <1>6, <1>7, <1>8, <1>9, <1>10, <1>11
        DEF Next

\* The ring is a first-in-first-out queue of Capacity places: pop hands out
\* the elements in the order of the pushes, push fails only when there are
\* Capacity elements, pop only when there are none (ring_buf.hh:43-62).
THEOREM RingIsFifo == Spec => ImplementsFifo
<1>1. Init => Fifo!Init
  <2>1. ASSUME Init PROVE Contents = <<>>
    <3>1. ContentsOK /\ Distance(head, tail) = 0
      BY <2>1, InitRing, ContentsType DEF Init, Distance
    <3> QED BY <3>1 DEF ContentsOK
  <2> QED BY <2>1 DEF Init, Fifo!Init
<1> QED BY <1>1, RingInvariant, StepFifo, PTL
        DEF Spec, ImplementsFifo, Fifo!Spec
=============================================================================
