----------------------------- MODULE BoundedFifo ----------------------------
(***************************************************************************)
(* What a queue between one producer and one consumer promises: elements   *)
(* leave in the order they came, "full" and "empty" are true when they are *)
(* answered.  RingBuf is shown to implement it.                            *)
(***************************************************************************)
EXTENDS Integers, Sequences

CONSTANTS Values,   \* the elements
          NoItem,   \* no element
          Bound     \* the most elements the queue may hold

VARIABLES queue,    \* the elements, oldest first
          offered,  \* the element of the push in progress, or NoItem
          pushed,   \* what the last push returned
          popped    \* what the last pop handed out; NoItem if it returned false

fifoVars == <<queue, offered, pushed, popped>>

Init == queue = <<>> /\ offered = NoItem /\ pushed = TRUE /\ popped = NoItem

Offer(v) == /\ offered = NoItem
            /\ offered' = v
            /\ UNCHANGED <<queue, pushed, popped>>

Accept == /\ offered # NoItem /\ Len(queue) < Bound
          /\ queue' = Append(queue, offered)
          /\ offered' = NoItem /\ pushed' = TRUE
          /\ UNCHANGED popped

RefuseFull == /\ offered # NoItem /\ Len(queue) = Bound
              /\ offered' = NoItem /\ pushed' = FALSE
              /\ UNCHANGED <<queue, popped>>

Deliver == /\ queue # <<>>
           /\ popped' = Head(queue)
           /\ queue' = Tail(queue)
           /\ UNCHANGED <<offered, pushed>>

AnswerEmpty == /\ queue = <<>>
               /\ popped' = NoItem
               /\ UNCHANGED <<queue, offered, pushed>>

\* The queue is destroyed with all it holds, and a new one is made.
Discard == offered = NoItem /\ queue' = <<>> /\ UNCHANGED <<offered, pushed, popped>>

Next == \/ \E v \in Values : Offer(v)
        \/ Accept \/ RefuseFull \/ Deliver \/ AnswerEmpty \/ Discard

Spec == Init /\ [][Next]_fifoVars
=============================================================================
