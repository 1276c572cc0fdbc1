---------------------------- MODULE MessageQueue ----------------------------
(***************************************************************************)
(* What a bounded message queue promises its callers, with no lock and no  *)
(* condition variable in sight: a call takes effect in one step between    *)
(* its start and its return.  LockQueue is shown to implement it.          *)
(***************************************************************************)
EXTENDS Integers, Sequences

CONSTANTS Threads,  \* the callers
          Calls,    \* the calls they make: records [op, items, wait]
          NoCall,   \* a caller with no call in progress
          Bound     \* the most elements the queue may hold

VARIABLES queue,    \* the elements, oldest first
          busy,     \* busy[t]: the call t is in, or NoCall
          reply     \* reply[t]: what the last call of t returned

mqVars == <<queue, busy, reply>>

Puts   == {"push", "pushFront", "pushAll"}
Takes  == {"pop", "popAll"}

Fits(c) == Len(queue) + Len(c.items) <= Bound

\* What a call has returned before it returns.
NoReply == [ok |-> TRUE, items |-> <<>>]

Init == /\ queue = <<>>
        /\ busy  = [t \in Threads |-> NoCall]
        /\ reply = [t \in Threads |-> NoReply]

Return(t, ok, items) ==
    /\ busy'  = [busy  EXCEPT ![t] = NoCall]
    /\ reply' = [reply EXCEPT ![t] = [ok |-> ok, items |-> items]]

Start(t, c) ==
    /\ busy[t] = NoCall
    /\ busy'  = [busy  EXCEPT ![t] = c]
    /\ reply' = [reply EXCEPT ![t] = NoReply]
    /\ UNCHANGED queue

Put(t) ==
    /\ busy[t] # NoCall
    /\ busy[t].op \in Puts
    /\ Fits(busy[t])
    /\ queue' = IF busy[t].op = "pushFront" THEN busy[t].items \o queue
                                            ELSE queue \o busy[t].items
    /\ Return(t, TRUE, <<>>)

Take(t) ==
    /\ busy[t] # NoCall
    /\ queue # <<>>
    /\ \/ /\ busy[t].op = "pop"
          /\ queue' = Tail(queue)
          /\ Return(t, TRUE, <<Head(queue)>>)
       \/ /\ busy[t].op = "popAll"
          /\ queue' = <<>>
          /\ Return(t, TRUE, queue)

\* A call that may block for ever is refused only when it could never succeed
\* (a queue without places refuses every call); a call that must not wait is
\* refused only when it would have had to; a timed call may give up at any time.
Refusable(c) ==
    \/ c.wait = "timed"
    \/ c.wait = "never" /\ (IF c.op \in Puts THEN ~Fits(c) ELSE queue = <<>>)
    \/ c.op \in Puts /\ Len(c.items) > Bound
    \/ Bound = 0

Refuse(t) ==
    /\ busy[t] # NoCall
    /\ busy[t].op \in Puts \cup Takes
    /\ Refusable(busy[t])
    /\ Return(t, FALSE, <<>>)
    /\ UNCHANGED queue

\* A call that only looks at the queue or at its statistics.
Look(t) ==
    /\ busy[t] # NoCall
    /\ busy[t].op \notin Puts \cup Takes
    /\ Return(t, TRUE, <<>>)
    /\ UNCHANGED queue

Next == \E t \in Threads :
            \/ \E c \in Calls : Start(t, c)
            \/ Put(t) \/ Take(t) \/ Refuse(t) \/ Look(t)

Spec == Init /\ [][Next]_mqVars
=============================================================================
