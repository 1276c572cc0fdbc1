------------------------------- MODULE HashMap -------------------------------
(***************************************************************************)
(* What CAtomicHashTable promises to processes that keep its safety guide  *)
(* (no two calls on one key at a time if one of them writes): a bag of     *)
(* values per key, each call taking effect in one step.  A process may     *)
(* die at any point; AtomicHashTable is shown to implement this.           *)
(***************************************************************************)
EXTENDS Integers

CONSTANTS Process, Key, Value,
          Ops,    \* the calls: records [op, key, value]
          NoOp,   \* no call in progress
          None    \* no value

VARIABLES content,  \* content[k][v]: how many instances of k have value v
          busy,     \* busy[p]: the call p is in, or NoOp
          answer    \* answer[p]: what the last call of p returned

hmVars == <<content, busy, answer>>

NoAnswer == [ok |-> TRUE, value |-> None]

Init == /\ content = [k \in Key |-> [v \in Value |-> 0]]
        /\ busy = [p \in Process |-> NoOp]
        /\ answer = [p \in Process |-> NoAnswer]

Start(p, o) ==
    /\ busy[p] = NoOp
    /\ busy' = [busy EXCEPT ![p] = o]
    /\ answer' = [answer EXCEPT ![p] = NoAnswer]
    /\ UNCHANGED content

Answer(p, ok, v) ==
    /\ busy' = [busy EXCEPT ![p] = NoOp]
    /\ answer' = [answer EXCEPT ![p] = [ok |-> ok, value |-> v]]

Doing(p, names) == busy[p] # NoOp /\ busy[p].op \in names

Has(k, v)  == content[k][v] > 0
Absent(k)  == \A v \in Value : ~Has(k, v)
Add(bag, v)  == [bag EXCEPT ![v] = @ + 1]
Drop(bag, v) == [bag EXCEPT ![v] = @ - 1]

\* insert, or update of a key that is absent.
Insert(p) ==
    /\ Doing(p, {"insert", "update"})
    /\ busy[p].op = "update" => Absent(busy[p].key)
    /\ content' = [content EXCEPT ![busy[p].key] = Add(@, busy[p].value)]
    /\ Answer(p, TRUE, None)

\* update replaces one instance.
Update(p) ==
    /\ Doing(p, {"update"})
    /\ \E old \in Value :
          /\ Has(busy[p].key, old)
          /\ content' = [content EXCEPT ![busy[p].key] =
                            Drop(Add(@, busy[p].value), old)]
    /\ Answer(p, TRUE, None)

\* No room: nothing has changed.
Full(p) ==
    /\ Doing(p, {"insert", "update"})
    /\ Answer(p, FALSE, None)
    /\ UNCHANGED content

Remove(p) ==
    /\ Doing(p, {"remove"})
    /\ \E old \in Value :
          /\ Has(busy[p].key, old)
          /\ content' = [content EXCEPT ![busy[p].key] = Drop(@, old)]
    /\ Answer(p, TRUE, None)

Get(p) ==
    /\ Doing(p, {"get"})
    /\ \E v \in Value : Has(busy[p].key, v) /\ Answer(p, TRUE, v)
    /\ UNCHANGED content

\* remove or get finds nothing, and only if there is nothing.
Miss(p) ==
    /\ Doing(p, {"remove", "get"})
    /\ Absent(busy[p].key)
    /\ Answer(p, FALSE, None)
    /\ UNCHANGED content

\* Attaching to the table.
Attach(p) ==
    /\ Doing(p, {"attach"})
    /\ \E ok \in BOOLEAN : Answer(p, ok, None)
    /\ UNCHANGED content

\* p dies in a call: nothing is lost, an update may leave both instances.
Crash(p) ==
    /\ busy[p] # NoOp
    /\ busy' = [busy EXCEPT ![p] = NoOp]
    /\ \/ UNCHANGED content
       \/ /\ busy[p].op = "update" /\ ~Absent(busy[p].key)
          /\ content' = [content EXCEPT ![busy[p].key] = Add(@, busy[p].value)]
    /\ UNCHANGED answer

Clear ==
    /\ \A p \in Process : busy[p] = NoOp
    /\ content' = [k \in Key |-> [v \in Value |-> 0]]
    /\ UNCHANGED <<busy, answer>>

Next == \/ Clear
        \/ \E p \in Process :
              \/ \E o \in Ops : Start(p, o)
              \/ Insert(p) \/ Update(p) \/ Full(p) \/ Remove(p) \/ Get(p)
              \/ Miss(p) \/ Attach(p) \/ Crash(p)

Spec == Init /\ [][Next]_hmVars
=============================================================================
