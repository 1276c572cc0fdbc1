--------------------------- MODULE AtomicHashTable ---------------------------
(***************************************************************************)
(* CAtomicHashTable (atomic_hash_table.hh): rows of nodes in shared        *)
(* memory, used by processes without a lock.  A value that does not fit    *)
(* into one node is a chain of nodes; the first one carries the key and    *)
(* the flag kFirst, which makes the chain visible.                         *)
(*                                                                         *)
(* Node <<r, c>> is column c of row r; the index that next_ holds stands   *)
(* for such a pair.  flags is used_: "used", "first", "next" are kUsed,    *)
(* kFirst, kHasNext.  data is what the bytes of a node mean: part number   *)
(* part of a value; crc_ of the last node tells the value it belongs to.   *)
(*                                                                         *)
(* pc[p], the position of process p in its call:                           *)
(*   "idle"      no call                  "undo"     gives a node back     *)
(*   "search"    looks at one row         "undone"   before --u() for it   *)
(*   "alloc"     tries to take a node     "unlink"   frees a node          *)
(*   "count"     before ++u()             "unlinked" before --u() for it   *)
(*   "fill"      writes data and links    "read"     copies one node       *)
(*   "publish"   before setFirst          "attach"   compares one counter  *)
(*                                                                         *)
(* The guide of the class (atomic_hash_table.hh:41) is the callers'        *)
(* contract: calls on one key do not overlap if one of them writes.        *)
(***************************************************************************)
EXTENDS Integers, Sequences, FiniteSets

CONSTANTS Process, Key, Value,
          HashOf,     \* HashOf[k]: the hash of key k
          HashSize,   \* hashes are 0..HashSize-1 (2^32 in the code)
          Size,       \* Size[v]: how many nodes value v takes
          Cols,       \* Cols[r]: the number of nodes of row r
          Ops,        \* the calls: records [op, key, value]
          NoOp, NoNode, None,
          MaxCrashes, \* bound: deaths of processes between two clears
          MaxCopies   \* bound: instances of a key that insert adds to

Row  == 1..Len(Cols)
Node == UNION {{r} \X (0..(Cols[r] - 1)) : r \in Row}

OpName == {"insert", "update", "remove", "get", "attach"}
Writes == {"insert", "update", "remove"}

ASSUME TableAssumption ==
    /\ Cols \in Seq(Nat \ {0}) /\ Cols # <<>>
    /\ HashSize \in Nat \ {0}
    /\ HashOf \in [Key -> 0..(HashSize - 1)]
    /\ Size \in [Value -> Nat \ {0}]
    /\ Ops \subseteq [op : OpName, key : Key, value : Value]
    /\ NoOp \notin Ops /\ NoNode \notin Row \X Nat
    /\ IsFiniteSet(Process) /\ None \notin Value
    /\ MaxCrashes \in Nat /\ MaxCopies \in Nat

VARIABLES flags, hash, next, data,  \* of the nodes
          used,    \* used[r]: the counter of row r
          op, pc,  \* see above
          row,     \* row[p]: the row p looks at
          h,       \* h[p]: the hash that places the node p looks for
          mine,    \* mine[p]: the nodes p has taken for its value
          found,   \* found[p]: the node that p reads or frees, or NoNode
          spare,   \* spare[p]: the node p has just freed
          got,     \* got[p]: the parts p has read
          reply,   \* reply[p]: what the last call of p returned
          crashes  \* deaths since the table was empty

shared == <<flags, hash, next, data, used>>
locals == <<op, pc, row, h, mine, found, spare, got, reply>>
ahVars == <<shared, locals, crashes>>

\* What a call has returned before it returns, and the bytes of a raw node.
NoReply == [ok |-> TRUE, value |-> None]
NoData  == [key |-> None, value |-> None, part |-> 0]

Init == /\ flags = [n \in Node |-> {}]
        /\ hash  = [n \in Node |-> 0]
        /\ next  = [n \in Node |-> NoNode]
        /\ data  = [n \in Node |-> NoData]
        /\ used  = [r \in Row |-> 0]
        /\ op = [p \in Process |-> NoOp] /\ pc = [p \in Process |-> "idle"]
        /\ row   = [p \in Process |-> 1]
        /\ h     = [p \in Process |-> 0]
        /\ mine  = [p \in Process |-> <<>>]
        /\ found = [p \in Process |-> NoNode]
        /\ spare = [p \in Process |-> NoNode]
        /\ got   = [p \in Process |-> <<>>]
        /\ reply = [p \in Process |-> NoReply]
        /\ crashes = 0

-----------------------------------------------------------------------------
NodeOfHash(r, x) == <<r, x % Cols[r]>>

\* The hash of the next node of a chain: h = (h + 1) * (h + 2).
NextHash(x) == ((x + 1) * (x + 2)) % HashSize

\* Mutant of MatchFirst: the keys are not compared.
MatchHash(n, k) == {"used", "first"} \subseteq flags[n] /\ hash[n] = HashOf[k]

\* searchNode's test of one node.
MatchFirst(n, k) == /\ {"used", "first"} \subseteq flags[n]
                    /\ hash[n] = HashOf[k]
                    /\ data[n].key = k

\* nextNode: the successor, if it is one of the same chain.
NextNode(n, x) ==
    IF /\ "next" \in flags[n] /\ next[n] \in Node
       /\ "used" \in flags[next[n]] /\ hash[next[n]] = x
    THEN next[n] ELSE NoNode

Whole(v) == [i \in 1..Size[v] |-> <<v, i>>]

keyOf(p)  == op[p].key
hashOf(p) == HashOf[keyOf(p)]

\* The node that p looks at in the current row.
Candidate(p) == NodeOfHash(row[p], h[p])

-----------------------------------------------------------------------------
Goto(p, label) == pc' = [pc EXCEPT ![p] = label]

Finish(p) ==
    /\ Goto(p, "idle")
    /\ op'    = [op    EXCEPT ![p] = NoOp]
    /\ row'   = [row   EXCEPT ![p] = 1]
    /\ h'     = [h     EXCEPT ![p] = 0]
    /\ mine'  = [mine  EXCEPT ![p] = <<>>]
    /\ found' = [found EXCEPT ![p] = NoNode]
    /\ spare' = [spare EXCEPT ![p] = NoNode]
    /\ got'   = [got   EXCEPT ![p] = <<>>]

Reply(p, ok, v) == reply' = [reply EXCEPT ![p] = [ok |-> ok, value |-> v]]

\* The guide: others are in calls on other keys, or all of them read.
MayStart(p, o) ==
    o.op # "attach" =>
        \A q \in Process \ {p} :
            pc[q] # "idle" /\ op[q].op # "attach" /\ keyOf(q) = o.key =>
                o.op \notin Writes /\ op[q].op \notin Writes

Instances(k) == {n \in Node : {"used", "first"} \subseteq flags[n]
                              /\ data[n].key = k}

Start(p, o) ==
    /\ pc[p] = "idle" /\ MayStart(p, o)
    /\ o.op = "insert" => Cardinality(Instances(o.key)) < MaxCopies
    /\ op' = [op EXCEPT ![p] = o]
    /\ h' = [h EXCEPT ![p] = HashOf[o.key]]
    /\ Goto(p, CASE o.op = "insert" -> "alloc" [] o.op = "attach" -> "attach"
                 [] OTHER -> "search")
    /\ Reply(p, TRUE, None)
    /\ UNCHANGED <<shared, row, mine, found, spare, got, crashes>>

-----------------------------------------------------------------------------
(* searchNode, row by row.                                                 *)

SearchHit(p) ==
    /\ pc[p] = "search" /\ MatchFirst(Candidate(p), keyOf(p))
    /\ found' = [found EXCEPT ![p] = Candidate(p)]
    /\ row' = [row EXCEPT ![p] = 1]
    /\ Goto(p, CASE op[p].op = "update" -> "alloc"
                 [] op[p].op = "remove" -> "unlink" [] OTHER -> "read")
    /\ UNCHANGED <<shared, op, h, mine, spare, got, reply, crashes>>

SearchNextRow(p) ==
    /\ pc[p] = "search" /\ ~MatchFirst(Candidate(p), keyOf(p))
    /\ row[p] < Len(Cols)
    /\ row' = [row EXCEPT ![p] = @ + 1]
    /\ UNCHANGED <<shared, op, pc, h, mine, found, spare, got, reply, crashes>>

SearchMiss(p) ==
    /\ pc[p] = "search" /\ ~MatchFirst(Candidate(p), keyOf(p))
    /\ row[p] = Len(Cols)
    /\ IF op[p].op = "update"
       THEN /\ Goto(p, "alloc") /\ row' = [row EXCEPT ![p] = 1]
            /\ UNCHANGED <<op, h, mine, found, spare, got, reply>>
       ELSE Finish(p) /\ Reply(p, FALSE, None)
    /\ UNCHANGED <<shared, crashes>>

-----------------------------------------------------------------------------
(* insertAux.                                                              *)

\* Mutant of AllocNode: a node is free unless it is the first of a chain.
AllocNotFirst(p) ==
    /\ pc[p] = "alloc" /\ "first" \notin flags[Candidate(p)]
    /\ LET n == Candidate(p)
       IN  /\ flags' = [flags EXCEPT ![n] = {"used"}]
           /\ hash'  = [hash  EXCEPT ![n] = 0]
           /\ next'  = [next  EXCEPT ![n] = NoNode]
           /\ mine'  = [mine  EXCEPT ![p] = Append(@, n)]
    /\ Goto(p, "count")
    /\ UNCHANGED <<data, used, op, row, h, found, spare, got, reply, crashes>>

\* CAtomichHashNode::alloc, a compare-and-swap of used_.
AllocNode(p) ==
    /\ pc[p] = "alloc" /\ flags[Candidate(p)] = {}
    /\ LET n == Candidate(p)
       IN  /\ flags' = [flags EXCEPT ![n] = {"used"}]
           /\ hash'  = [hash  EXCEPT ![n] = 0]
           /\ next'  = [next  EXCEPT ![n] = NoNode]
           /\ mine'  = [mine  EXCEPT ![p] = Append(@, n)]
    /\ Goto(p, "count")
    /\ UNCHANGED <<data, used, op, row, h, found, spare, got, reply, crashes>>

AllocNextRow(p) ==
    /\ pc[p] = "alloc" /\ flags[Candidate(p)] # {} /\ row[p] < Len(Cols)
    /\ row' = [row EXCEPT ![p] = @ + 1]
    /\ UNCHANGED <<shared, op, pc, h, mine, found, spare, got, reply, crashes>>

\* Mutant of AllocFail: the call waits for room.
AllocRetry(p) ==
    /\ pc[p] = "alloc" /\ flags[Candidate(p)] # {} /\ row[p] = Len(Cols)
    /\ row' = [row EXCEPT ![p] = 1]
    /\ UNCHANGED <<shared, op, pc, h, mine, found, spare, got, reply, crashes>>

\* No row has room: what was taken is given back, the call fails.
AllocFail(p) ==
    /\ pc[p] = "alloc" /\ flags[Candidate(p)] # {} /\ row[p] = Len(Cols)
    /\ Reply(p, FALSE, None)
    /\ IF mine[p] = <<>>
       THEN Finish(p)
       ELSE Goto(p, "undo") /\ UNCHANGED <<op, row, h, mine, found, spare, got>>
    /\ UNCHANGED <<shared, crashes>>

\* Mutant of Count: one count for all the nodes of a value.
CountOnce(p) ==
    /\ pc[p] = "count"
    /\ used' = [used EXCEPT ![row[p]] = IF Len(mine[p]) = 1 THEN @ + 1 ELSE @]
    /\ row' = [row EXCEPT ![p] = 1]
    /\ h' = [h EXCEPT ![p] = NextHash(@)]
    /\ Goto(p, IF Len(mine[p]) < Size[op[p].value] THEN "alloc" ELSE "fill")
    /\ UNCHANGED <<flags, hash, next, data, op, mine, found, spare, got, reply,
                   crashes>>

\* ++u(), then the next node or the data.
Count(p) ==
    /\ pc[p] = "count"
    /\ used' = [used EXCEPT ![row[p]] = @ + 1]
    /\ row' = [row EXCEPT ![p] = 1]
    /\ h' = [h EXCEPT ![p] = NextHash(@)]
    /\ Goto(p, IF Len(mine[p]) < Size[op[p].value] THEN "alloc" ELSE "fill")
    /\ UNCHANGED <<flags, hash, next, data, op, mine, found, spare, got, reply,
                   crashes>>

\* setData, setMetaMid and setMetaEnd.  The nodes of m are nobody else's yet, so
\* writing them is one step.
Place(m, n)  == CHOOSE i \in 1..Len(m) : m[i] = n
Taken(m)     == {m[i] : i \in 1..Len(m)}
Linked(m)    == {m[i] : i \in 1..(Len(m) - 1)}

\* Mutant of SetHash: setMetaMid forgets hash_.
SetHashLast(m, x) == [hash EXCEPT ![m[Len(m)]] = x]

SetHash(m, x) == [n \in Node |-> IF n \in Taken(m) THEN x ELSE hash[n]]

Fill(p) ==
    /\ pc[p] = "fill"
    /\ LET m == mine[p]
       IN  /\ data' = [n \in Node |->
                  IF n \in Taken(m)
                  THEN [key |-> IF n = m[1] THEN keyOf(p) ELSE None,
                        value |-> op[p].value, part |-> Place(m, n)]
                  ELSE data[n]]
           /\ hash' = SetHash(m, hashOf(p))
           /\ next' = [n \in Node |-> IF n \in Linked(m)
                                      THEN m[Place(m, n) + 1] ELSE next[n]]
           /\ flags' = [n \in Node |-> IF n \in Linked(m)
                                       THEN flags[n] \cup {"next"} ELSE flags[n]]
    /\ Goto(p, "publish")
    /\ UNCHANGED <<used, op, row, h, mine, found, spare, got, reply, crashes>>

\* setFirst, then update goes on with the instance it has found.
Publish(p) ==
    /\ pc[p] = "publish"
    /\ flags' = [flags EXCEPT ![mine[p][1]] = @ \cup {"first"}]
    /\ IF found[p] = NoNode
       THEN Finish(p)
       ELSE Goto(p, "unlink") /\ UNCHANGED <<op, row, h, mine, found, spare, got>>
    /\ UNCHANGED <<hash, next, data, used, reply, crashes>>

-----------------------------------------------------------------------------
(* deallocNodes and removeAux: dealloc clears used_, then --u().           *)

\* dealloc.  The other fields stay as they are in the code, but nobody looks at
\* them before alloc resets them or Fill writes them, so they are forgotten.
Free(n) ==
    /\ flags' = [flags EXCEPT ![n] = {}]
    /\ hash' = [hash EXCEPT ![n] = 0]
    /\ next' = [next EXCEPT ![n] = NoNode]
    /\ data' = [data EXCEPT ![n] = NoData]

Undo(p) ==
    /\ pc[p] = "undo"
    /\ Free(Head(mine[p]))
    /\ spare' = [spare EXCEPT ![p] = Head(mine[p])]
    /\ mine'  = [mine  EXCEPT ![p] = Tail(@)]
    /\ Goto(p, "undone")
    /\ UNCHANGED <<used, op, row, h, found, got, reply, crashes>>

\* Mutant of Undone: the counter is forgotten.
UndoneUncounted(p) ==
    /\ pc[p] = "undone"
    /\ IF mine[p] = <<>>
       THEN Finish(p)
       ELSE Goto(p, "undo") /\ UNCHANGED <<op, row, h, mine, found, spare, got>>
    /\ UNCHANGED <<shared, reply, crashes>>

Undone(p) ==
    /\ pc[p] = "undone"
    /\ used' = [used EXCEPT ![spare[p][1]] = @ - 1]
    /\ IF mine[p] = <<>>
       THEN Finish(p)
       ELSE Goto(p, "undo") /\ UNCHANGED <<op, row, h, mine, found, spare, got>>
    /\ UNCHANGED <<flags, hash, next, data, reply, crashes>>

\* Mutant of Unlink: the successor is looked up after the node was freed.
UnlinkThenNext(p) ==
    /\ pc[p] = "unlink"
    /\ Free(found[p])
    /\ spare' = [spare EXCEPT ![p] = found[p]]
    /\ found' = [found EXCEPT ![p] = NoNode]
    /\ Goto(p, "unlinked")
    /\ UNCHANGED <<used, op, row, h, mine, got, reply, crashes>>

\* The successor is looked up before the node is freed.
Unlink(p) ==
    /\ pc[p] = "unlink"
    /\ Free(found[p])
    /\ spare' = [spare EXCEPT ![p] = found[p]]
    /\ found' = [found EXCEPT ![p] = NextNode(@, hashOf(p))]
    /\ Goto(p, "unlinked")
    /\ UNCHANGED <<used, op, row, h, mine, got, reply, crashes>>

Unlinked(p) ==
    /\ pc[p] = "unlinked"
    /\ used' = [used EXCEPT ![spare[p][1]] = @ - 1]
    /\ IF found[p] = NoNode
       THEN Finish(p)
       ELSE Goto(p, "unlink") /\ UNCHANGED <<op, row, h, mine, found, spare, got>>
    /\ UNCHANGED <<flags, hash, next, data, reply, crashes>>

-----------------------------------------------------------------------------
\* readNodes: one node is copied; after the last one the length and crc_ tell
\* whether the parts are a value.
Read(p) ==
    /\ pc[p] = "read"
    /\ LET n     == found[p]
           parts == Append(got[p], <<data[n].value, data[n].part>>)
           succ  == NextNode(n, hashOf(p))
       IN  IF succ # NoNode
           THEN /\ got' = [got EXCEPT ![p] = parts]
                /\ found' = [found EXCEPT ![p] = succ]
                /\ UNCHANGED <<op, pc, row, h, mine, spare, reply>>
           ELSE /\ IF parts = Whole(data[n].value)
                   THEN Reply(p, TRUE, data[n].value)
                   ELSE Reply(p, FALSE, None)
                /\ Finish(p)
    /\ UNCHANGED <<shared, crashes>>

\* check(cols, used): attaching compares the counters one by one.
Attach(p) ==
    /\ pc[p] = "attach"
    /\ IF used[row[p]] <= Cols[row[p]] /\ row[p] < Len(Cols)
       THEN row' = [row EXCEPT ![p] = @ + 1]
            /\ UNCHANGED <<op, pc, h, mine, found, spare, got, reply>>
       ELSE Finish(p) /\ Reply(p, used[row[p]] <= Cols[row[p]], None)
    /\ UNCHANGED <<shared, crashes>>

\* clear, which must not overlap any call.
Clear ==
    /\ \A p \in Process : pc[p] = "idle"
    /\ flags' = [n \in Node |-> {}]
    /\ hash'  = [n \in Node |-> 0]
    /\ next'  = [n \in Node |-> NoNode]
    /\ data'  = [n \in Node |-> NoData]
    /\ used'  = [r \in Row |-> 0]
    /\ crashes' = 0
    /\ UNCHANGED locals

\* p dies inside a call; another process takes its place.
Crash(p) ==
    /\ pc[p] # "idle" /\ crashes < MaxCrashes
    /\ Finish(p)
    /\ crashes' = crashes + 1
    /\ UNCHANGED <<shared, reply>>

Step(p) == \/ SearchHit(p) \/ SearchNextRow(p) \/ SearchMiss(p)
           \/ AllocNode(p) \/ AllocNextRow(p) \/ AllocFail(p) \/ Count(p)
           \/ Fill(p) \/ Publish(p) \/ Undo(p) \/ Undone(p)
           \/ Unlink(p) \/ Unlinked(p) \/ Read(p) \/ Attach(p)

Next == \/ Clear
        \/ \E p \in Process : (\E o \in Ops : Start(p, o)) \/ Step(p) \/ Crash(p)

Spec == Init /\ [][Next]_ahVars

\* A process inside a call goes on, unless it dies.
FairSpec == Spec /\ \A p \in Process : WF_ahVars(Step(p))
-----------------------------------------------------------------------------
(* Properties.                                                             *)

TypeOK ==
    /\ flags \in [Node -> SUBSET {"used", "first", "next"}]
    /\ hash \in [Node -> 0..(HashSize - 1)]
    /\ next \in [Node -> Node \cup {NoNode}]
    /\ data \in [Node -> [key : Key \cup {None}, value : Value \cup {None},
                          part : Nat]]
    /\ used \in [Row -> Nat]
    /\ op \in [Process -> Ops \cup {NoOp}]
    /\ pc \in [Process -> {"idle", "search", "alloc", "count", "fill", "publish",
                           "undo", "undone", "unlink", "unlinked", "read",
                           "attach"}]
    /\ row \in [Process -> Row] /\ h \in [Process -> 0..(HashSize - 1)]
    /\ mine \in [Process -> Seq(Node)]
    /\ found \in [Process -> Node \cup {NoNode}]
    /\ spare \in [Process -> Node \cup {NoNode}]
    /\ got \in [Process -> Seq((Value \cup {None}) \X Nat)]
    /\ reply \in [Process -> [ok : BOOLEAN, value : Value \cup {None}]]
    /\ crashes \in Nat

Heads   == {n \in Node : {"used", "first"} \subseteq flags[n]}
Linking == {n \in Node : "next" \in flags[n]}
Filled  == {n \in Node : data[n].part > 0}

\* The nodes p has taken for a value that is not visible yet.
Building(p) == IF pc[p] \in {"alloc", "count", "fill", "publish", "undo", "undone"}
               THEN {mine[p][i] : i \in 1..Len(mine[p])} ELSE {}

\* No node belongs to two values: a node follows one other at most, a head
\* follows none, and what a process is building is nobody else's
\* (atomic_hash_table.hh:35, :44).
ChainsAreApart ==
    /\ \A m, n \in Linking : next[m] = next[n] => m = n
    /\ \A n \in Linking : next[n] \notin Heads
    /\ \A p \in Process :
          /\ Building(p) \cap Heads = {}
          /\ \A n \in Linking : next[n] \in Building(p) => n \in Building(p)
    /\ \A p, q \in Process : p # q => Building(p) \cap Building(q) = {}

\* A visible value is complete at every moment, whoever dies where: its head
\* holds part 1, and from part to part next_ leads to the next one of the same
\* value until the last (atomic_hash_table.hh:598-603).
ValuesAreWhole ==
    /\ \A n \in Heads : data[n].part = 1
    /\ \A n \in Filled :
          LET succ == NextNode(n, hash[n])
          IN  IF data[n].part < Size[data[n].value]
              THEN /\ succ \in Node
                   /\ data[succ].value = data[n].value
                   /\ data[succ].part = data[n].part + 1
              ELSE succ = NoNode

\* Without a crash no node is lost: every used node is visible, follows
\* another one, or is held by the call that is building or freeing it.
NoNodeIsLost ==
    crashes = 0 =>
        \A n \in Node : flags[n] # {} =>
            \/ n \in Heads
            \/ \E m \in Linking : next[m] = n
            \/ \E p \in Process :
                  \/ n \in Building(p)
                  \/ pc[p] \in {"unlink", "unlinked"} /\ n = found[p]

\* The counters lag behind the nodes only by the calls between the two steps,
\* and every death leaves them wrong by at most one.
Abs(i) == IF i < 0 THEN -i ELSE i
Drift(r) ==
    used[r] - Cardinality({n \in Node : n[1] = r /\ flags[n] # {}})
            + Cardinality({p \in Process : pc[p] = "count" /\ row[p] = r})
            - Cardinality({p \in Process : pc[p] \in {"undone", "unlinked"}
                                           /\ spare[p][1] = r})
CountersDrift == \A r \in Row : Abs(Drift(r)) <= crashes

\* Every call ends although nobody waits for anybody (lock-free,
\* atomic_hash_table.hh:21).
CallsEnd == \A p \in Process : pc[p] # "idle" ~> pc[p] = "idle"

\* The processes see a bag of values per key.
Effected(p) == \/ pc[p] \in {"undo", "undone", "unlinked"}
               \/ pc[p] = "unlink" /\ "first" \notin flags[found[p]]
Pending == {n \in Node : \E p \in Process :
              /\ pc[p] = "unlink" /\ op[p].op = "update" /\ ~Effected(p)
              /\ n = mine[p][1]}
Content == [k \in Key |-> [v \in Value |->
              Cardinality({n \in Instances(k) \ Pending : data[n].value = v})]]
Promise == INSTANCE HashMap WITH
              content <- Content,
              busy <- [p \in Process |-> IF Effected(p) THEN NoOp ELSE op[p]],
              answer <- reply
ImplementsMap == Promise!Spec

\* As long as nobody has died, attaching to the table finds counters that do not
\* exceed their rows: a "lock-free and process/thread-safe" table that has been
\* initialized is attached to (atomic_hash_table.hh:21, :137, :184).
AttachSucceeds == \A p \in Process :
                     pc[p] = "attach" /\ crashes = 0 => used[row[p]] <= Cols[row[p]]
=============================================================================
