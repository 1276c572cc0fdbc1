--------------------------- MODULE AtomicHashProofs ---------------------------
(***************************************************************************)
(* Proofs about AtomicHashTable.  The invariant has three parts: where the *)
(* calls are (CallsOK), what the nodes hold and how they are linked        *)
(* (NodesOK), and which nodes a call holds (MineOK, FoundOK).              *)
(***************************************************************************)
EXTENDS AtomicHashTable, FiniteSetTheorems, TLAPS

\* The types of everything but the counters, whose bounds come last.
Shape ==
    /\ flags \in [Node -> SUBSET {"used", "first", "next"}]
    /\ hash \in [Node -> 0..(HashSize - 1)]
    /\ next \in [Node -> Node \cup {NoNode}]
    /\ data \in [Node -> [key : Key \cup {None}, value : Value \cup {None},
                          part : Nat]]
    /\ op \in [Process -> Ops \cup {NoOp}]
    /\ pc \in [Process -> {"idle", "search", "alloc", "count", "fill", "publish",
                           "undo", "undone", "unlink", "unlinked", "read",
                           "attach"}]
    /\ row \in [Process -> Row] /\ h \in [Process -> 0..(HashSize - 1)]
    /\ mine \in [Process -> Seq(Node)]
    /\ found \in [Process -> Node \cup {NoNode}]
    /\ spare \in [Process -> Node \cup {NoNode}]
    /\ got \in [Process -> Seq((Value \cup {None}) \X Nat)]
    /\ reply \in [Process -> [ok : BOOLEAN, value : Value \cup {None}]]
    /\ crashes \in Nat

-----------------------------------------------------------------------------
BuildPC == {"alloc", "count", "fill", "publish", "undo", "undone"}

\* Which call is where, and how many nodes it has taken by then.
CallOK(p) ==
    /\ pc[p] = "idle" <=> op[p] = NoOp
    /\ pc[p] = "search" => op[p].op \in {"update", "remove", "get"}
    /\ pc[p] \in {"idle", "search"} => mine[p] = <<>> /\ found[p] = NoNode
    /\ pc[p] \in BuildPC => op[p].op \in {"insert", "update"}
    /\ pc[p] # "idle" /\ op[p].op = "insert" => found[p] = NoNode
    /\ pc[p] = "alloc" => Len(mine[p]) < Size[op[p].value]
    /\ pc[p] = "count" => /\ Len(mine[p]) \in 1..Size[op[p].value]
                          /\ mine[p][Len(mine[p])][1] = row[p]
    /\ pc[p] \in {"fill", "publish"} => Len(mine[p]) = Size[op[p].value]
    /\ pc[p] = "undo" => mine[p] # <<>>
    /\ pc[p] \in {"unlink", "unlinked"} => op[p].op \in {"update", "remove"}
    /\ pc[p] = "unlink" => found[p] \in Node
    /\ pc[p] \in {"undone", "unlinked"} => spare[p] \in Node
    /\ pc[p] = "read" => op[p].op = "get" /\ found[p] \in Node

\* The guide is kept.
Guided(p, q) ==
    /\ pc[p] # "idle" /\ op[p].op # "attach"
    /\ pc[q] # "idle" /\ op[q].op # "attach"
    /\ keyOf(p) = keyOf(q)
    => op[p].op \notin Writes /\ op[q].op \notin Writes

CallsOK == /\ \A p \in Process : CallOK(p)
           /\ \A p, q \in Process : p # q => Guided(p, q)

-----------------------------------------------------------------------------
\* What a node holds, and what it links to.
NodeOK(n) ==
    /\ flags[n] = {} \/ "used" \in flags[n]
    /\ flags[n] = {} => data[n].part = 0
    /\ "first" \in flags[n] => data[n].part = 1
    /\ data[n].part > 0 => /\ data[n].value \in Value
                           /\ data[n].part <= Size[data[n].value]
                           /\ data[n].part < Size[data[n].value]
                                 <=> "next" \in flags[n]
    /\ "next" \in flags[n] =>
          /\ data[n].part > 0
          /\ next[n] \in Node
          /\ "used" \in flags[next[n]]
          /\ hash[next[n]] = hash[n]
          /\ data[next[n]].value = data[n].value
          /\ data[next[n]].part = data[n].part + 1

NodesOK == /\ \A n \in Node : NodeOK(n)
           /\ \A m, n \in Node : "next" \in flags[m] /\ "next" \in flags[n]
                                 /\ next[m] = next[n] => m = n

\* The nodes a call has taken: raw until they are filled, then a chain.
MineOK(p) ==
    /\ pc[p] \in BuildPC =>
          \A i \in 1..Len(mine[p]) :
             /\ "used" \in flags[mine[p][i]] /\ "first" \notin flags[mine[p][i]]
             /\ pc[p] # "publish" => data[mine[p][i]].part = 0
             /\ \A j \in 1..Len(mine[p]) : mine[p][i] = mine[p][j] => i = j
    /\ pc[p] = "publish" =>
          \A i \in 1..Len(mine[p]) :
             /\ data[mine[p][i]].part = i
             /\ i < Len(mine[p]) => /\ "next" \in flags[mine[p][i]]
                                    /\ next[mine[p][i]] = mine[p][i + 1]

MinesOK == /\ \A p \in Process : MineOK(p)
           /\ \A p, q \in Process :
                 p # q /\ pc[p] \in BuildPC /\ pc[q] \in BuildPC =>
                    \A i \in 1..Len(mine[p]), j \in 1..Len(mine[q]) :
                       mine[p][i] # mine[q][j]

-----------------------------------------------------------------------------
\* The node that a writer has found: the head of an instance of its key ...
FoundHead(p) == /\ "first" \in flags[found[p]] /\ "used" \in flags[found[p]]
                /\ data[found[p]].key = keyOf(p) /\ hash[found[p]] = hashOf(p)

\* ... or, once that is freed, what is left of the chain, which nothing leads
\* to any more.
FoundRest(p) == /\ "used" \in flags[found[p]] /\ "first" \notin flags[found[p]]
                /\ data[found[p]].part > 1 /\ hash[found[p]] = hashOf(p)
                /\ \A m \in Node : "next" \in flags[m] => next[m] # found[p]

FoundOK(p) ==
    found[p] \in Node /\ op[p] # NoOp /\ op[p].op \in Writes =>
        /\ pc[p] \in {"alloc", "count", "fill", "publish"} => FoundHead(p)
        /\ pc[p] = "unlink" => FoundHead(p) \/ FoundRest(p)
        /\ pc[p] = "unlinked" => FoundRest(p)

Freer(p) == pc[p] \in {"unlink", "unlinked"} /\ found[p] \in Node

FoundsOK == /\ \A p \in Process : FoundOK(p)
            /\ \A p, q \in Process :
                  p # q /\ Freer(p) /\ Freer(q) => found[p] # found[q]

IInv == Shape /\ CallsOK /\ NodesOK /\ MinesOK /\ FoundsOK

-----------------------------------------------------------------------------
(* Facts about the constants.                                              *)

\* What the assumptions say of a call.
LEMMA OpFacts ==
    ASSUME NEW o \in Ops
    PROVE  /\ o # NoOp /\ o.op \in OpName /\ o.key \in Key /\ o.value \in Value
           /\ Size[o.value] \in Nat \ {0}
           /\ HashOf[o.key] \in 0..(HashSize - 1)
BY TableAssumption

\* Row 1 exists, and rows have columns.
LEMMA RowFacts ==
    /\ Len(Cols) \in Nat \ {0} /\ 1 \in Row
    /\ \A r \in Row : r \in Nat /\ Cols[r] \in Nat \ {0}
    /\ HashSize \in Nat \ {0} /\ 0 \in 0..(HashSize - 1)
BY TableAssumption DEF Row

\* The nodes are pairs of a row and a column, and NoNode is none of them.
LEMMA NodeFacts ==
    /\ \A n \in Node : n = <<n[1], n[2]>> /\ n[1] \in Row /\ n # NoNode
    /\ \A r \in Row, c \in Nat : c < Cols[r] => <<r, c>> \in Node
<1>1. ASSUME NEW n \in Node
      PROVE  n = <<n[1], n[2]>> /\ n[1] \in Row /\ n # NoNode
  <2>1. PICK r \in Row : n \in {r} \X (0..(Cols[r] - 1))
    BY DEF Node
  <2>2. n \in Row \X Nat
    BY <2>1, RowFacts
  <2>. QED BY <2>2, TableAssumption
<1>2. ASSUME NEW r \in Row, NEW c \in Nat, c < Cols[r]
      PROVE  <<r, c>> \in Node
  <2>1. <<r, c>> \in {r} \X (0..(Cols[r] - 1))
    BY <1>2, RowFacts
  <2>. QED BY <2>1 DEF Node
<1>. QED BY <1>1, <1>2

\* The node a call looks at exists (h % capa_ is a column).
LEMMA CandidateInNode ==
    ASSUME Shape, NEW p \in Process
    PROVE  Candidate(p) \in Node
<1>1. row[p] \in Row /\ h[p] \in Nat
  BY RowFacts DEF Shape
<1>2. Cols[row[p]] \in Nat \ {0}
  BY <1>1, RowFacts
<1>3. h[p] % Cols[row[p]] \in Nat /\ h[p] % Cols[row[p]] < Cols[row[p]]
  BY <1>1, <1>2
<1>. QED BY <1>1, <1>3, NodeFacts DEF Candidate, NodeOfHash

\* The hashes of a chain stay in their range.
LEMMA NextHashInRange ==
    ASSUME NEW x \in 0..(HashSize - 1)
    PROVE  NextHash(x) \in 0..(HashSize - 1)
<1>1. (x + 1) * (x + 2) \in Nat
  OBVIOUS
<1>. QED BY <1>1, RowFacts DEF NextHash

\* The place of a node in a chain of nodes.
LEMMA PlaceFacts ==
    ASSUME NEW m \in Seq(Node), NEW n \in Taken(m)
    PROVE  Place(m, n) \in 1..Len(m) /\ m[Place(m, n)] = n
BY DEF Place, Taken

-----------------------------------------------------------------------------
(* Shape is preserved.                                                     *)

\* The end of a call keeps the types of its locals.
LEMMA FinishShape ==
    ASSUME Shape, NEW p \in Process, Finish(p)
    PROVE  /\ op' \in [Process -> Ops \cup {NoOp}]
           /\ pc' \in [Process -> {"idle", "search", "alloc", "count", "fill",
                                   "publish", "undo", "undone", "unlink",
                                   "unlinked", "read", "attach"}]
           /\ row' \in [Process -> Row] /\ h' \in [Process -> 0..(HashSize - 1)]
           /\ mine' \in [Process -> Seq(Node)]
           /\ found' \in [Process -> Node \cup {NoNode}]
           /\ spare' \in [Process -> Node \cup {NoNode}]
           /\ got' \in [Process -> Seq((Value \cup {None}) \X Nat)]
BY RowFacts DEF Shape, Finish, Goto

\* A call in progress is one of Ops.
LEMMA Called ==
    ASSUME Shape, CallsOK, NEW p \in Process, pc[p] # "idle"
    PROVE  op[p] \in Ops
BY DEF Shape, CallsOK, CallOK

\* Starting and searching keep the types.
LEMMA SearchShape ==
    ASSUME Shape, CallsOK, NEW p \in Process,
           \/ \E o \in Ops : Start(p, o)
           \/ SearchHit(p) \/ SearchNextRow(p) \/ SearchMiss(p)
    PROVE  Shape'
<1>1. CASE \E o \in Ops : Start(p, o)
  <2>1. PICK o \in Ops : Start(p, o)
    BY <1>1
  <2>. QED BY <2>1, OpFacts DEF Start, Goto, Reply, shared, Shape
<1>2. CASE SearchHit(p)
  BY <1>2, CandidateInNode, RowFacts DEF SearchHit, Goto, shared, Shape
<1>3. CASE SearchNextRow(p)
  <2>1. row[p] + 1 \in Row
    BY <1>3, RowFacts DEF SearchNextRow, Shape, Row
  <2>. QED BY <1>3, <2>1 DEF SearchNextRow, shared, Shape
<1>4. CASE SearchMiss(p)
  <2>1. CASE op[p].op = "update"
    BY <1>4, <2>1, RowFacts DEF SearchMiss, Goto, shared, Shape
  <2>2. CASE op[p].op # "update"
    <3>1. Finish(p) /\ Reply(p, FALSE, None) /\ UNCHANGED <<shared, crashes>>
      BY <1>4, <2>2 DEF SearchMiss
    <3>. QED BY <3>1, FinishShape DEF Reply, shared, Shape
  <2>. QED BY <2>1, <2>2
<1>. QED BY <1>1, <1>2, <1>3, <1>4

\* Taking nodes keeps the types.
LEMMA AllocShape ==
    ASSUME Shape, CallsOK, NEW p \in Process,
           AllocNode(p) \/ AllocNextRow(p) \/ AllocFail(p) \/ Count(p)
    PROVE  Shape'
<1>1. CASE AllocNode(p)
  <2>1. Candidate(p) \in Node /\ mine[p] \in Seq(Node)
    BY CandidateInNode DEF Shape
  <2>2. Append(mine[p], Candidate(p)) \in Seq(Node)
    BY <2>1
  <2>. QED BY <1>1, <2>1, <2>2, RowFacts DEF AllocNode, Goto, Shape
<1>2. CASE AllocNextRow(p)
  <2>1. row[p] + 1 \in Row
    BY <1>2, RowFacts DEF AllocNextRow, Shape, Row
  <2>. QED BY <1>2, <2>1 DEF AllocNextRow, shared, Shape
<1>3. CASE AllocFail(p)
  <2>1. CASE mine[p] = <<>>
    BY <1>3, <2>1, FinishShape DEF AllocFail, Reply, shared, Shape
  <2>2. CASE mine[p] # <<>>
    BY <1>3, <2>2 DEF AllocFail, Goto, Reply, shared, Shape
  <2>. QED BY <2>1, <2>2
<1>4. CASE Count(p)
  BY <1>4, NextHashInRange, RowFacts DEF Count, Goto, Shape
<1>. QED BY <1>1, <1>2, <1>3, <1>4

\* What Fill makes of node i of the call.
Joined(p, i) ==
    LET n == mine[p][i]
    IN  /\ n \in Node
        /\ data'[n] = [key |-> IF i = 1 THEN keyOf(p) ELSE None,
                       value |-> op[p].value, part |-> i]
        /\ hash'[n] = hashOf(p)
        /\ i < Len(mine[p]) => /\ next'[n] = mine[p][i + 1]
                               /\ flags'[n] = flags[n] \cup {"next"}
        /\ i = Len(mine[p]) => next'[n] = next[n] /\ flags'[n] = flags[n]

\* What Fill does to each node: those that p has taken become a chain, the
\* others stay as they are.
LEMMA FillEffect ==
    ASSUME Shape, CallsOK, MinesOK, NEW p \in Process, Fill(p)
    PROVE  /\ mine[p] \in Seq(Node) /\ Len(mine[p]) = Size[op[p].value]
           /\ Len(mine[p]) \in Nat \ {0} /\ op[p] \in Ops
           /\ \A i \in 1..Len(mine[p]) : Joined(p, i)
           /\ \A n \in Node : (\A i \in 1..Len(mine[p]) : n # mine[p][i]) =>
                 /\ data'[n] = data[n] /\ hash'[n] = hash[n]
                 /\ next'[n] = next[n] /\ flags'[n] = flags[n]
<1>. DEFINE m == mine[p]
<1>1. pc[p] = "fill" /\ m \in Seq(Node) /\ Len(m) \in Nat
  BY DEF Fill, Shape
<1>2. op[p] \in Ops /\ Len(m) = Size[op[p].value] /\ Len(m) \in Nat \ {0}
  BY <1>1, Called, OpFacts DEF CallsOK, CallOK
<1>3. ASSUME NEW i \in 1..Len(m)
      PROVE  m[i] \in Node /\ m[i] \in Taken(m) /\ Place(m, m[i]) = i
  <2>1. m[i] \in Node /\ m[i] \in Taken(m)
    BY <1>1 DEF Taken
  <2>2. Place(m, m[i]) \in 1..Len(m) /\ m[Place(m, m[i])] = m[i]
    BY <1>1, <2>1, PlaceFacts
  <2>3. \A j, k \in 1..Len(m) : m[j] = m[k] => j = k
    BY <1>1 DEF MinesOK, MineOK, BuildPC
  <2>. QED BY <2>1, <2>2, <2>3
<1>4. ASSUME NEW i \in 1..Len(m) PROVE m[i] \in Linked(m) <=> i < Len(m)
  <2>1. \A j, k \in 1..Len(m) : m[j] = m[k] => j = k
    BY <1>1 DEF MinesOK, MineOK, BuildPC
  <2>2. ASSUME m[i] \in Linked(m) PROVE i < Len(m)
    <3>1. PICK j \in 1..(Len(m) - 1) : m[i] = m[j]
      BY <2>2 DEF Linked
    <3>. QED BY <3>1, <2>1, <1>1
  <2>3. ASSUME i < Len(m) PROVE m[i] \in Linked(m)
    BY <2>3, <1>1 DEF Linked
  <2>. QED BY <2>2, <2>3
<1>5. ASSUME NEW n \in Node, \A i \in 1..Len(m) : n # m[i]
      PROVE  n \notin Taken(m) /\ n \notin Linked(m)
  <2>1. n \notin Taken(m)
    BY <1>5 DEF Taken
  <2>2. n \notin Linked(m)
    BY <1>5, <1>1 DEF Linked
  <2>. QED BY <2>1, <2>2
<1>6. ASSUME NEW i \in 1..Len(m)
      PROVE  data'[m[i]] = [key |-> IF i = 1 THEN keyOf(p) ELSE None,
                            value |-> op[p].value, part |-> i]
  <2>1. m[i] = m[1] <=> i = 1
    BY <1>3, <1>2
  <2>. QED BY <1>3, <2>1 DEF Fill
<1>7. ASSUME NEW i \in 1..Len(m)
      PROVE  /\ hash'[m[i]] = hashOf(p)
             /\ i < Len(m) => /\ next'[m[i]] = m[i + 1]
                              /\ flags'[m[i]] = flags[m[i]] \cup {"next"}
             /\ i = Len(m) => /\ next'[m[i]] = next[m[i]]
                              /\ flags'[m[i]] = flags[m[i]]
  BY <1>3, <1>4, <1>2 DEF Fill, SetHash
<1>8. ASSUME NEW n \in Node, \A i \in 1..Len(m) : n # m[i]
      PROVE  /\ data'[n] = data[n] /\ hash'[n] = hash[n]
             /\ next'[n] = next[n] /\ flags'[n] = flags[n]
  BY <1>8, <1>5 DEF Fill, SetHash
<1>. HIDE DEF m
<1>9. /\ m \in Seq(Node) /\ Len(m) = Size[op[p].value]
      /\ Len(m) \in Nat \ {0} /\ op[p] \in Ops
  BY <1>1, <1>2
<1>10. ASSUME NEW i \in 1..Len(m) PROVE Joined(p, i)
  BY <1>3, <1>6, <1>7 DEF Joined, m
<1>. QED BY <1>9, <1>10, <1>8 DEF m

\* Writing a value and making it visible keep the types.
LEMMA FillShape ==
    ASSUME Shape, CallsOK, MinesOK, NEW p \in Process, Fill(p) \/ Publish(p)
    PROVE  Shape'
<1>1. CASE Fill(p)
  <2>. DEFINE m == mine[p]
  <2>. HIDE DEF m
  <2>1. op[p] \in Ops /\ keyOf(p) \in Key /\ hashOf(p) \in 0..(HashSize - 1)
        /\ op[p].value \in Value
    BY <1>1, FillEffect, OpFacts DEF keyOf, hashOf
  <2>2. ASSUME NEW n \in Node
        PROVE  /\ flags'[n] \in SUBSET {"used", "first", "next"}
               /\ hash'[n] \in 0..(HashSize - 1)
               /\ next'[n] \in Node \cup {NoNode}
               /\ data'[n] \in [key : Key \cup {None}, value : Value \cup {None},
                                part : Nat]
    <3>1. CASE \A i \in 1..Len(m) : n # m[i]
      BY <1>1, <3>1, FillEffect DEF Shape, m
    <3>2. CASE \E i \in 1..Len(m) : n = m[i]
      <4>1. PICK i \in 1..Len(m) : n = m[i]
        BY <3>2
      <4>2. i \in Nat /\ (i < Len(m) \/ i = Len(m)) /\ (i < Len(m) => i + 1 \in 1..Len(m))
        BY <1>1, FillEffect DEF m
      <4>3. flags[n] \in SUBSET {"used", "first", "next"}
            /\ next[n] \in Node \cup {NoNode}
        BY DEF Shape
      <4>4. Joined(p, i) /\ (i < Len(m) => m[i + 1] \in Node)
        BY <1>1, <4>2, FillEffect DEF m
      <4>5. data'[n] \in [key : Key \cup {None}, value : Value \cup {None},
                          part : Nat]
        BY <2>1, <4>1, <4>2, <4>4 DEF Joined, m
      <4>. QED BY <2>1, <4>1, <4>2, <4>3, <4>4, <4>5 DEF Joined, m
    <3>. QED BY <3>1, <3>2
  <2>3. /\ flags' = [n \in Node |-> flags'[n]] /\ hash' = [n \in Node |-> hash'[n]]
        /\ next' = [n \in Node |-> next'[n]] /\ data' = [n \in Node |-> data'[n]]
    BY <1>1 DEF Fill, SetHash
  <2>. QED BY <1>1, <2>2, <2>3 DEF Fill, Goto, Shape
<1>2. CASE Publish(p)
  <2>1. CASE found[p] = NoNode
    BY <1>2, <2>1, FinishShape DEF Publish, Shape
  <2>2. CASE found[p] # NoNode
    BY <1>2, <2>2 DEF Publish, Goto, Shape
  <2>. QED BY <2>1, <2>2
<1>. QED BY <1>1, <1>2

\* Freeing a node keeps the types of the nodes.
LEMMA FreeShape ==
    ASSUME Shape, NEW n \in Node, Free(n)
    PROVE  /\ flags' \in [Node -> SUBSET {"used", "first", "next"}]
           /\ hash' \in [Node -> 0..(HashSize - 1)]
           /\ next' \in [Node -> Node \cup {NoNode}]
           /\ data' \in [Node -> [key : Key \cup {None}, value : Value \cup {None},
                                 part : Nat]]
BY RowFacts DEF Free, Shape, NoData

\* A successor is a node or none.
LEMMA NextNodeShape ==
    ASSUME NEW n, NEW x
    PROVE  NextNode(n, x) \in Node \cup {NoNode}
BY DEF NextNode

\* Giving nodes back keeps the types.
LEMMA UndoShape ==
    ASSUME Shape, CallsOK, NEW p \in Process,
           Undo(p) \/ Undone(p) \/ Unlink(p) \/ Unlinked(p)
    PROVE  Shape'
<1>1. CASE Undo(p)
  <2>1. mine[p] \in Seq(Node) /\ mine[p] # <<>>
    BY <1>1 DEF Undo, Shape, CallsOK, CallOK
  <2>2. Head(mine[p]) \in Node /\ Tail(mine[p]) \in Seq(Node)
    BY <2>1
  <2>3. Free(Head(mine[p]))
    BY <1>1 DEF Undo
  <2>. QED BY <1>1, <2>2, <2>3, FreeShape DEF Undo, Goto, Shape
<1>2. CASE Undone(p)
  <2>1. CASE mine[p] = <<>>
    BY <1>2, <2>1, FinishShape DEF Undone, Shape
  <2>2. CASE mine[p] # <<>>
    BY <1>2, <2>2 DEF Undone, Goto, Shape
  <2>. QED BY <2>1, <2>2
<1>3. CASE Unlink(p)
  <2>1. found[p] \in Node /\ Free(found[p])
    BY <1>3 DEF Unlink, CallsOK, CallOK
  <2>. QED BY <1>3, <2>1, FreeShape, NextNodeShape DEF Unlink, Goto, Shape
<1>4. CASE Unlinked(p)
  <2>1. CASE found[p] = NoNode
    BY <1>4, <2>1, FinishShape DEF Unlinked, Shape
  <2>2. CASE found[p] # NoNode
    BY <1>4, <2>2 DEF Unlinked, Goto, Shape
  <2>. QED BY <2>1, <2>2
<1>. QED BY <1>1, <1>2, <1>3, <1>4

\* An answer has its type.
LEMMA ReplyShape ==
    ASSUME Shape, NEW p \in Process, NEW ok \in BOOLEAN,
           NEW v \in Value \cup {None}, Reply(p, ok, v)
    PROVE  reply' \in [Process -> [ok : BOOLEAN, value : Value \cup {None}]]
BY DEF Reply, Shape

\* Reading, attaching, clearing and dying keep the types.
LEMMA RestShape ==
    ASSUME Shape, CallsOK,
           Clear \/ \E p \in Process : Read(p) \/ Attach(p) \/ Crash(p)
    PROVE  Shape'
<1>1. CASE Clear
  BY <1>1, RowFacts DEF Clear, locals, NoData, Shape
<1>2. ASSUME NEW p \in Process, Read(p) PROVE Shape'
  <2>. DEFINE n == found[p]
              parts == Append(got[p], <<data[n].value, data[n].part>>)
  <2>1. n \in Node /\ data[n].value \in Value \cup {None} /\ data[n].part \in Nat
    BY <1>2 DEF Read, CallsOK, CallOK, Shape
  <2>2. parts \in Seq((Value \cup {None}) \X Nat)
    <3>1. got[p] \in Seq((Value \cup {None}) \X Nat)
      BY DEF Shape
    <3>2. <<data[n].value, data[n].part>> \in (Value \cup {None}) \X Nat
      BY <2>1
    <3>. QED BY <3>1, <3>2
  <2>3. CASE NextNode(n, hashOf(p)) # NoNode
    BY <1>2, <2>2, <2>3, NextNodeShape DEF Read, shared, Shape
  <2>4. CASE NextNode(n, hashOf(p)) = NoNode
    <3>1. /\ Finish(p) /\ UNCHANGED <<shared, crashes>>
          /\ Reply(p, TRUE, data[n].value) \/ Reply(p, FALSE, None)
      BY <1>2, <2>4 DEF Read
    <3>2. reply' \in [Process -> [ok : BOOLEAN, value : Value \cup {None}]]
      BY <3>1, <2>1, ReplyShape
    <3>. QED BY <3>1, <3>2, FinishShape DEF shared, Shape
  <2>. QED BY <2>3, <2>4
<1>3. ASSUME NEW p \in Process, Attach(p) PROVE Shape'
  <2>1. CASE used[row[p]] <= Cols[row[p]] /\ row[p] < Len(Cols)
    <3>1. row[p] + 1 \in Row
      BY <2>1, RowFacts DEF Shape, Row
    <3>. QED BY <1>3, <2>1, <3>1 DEF Attach, shared, Shape
  <2>2. CASE ~(used[row[p]] <= Cols[row[p]] /\ row[p] < Len(Cols))
    <3>1. /\ Finish(p) /\ UNCHANGED <<shared, crashes>>
          /\ Reply(p, used[row[p]] <= Cols[row[p]], None)
      BY <1>3, <2>2 DEF Attach
    <3>2. (used[row[p]] <= Cols[row[p]]) \in BOOLEAN
      OBVIOUS
    <3>3. reply' \in [Process -> [ok : BOOLEAN, value : Value \cup {None}]]
      BY <3>1, <3>2, ReplyShape
    <3>. QED BY <3>1, <3>3, FinishShape DEF shared, Shape
  <2>. QED BY <2>1, <2>2
<1>4. ASSUME NEW p \in Process, Crash(p) PROVE Shape'
  <2>1. /\ Finish(p) /\ crashes' = crashes + 1
        /\ flags' = flags /\ hash' = hash /\ next' = next /\ data' = data
        /\ reply' = reply
    BY <1>4 DEF Crash, shared
  <2>2. crashes' \in Nat
    BY <2>1 DEF Shape
  <2>. QED BY <2>2, <2>1, FinishShape DEF shared, Shape
<1>. QED BY <1>1, <1>2, <1>3, <1>4

\* Every step keeps the types.
LEMMA ShapeStep ==
    ASSUME Shape, CallsOK, MinesOK, Next
    PROVE  Shape'
BY SearchShape, AllocShape, FillShape, UndoShape, RestShape DEF Next, Step

-----------------------------------------------------------------------------
(* CallsOK is preserved.                                                   *)

\* A step of p leaves the locals of the others alone.
LEMMA OthersStay ==
    ASSUME Shape, NEW p \in Process, NEW q \in Process, p # q,
           (\E o \in Ops : Start(p, o)) \/ Step(p) \/ Crash(p)
    PROVE  /\ op'[q] = op[q] /\ pc'[q] = pc[q] /\ row'[q] = row[q]
           /\ mine'[q] = mine[q] /\ found'[q] = found[q] /\ spare'[q] = spare[q]
<1>1. CASE \E o \in Ops : Start(p, o)
  BY <1>1 DEF Start, Goto, Shape
<1>2. CASE Finish(p)
  BY <1>2 DEF Finish, Goto, Shape
<1>3. CASE SearchHit(p) \/ SearchNextRow(p) \/ SearchMiss(p)
  BY <1>2, <1>3 DEF SearchHit, SearchNextRow, SearchMiss, Goto, Shape
<1>4. CASE AllocNode(p) \/ AllocNextRow(p) \/ AllocFail(p) \/ Count(p)
  BY <1>2, <1>4 DEF AllocNode, AllocNextRow, AllocFail, Count, Goto, Shape
<1>5. CASE Fill(p) \/ Publish(p)
  BY <1>2, <1>5 DEF Fill, Publish, Goto, Shape
<1>6. CASE Undo(p) \/ Undone(p)
  BY <1>2, <1>6 DEF Undo, Undone, Goto, Shape
<1>7. CASE Unlink(p) \/ Unlinked(p)
  BY <1>2, <1>7 DEF Unlink, Unlinked, Goto, Shape
<1>8. CASE Read(p) \/ Attach(p) \/ Crash(p)
  BY <1>2, <1>8 DEF Read, Attach, Crash, Goto, Shape
<1>. QED BY <1>1, <1>3, <1>4, <1>5, <1>6, <1>7, <1>8 DEF Step

\* A call keeps its arguments until it ends.
LEMMA CallStays ==
    ASSUME Shape, NEW p \in Process, Step(p) \/ Crash(p)
    PROVE  op'[p] = op[p] \/ Finish(p)
<1>1. CASE SearchHit(p) \/ SearchNextRow(p) \/ SearchMiss(p)
  BY <1>1 DEF SearchHit, SearchNextRow, SearchMiss
<1>2. CASE AllocNode(p) \/ AllocNextRow(p) \/ AllocFail(p) \/ Count(p)
  BY <1>2 DEF AllocNode, AllocNextRow, AllocFail, Count
<1>3. CASE Fill(p) \/ Publish(p)
  BY <1>3 DEF Fill, Publish
<1>4. CASE Undo(p) \/ Undone(p)
  BY <1>4 DEF Undo, Undone
<1>5. CASE Unlink(p) \/ Unlinked(p)
  BY <1>5 DEF Unlink, Unlinked
<1>6. CASE Read(p) \/ Attach(p) \/ Crash(p)
  BY <1>6 DEF Read, Attach, Crash
<1>. QED BY <1>1, <1>2, <1>3, <1>4, <1>5, <1>6 DEF Step

\* At the end of a call the process is idle again.
LEMMA FinishCall ==
    ASSUME Shape, NEW p \in Process, Finish(p)
    PROVE  CallOK(p)' /\ pc'[p] = "idle"
BY DEF Finish, Goto, Shape, CallOK, BuildPC

\* The call that takes a step is where it should be afterwards.
LEMMA CallStep ==
    ASSUME Shape, CallsOK, NEW p \in Process,
           (\E o \in Ops : Start(p, o)) \/ Step(p) \/ Crash(p)
    PROVE  CallOK(p)'
<1>1. CASE \E o \in Ops : Start(p, o)
  <2>1. PICK o \in Ops : Start(p, o)
    BY <1>1
  <2>2. /\ o # NoOp /\ o.op \in OpName /\ Size[o.value] \in Nat \ {0}
        /\ mine[p] = <<>> /\ found[p] = NoNode
    BY <2>1, OpFacts DEF Start, CallsOK, CallOK
  <2>3. /\ op'[p] = o /\ mine'[p] = <<>> /\ found'[p] = NoNode
        /\ pc'[p] = CASE o.op = "insert" -> "alloc" [] o.op = "attach" -> "attach"
                      [] OTHER -> "search"
    BY <2>1, <2>2 DEF Start, Goto, Shape
  <2>. QED BY <2>2, <2>3 DEF CallOK, BuildPC, OpName
<1>2. CASE Finish(p)
  BY <1>2, FinishCall
<1>3. CASE SearchHit(p)
  <2>1. /\ op[p] \in Ops /\ op[p] # NoOp /\ mine[p] = <<>>
        /\ op[p].op \in {"update", "remove", "get"}
        /\ Size[op[p].value] \in Nat \ {0}
    BY <1>3, Called, OpFacts DEF SearchHit, CallsOK, CallOK
  <2>2. /\ op'[p] = op[p] /\ mine'[p] = <<>> /\ found'[p] \in Node
        /\ pc'[p] = CASE op[p].op = "update" -> "alloc"
                      [] op[p].op = "remove" -> "unlink" [] OTHER -> "read"
    BY <1>3, <2>1, CandidateInNode DEF SearchHit, Goto, Shape
  <2>. QED BY <2>1, <2>2 DEF CallOK, BuildPC
<1>4. CASE SearchNextRow(p)
  BY <1>4 DEF SearchNextRow, CallsOK, CallOK, BuildPC
<1>5. CASE SearchMiss(p)
  <2>1. CASE op[p].op = "update"
    <3>1. op[p] \in Ops /\ op[p] # NoOp /\ Size[op[p].value] \in Nat \ {0}
      BY <1>5, Called, OpFacts DEF SearchMiss
    <3>2. /\ op'[p] = op[p] /\ mine'[p] = <<>> /\ found'[p] = NoNode
          /\ pc'[p] = "alloc"
      BY <1>5, <2>1 DEF SearchMiss, Goto, Shape, CallsOK, CallOK
    <3>. QED BY <2>1, <3>1, <3>2 DEF CallOK, BuildPC
  <2>. QED BY <1>5, <2>1, <1>2 DEF SearchMiss
<1>6. CASE AllocNode(p)
  <2>. DEFINE m == mine[p]
              n == Candidate(p)
  <2>1. /\ op[p] \in Ops /\ op[p] # NoOp /\ op[p].op \in {"insert", "update"}
        /\ Size[op[p].value] \in Nat \ {0} /\ Len(m) < Size[op[p].value]
        /\ op[p].op = "insert" => found[p] = NoNode
    BY <1>6, Called, OpFacts DEF AllocNode, CallsOK, CallOK, BuildPC
  <2>2. m \in Seq(Node) /\ n \in Node /\ n[1] = row[p]
    BY CandidateInNode DEF Shape, Candidate, NodeOfHash
  <2>3. /\ op'[p] = op[p] /\ mine'[p] = Append(m, n) /\ found'[p] = found[p]
        /\ pc'[p] = "count" /\ row'[p] = row[p]
    BY <1>6 DEF AllocNode, Goto, Shape
  <2>. HIDE DEF m, n
  <2>4. Len(Append(m, n)) = Len(m) + 1 /\ Append(m, n)[Len(m) + 1] = n
        /\ Len(m) \in Nat
    BY <2>2
  <2>. QED BY <2>1, <2>2, <2>3, <2>4 DEF CallOK, BuildPC
<1>7. CASE AllocNextRow(p)
  BY <1>7 DEF AllocNextRow, CallsOK, CallOK, BuildPC
<1>8. CASE AllocFail(p)
  <2>1. CASE mine[p] # <<>>
    <3>1. /\ op'[p] = op[p] /\ mine'[p] = mine[p] /\ found'[p] = found[p]
          /\ pc'[p] = "undo"
      BY <1>8, <2>1 DEF AllocFail, Goto, Shape
    <3>2. pc[p] = "alloc" /\ CallOK(p)
      BY <1>8 DEF AllocFail, CallsOK
    <3>. QED BY <2>1, <3>1, <3>2 DEF CallOK, BuildPC
  <2>. QED BY <1>8, <2>1, <1>2 DEF AllocFail
<1>9. CASE Count(p)
  <2>1. /\ op'[p] = op[p] /\ mine'[p] = mine[p] /\ found'[p] = found[p]
        /\ pc'[p] = IF Len(mine[p]) < Size[op[p].value] THEN "alloc" ELSE "fill"
    BY <1>9 DEF Count, Goto, Shape
  <2>2. pc[p] = "count" /\ CallOK(p) /\ Size[op[p].value] \in Nat
    BY <1>9, Called, OpFacts DEF Count, CallsOK
  <2>3. Len(mine[p]) \in 1..Size[op[p].value]
    BY <2>2 DEF CallOK
  <2>4. ~(Len(mine[p]) < Size[op[p].value]) => Len(mine[p]) = Size[op[p].value]
    BY <2>2, <2>3
  <2>. QED BY <2>1, <2>2, <2>4 DEF CallOK, BuildPC
<1>10. CASE Fill(p)
  <2>1. /\ op'[p] = op[p] /\ mine'[p] = mine[p] /\ found'[p] = found[p]
        /\ pc'[p] = "publish"
    BY <1>10 DEF Fill, Goto, Shape
  <2>2. pc[p] = "fill" /\ CallOK(p)
    BY <1>10 DEF Fill, CallsOK
  <2>. QED BY <2>1, <2>2 DEF CallOK, BuildPC
<1>11. CASE Publish(p)
  <2>1. CASE found[p] # NoNode
    <3>1. /\ op'[p] = op[p] /\ found'[p] = found[p] /\ pc'[p] = "unlink"
      BY <1>11, <2>1 DEF Publish, Goto, Shape
    <3>2. pc[p] = "publish" /\ CallOK(p) /\ found[p] \in Node
      BY <1>11, <2>1 DEF Publish, CallsOK, Shape
    <3>. QED BY <2>1, <3>1, <3>2 DEF CallOK, BuildPC
  <2>. QED BY <1>11, <2>1, <1>2 DEF Publish
<1>12. CASE Undo(p)
  <2>1. pc[p] = "undo" /\ CallOK(p) /\ mine[p] \in Seq(Node)
    BY <1>12 DEF Undo, CallsOK, Shape
  <2>2. mine[p] # <<>> /\ Head(mine[p]) \in Node
    BY <2>1 DEF CallOK
  <2>3. /\ op'[p] = op[p] /\ found'[p] = found[p] /\ pc'[p] = "undone"
        /\ spare'[p] \in Node
    BY <1>12, <2>2 DEF Undo, Goto, Shape
  <2>. QED BY <2>1, <2>3 DEF CallOK, BuildPC
<1>13. CASE Undone(p)
  <2>1. CASE mine[p] # <<>>
    <3>1. /\ op'[p] = op[p] /\ mine'[p] = mine[p] /\ found'[p] = found[p]
          /\ pc'[p] = "undo"
      BY <1>13, <2>1 DEF Undone, Goto, Shape
    <3>2. pc[p] = "undone" /\ CallOK(p)
      BY <1>13 DEF Undone, CallsOK
    <3>. QED BY <2>1, <3>1, <3>2 DEF CallOK, BuildPC
  <2>. QED BY <1>13, <2>1, <1>2 DEF Undone
<1>14. CASE Unlink(p)
  <2>1. pc[p] = "unlink" /\ CallOK(p) /\ found[p] \in Node
    BY <1>14 DEF Unlink, CallsOK, CallOK
  <2>2. op'[p] = op[p] /\ pc'[p] = "unlinked" /\ spare'[p] \in Node
    BY <1>14, <2>1 DEF Unlink, Goto, Shape
  <2>. QED BY <2>1, <2>2 DEF CallOK, BuildPC
<1>15. CASE Unlinked(p)
  <2>1. CASE found[p] # NoNode
    <3>1. /\ op'[p] = op[p] /\ found'[p] = found[p] /\ pc'[p] = "unlink"
      BY <1>15, <2>1 DEF Unlinked, Goto, Shape
    <3>2. pc[p] = "unlinked" /\ CallOK(p) /\ found[p] \in Node
      BY <1>15, <2>1 DEF Unlinked, CallsOK, Shape
    <3>. QED BY <2>1, <3>1, <3>2 DEF CallOK, BuildPC
  <2>. QED BY <1>15, <2>1, <1>2 DEF Unlinked
<1>16. CASE Read(p)
  <2>1. CASE NextNode(found[p], hashOf(p)) # NoNode
    <3>1. /\ op'[p] = op[p] /\ pc'[p] = pc[p] /\ mine'[p] = mine[p]
          /\ found'[p] \in Node
      BY <1>16, <2>1, NextNodeShape DEF Read, Shape
    <3>2. pc[p] = "read" /\ CallOK(p)
      BY <1>16 DEF Read, CallsOK
    <3>. QED BY <3>1, <3>2 DEF CallOK, BuildPC
  <2>. QED BY <1>16, <2>1, <1>2 DEF Read
<1>17. CASE Attach(p)
  <2>1. CASE ~Finish(p)
    BY <1>17, <2>1 DEF Attach, CallsOK, CallOK, BuildPC
  <2>. QED BY <2>1, <1>2
<1>18. CASE Crash(p)
  BY <1>18, <1>2 DEF Crash
<1>. QED BY <1>1, <1>3, <1>4, <1>5, <1>6, <1>7, <1>8, <1>9, <1>10, <1>11, <1>12,
            <1>13, <1>14, <1>15, <1>16, <1>17, <1>18 DEF Step

\* No step brings two calls together that the guide keeps apart.
LEMMA GuidedStep ==
    ASSUME Shape, CallsOK, NEW p \in Process, NEW q \in Process, p # q,
           (\E o \in Ops : Start(p, o)) \/ Step(p) \/ Crash(p)
    PROVE  Guided(p, q)' /\ Guided(q, p)'
<1>1. op'[q] = op[q] /\ pc'[q] = pc[q]
  BY OthersStay
<1>2. Guided(p, q) /\ Guided(q, p)
  BY DEF CallsOK
<1>3. CASE \E o \in Ops : Start(p, o)
  <2>1. PICK o \in Ops : Start(p, o)
    BY <1>3
  <2>2. op'[p] = o /\ MayStart(p, o)
    BY <2>1 DEF Start, Shape
  <2>. QED BY <1>1, <2>2 DEF MayStart, Guided, keyOf
<1>4. CASE Step(p) \/ Crash(p)
  <2>1. CASE op'[p] = op[p]
    <3>1. pc[p] = "idle" => pc'[p] = "idle"
      BY <2>1, <1>4, CallStep DEF CallsOK, CallOK
    <3>. QED BY <1>1, <1>2, <2>1, <3>1 DEF Guided, keyOf
  <2>2. CASE Finish(p)
    BY <2>2, FinishCall DEF Guided
  <2>. QED BY <1>4, <2>1, <2>2, CallStays
<1>. QED BY <1>3, <1>4

\* Every step keeps CallsOK.
LEMMA CallsStep ==
    ASSUME Shape, CallsOK, Next
    PROVE  CallsOK'
<1>1. CASE Clear
  BY <1>1 DEF Clear, locals, CallsOK, CallOK, Guided, keyOf
<1>2. ASSUME NEW p \in Process,
             (\E o \in Ops : Start(p, o)) \/ Step(p) \/ Crash(p)
      PROVE  CallsOK'
  <2>1. ASSUME NEW q \in Process PROVE CallOK(q)'
    <3>1. CASE q # p
      BY <1>2, <3>1, OthersStay DEF CallsOK, CallOK
    <3>. QED BY <1>2, <3>1, CallStep
  <2>2. ASSUME NEW q \in Process, NEW r \in Process, q # r
        PROVE  Guided(q, r)'
    <3>1. CASE q # p /\ r # p
      <4>1. op'[q] = op[q] /\ pc'[q] = pc[q] /\ op'[r] = op[r] /\ pc'[r] = pc[r]
        BY <1>2, <3>1, OthersStay
      <4>. QED BY <2>2, <4>1 DEF CallsOK, Guided, keyOf
    <3>. QED BY <1>2, <2>2, <3>1, GuidedStep
  <2>. QED BY <2>1, <2>2 DEF CallsOK
<1>. QED BY <1>1, <1>2 DEF Next

-----------------------------------------------------------------------------
(* NodesOK is preserved.                                                   *)

\* The step leaves node n as it is.
Same(n) == /\ flags'[n] = flags[n] /\ hash'[n] = hash[n]
           /\ next'[n] = next[n] /\ data'[n] = data[n]

\* What a link leads to.
LEMMA LinkFacts ==
    ASSUME Shape, NodesOK, NEW m \in Node, "next" \in flags[m]
    PROVE  /\ next[m] \in Node /\ "used" \in flags[next[m]]
           /\ "first" \notin flags[next[m]] /\ data[m].part \in Nat \ {0}
           /\ data[next[m]].part = data[m].part + 1
<1>1. data[m].part \in Nat /\ NodeOK(m)
  BY DEF Shape, NodesOK
<1>2. next[m] \in Node /\ data[next[m]].part = data[m].part + 1
      /\ "used" \in flags[next[m]] /\ data[m].part > 0
  BY <1>1 DEF NodeOK
<1>3. "first" \notin flags[next[m]]
  BY <1>1, <1>2 DEF NodesOK, NodeOK
<1>. QED BY <1>1, <1>2, <1>3

\* A node that a call has taken and not filled is linked to nothing.
LEMMA RawFacts ==
    ASSUME Shape, NodesOK, MinesOK, NEW p \in Process, pc[p] \in BuildPC,
           pc[p] # "publish", NEW i \in 1..Len(mine[p])
    PROVE  /\ mine[p][i] \in Node /\ "used" \in flags[mine[p][i]]
           /\ "first" \notin flags[mine[p][i]] /\ "next" \notin flags[mine[p][i]]
           /\ data[mine[p][i]].part = 0
           /\ \A m \in Node : "next" \in flags[m] => next[m] # mine[p][i]
<1>1. mine[p] \in Seq(Node) /\ mine[p][i] \in Node
  BY DEF Shape
<1>2. /\ "used" \in flags[mine[p][i]] /\ "first" \notin flags[mine[p][i]]
      /\ data[mine[p][i]].part = 0
  BY DEF MinesOK, MineOK
<1>3. "next" \notin flags[mine[p][i]]
  BY <1>1, <1>2 DEF NodesOK, NodeOK
<1>4. ASSUME NEW m \in Node, "next" \in flags[m] PROVE next[m] # mine[p][i]
  BY <1>2, <1>4, LinkFacts
<1>. QED BY <1>1, <1>2, <1>3, <1>4

\* A node that a writer frees: nothing leads to it.
LEMMA FreedFacts ==
    ASSUME Shape, CallsOK, NodesOK, FoundsOK, NEW p \in Process, pc[p] = "unlink"
    PROVE  /\ found[p] \in Node
           /\ FoundHead(p) \/ FoundRest(p)
           /\ op[p] \in Ops /\ op[p].op \in Writes
           /\ data[found[p]].part > 0
           /\ \A m \in Node : "next" \in flags[m] => next[m] # found[p]
<1>1. /\ found[p] \in Node /\ op[p] \in Ops /\ op[p] # NoOp
      /\ op[p].op \in {"update", "remove"}
  BY Called DEF CallsOK, CallOK
<1>2. FoundHead(p) \/ FoundRest(p)
  BY <1>1 DEF FoundsOK, FoundOK, Writes
<1>3. data[found[p]].part > 0
      /\ \A m \in Node : "next" \in flags[m] => next[m] # found[p]
  <2>1. CASE FoundHead(p)
    <3>1. data[found[p]].part = 1
      BY <1>1, <2>1 DEF FoundHead, NodesOK, NodeOK
    <3>2. ASSUME NEW m \in Node, "next" \in flags[m] PROVE next[m] # found[p]
      BY <3>1, <3>2, LinkFacts
    <3>. QED BY <3>1, <3>2
  <2>2. CASE FoundRest(p)
    <3>1. data[found[p]].part > 1 /\ data[found[p]].part \in Nat
      BY <1>1, <2>2 DEF FoundRest, Shape
    <3>. QED BY <2>2, <3>1 DEF FoundRest
  <2>. QED BY <1>2, <2>1, <2>2
<1>. QED BY <1>1, <1>2, <1>3 DEF Writes

\* The effect of freeing node n: it is empty, the others stay.
LEMMA FreeEffect ==
    ASSUME Shape, NEW n \in Node, Free(n)
    PROVE  /\ flags'[n] = {} /\ data'[n].part = 0
           /\ \A m \in Node : m # n => Same(m)
BY DEF Free, Shape, Same, NoData

\* Freeing a node that nothing leads to keeps NodesOK.
LEMMA FreeNodes ==
    ASSUME Shape, NodesOK, NEW n \in Node, Free(n),
           \A m \in Node : "next" \in flags[m] => next[m] # n
    PROVE  NodesOK'
<1>1. ASSUME NEW m \in Node PROVE NodeOK(m)'
  <2>1. CASE m = n
    BY <2>1, FreeEffect DEF NodeOK
  <2>2. CASE m # n
    <3>1. Same(m) /\ NodeOK(m)
      BY <2>2, FreeEffect DEF NodesOK
    <3>2. "next" \in flags[m] => next[m] \in Node /\ Same(next[m])
      BY FreeEffect, LinkFacts
    <3>. QED BY <3>1, <3>2 DEF NodeOK, Same
  <2>. QED BY <2>1, <2>2
<1>2. ASSUME NEW m \in Node, NEW k \in Node,
             "next" \in flags'[m], "next" \in flags'[k], next'[m] = next'[k]
      PROVE  m = k
  <2>1. m # n /\ k # n
    BY <1>2, FreeEffect
  <2>. QED BY <1>2, <2>1, FreeEffect DEF Same, NodesOK
<1>. QED BY <1>1, <1>2 DEF NodesOK

\* The effect of taking node n.
LEMMA AllocEffect ==
    ASSUME Shape, NodesOK, NEW p \in Process, AllocNode(p)
    PROVE  /\ Candidate(p) \in Node /\ flags[Candidate(p)] = {}
           /\ flags'[Candidate(p)] = {"used"} /\ data'[Candidate(p)].part = 0
           /\ \A m \in Node : m # Candidate(p) => Same(m)
           /\ data' = data
<1>. DEFINE n == Candidate(p)
<1>1. n \in Node
  BY CandidateInNode
<1>. HIDE DEF n
<1>2. /\ flags[n] = {} /\ data' = data /\ flags' = [flags EXCEPT ![n] = {"used"}]
      /\ hash' = [hash EXCEPT ![n] = 0] /\ next' = [next EXCEPT ![n] = NoNode]
  BY DEF AllocNode, n
<1>3. data[n].part = 0
  BY <1>1, <1>2 DEF NodesOK, NodeOK
<1>. QED BY <1>1, <1>2, <1>3 DEF Shape, Same, n

\* Taking a node keeps NodesOK.
LEMMA AllocNodes ==
    ASSUME Shape, NodesOK, NEW p \in Process, AllocNode(p)
    PROVE  NodesOK'
<1>. DEFINE n == Candidate(p)
<1>1. /\ n \in Node /\ flags[n] = {} /\ flags'[n] = {"used"} /\ data'[n].part = 0
      /\ \A m \in Node : m # n => Same(m)
  BY AllocEffect
<1>. HIDE DEF n
<1>2. ASSUME NEW m \in Node PROVE NodeOK(m)'
  <2>1. CASE m = n
    BY <2>1, <1>1 DEF NodeOK
  <2>2. CASE m # n
    <3>1. Same(m) /\ NodeOK(m)
      BY <2>2, <1>1 DEF NodesOK
    <3>2. "next" \in flags[m] => next[m] \in Node /\ Same(next[m])
      BY <1>1, LinkFacts
    <3>. QED BY <3>1, <3>2 DEF NodeOK, Same
  <2>. QED BY <2>1, <2>2
<1>3. ASSUME NEW m \in Node, NEW k \in Node,
             "next" \in flags'[m], "next" \in flags'[k], next'[m] = next'[k]
      PROVE  m = k
  <2>1. m # n /\ k # n
    BY <1>1, <1>3
  <2>. QED BY <1>1, <1>3, <2>1 DEF Same, NodesOK
<1>. QED BY <1>2, <1>3 DEF NodesOK

\* A chain that Fill has written: node i is used, not first, holds part i of
\* the value and leads to node i + 1.
LEMMA FillNode ==
    ASSUME Shape, CallsOK, NodesOK, MinesOK, NEW p \in Process, Fill(p),
           NEW i \in 1..Len(mine[p]), NEW n \in Node, n = mine[p][i]
    PROVE  /\ NodeOK(n)' /\ "used" \in flags'[n]
           /\ "first" \notin flags'[n] /\ data'[n].part = i
           /\ "next" \in flags'[n] => /\ i < Len(mine[p])
                                     /\ next'[n] = mine[p][i + 1]
           /\ i < Len(mine[p]) => "next" \in flags'[n]
<1>. DEFINE m == mine[p]
<1>. HIDE DEF m
<1>1. /\ Len(m) = Size[op[p].value] /\ Len(m) \in Nat \ {0} /\ op[p] \in Ops
      /\ op[p].value \in Value /\ i \in 1..Len(m)
  BY FillEffect, OpFacts DEF m
<1>2. \A j \in 1..Len(m) : Joined(p, j)
  BY FillEffect DEF m
<1>3. \A j \in 1..Len(m) : /\ m[j] \in Node /\ "used" \in flags[m[j]]
                           /\ "first" \notin flags[m[j]]
                           /\ "next" \notin flags[m[j]]
  BY RawFacts DEF Fill, BuildPC, m
<1>4. /\ data'[n] = [key |-> IF i = 1 THEN keyOf(p) ELSE None,
                     value |-> op[p].value, part |-> i]
      /\ hash'[n] = hashOf(p)
      /\ i < Len(m) => /\ next'[n] = m[i + 1]
                       /\ flags'[n] = flags[n] \cup {"next"}
      /\ i = Len(m) => flags'[n] = flags[n]
  BY <1>2 DEF Joined, m
<1>5. /\ "used" \in flags'[n] /\ "first" \notin flags'[n] /\ data'[n].part = i
      /\ "next" \in flags'[n] <=> i < Len(m)
  BY <1>1, <1>3, <1>4 DEF m
<1>6. ASSUME i < Len(m)
      PROVE  /\ m[i + 1] \in Node /\ "used" \in flags'[m[i + 1]]
             /\ hash'[m[i + 1]] = hash'[n]
             /\ data'[m[i + 1]].value = data'[n].value
             /\ data'[m[i + 1]].part = i + 1
  <2>1. i + 1 \in 1..Len(m) /\ (i + 1 < Len(m) \/ i + 1 = Len(m)) /\ i + 1 # 1
    BY <1>1, <1>6
  <2>2. Joined(p, i + 1)
    BY <1>2, <2>1
  <2>3. /\ data'[m[i + 1]] = [key |-> None, value |-> op[p].value, part |-> i + 1]
        /\ hash'[m[i + 1]] = hashOf(p)
        /\ \/ flags'[m[i + 1]] = flags[m[i + 1]] \cup {"next"}
           \/ flags'[m[i + 1]] = flags[m[i + 1]]
    BY <2>1, <2>2 DEF Joined, m
  <2>. QED BY <1>3, <1>4, <2>1, <2>3
<1>7. NodeOK(n)'
  <2>1. data'[n].value = op[p].value /\ data'[n].part = i
    BY <1>4
  <2>2. i <= Size[op[p].value] /\ (i < Size[op[p].value] <=> "next" \in flags'[n])
    BY <1>1, <1>5
  <2>3. "next" \in flags'[n] => /\ next'[n] = m[i + 1] /\ next'[n] \in Node
                               /\ "used" \in flags'[next'[n]]
                               /\ hash'[next'[n]] = hash'[n]
                               /\ data'[next'[n]].value = data'[n].value
                               /\ data'[next'[n]].part = i + 1
    BY <1>4, <1>5, <1>6
  <2>. QED BY <1>1, <1>5, <2>1, <2>2, <2>3 DEF NodeOK
<1>. QED BY <1>1, <1>4, <1>5, <1>7 DEF m

\* Writing a value keeps NodesOK.
LEMMA FillNodes ==
    ASSUME Shape, CallsOK, NodesOK, MinesOK, NEW p \in Process, Fill(p)
    PROVE  NodesOK'
<1>. DEFINE m == mine[p]
            Other(n) == n \in Node /\ \A i \in 1..Len(m) : n # m[i]
<1>1. \A n \in Node : Other(n) => Same(n)
  BY FillEffect DEF Same
<1>2. ASSUME NEW n, Other(n), "next" \in flags[n] PROVE Other(next[n])
  <2>1. next[n] \in Node
    BY <1>2, LinkFacts
  <2>2. ASSUME NEW i \in 1..Len(m) PROVE next[n] # m[i]
    BY <1>2, RawFacts DEF Fill, BuildPC
  <2>. QED BY <2>1, <2>2
<1>3. \A i, j \in 1..Len(m) : m[i] = m[j] => i = j
  BY DEF Fill, MinesOK, MineOK, BuildPC
<1>4. m \in Seq(Node) /\ Len(m) \in Nat
  BY DEF Shape
<1>5. ASSUME NEW n \in Node PROVE NodeOK(n)'
  <2>1. CASE Other(n)
    <3>1. Same(n) /\ NodeOK(n)
      BY <2>1, <1>1 DEF NodesOK
    <3>2. "next" \in flags[n] => next[n] \in Node /\ Same(next[n])
      BY <2>1, <1>1, <1>2
    <3>. QED BY <3>1, <3>2 DEF NodeOK, Same
  <2>2. CASE ~Other(n)
    <3>1. PICK i \in 1..Len(m) : n = m[i]
      BY <2>2
    <3>. QED BY <3>1, FillNode
  <2>. QED BY <2>1, <2>2
<1>6. ASSUME NEW n, Other(n), "next" \in flags'[n]
      PROVE  "next" \in flags[n] /\ next'[n] = next[n] /\ Other(next'[n])
  BY <1>6, <1>1, <1>2 DEF Same
<1>7. ASSUME NEW i \in 1..Len(m), "next" \in flags'[m[i]]
      PROVE  i + 1 \in 1..Len(m) /\ next'[m[i]] = m[i + 1]
  BY <1>4, <1>7, FillNode
<1>8. ASSUME NEW n \in Node, NEW k \in Node,
             "next" \in flags'[n], "next" \in flags'[k], next'[n] = next'[k]
      PROVE  n = k
  <2>1. CASE Other(n) /\ Other(k)
    BY <1>6, <1>8, <2>1 DEF NodesOK
  <2>2. CASE Other(n) /\ ~Other(k)
    <3>1. PICK i \in 1..Len(m) : k = m[i]
      BY <2>2
    <3>. QED BY <1>6, <1>7, <1>8, <2>2, <3>1
  <2>3. CASE ~Other(n) /\ Other(k)
    <3>1. PICK i \in 1..Len(m) : n = m[i]
      BY <2>3
    <3>. QED BY <1>6, <1>7, <1>8, <2>3, <3>1
  <2>4. CASE ~Other(n) /\ ~Other(k)
    <3>1. PICK i \in 1..Len(m) : n = m[i]
      BY <2>4
    <3>2. PICK j \in 1..Len(m) : k = m[j]
      BY <2>4
    <3>3. i + 1 = j + 1
      BY <1>3, <1>7, <1>8, <3>1, <3>2
    <3>. QED BY <3>1, <3>2, <3>3
  <2>. QED BY <2>1, <2>2, <2>3, <2>4
<1>. QED BY <1>5, <1>8 DEF NodesOK

\* The effect of making a value visible.
LEMMA PublishEffect ==
    ASSUME Shape, CallsOK, MinesOK, NEW p \in Process, Publish(p)
    PROVE  /\ Len(mine[p]) \in Nat \ {0} /\ 1 \in 1..Len(mine[p])
           /\ mine[p][1] \in Node
           /\ flags'[mine[p][1]] = flags[mine[p][1]] \cup {"first"}
           /\ "used" \in flags[mine[p][1]] /\ data[mine[p][1]].part = 1
           /\ \A m \in Node : m # mine[p][1] => flags'[m] = flags[m]
           /\ hash' = hash /\ next' = next /\ data' = data
<1>1. pc[p] = "publish" /\ mine[p] \in Seq(Node) /\ op[p] \in Ops
  BY Called DEF Publish, Shape
<1>2. Len(mine[p]) \in Nat \ {0} /\ 1 \in 1..Len(mine[p])
  BY <1>1, OpFacts DEF CallsOK, CallOK
<1>3. "used" \in flags[mine[p][1]] /\ data[mine[p][1]].part = 1
  BY <1>1, <1>2 DEF MinesOK, MineOK, BuildPC
<1>4. mine[p][1] \in Node
  BY <1>1, <1>2
<1>. QED BY <1>2, <1>3, <1>4 DEF Publish, Shape

\* Making a value visible keeps NodesOK.
LEMMA PublishNodes ==
    ASSUME Shape, CallsOK, NodesOK, MinesOK, NEW p \in Process, Publish(p)
    PROVE  NodesOK'
<1>. DEFINE n == mine[p][1]
<1>1. /\ n \in Node /\ flags'[n] = flags[n] \cup {"first"}
      /\ "used" \in flags[n] /\ data[n].part = 1
      /\ \A m \in Node : m # n => flags'[m] = flags[m]
      /\ hash' = hash /\ next' = next /\ data' = data
  BY PublishEffect
<1>. HIDE DEF n
<1>2. \A m \in Node : /\ flags[m] \subseteq flags'[m] /\ (flags'[m] = {} <=> flags[m] = {})
                      /\ "next" \in flags'[m] <=> "next" \in flags[m]
                      /\ "first" \in flags'[m] => "first" \in flags[m] \/ m = n
  BY <1>1
<1>3. ASSUME NEW m \in Node PROVE NodeOK(m)'
  <2>1. NodeOK(m) /\ ("next" \in flags[m] => next[m] \in Node)
    BY LinkFacts DEF NodesOK
  <2>. QED BY <1>1, <1>2, <2>1 DEF NodeOK
<1>. QED BY <1>1, <1>2, <1>3 DEF NodesOK

\* The steps that do not write nodes.
Quiet(p) == \/ \E o \in Ops : Start(p, o)
            \/ SearchHit(p) \/ SearchNextRow(p) \/ SearchMiss(p)
            \/ AllocNextRow(p) \/ AllocFail(p) \/ Count(p)
            \/ Undone(p) \/ Unlinked(p) \/ Read(p) \/ Attach(p) \/ Crash(p)

\* Such a step leaves every node as it is.
LEMMA QuietEffect ==
    ASSUME NEW p \in Process, Quiet(p)
    PROVE  flags' = flags /\ hash' = hash /\ next' = next /\ data' = data
BY DEF Quiet, Start, SearchHit, SearchNextRow, SearchMiss, AllocNextRow, AllocFail,
       Count, Undone, Unlinked, Read, Attach, Crash, shared

\* Every step keeps NodesOK.
LEMMA NodesStep ==
    ASSUME IInv, Next
    PROVE  NodesOK'
<1>. Shape /\ CallsOK /\ NodesOK /\ MinesOK /\ FoundsOK
  BY DEF IInv
<1>1. CASE Clear
  BY <1>1 DEF Clear, NodesOK, NodeOK, NoData
<1>2. ASSUME NEW p \in Process, Quiet(p) PROVE NodesOK'
  BY <1>2, QuietEffect DEF NodesOK, NodeOK
<1>3. ASSUME NEW p \in Process, Undo(p) PROVE NodesOK'
  <2>1. pc[p] = "undo" /\ Free(Head(mine[p])) /\ mine[p] # <<>> /\ mine[p] \in Seq(Node)
    BY <1>3 DEF Undo, CallsOK, CallOK, Shape
  <2>2. Head(mine[p]) = mine[p][1] /\ 1 \in 1..Len(mine[p])
    BY <2>1
  <2>3. /\ Head(mine[p]) \in Node
        /\ \A m \in Node : "next" \in flags[m] => next[m] # Head(mine[p])
    BY <2>1, <2>2, RawFacts DEF BuildPC
  <2>. QED BY <2>1, <2>3, FreeNodes
<1>4. ASSUME NEW p \in Process, Unlink(p) PROVE NodesOK'
  <2>1. pc[p] = "unlink" /\ Free(found[p])
    BY <1>4 DEF Unlink
  <2>2. /\ found[p] \in Node
        /\ \A m \in Node : "next" \in flags[m] => next[m] # found[p]
    BY <2>1, FreedFacts
  <2>. QED BY <2>1, <2>2, FreeNodes
<1>. QED BY <1>1, <1>2, <1>3, <1>4, AllocNodes, FillNodes, PublishNodes
         DEF Next, Step, Quiet

-----------------------------------------------------------------------------
(* MinesOK is preserved.                                                   *)

\* Node n is one of those that process q has taken.
Has(q, n) == pc[q] \in BuildPC /\ \E i \in 1..Len(mine[q]) : n = mine[q][i]

\* A step of p that leaves the nodes of the others alone, and takes none of
\* theirs, keeps MinesOK if p keeps its part of it.
LEMMA MinesFrame ==
    ASSUME Shape, MinesOK, NEW p \in Process,
           \A q \in Process : q # p => pc'[q] = pc[q] /\ mine'[q] = mine[q],
           \A q \in Process, n \in Node : q # p /\ Has(q, n) => Same(n),
           MineOK(p)',
           \A q \in Process, n \in Node : q # p /\ Has(p, n)' => ~Has(q, n)
    PROVE  MinesOK'
<1>1. ASSUME NEW q \in Process, q # p, pc[q] \in BuildPC, NEW i \in 1..Len(mine[q])
      PROVE  mine[q][i] \in Node /\ Has(q, mine[q][i]) /\ Same(mine[q][i])
  <2>1. mine[q] \in Seq(Node) /\ mine[q][i] \in Node
    BY DEF Shape
  <2>2. Has(q, mine[q][i])
    BY <1>1 DEF Has
  <2>. QED BY <1>1, <2>1, <2>2
<1>2. ASSUME NEW q \in Process PROVE MineOK(q)'
  <2>1. CASE q # p
    <3>1. MineOK(q) /\ pc'[q] = pc[q] /\ mine'[q] = mine[q]
      BY <2>1 DEF MinesOK
    <3>. QED BY <1>1, <2>1, <3>1 DEF MineOK, Same, BuildPC
  <2>. QED BY <2>1
<1>3. ASSUME NEW q \in Process, NEW r \in Process, q # r,
             pc'[q] \in BuildPC, pc'[r] \in BuildPC,
             NEW i \in 1..Len(mine'[q]), NEW j \in 1..Len(mine'[r])
      PROVE  mine'[q][i] # mine'[r][j]
  <2>1. CASE q # p /\ r # p
    BY <1>3, <2>1 DEF MinesOK
  <2>2. CASE q = p
    <3>1. r # p /\ pc[r] \in BuildPC /\ mine'[r] = mine[r]
      BY <1>3, <2>2
    <3>2. mine[r][j] \in Node /\ Has(r, mine[r][j])
      BY <1>1, <1>3, <3>1
    <3>3. mine'[q][i] = mine[r][j] => Has(p, mine[r][j])'
      BY <1>3, <2>2, <3>1 DEF Has
    <3>. QED BY <3>1, <3>2, <3>3
  <2>3. CASE r = p
    <3>1. q # p /\ pc[q] \in BuildPC /\ mine'[q] = mine[q]
      BY <1>3, <2>3
    <3>2. mine[q][i] \in Node /\ Has(q, mine[q][i])
      BY <1>1, <1>3, <3>1
    <3>3. mine'[r][j] = mine[q][i] => Has(p, mine[q][i])'
      BY <1>3, <2>3, <3>1 DEF Has
    <3>. QED BY <3>1, <3>2, <3>3
  <2>. QED BY <2>1, <2>2, <2>3
<1>. QED BY <1>2, <1>3 DEF MinesOK

\* No node is taken by two calls.
LEMMA HasOne ==
    ASSUME MinesOK, NEW p \in Process, NEW q \in Process, p # q, NEW n, Has(p, n)
    PROVE  ~Has(q, n)
BY DEF Has, MinesOK

\* A taken node is used and not first, and raw until the call has filled it.
LEMMA HasFacts ==
    ASSUME Shape, MinesOK, NEW p \in Process, NEW n, Has(p, n)
    PROVE  /\ n \in Node /\ "used" \in flags[n] /\ "first" \notin flags[n]
           /\ pc[p] # "publish" => data[n].part = 0
<1>1. PICK i \in 1..Len(mine[p]) : n = mine[p][i]
  BY DEF Has
<1>2. mine[p] \in Seq(Node) /\ n \in Node
  BY <1>1 DEF Shape
<1>. QED BY <1>1, <1>2 DEF Has, MinesOK, MineOK

\* A step that does not write nodes takes none either.
LEMMA QuietMine ==
    ASSUME Shape, CallsOK, NEW p \in Process, Quiet(p), pc'[p] \in BuildPC
    PROVE  /\ pc'[p] # "publish"
           /\ \/ mine'[p] = <<>>
              \/ pc[p] \in BuildPC /\ pc[p] # "publish" /\ mine'[p] = mine[p]
<1>1. CASE \E o \in Ops : Start(p, o)
  <2>1. PICK o \in Ops : Start(p, o)
    BY <1>1
  <2>2. mine'[p] = <<>>
    BY <2>1 DEF Start, CallsOK, CallOK
  <2>3. pc'[p] \in {"alloc", "attach", "search"}
    BY <2>1 DEF Start, Goto, Shape
  <2>. QED BY <2>2, <2>3
<1>2. CASE Finish(p)
  BY <1>2, FinishCall DEF BuildPC
<1>3. CASE SearchHit(p) \/ SearchNextRow(p) \/ SearchMiss(p)
  <2>1. mine'[p] = <<>>
    BY <1>2, <1>3 DEF SearchHit, SearchNextRow, SearchMiss, CallsOK, CallOK
  <2>2. pc'[p] # "publish"
    BY <1>2, <1>3 DEF SearchHit, SearchNextRow, SearchMiss, Goto, Shape
  <2>. QED BY <2>1, <2>2
<1>4. CASE AllocNextRow(p) \/ AllocFail(p) \/ Count(p) \/ Undone(p)
  BY <1>2, <1>4 DEF AllocNextRow, AllocFail, Count, Undone, Goto, Shape, BuildPC
<1>5. CASE Unlinked(p) \/ Read(p) \/ Attach(p) \/ Crash(p)
  BY <1>2, <1>5 DEF Unlinked, Read, Attach, Crash, Goto, Shape, BuildPC
<1>. QED BY <1>1, <1>3, <1>4, <1>5 DEF Quiet

\* MinesOK: a step that does not write nodes.
LEMMA QuietMines ==
    ASSUME Shape, CallsOK, MinesOK, NEW p \in Process, Quiet(p)
    PROVE  MinesOK'
<1>1. \A n \in Node : Same(n)
  BY QuietEffect DEF Same
<1>2. \A q \in Process : q # p => pc'[q] = pc[q] /\ mine'[q] = mine[q]
  BY OthersStay DEF Quiet, Step
<1>3. MineOK(p)'
  <2>1. CASE pc'[p] \notin BuildPC
    BY <2>1 DEF MineOK, BuildPC
  <2>2. CASE pc'[p] \in BuildPC /\ mine'[p] = <<>>
    BY <2>2, QuietMine DEF MineOK
  <2>3. CASE pc'[p] \in BuildPC /\ mine'[p] # <<>>
    <3>1. /\ pc'[p] # "publish" /\ mine'[p] = mine[p]
          /\ pc[p] \in BuildPC /\ pc[p] # "publish"
      BY <2>3, QuietMine
    <3>2. flags' = flags /\ data' = data
      BY QuietEffect
    <3>. QED BY <3>1, <3>2 DEF MinesOK, MineOK
  <2>. QED BY <2>1, <2>2, <2>3
<1>4. ASSUME NEW n, Has(p, n)' PROVE Has(p, n)
  BY <1>4, QuietMine DEF Has
<1>. QED BY <1>1, <1>2, <1>3, <1>4, HasOne, MinesFrame

\* MinesOK: a new node is nobody else's, because it was free.
LEMMA AllocMines ==
    ASSUME Shape, CallsOK, NodesOK, MinesOK, NEW p \in Process, AllocNode(p)
    PROVE  MinesOK'
<1>. DEFINE n == Candidate(p)
            m == mine[p]
<1>1. /\ n \in Node /\ flags[n] = {} /\ flags'[n] = {"used"} /\ data'[n].part = 0
      /\ \A k \in Node : k # n => Same(k)
  BY AllocEffect
<1>2. /\ m \in Seq(Node) /\ Len(m) \in Nat /\ mine'[p] = Append(m, n)
      /\ pc[p] = "alloc" /\ pc'[p] = "count"
  BY DEF AllocNode, Goto, Shape
<1>. HIDE DEF n, m
<1>3. /\ Len(Append(m, n)) = Len(m) + 1 /\ Append(m, n)[Len(m) + 1] = n
      /\ \A i \in 1..Len(m) : Append(m, n)[i] = m[i]
  BY <1>1, <1>2
<1>4. \A q \in Process : q # p => pc'[q] = pc[q] /\ mine'[q] = mine[q]
  BY OthersStay DEF Step
<1>5. ASSUME NEW q \in Process, NEW k, Has(q, k) PROVE k # n /\ k \in Node /\ Same(k)
  BY <1>1, <1>5, HasFacts
<1>6. ASSUME NEW i \in 1..(Len(m) + 1)
      PROVE  \/ i \in 1..Len(m) /\ mine'[p][i] = m[i] /\ Has(p, m[i])
             \/ i = Len(m) + 1 /\ mine'[p][i] = n
  <2>1. i \in 1..Len(m) \/ i = Len(m) + 1
    BY <1>2
  <2>. QED BY <2>1, <1>2, <1>3 DEF Has, BuildPC, m
<1>7. MineOK(p)'
  <2>1. ASSUME NEW i \in 1..(Len(m) + 1)
        PROVE  /\ "used" \in flags'[mine'[p][i]] /\ "first" \notin flags'[mine'[p][i]]
               /\ data'[mine'[p][i]].part = 0
    <3>1. CASE i = Len(m) + 1 /\ mine'[p][i] = n
      BY <1>1, <3>1
    <3>2. CASE i \in 1..Len(m) /\ mine'[p][i] = m[i] /\ Has(p, m[i])
      BY <1>2, <1>5, <3>2, HasFacts DEF Same
    <3>. QED BY <1>6, <3>1, <3>2
  <2>2. ASSUME NEW i \in 1..(Len(m) + 1), NEW j \in 1..(Len(m) + 1),
               mine'[p][i] = mine'[p][j]
        PROVE  i = j
    <3>1. CASE i \in 1..Len(m) /\ j \in 1..Len(m)
      BY <1>2, <1>3, <2>2, <3>1 DEF MinesOK, MineOK, BuildPC, m
    <3>2. CASE i = Len(m) + 1 \/ j = Len(m) + 1
      BY <1>2, <1>5, <1>6, <2>2, <3>2
    <3>. QED BY <1>6, <3>1, <3>2
  <2>. QED BY <1>2, <1>3, <2>1, <2>2 DEF MineOK
<1>8. ASSUME NEW k, Has(p, k)' PROVE Has(p, k) \/ k = n
  <2>1. PICK i \in 1..(Len(m) + 1) : k = mine'[p][i]
    BY <1>2, <1>3, <1>8 DEF Has
  <2>. QED BY <2>1, <1>6
<1>. QED BY <1>4, <1>5, <1>7, <1>8, HasOne, MinesFrame

\* MinesOK: the taken nodes become a chain.
LEMMA FillMines ==
    ASSUME Shape, CallsOK, NodesOK, MinesOK, NEW p \in Process, Fill(p)
    PROVE  MinesOK'
<1>. DEFINE m == mine[p]
<1>1. /\ m \in Seq(Node) /\ Len(m) \in Nat /\ mine' = mine
      /\ pc[p] = "fill" /\ pc'[p] = "publish"
  BY DEF Fill, Goto, Shape
<1>2. \A q \in Process : q # p => pc'[q] = pc[q] /\ mine'[q] = mine[q]
  BY OthersStay DEF Step
<1>3. ASSUME NEW n, Has(p, n)' PROVE Has(p, n)
  BY <1>1, <1>3 DEF Has, BuildPC
<1>4. ASSUME NEW q \in Process, NEW n \in Node, q # p, Has(q, n) PROVE Same(n)
  <2>1. ~Has(p, n)
    BY <1>4, HasOne
  <2>. QED BY <1>1, <2>1, FillEffect DEF Same, Has, BuildPC
<1>5. \A i, j \in 1..Len(m) : m[i] = m[j] => i = j
  BY <1>1 DEF MinesOK, MineOK, BuildPC
<1>6. ASSUME NEW i \in 1..Len(m)
      PROVE  /\ "used" \in flags'[m[i]] /\ "first" \notin flags'[m[i]]
             /\ data'[m[i]].part = i
             /\ i < Len(m) => "next" \in flags'[m[i]] /\ next'[m[i]] = m[i + 1]
  <2>1. m[i] \in Node
    BY <1>1
  <2>. QED BY <2>1, FillNode
<1>7. MineOK(p)'
  <2>1. pc'[p] = "publish" /\ mine'[p] = m
    BY <1>1
  <2>. HIDE DEF m
  <2>. QED BY <2>1, <1>5, <1>6 DEF MineOK
<1>. QED BY <1>2, <1>3, <1>4, <1>7, HasOne, MinesFrame

\* MinesOK: the visible chain is in the hands of the call no more.
LEMMA PublishMines ==
    ASSUME Shape, CallsOK, MinesOK, NEW p \in Process, Publish(p)
    PROVE  MinesOK'
<1>1. /\ mine[p][1] \in Node /\ 1 \in 1..Len(mine[p]) /\ pc[p] = "publish"
      /\ \A n \in Node : n # mine[p][1] => Same(n)
  BY PublishEffect DEF Publish, Same
<1>2. Has(p, mine[p][1])
  BY <1>1 DEF Has, BuildPC
<1>3. \A q \in Process : q # p => pc'[q] = pc[q] /\ mine'[q] = mine[q]
  BY OthersStay DEF Step
<1>4. pc'[p] \in {"idle", "unlink"}
  BY DEF Publish, Finish, Goto, Shape
<1>5. MineOK(p)'
  BY <1>4 DEF MineOK, BuildPC
<1>6. ASSUME NEW q \in Process, NEW n \in Node, q # p, Has(q, n) PROVE Same(n)
  BY <1>1, <1>2, <1>6, HasOne
<1>7. \A n : ~Has(p, n)'
  BY <1>4 DEF Has, BuildPC
<1>. QED BY <1>3, <1>5, <1>6, <1>7, MinesFrame

\* MinesOK: the node given back is in the hands of the call no more.
LEMMA UndoMines ==
    ASSUME Shape, CallsOK, NodesOK, MinesOK, NEW p \in Process, Undo(p)
    PROVE  MinesOK'
<1>. DEFINE m == mine[p]
            n == Head(m)
<1>1. /\ m \in Seq(Node) /\ m # <<>> /\ Free(n) /\ mine'[p] = Tail(m)
      /\ pc[p] = "undo" /\ pc'[p] = "undone"
  BY DEF Undo, Goto, Shape, CallsOK, CallOK
<1>2. /\ n \in Node /\ 1 \in 1..Len(m) /\ n = m[1] /\ Len(m) \in Nat
      /\ Len(Tail(m)) = Len(m) - 1
      /\ \A i \in 1..(Len(m) - 1) : Tail(m)[i] = m[i + 1] /\ i + 1 \in 1..Len(m)
  BY <1>1
<1>. HIDE DEF n
<1>3. \A k \in Node : k # n => Same(k)
  BY <1>1, <1>2, FreeEffect
<1>4. \A q \in Process : q # p => pc'[q] = pc[q] /\ mine'[q] = mine[q]
  BY OthersStay DEF Step
<1>5. Has(p, n)
  BY <1>1, <1>2 DEF Has, BuildPC
<1>6. ASSUME NEW q \in Process, NEW k \in Node, q # p, Has(q, k) PROVE Same(k)
  BY <1>3, <1>5, <1>6, HasOne
<1>7. \A i, j \in 1..Len(m) : m[i] = m[j] => i = j
  BY <1>1 DEF MinesOK, MineOK, BuildPC
<1>8. ASSUME NEW i \in 1..(Len(m) - 1)
      PROVE  /\ mine'[p][i] = m[i + 1] /\ Same(m[i + 1]) /\ Has(p, m[i + 1])
  <2>1. i + 1 \in 1..Len(m) /\ i + 1 # 1 /\ mine'[p][i] = m[i + 1]
    BY <1>1, <1>2
  <2>2. m[i + 1] \in Node /\ m[i + 1] # n
    BY <1>1, <1>2, <1>7, <2>1
  <2>3. Has(p, m[i + 1])
    BY <1>1, <2>1 DEF Has, BuildPC
  <2>. QED BY <1>3, <2>1, <2>2, <2>3
<1>9. MineOK(p)'
  <2>1. ASSUME NEW i \in 1..(Len(m) - 1)
        PROVE  /\ "used" \in flags'[mine'[p][i]] /\ "first" \notin flags'[mine'[p][i]]
               /\ data'[mine'[p][i]].part = 0
    BY <1>1, <1>8, HasFacts DEF Same
  <2>2. ASSUME NEW i \in 1..(Len(m) - 1), NEW j \in 1..(Len(m) - 1),
               mine'[p][i] = mine'[p][j]
        PROVE  i = j
    <3>1. m[i + 1] = m[j + 1] /\ i + 1 \in 1..Len(m) /\ j + 1 \in 1..Len(m)
      BY <1>2, <1>8, <2>2
    <3>2. i + 1 = j + 1
      BY <1>7, <3>1
    <3>. QED BY <3>2
  <2>. QED BY <1>1, <1>2, <2>1, <2>2 DEF MineOK
<1>10. ASSUME NEW k, Has(p, k)' PROVE Has(p, k)
  <2>1. PICK i \in 1..(Len(m) - 1) : k = mine'[p][i]
    BY <1>1, <1>2, <1>10 DEF Has
  <2>. QED BY <2>1, <1>8
<1>. QED BY <1>4, <1>6, <1>9, <1>10, HasOne, MinesFrame

\* No call holds a node that a writer frees: a head is not taken any more, and
\* in a chain that is not visible only the first part has nothing before it.
LEMMA FreedFree ==
    ASSUME IInv, NEW p \in Process, pc[p] = "unlink", NEW q \in Process
    PROVE  ~Has(q, found[p])
<1>. Shape /\ CallsOK /\ NodesOK /\ MinesOK /\ FoundsOK
  BY DEF IInv
<1>. DEFINE n == found[p]
<1>1. /\ FoundHead(p) \/ FoundRest(p)
      /\ data[n].part > 0
      /\ \A m \in Node : "next" \in flags[m] => next[m] # n
  BY FreedFacts
<1>. SUFFICES ASSUME Has(q, n) PROVE FALSE
  OBVIOUS
<1>2. "first" \notin flags[n] /\ pc[q] = "publish" /\ n \in Node
  BY <1>1, HasFacts
<1>3. data[n].part > 1
  BY <1>1, <1>2 DEF FoundHead, FoundRest
<1>4. PICK i \in 1..Len(mine[q]) : n = mine[q][i]
  BY DEF Has
<1>5. data[n].part = i /\ mine[q] \in Seq(Node)
  BY <1>2, <1>4 DEF MinesOK, MineOK, Shape
<1>6. i - 1 \in 1..Len(mine[q]) /\ i - 1 < Len(mine[q]) /\ (i - 1) + 1 = i
  BY <1>3, <1>4, <1>5
<1>7. /\ "next" \in flags[mine[q][i - 1]]
      /\ next[mine[q][i - 1]] = mine[q][(i - 1) + 1]
  BY <1>2, <1>6 DEF MinesOK, MineOK
<1>8. mine[q][i - 1] \in Node
  BY <1>5, <1>6
<1>. QED BY <1>1, <1>4, <1>6, <1>7, <1>8

\* MinesOK: the freed node is in the hands of no call.
LEMMA UnlinkMines ==
    ASSUME IInv, NEW p \in Process, Unlink(p)
    PROVE  MinesOK'
<1>. Shape /\ CallsOK /\ NodesOK /\ MinesOK /\ FoundsOK
  BY DEF IInv
<1>1. /\ pc[p] = "unlink" /\ pc'[p] = "unlinked" /\ Free(found[p])
      /\ found[p] \in Node
  BY DEF Unlink, Goto, Shape, CallsOK, CallOK
<1>2. \A q \in Process : q # p => pc'[q] = pc[q] /\ mine'[q] = mine[q]
  BY OthersStay DEF Step
<1>3. MineOK(p)' /\ \A n : ~Has(p, n)'
  BY <1>1 DEF MineOK, Has, BuildPC
<1>4. ASSUME NEW q \in Process, NEW n \in Node, q # p, Has(q, n) PROVE Same(n)
  BY <1>1, <1>4, FreedFree, FreeEffect
<1>. QED BY <1>2, <1>3, <1>4, MinesFrame

\* Every step keeps MinesOK.
LEMMA MinesStep ==
    ASSUME IInv, Next
    PROVE  MinesOK'
<1>. Shape /\ CallsOK /\ NodesOK /\ MinesOK /\ FoundsOK
  BY DEF IInv
<1>1. CASE Clear
  BY <1>1 DEF Clear, locals, MinesOK, MineOK, BuildPC
<1>. QED BY <1>1, QuietMines, AllocMines, FillMines, PublishMines, UndoMines, UnlinkMines
         DEF Next, Step, Quiet

-----------------------------------------------------------------------------
(* FoundsOK is preserved.                                                  *)

\* A writer with a node it has found.
Claims(p) == found[p] \in Node /\ op[p] # NoOp /\ op[p].op \in Writes

\* Writers do not find the same head, thanks to the guide.
LEMMA HeadsApart ==
    ASSUME CallsOK, NEW p \in Process, NEW q \in Process, p # q,
           Claims(p), Claims(q), FoundHead(p), FoundHead(q)
    PROVE  found[p] # found[q]
<1>. SUFFICES ASSUME found[p] = found[q] PROVE FALSE
  OBVIOUS
<1>1. keyOf(p) = keyOf(q)
  BY DEF FoundHead
<1>2. pc[p] # "idle" /\ pc[q] # "idle"
  BY DEF CallsOK, CallOK, Claims
<1>. QED BY <1>1, <1>2 DEF CallsOK, Guided, Claims, Writes

\* Where a writer stands with what it has found.
LEMMA FoundFacts ==
    ASSUME Shape, CallsOK, NodesOK, FoundsOK, NEW p \in Process
    PROVE  /\ Freer(p) => /\ Claims(p)
                          /\ FoundHead(p) \/ FoundRest(p)
           /\ Claims(p) /\ FoundHead(p) => data[found[p]].part = 1
           /\ Claims(p) /\ FoundRest(p) => data[found[p]].part \in Nat \ {0, 1}
<1>1. ASSUME Freer(p) PROVE Claims(p) /\ (FoundHead(p) \/ FoundRest(p))
  <2>1. Claims(p)
    BY <1>1 DEF Freer, Claims, CallsOK, CallOK, Writes
  <2>. QED BY <1>1, <2>1 DEF Freer, Claims, FoundsOK, FoundOK
<1>2. ASSUME Claims(p), FoundHead(p) PROVE data[found[p]].part = 1
  BY <1>2 DEF Claims, FoundHead, NodesOK, NodeOK
<1>3. ASSUME Claims(p), FoundRest(p) PROVE data[found[p]].part \in Nat \ {0, 1}
  BY <1>3 DEF Claims, FoundRest, Shape
<1>. QED BY <1>1, <1>2, <1>3

\* A step of p that keeps what the others have found keeps FoundsOK if p keeps
\* its part of it.
LEMMA FoundsFrame ==
    ASSUME FoundsOK, NEW p \in Process,
           \A q \in Process : q # p => /\ pc'[q] = pc[q] /\ op'[q] = op[q]
                                      /\ found'[q] = found[q],
           \A q \in Process : q # p /\ Claims(q) =>
              /\ FoundHead(q) => FoundHead(q)'
              /\ FoundRest(q) => FoundRest(q)',
           FoundOK(p)',
           \A q \in Process : q # p /\ Freer(p)' /\ Freer(q) => found'[p] # found[q]
    PROVE  FoundsOK'
<1>1. ASSUME NEW q \in Process PROVE FoundOK(q)'
  <2>1. CASE q # p
    <3>1. FoundOK(q) /\ pc'[q] = pc[q] /\ op'[q] = op[q] /\ found'[q] = found[q]
      BY <2>1 DEF FoundsOK
    <3>. QED BY <2>1, <3>1 DEF FoundOK, Claims
  <2>. QED BY <2>1
<1>2. \A q \in Process : q # p => (Freer(q)' <=> Freer(q))
  BY DEF Freer
<1>. QED BY <1>1, <1>2 DEF FoundsOK

\* What p has found stays a head, and stays a rest, as long as its node stays
\* and nothing is linked to it.
LEMMA HeadStays ==
    ASSUME NEW q \in Process, found'[q] = found[q], op'[q] = op[q],
           Same(found[q]), FoundHead(q)
    PROVE  FoundHead(q)'
BY DEF FoundHead, Same, hashOf, keyOf

\* The same of a rest.
LEMMA RestStays ==
    ASSUME NEW q \in Process, found'[q] = found[q], op'[q] = op[q],
           Same(found[q]), FoundRest(q),
           \A m \in Node : "next" \in flags'[m] /\ next'[m] = found[q] =>
               "next" \in flags[m] /\ next'[m] = next[m]
    PROVE  FoundRest(q)'
BY DEF FoundRest, Same, hashOf, keyOf

\* FoundsOK: a step that does not write nodes; a hit finds what no other writer has.
LEMMA QuietFounds ==
    ASSUME IInv, NEW p \in Process, Quiet(p)
    PROVE  FoundsOK'
<1>. Shape /\ CallsOK /\ NodesOK /\ MinesOK /\ FoundsOK
  BY DEF IInv
<1>1. flags' = flags /\ hash' = hash /\ next' = next /\ data' = data
  BY QuietEffect
<1>2. \A q \in Process : q # p => /\ pc'[q] = pc[q] /\ op'[q] = op[q]
                                /\ found'[q] = found[q]
  BY OthersStay DEF Quiet, Step
<1>3. \A q \in Process : q # p /\ Claims(q) =>
              /\ FoundHead(q) => FoundHead(q)'
              /\ FoundRest(q) => FoundRest(q)'
  BY <1>1, <1>2 DEF FoundHead, FoundRest, hashOf, keyOf
<1>4. CASE \E o \in Ops : Start(p, o)
  <2>1. found'[p] = NoNode
    BY <1>4 DEF Start, CallsOK, CallOK
  <2>2. FoundOK(p)' /\ ~Freer(p)'
    BY <2>1, NodeFacts DEF FoundOK, Freer
  <2>. QED BY <1>2, <1>3, <2>2, FoundsFrame
<1>5. CASE pc'[p] \in {"idle", "undo", "read", "attach"}
  <2>1. FoundOK(p)' /\ ~Freer(p)'
    BY <1>5 DEF FoundOK, Freer
  <2>. QED BY <1>2, <1>3, <2>1, FoundsFrame
<1>6. CASE SearchHit(p) /\ op[p].op # "get"
  <2>1. /\ found'[p] \in Node /\ FoundHead(p)' /\ op'[p] = op[p]
        /\ pc'[p] \in {"alloc", "unlink"} /\ Claims(p)'
    <3>1. /\ op[p] # NoOp /\ op[p].op \in {"update", "remove"}
      BY <1>6, Called, OpFacts DEF SearchHit, CallsOK, CallOK
    <3>2. found'[p] = Candidate(p) /\ Candidate(p) \in Node /\ op'[p] = op[p]
          /\ MatchFirst(Candidate(p), keyOf(p))
      BY <1>6, CandidateInNode DEF SearchHit, Shape
    <3>3. pc'[p] \in {"alloc", "unlink"}
      BY <1>6, <3>1 DEF SearchHit, Goto, Shape
    <3>. QED BY <1>1, <3>1, <3>2, <3>3
             DEF FoundHead, MatchFirst, hashOf, keyOf, Claims, Writes
  <2>2. FoundOK(p)'
    BY <2>1 DEF FoundOK
  <2>3. ASSUME NEW q \in Process, q # p, Freer(q) PROVE found'[p] # found[q]
    <3>1. Claims(q) /\ (FoundHead(q) \/ FoundRest(q))
      BY <2>3, FoundFacts
    <3>2. CASE FoundRest(q)
      BY <1>1, <2>1, <3>2 DEF FoundHead, FoundRest
    <3>3. CASE FoundHead(q)
      <4>. SUFFICES ASSUME found'[p] = found[q] PROVE FALSE
        OBVIOUS
      <4>1. keyOf(p) = keyOf(q)
        BY <1>1, <2>1, <3>3 DEF FoundHead, keyOf
      <4>2. pc[p] # "idle" /\ pc[q] # "idle" /\ op[p].op \in Writes /\ op[q].op \in Writes
        BY <1>6, <2>1, <3>1 DEF SearchHit, Claims, CallsOK, CallOK
      <4>. QED BY <2>3, <4>1, <4>2 DEF CallsOK, Guided, Writes
    <3>. QED BY <3>1, <3>2, <3>3
  <2>. QED BY <1>2, <1>3, <2>2, <2>3, FoundsFrame
<1>7. CASE SearchHit(p) /\ op[p].op = "get"
  <2>1. pc'[p] = "read"
    BY <1>7 DEF SearchHit, Goto, Shape
  <2>. QED BY <1>5, <2>1
<1>8. CASE (SearchNextRow(p) \/ SearchMiss(p)) /\ ~Finish(p)
  <2>1. found'[p] = NoNode
    BY <1>8 DEF SearchNextRow, SearchMiss, CallsOK, CallOK
  <2>2. FoundOK(p)' /\ ~Freer(p)'
    BY <2>1, NodeFacts DEF FoundOK, Freer
  <2>. QED BY <1>2, <1>3, <2>2, FoundsFrame
<1>9. CASE AllocNextRow(p) \/ Count(p)
  <2>1. /\ op'[p] = op[p] /\ found'[p] = found[p] /\ pc[p] \in {"alloc", "count"}
        /\ pc'[p] \in {"alloc", "count", "fill"}
    BY <1>9 DEF AllocNextRow, Count, Goto, Shape
  <2>2. FoundOK(p)' /\ ~Freer(p)'
    <3>1. FoundOK(p)
      BY DEF FoundsOK
    <3>. QED BY <1>1, <2>1, <3>1 DEF FoundOK, Freer, FoundHead, hashOf, keyOf
  <2>. QED BY <1>2, <1>3, <2>2, FoundsFrame
<1>10. CASE (AllocFail(p) \/ Undone(p)) /\ ~Finish(p)
  <2>1. pc'[p] = "undo"
    BY <1>10 DEF AllocFail, Undone, Goto, Shape
  <2>. QED BY <1>5, <2>1
<1>11. CASE Unlinked(p) /\ ~Finish(p)
  <2>1. /\ op'[p] = op[p] /\ found'[p] = found[p] /\ pc[p] = "unlinked"
        /\ pc'[p] = "unlink" /\ found[p] \in Node
    BY <1>11 DEF Unlinked, Goto, Shape
  <2>2. FoundOK(p)'
    <3>1. FoundOK(p)
      BY DEF FoundsOK
    <3>. QED BY <1>1, <2>1, <3>1 DEF FoundOK, FoundRest, hashOf, keyOf
  <2>3. Freer(p)
    BY <2>1 DEF Freer
  <2>4. \A q \in Process : q # p /\ Freer(q) => found'[p] # found[q]
    BY <2>1, <2>3 DEF FoundsOK
  <2>. QED BY <1>2, <1>3, <2>2, <2>4, FoundsFrame
<1>12. CASE (Read(p) \/ Attach(p)) /\ ~Finish(p)
  <2>1. pc'[p] = pc[p] /\ pc[p] \in {"read", "attach"}
    BY <1>12 DEF Read, Attach
  <2>. QED BY <1>5, <2>1
<1>13. CASE Finish(p)
  BY <1>5, <1>13, FinishCall
<1>. QED BY <1>4, <1>6, <1>7, <1>8, <1>9, <1>10, <1>11, <1>12, <1>13 DEF Quiet, Crash

\* FoundsOK: a node that is taken was free, so nobody had found it.
LEMMA AllocFounds ==
    ASSUME IInv, NEW p \in Process, AllocNode(p)
    PROVE  FoundsOK'
<1>. Shape /\ CallsOK /\ NodesOK /\ MinesOK /\ FoundsOK
  BY DEF IInv
<1>. DEFINE n == Candidate(p)
<1>1. /\ n \in Node /\ flags[n] = {} /\ flags'[n] = {"used"}
      /\ \A k \in Node : k # n => Same(k)
  BY AllocEffect
<1>2. pc[p] = "alloc" /\ pc'[p] = "count" /\ op'[p] = op[p] /\ found'[p] = found[p]
  BY DEF AllocNode, Goto, Shape
<1>. HIDE DEF n
<1>3. \A q \in Process : q # p => /\ pc'[q] = pc[q] /\ op'[q] = op[q]
                                /\ found'[q] = found[q]
  BY OthersStay DEF Step
<1>4. ASSUME NEW q \in Process, Claims(q), FoundHead(q) PROVE FoundHead(q)'
  <2>1. Same(found[q]) /\ found'[q] = found[q] /\ op'[q] = op[q]
    BY <1>1, <1>2, <1>3, <1>4 DEF Claims, FoundHead
  <2>. QED BY <1>4, <2>1, HeadStays
<1>5. ASSUME NEW q \in Process, Claims(q), FoundRest(q) PROVE FoundRest(q)'
  <2>1. Same(found[q]) /\ found'[q] = found[q] /\ op'[q] = op[q]
    BY <1>1, <1>2, <1>3, <1>5 DEF Claims, FoundRest
  <2>2. \A m \in Node : "next" \in flags'[m] => "next" \in flags[m] /\ next'[m] = next[m]
    BY <1>1 DEF Same
  <2>. QED BY <1>5, <2>1, <2>2, RestStays
<1>6. FoundOK(p)' /\ ~Freer(p)'
  <2>1. FoundOK(p)
    BY DEF FoundsOK
  <2>. QED BY <1>2, <1>4, <2>1 DEF FoundOK, Freer, Claims
<1>. QED BY <1>3, <1>4, <1>5, <1>6, FoundsFrame

\* FoundsOK: nobody has found, or gets a link from, a node that is filled.
LEMMA FillFounds ==
    ASSUME IInv, NEW p \in Process, Fill(p)
    PROVE  FoundsOK'
<1>. Shape /\ CallsOK /\ NodesOK /\ MinesOK /\ FoundsOK
  BY DEF IInv
<1>. DEFINE m == mine[p]
<1>1. /\ pc[p] = "fill" /\ pc'[p] = "publish" /\ op'[p] = op[p] /\ found'[p] = found[p]
      /\ m \in Seq(Node) /\ Len(m) \in Nat
  BY DEF Fill, Goto, Shape
<1>2. \A q \in Process : q # p => /\ pc'[q] = pc[q] /\ op'[q] = op[q]
                                /\ found'[q] = found[q]
  BY OthersStay DEF Step
<1>3. ASSUME NEW n \in Node, ~Has(p, n) PROVE Same(n)
  BY <1>1, <1>3, FillEffect DEF Has, BuildPC, Same
<1>4. ASSUME NEW n, Has(p, n)
      PROVE  data[n].part = 0 /\ "first" \notin flags[n] /\ n \in Node
  BY <1>1, <1>4, HasFacts
<1>5. ASSUME NEW q \in Process, Claims(q), FoundHead(q) PROVE FoundHead(q)'
  <2>1. Same(found[q]) /\ found'[q] = found[q] /\ op'[q] = op[q]
    BY <1>1, <1>2, <1>3, <1>4, <1>5 DEF Claims, FoundHead
  <2>. QED BY <1>5, <2>1, HeadStays
<1>6. ASSUME NEW q \in Process, Claims(q), FoundRest(q) PROVE FoundRest(q)'
  <2>1. data[found[q]].part # 0
    BY <1>6, FoundFacts
  <2>2. /\ Same(found[q]) /\ found'[q] = found[q] /\ op'[q] = op[q]
        /\ ~Has(p, found[q])
    BY <1>1, <1>2, <1>3, <1>4, <1>6, <2>1 DEF Claims
  <2>3. ASSUME NEW n \in Node, "next" \in flags'[n], next'[n] = found[q]
        PROVE  "next" \in flags[n] /\ next'[n] = next[n]
    <3>1. CASE ~Has(p, n)
      BY <1>3, <2>3, <3>1 DEF Same
    <3>2. CASE Has(p, n)
      <4>1. PICK i \in 1..Len(m) : n = m[i]
        BY <3>2 DEF Has
      <4>2. i < Len(m) /\ next'[n] = m[i + 1]
        BY <2>3, <4>1, FillNode
      <4>3. i + 1 \in 1..Len(m)
        BY <1>1, <4>2
      <4>4. Has(p, m[i + 1])
        BY <1>1, <4>3 DEF Has, BuildPC
      <4>. QED BY <2>2, <2>3, <4>2, <4>4
    <3>. QED BY <3>1, <3>2
  <2>. QED BY <1>6, <2>2, <2>3, RestStays
<1>7. FoundOK(p)' /\ ~Freer(p)'
  <2>1. FoundOK(p)
    BY DEF FoundsOK
  <2>. QED BY <1>1, <1>5, <2>1 DEF FoundOK, Freer, Claims
<1>. QED BY <1>2, <1>5, <1>6, <1>7, FoundsFrame

\* FoundsOK: update goes on to free what it has found.
LEMMA PublishFounds ==
    ASSUME IInv, NEW p \in Process, Publish(p)
    PROVE  FoundsOK'
<1>. Shape /\ CallsOK /\ NodesOK /\ MinesOK /\ FoundsOK
  BY DEF IInv
<1>. DEFINE n == mine[p][1]
<1>1. /\ n \in Node /\ flags'[n] = flags[n] \cup {"first"} /\ data[n].part = 1
      /\ \A k \in Node : k # n => flags'[k] = flags[k]
      /\ hash' = hash /\ next' = next /\ data' = data
  BY PublishEffect
<1>. HIDE DEF n
<1>2. \A q \in Process : q # p => /\ pc'[q] = pc[q] /\ op'[q] = op[q]
                                /\ found'[q] = found[q]
  BY OthersStay DEF Step
<1>3. \A k \in Node : /\ flags[k] \subseteq flags'[k]
                      /\ "next" \in flags'[k] => "next" \in flags[k]
  BY <1>1
<1>4. ASSUME NEW q \in Process, Claims(q), FoundHead(q), op'[q] = op[q],
             found'[q] = found[q]
      PROVE  FoundHead(q)'
  BY <1>1, <1>3, <1>4 DEF Claims, FoundHead, hashOf, keyOf
<1>5. ASSUME NEW q \in Process, q # p, Claims(q), FoundRest(q) PROVE FoundRest(q)'
  <2>1. found[q] # n /\ found[q] \in Node
    BY <1>1, <1>5, FoundFacts DEF Claims
  <2>. QED BY <1>1, <1>2, <1>3, <1>5, <2>1 DEF FoundRest, hashOf, keyOf
<1>6. CASE found[p] = NoNode
  <2>1. pc'[p] = "idle"
    BY <1>6, FinishCall DEF Publish
  <2>2. FoundOK(p)' /\ ~Freer(p)'
    BY <2>1 DEF FoundOK, Freer
  <2>. QED BY <1>2, <1>4, <1>5, <2>2, FoundsFrame
<1>7. CASE found[p] # NoNode
  <2>1. /\ pc[p] = "publish" /\ pc'[p] = "unlink" /\ op'[p] = op[p]
        /\ found'[p] = found[p] /\ found[p] \in Node
    BY <1>7 DEF Publish, Goto, Shape
  <2>2. Claims(p) /\ FoundHead(p)
    BY <2>1 DEF CallsOK, CallOK, FoundsOK, FoundOK, Claims, Writes, BuildPC
  <2>3. FoundOK(p)'
    BY <1>4, <2>1, <2>2 DEF FoundOK
  <2>4. ASSUME NEW q \in Process, q # p, Freer(q) PROVE found'[p] # found[q]
    <3>1. Claims(q) /\ (FoundHead(q) \/ FoundRest(q))
      BY <2>4, FoundFacts
    <3>. QED BY <2>1, <2>2, <2>4, <3>1, HeadsApart DEF FoundHead, FoundRest
  <2>. QED BY <1>2, <1>4, <1>5, <2>3, <2>4, FoundsFrame
<1>. QED BY <1>6, <1>7

\* FoundsOK: a node given back was raw, so nobody had found it.
LEMMA UndoFounds ==
    ASSUME IInv, NEW p \in Process, Undo(p)
    PROVE  FoundsOK'
<1>. Shape /\ CallsOK /\ NodesOK /\ MinesOK /\ FoundsOK
  BY DEF IInv
<1>. DEFINE n == Head(mine[p])
<1>1. /\ pc[p] = "undo" /\ pc'[p] = "undone" /\ Free(n)
      /\ mine[p] # <<>> /\ mine[p] \in Seq(Node)
  BY DEF Undo, Goto, Shape, CallsOK, CallOK
<1>2. n \in Node /\ n = mine[p][1] /\ 1 \in 1..Len(mine[p])
  BY <1>1
<1>. HIDE DEF n
<1>3. /\ flags'[n] = {} /\ data[n].part = 0
      /\ \A k \in Node : k # n => Same(k)
  BY <1>1, <1>2, FreeEffect, RawFacts DEF BuildPC
<1>4. \A q \in Process : q # p => /\ pc'[q] = pc[q] /\ op'[q] = op[q]
                                /\ found'[q] = found[q]
  BY OthersStay DEF Step
<1>5. ASSUME NEW q \in Process, q # p, Claims(q), FoundHead(q) \/ FoundRest(q)
      PROVE  Same(found[q])
  BY <1>3, <1>5, FoundFacts DEF Claims
<1>6. ASSUME NEW q \in Process, q # p, Claims(q), FoundHead(q) PROVE FoundHead(q)'
  BY <1>4, <1>5, <1>6, HeadStays
<1>7. ASSUME NEW q \in Process, q # p, Claims(q), FoundRest(q) PROVE FoundRest(q)'
  <2>1. \A m \in Node : "next" \in flags'[m] => "next" \in flags[m] /\ next'[m] = next[m]
    BY <1>3 DEF Same
  <2>. QED BY <1>4, <1>5, <1>7, <2>1, RestStays
<1>8. FoundOK(p)' /\ ~Freer(p)'
  BY <1>1 DEF FoundOK, Freer
<1>. QED BY <1>4, <1>6, <1>7, <1>8, FoundsFrame

\* FoundsOK: the successor of the freed node is the rest, with nothing before it.
LEMMA UnlinkFounds ==
    ASSUME IInv, NEW p \in Process, Unlink(p)
    PROVE  FoundsOK'
<1>. Shape /\ CallsOK /\ NodesOK /\ MinesOK /\ FoundsOK
  BY DEF IInv
<1>. DEFINE n == found[p]
            s == NextNode(n, hashOf(p))
<1>1. /\ pc[p] = "unlink" /\ pc'[p] = "unlinked" /\ Free(n) /\ found'[p] = s
      /\ op'[p] = op[p]
  BY DEF Unlink, Goto, Shape
<1>2. /\ n \in Node /\ (FoundHead(p) \/ FoundRest(p)) /\ data[n].part > 0
      /\ \A m \in Node : "next" \in flags[m] => next[m] # n
      /\ Freer(p) /\ Claims(p)
  BY <1>1, FreedFacts, FoundFacts DEF Freer
<1>3. s \in Node => "next" \in flags[n] /\ next[n] = s
  BY <1>2, NodeFacts DEF NextNode
<1>. HIDE DEF n, s
<1>4. flags'[n] = {} /\ \A k \in Node : k # n => Same(k)
  BY <1>1, <1>2, FreeEffect
<1>5. \A q \in Process : q # p => /\ pc'[q] = pc[q] /\ op'[q] = op[q]
                                /\ found'[q] = found[q]
  BY OthersStay DEF Step
<1>6. ASSUME NEW q \in Process, q # p, Claims(q), FoundHead(q) PROVE FoundHead(q)'
  <2>1. found[q] # n
    BY <1>2, <1>6, HeadsApart DEF FoundHead, FoundRest, n
  <2>. QED BY <1>4, <1>5, <1>6, <2>1, HeadStays DEF Claims
<1>7. ASSUME NEW q \in Process, q # p, Freer(q), FoundRest(q) PROVE FoundRest(q)'
  <2>1. found[q] # n /\ Claims(q)
    BY <1>2, <1>7, FoundFacts DEF FoundsOK, n
  <2>2. \A m \in Node : "next" \in flags'[m] => "next" \in flags[m] /\ next'[m] = next[m]
    BY <1>4 DEF Same
  <2>. QED BY <1>4, <1>5, <1>7, <2>1, <2>2, RestStays DEF Claims
<1>8. ASSUME s \in Node
      PROVE  /\ s # n /\ "used" \in flags'[s] /\ "first" \notin flags'[s]
             /\ data'[s].part > 1 /\ data[s].part > 1 /\ "first" \notin flags[s]
             /\ hash'[s] = hashOf(p)
             /\ \A m \in Node : "next" \in flags'[m] => next'[m] # s
  <2>1. /\ "used" \in flags[s] /\ hash[s] = hash[n] /\ hash[n] = hashOf(p) /\ "first" \notin flags[s]
        /\ data[n].part \in Nat \ {0} /\ data[s].part = data[n].part + 1
    BY <1>2, <1>3, <1>8, LinkFacts DEF NodesOK, NodeOK, FoundHead, FoundRest, n
  <2>2. s # n /\ Same(s)
    BY <1>2, <1>3, <1>4, <1>8
  <2>3. ASSUME NEW m \in Node, "next" \in flags'[m] PROVE next'[m] # s
    <3>1. m # n /\ Same(m)
      BY <1>4, <2>3
    <3>. QED BY <1>2, <1>3, <1>8, <2>3, <3>1 DEF Same, NodesOK
  <2>. QED BY <2>1, <2>2, <2>3 DEF Same
<1>9. FoundOK(p)'
  BY <1>1, <1>8 DEF FoundOK, FoundRest, hashOf, keyOf
<1>10. ASSUME NEW q \in Process, q # p, s \in Node, Freer(q) PROVE s # found[q]
  <2>1. FoundHead(q) \/ FoundRest(q)
    BY <1>10, FoundFacts
  <2>. QED BY <1>2, <1>3, <1>8, <1>10, <2>1 DEF FoundHead, FoundRest
<1>11. ASSUME NEW q \in Process PROVE FoundOK(q)'
  <2>1. CASE q # p
    <3>1. FoundOK(q) /\ pc'[q] = pc[q] /\ op'[q] = op[q] /\ found'[q] = found[q]
      BY <1>5, <2>1 DEF FoundsOK
    <3>. QED BY <1>6, <1>7, <2>1, <3>1 DEF FoundOK, Claims, Freer
  <2>. QED BY <1>9, <2>1
<1>12. ASSUME NEW q \in Process, NEW r \in Process, q # r, Freer(q)', Freer(r)'
       PROVE  found'[q] # found'[r]
  <2>1. CASE q # p /\ r # p
    BY <1>5, <1>12, <2>1 DEF Freer, FoundsOK
  <2>2. CASE q = p
    BY <1>1, <1>5, <1>10, <1>12, <2>2 DEF Freer
  <2>3. CASE r = p
    BY <1>1, <1>5, <1>10, <1>12, <2>3 DEF Freer
  <2>. QED BY <2>1, <2>2, <2>3
<1>. QED BY <1>11, <1>12 DEF FoundsOK

\* Every step keeps FoundsOK.
LEMMA FoundsStep ==
    ASSUME IInv, Next
    PROVE  FoundsOK'
<1>1. CASE Clear
  <2>1. \A p \in Process : op'[p] = NoOp /\ pc'[p] = "idle"
    BY <1>1 DEF Clear, locals, IInv, CallsOK, CallOK
  <2>. QED BY <2>1 DEF FoundsOK, FoundOK, Freer
<1>. QED BY <1>1, QuietFounds, AllocFounds, FillFounds, PublishFounds, UndoFounds,
            UnlinkFounds DEF Next, Step, Quiet

-----------------------------------------------------------------------------
(* The invariant, and what follows from it.                                *)

\* The empty table satisfies the invariant.
LEMMA InitIInv == Init => IInv
<1>. SUFFICES ASSUME Init PROVE IInv
  OBVIOUS
<1>1. Shape
  BY RowFacts DEF Init, Shape, NoData, NoReply
<1>2. CallsOK
  BY DEF Init, CallsOK, CallOK, Guided, BuildPC
<1>3. NodesOK
  BY DEF Init, NodesOK, NodeOK, NoData
<1>4. MinesOK
  BY DEF Init, MinesOK, MineOK, BuildPC
<1>5. FoundsOK
  BY NodeFacts DEF Init, FoundsOK, FoundOK, Freer
<1>. QED BY <1>1, <1>2, <1>3, <1>4, <1>5 DEF IInv

\* Every step keeps the invariant.
LEMMA IInvStep == IInv /\ [Next]_ahVars => IInv'
<1>1. ASSUME IInv, Next PROVE IInv'
  BY <1>1, ShapeStep, CallsStep, NodesStep, MinesStep, FoundsStep DEF IInv
<1>2. ASSUME IInv, UNCHANGED ahVars PROVE IInv'
  <2>1. UNCHANGED shared /\ UNCHANGED locals /\ crashes' = crashes
    BY <1>2 DEF ahVars
  <2>. USE <2>1 DEF shared, locals
  <2>2. Shape' /\ CallsOK'
    BY <1>2 DEF IInv, Shape, CallsOK, CallOK, Guided, keyOf
  <2>3. NodesOK' /\ MinesOK'
    BY <1>2 DEF IInv, NodesOK, NodeOK, MinesOK, MineOK
  <2>4. FoundsOK'
    BY <1>2 DEF IInv, FoundsOK, FoundOK, FoundHead, FoundRest, Freer, hashOf, keyOf
  <2>. QED BY <2>2, <2>3, <2>4 DEF IInv
<1>. QED BY <1>1, <1>2

\* The invariant holds in every state: the calls are where they should be, and
\* every node is what the code takes it for.
THEOREM Invariant == Spec => []IInv
BY InitIInv, IInvStep, PTL DEF Spec

\* No node belongs to two values, and what a process is building is nobody else's.
THEOREM ChainsApart == Spec => []ChainsAreApart
<1>1. IInv => ChainsAreApart
  <2>. SUFFICES ASSUME IInv PROVE ChainsAreApart
    OBVIOUS
  <2>. Shape /\ CallsOK /\ NodesOK /\ MinesOK /\ FoundsOK
    BY DEF IInv
  <2>1. \A m, n \in Linking : next[m] = next[n] => m = n
    BY DEF Linking, NodesOK
  <2>2. \A n \in Linking : next[n] \notin Heads
    BY LinkFacts DEF Linking, Heads
  <2>3. \A p \in Process : \A n : n \in Building(p) <=> Has(p, n)
    BY DEF Building, Has, BuildPC
  <2>4. ASSUME NEW p \in Process PROVE Building(p) \cap Heads = {}
    BY <2>3, HasFacts DEF Heads
  <2>5. ASSUME NEW p \in Process, NEW n \in Linking, next[n] \in Building(p)
        PROVE  n \in Building(p)
    <3>1. /\ n \in Node /\ "next" \in flags[n] /\ Has(p, next[n])
      BY <2>3, <2>5 DEF Linking
    <3>2. data[n].part \in Nat \ {0} /\ data[next[n]].part = data[n].part + 1
      BY <3>1, LinkFacts
    <3>3. pc[p] = "publish"
      BY <3>1, <3>2, HasFacts
    <3>4. PICK i \in 1..Len(mine[p]) : next[n] = mine[p][i]
      BY <3>1 DEF Has
    <3>5. data[next[n]].part = i /\ mine[p] \in Seq(Node)
      BY <3>3, <3>4 DEF MinesOK, MineOK, Shape
    <3>6. i - 1 \in 1..Len(mine[p]) /\ i - 1 < Len(mine[p]) /\ (i - 1) + 1 = i
      BY <3>2, <3>4, <3>5
    <3>7. /\ "next" \in flags[mine[p][i - 1]]
          /\ next[mine[p][i - 1]] = mine[p][(i - 1) + 1]
      BY <3>3, <3>6 DEF MinesOK, MineOK
    <3>8. mine[p][i - 1] \in Node
      BY <3>5, <3>6
    <3>9. n = mine[p][i - 1]
      BY <3>1, <3>4, <3>6, <3>7, <3>8 DEF NodesOK
    <3>. QED BY <2>3, <3>3, <3>6, <3>9 DEF Has, BuildPC
  <2>6. ASSUME NEW p \in Process, NEW q \in Process, p # q
        PROVE  Building(p) \cap Building(q) = {}
    BY <2>3, <2>6, HasOne
  <2>. QED BY <2>1, <2>2, <2>4, <2>5, <2>6 DEF ChainsAreApart
<1>. QED BY <1>1, Invariant, PTL

\* A visible value is complete at every moment, whoever dies where.
THEOREM ValuesWhole == Spec => []ValuesAreWhole
<1>1. IInv => ValuesAreWhole
  <2>. SUFFICES ASSUME IInv PROVE ValuesAreWhole
    OBVIOUS
  <2>. Shape /\ NodesOK
    BY DEF IInv
  <2>1. \A n \in Heads : data[n].part = 1
    BY DEF Heads, NodesOK, NodeOK
  <2>2. ASSUME NEW n \in Filled
        PROVE  LET succ == NextNode(n, hash[n])
               IN  IF data[n].part < Size[data[n].value]
                   THEN /\ succ \in Node
                        /\ data[succ].value = data[n].value
                        /\ data[succ].part = data[n].part + 1
                   ELSE succ = NoNode
    <3>1. n \in Node /\ NodeOK(n) /\ data[n].part > 0
      BY DEF Filled, NodesOK
    <3>2. CASE data[n].part < Size[data[n].value]
      <4>1. "next" \in flags[n] /\ NextNode(n, hash[n]) = next[n]
        BY <3>1, <3>2 DEF NodeOK, NextNode
      <4>. QED BY <3>1, <3>2, <4>1 DEF NodeOK
    <3>3. CASE ~(data[n].part < Size[data[n].value])
      <4>1. "next" \notin flags[n]
        BY <3>1, <3>3 DEF NodeOK
      <4>. QED BY <3>3, <4>1 DEF NextNode
    <3>. QED BY <3>2, <3>3
  <2>. QED BY <2>1, <2>2 DEF ValuesAreWhole
<1>. QED BY <1>1, Invariant, PTL

-----------------------------------------------------------------------------
(* No node is lost without a crash.                                        *)

\* Somebody can still reach node n.
Freed(p, n) == pc[p] \in {"unlink", "unlinked"} /\ found[p] = n
Kept(n) == \/ "first" \in flags[n]
           \/ \E m \in Node : "next" \in flags[m] /\ next[m] = n
           \/ \E p \in Process : Has(p, n) \/ Freed(p, n)

AllKept == crashes = 0 => \A n \in Node : flags[n] # {} => Kept(n)

\* A call that does not write nodes keeps those it holds, unless it dies.
LEMMA QuietKeeps ==
    ASSUME Shape, NEW p \in Process, Quiet(p), ~Crash(p), NEW n \in Node
    PROVE  /\ Has(p, n) => Has(p, n)'
           /\ Freed(p, n) => Freed(p, n)'
<1>1. ASSUME Has(p, n) PROVE Has(p, n)'
  <2>1. pc[p] \in BuildPC /\ mine[p] # <<>> /\ mine[p] \in Seq(Node)
    BY <1>1 DEF Has, Shape
  <2>2. AllocNextRow(p) \/ AllocFail(p) \/ Count(p) \/ Undone(p)
    BY <2>1 DEF Quiet, Start, SearchHit, SearchNextRow, SearchMiss, Unlinked, Read,
                Attach, BuildPC
  <2>3. mine'[p] = mine[p] /\ pc'[p] \in BuildPC
    BY <2>1, <2>2 DEF AllocNextRow, AllocFail, Count, Undone, Goto, Shape, BuildPC
  <2>. QED BY <1>1, <2>3 DEF Has
<1>2. ASSUME Freed(p, n) PROVE Freed(p, n)'
  <2>1. Unlinked(p) /\ found[p] # NoNode
    BY <1>2, NodeFacts DEF Freed, Quiet, Start, SearchHit, SearchNextRow, SearchMiss,
       AllocNextRow, AllocFail, Count, Undone, Read, Attach
  <2>. QED BY <1>2, <2>1 DEF Unlinked, Goto, Shape, Freed
<1>. QED BY <1>1, <1>2

\* What the others hold stays with them.
LEMMA OthersKeep ==
    ASSUME Shape, NEW p \in Process, NEW q \in Process, p # q, Step(p) \/ Quiet(p),
           NEW n
    PROVE  (Has(q, n) <=> Has(q, n)') /\ (Freed(q, n) <=> Freed(q, n)')
<1>1. pc'[q] = pc[q] /\ mine'[q] = mine[q] /\ found'[q] = found[q]
  BY OthersStay DEF Quiet, Step
<1>. QED BY <1>1 DEF Has, Freed

\* A node that is not freed is kept if the nodes stay linked and p keeps its own.
LEMMA KeptStays ==
    ASSUME Shape, NEW p \in Process, Step(p) \/ Quiet(p), NEW n \in Node, Kept(n),
           "first" \in flags[n] => "first" \in flags'[n],
           \A m \in Node : "next" \in flags[m] /\ next[m] = n => Kept(n)',
           Has(p, n) => Kept(n)', Freed(p, n) => Kept(n)'
    PROVE  Kept(n)'
<1>1. ASSUME NEW q \in Process, q # p, Has(q, n) \/ Freed(q, n) PROVE Kept(n)'
  BY <1>1, OthersKeep DEF Kept
<1>. QED BY <1>1 DEF Kept

\* Every step keeps AllKept.
LEMMA KeptStep ==
    ASSUME IInv, AllKept, Next
    PROVE  AllKept'
<1>. Shape /\ CallsOK /\ NodesOK /\ MinesOK /\ FoundsOK
  BY DEF IInv
<1>. SUFFICES ASSUME crashes' = 0, NEW n \in Node, flags'[n] # {} PROVE Kept(n)'
  BY DEF AllKept
<1>1. CASE Clear
  BY <1>1 DEF Clear
<1>2. ASSUME NEW p \in Process, Quiet(p) \/ Step(p) PROVE Kept(n)'
  <2>1. crashes = 0 /\ ~Crash(p) /\ (Quiet(p) \/ Step(p))
    <3>1. Quiet(p) \/ Step(p)
      BY <1>2
    <3>2. crashes \in Nat
      BY DEF Shape
    <3>3. ~Crash(p)
      BY <3>2 DEF Crash
    <3>4. crashes' = crashes
      BY <3>1, <3>3 DEF Quiet, Step, Start, SearchHit, SearchNextRow, SearchMiss,
         AllocNode, AllocNextRow, AllocFail, Count, Fill, Publish, Undo, Undone,
         Unlink, Unlinked, Read, Attach
    <3>. QED BY <3>1, <3>3, <3>4
  <2>2. flags[n] # {} => Kept(n)
    BY <2>1 DEF AllKept
  <2>3. CASE Quiet(p)
    <3>1. flags' = flags /\ next' = next
      BY <2>3, QuietEffect
    <3>2. \A m \in Node : "next" \in flags[m] /\ next[m] = n => Kept(n)'
      BY <3>1 DEF Kept
    <3>3. (Has(p, n) => Has(p, n)') /\ (Freed(p, n) => Freed(p, n)')
      BY <2>1, <2>3, QuietKeeps
    <3>4. (Has(p, n) => Kept(n)') /\ (Freed(p, n) => Kept(n)')
      BY <3>3 DEF Kept
    <3>. QED BY <2>2, <2>3, <3>1, <3>2, <3>4, KeptStays
  <2>4. CASE AllocNode(p)
    <3>0. PICK c : c = Candidate(p)
      OBVIOUS
    <3>1. /\ c \in Node /\ flags[c] = {} /\ \A k \in Node : k # c => Same(k)
          /\ mine'[p] = Append(mine[p], c) /\ mine[p] \in Seq(Node)
          /\ pc'[p] = "count"
      BY <2>4, <3>0, AllocEffect DEF AllocNode, Goto, Shape
    <3>2. /\ Len(mine'[p]) = Len(mine[p]) + 1 /\ Len(mine[p]) \in Nat
          /\ mine'[p][Len(mine[p]) + 1] = c
          /\ \A i \in 1..Len(mine[p]) : mine'[p][i] = mine[p][i]
      BY <3>1
    <3>3. Has(p, c)' /\ (Has(p, n) => Has(p, n)')
      <4>1. Len(mine[p]) + 1 \in 1..Len(mine'[p])
            /\ \A i \in 1..Len(mine[p]) : i \in 1..Len(mine'[p])
        BY <3>2
      <4>. QED BY <3>1, <3>2, <4>1 DEF Has, BuildPC
    <3>4. CASE n = c
      BY <3>3, <3>4 DEF Kept
    <3>5. CASE n # c
      <4>1. flags'[n] = flags[n]
        BY <3>1, <3>5 DEF Same
      <4>2. \A m \in Node : "next" \in flags[m] /\ next[m] = n => Kept(n)'
        BY <3>1 DEF Kept, Same
      <4>3. Has(p, n) => Kept(n)'
        BY <3>3 DEF Kept
      <4>4. ~Freed(p, n)
        BY <2>4 DEF AllocNode, Freed
      <4>. QED BY <2>1, <2>2, <4>1, <4>2, <4>3, <4>4, KeptStays
    <3>. QED BY <3>4, <3>5
  <2>5. CASE Fill(p)
    <3>1. mine' = mine /\ pc[p] = "fill" /\ pc'[p] = "publish"
      BY <2>5 DEF Fill, Goto, Shape
    <3>2. Has(p, n) => Kept(n)'
      BY <3>1 DEF Has, BuildPC, Kept
    <3>3. CASE Has(p, n)
      BY <3>2, <3>3
    <3>4. CASE ~Has(p, n)
      <4>1. \A k \in Node : ~Has(p, k) => Same(k)
        BY <2>5, <3>1, FillEffect DEF Has, BuildPC, Same
      <4>2. ASSUME NEW m \in Node, "next" \in flags[m], next[m] = n PROVE Kept(n)'
        <5>1. ~Has(p, m)
          BY <3>1, <4>2, RawFacts DEF Has, BuildPC
        <5>. QED BY <4>1, <4>2, <5>1 DEF Kept, Same
      <4>3. flags'[n] = flags[n]
        BY <3>4, <4>1 DEF Same
      <4>4. ~Freed(p, n)
        BY <3>1 DEF Freed
      <4>. QED BY <2>1, <2>2, <3>2, <4>2, <4>3, <4>4, KeptStays
    <3>. QED BY <3>3, <3>4
  <2>6. CASE Publish(p)
    <3>. DEFINE c == mine[p][1]
    <3>1. /\ c \in Node /\ flags'[c] = flags[c] \cup {"first"}
          /\ \A k \in Node : k # c => flags'[k] = flags[k]
          /\ next' = next
      BY <2>6, PublishEffect
    <3>. HIDE DEF c
    <3>2. ASSUME NEW m \in Node, "next" \in flags[m], next[m] = n PROVE Kept(n)'
      BY <3>1, <3>2 DEF Kept
    <3>3. CASE n = c
      BY <3>1, <3>3 DEF Kept
    <3>4. CASE n # c
      <4>1. flags'[n] = flags[n]
        BY <3>1, <3>4
      <4>2. ASSUME Has(p, n) PROVE Kept(n)'
        <5>1. PICK i \in 1..Len(mine[p]) : n = mine[p][i]
          BY <4>2 DEF Has
        <5>2. mine[p] \in Seq(Node) /\ pc[p] = "publish"
          BY <2>6 DEF Shape, Publish
        <5>3. i - 1 \in 1..Len(mine[p]) /\ i - 1 < Len(mine[p]) /\ (i - 1) + 1 = i
          BY <3>4, <5>1, <5>2 DEF c
        <5>4. mine[p][i - 1] \in Node
          BY <5>2, <5>3
        <5>5. /\ "next" \in flags[mine[p][i - 1]]
              /\ next[mine[p][i - 1]] = mine[p][(i - 1) + 1]
          BY <5>2, <5>3 DEF MinesOK, MineOK
        <5>. QED BY <3>2, <5>1, <5>3, <5>4, <5>5
      <4>3. ~Freed(p, n)
        BY <2>6 DEF Freed, Publish
      <4>. QED BY <2>1, <2>2, <3>2, <4>1, <4>2, <4>3, KeptStays
    <3>. QED BY <3>3, <3>4
  <2>7. CASE Undo(p)
    <3>. DEFINE m == mine[p]
                c == Head(m)
    <3>1. /\ m \in Seq(Node) /\ m # <<>> /\ Free(c) /\ mine'[p] = Tail(m)
          /\ pc[p] = "undo" /\ pc'[p] = "undone"
      BY <2>7 DEF Undo, Goto, Shape, CallsOK, CallOK
    <3>2. /\ c \in Node /\ c = m[1] /\ 1 \in 1..Len(m) /\ Len(m) \in Nat
          /\ Len(Tail(m)) = Len(m) - 1
          /\ \A i \in 1..(Len(m) - 1) : Tail(m)[i] = m[i + 1]
      BY <3>1
    <3>. HIDE DEF c
    <3>3. flags'[c] = {} /\ \A k \in Node : k # c => Same(k)
      BY <3>1, <3>2, FreeEffect
    <3>4. n # c /\ flags'[n] = flags[n]
      BY <3>3 DEF Same
    <3>5. ASSUME NEW k \in Node, "next" \in flags[k], next[k] = n PROVE Kept(n)'
      <4>1. k # c
        BY <3>1, <3>2, <3>5, RawFacts DEF BuildPC
      <4>. QED BY <3>3, <3>5, <4>1 DEF Kept, Same
    <3>6. ASSUME Has(p, n) PROVE Kept(n)'
      <4>1. PICK i \in 1..Len(m) : n = m[i]
        BY <3>6 DEF Has
      <4>2. i - 1 \in 1..(Len(m) - 1) /\ (i - 1) + 1 = i
        BY <3>2, <3>4, <4>1
      <4>3. mine'[p][i - 1] = n /\ i - 1 \in 1..Len(mine'[p])
        BY <3>1, <3>2, <4>1, <4>2
      <4>. QED BY <3>1, <4>3 DEF Kept, Has, BuildPC
    <3>7. ~Freed(p, n)
      BY <3>1 DEF Freed
    <3>. QED BY <2>1, <2>2, <3>4, <3>5, <3>6, <3>7, KeptStays
  <2>8. CASE Unlink(p)
    <3>. DEFINE c == found[p]
                s == NextNode(c, hashOf(p))
    <3>1. /\ pc[p] = "unlink" /\ pc'[p] = "unlinked" /\ Free(c) /\ found'[p] = s
      BY <2>8 DEF Unlink, Goto, Shape
    <3>2. c \in Node /\ hash[c] = hashOf(p)
      BY <3>1, FreedFacts DEF FoundHead, FoundRest
    <3>. HIDE DEF c, s
    <3>3. flags'[c] = {} /\ \A k \in Node : k # c => Same(k)
      BY <3>1, <3>2, FreeEffect
    <3>4. n # c /\ flags'[n] = flags[n]
      BY <3>3 DEF Same
    <3>5. ASSUME NEW k \in Node, "next" \in flags[k], next[k] = n PROVE Kept(n)'
      <4>1. CASE k # c
        BY <3>3, <3>5, <4>1 DEF Kept, Same
      <4>2. CASE k = c
        <5>1. "used" \in flags[n] /\ hash[n] = hash[c]
          BY <3>5, <4>2 DEF NodesOK, NodeOK
        <5>2. s = n
          BY <3>2, <3>5, <4>2, <5>1 DEF NextNode, s
        <5>. QED BY <3>1, <5>2 DEF Kept, Freed
      <4>. QED BY <4>1, <4>2
    <3>6. ~Has(p, n) /\ ~Freed(p, n)
      BY <3>1, <3>4 DEF Has, Freed, BuildPC, c
    <3>. QED BY <2>1, <2>2, <3>4, <3>5, <3>6, KeptStays
  <2>. QED BY <1>2, <2>3, <2>4, <2>5, <2>6, <2>7, <2>8 DEF Step, Quiet
<1>. QED BY <1>1, <1>2 DEF Next, Quiet

\* As long as nobody has died, every used node is visible, follows another one,
\* or is held by the call that is building or freeing it.
THEOREM NodesKept == Spec => []NoNodeIsLost
<1>1. Init => AllKept
  BY DEF Init, AllKept
<1>2. IInv /\ AllKept /\ [Next]_ahVars => AllKept'
  <2>1. ASSUME AllKept, UNCHANGED ahVars PROVE AllKept'
    <3>1. UNCHANGED shared /\ UNCHANGED locals /\ crashes' = crashes
      BY <2>1 DEF ahVars
    <3>. QED BY <2>1, <3>1 DEF shared, locals, AllKept, Kept, Has, Freed
  <2>. QED BY <2>1, KeptStep
<1>3. IInv /\ AllKept => NoNodeIsLost
  <2>. SUFFICES ASSUME IInv, AllKept, crashes = 0, NEW n \in Node, flags[n] # {}
                PROVE  \/ n \in Heads
                       \/ \E m \in Linking : next[m] = n
                       \/ \E p \in Process :
                             \/ n \in Building(p)
                             \/ pc[p] \in {"unlink", "unlinked"} /\ n = found[p]
    BY DEF NoNodeIsLost
  <2>1. Kept(n) /\ "used" \in flags[n]
    BY DEF AllKept, IInv, NodesOK, NodeOK
  <2>2. \A p \in Process : Has(p, n) => n \in Building(p)
    BY DEF Building, Has, BuildPC
  <2>. QED BY <2>1, <2>2 DEF Kept, Heads, Linking, Freed
<1>. QED BY <1>1, <1>2, <1>3, Invariant, PTL DEF Spec

-----------------------------------------------------------------------------
(* The counters.                                                           *)

One(b) == IF b THEN 1 ELSE 0

\* What one element more or less does to a cardinality.
LEMMA CardStep ==
    ASSUME NEW S, NEW T, NEW x, IsFiniteSet(S), S \ {x} = T \ {x}
    PROVE  /\ IsFiniteSet(T) /\ Cardinality(S) \in Nat /\ Cardinality(T) \in Nat
           /\ Cardinality(T) = Cardinality(S) - One(x \in S) + One(x \in T)
<1>1. Cardinality(S) \in Nat
  BY FS_CardinalityType
<1>2. CASE x \in T
  <2>1. T = S \cup {x}
    BY <1>2
  <2>2. IsFiniteSet(T) /\ Cardinality(T) = IF x \in S THEN Cardinality(S)
                                           ELSE Cardinality(S) + 1
    BY <2>1, FS_AddElement
  <2>. QED BY <1>1, <1>2, <2>2 DEF One
<1>3. CASE x \notin T
  <2>1. T = S \ {x}
    BY <1>3
  <2>2. IsFiniteSet(T) /\ Cardinality(T) = IF x \in S THEN Cardinality(S) - 1
                                           ELSE Cardinality(S)
    BY <2>1, FS_RemoveElement
  <2>3. Cardinality(T) \in Nat
    BY <2>2, FS_CardinalityType
  <2>. QED BY <1>1, <1>3, <2>2, <2>3 DEF One
<1>. QED BY <1>2, <1>3

\* The nodes of a row are finitely many, and so are the processes.
UsedIn(r)   == {n \in Node : n[1] = r /\ flags[n] # {}}
Counting(r) == {p \in Process : pc[p] = "count" /\ row[p] = r}
Freeing(r)  == {p \in Process : pc[p] \in {"undone", "unlinked"}
                                /\ spare[p][1] = r}

\* A row has finitely many nodes.
LEMMA RowFinite ==
    ASSUME NEW r \in Row
    PROVE  IsFiniteSet({n \in Node : n[1] = r})
<1>1. Cols[r] \in Nat
  BY RowFacts
<1>2. IsFiniteSet({r}) /\ IsFiniteSet(0..(Cols[r] - 1))
  <2>1. 0 \in Int /\ Cols[r] - 1 \in Int
    BY <1>1
  <2>. QED BY <2>1, FS_Singleton, FS_Interval
<1>3. IsFiniteSet({r} \X (0..(Cols[r] - 1)))
  BY <1>2, FS_Product
<1>4. ASSUME NEW n \in Node, n[1] = r PROVE n \in {r} \X (0..(Cols[r] - 1))
  <2>1. PICK q \in Row : n \in {q} \X (0..(Cols[q] - 1))
    BY DEF Node
  <2>. QED BY <1>4, <2>1
<1>5. {n \in Node : n[1] = r} \in SUBSET ({r} \X (0..(Cols[r] - 1)))
  BY <1>4
<1>. QED BY <1>3, <1>5, FS_Subset

\* The three sets are finite.
LEMMA SetsFinite ==
    ASSUME NEW r \in Row
    PROVE  /\ IsFiniteSet(UsedIn(r)) /\ Cardinality(UsedIn(r)) \in Nat
           /\ IsFiniteSet(Counting(r)) /\ Cardinality(Counting(r)) \in Nat
           /\ IsFiniteSet(Freeing(r)) /\ Cardinality(Freeing(r)) \in Nat
<1>1. IsFiniteSet({n \in Node : n[1] = r}) /\ IsFiniteSet(Process)
  BY RowFinite, TableAssumption
<1>2. UsedIn(r) \in SUBSET {n \in Node : n[1] = r}
  BY DEF UsedIn
<1>3. Counting(r) \in SUBSET Process /\ Freeing(r) \in SUBSET Process
  BY DEF Counting, Freeing
<1>. QED BY <1>1, <1>2, <1>3, FS_Subset, FS_CardinalityType

\* The sets of processes change by the one that takes the step.
LEMMA CallsCount ==
    ASSUME Shape, NEW p \in Process, NEW r \in Row,
           (\E o \in Ops : Start(p, o)) \/ Step(p) \/ Crash(p)
    PROVE  /\ Cardinality(Counting(r))' = Cardinality(Counting(r))
                  - One(pc[p] = "count" /\ row[p] = r)
                  + One(pc'[p] = "count" /\ row'[p] = r)
           /\ Cardinality(Freeing(r))' = Cardinality(Freeing(r))
                  - One(pc[p] \in {"undone", "unlinked"} /\ spare[p][1] = r)
                  + One(pc'[p] \in {"undone", "unlinked"} /\ spare'[p][1] = r)
<1>1. \A q \in Process : q # p => pc'[q] = pc[q] /\ row'[q] = row[q] /\ spare'[q] = spare[q]
  BY OthersStay
<1>2. Counting(r) \ {p} = Counting(r)' \ {p} /\ Freeing(r) \ {p} = Freeing(r)' \ {p}
  BY <1>1 DEF Counting, Freeing
<1>3. /\ p \in Counting(r) <=> pc[p] = "count" /\ row[p] = r
      /\ p \in Counting(r)' <=> pc'[p] = "count" /\ row'[p] = r
      /\ p \in Freeing(r) <=> pc[p] \in {"undone", "unlinked"} /\ spare[p][1] = r
      /\ p \in Freeing(r)' <=> pc'[p] \in {"undone", "unlinked"} /\ spare'[p][1] = r
  BY DEF Counting, Freeing
<1>4. IsFiniteSet(Counting(r)) /\ IsFiniteSet(Freeing(r))
  BY SetsFinite
<1>5. Cardinality(Counting(r)') = Cardinality(Counting(r)) - One(p \in Counting(r))
                                    + One(p \in Counting(r)')
  BY <1>2, <1>4, CardStep
<1>6. Cardinality(Freeing(r)') = Cardinality(Freeing(r)) - One(p \in Freeing(r))
                                   + One(p \in Freeing(r)')
  BY <1>2, <1>4, CardStep
<1>. QED BY <1>3, <1>5, <1>6 DEF One

\* The set of used nodes changes by the one that the step writes.
LEMMA NodesCount ==
    ASSUME NEW r \in Row, NEW n \in Node,
           \A m \in Node : m # n => (flags'[m] = {} <=> flags[m] = {})
    PROVE  Cardinality(UsedIn(r))' = Cardinality(UsedIn(r))
                  - One(n[1] = r /\ flags[n] # {}) + One(n[1] = r /\ flags'[n] # {})
<1>1. UsedIn(r) \ {n} = UsedIn(r)' \ {n}
  BY DEF UsedIn
<1>2. /\ n \in UsedIn(r) <=> n[1] = r /\ flags[n] # {}
      /\ n \in UsedIn(r)' <=> n[1] = r /\ flags'[n] # {}
  BY DEF UsedIn
<1>3. Cardinality(UsedIn(r)') = Cardinality(UsedIn(r)) - One(n \in UsedIn(r))
                                  + One(n \in UsedIn(r)')
  BY <1>1, SetsFinite, CardStep
<1>. QED BY <1>2, <1>3 DEF One

\* The set of used nodes does not change if no node is taken or freed.
LEMMA NodesCountSame ==
    ASSUME \A m \in Node : flags'[m] = {} <=> flags[m] = {}
    PROVE  \A r \in Row : Cardinality(UsedIn(r))' = Cardinality(UsedIn(r))
BY DEF UsedIn

\* How far the counter of row r is off, and that it is off by the deaths at most.
Off(r) == used[r] - Cardinality(UsedIn(r)) + Cardinality(Counting(r))
                  - Cardinality(Freeing(r))

DriftOK == /\ used \in [Row -> Int]
           /\ \A r \in Row : Off(r) <= crashes /\ -Off(r) <= crashes

\* A step that leaves nodes and counters alone, and starts before and ends
\* after none of the pairs of steps, changes no sum.
LEMMA DriftQuiet ==
    ASSUME Shape, DriftOK, NEW p \in Process,
           (\E o \in Ops : Start(p, o)) \/ Step(p),
           pc[p] \notin {"count", "undone", "unlinked"},
           pc'[p] \notin {"count", "undone", "unlinked"},
           \A m \in Node : flags'[m] = {} <=> flags[m] = {},
           used' = used, crashes' = crashes
    PROVE  DriftOK'
<1>1. ASSUME NEW r \in Row PROVE Off(r)' = Off(r)
  <2>1. Cardinality(UsedIn(r))' = Cardinality(UsedIn(r))
    BY NodesCountSame
  <2>2. /\ Cardinality(Counting(r))' = Cardinality(Counting(r))
        /\ Cardinality(Freeing(r))' = Cardinality(Freeing(r))
    BY CallsCount, SetsFinite DEF One
  <2>. QED BY <2>1, <2>2 DEF Off
<1>. QED BY <1>1 DEF DriftOK

\* A node more, and a call more before ++u().
LEMMA DriftAlloc ==
    ASSUME IInv, DriftOK, NEW p \in Process, AllocNode(p)
    PROVE  DriftOK'
<1>. Shape /\ NodesOK
  BY DEF IInv
<1>0. PICK n : n = Candidate(p)
  OBVIOUS
<1>1. /\ n \in Node /\ flags[n] = {} /\ flags'[n] = {"used"} /\ n[1] = row[p]
      /\ \A k \in Node : k # n => flags'[k] = flags[k]
  BY <1>0, AllocEffect DEF Candidate, NodeOfHash, Same
<1>2. /\ pc[p] = "alloc" /\ pc'[p] = "count" /\ row'[p] = row[p]
      /\ used' = used /\ crashes' = crashes
  BY DEF AllocNode, Goto, Shape
<1>3. ASSUME NEW r \in Row PROVE Off(r)' = Off(r)
  <2>1. Cardinality(UsedIn(r))' = Cardinality(UsedIn(r)) + One(row[p] = r)
    <3>1. \A k \in Node : k # n => (flags'[k] = {} <=> flags[k] = {})
      BY <1>1
    <3>2. Cardinality(UsedIn(r))' = Cardinality(UsedIn(r))
             - One(n[1] = r /\ flags[n] # {}) + One(n[1] = r /\ flags'[n] # {})
      BY <1>1, <3>1, NodesCount
    <3>. QED BY <1>1, <3>2, SetsFinite DEF One
  <2>2. /\ Cardinality(Counting(r))' = Cardinality(Counting(r)) + One(row[p] = r)
        /\ Cardinality(Freeing(r))' = Cardinality(Freeing(r))
    BY <1>2, CallsCount, SetsFinite DEF One, Step
  <2>. QED BY <1>2, <2>1, <2>2, SetsFinite DEF Off, One, DriftOK
<1>. QED BY <1>2, <1>3 DEF DriftOK

\* ++u(), and a call less before it.
LEMMA DriftCount ==
    ASSUME IInv, DriftOK, NEW p \in Process, Count(p)
    PROVE  DriftOK'
<1>. Shape
  BY DEF IInv
<1>1. /\ pc[p] = "count" /\ pc'[p] \in {"alloc", "fill"} /\ row[p] \in Row
      /\ used' = [used EXCEPT ![row[p]] = @ + 1]
      /\ flags' = flags /\ crashes' = crashes
  BY DEF Count, Goto, Shape
<1>2. ASSUME NEW r \in Row PROVE Off(r)' = Off(r)
  <2>1. Cardinality(UsedIn(r))' = Cardinality(UsedIn(r))
    BY <1>1 DEF UsedIn
  <2>2. /\ Cardinality(Counting(r))' = Cardinality(Counting(r)) - One(row[p] = r)
        /\ Cardinality(Freeing(r))' = Cardinality(Freeing(r))
    BY <1>1, CallsCount, SetsFinite DEF One, Step
  <2>3. used'[r] = used[r] + One(row[p] = r)
    BY <1>1 DEF One, DriftOK
  <2>. QED BY <2>1, <2>2, <2>3, SetsFinite DEF Off, One, DriftOK
<1>. QED BY <1>1, <1>2 DEF DriftOK

\* Freeing node n, which is then the spare of p.
LEMMA DriftFree ==
    ASSUME IInv, DriftOK, NEW p \in Process, Undo(p) \/ Unlink(p), NEW n \in Node,
           Free(n), flags[n] # {}, spare'[p] = n
    PROVE  DriftOK'
<1>. Shape
  BY DEF IInv
<1>1. /\ pc[p] \in {"undo", "unlink"} /\ pc'[p] \in {"undone", "unlinked"}
      /\ used' = used /\ crashes' = crashes
  BY DEF Undo, Unlink, Goto, Shape
<1>2. flags'[n] = {} /\ \A k \in Node : k # n => flags'[k] = flags[k]
  BY FreeEffect DEF Same
<1>3. ASSUME NEW r \in Row PROVE Off(r)' = Off(r)
  <2>1. Cardinality(UsedIn(r))' = Cardinality(UsedIn(r)) - One(n[1] = r)
    <3>1. \A k \in Node : k # n => (flags'[k] = {} <=> flags[k] = {})
      BY <1>2
    <3>2. Cardinality(UsedIn(r))' = Cardinality(UsedIn(r))
             - One(n[1] = r /\ flags[n] # {}) + One(n[1] = r /\ flags'[n] # {})
      BY <3>1, NodesCount
    <3>. QED BY <1>2, <3>2, SetsFinite DEF One
  <2>2. /\ Cardinality(Counting(r))' = Cardinality(Counting(r))
        /\ Cardinality(Freeing(r))' = Cardinality(Freeing(r)) + One(n[1] = r)
    BY <1>1, CallsCount, SetsFinite DEF One, Step
  <2>. QED BY <1>1, <2>1, <2>2, SetsFinite DEF Off, One, DriftOK
<1>. QED BY <1>1, <1>3 DEF DriftOK

\* --u(), and a call less before it.
LEMMA DriftUncount ==
    ASSUME IInv, DriftOK, NEW p \in Process, Undone(p) \/ Unlinked(p)
    PROVE  DriftOK'
<1>. Shape /\ CallsOK
  BY DEF IInv
<1>1. /\ pc[p] \in {"undone", "unlinked"} /\ pc'[p] \in {"idle", "undo", "unlink"}
      /\ used' = [used EXCEPT ![spare[p][1]] = @ - 1]
      /\ flags' = flags /\ crashes' = crashes
  BY FinishCall DEF Undone, Unlinked, Goto, Shape
<1>2. spare[p] \in Node /\ spare[p][1] \in Row
  BY <1>1, NodeFacts DEF CallsOK, CallOK
<1>3. ASSUME NEW r \in Row PROVE Off(r)' = Off(r)
  <2>1. Cardinality(UsedIn(r))' = Cardinality(UsedIn(r))
    BY <1>1 DEF UsedIn
  <2>2. /\ Cardinality(Counting(r))' = Cardinality(Counting(r))
        /\ Cardinality(Freeing(r))' = Cardinality(Freeing(r)) - One(spare[p][1] = r)
    BY <1>1, CallsCount, SetsFinite DEF One, Step
  <2>3. used'[r] = used[r] - One(spare[p][1] = r)
    BY <1>1, <1>2 DEF One, DriftOK
  <2>. QED BY <2>1, <2>2, <2>3, SetsFinite DEF Off, One, DriftOK
<1>. QED BY <1>1, <1>2, <1>3 DEF DriftOK

\* A death loses one count at most.
LEMMA DriftCrash ==
    ASSUME IInv, DriftOK, NEW p \in Process, Crash(p)
    PROVE  DriftOK'
<1>. Shape
  BY DEF IInv
<1>1. /\ pc'[p] = "idle" /\ flags' = flags /\ used' = used /\ crashes \in Nat
      /\ crashes' = crashes + 1
  BY FinishCall DEF Crash, shared, Shape
<1>2. ASSUME NEW r \in Row
      PROVE  Off(r)' <= Off(r) + 1 /\ Off(r) - 1 <= Off(r)' /\ Off(r) \in Int /\ Off(r)' \in Int
  <2>1. Cardinality(UsedIn(r))' = Cardinality(UsedIn(r))
    BY <1>1, NodesCountSame
  <2>2. /\ Cardinality(Counting(r))' = Cardinality(Counting(r))
                 - One(pc[p] = "count" /\ row[p] = r)
        /\ Cardinality(Freeing(r))' = Cardinality(Freeing(r))
                 - One(pc[p] \in {"undone", "unlinked"} /\ spare[p][1] = r)
    BY <1>1, CallsCount, SetsFinite DEF One
  <2>3. CASE pc[p] = "count"
    BY <1>1, <2>1, <2>2, <2>3, SetsFinite DEF Off, One, DriftOK
  <2>4. CASE pc[p] # "count"
    BY <1>1, <2>1, <2>2, <2>4, SetsFinite DEF Off, One, DriftOK
  <2>. QED BY <2>3, <2>4
<1>3. ASSUME NEW r \in Row PROVE Off(r)' <= crashes' /\ -Off(r)' <= crashes'
  BY <1>1, <1>2 DEF DriftOK
<1>. QED BY <1>1, <1>3 DEF DriftOK

\* Every step keeps DriftOK.
LEMMA DriftStep ==
    ASSUME IInv, DriftOK, Next
    PROVE  DriftOK'
<1>. Shape /\ CallsOK /\ NodesOK /\ MinesOK /\ FoundsOK
  BY DEF IInv
<1>1. CASE Clear
  <2>1. \A p \in Process : pc'[p] = "idle"
    BY <1>1 DEF Clear, locals
  <2>2. \A r \in Row : UsedIn(r)' = {} /\ Counting(r)' = {} /\ Freeing(r)' = {}
    BY <1>1, <2>1 DEF Clear, UsedIn, Counting, Freeing
  <2>3. \A r \in Row : used'[r] = 0 /\ Off(r)' = 0
    BY <1>1, <2>2, FS_EmptySet DEF Clear, Off
  <2>. QED BY <1>1, <2>3 DEF Clear, DriftOK
<1>2. ASSUME NEW p \in Process,
             \/ \E o \in Ops : Start(p, o)
             \/ SearchHit(p) \/ SearchNextRow(p) \/ SearchMiss(p)
             \/ AllocNextRow(p) \/ AllocFail(p) \/ Read(p) \/ Attach(p)
      PROVE  DriftOK'
  <2>1. pc[p] \notin {"count", "undone", "unlinked"}
    BY <1>2 DEF Start, SearchHit, SearchNextRow, SearchMiss, AllocNextRow,
                AllocFail, Read, Attach
  <2>2. pc'[p] \notin {"count", "undone", "unlinked"}
    BY <1>2, <2>1, FinishCall DEF Start, SearchHit, SearchNextRow, SearchMiss,
                AllocNextRow, AllocFail, Read, Attach, Goto, Shape
  <2>3. flags' = flags /\ used' = used /\ crashes' = crashes
    BY <1>2 DEF Start, SearchHit, SearchNextRow, SearchMiss, AllocNextRow,
                AllocFail, Read, Attach, shared
  <2>. QED BY <1>2, <2>1, <2>2, <2>3, DriftQuiet DEF Step
<1>3. ASSUME NEW p \in Process, Fill(p) \/ Publish(p) PROVE DriftOK'
  <2>1. /\ pc[p] \in {"fill", "publish"} /\ used' = used /\ crashes' = crashes
        /\ pc'[p] \in {"publish", "unlink", "idle"}
    BY <1>3, FinishCall DEF Fill, Publish, Goto, Shape
  <2>2. \A m \in Node : flags'[m] = {} <=> flags[m] = {}
    <3>1. CASE Fill(p)
      <4>1. \A m \in Node : flags[m] \subseteq flags'[m]
        BY <3>1 DEF Fill
      <4>2. ASSUME NEW m \in Node, flags[m] = {} PROVE flags'[m] = {}
        <5>1. ~Has(p, m)
          BY <4>2, HasFacts
        <5>. QED BY <3>1, <4>2, <5>1, FillEffect DEF Has, Fill, BuildPC
      <4>. QED BY <4>1, <4>2
    <3>2. CASE Publish(p)
      BY <3>2, PublishEffect
    <3>. QED BY <1>3, <3>1, <3>2
  <2>. QED BY <1>3, <2>1, <2>2, DriftQuiet DEF Step
<1>4. ASSUME NEW p \in Process, Undo(p) PROVE DriftOK'
  <2>1. mine[p] # <<>> /\ mine[p] \in Seq(Node) /\ pc[p] = "undo"
    BY <1>4 DEF Undo, CallsOK, CallOK, Shape
  <2>2. Head(mine[p]) = mine[p][1] /\ 1 \in 1..Len(mine[p])
    BY <2>1
  <2>3. PICK n : n = Head(mine[p])
    OBVIOUS
  <2>4. n \in Node /\ flags[n] # {}
    BY <2>1, <2>2, <2>3, RawFacts DEF BuildPC
  <2>5. Free(n) /\ spare'[p] = n
    BY <1>4, <2>3 DEF Undo, Shape
  <2>. QED BY <1>4, <2>4, <2>5, DriftFree
<1>5. ASSUME NEW p \in Process, Unlink(p) PROVE DriftOK'
  <2>1. PICK n : n = found[p]
    OBVIOUS
  <2>2. n \in Node /\ flags[n] # {}
    BY <1>5, <2>1, FreedFacts DEF Unlink, FoundHead, FoundRest
  <2>3. Free(n) /\ spare'[p] = n
    BY <1>5, <2>1 DEF Unlink, Shape
  <2>. QED BY <1>5, <2>2, <2>3, DriftFree
<1>. QED BY <1>1, <1>2, <1>3, <1>4, <1>5, DriftAlloc, DriftCount, DriftUncount,
            DriftCrash DEF Next, Step

\* The counters lag behind the nodes only by the calls between the two steps,
\* and every death leaves them wrong by at most one.
THEOREM Drifting == Spec => []CountersDrift
<1>1. Init => DriftOK
  <2>. SUFFICES ASSUME Init PROVE DriftOK
    OBVIOUS
  <2>1. \A r \in Row : UsedIn(r) = {} /\ Counting(r) = {} /\ Freeing(r) = {}
    BY DEF Init, UsedIn, Counting, Freeing
  <2>2. \A r \in Row : used[r] = 0 /\ Off(r) = 0
    <3>1. \A r \in Row : used[r] = 0
      BY DEF Init
    <3>. QED BY <2>1, <3>1, FS_EmptySet DEF Off
  <2>. QED BY <2>2 DEF Init, DriftOK
<1>2. IInv /\ DriftOK /\ [Next]_ahVars => DriftOK'
  <2>1. ASSUME DriftOK, UNCHANGED ahVars PROVE DriftOK'
    <3>1. UNCHANGED shared /\ UNCHANGED locals /\ crashes' = crashes
      BY <2>1 DEF ahVars
    <3>. QED BY <2>1, <3>1
             DEF shared, locals, DriftOK, Off, UsedIn, Counting, Freeing
  <2>. QED BY <2>1, DriftStep
<1>3. IInv /\ DriftOK => CountersDrift
  <2>. SUFFICES ASSUME IInv, DriftOK, NEW r \in Row PROVE Abs(Drift(r)) <= crashes
    BY DEF CountersDrift
  <2>1. Drift(r) = Off(r)
    BY DEF Drift, Off, UsedIn, Counting, Freeing
  <2>2. Off(r) \in Int
    BY SetsFinite DEF Off, DriftOK
  <2>. QED BY <2>1, <2>2 DEF DriftOK, Abs
<1>. QED BY <1>1, <1>2, <1>3, Invariant, PTL DEF Spec

-----------------------------------------------------------------------------
(* No counter falls below zero, whoever dies where: the nodes that are still *)
(* to be given back, and those just given back, have all been counted.       *)

\* Node n is one that p has taken and counted.
Counted(p, n) ==
    /\ pc[p] \in BuildPC
    /\ \E i \in 1..Len(mine[p]) :
          /\ n = mine[p][i]
          /\ pc[p] = "count" => i < Len(mine[p])

Owing(n) == data[n].part > 0 \/ \E p \in Process : Counted(p, n)
Owed(r)  == {n \in Node : n[1] = r /\ Owing(n)}

PaidOK == /\ used \in [Row -> Int]
          /\ \A r \in Row : Cardinality(Owed(r)) + Cardinality(Freeing(r)) <= used[r]

\* A row owes finitely many nodes.
LEMMA OwedFinite ==
    ASSUME NEW r \in Row
    PROVE  IsFiniteSet(Owed(r)) /\ Cardinality(Owed(r)) \in Nat
<1>1. Owed(r) \in SUBSET {n \in Node : n[1] = r}
  BY DEF Owed
<1>. QED BY <1>1, RowFinite, FS_Subset, FS_CardinalityType

\* If no node but n begins to be owed, the number changes by n at most.
LEMMA OwedStep ==
    ASSUME NEW r \in Row, NEW n \in Node,
           \A m \in Node : m # n /\ Owing(m)' => Owing(m)
    PROVE  /\ Cardinality(Owed(r))' \in Nat
           /\ Cardinality(Owed(r))' <= Cardinality(Owed(r))
                 - One(n[1] = r /\ Owing(n)) + One(n[1] = r /\ Owing(n)')
<1>. DEFINE X == (Owed(r) \ {n}) \cup (IF n \in Owed(r)' THEN {n} ELSE {})
<1>1. Owed(r)' \in SUBSET X
  BY DEF Owed
<1>2. Owed(r) \ {n} = X \ {n} /\ (n \in X <=> n \in Owed(r)')
  OBVIOUS
<1>. HIDE DEF X
<1>3. /\ IsFiniteSet(X) /\ Cardinality(X) \in Nat
      /\ Cardinality(X) = Cardinality(Owed(r)) - One(n \in Owed(r)) + One(n \in X)
  BY <1>2, OwedFinite, CardStep
<1>4. IsFiniteSet(Owed(r)') /\ Cardinality(Owed(r)') <= Cardinality(X)
  BY <1>1, <1>3, FS_Subset
<1>5. Cardinality(Owed(r)') \in Nat
  BY <1>4, FS_CardinalityType
<1>6. /\ n \in Owed(r) <=> n[1] = r /\ Owing(n)
      /\ n \in Owed(r)' <=> n[1] = r /\ Owing(n)'
  BY DEF Owed
<1>7. /\ One(n \in Owed(r)) = One(n[1] = r /\ Owing(n))
      /\ One(n \in X) = One(n[1] = r /\ Owing(n)')
  BY <1>2, <1>6 DEF One
<1>. QED BY <1>3, <1>4, <1>5, <1>7

\* If no node begins to be owed, no row owes more.
LEMMA OwedLess ==
    ASSUME NEW r \in Row, \A m \in Node : Owing(m)' => Owing(m)
    PROVE  Cardinality(Owed(r))' \in Nat /\ Cardinality(Owed(r))' <= Cardinality(Owed(r))
<1>1. Owed(r)' \in SUBSET Owed(r)
  BY DEF Owed
<1>2. IsFiniteSet(Owed(r)') /\ Cardinality(Owed(r)') <= Cardinality(Owed(r))
  BY <1>1, OwedFinite, FS_Subset
<1>. QED BY <1>2, FS_CardinalityType

\* What the others have counted stays with them.
LEMMA OthersCounted ==
    ASSUME Shape, NEW p \in Process,
           (\E o \in Ops : Start(p, o)) \/ Step(p) \/ Crash(p),
           NEW n \in Node, data'[n].part > 0 => Owing(n), Counted(p, n)' => Owing(n),
           Owing(n)'
    PROVE  Owing(n)
<1>1. ASSUME NEW q \in Process, q # p, Counted(q, n)' PROVE Counted(q, n)
  <2>1. pc'[q] = pc[q] /\ mine'[q] = mine[q]
    BY <1>1, OthersStay
  <2>. QED BY <1>1, <2>1 DEF Counted
<1>. QED BY <1>1 DEF Owing

\* A step by which no node begins to be owed, and which counts nothing.
LEMMA PaidLess ==
    ASSUME Shape, PaidOK, NEW p \in Process,
           (\E o \in Ops : Start(p, o)) \/ Step(p) \/ Crash(p),
           \A n \in Node : Owing(n)' => Owing(n),
           pc'[p] \notin {"undone", "unlinked"}, used' = used
    PROVE  PaidOK'
<1>1. ASSUME NEW r \in Row
      PROVE  Cardinality(Owed(r))' + Cardinality(Freeing(r))' <= used'[r]
  <2>1. Cardinality(Owed(r))' \in Nat /\ Cardinality(Owed(r))' <= Cardinality(Owed(r))
    BY OwedLess
  <2>2. /\ Cardinality(Freeing(r))' \in Nat
        /\ Cardinality(Freeing(r))' <= Cardinality(Freeing(r))
    <3>1. \A q \in Process : q # p => pc'[q] = pc[q] /\ spare'[q] = spare[q]
      BY OthersStay
    <3>2. Freeing(r)' \in SUBSET Freeing(r)
      BY <3>1 DEF Freeing
    <3>3. IsFiniteSet(Freeing(r)') /\ Cardinality(Freeing(r)') <= Cardinality(Freeing(r))
      BY <3>2, SetsFinite, FS_Subset
    <3>. QED BY <3>3, FS_CardinalityType
  <2>. QED BY <2>1, <2>2, OwedFinite, SetsFinite DEF PaidOK
<1>. QED BY <1>1 DEF PaidOK

\* Of the steps that do not write nodes only Count makes a node owed.
LEMMA QuietPaid ==
    ASSUME IInv, PaidOK, NEW p \in Process, Quiet(p), ~Count(p), ~Undone(p), ~Unlinked(p)
    PROVE  PaidOK'
<1>. Shape /\ CallsOK
  BY DEF IInv
<1>1. used' = used /\ data' = data
  BY QuietEffect DEF Quiet, Start, SearchHit, SearchNextRow, SearchMiss, AllocNextRow,
     AllocFail, Read, Attach, Crash, shared
<1>2. /\ pc'[p] \notin {"undone", "unlinked"}
      /\ pc[p] # "count" \/ pc'[p] = "idle"
  <2>1. CASE Finish(p)
    BY <2>1, FinishCall
  <2>2. CASE ~Finish(p)
    BY <2>2 DEF Quiet, Start, SearchHit, SearchNextRow, SearchMiss, AllocNextRow,
       AllocFail, Read, Attach, Crash, Goto, Shape
  <2>. QED BY <2>1, <2>2
<1>3. ASSUME NEW n \in Node, Counted(p, n)' PROVE Owing(n)
  <2>1. /\ pc'[p] \in BuildPC /\ pc[p] \in BuildPC /\ mine'[p] = mine[p]
        /\ pc[p] # "count"
    BY <1>2, <1>3, QuietMine DEF Counted, BuildPC
  <2>2. Counted(p, n)
    BY <1>3, <2>1 DEF Counted
  <2>. QED BY <2>2 DEF Owing
<1>4. \A n \in Node : data'[n].part > 0 => Owing(n)
  BY <1>1 DEF Owing
<1>5. (\E o \in Ops : Start(p, o)) \/ Step(p) \/ Crash(p)
  BY DEF Quiet, Step
<1>6. \A n \in Node : Owing(n)' => Owing(n)
  BY <1>3, <1>4, <1>5, OthersCounted
<1>. QED BY <1>1, <1>2, <1>5, <1>6, PaidLess

\* Taking, filling and publishing nodes makes none owed that was not.
LEMMA BuildPaid ==
    ASSUME IInv, PaidOK, NEW p \in Process, AllocNode(p) \/ Fill(p) \/ Publish(p)
    PROVE  PaidOK'
<1>. Shape /\ CallsOK /\ NodesOK /\ MinesOK
  BY DEF IInv
<1>1. used' = used /\ pc'[p] \in {"count", "publish", "unlink", "idle"}
  BY FinishCall DEF AllocNode, Fill, Publish, Goto, Shape
<1>2. ASSUME NEW n \in Node, Counted(p, n)' PROVE Owing(n)
  <2>1. CASE AllocNode(p)
    <3>1. /\ mine'[p] = Append(mine[p], Candidate(p)) /\ mine[p] \in Seq(Node)
          /\ Candidate(p) \in Node /\ pc[p] = "alloc" /\ pc'[p] = "count"
      BY <2>1, CandidateInNode DEF AllocNode, Goto, Shape
    <3>2. /\ Len(mine'[p]) = Len(mine[p]) + 1 /\ Len(mine[p]) \in Nat
          /\ \A i \in 1..Len(mine[p]) : mine'[p][i] = mine[p][i]
      BY <3>1
    <3>3. PICK i \in 1..Len(mine'[p]) : n = mine'[p][i] /\ i < Len(mine'[p])
      BY <1>2, <3>1 DEF Counted
    <3>4. i \in 1..Len(mine[p]) /\ n = mine[p][i]
      BY <3>2, <3>3
    <3>. QED BY <3>1, <3>4 DEF Owing, Counted, BuildPC
  <2>2. CASE Fill(p)
    <3>1. mine' = mine /\ pc[p] = "fill"
      BY <2>2 DEF Fill
    <3>. QED BY <1>2, <3>1 DEF Owing, Counted, BuildPC
  <2>3. CASE Publish(p)
    <3>1. pc'[p] \notin BuildPC
      BY <2>3, FinishCall DEF Publish, Goto, Shape, BuildPC
    <3>. QED BY <1>2, <3>1 DEF Counted
  <2>. QED BY <2>1, <2>2, <2>3
<1>3. ASSUME NEW n \in Node, data'[n].part > 0 PROVE Owing(n)
  <2>1. CASE Fill(p)
    <3>1. pc[p] = "fill"
      BY <2>1 DEF Fill
    <3>2. CASE Has(p, n)
      BY <3>1, <3>2 DEF Has, Owing, Counted
    <3>3. CASE ~Has(p, n)
      BY <1>3, <2>1, <3>1, <3>3, FillEffect DEF Has, BuildPC, Owing
    <3>. QED BY <3>2, <3>3
  <2>2. CASE AllocNode(p) \/ Publish(p)
    BY <1>3, <2>2 DEF AllocNode, Publish, Owing
  <2>. QED BY <2>1, <2>2
<1>4. \A n \in Node : Owing(n)' => Owing(n)
  BY <1>2, <1>3, OthersCounted DEF Step
<1>. QED BY <1>1, <1>4, PaidLess DEF Step

\* ++u() pays for the node that it counts.
LEMMA CountPaid ==
    ASSUME IInv, PaidOK, NEW p \in Process, Count(p)
    PROVE  PaidOK'
<1>. Shape /\ CallsOK
  BY DEF IInv
<1>1. /\ pc[p] = "count" /\ pc'[p] \in {"alloc", "fill"} /\ mine' = mine /\ data' = data
      /\ used' = [used EXCEPT ![row[p]] = @ + 1] /\ row[p] \in Row
  BY DEF Count, Goto, Shape
<1>2. /\ mine[p] \in Seq(Node) /\ Len(mine[p]) \in Nat \ {0}
      /\ mine[p][Len(mine[p])][1] = row[p]
  <2>1. mine[p] \in Seq(Node) /\ Len(mine[p]) \in Nat
    BY DEF Shape
  <2>2. Len(mine[p]) \in 1..Size[op[p].value] /\ mine[p][Len(mine[p])][1] = row[p]
    BY <1>1 DEF CallsOK, CallOK
  <2>. QED BY <2>1, <2>2
<1>3. PICK n : n = mine[p][Len(mine[p])]
  OBVIOUS
<1>4. n \in Node /\ n[1] = row[p]
  BY <1>2, <1>3
<1>5. ASSUME NEW m \in Node, m # n, Owing(m)' PROVE Owing(m)
  <2>1. ASSUME Counted(p, m)' PROVE Counted(p, m)
    <3>1. PICK i \in 1..Len(mine[p]) : m = mine[p][i]
      BY <1>1, <2>1 DEF Counted
    <3>2. i < Len(mine[p])
      BY <1>2, <1>3, <1>5, <3>1
    <3>. QED BY <1>1, <3>1, <3>2 DEF Counted, BuildPC
  <2>2. data'[m].part > 0 => Owing(m)
    BY <1>1 DEF Owing
  <2>. QED BY <1>5, <2>1, <2>2, OthersCounted DEF Owing, Step
<1>6. ASSUME NEW r \in Row
      PROVE  Cardinality(Owed(r))' + Cardinality(Freeing(r))' <= used'[r]
  <2>1. /\ Cardinality(Owed(r))' \in Nat
        /\ Cardinality(Owed(r))' <= Cardinality(Owed(r)) + One(row[p] = r)
    BY <1>4, <1>5, OwedStep, OwedFinite DEF One
  <2>2. Cardinality(Freeing(r))' = Cardinality(Freeing(r))
    BY <1>1, CallsCount, SetsFinite DEF One, Step
  <2>3. used'[r] = used[r] + One(row[p] = r)
    BY <1>1 DEF One, PaidOK
  <2>. QED BY <2>1, <2>2, <2>3, OwedFinite, SetsFinite DEF PaidOK, One
<1>. QED BY <1>1, <1>6 DEF PaidOK

\* A node that is freed is owed no more; it is in the hands of p now.
LEMMA FreePaid ==
    ASSUME IInv, PaidOK, NEW p \in Process, Undo(p) \/ Unlink(p)
    PROVE  PaidOK'
<1>. Shape /\ CallsOK /\ NodesOK /\ MinesOK /\ FoundsOK
  BY DEF IInv
<1>1. PICK n : n = IF pc[p] = "undo" THEN Head(mine[p]) ELSE found[p]
  OBVIOUS
<1>2. /\ used' = used /\ pc[p] \in {"undo", "unlink"} /\ pc'[p] \in {"undone", "unlinked"}
      /\ spare'[p] = n /\ Free(n)
  BY <1>1 DEF Undo, Unlink, Goto, Shape
<1>3. n \in Node /\ Owing(n)
  <2>1. CASE Undo(p)
    <3>1. mine[p] # <<>> /\ mine[p] \in Seq(Node) /\ pc[p] = "undo"
      BY <2>1 DEF Undo, CallsOK, CallOK, Shape
    <3>2. n = mine[p][1] /\ 1 \in 1..Len(mine[p]) /\ n \in Node
      BY <1>1, <3>1
    <3>. QED BY <3>1, <3>2 DEF Owing, Counted, BuildPC
  <2>2. CASE Unlink(p)
    BY <1>1, <2>2, FreedFacts DEF Unlink, Owing
  <2>. QED BY <2>1, <2>2
<1>4. data'[n].part = 0 /\ \A m \in Node : m # n => Same(m)
  BY <1>2, <1>3, FreeEffect
<1>5. ASSUME NEW m \in Node, Counted(p, m)' PROVE Counted(p, m) /\ m # n
  <2>1. CASE Undo(p)
    <3>1. /\ mine[p] # <<>> /\ mine[p] \in Seq(Node) /\ pc[p] = "undo"
          /\ mine'[p] = Tail(mine[p])
      BY <2>1 DEF Undo, CallsOK, CallOK, Shape
    <3>2. /\ n = mine[p][1] /\ 1 \in 1..Len(mine[p]) /\ Len(mine[p]) \in Nat
          /\ Len(Tail(mine[p])) = Len(mine[p]) - 1
          /\ \A i \in 1..(Len(mine[p]) - 1) : Tail(mine[p])[i] = mine[p][i + 1]
      BY <1>1, <3>1
    <3>3. PICK i \in 1..(Len(mine[p]) - 1) : m = mine[p][i + 1]
      BY <1>5, <3>1, <3>2 DEF Counted
    <3>4. i + 1 \in 1..Len(mine[p]) /\ i + 1 # 1
      BY <3>2, <3>3
    <3>5. m # n
      BY <3>1, <3>2, <3>3, <3>4 DEF MinesOK, MineOK, BuildPC
    <3>. QED BY <3>1, <3>3, <3>4, <3>5 DEF Counted, BuildPC
  <2>2. CASE Unlink(p)
    BY <1>5, <2>2 DEF Unlink, Goto, Shape, Counted, BuildPC
  <2>. QED BY <2>1, <2>2
<1>6. ASSUME NEW m \in Node, m # n, Owing(m)' PROVE Owing(m)
  <2>1. data'[m].part > 0 => Owing(m)
    BY <1>4, <1>6 DEF Same, Owing
  <2>. QED BY <1>5, <1>6, <2>1, OthersCounted DEF Owing, Step
<1>7. ~Owing(n)'
  <2>1. ASSUME NEW q \in Process, q # p, Counted(q, n)' PROVE FALSE
    <3>1. pc'[q] = pc[q] /\ mine'[q] = mine[q]
      BY <2>1, OthersStay DEF Step
    <3>2. Has(q, n)
      BY <2>1, <3>1 DEF Counted, Has
    <3>3. CASE Undo(p)
      <4>1. mine[p] # <<>> /\ mine[p] \in Seq(Node) /\ pc[p] = "undo"
        BY <3>3 DEF Undo, CallsOK, CallOK, Shape
      <4>2. n = mine[p][1] /\ 1 \in 1..Len(mine[p])
        BY <1>1, <4>1
      <4>3. Has(p, n)
        BY <4>1, <4>2 DEF Has, BuildPC
      <4>. QED BY <2>1, <3>2, <4>3, HasOne
    <3>4. CASE Unlink(p)
      BY <1>1, <3>2, <3>4, FreedFree DEF Unlink
    <3>. QED BY <3>3, <3>4
  <2>. QED BY <1>3, <1>4, <1>5, <2>1 DEF Owing
<1>8. ASSUME NEW r \in Row
      PROVE  Cardinality(Owed(r))' + Cardinality(Freeing(r))' <= used'[r]
  <2>1. /\ Cardinality(Owed(r))' \in Nat
        /\ Cardinality(Owed(r))' <= Cardinality(Owed(r)) - One(n[1] = r)
    BY <1>3, <1>6, <1>7, OwedStep, OwedFinite DEF One
  <2>2. Cardinality(Freeing(r))' = Cardinality(Freeing(r)) + One(n[1] = r)
    BY <1>2, CallsCount, SetsFinite DEF One, Step
  <2>. QED BY <1>2, <2>1, <2>2, OwedFinite, SetsFinite DEF PaidOK, One
<1>. QED BY <1>2, <1>8 DEF PaidOK

\* --u() for the node that was freed.
LEMMA UncountPaid ==
    ASSUME IInv, PaidOK, NEW p \in Process, Undone(p) \/ Unlinked(p)
    PROVE  PaidOK'
<1>. Shape /\ CallsOK
  BY DEF IInv
<1>1. /\ pc[p] \in {"undone", "unlinked"} /\ pc'[p] \in {"idle", "undo", "unlink"}
      /\ used' = [used EXCEPT ![spare[p][1]] = @ - 1] /\ data' = data
      /\ pc'[p] = "undo" => pc[p] = "undone" /\ mine' = mine
  BY FinishCall DEF Undone, Unlinked, Goto, Shape
<1>2. spare[p] \in Node /\ spare[p][1] \in Row
  BY <1>1, NodeFacts DEF CallsOK, CallOK
<1>3. ASSUME NEW n \in Node, Counted(p, n)' PROVE Owing(n)
  <2>1. pc'[p] = "undo"
    BY <1>1, <1>3 DEF Counted, BuildPC
  <2>. QED BY <1>1, <1>3, <2>1 DEF Counted, Owing, BuildPC
<1>4. \A n \in Node : data'[n].part > 0 => Owing(n)
  BY <1>1 DEF Owing
<1>5. \A n \in Node : Owing(n)' => Owing(n)
  BY <1>3, <1>4, OthersCounted DEF Step
<1>6. ASSUME NEW r \in Row
      PROVE  Cardinality(Owed(r))' + Cardinality(Freeing(r))' <= used'[r]
  <2>1. /\ Cardinality(Owed(r))' \in Nat
        /\ Cardinality(Owed(r))' <= Cardinality(Owed(r))
    BY <1>5, OwedLess
  <2>2. Cardinality(Freeing(r))' = Cardinality(Freeing(r)) - One(spare[p][1] = r)
    BY <1>1, CallsCount, SetsFinite DEF One, Step
  <2>3. used'[r] = used[r] - One(spare[p][1] = r)
    BY <1>1, <1>2 DEF One, PaidOK
  <2>. QED BY <2>1, <2>2, <2>3, OwedFinite, SetsFinite DEF PaidOK, One
<1>. QED BY <1>1, <1>2, <1>6 DEF PaidOK

\* Every step keeps PaidOK.
LEMMA PaidStep ==
    ASSUME IInv, PaidOK, Next
    PROVE  PaidOK'
<1>1. CASE Clear
  <2>1. \A p \in Process : pc'[p] = "idle"
    BY <1>1 DEF Clear, locals
  <2>2. \A n \in Node : ~Owing(n)'
    BY <1>1, <2>1 DEF Clear, Owing, Counted, BuildPC, NoData
  <2>3. \A r \in Row : Owed(r)' = {} /\ Freeing(r)' = {}
    BY <2>1, <2>2 DEF Owed, Freeing
  <2>4. \A r \in Row : used'[r] = 0
    BY <1>1 DEF Clear
  <2>5. used' \in [Row -> Int]
    BY <1>1 DEF Clear
  <2>. QED BY <2>3, <2>4, <2>5, FS_EmptySet DEF PaidOK
<1>. QED BY <1>1, QuietPaid, BuildPaid, CountPaid, FreePaid, UncountPaid
         DEF Next, Step, Quiet

\* The types of all variables; what is not in Shape is that no counter falls
\* below zero, although a death leaves it too high or too low.
THEOREM TypeCorrect == Spec => []TypeOK
<1>1. Init => PaidOK
  <2>. SUFFICES ASSUME Init PROVE PaidOK
    OBVIOUS
  <2>1. \A n \in Node : ~Owing(n)
    BY DEF Init, Owing, Counted, BuildPC, NoData
  <2>2. \A r \in Row : Owed(r) = {} /\ Freeing(r) = {}
    BY <2>1 DEF Init, Owed, Freeing
  <2>3. used \in [Row -> Int] /\ \A r \in Row : used[r] = 0
    BY DEF Init
  <2>. QED BY <2>2, <2>3, FS_EmptySet DEF PaidOK
<1>2. IInv /\ PaidOK /\ [Next]_ahVars => PaidOK'
  <2>1. ASSUME PaidOK, UNCHANGED ahVars PROVE PaidOK'
    <3>1. UNCHANGED shared /\ UNCHANGED locals
      BY <2>1 DEF ahVars
    <3>. QED BY <2>1, <3>1 DEF shared, locals, PaidOK, Owed, Owing, Counted, Freeing
  <2>. QED BY <2>1, PaidStep
<1>3. IInv /\ PaidOK => TypeOK
  <2>. SUFFICES ASSUME IInv, PaidOK PROVE TypeOK
    OBVIOUS
  <2>1. \A r \in Row : used[r] \in Nat
    BY OwedFinite, SetsFinite DEF PaidOK
  <2>2. used \in [Row -> Nat]
    BY <2>1 DEF PaidOK
  <2>. QED BY <2>2 DEF TypeOK, IInv, Shape
<1>. QED BY <1>1, <1>2, <1>3, Invariant, PTL DEF Spec
=============================================================================
