----------------------------- MODULE SingleList -----------------------------
(***************************************************************************)
(* CSingleList (single_list.hh): two lists whose nodes come from one pool. *)
(* A head node keeps the pointer to the last node in the place of a value; *)
(* the end is the null pointer.  slState is the memory: links, values,     *)
(* allocated nodes, and the tail_ and size_ of each head; slHead tells the *)
(* head node of each list (swap exchanges them).  slText is the sequence   *)
(* of values each list should hold.                                        *)
(*                                                                         *)
(* An empty pool stands for std::bad_alloc.  Calls whose behaviour is      *)
(* undefined are left out: inserting or assigning as many elements as make *)
(* an empty chain (lines 101, 122, 136), resize(0) of a list that is not   *)
(* empty (line 133), append of a list to itself (line 147).                *)
(***************************************************************************)
EXTENDS Integers, Sequences, SequencesExt, FiniteSets

CONSTANTS
    Node,       \* the pool: a set of natural numbers
    Val         \* values

Heads == {-1, -2}       \* the two head nodes
Null == 0
Lists == {1, 2}

VARIABLES slState, slHead, slText

slVars == <<slState, slHead, slText>>

Init ==
    /\ slState = [next |-> [n \in Node \cup Heads |-> Null], val |-> [n \in Node |-> Null],
                  live |-> {}, tail |-> [h \in Heads |-> h], size |-> [h \in Heads |-> 0]]
    /\ slHead = [l \in Lists |-> -l]
    /\ slText = [l \in Lists |-> <<>>]

\* The nodes a program meets from n to the end, by next_.
Walk(s, n) ==
    LET walk[i \in 0 .. Cardinality(Node)] ==
            IF i = 0 THEN n ELSE IF walk[i - 1] = Null THEN Null ELSE s.next[walk[i - 1]]
    IN  SelectSeq([i \in 1 .. Cardinality(Node) + 1 |-> walk[i - 1]], LAMBDA m : m # Null)

Chain(s, h) == Tail(Walk(s, h))

\* The part of the chain from first up to last, last not included.
Between(s, first, last) ==
    LET w == IF first = Null THEN <<>> ELSE Walk(s, first)
    IN  IF last = Null THEN w ELSE SubSeq(w, 1, SelectInSeq(w, LAMBDA n : n = last) - 1)

\* Which nodes the allocator hands out next.
Fresh(s, n) == SubSeq(SetToSortSeq(Node \ s.live, <), 1, n)
CanAllocate(s, n) == Cardinality(Node \ s.live) >= n

\* createChainCopy, createChainFill: linked nodes, the last one without a successor.
CreateChain(s, ns, vs) ==
    LET at(n) == SelectInSeq(ns, LAMBDA m : m = n)
    IN  [s EXCEPT !.live = @ \cup ToSet(ns),
                  !.val = [n \in Node |-> IF n \in ToSet(ns) THEN vs[at(n)] ELSE @[n]],
                  !.next = [n \in Node \cup Heads |->
                               IF n \in ToSet(ns)
                               THEN (IF n = Last(ns) THEN Null ELSE ns[at(n) + 1]) ELSE @[n]]]

\* insertChainAfter
InsertChainAfter(s, h, pos, ns) ==
    [s EXCEPT !.next = [@ EXCEPT ![Last(ns)] = s.next[pos], ![pos] = Head(ns)],
              !.tail = IF s.next[pos] = Null THEN [@ EXCEPT ![h] = Last(ns)] ELSE @,
              !.size = [@ EXCEPT ![h] = @ + Len(ns)]]

\* insert_after of one value or of several; without memory nothing changes.
InsertAfter(s, h, pos, vs) ==
    IF vs = <<>> \/ ~CanAllocate(s, Len(vs)) THEN s
    ELSE LET ns == Fresh(s, Len(vs)) IN InsertChainAfter(CreateChain(s, ns, vs), h, pos, ns)

\* eraseNodeAfter
EraseNodeAfter(s, h, pos) ==
    LET cur == s.next[pos]
    IN  IF cur = Null THEN s
        ELSE [s EXCEPT !.next = [@ EXCEPT ![pos] = s.next[cur]],
                       !.tail = IF @[h] = cur THEN [@ EXCEPT ![h] = pos] ELSE @,
                       !.size = [@ EXCEPT ![h] = @ - 1],
                       !.live = @ \ {cur}]

\* eraseChainAfter, destroyChain
EraseChainAfter(s, h, pos, last) ==
    LET gone == Between(s, s.next[pos], last)
    IN  [s EXCEPT !.next = [@ EXCEPT ![pos] = last],
                  !.tail = IF last = Null THEN [@ EXCEPT ![h] = pos] ELSE @,
                  !.size = [@ EXCEPT ![h] = @ - Len(gone)],
                  !.live = @ \ ToSet(gone)]

\* Values written over the first nodes of a chain.
Overwrite(s, h, vs) ==
    LET c == Chain(s, h)
        at(n) == SelectInSeq(c, LAMBDA m : m = n)
    IN  [s EXCEPT !.val = [n \in Node |-> IF at(n) \in 1..Len(vs) THEN vs[at(n)] ELSE @[n]]]

\* assign and assignAux: reuse the nodes there are, then drop or add.
AssignTo(s, h, vs) ==
    LET c == Chain(s, h)
        o == Overwrite(s, h, vs)
    IN  IF vs = <<>> THEN EraseChainAfter(s, h, h, Null)
        ELSE IF Len(vs) < Len(c) THEN EraseChainAfter(o, h, c[Len(vs)], Null)
        ELSE InsertAfter(o, h, o.tail[h], SubSeq(vs, Len(c) + 1, Len(vs)))

----------------------------------------------------------------------------
\* The operations.  A call that runs out of memory keeps what it has done so
\* far: nothing, or the values it has written over the old ones.
Do(l, s, text) ==
    /\ slState' = s
    /\ slText' = [slText EXCEPT ![l] = text]
    /\ UNCHANGED slHead

Sources == SeqOf(Val, 2) \ {<<>>}

\* insert_after, push_front, push_back
Insert(l, i, vs) ==
    LET h == slHead[l]
        pos == <<h>> \o Chain(slState, h)
        text == slText[l]
    IN  /\ i <= Len(text)
        /\ Do(l, InsertAfter(slState, h, pos[i + 1], vs),
                 IF CanAllocate(slState, Len(vs))
                 THEN SubSeq(text, 1, i) \o vs \o SubSeq(text, i + 1, Len(text)) ELSE text)

PushBack(l, v) ==
    Do(l, InsertAfter(slState, slHead[l], slState.tail[slHead[l]], <<v>>),
          IF CanAllocate(slState, 1) THEN Append(slText[l], v) ELSE slText[l])

\* erase_after, pop_front; at the end there is nothing to erase.
Erase(l, i) ==
    LET h == slHead[l]
        pos == <<h>> \o Chain(slState, h)
    IN  /\ i <= Len(slText[l])
        /\ Do(l, EraseNodeAfter(slState, h, pos[i + 1]),
                 IF i < Len(slText[l]) THEN RemoveAt(slText[l], i + 1) ELSE slText[l])

\* erase_after(before_first, last); from the head to the end it is clear.
EraseRange(l, i, j) ==
    LET h == slHead[l]
        pos == <<h>> \o Chain(slState, h) \o <<Null>>
        text == slText[l]
    IN  /\ i <= j
        /\ j <= Len(text)
        /\ Do(l, EraseChainAfter(slState, h, pos[i + 1], pos[j + 2]),
                 SubSeq(text, 1, i) \o SubSeq(text, j + 1, Len(text)))

Assign(l, vs) ==
    LET text == slText[l]
        more == Len(vs) - Len(text)
    IN  Do(l, AssignTo(slState, slHead[l], vs),
              IF more > 0 /\ ~CanAllocate(slState, more) THEN SubSeq(vs, 1, Len(text)) ELSE vs)

\* resize to another size that is not 0.
ResizeTo(l, n, v) ==
    LET h == slHead[l]
        text == slText[l]
        more == [i \in 1 .. n - Len(text) |-> v]
    IN  /\ n # Len(text)
        /\ IF n < Len(text)
           THEN Do(l, EraseChainAfter(slState, h, Chain(slState, h)[n], Null), SubSeq(text, 1, n))
           ELSE Do(l, InsertAfter(slState, h, slState.tail[h], more),
                      IF CanAllocate(slState, Len(more)) THEN text \o more ELSE text)

Swap ==
    /\ slHead' = [l \in Lists |-> slHead[3 - l]]
    /\ slText' = [l \in Lists |-> slText[3 - l]]
    /\ UNCHANGED slState

\* append: the nodes of the other list move over, and it starts anew (init).
AppendList(l) ==
    LET h == slHead[l]
        a == slHead[3 - l]
        s == InsertChainAfter(slState, h, slState.tail[h], Chain(slState, a))
    IN  /\ slText[3 - l] # <<>>
        /\ slState' = [s EXCEPT !.next = [@ EXCEPT ![a] = Null], !.tail = [@ EXCEPT ![a] = a],
                                !.size = [@ EXCEPT ![a] = 0]]
        /\ slText' = [slText EXCEPT ![l] = @ \o slText[3 - l], ![3 - l] = <<>>]
        /\ UNCHANGED slHead

Next ==
    \/ \E l \in Lists, i \in 0 .. Cardinality(Node), vs \in Sources : Insert(l, i, vs)
    \/ \E l \in Lists, v \in Val : PushBack(l, v)
    \/ \E l \in Lists, i \in 0 .. Cardinality(Node) : Erase(l, i)
    \/ \E l \in Lists, i, j \in 0 .. Cardinality(Node) : EraseRange(l, i, j)
    \/ \E l \in Lists, vs \in SeqOf(Val, 2) : Assign(l, vs)
    \/ \E l \in Lists, n \in 1 .. Cardinality(Node), v \in Val : ResizeTo(l, n, v)
    \/ Swap
    \/ \E l \in Lists : AppendList(l)

Spec == Init /\ [][Next]_slVars

----------------------------------------------------------------------------
TypeOK ==
    /\ slState.next \in [Node \cup Heads -> Node \cup {Null}]
    /\ slState.tail \in [Heads -> Node \cup Heads]
    /\ slState.size \in [Heads -> 0 .. Cardinality(Node)]
    /\ slState.live \subseteq Node
    /\ {slHead[l] : l \in Lists} = Heads

\* Each chain holds the values it should, and size_ and tail_ belong to it: the
\* next push_back goes behind the last node (single_list.hh:201-271).
ListsAreSequences ==
    \A l \in Lists :
        LET h == slHead[l]
            c == Chain(slState, h)
        IN  /\ [i \in 1..Len(c) |-> slState.val[c[i]]] = slText[l]
            /\ slState.size[h] = Len(c)
            /\ slState.tail[h] = Last(<<h>> \o c)

\* A node is in one list, once; and no node is leaked, also not by a call that
\* runs out of memory half way (single_list.hh:220-251).
NodesOwned ==
    /\ slState.live = UNION { ToSet(Chain(slState, h)) : h \in Heads }
    /\ Cardinality(slState.live) = Len(slText[1]) + Len(slText[2])
=============================================================================
