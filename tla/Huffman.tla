------------------------------ MODULE Huffman ------------------------------
(***************************************************************************)
(* The adaptive Huffman tree of Huff: both ends of a compressed message    *)
(* start with the same tree and change it after every symbol, so the code  *)
(* of a symbol is what the symbols before it made it.                      *)
(*                                                                         *)
(* A tree is a record: node is the list of nodes in use, tree the root,    *)
(* loc the leaf of each symbol, ptr the cells that hold the highest node   *)
(* of each block of equal weight, and free the cells not in use.  Nodes    *)
(* and cells are numbered from 1, and 0 is the null pointer.  The first    *)
(* node is always the leaf of NYT ("not yet transmitted") and the head of  *)
(* the list of nodes in increasing weight (lhead).                         *)
(***************************************************************************)
EXTENDS Integers, Sequences, FiniteSets

CONSTANT ByteBits       \* bits of a byte, and of a symbol

ASSUME ByteBitsAssumption == ByteBits \in Nat \ {0}

Symbols == 0 .. 2 ^ ByteBits - 1
NYT == 2 ^ ByteBits                 \* HMAX
INTERNAL_NODE == NYT + 1
lhead == 1

NewNode == [left |-> 0, right |-> 0, parent |-> 0, next |-> 0, prev |-> 0, head |-> 0,
            weight |-> 0, symbol |-> 0]

\* Huff::Huff()
NewTree == [node |-> << [NewNode EXCEPT !.symbol = NYT] >>,
            tree |-> lhead, loc |-> [s \in Symbols |-> 0], ptr |-> <<>>, free |-> <<>>]

\* Points a cell that is not in use to node x, and x to the cell.
get_ppnode(h, x) ==
    IF h.free = <<>>
    THEN [h EXCEPT !.ptr = Append(@, x), !.node[x].head = Len(h.ptr) + 1]
    ELSE [h EXCEPT !.ptr[Head(h.free)] = x, !.node[x].head = Head(h.free),
                   !.free = Tail(@)]

free_ppnode(h, p) == [h EXCEPT !.ptr[p] = 0, !.free = <<p>> \o @]

\* The link from the parent of x, or the root, is set to y.
Relink(h, p, x, y) ==
    IF p = 0 THEN [h EXCEPT !.tree = y]
    ELSE IF h.node[p].left = x THEN [h EXCEPT !.node[p].left = y]
    ELSE [h EXCEPT !.node[p].right = y]

\* Two nodes exchange their places in the tree.
swap(h, x, y) ==
    LET px == h.node[x].parent
        py == h.node[y].parent
        h1 == Relink(Relink(h, px, x, y), py, y, x)
    IN  [h1 EXCEPT !.node[x].parent = py, !.node[y].parent = px]

\* Two nodes exchange their places in the list.  When they are neighbours one of the
\* links comes back to its own node, and is turned to the other.
swaplist(h, x, y) ==
    LET Fix(a, b, c) == IF a = b THEN c ELSE a
        nx == Fix(h.node[y].next, x, y)
        ny == Fix(h.node[x].next, y, x)
        h1 == [h EXCEPT !.node[x].next = nx, !.node[x].prev = h.node[y].prev,
                        !.node[y].next = ny, !.node[y].prev = h.node[x].prev]
        Prev(g, a, b) == IF a = 0 THEN g ELSE [g EXCEPT !.node[a].prev = b]
        Next(g, a, b) == IF a = 0 THEN g ELSE [g EXCEPT !.node[a].next = b]
        h3 == Prev(Prev(h1, nx, x), ny, y)
        h4 == Next(h3, h3.node[x].prev, x)
    IN  Next(h4, h4.node[y].prev, y)

\* As MoveToBlockEnd, without the test of the parent.
MoveToBlockEndAlways(h, x) ==
    LET n == h.node[x]
        last == h.ptr[n.head]
    IN  IF n.next # 0 /\ h.node[n.next].weight = n.weight
        THEN swaplist(swap(h, last, x), last, x) ELSE h

\* A node that is not the last of its block changes places with the last one, unless
\* that is its parent.
MoveToBlockEnd(h, x) ==
    LET n == h.node[x]
        last == h.ptr[n.head]
    IN  IF n.next # 0 /\ h.node[n.next].weight = n.weight
        THEN swaplist(IF last # n.parent THEN swap(h, last, x) ELSE h, last, x)
        ELSE h

\* The block it leaves ends with the node before it, if that is in the block.
LeaveBlock(h, x) ==
    LET n == h.node[x]
    IN  IF n.prev # 0 /\ h.node[n.prev].weight = n.weight
        THEN [h EXCEPT !.ptr[n.head] = n.prev] ELSE free_ppnode(h, n.head)

\* The block of the next weight is joined, or started.
JoinBlock(h, x) ==
    LET n == h.node[x]
    IN  IF n.next # 0 /\ h.node[n.next].weight = n.weight
        THEN [h EXCEPT !.node[x].head = h.node[n.next].head] ELSE get_ppnode(h, x)

Heavier(h, x) == [h EXCEPT !.node[x].weight = @ + 1]

\* A parent that has come before its child in the list changes places with it.
ParentAfter(h, x) ==
    LET p == h.node[x].parent
        h1 == swaplist(h, x, p)
    IN  IF h.node[x].prev # p THEN h
        ELSE IF h1.ptr[h1.node[x].head] = x
             THEN [h1 EXCEPT !.ptr[h1.node[x].head] = p] ELSE h1

RECURSIVE increment(_, _)
increment(h, x) ==
    IF x = 0 THEN h
    ELSE LET h1 == JoinBlock(Heavier(LeaveBlock(MoveToBlockEnd(h, x), x), x), x)
             p == h1.node[x].parent
         IN  IF p = 0 THEN h1 ELSE ParentAfter(increment(h1, p), x)

\* The first transmission of a symbol puts its leaf and an internal node after NYT.
addNew(h, ch) ==
    LET leaf == Len(h.node) + 1
        internal == leaf + 1
        old == h.node[lhead].next
        up == h.node[lhead].parent
        h1 == [h EXCEPT
                !.node = @ \o <<
                    [NewNode EXCEPT !.symbol = ch, !.weight = 1, !.next = internal,
                                    !.prev = lhead, !.parent = internal],
                    [NewNode EXCEPT !.symbol = INTERNAL_NODE, !.weight = 1, !.next = old,
                                    !.prev = leaf, !.parent = up, !.left = lhead,
                                    !.right = leaf] >>,
                !.loc[ch] = leaf]
        h2 == IF old = 0 THEN h1 ELSE [h1 EXCEPT !.node[old].prev = internal]
        h3 == IF old # 0 /\ h.node[old].weight = 1
              THEN [h2 EXCEPT !.node[internal].head = h.node[old].head]
              ELSE get_ppnode(h2, internal)
        h4 == Relink(h3, up, lhead, internal)
    IN  increment([h4 EXCEPT !.node[leaf].head = h3.node[internal].head,
                             !.node[lhead].next = leaf, !.node[lhead].parent = internal],
                  up)

addRef(h, ch) == IF h.loc[ch] = 0 THEN addNew(h, ch) ELSE increment(h, h.loc[ch])

----------------------------------------------------------------------------
\* The bits of a byte from the highest.
HighFirst(ch) == [i \in 1 .. ByteBits |-> (ch \div 2 ^ (ByteBits - i)) % 2]

\* The code of a node: the turns from the root to it.
RECURSIVE send(_, _)
send(h, x) ==
    LET p == h.node[x].parent
    IN  IF p = 0 THEN <<>> ELSE Append(send(h, p), IF h.node[p].right = x THEN 1 ELSE 0)

transmit(h, ch) ==
    IF h.loc[ch] = 0 THEN send(h, lhead) \o HighFirst(ch) ELSE send(h, h.loc[ch])

\* The symbol at a position of the bits (numbered from 0), and the position after it.
RECURSIVE Walk(_, _, _, _)
Walk(h, x, bits, bit) ==
    IF h.node[x].symbol # INTERNAL_NODE THEN [symbol |-> h.node[x].symbol, bit |-> bit]
    ELSE Walk(h, IF bits[bit] = 1 THEN h.node[x].right ELSE h.node[x].left, bits, bit + 1)
receive(h, bits, bit) == Walk(h, h.tree, bits, bit)

----------------------------------------------------------------------------
\* The nodes in the order of the list, from the lightest.
RECURSIVE ListFrom(_, _)
ListFrom(h, x) == IF x = 0 THEN <<>> ELSE <<x>> \o ListFrom(h, h.node[x].next)

\* What keeps the codes of the two ends the same and as short as they should be: the
\* list holds every node once, in increasing weight and linked both ways; children stand
\* next to each other in it, in front of their parent; the weight of a node is that of
\* its children; and the cell of a node points to the last node of its weight.
WellFormed(h) ==
    LET list == ListFrom(h, lhead)
        Nodes == 1 .. Len(h.node)
        Internal == {x \in Nodes : h.node[x].symbol = INTERNAL_NODE}
        At(x) == CHOOSE i \in DOMAIN list : list[i] = x
    IN  /\ Len(list) = Cardinality(Nodes) /\ {list[i] : i \in DOMAIN list} = Nodes
        /\ \A i \in 1 .. Len(list) - 1 :
              /\ h.node[list[i]].weight <= h.node[list[i + 1]].weight
              /\ h.node[list[i + 1]].prev = list[i]
        /\ \A x \in Internal :
              LET l == h.node[x].left
                  r == h.node[x].right
              IN  /\ h.node[l].parent = x /\ h.node[r].parent = x /\ l # r
                  /\ h.node[x].weight = h.node[l].weight + h.node[r].weight
                  /\ At(l) - At(r) \in {-1, 1}
                  /\ At(l) < At(x) /\ At(r) < At(x)
        /\ h.node[h.tree].parent = 0
        /\ \A x \in Nodes \ {lhead} :
              h.ptr[h.node[x].head] = list[CHOOSE i \in DOMAIN list :
                  /\ h.node[list[i]].weight = h.node[x].weight
                  /\ i < Len(list) => h.node[list[i + 1]].weight > h.node[x].weight]
=============================================================================
