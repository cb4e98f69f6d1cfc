------------------------------ MODULE Terrain ------------------------------
(***************************************************************************)
(* The terrain of a map, tessellated when the map is loaded.               *)
(*                                                                         *)
(* A patch is a square of Side by Side units, and starts as two right      *)
(* triangles.  A triangle is split in the middle of its longest side, its  *)
(* base: into a left and a right child, together with the triangle on the  *)
(* other side of the base, which has to be split first when it is larger.  *)
(* A node of the two trees of a patch (varTree) says whether the triangle  *)
(* must be split, and whether its children are drawn.                      *)
(*                                                                         *)
(* Triangles and vertices are linked in lists of their patch and numbered  *)
(* from 1 in the order of their allocation: TR_TerrainHeapInit puts the    *)
(* free ones in this order, and nothing is ever released, because the      *)
(* merging of triangles is not called.  Left out for the same reason are   *)
(* the references of a vertex, the children and the parent of a triangle;  *)
(* and the coordinates on textures and lightmaps.                          *)
(*                                                                         *)
(* The height of a vertex is that of the height map at its place           *)
(* ("exact"), or the mean of the heights of the map at the ends of the     *)
(* side that was split.                                                    *)
(***************************************************************************)
EXTENDS Integers, Functions, Sequences

CONSTANTS
    MAX_TERRAIN_LOD,
    Side,           \* of a patch
    Patches,        \* a sequence of [x, y, turned, swapped, north, east, south, west],
                    \* the last four patches or 0
    VarTrees        \* the varTree of all patches: functions on Nodes

Trees == {0, 1}
PatchIds == DOMAIN Patches
Nodes == {<<p, tree, index>> : p \in PatchIds, tree \in Trees,
                               index \in 1 .. 2 ^ MAX_TERRAIN_LOD - 1}

\* A node: variance is whether its variance is not 0, and the others are its flags.
NodeType == [variance : BOOLEAN, must : BOOLEAN, stop : BOOLEAN,
             leftHole : BOOLEAN, rightHole : BOOLEAN]

Sides == {"north", "east", "south", "west"}
Opposite == [north |-> "south", south |-> "north", east |-> "west", west |-> "east"]

\* Patches that touch know each other, and their diagonals alternate.
ASSUME PatchesAssumption ==
    \A p \in PatchIds : \A s \in Sides :
        LET n == Patches[p][s]
        IN  n # 0 => /\ n \in PatchIds /\ Patches[n][Opposite[s]] = p
                     /\ Patches[n].turned # Patches[p].turned
ASSUME TreesAssumption == \A v \in VarTrees : v \in [Nodes -> NodeType]
ASSUME LodAssumption == MAX_TERRAIN_LOD \in Nat /\ Side \in Nat

VARIABLES
    varTree,
    phase, at,      \* what is done, and to which patch
    tri, vert,      \* trTris and trVerts
    iCur,           \* trpiTri.iCur
    info,           \* the lists of each patch
    drawn,          \* the triangles of each surface
    ancestry,       \* history: the triangles that were split
    astray          \* history: the list of a patch started with one of them when the splitting
                    \* of the patch did

vars == <<varTree, phase, at, tri, vert, iCur, info, drawn, ancestry, astray>>

\* The operations work on a heap: these variables in a record.
Heap == [tri |-> tri, vert |-> vert, cur |-> iCur, info |-> info, split |-> ancestry,
         crashed |-> FALSE]

----------------------------------------------------------------------------
(***************************************************************************)
(* Lists.  Number 0 is no triangle; writing its links changes nothing that *)
(* is read.                                                                *)
(***************************************************************************)

SetNext(h, i, n) == IF i = 0 THEN h ELSE [h EXCEPT !.tri[i].next = n]
SetPrev(h, i, n) == IF i = 0 THEN h ELSE [h EXCEPT !.tri[i].prev = n]

\* At the end of the list of its patch.
TR_AllocateTri(h, p, drawable) ==
    LET i == Len(h.tri) + 1
        tail == h.info[p].triTail
        new == [patch |-> p, tree |-> 0, index |-> 0, lod |-> 0, pt |-> <<0, 0, 0>>,
                left |-> 0, right |-> 0, base |-> 0,
                checks |-> IF drawable THEN {4} ELSE {}, next |-> 0, prev |-> tail]
        h1 == SetNext([h EXCEPT !.tri = Append(@, new)], tail, i)
    IN  [h1 EXCEPT !.info[p].triTail = i, !.info[p].numTris = @ + 1,
                   !.info[p].triHead = IF @ = 0 THEN i ELSE @]

\* At the front of the list of its patch.
TR_AllocateVert(h, p, pos, exact) ==
    [h EXCEPT !.vert = Append(@, [patch |-> p, pos |-> pos, exact |-> exact,
                                  next |-> h.info[p].vertHead]),
              !.info[p].vertHead = Len(h.vert) + 1]

\* From the list of triangles to the list of those that were split, of patch p.
TR_DemoteInAncestry(h, p, i) ==
    LET prev == h.tri[i].prev
        next == h.tri[i].next
        h1 == SetPrev(SetNext(h, prev, next), next, prev)
        h2 == [h1 EXCEPT !.cur = IF @ = i THEN next ELSE @,
                         !.info[p].numTris = @ - 1,
                         !.info[p].triHead = IF @ = i THEN next ELSE @,
                         !.info[p].triTail = IF @ = i THEN prev ELSE @]
        h3 == SetPrev(h2, h2.info[p].mergeHead, i)
    IN  [h3 EXCEPT !.tri[i].prev = 0, !.tri[i].next = h2.info[p].mergeHead,
                   !.info[p].mergeHead = i, !.split = @ \cup {i}]

----------------------------------------------------------------------------
(***************************************************************************)
(* Splitting                                                               *)
(***************************************************************************)

NodeOf(t) == varTree[<<t.patch, t.tree, t.index>>]

\* What is known of a triangle whatever the view: 2 says that it is known whether to split
\* it, and 1 that it has to be.
ConstChecks(t) ==
    LET n == NodeOf(t)
    IN  IF n.must THEN {1, 2}
        ELSE IF ~n.variance \/ 4 \notin t.checks \/ n.stop \/ t.lod >= MAX_TERRAIN_LOD
        THEN {2} ELSE {}
TR_SetTriConstChecks(t) == [t EXCEPT !.checks = @ \cup ConstChecks(t)]

TR_NeedSplitTri(t) == 2 \in t.checks => 1 \in t.checks

Middle(a, b) == <<(a[1] + b[1]) \div 2, (a[2] + b[2]) \div 2>>

\* Child i of triangle s: the base of a child is a leg of s.
Child(h, s, i, newPt, isLeft, left, right) ==
    LET t == h.tri[s]
        child == [h.tri[i] EXCEPT
            !.tree = t.tree, !.lod = t.lod + 1, !.left = left, !.right = right,
            !.index = IF isLeft THEN 2 * t.index ELSE 2 * t.index + 1,
            !.base = IF isLeft THEN t.left ELSE t.right,
            !.pt = IF isLeft THEN <<t.pt[2], t.pt[3], newPt>> ELSE <<t.pt[3], t.pt[1], newPt>>]
    IN  [h EXCEPT !.tri[i] = IF child.lod # MAX_TERRAIN_LOD
                             THEN TR_SetTriConstChecks(child)
                             ELSE [child EXCEPT !.checks = @ \cup {2}]]

\* The neighbour at a leg of the triangle that is split has the child for a neighbour: at
\* its own base when it is as large as the child, at its other leg otherwise.
Rejoin(h, n, lod, i, leg) ==
    IF n = 0 THEN h
    ELSE IF h.tri[n].lod = lod THEN [h EXCEPT !.tri[n].base = i]
    ELSE IF leg = "left" THEN [h EXCEPT !.tri[n].right = i] ELSE [h EXCEPT !.tri[n].left = i]

TR_SplitTri(h, s, newPt, left, right, rightOfLeft, leftOfRight) ==
    LET lod == h.tri[s].lod + 1
        h1 == Child(h, s, left, newPt, TRUE, right, rightOfLeft)
        h2 == Rejoin(h1, h.tri[s].left, lod, left, "left")
        h3 == Child(h2, s, right, newPt, FALSE, leftOfRight, left)
    IN  Rejoin(h3, h.tri[s].right, lod, right, "right")

\* A new vertex in the middle of the base.
TR_InterpolateVert(h, t, exact) ==
    TR_AllocateVert(h, t.patch, Middle(h.vert[t.pt[1]].pos, h.vert[t.pt[2]].pos), exact)

AllocateChildren(h, t) ==
    TR_AllocateTri(TR_AllocateTri(h, t.patch, ~NodeOf(t).leftHole), t.patch,
                   ~NodeOf(t).rightHole)

\* As ExactHeight, from the triangle alone.
ExactHeightOwn(t, b) == NodeOf(t).must
\* The new vertex has the height of the map when either triangle at the base asks for it.
ExactHeight(t, b) == NodeOf(t).must \/ NodeOf(b).must

\* As BaseFirst, for a base of any size.
BaseAtOnce(h, i) == FALSE
\* A larger triangle at the base has to be split before.
BaseFirst(h, i) == h.tri[i].base # 0 /\ h.tri[h.tri[i].base].lod # h.tri[i].lod

\* The triangle and the one at its base.  The lists from which the triangle is taken are
\* those of the patch of its base; without a base there are none, and the program ends.
RECURSIVE TR_ForceSplit(_, _)
TR_ForceSplit(h0, i) ==
    LET h == IF BaseFirst(h0, i) THEN TR_ForceSplit(h0, h0.tri[i].base) ELSE h0
        t == h.tri[i]
        base == t.base
        left == Len(h.tri) + 1
        h1 == AllocateChildren(h, t)
        newPt == Len(h.vert) + 1
        b == h1.tri[base]
        h2 == TR_InterpolateVert(h1, t, ExactHeight(t, b))
        h3 == AllocateChildren(h2, b)
        other == b.patch # t.patch
        h4 == IF other THEN TR_InterpolateVert(h3, b, ExactHeight(b, t)) ELSE h3
        h5 == TR_SplitTri(h4, base, IF other THEN newPt + 1 ELSE newPt,
                          left + 2, left + 3, left + 1, left)
        h6 == TR_DemoteInAncestry(h5, b.patch, base)
        h7 == TR_SplitTri(h6, i, newPt, left, left + 1, left + 3, left + 2)
    IN  IF h.crashed \/ base = 0 THEN [h EXCEPT !.crashed = TRUE]
        ELSE TR_DemoteInAncestry(h7, b.patch, i)

----------------------------------------------------------------------------
(***************************************************************************)
(* CreateTerrainSurfaces                                                   *)
(***************************************************************************)

NoLists == [triHead |-> 0, triTail |-> 0, vertHead |-> 0, mergeHead |-> 0, numTris |-> 0]

Init ==
    /\ varTree \in VarTrees
    /\ phase = "tessellate" /\ at = 1
    /\ tri = <<>> /\ vert = <<>> /\ iCur = 0
    /\ info = [p \in PatchIds |-> NoLists]
    /\ drawn = [p \in PatchIds |-> {}]
    /\ ancestry = {} /\ astray = FALSE

\* The triangle of a patch at one of its sides.
TR_TerraTriNeighbor(p, side) ==
    CASE p = 0 -> 0
      [] p # 0 /\ side = "north" -> 2 * p - 1
      [] p # 0 /\ side = "south" -> 2 * p
      [] p # 0 /\ side = "east" -> IF Patches[p].turned THEN 2 * p - 1 ELSE 2 * p
      [] p # 0 /\ side = "west" -> IF Patches[p].turned THEN 2 * p ELSE 2 * p - 1

\* The two triangles of a patch and its four corners.
TR_PreTessellateTerrain ==
    LET p == Patches[at]
        v == Len(vert)
        \* 00, 01, 10 and 11, x first
        corners == << <<p.x, p.y>>, <<p.x, p.y + Side>>, <<p.x + Side, p.y>>,
                      <<p.x + Side, p.y + Side>> >>
        h1 == TR_AllocateTri(TR_AllocateTri(Heap, at, TRUE), at, TRUE)
        h2 == TR_AllocateVert(TR_AllocateVert(h1, at, corners[1], TRUE), at, corners[2], TRUE)
        h3 == TR_AllocateVert(TR_AllocateVert(h2, at, corners[3], TRUE), at, corners[4], TRUE)
        first == 2 * at - 1
        Neighbor(side) == TR_TerraTriNeighbor(p[side], Opposite[side])
        Root(i, tree, pts, left, right) ==
            TR_SetTriConstChecks([h3.tri[i] EXCEPT
                !.tree = tree, !.index = 1,
                !.pt = IF p.swapped THEN <<v + pts[2], v + pts[1], v + pts[3]>>
                       ELSE <<v + pts[1], v + pts[2], v + pts[3]>>,
                !.left = Neighbor(left), !.right = Neighbor(right),
                !.base = IF i = first THEN first + 1 ELSE first])
    IN  /\ phase = "tessellate" /\ at <= Len(Patches)
        /\ tri' = IF ~p.turned
                  THEN [h3.tri EXCEPT ![first] = Root(first, 0, <<4, 1, 2>>, "west", "north"),
                                      ![first + 1] =
                                            Root(first + 1, 1, <<1, 4, 3>>, "east", "south")]
                  ELSE [h3.tri EXCEPT ![first] = Root(first, 0, <<3, 2, 4>>, "north", "east"),
                                      ![first + 1] =
                                            Root(first + 1, 1, <<2, 3, 1>>, "south", "west")]
        /\ vert' = h3.vert /\ info' = h3.info
        /\ at' = at + 1
        /\ UNCHANGED <<varTree, phase, iCur, drawn, ancestry, astray>>

\* The splitting goes from patch to patch, over the list of each as it grows.
StartPatch(p) ==
    /\ phase' = IF p <= Len(Patches) THEN "split" ELSE "draw"
    /\ at' = IF p <= Len(Patches) THEN p ELSE 1
    /\ iCur' = IF p <= Len(Patches) THEN info[p].triHead ELSE 0
    /\ astray' = (astray \/ iCur' \in ancestry)
    /\ UNCHANGED <<varTree, tri, vert, info, drawn, ancestry>>

StartSplitting == phase = "tessellate" /\ at > Len(Patches) /\ StartPatch(1)
NextPatch == phase = "split" /\ iCur = 0 /\ StartPatch(at + 1)

\* As SplitCurrent, going on from the triangle that was split.
SplitCurrentOnwards ==
    LET h == TR_ForceSplit(Heap, iCur)
    IN  /\ phase = "split" /\ iCur # 0 /\ TR_NeedSplitTri(tri[iCur])
        /\ tri' = h.tri /\ vert' = h.vert /\ info' = h.info /\ ancestry' = h.split
        /\ iCur' = h.tri[iCur].next
        /\ phase' = IF h.crashed THEN "crashed" ELSE phase
        /\ UNCHANGED <<varTree, at, drawn, astray>>

\* iCur moves on with the demotion of the triangle.
SplitCurrent ==
    LET h == TR_ForceSplit(Heap, iCur)
    IN  /\ phase = "split" /\ iCur # 0 /\ TR_NeedSplitTri(tri[iCur])
        /\ tri' = h.tri /\ vert' = h.vert /\ info' = h.info /\ ancestry' = h.split
        /\ iCur' = IF h.cur = iCur THEN h.tri[iCur].next ELSE h.cur
        /\ phase' = IF h.crashed THEN "crashed" ELSE phase
        /\ UNCHANGED <<varTree, at, drawn, astray>>

SkipCurrent ==
    /\ phase = "split" /\ iCur # 0 /\ ~TR_NeedSplitTri(tri[iCur])
    /\ iCur' = tri[iCur].next
    /\ UNCHANGED <<varTree, phase, at, tri, vert, info, drawn, ancestry, astray>>

\* The triangles from i on.
RECURSIVE ListFrom(_)
ListFrom(i) == IF i = 0 THEN {} ELSE {i} \cup ListFrom(tri[i].next)

GenerateTerrainPatch2 ==
    /\ phase = "draw" /\ at <= Len(Patches)
    /\ drawn' = [drawn EXCEPT ![at] = {i \in ListFrom(info[at].triHead) : 4 \in tri[i].checks}]
    /\ at' = at + 1
    /\ phase' = IF at = Len(Patches) THEN "done" ELSE "draw"
    /\ UNCHANGED <<varTree, tri, vert, iCur, info, ancestry, astray>>

Next == TR_PreTessellateTerrain \/ StartSplitting \/ NextPatch \/ SplitCurrent \/ SkipCurrent
            \/ GenerateTerrainPatch2

Spec == Init /\ [][Next]_vars

----------------------------------------------------------------------------
(***************************************************************************)
(* Properties                                                              *)
(***************************************************************************)

Leaves == DOMAIN tri \ ancestry
Corners(i) == {vert[tri[i].pt[k]].pos : k \in 1 .. 3}

\* No corner of a triangle lies on a side of another one: the first one to do so would lie
\* in the middle, where sides are split.
Conforming ==
    LET doubled == {<<2 * c[1], 2 * c[2]>> : c \in UNION {Corners(i) : i \in Leaves}}
    IN  \A i \in Leaves : \A a, b \in Corners(i) :
            a # b => <<a[1] + b[1], a[2] + b[2]>> \notin doubled

\* The surface has no cracks, in a patch or between two of them, after any split with all
\* those that it forces.  A chain of forced splits that crosses two borders may take a
\* triangle from the lists of another patch than its own (TR_ForceSplit) when it is the head
\* of its own list; if the splitting of that patch then starts from it, the walk goes astray,
\* through the split triangles of the other patch, and splits some of them again.
NoCracks == phase # "crashed" /\ ~astray => Conforming

\* Two vertices at the same place, one in each patch, have their heights from the same
\* source, so that the seam between two patches is closed.
SeamsAreClosed ==
    phase # "crashed" =>
        LET Places(exact) == {v.pos : v \in {w \in Range(vert) : w.exact = exact}}
        IN  Places(TRUE) \cap Places(FALSE) = {}

\* No triangle is left that has to be split, and none is smaller than the trees of a patch
\* describe.
SplitAsAsked == \A i \in Leaves : ~TR_NeedSplitTri(tri[i]) /\ tri[i].lod <= MAX_TERRAIN_LOD

\* When the splitting is over every need is met, although the list of a patch changes under
\* the walk over it, unless a walk went astray: it leaves out the triangles of its patch.
NeedsAreMet == phase \in {"draw", "done"} /\ ~astray => SplitAsAsked

\* The surface of a patch holds the triangles of the patch that were not split.
DrawnAreTheLeaves ==
    phase = "done" => \A p \in PatchIds :
        drawn[p] = {i \in Leaves : tri[i].patch = p /\ 4 \in tri[i].checks}

\* Every need is met, also when a chain of splits crossed two borders.
AllNeedsAreMet == phase \in {"draw", "done"} => SplitAsAsked

\* The border of the terrain can be split.
BordersCanBeSplit == phase # "crashed"
=============================================================================
