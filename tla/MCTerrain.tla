----------------------------- MODULE MCTerrain -----------------------------
(***************************************************************************)
(* A small terrain: three by two patches, whose diagonals meet at one of   *)
(* the two corners inside and not at the other one, and trees that ask for *)
(* a triangle of the last level but one and a larger one.                  *)
(***************************************************************************)
EXTENDS Terrain

CONSTANT MaxLarge       \* bound: the index of the larger triangle in its tree

Patch(x, y, turned, swapped, north, east, south, west) ==
    [x |-> x * Side, y |-> y * Side, turned |-> turned, swapped |-> swapped,
     north |-> north, east |-> east, south |-> south, west |-> west]

SixPatches == << Patch(0, 0, FALSE, FALSE, 4, 2, 0, 0), Patch(1, 0, TRUE, FALSE, 5, 3, 0, 1),
                 Patch(2, 0, FALSE, FALSE, 6, 0, 0, 2), Patch(0, 1, TRUE, FALSE, 0, 5, 1, 0),
                 Patch(1, 1, FALSE, FALSE, 0, 6, 2, 4), Patch(2, 1, TRUE, FALSE, 0, 0, 3, 5) >>
\* One of them with the first two points of its triangles swapped.
SwappedPatches == [SixPatches EXCEPT ![5].swapped = TRUE]

Flat == [variance |-> FALSE, must |-> FALSE, stop |-> FALSE, leftHole |-> FALSE,
         rightHole |-> FALSE]

IsRoot(n) == n[3] = 1

\* A node and those above it: a triangle is only there when these are split.
Above(n) == {<<n[1], n[2], n[3] \div 2 ^ k>> : k \in 0 .. MAX_TERRAIN_LOD} \cap Nodes
Smallest == {n \in Nodes : n[3] >= 2 ^ (MAX_TERRAIN_LOD - 1)}
Large == {n \in Nodes : n[3] <= MaxLarge}

\* Those of one tree of each patch give the exact height; or the left children of the first
\* triangles are not drawn.
MCVarTrees ==
    LET Tree(S, kind) ==
            [n \in Nodes |-> [Flat EXCEPT !.variance = n \in S,
                                          !.must = kind = "exact" /\ n \in S /\ n[2] = 0,
                                          !.leftHole = kind = "holes" /\ IsRoot(n)]]
    IN  {Tree(Above(a) \cup Above(b), "exact") : a \in Smallest, b \in Large}
            \cup {Tree(Above(a), "holes") : a \in Smallest}
=============================================================================
