SPECIFICATION Spec
CONSTANTS
    MAX_TERRAIN_LOD = 4
    Side = 4
    Patches <- SwappedPatches
    VarTrees <- MCVarTrees
    MaxLarge = 3
CHECK_DEADLOCK FALSE
INVARIANTS
    NoCracks
    AllNeedsAreMet
    DrawnAreTheLeaves
    BordersCanBeSplit
