SPECIFICATION Spec
CONSTANTS
    MAX_TERRAIN_LOD = 4
    Side = 4
    Patches <- SixPatches
    VarTrees <- MCVarTrees
    MaxLarge = 3
CHECK_DEADLOCK FALSE
INVARIANTS
    NoCracks
    SeamsAreClosed
    NeedsAreMet
