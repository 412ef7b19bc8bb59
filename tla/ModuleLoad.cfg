SPECIFICATION LoadSpec
CONSTANTS
    Parts <- MCParts
    Frames = {4, 7, 8}
    MaxU = 15
    None = None
INVARIANTS MirrorWithinBytes MovedAsOnePiece StrictIsComplete
CHECK_DEADLOCK FALSE
