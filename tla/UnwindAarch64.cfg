SPECIFICATION Spec
CONSTANTS
    MaxU = 31
    Word = 1
    SigCode = {8}
    PltCode <- WalkPlt
    ScFp = 1
    ScSp = 2
    ScPc = 3
    ScRecords = 4
    Fail = Fail
    None = None
    Masks = {15, 31}
    Memories <- WalkMemories
    Local <- NoLocal
    StartRegs <- WalkRegs
    StartIps <- WalkIps
    Kind <- WalkKind
    Fdes <- WalkFdes
    FdeAt <- WalkFdeAt
    Caches <- WalkCaches
    FailSets <- WalkFailSets
INVARIANTS TypeOK SignaturesInvisible CallerExact FailuresContained
CHECK_DEADLOCK FALSE
