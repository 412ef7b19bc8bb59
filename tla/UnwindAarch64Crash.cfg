SPECIFICATION Spec
CONSTANTS
    MaxU = 31
    Word = 1
    SigCode = {8}
    PltCode <- WalkPlt
    ScFp = 1
    ScSp = 2
    ScPc = 3
    ScRecords = 4
    Fail = Fail
    None = None
    Masks = {15, 31}
    Memories <- HandlerMemories
    Local <- NoLocal
    StartRegs <- HandlerRegs
    StartIps = {11}
    Kind <- WalkKind
    Fdes <- WalkFdes
    FdeAt <- WalkFdeAt
    Caches <- WalkCaches
    FailSets = {{}}
INVARIANT StepReturns
CHECK_DEADLOCK FALSE
