SPECIFICATION Spec
CONSTANTS
    MaxU = 21
    Word = 1
    GuessLimit = 3
    PltCode = {13}
    Fail = Fail
    None = None
    Memories <- FrameMemories
    Local <- OneLocal
    StartRegs <- FrameRegs
    Kind <- DwarfKind
    Rows <- FrameRows
    FailSets = {{}, {2}, {3}}
INVARIANT LookupInsideCall
