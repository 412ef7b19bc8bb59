SPECIFICATION FairSpec
CONSTANTS
    MaxU = 23
    Word = 1
    GuessLimit = 3
    PltCode = {13}
    Fail = Fail
    None = None
    Memories <- DwarfMemories
    Local <- OneLocal
    StartRegs <- DwarfRegs
    Kind <- DwarfKind
    Rows <- DwarfRows
    FailSets <- DwarfFailSets
INVARIANTS TypeOK CallerExact FailuresContained
PROPERTIES NoStaleRegister FallbackProgress NoEndlessWalk
