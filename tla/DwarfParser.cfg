SPECIFICATION FairSpec
CONSTANTS
    U16 = 1
    U32 = 2
    U64 = 3
    Max16 = 255
    Max32 = 65535
    MaxU = 16777215
    EhFrameAvma <- MCEhFrameAvma
    TextBase <- MCTextBase
    DataBase <- MCDataBase
    Inputs <- MCInputs
    None = None
INVARIANTS TypeOK ReadsInBounds InstructionsInEntry DetailsExact FailurePrecise
PROPERTY ParseEnds
CHECK_DEADLOCK FALSE
