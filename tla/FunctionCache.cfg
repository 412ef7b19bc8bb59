SPECIFICATION FairSpec
CONSTANTS
    f1 = f1
    f2 = f2
    f3 = f3
    Fde = {f1, f2, f3}
    Signal = {f2}
    Malformed = {f3}
    Lo <- MCLo
    Hi <- MCHi
    Candidate <- MCCandidate
    MaxAddr = 6
    None = None
    Garbage = Garbage
    Thread = {t1, t2}
    Obj = {o1, o2, o3, o4}
INVARIANTS TypeOK CacheSound CacheTransparent SignalAgrees AllocationsBounded
PROPERTIES CacheMonotone CallsReturn ImplementsService
