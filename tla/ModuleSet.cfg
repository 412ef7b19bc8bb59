SPECIFICATION Spec
CONSTANTS
    m1 = m1
    m2 = m2
    m3 = m3
    m4 = m4
    Module = {m1, m2, m3, m4}
    Unwinder = {u1, u2}
    None = None
    MaxU = 15
    Masks = {0, 1, 3, 7, 15}
    Word = 2
    Start <- RunStart
    End <- RunEnd
    Sec <- SecReloaded
INVARIANTS TypeOK MaskKeepsCode FindModuleExact Mirrored CoveredReadIsLocal LocalReadInBounds MirrorsAlive
PROPERTY CloneKeepsCurrentMirrors
