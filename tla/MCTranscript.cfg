SPECIFICATION Spec
SYMMETRY MCSymmetry
CONSTANTS
    m1 = m1
    m2 = m2
    m3 = m3
    r1 = r1
    l1 = l1
    Torn = Torn
    Absent = Absent
    None = None
    Turns <- MCTurns
    KindOf <- MCKindOf
    WorkingMax = 3
    MaxCrashes = 1
    MaxFaults = 1
INVARIANTS
    RequestOnce
    ContextWasSaid
    ResetForgets
    DialogPairs
PROPERTIES
    TranscriptGrows
