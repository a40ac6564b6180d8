SPECIFICATION Spec
CONSTANTS
    m1 = m1
    m2 = m2
    m3 = m3
    r1 = r1
    l1 = l1
    Torn = Torn
    Absent = Absent
    None = None
    Turns <- MCFewTurns
    KindOf <- MCKindOf
    WorkingMax = 3
    MaxCrashes = 0
    MaxFaults = 0
INVARIANTS
    AnswerIsOwn
