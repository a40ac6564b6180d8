SPECIFICATION Spec
CONSTANTS
    MaxSteps = 3
    MaxCalls = 3
    MinTail = 2
    MaxSubagentDepth = 3
    InheritCap = 3
    MergeAsUser = TRUE
    Answers <- MCAnswers
    Histories <- MCHistories
INVARIANTS
    RequestWellFormed
    UnsafeAlone
    RepliesAreNoted
    NestingIsBounded
PROPERTIES
    CallersListIsUntouched
    CancelEnds
