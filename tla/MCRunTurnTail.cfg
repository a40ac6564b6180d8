SPECIFICATION Spec
CONSTANTS
    MaxSteps = 3
    MaxCalls = 3
    MinTail = 2
    MaxSubagentDepth = 3
    InheritCap = 3
    MergeAsUser = TRUE
    Answers <- MCAnswers
    Histories <- MCHistories
INVARIANT
    HistoryIsKept
