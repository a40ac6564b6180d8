\* Small instances of the parts around the turns; see README, "The services".
SPECIFICATION Spec
CONSTANTS
    Focuses = {"maintain", "recall", "text", "paths", "mcp", "lists", "ledger", "cache", "exec"}
    \* MaintainPipeline and Digest
    Turns = {t1, t2}
    Loop = loop
    Keys = {"f1", "f2"}
    ToolKeys = {"f1"}
    Today = "today"
    Elsewhere = "elsewhere"
    NoDurable = "no durable entries"
    Garbled = "garbled"
    Sections <- MCSections
    MainModel = m1
    MaintModel = None
    ScheduledModel = m2
    MaxLines = 2
    MinLines = 1
    High = 0
    Interval = 1
    Overlap = 1
    MaxSpan = 3
    Start = 4
    Horizon = 5
    MaxUpsets = 1
    None = None
    \* RecallIndex
    Sessions = {"a", "b"}
    Notes = {"na", "nu"}
    Shared = "shared"
    OwnerOf <- MCOwnerOf
    MaxEdits = 1
    MaxSecond = 2
    \* RecallText
    MaxNoteLines = 5
    MaxLevel = 3
    Runes <- MCRunes
    MaxTerms = 2
    BodyLen = 12
    MaxSpans = 3
    Pad = 1
    Gap = 1
    MaxSnippets = 2
    MaxShown = 3
    Hits <- MCHits
    MaxHits = 2
    RecallBudget = 4
    \* PolicyPaths
    Contexts <- MCContexts
    Words <- MCWords
    RuleNames <- MCRuleNames
    Agents <- MCAgents
    Base <- MCBase
    \* McpManager
    Servers = {s1, s2}
    Local = {s1}
    NameOf <- MCNameOf
    Callers = {c1, c2}
    NoServer = NoServer
    \* WorkspaceLists
    Editors = {e1, e2}
    TaskIds = {"t1", "t2"}
    SkillNames = {"k1", "k2", "k3"}
    Statuses = {"pending", "completed"}
    MaxRecent = 2
    MaxChanges = 3
    Nobody = Nobody
    \* UsageLedger
    Recorders = {r1, r2}
    Users = {u1, u2}
    LastDay = 2
    MaxRecords = 3
    MaxSlips = 1
    NoRecorder = NoRecorder
    \* ReadCache
    Ctxs = {x1, x2}
    Files = {f1}
    MaxVersion = 4
    Large = {2}
    \* ExecRuns
    Runs = {q1, q2}
    LastSecond = 2
    MaxOutput = 2
    Hole = Hole
INVARIANTS
    SnapshotIsCurrent
    FactsAreKept
    OnlyLateLinesAreSkipped
    ShownIsCurrent
    RecallTextIsExact
    RecallStaysInBudget
    PolicyIsRead
    CallsHaveTheirSession
    ListsHoldWhatWasSaid
    RollupsAgree
    CacheIsCurrent
    OutputIsOwn
PROPERTIES
    PassesEnd
CHECK_DEADLOCK FALSE
