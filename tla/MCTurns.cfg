CONSTANTS
    TurnSessions = {s1, s2}
    HistoryMessages = 1
    ContextRadius = 1
    MaxSteps = 2
    MaxCalls = 1
    MaxStored = 4
    MaxTurnFaults = 1
    MemoryCallers = {a, b}
    Topics = {topic1, topic2}
    Wordings = {word1, word2}
    Kinds = {k1, k2}
    MaxFacts = 2
    MaxMemoryFaults = 1
    Interactions = {i1, i2}
    BackgroundRuns = {r1}
    MaxSequence = 3
    IdLimit = 3
    ShownLimit = 2
    MaxFileLines = 4
    SearchLimit = 2
    CandidatesPerHit = 2
    s1 = s1
    s2 = s2
    a = a
    b = b
    i1 = i1
    i2 = i2
    shell1 = shell1
    shell2 = shell2
    task1 = task1
    unknown = unknown
    w1 = w1
    w2 = w2
    Runs = {shell1, shell2, task1}
    Delegated = {task1}
    Waiters = {w1, w2}
    WaitLists <- Lists
    MaxWaits = 2
    MaxCompleted = 1
SPECIFICATION Spec
INVARIANTS ConversationIsRemembered ExcerptsStayApart FactsAreIndexed  ToolsReportExactly CommandIsJudgedByParts RecallIsRelevant ClaimIsCovered FinishedOnce EveryEndIsSettled InboundIsGoverned ServiceIsConfigured ExchangeIsFaithful
PROPERTIES EvictsOldestFinished
SYMMETRY Interchanged
