CONSTANTS
    Scopes = {dm}
    MaxSessions = 3
    QueueCapacity = 1
    MaxMessages = 3
    MaxWorkers = 3
    MaxPanics = 0
    Limit = 2
    MaxLength = 5
    MaxResponses = 2
SPECIFICATION MCSpec
INVARIANTS SerializedWhileActive InOrderWhileActive ReplyIsShown DisplayIsConsistent
PROPERTIES FreshAfterNew NewLeavesNothingBehind CommittedIsFinal FinalizerReturnsUnlessShorter
