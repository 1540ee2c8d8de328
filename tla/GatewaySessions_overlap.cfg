CONSTANTS
    Scopes = {dm}
    MaxSessions = 3
    QueueCapacity = 1
    MaxMessages = 3
    MaxWorkers = 3
    MaxPanics = 0
SPECIFICATION Spec
INVARIANTS
    Serialized
