CONSTANTS
    Keys = {ka, kb}
    MaxMessages = 4
    MaxWorkers = 4
    MaxPanics = 2
SPECIFICATION FairSpec
INVARIANTS
    TypeOK
    Serialized
    InOrder
    Accounted
    NeverRefused
PROPERTIES
    EveryMessageIsServed
    ImplementsMailbox
