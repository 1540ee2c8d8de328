CONSTANTS
    Keys = {ka, kb}
    MaxMessages = 4
    MaxWorkers = 4
    MaxPanics = 0
SPECIFICATION Spec
INVARIANT
    AcceptedSurvivesExpiry
