CONSTANTS
    Limit = 2
    MaxLength = 5
    MaxResponses = 2
SPECIFICATION DisplayFairSpec
PROPERTIES FinalizerReturns
