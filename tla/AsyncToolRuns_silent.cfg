CONSTANTS
    shell1 = shell1
    shell2 = shell2
    task1 = task1
    unknown = unknown
    w1 = w1
    w2 = w2
    Runs = {shell1, shell2, task1}
    Delegated = {task1}
    Waiters = {w1, w2}
    WaitLists <- Lists
    MaxWaits = 2
    MaxCompleted = 3
SPECIFICATION AsyncSpec
INVARIANT
    EveryEndIsMadeKnown
SYMMETRY WaiterSymmetry
