SPECIFICATION ListsSpec
CONSTANTS
    ShownLimit = 2
    MaxFileLines = 3
INVARIANT DirectListsTree
CHECK_DEADLOCK FALSE
