\* The list of five clients: two tasks of two, and 5 & 2 = 0.
SPECIFICATION Spec
CONSTANTS
    Entries <- MCEntries
    Info <- MCInfo
    Fragile <- MCFragile
    Lists <- MCPlainLists
    MaxThreads = 3
    PerThread = 2
    MaxBroadcasts = 1
INVARIANT EveryoneReached
CHECK_DEADLOCK FALSE
