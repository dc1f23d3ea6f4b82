\* Two workers that record their failures in the order they meet them.
SPECIFICATION Spec
CONSTANTS
    Entries <- MCEntries
    Info <- MCInfo
    Fragile <- MCFragile
    Lists <- MCPlainLists
    MaxThreads = 3
    PerThread = 2
    MaxBroadcasts = 1
PROPERTY BadClientsRemoved
CHECK_DEADLOCK FALSE
