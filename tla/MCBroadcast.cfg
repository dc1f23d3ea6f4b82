\* Lists of 1 (no task), 3 (one task), 5 (two tasks and one client that no task
\* covers) and 7 entries (two tasks and a third for the last one), some of which
\* hold a client twice, each broadcast to twice while up to four connections break.
SPECIFICATION Spec
CONSTANTS
    Entries <- MCEntries
    Info <- MCInfo
    Fragile <- MCFragile
    Lists <- MCLists
    MaxThreads = 3
    PerThread = 2
    MaxBroadcasts = 2
INVARIANTS
    TypeOK
    MessageOutlivesWorkers
    SentAtMostOnce
    CoveredMeansSent
    GoodClientsStay
PROPERTY BroadcastEnds
CHECK_DEADLOCK FALSE
