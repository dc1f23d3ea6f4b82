\* A receive queue: any claimed slot may become INVALID, any number of times.
SPECIFICATION Spec
CONSTANTS
    Size <- MCSize
    CounterMod <- MCCounterMod
    MaxMsgs = 6
    CanFail = TRUE
INVARIANTS
    SlotExclusion
    ExactlyOnce
PROPERTIES
    ImplementsChannel
    ProducerServed
CHECK_DEADLOCK FALSE
