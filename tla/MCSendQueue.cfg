\* A send queue: every claimed slot is published.  The eighteen messages take the
\* counters (modulo 8) around twice and the ring (4 slots) around four times.
SPECIFICATION Spec
CONSTANTS
    Size <- MCSize
    CounterMod <- MCCounterMod
    MaxMsgs = 18
    CanFail = FALSE
INVARIANT TypeOK
PROPERTIES
    HeldPayloadStable
    ImplementsLiveChannel
    ProducerServed
CHECK_DEADLOCK FALSE
