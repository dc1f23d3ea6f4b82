\* A ring of four bytes and heads of two: three messages take the ring around
\* up to three times and the counters (modulo 8) around once, with bodies that
\* wrap, a body that fills the ring with the next head, and an empty one.
SPECIFICATION Spec
CONSTANTS
    Size = 4
    CounterMod = 8
    HeadSize = 2
    BodyLens <- MCBodyLens
    MaxFrames = 3
    QueueSize = 2
INVARIANTS
    SockTypeOK
    RingHoldsStream
    StreamInOrder
    FramesAligned
    NoLostWakeup
PROPERTY FrameDelivered
CHECK_DEADLOCK FALSE
