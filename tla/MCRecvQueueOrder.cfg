\* The same receive queue against the comment in Net::product_msg.
SPECIFICATION SafetySpec
CONSTANTS
    Size <- MCSize
    CounterMod <- MCCounterMod
    MaxMsgs = 5
    CanFail = TRUE
PROPERTY DequeueNeverAhead
CHECK_DEADLOCK FALSE
