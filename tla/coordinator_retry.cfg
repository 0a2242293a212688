SPECIFICATION Spec
CONSTANTS
    b1 = b1
    b2 = b2
    Bots <- OneBot
    Slots <- OneSlot
    Timeout = 1
    Cooldown = 2
    MaxEvents = 2
    MaxRestarts = 1
    MaxFailures = 1
INVARIANT FailedNotCommitted
CHECK_DEADLOCK FALSE
