SPECIFICATION FairSpec
CONSTANTS
    b1 = b1
    b2 = b2
    Bots <- TwoBots
    Slots <- OneSlot
    Timeout = 1
    Cooldown = 2
    MaxEvents = 2
    MaxRestarts = 1
    MaxFailures = 2
INVARIANTS TypeOK CommittedWasHandled MetricsHaveRun QuietBeforeRun TestedIsDone
PROPERTY EveryEventHandled
CHECK_DEADLOCK FALSE
