CONSTANTS
    r1 = r1
    r2 = r2
    t1 = t1
    t2 = t2
    Runs <- TwoRuns
    Teams <- Team1
    TeamOf <- SameTeam
    Scores <- TwoScores
    None = None
    BATCH_SIZE = 3
    Delay = 1
    MaxMessages = 2
    MaxRestarts = 0
    MaxFailures = 0
    SlowInserts = FALSE
SPECIFICATION Spec
PROPERTY ImplementsAllTimeHigh
CHECK_DEADLOCK FALSE
