CONSTANTS
    r1 = r1
    r2 = r2
    t1 = t1
    t2 = t2
    Runs <- TwoRuns
    Teams <- Teams2
    TeamOf <- TwoTeams
    Scores <- OneScore
    None = None
    BATCH_SIZE = 2
    Delay = 2
    MaxMessages = 4
    MaxRestarts = 0
    MaxFailures = 0
    SlowInserts = FALSE
SPECIFICATION FairSpec
INVARIANT FinalScoreCoversRun
PROPERTIES EveryRunScored EveryRowStored
CHECK_DEADLOCK FALSE
