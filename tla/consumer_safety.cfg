CONSTANTS
    r1 = r1
    r2 = r2
    t1 = t1
    t2 = t2
    Runs <- TwoRuns
    Teams <- Team1
    TeamOf <- SameTeam
    Scores <- OneScore
    None = None
    BATCH_SIZE = 2
    Delay = 1
    MaxMessages = 3
    MaxRestarts = 1
    MaxFailures = 1
    SlowInserts = TRUE
SPECIFICATION Spec
INVARIANTS
    TypeOK
    RowsAccountedFor
    NewestScorer
    StaleCheckNeverFires
    
CHECK_DEADLOCK FALSE
