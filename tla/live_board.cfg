SPECIFICATION LiveSpec
CONSTANTS
    r1 = r1  r2 = r2  r3 = r3
    t1 = t1  t2 = t2
    c1 = c1  c2 = c2
    Runs <- MCRuns
    Teams <- MCTeams
    TeamOf <- MCTeamOf
    Scores <- MCScores
    None = None
    Clients <- MCClients
    Pages <- MCPages
    Top = 1
    MaxPushes = 2
SYMMETRY RunSymmetry
INVARIANTS LiveTypeOK DetailHasRank DetailNeverAhead SkipsNeedRemovals PageShowsBest BlockedIsServed
PROPERTIES ImplementsAllTimeHigh
CHECK_DEADLOCK FALSE
