SPECIFICATION JointFairSpec
CONSTANTS
    s1 = s1  s2 = s2
    d1 = d1
    Submissions <- TwoSubmissions
    Deleters <- OneDeleter
    Orders <- Nobody
    Others <- Nobody
    None = None
    NoURL = NoURL
    DockerErrors = FALSE
    Bots <- Nobody
    Slots <- Nobody
    Timeout = 0
    Cooldown = 1
    MaxEvents = 2
    MaxRestarts = 1
    MaxFailures = 0
    MaxCrashes = 1
INVARIANTS JointTypeOK TestedIsStopped
PROPERTY ContainersReclaimed
CHECK_DEADLOCK FALSE
