SPECIFICATION Spec
CONSTANTS
    s1 = s1  s2 = s2
    d1 = d1  d2 = d2
    o1 = o1
    None = None
    NoURL = NoURL
    Submissions <- TwoSubmissions
    Deleters <- OneDeleter
    Orders <- OneOrder
    DockerErrors = FALSE
INVARIANT NoOrphans
