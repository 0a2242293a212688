SPECIFICATION DeploySpec
CONSTANTS
    s1 = s1  s2 = s2
    d1 = d1
    None = None
    NoURL = NoURL
    Submissions <- TwoSubmissions
    Deleters <- OneDeleter
    Orders <- NoOrders
    DockerErrors = FALSE
INVARIANTS DiskOK RunningIsOwned OnlyImagesStay
PROPERTIES ImplementsLifecycle EverySubmissionDeployed
