CONSTANTS
    DownRepeats = 3
    UpRepeats = 2
    ExpiringDays = {0, 1}
    Certs = {2, 3}
    LastDay = 3
    WebScenarios <- MCWebScenarios
    MaxNew = 2
    MaxBuilds = 4
    MaxItems = 2
    JobScenarios <- MCJobScenarios
    FeedLimit = 2
    WarnAfter = 3
    WantedSets <- MCWantedSets
    Ages = {TRUE, FALSE}
    MaxActs = 4
    MaxSecond = 2
    FeedScenarios <- MCFeedScenarios
SPECIFICATION Spec
INVARIANTS
    NoticesOnce
    FailuresToldOnce
    RecoveryFollowsFailure
    ActivitiesToldOnce
    NamedByStatus
PROPERTY
    AlertsDeserved
