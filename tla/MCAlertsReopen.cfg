CONSTANTS
    DownRepeats = 3
    UpRepeats = 2
    ExpiringDays = {0, 1}
    Certs = {2, 3}
    LastDay = 3
    WebScenarios <- MCCalm
    MaxNew = 2
    MaxBuilds = 4
    MaxItems = 2
    JobScenarios <- MCCalm
    FeedLimit = 2
    WarnAfter = 3
    WantedSets <- MCAny
    Ages = {TRUE}
    MaxActs = 4
    MaxSecond = 2
    FeedScenarios <- MCCalm
SPECIFICATION Spec
INVARIANT ReopenedWasClosed
