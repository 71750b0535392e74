CONSTANTS
    Keys <- MCKeys
    Targets <- MCTargets
    Clients <- MCClients
    Admins <- MCAdmins
    Namespaces <- MCNamespaces
    RuleKeys <- MCRuleKeys
    RandomPool <- MCRandomPool
    NoTarget = NoTarget
    MaxBatch = 2
    DayLen = 3
    Hour = 1
    RetentionDays = 1
    StartupCount = 1
    MaxInstant = 7
    MaxRun = 1
    MaxBoots = 3
    BackupScenarios <- MCBackupScenarios
    Callers = {"api", "redirect"}
    QueueLen = 2
    LogRetention = 1
    MaxRecords = 4
    MaxDay = 3
    MaxLives = 2
    RateKeys = {"k1", "k2", "k3"}
    Handlers = {"h1", "h2"}
    MaxTracked = 2
    Burst = 2
    Rate = 1
    MaxSecond = 2
    MaxAsks = 7
SPECIFICATION UrlSpec
INVARIANTS
    BucketsInverse
    BatchReportTrue
    TxWritesAreReported
    BackupsRestorable
    StatusNamesBackup
    DayHasBackup
    LogComplete
    RateHeld
PROPERTY
    ImplementsLinkMap
CHECK_DEADLOCK FALSE
