CONSTANTS
    Keys <- MCKeys
    Targets <- MCTargets
    Clients <- MCClients
    Admins <- MCAdmins
    Namespaces <- MCNamespaces
    RuleKeys <- MCRuleKeys
    RandomPool <- MCRandomPool
    NoTarget = NoTarget
    NoClient = NoClient
    MaxBatch = 2
    PageLimit = 2
    Seeds <- MCSeeds
    Lists <- MCLists
    MaxRequests = 2
    MaxChurn = 2
SPECIFICATION Spec
INVARIANTS
    PublishedKeysAgree
    CreatesAsAsked
    PagingComplete
PROPERTY
    RequestsAnswered
CHECK_DEADLOCK FALSE
