CONSTANTS
    Keys <- MCKeys
    Targets <- MCTargets
    Clients <- MCClients
    Admins <- MCAdmins
    Namespaces <- MCNamespaces
    RuleKeys <- MCRuleKeys
    RandomPool <- MCRandomPool
    NoTarget = NoTarget
    NoClient = NoClient
    MaxBatch = 2
    PageLimit = 1
    Seeds <- MCSeeds
    Lists <- MCLists
    MaxRequests = 2
    MaxChurn = 1
SPECIFICATION Spec
INVARIANT AnswerHasTarget
CHECK_DEADLOCK FALSE
