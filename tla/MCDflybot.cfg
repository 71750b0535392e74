CONSTANTS
    Subs = {"irc", "telegram"}
    InCap = 1
    OutCap = 1
    MaxAttempts = 2
    MaxTexts = 2
    Loads <- MCLoads
    Stoppers <- MCStoppers
    LogChans = {"#a", "#b"}
    Makers = {"handler", "poster"}
    LastDay = 2
    MaxLines = 3
    OpChans = {"#a", "#b"}
    Users = {"al", "bo"}
    Creds <- MCCreds
    Leeway = 1
    Stamps = {1, 2}
    MaxClock = 5
    MaxGrants = 3
SPECIFICATION BotSpec
INVARIANTS
    SubscribersInOrder
    DeliveredAsPosted
    PanicOnlyAfterStop
    LogHasLines
    GrantedOnce
PROPERTY
    DispatchGoesOn
CHECK_DEADLOCK FALSE
