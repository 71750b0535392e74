CONSTANTS
    PageSize = 2
    MaxPages = 2
    Ignored = {2}
    MaxTime = 2
    MaxEvents = 5
    Scenarios <- MCScenarios
SPECIFICATION Spec
INVARIANTS
    PassedIsAnnounced
    NoRepeatsBut
PROPERTIES
    Chronological
    OneFirstRun
    AnnouncesAll
