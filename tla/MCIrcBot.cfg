CONSTANTS
    Chans = {"#a", "#b"}
    Names = {"bot", "al", "bo"}
    Me = "bot"
    MaxTime = 2
    Scenarios <- MCScenarios
    NoSet = NoSet
SPECIFICATION Spec
INVARIANTS
    MirrorExact
    PresentSinceJoin
    CleanIsSaved
    StoppedIsSaved
PROPERTY
    StopEnds
