CONSTANTS
    NCommits = 5
    Parents <- MCParents
    TagObjects = {annotated}
    Target <- MCTarget
    Branches = {"master"}
    Tags = {"v1"}
    Size <- MCSize
    MaxLen = 2
    Scenarios <- MCScenarios
    None = None
SPECIFICATION Spec
INVARIANTS
    SeenIsAnnounced
    NoRepeats
PROPERTIES
    AncestorsFirst
    SeededOnce
    CatchesUp
