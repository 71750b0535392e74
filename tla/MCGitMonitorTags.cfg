CONSTANTS
    NCommits = 5
    Parents <- MCParents
    TagObjects = {annotated}
    Target <- MCTarget
    Branches = {"master"}
    Tags = {"v1"}
    Size <- MCSize
    MaxLen = 2
    Scenarios <- MCCalm
    None = None
SPECIFICATION Spec
INVARIANT
    TagsOnce
