SPECIFICATION FairSpec
CONSTANTS
    Dirs = {1, 2, 3}
    Names = {"a", "b"}
    NoDir = 0
    Join <- MCJoin
    Within <- MCWithin
    Roots <- MCRoots
    MaxImports = 2
    MaxForced = 1
    MaxBroken = 1
INVARIANT ImportersComeFirst
INVARIANT ImportsLeadToModules
INVARIANT LoadsTheClosure
INVARIANT OkMeansComplete
PROPERTY Terminates
