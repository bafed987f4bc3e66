SPECIFICATION Spec
CONSTANTS
    f1 = f1
    f2 = f2
    f3 = f3
    Dirs = {1, 2, 3}
    Names = {"a"}
    NoDir = 0
    Join <- Ring
    Within <- Siblings
    Roots <- NoRoots
    Files = {f1, f2, f3}
    DirOf <- MCDirOf
    Texts = {"plain", "importing"}
    NoText = NoText
    Imports <- MCImports
    Bad = {}
    Provides = {"plain"}
    MaxCached = 2
    NoBundle = NoBundle
    Absent = {}
INVARIANT IndexExact
INVARIANT BundlesFresh
INVARIANT ReturnedBundleSurvives
INVARIANT BundlesCurrent
