SPECIFICATION DiagSpec
CONSTANTS
    f1 = f1
    f2 = f2
    Dirs = {1, 2}
    Names = {"a"}
    NoDir = 0
    Join <- Pair
    Within <- Siblings
    Roots <- NoRoots
    Files = {f1, f2}
    DirOf <- MCDirOf
    Texts = {"clean", "bad", "imports"}
    NoText = NoText
    Imports <- MCImports
    Bad = {"bad"}
    Provides = {"clean", "bad"}
    MaxCached = 1
    NoBundle = NoBundle
    Absent = {}
    Openable = {f1, f2}
    Closable = {f1, f2}
    Edited = {f2}
PROPERTY RoundsAreAccurate
PROPERTY OnlyTruthPublished
