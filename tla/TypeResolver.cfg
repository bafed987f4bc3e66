SPECIFICATION Spec
CONSTANT Programs <- MCPrograms
CONSTANT PointerBytes = 8
CONSTANT MaxArrayBytes = 1000
CONSTANT Param = "T"
CONSTANT Depth = 5
INVARIANT AcceptedIffFinite
INVARIANT LayoutsExact
INVARIANT HandlesAreTypes
CHECK_DEADLOCK FALSE
