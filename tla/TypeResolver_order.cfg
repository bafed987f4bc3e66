SPECIFICATION Spec
CONSTANT Programs <- OrderPrograms
CONSTANT PointerBytes = 8
CONSTANT MaxArrayBytes = 1000
CONSTANT Param = "T"
CONSTANT Depth = 5
INVARIANT AcceptedInAnyOrder
CHECK_DEADLOCK FALSE
