CONSTANTS
    Programs <- ForLoopPrograms
SPECIFICATION Spec
INVARIANTS
    EveryReadFindsItsValue
