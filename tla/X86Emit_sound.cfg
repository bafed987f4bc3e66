CONSTANTS
    Programs <- SoundPrograms
SPECIFICATION Spec
INVARIANTS
    LivenessIsExact
    VerifierFindsNothing
    EveryReadFindsItsValue
    AssignedCalleeSavedPreserved
    StackBalanced
