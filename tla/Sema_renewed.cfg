SPECIFICATION Spec
CONSTANTS
    ByteBits = 4
    PointerBytes = 2
    MaxSteps = 120
    MaxTurns = 30
    Junk = {13}
    Functions <- MCFunctions
    Externs <- MCExterns
    CheckBody <- MCCheckBody
    EmitBody <- MCEmitBody
    PromoteIn <- MCPromoteIn
    PeepholeIn <- MCPeepholeIn
    Verifies <- MCVerifies
    EmitFunction <- MCEmitFunction
    EmitDispatch <- MCEmitDispatch
    Reducible <- MCReducible
    MeaningOf <- MCMeaningOf
    MirRun <- MCMirRun
    WasmRun <- MCWasmRun
    Programs <- Renewed
CHECK_DEADLOCK FALSE
INVARIANT MatchedErrorsHaveFailed
