SPECIFICATION FairSpec
CONSTANTS
    r1 = r1
    r2 = r2
    r3 = r3
    i1 = i1
    i2 = i2
    NoReq = NoReq
    Reqs <- ThreeReqs
    Ids = {i1, i2}
    IdOf <- SharedIds
    MaxPending = 2
    MaxNotes = 2
INVARIANT TypeOK
INVARIANT EveryRequestAccountedFor
INVARIANT InFlightNotLeaked
INVARIANT Cancellable
INVARIANT CancelHonoured
PROPERTY NoWorkAfterShutdown
PROPERTY ImplementsContract
PROPERTY EventuallyAnswered
PROPERTY ExitJoins
