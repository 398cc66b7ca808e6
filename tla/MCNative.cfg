SPECIFICATION NativeSpec
CONSTANTS
    Requests = {1, 2}
    Fences = {2}
    MaxPending = 2
    MaxTimedOut = 1
    MaxEvents = 1
    MaxQueued = 1
    MaxUnsolicited = 2
    MaxSent = 3
    f1 = f1
    f2 = f2
    x1 = x1
    x2 = x2
    g1 = g1
    g2 = g2
    Targets = {g1, g2}
    MaxDocuments = 3
    MaxCalls = 4
    Artifacts = {f1, f2}
    Actions = {x1, x2}
    NoAction = NoAction
    Envelopes <- MCEnvelopes
    Chunks <- MCChunks
    MaxArtifact = 3
    MaxChunk = 2
    MaxInFlight = 4
    MaxCumulative = 6
    MaxTransfers = 2
INVARIANTS
    PendingHasCaller EventLossVisible  BudgetExact CompletedWhole DeliveredToOwner ReportsAreTrue 
PROPERTIES CallsReturn
CHECK_DEADLOCK FALSE
