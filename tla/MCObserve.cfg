SPECIFICATION ObserveSpec
CONSTANTS
    None = None
    spA = spA
    spB = spB
    pgA = pgA
    rq1 = rq1
    rq2 = rq2
    NetworkKind = "action.changed"
    MaxNetwork = 3
    Visible = {spA}
    Scopes <- MCScopes
    Templates <- MCTemplates
    MaxEvents = 3
    ReadLimits = {1, 4}
    MaxSequence = 4
    MaxEpoch = 2
    Conditions = {"event", "response", "network_idle", "stable_dom"}
    Quotes = {0, 3}
    Quiet = 1
    Timeout = 2
    MaxWaitEvents = 3
    MaxTime = 2
    SnapPages = {pgA}
    Frames = {"main", "child"}
    MaxRefs = 2
    MaxChanges = 3
INVARIANTS StreamMissesNothing SleeperIsCurrent   
PROPERTIES GenerationsMonotone
CHECK_DEADLOCK FALSE
