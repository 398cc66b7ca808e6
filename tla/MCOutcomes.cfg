CONSTANTS
    c1 = c1
    c2 = c2
    alice = alice
    bob = bob
    p1 = p1
    p2 = p2
    a1 = a1
    a2 = a2
    Conns = {c1}
    Principals <- MCPrincipals
    PrincipalOf <- OneSession
    NoOne = NoOne
    Pages = {p1}
    Actions = {a1, a2}
    ReadOnlyActions = {}
    CloseActions = {}
    MaxQueuedActions = 1
    MaxQueuedMutations = 0
    CanReconcile = FALSE
    LedgerMayFail = FALSE
    HostMayDegrade = FALSE
    ExtensionAttached = FALSE
    MaxEpoch = 2
    MaxBrokerEpoch = 1
    MaxInFlight = 2
SPECIFICATION FairActionSpec
CHECK_DEADLOCK FALSE
PROPERTIES
    OutcomeRecorded
