CONSTANTS
    c1 = c1
    c2 = c2
    alice = alice
    bob = bob
    p1 = p1
    p2 = p2
    a1 = a1
    a2 = a2
    Conns <- MCConns
    Principals <- MCPrincipals
    PrincipalOf <- OneClient
    NoOne = NoOne
    Pages = {p1}
    Actions = {a1}
    ReadOnlyActions = {}
    CloseActions = {}
    MaxQueuedActions = 1
    MaxQueuedMutations = 1
    CanReconcile = TRUE
    LedgerMayFail = TRUE
    HostMayDegrade = FALSE
    ExtensionAttached = TRUE
    MaxEpoch = 2
    MaxBrokerEpoch = 1
    MaxInFlight = 2
SPECIFICATION FinishSpec
CHECK_DEADLOCK FALSE
SYMMETRY SwapSessions
INVARIANTS
    FinishedIsClean
