CONSTANTS
    c1 = c1
    c2 = c2
    alice = alice
    bob = bob
    p1 = p1
    p2 = p2
    a1 = a1
    a2 = a2
    Conns <- MCConns
    Principals <- MCPrincipals
    PrincipalOf <- TwoClients
    NoOne = NoOne
    Pages = {}
    Actions = {}
    ReadOnlyActions = {}
    CloseActions = {}
    MaxQueuedActions = 1
    MaxQueuedMutations = 1
    CanReconcile = TRUE
    LedgerMayFail = TRUE
    HostMayDegrade = FALSE
    ExtensionAttached = TRUE
    MaxEpoch = 5
    MaxBrokerEpoch = 2
    MaxInFlight = 2
SPECIFICATION LeaseSpec
CHECK_DEADLOCK FALSE
INVARIANTS
    AuthorityValid
PROPERTIES
    TicketSingleUse
    ImplementsSpaceAuthority
