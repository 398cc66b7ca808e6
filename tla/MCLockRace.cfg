SPECIFICATION LockSpec
CONSTANTS
    Root = Root
    NoBudget = NoBudget
    e1 = e1
    e2 = e2
    e3 = e3
    MaxOperations = 2
    MaxChainDepth = 1
    MetadataCost = 1
    CallIds = {c1}
    WaitIds = {w1, w2}
    MaxTracked = 2
    MaxInbox = 2
    MaxFrames = 6
    Hosts = {h1, h2, h3}
    NoHost = NoHost
    MaxUpdates = 1
    MaxRecovering = 2
INVARIANTS LiveOwnerKeepsLock
CHECK_DEADLOCK FALSE
