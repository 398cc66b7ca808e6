CONSTANTS
    t1 = t1
    t2 = t2
    t3 = t3
    t4 = t4
    s1 = s1
    s2 = s2
    Threads <- MCThreads
    Patient <- MCPatient
    Spaces <- MCSpaces
    MaxConcurrentReads = 1
    MaxQueuedReads = 2
    MaxQueuedMutations = 2
    MaxQueuedMutationsPerSpace = 2
SPECIFICATION FairSpec
INVARIANTS
    OnePermitPerSpace
    WaitersRegistered
    NoEntryLeak
    ReadPermitsBounded
PROPERTIES
    EveryWaiterReturns
    ImplementsFifoLock
