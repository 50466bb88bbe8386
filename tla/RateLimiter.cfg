\* One account, three requests, stored settings that change, fair scheduling.
SPECIFICATION FairSpec
CONSTANTS
    a1 = a1
    r1 = r1
    r2 = r2
    r3 = r3
    Accounts <- MCOneAccount
    Requests <- MCThreeRequests
    MaxInterval = 2
    IdleAfter = 2
    MaxCap = 2
    MinTimeout = 1
    MaxTimeout = 2
    DefaultTimeout = 2
    MaxWaiters = 2
    StoredIntervals <- MCIntervals
    StoredCaps <- MCCaps
    StoredTimeouts <- MCTimeouts
INVARIANTS QueueExact SlotsExact
PROPERTIES StartsPaced ServesInOrder EveryWaiterLeaves
