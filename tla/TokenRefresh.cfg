\* One account, two coroutines that compete for its lock, two refresh tokens.
SPECIFICATION RefreshFairSpec
CONSTANTS
    a1 = a1
    t1 = t1
    t2 = t2
    Logins <- MCOneAccount
    Tasks <- MCTwoTasks
    DeadThreshold = 2
    MaxTokens = 2
INVARIANTS TokensConsistent
PROPERTIES ExpiryHasAReason RefreshEnds
