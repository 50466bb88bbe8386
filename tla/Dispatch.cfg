\* One request with cross-channel failover on (the router walks the queue) and
\* off (the provider of the first channel picks for itself).
SPECIFICATION FairSpec
CONSTANTS
    a1 = a1
    a2 = a2
    a3 = a3
    c1 = c1
    c2 = c2
    None = None
    Accounts <- MCAccounts
    ChannelOf <- MCChannelOf
    Order <- MCOrder
    Failover = {TRUE, FALSE}
    Cap = 2
INVARIANTS HeldAndPaidOnce AskedInTurn
PROPERTIES NoFurtherAccount Answered
