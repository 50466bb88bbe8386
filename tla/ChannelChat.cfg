\* One request in each of the five channels.
SPECIFICATION FairSpec
CONSTANTS
    a1 = a1
    a2 = a2
    None = None
    Order <- MCOrder
    Budgets = {1}
    Changes = 2
INVARIANTS OneAnswer OwnAccounts
PROPERTIES Answered
