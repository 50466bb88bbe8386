\* Two accounts, two choices, four events per attempt.
SPECIFICATION Spec
CONSTANTS
    a1 = a1
    a2 = a2
    c1 = c1
    c2 = c2
    None = None
    Accounts <- MCAccounts
    Choices <- MCChoices
    Deltas <- MCDeltas
    Cap = 2
    MaxEvents = 4
    MaxWithheld = 2
    StallFails = TRUE
CHECK_DEADLOCK FALSE
INVARIANTS AnswerIsWhole LogIsTrue
PROPERTIES AnswerSpec
