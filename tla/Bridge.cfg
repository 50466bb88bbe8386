\* Three prompts, up to three deltas in an answer.
SPECIFICATION Spec
CONSTANTS
    c1 = c1
    c2 = c2
    t1 = t1
    t2 = t2
    NoCall = NoCall
    Choices <- MCChoices
    Tools <- MCTools
    Deltas <- MCDeltas
    Answers <- MCAnswers
    Prompts <- MCPrompts
    Budgets = {0, 1, 2}
    Huge = 3
    MaxBuffered = 3
    MaxEvents = 3
CHECK_DEADLOCK FALSE
INVARIANTS GuardIsInvisible ResponseIsWhole
PROPERTIES RetriesShorter AnswerIsClosed EventSpec
