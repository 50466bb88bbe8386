\* One account, three attempts in flight on it, time passing fairly.
SPECIFICATION HealthFairSpec
CONSTANTS
    a1 = a1
    r1 = r1
    r2 = r2
    r3 = r3
    Pool <- MCOneAccount
    Attempts <- MCThreeRequests
    PlainBase = 1
    AuthBase = 2
    BackoffCap = 3
    MaxDoublings = 2
    HintMax = 6
    Decay = 4
    Hints <- MCHints
INVARIANTS NeverStranded BackoffFollowsStreak
PROPERTIES OnlySuccessEndsCooldown
