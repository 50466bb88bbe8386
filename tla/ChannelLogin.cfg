\* Renewals of two logins that share one desktop file, in five channels.
SPECIFICATION Spec
CONSTANTS
    u1 = u1
    u2 = u2
    t1 = t1
    t2 = t2
    Users = {u1, u2}
    FirstUser = u1
    Tasks = {t1, t2}
    MaxSessions = 4
    MaxRenewals = 3
    MaxMoves = 2
SYMMETRY Same
CHECK_DEADLOCK FALSE
INVARIANTS SessionsAreOwn UnlockedRenewalsAgree
PROPERTIES RenewalAdvances
