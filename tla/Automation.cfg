\* Two days of jobs, claims and readings: the hour of both jobs, and the rest.
SPECIFICATION Spec
CONSTANTS
    wb = wb
    qo = qo
    Accounts = {wb, qo}
    KindOf <- Kind
    Order <- Queue
    Admins = {adm}
    Readers = {rd}
    MaxBalance = 1
    CheckinHour = 0
    KeepaliveHour = 0
    Instants = 2
    Horizon = 2
    MaxMoves = 1
INVARIANTS EverybodyAsked ShownIsClaimed
PROPERTIES CacheIsMeasured DailyJobs
CHECK_DEADLOCK FALSE
