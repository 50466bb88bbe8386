---------------------------- MODULE DailyQuota ----------------------------
(***************************************************************************)
(* The daily request limit of an API key, from authentication to the log   *)
(* row and across restarts: server._check_client_auth reads the key,       *)
(* router.chat_after_name builds the queue, server._reserve_client_quota   *)
(* runs database.reserve_api_key_request in a worker thread, the providers *)
(* write one log row per attempt, and database._migrate_daily_usage        *)
(* rebuilds the day's counters from the log at every start.                *)
(***************************************************************************)
EXTENDS Integers, FiniteSets

CONSTANTS
    Keys,
    Requests,
    Limits,         \* values of api_keys.daily_limit, 0 = unlimited
    MaxDay,         \* bound: days that pass
    MaxRows,        \* bound: log rows one request writes
    MaxRestarts,    \* bound: restarts of the gateway
    MaxPerDay,      \* bound: requests admitted per key and date
    Retention       \* CB_GATEWAY_LOG_RETENTION_DAYS, at least 1

ASSUME QuotaAssumption ==
    /\ Keys # {} /\ Limits \subseteq Nat
    /\ MaxDay \in Nat \ {0} /\ MaxRows \in Nat /\ MaxRestarts \in Nat
    /\ MaxPerDay \in Nat
    /\ Retention \in Nat \ {0}

Days == 1..MaxDay

VARIABLES
    today,      \* date.today()
    limit,      \* api_keys.daily_limit
    usage,      \* api_key_daily_usage.request_count
    logged,     \* number of rows of `logs` per key and local date
    request,    \* where each request is, and what it carries
    restarts,   \* restarts so far
    counted     \* history: requests really admitted per key and date

vars == <<today, limit, usage, logged, request, restarts, counted>>

Points == {"idle", "authed", "queued", "dated", "admitted"}
IdleRequest == [at |-> "idle", key |-> CHOOSE k \in Keys : TRUE, limit |-> 0,
                day |-> 0, rows |-> 0]

Zero == [k \in Keys |-> [d \in Days |-> 0]]

Init ==
    /\ today = 1
    /\ limit \in [Keys -> Limits]
    /\ usage = Zero
    /\ logged = Zero
    /\ request = [r \in Requests |-> IdleRequest]
    /\ restarts = 0
    /\ counted = Zero

\* _check_client_auth(consume_quota=False): the key row is read here; the limit
\* used later is the one in this copy.
Authenticate(r, k) ==
    /\ request[r].at = "idle"
    /\ request' = [request EXCEPT ![r] =
                     [IdleRequest EXCEPT !.at = "authed", !.key = k, !.limit = limit[k]]]
    /\ UNCHANGED <<today, limit, usage, logged, restarts, counted>>

\* 400 from the model gate, or an empty queue and a 503: nothing is counted.
TurnAway(r) ==
    /\ request[r].at = "authed"
    /\ request' = [request EXCEPT ![r] = IdleRequest]
    /\ UNCHANGED <<today, limit, usage, logged, restarts, counted>>

\* The queue is not empty: after_queue hands the reservation to a thread.
FindAccounts(r) ==
    /\ request[r].at = "authed"
    /\ request' = [request EXCEPT ![r].at = "queued"]
    /\ UNCHANGED <<today, limit, usage, logged, restarts, counted>>

\* The thread reads the date before it waits for the database lock.
ReadDate(r) ==
    /\ request[r].at = "queued"
    /\ request' = [request EXCEPT ![r].at = "dated", ![r].day = today]
    /\ UNCHANGED <<today, limit, usage, logged, restarts, counted>>

\* Mutant: one request too many.
ExhaustedLate(r) ==
    LET q == request[r] IN q.limit > 0 /\ usage[q.key][q.day] > q.limit

Exhausted(r) ==
    LET q == request[r] IN q.limit > 0 /\ usage[q.key][q.day] >= q.limit

\* reserve_api_key_request: one immediate transaction, test and increment.
Reserve(r) ==
    /\ request[r].at = "dated"
    /\ ~Exhausted(r)
    /\ counted[request[r].key][request[r].day] < MaxPerDay
    /\ LET q == request[r]
       IN  /\ usage' = [usage EXCEPT ![q.key][q.day] = @ + 1]
           /\ counted' = [counted EXCEPT ![q.key][q.day] = @ + 1]
    /\ request' = [request EXCEPT ![r].at = "admitted"]
    /\ UNCHANGED <<today, limit, logged, restarts>>

\* 429, nothing written.
Refuse(r) ==
    /\ request[r].at = "dated"
    /\ Exhausted(r)
    /\ request' = [request EXCEPT ![r] = IdleRequest]
    /\ UNCHANGED <<today, limit, usage, logged, restarts, counted>>

\* record_request: every attempt on an account leaves a row with the key's id,
\* the retried ones as well as the last.
LogAttempt(r) ==
    /\ request[r].at = "admitted" /\ request[r].rows < MaxRows
    /\ logged' = [logged EXCEPT ![request[r].key][today] = @ + 1]
    /\ request' = [request EXCEPT ![r].rows = @ + 1]
    /\ UNCHANGED <<today, limit, usage, restarts, counted>>

\* The response ends, or the client hangs up before any row is written.
End(r) ==
    /\ request[r].at = "admitted"
    /\ request' = [request EXCEPT ![r] = IdleRequest]
    /\ UNCHANGED <<today, limit, usage, logged, restarts, counted>>

\* PUT /admin/keys/{kid}
ChangeLimit(k, n) ==
    /\ limit[k] # n
    /\ limit' = [limit EXCEPT ![k] = n]
    /\ UNCHANGED <<today, usage, logged, request, restarts, counted>>

Midnight ==
    /\ today < MaxDay
    /\ today' = today + 1
    /\ UNCHANGED <<limit, usage, logged, request, restarts, counted>>

\* Mutant: the log replaces the counter.
MigratedFromLog(k, d) == IF d = today THEN logged[k][d] ELSE usage[k][d]

\* _migrate_daily_usage: today's counter is at least today's log rows.
Migrated(k, d) ==
    IF d = today /\ logged[k][d] > usage[k][d] THEN logged[k][d] ELSE usage[k][d]

\* _prune_logs: counters of dates before today - Retention are deleted.
Kept(k, d) == IF d < today - Retention THEN 0 ELSE Migrated(k, d)

\* init_db at the start of the process; requests in flight are lost.
Restart ==
    /\ restarts < MaxRestarts
    /\ restarts' = restarts + 1
    /\ usage' = [k \in Keys |-> [d \in Days |-> Kept(k, d)]]
    /\ logged' = [k \in Keys |->
                    [d \in Days |-> IF d < today - Retention THEN 0 ELSE logged[k][d]]]
    /\ request' = [r \in Requests |-> IdleRequest]
    /\ UNCHANGED <<today, limit, counted>>

Next ==
    \/ Midnight
    \/ Restart
    \/ \E k \in Keys, n \in Limits : ChangeLimit(k, n)
    \/ \E r \in Requests : \/ \E k \in Keys : Authenticate(r, k)
                           \/ TurnAway(r) \/ FindAccounts(r) \/ ReadDate(r)
                           \/ Reserve(r) \/ Refuse(r) \/ LogAttempt(r) \/ End(r)

Spec == Init /\ [][Next]_vars

----------------------------------------------------------------------------
\* Types of the variables.
TypeOK ==
    /\ today \in Days
    /\ limit \in [Keys -> Limits]
    /\ usage \in [Keys -> [Days -> Nat]]
    /\ logged \in [Keys -> [Days -> Nat]]
    /\ request \in [Requests ->
          [at : Points, key : Keys, limit : Limits \cup {0}, day : 0..MaxDay,
           rows : 0..MaxRows]]
    /\ restarts \in 0..MaxRestarts
    /\ counted \in [Keys -> [Days -> Nat]]

\* A restart never forgets an admitted request of a date still kept: a client
\* cannot win back its daily requests by waiting for the gateway to restart.
NeverUnderCounted ==
    \A k \in Keys, d \in Days : d >= today - Retention => usage[k][d] >= counted[k][d]

\* No request is admitted for a date on which its key has already been given
\* as many requests as the limit it was authenticated under allows, however
\* many worker threads reserve at the same time.
LimitHonoured ==
    [][\A k \in Keys, d \in Days :
          counted'[k][d] > counted[k][d] =>
              \E r \in Requests :
                 /\ request[r].at = "dated" /\ request'[r].at = "admitted"
                 /\ request[r].key = k /\ request[r].day = d
                 /\ request[r].limit = 0 \/ counted[k][d] < request[r].limit]_vars
=============================================================================
