--------------------------- MODULE TokenRefresh ---------------------------
(***************************************************************************)
(* Renewal of WorkBuddy logins: auth_manager.refresh_token_result and its  *)
(* four callers (a chat request whose access token is about to expire, the *)
(* keepalive job, the administrator's refresh button, and the sweep over   *)
(* expired accounts), racing with each other, with administrators, new     *)
(* logins, the upstream's own verdicts and a restart of the gateway.       *)
(*                                                                         *)
(* The refresh runs under an asyncio lock per account.  Between reading    *)
(* the row and writing the result lies the POST, so other coroutines run   *)
(* while it is on its way; every step without an await is one action.      *)
(* The upstream login service is external: it accepts the newest refresh   *)
(* token of a living session and may issue a new one with every renewal.   *)
(***************************************************************************)
EXTENDS Integers, FiniteSets

CONSTANTS
    Logins,
    Tasks,              \* coroutines that renew or use a login
    DeadThreshold,      \* 3: SESSION_DEAD_THRESHOLD
    MaxTokens           \* bound: refresh tokens the upstream ever issues

ASSUME RefreshAssumption ==
    /\ DeadThreshold \in Nat \ {0}
    /\ MaxTokens \in Nat \ {0}
    /\ Logins # {}
    /\ "free" \notin Tasks

VARIABLES
    row,        \* the account's database row: status, refresh token, whether
                \*   the access token is still good for more than a minute
    dead,       \* _session_dead_counts
    lock,       \* _token_locks: holder or Free
    task,       \* per coroutine: what it does, on which account, where it is
    valid,      \* external: the refresh token the upstream accepts, 0 = none
    issued,     \* external: refresh tokens issued so far
    disturbed   \* history: the stored token may differ from `valid` for a
                \*   reason outside the lock's control

renewal == <<row, dead, lock, task, valid, issued, disturbed>>

Free == "free"
NoToken == 0
Statuses == {"active", "inactive", "expired"}
Kinds == {"chat", "keepalive", "admin", "sweep"}
Points == {"idle", "listed", "queued", "posted", "answered", "sending"}
Answers == {"none", "ok", "dead", "transient", "rejected"}

Rows == [status : Statuses, refresh : 0..MaxTokens, fresh : BOOLEAN]

\* What a coroutine remembers of a row.
Copies == [status : Statuses, refresh : 0..MaxTokens]
Copy(a) == [status |-> row[a].status, refresh |-> row[a].refresh]

\* seen: the row the caller passed in; current: the row re-read under the
\* lock; token: the refresh token a successful answer leaves us with.
TaskStates == [at : Points, kind : Kinds, acct : Logins, seen : Copies,
               current : Copies, answer : Answers, token : 0..MaxTokens]

NoRow == [status |-> "inactive", refresh |-> NoToken]
NoTask == [at |-> "idle", kind |-> "chat", acct |-> CHOOSE a \in Logins : TRUE,
           seen |-> NoRow, current |-> NoRow, answer |-> "none", token |-> NoToken]

AtPost(a) == {t \in Tasks : task[t].acct = a /\ task[t].at \in {"posted", "answered"}}
Renewed(a) == {t \in AtPost(a) : task[t].at = "answered" /\ task[t].answer = "ok"}

Idle(t) == task[t].at = "idle"
Began(t, kind, a, point) ==
    task' = [task EXCEPT ![t] = [NoTask EXCEPT !.at = point, !.kind = kind,
                                               !.acct = a, !.seen = Copy(a)]]
Ended(t) == task' = [task EXCEPT ![t] = NoTask]

\* mark_account_failure(aid, 401) writes this, whatever the status was.
Expired(a) == row' = [row EXCEPT ![a].status = "expired"]

RefreshInit ==
    /\ row \in [Logins -> [status : Statuses, refresh : {NoToken, 1}, fresh : BOOLEAN]]
    /\ dead = [a \in Logins |-> 0]
    /\ lock = [a \in Logins |-> Free]
    /\ task = [t \in Tasks |-> NoTask]
    /\ valid = [a \in Logins |-> row[a].refresh]
    /\ issued = [a \in Logins |-> 1]
    /\ disturbed = [a \in Logins |-> FALSE]

----------------------------------------------------------------------------
(* The callers, up to the lock.                                            *)

\* pick_account took an active account and its token still has a minute.
ChatPickFresh(t, a) ==
    /\ Idle(t) /\ row[a].status = "active" /\ row[a].fresh
    /\ Began(t, "chat", a, "sending")
    /\ UNCHANGED <<row, dead, lock, valid, issued, disturbed>>

\* ensure_token_valid has to renew first.
ChatPickStale(t, a) ==
    /\ Idle(t) /\ row[a].status = "active" /\ ~row[a].fresh
    /\ row[a].refresh # NoToken
    /\ Began(t, "chat", a, "queued")
    /\ UNCHANGED <<row, dead, lock, valid, issued, disturbed>>

\* No refresh token at all: get_valid_headers is None, the provider marks
\* the account failed with 401.
ChatPickHopeless(t, a) ==
    /\ Idle(t) /\ row[a].status = "active" /\ ~row[a].fresh
    /\ row[a].refresh = NoToken
    /\ Expired(a)
    /\ UNCHANGED <<dead, lock, task, valid, issued, disturbed>>

\* keepalive_all lists the accounts of a channel ...
KeepaliveList(t, a) ==
    /\ Idle(t)
    /\ Began(t, "keepalive", a, "listed")
    /\ UNCHANGED <<row, dead, lock, valid, issued, disturbed>>

\* ... and reaches this one after a gap: refresh_one judges the listed row.
KeepaliveTurn(t) ==
    /\ task[t].at = "listed"
    /\ IF task[t].seen.status = "inactive" \/ task[t].seen.refresh = NoToken
       THEN Ended(t) ELSE task' = [task EXCEPT ![t].at = "queued"]
    /\ UNCHANGED <<row, dead, lock, valid, issued, disturbed>>

\* POST /admin/accounts/{aid}/refresh, inactive accounts included.
AdminRefresh(t, a) ==
    /\ Idle(t) /\ row[a].refresh # NoToken
    /\ Began(t, "admin", a, "queued")
    /\ UNCHANGED <<row, dead, lock, valid, issued, disturbed>>

\* pick_account_with_fallback or the dispatcher's recovery: no account left,
\* try to revive an expired one.
SweepRefresh(t, a) ==
    /\ Idle(t) /\ row[a].status = "expired" /\ row[a].refresh # NoToken
    /\ Began(t, "sweep", a, "queued")
    /\ UNCHANGED <<row, dead, lock, valid, issued, disturbed>>

----------------------------------------------------------------------------
(* refresh_token_result.                                                   *)

\* Mutant: the row the caller passed in is used instead of a fresh one.
AcquireStale(t) ==
    /\ task[t].at = "queued" /\ lock[task[t].acct] = Free
    /\ lock' = [lock EXCEPT ![task[t].acct] = t]
    /\ task' = [task EXCEPT ![t].at = "posted", ![t].seen = NoRow,
                              ![t].current = task[t].seen]
    /\ UNCHANGED <<row, dead, valid, issued, disturbed>>

\* The lock is taken, the row re-read, the POST sent with its refresh token.
Acquire(t) ==
    /\ task[t].at = "queued" /\ lock[task[t].acct] = Free
    /\ lock' = [lock EXCEPT ![task[t].acct] = t]
    /\ task' = [task EXCEPT ![t].at = "posted", ![t].seen = NoRow,
                              ![t].current = Copy(task[t].acct)]
    /\ UNCHANGED <<row, dead, valid, issued, disturbed>>

Answered(t, answer, token) ==
    task' = [task EXCEPT ![t].at = "answered", ![t].answer = answer, ![t].token = token]

\* External: the upstream renews the session, keeping or rotating the refresh
\* token (an answer without refreshToken keeps the current one).
UpstreamRenews(t) ==
    LET a == task[t].acct
    IN  /\ task[t].at = "posted"
        /\ task[t].current.refresh = valid[a] /\ valid[a] # NoToken
        /\ \/ Answered(t, "ok", valid[a]) /\ UNCHANGED <<valid, issued, disturbed>>
           \/ /\ issued[a] < MaxTokens
              /\ issued' = [issued EXCEPT ![a] = @ + 1]
              /\ valid' = [valid EXCEPT ![a] = issued[a] + 1]
              /\ \/ Answered(t, "ok", issued[a] + 1) /\ UNCHANGED disturbed
                 \/ \* rotated, but the answer is lost or unreadable
                    /\ Answered(t, "transient", NoToken)
                    /\ disturbed' = [disturbed EXCEPT ![a] = TRUE]
    /\ UNCHANGED <<row, dead, lock>>

\* External: the token presented is not the one of a living session.
UpstreamDead(t) ==
    /\ task[t].at = "posted"
    /\ task[t].current.refresh # valid[task[t].acct]
    /\ Answered(t, "dead", NoToken)
    /\ UNCHANGED <<row, dead, lock, valid, issued, disturbed>>

\* External: network error, 5xx, 429 or a plain refusal; nothing rotated.
UpstreamFails(t) ==
    /\ task[t].at = "posted"
    /\ \E answer \in {"transient", "rejected"} : Answered(t, answer, NoToken)
    /\ UNCHANGED <<row, dead, lock, valid, issued, disturbed>>

\* Mutant: only a successful renewal gives the lock back.
ReleasedOnSuccess(t) ==
    lock' = [lock EXCEPT ![task[t].acct] = IF task[t].answer = "ok" THEN Free ELSE @]

Released(t) == lock' = [lock EXCEPT ![task[t].acct] = Free]

\* Success: tokens and a status computed from the row as it was before the
\* POST are written; a chat request goes on to its upstream call.
ReceiveRenewed(t) ==
    LET a == task[t].acct
    IN  /\ task[t].at = "answered" /\ task[t].answer = "ok"
        /\ row' = [row EXCEPT ![a] =
                     [status  |-> IF task[t].current.status = "inactive"
                                  THEN "inactive" ELSE "active",
                      refresh |-> task[t].token,
                      fresh   |-> TRUE]]
        /\ dead' = [dead EXCEPT ![a] = 0]
        /\ Released(t)
        /\ IF task[t].kind = "chat" THEN Began(t, "chat", a, "sending") ELSE Ended(t)
        /\ UNCHANGED <<valid, issued, disturbed>>

\* Mutant: the first dead session expires the account.
StatusAfterFirstDead(t) ==
    IF task[t].answer = "dead" \/ task[t].kind = "chat"
    THEN "expired" ELSE row[task[t].acct].status

\* What a failed renewal does to the status of the account: the third dead
\* session expires it; the chat path marks any failure as a 401.
StatusAfterFailure(t) ==
    LET a == task[t].acct
    IN  IF \/ task[t].answer = "dead" /\ dead[a] + 1 >= DeadThreshold
           \/ task[t].kind = "chat"
        THEN "expired" ELSE row[a].status

ReceiveFailed(t) ==
    LET a == task[t].acct
    IN  /\ task[t].at = "answered" /\ task[t].answer # "ok"
        /\ row' = [row EXCEPT ![a].status = StatusAfterFailure(t)]
        /\ dead' = IF task[t].answer = "dead" /\ dead[a] < DeadThreshold
                   THEN [dead EXCEPT ![a] = @ + 1] ELSE dead
        /\ Released(t)
        /\ Ended(t)
        /\ UNCHANGED <<valid, issued, disturbed>>

\* The client of a streaming chat hangs up: the coroutine is cancelled at its
\* await and the lock released.  A POST already sent may still be honoured.
ChatCancelled(t) ==
    LET a == task[t].acct
    IN  /\ task[t].kind = "chat" /\ task[t].at \in {"queued", "posted", "answered"}
        /\ lock' = IF task[t].at = "queued" THEN lock ELSE [lock EXCEPT ![a] = Free]
        /\ disturbed' = [disturbed EXCEPT ![a] = @ \/ task[t].at = "posted" \/ t \in Renewed(a)]
        /\ \/ UNCHANGED <<valid, issued>>
           \/ /\ task[t].at = "posted" /\ issued[a] < MaxTokens
              /\ task[t].current.refresh = valid[a]
              /\ issued' = [issued EXCEPT ![a] = @ + 1]
              /\ valid' = [valid EXCEPT ![a] = issued[a] + 1]
        /\ Ended(t)
        /\ UNCHANGED <<row, dead>>

----------------------------------------------------------------------------
(* The chat request after its headers are valid, and the surroundings.     *)

ChatServed(t) ==
    /\ task[t].at = "sending"
    /\ Ended(t)
    /\ UNCHANGED <<row, dead, lock, valid, issued, disturbed>>

\* The upstream answers the chat call with 401 or 403.
ChatRefused(t) ==
    /\ task[t].at = "sending"
    /\ Expired(task[t].acct)
    /\ Ended(t)
    /\ UNCHANGED <<dead, lock, valid, issued, disturbed>>

\* PUT /admin/accounts/{aid} with a status.
AdminSetStatus(a, status) ==
    /\ row' = [row EXCEPT ![a].status = status]
    /\ UNCHANGED <<dead, lock, task, valid, issued, disturbed>>

\* upsert_login_account after a browser login: new session, new tokens.  It
\* does not take the refresh lock.
Login(a) ==
    /\ issued[a] < MaxTokens
    /\ issued' = [issued EXCEPT ![a] = @ + 1]
    /\ valid' = [valid EXCEPT ![a] = issued[a] + 1]
    /\ row' = [row EXCEPT ![a] = [status |-> "active", refresh |-> issued[a] + 1,
                                  fresh |-> TRUE]]
    /\ dead' = [dead EXCEPT ![a] = 0]
    /\ disturbed' = [disturbed EXCEPT ![a] = AtPost(a) # {}]
    /\ UNCHANGED <<lock, task>>

\* External: the upstream ends the session.
SessionEnds(a) ==
    /\ valid[a] # NoToken
    /\ valid' = [valid EXCEPT ![a] = NoToken]
    /\ disturbed' = [disturbed EXCEPT ![a] = TRUE]
    /\ UNCHANGED <<row, dead, lock, task, issued>>

TokenAges(a) ==
    /\ row[a].fresh
    /\ row' = [row EXCEPT ![a].fresh = FALSE]
    /\ UNCHANGED <<dead, lock, task, valid, issued, disturbed>>

\* The process restarts: coroutines, locks and counters are gone, an answer
\* on its way is never read.
Restart ==
    /\ task' = [t \in Tasks |-> NoTask]
    /\ lock' = [a \in Logins |-> Free]
    /\ dead' = [a \in Logins |-> 0]
    /\ disturbed' = [a \in Logins |-> disturbed[a] \/ Renewed(a) # {}]
    /\ UNCHANGED <<row, valid, issued>>

Call(t) ==
    \/ KeepaliveTurn(t) \/ ChatServed(t) \/ ChatRefused(t) \/ ChatCancelled(t)
    \/ \E a \in Logins : \/ ChatPickFresh(t, a) \/ ChatPickStale(t, a)
                           \/ ChatPickHopeless(t, a)
                           \/ KeepaliveList(t, a)
                           \/ AdminRefresh(t, a) \/ SweepRefresh(t, a)
Upstream(t) == UpstreamRenews(t) \/ UpstreamDead(t) \/ UpstreamFails(t)
Receive(t) == ReceiveRenewed(t) \/ ReceiveFailed(t)
Outside(a) ==
    \/ \E status \in Statuses : AdminSetStatus(a, status)
    \/ Login(a) \/ SessionEnds(a) \/ TokenAges(a)

RefreshNext ==
    \/ \E t \in Tasks : Call(t) \/ Acquire(t) \/ Upstream(t) \/ Receive(t)
    \/ \E a \in Logins : Outside(a)
    \/ Restart

RefreshSpec == RefreshInit /\ [][RefreshNext]_renewal

\* The HTTP client's timeout ends every POST, the event loop runs what is
\* ready, and asyncio.Lock wakes its waiters first come first served, which
\* strong fairness stands for.
RefreshFairSpec ==
    /\ RefreshSpec
    /\ \A t \in Tasks : /\ WF_renewal(Upstream(t)) /\ WF_renewal(Receive(t))
                        /\ WF_renewal(KeepaliveTurn(t))
                        /\ SF_renewal(Acquire(t))

----------------------------------------------------------------------------
\* Types of the variables.
RefreshTypeOK ==
    /\ row \in [Logins -> Rows]
    /\ dead \in [Logins -> 0..DeadThreshold]
    /\ lock \in [Logins -> Tasks \cup {Free}]
    /\ task \in [Tasks -> TaskStates]
    /\ valid \in [Logins -> 0..MaxTokens]
    /\ issued \in [Logins -> 1..MaxTokens]
    /\ disturbed \in [Logins -> BOOLEAN]

\* Renewals of one account never fight over its refresh token: unless the
\* upstream ended the session, an answer was lost or a login crossed a POST,
\* the database holds the token the upstream accepts whenever no renewal is
\* being answered, and a POST always presents that token.
NewestTokenKept ==
    \A a \in Logins :
        ~disturbed[a] =>
            /\ Renewed(a) = {} => row[a].refresh = valid[a]
            /\ \A t \in AtPost(a) :
                  task[t].at = "posted" => task[t].current.refresh = valid[a]

\* Coroutines that renew one account leave its row and its counters as they
\* should be and its newest token in the row.
TokensConsistent == RefreshTypeOK /\ NewestTokenKept

\* A login is given up only for a reason: three sessions reported dead, a chat
\* call that could not be authorised, or an administrator.
ExpiryHasAReason ==
    [][\A a \in Logins :
          row[a].status # "expired" /\ row'[a].status = "expired"
            => \/ dead'[a] >= DeadThreshold
               \/ \E t \in Tasks : /\ task[t].acct = a /\ task[t].kind = "chat"
                                   /\ task[t].at \in {"answered", "sending"}
               \/ row[a].refresh = NoToken
               \/ AdminSetStatus(a, "expired")]_renewal

\* Every coroutine that waits for the refresh lock gets it and leaves it.
RefreshEnds ==
    \A t \in Tasks :
        (task[t].at \in {"queued", "posted", "answered"})
            ~> (task[t].at \in {"idle", "sending"})
=============================================================================
