---------------------------- MODULE ChannelChat ----------------------------
(***************************************************************************)
(* One chat request inside a channel other than WorkBuddy.  The five       *)
(* providers (qclaw is retired and never registered) share a shape: pick   *)
(* an account, renew its login if it must be, take a slot, post, and on    *)
(* failure record it and try the next account.  They differ in who is      *)
(* picked, when a login is renewed, which failures end the loop and what   *)
(* is logged; `channel` selects the provider and the operators named after *)
(* such a difference consult it.                                           *)
(*                                                                         *)
(* How a renewal works is the subject of ChannelLogin; here it succeeds or *)
(* fails.  What other requests and administrators do to the accounts are   *)
(* the actions of the surroundings, at most Changes of them.               *)
(***************************************************************************)
EXTENDS Integers, Sequences, FiniteSets

CONSTANTS
    Order,          \* the accounts of the channel, as list_accounts returns them
    Budgets,        \* {3}: the smallest account_attempt_limit; a smaller one
                    \*   stands for a larger pool
    Changes,        \* bound on changes made by others during the request
    None            \* no account

Accounts == {Order[i] : i \in DOMAIN Order}

ASSUME ChannelAssumption ==
    /\ Order \in Seq(Accounts)
    /\ \A i, j \in DOMAIN Order : Order[i] = Order[j] => i = j
    /\ Budgets # {} /\ Budgets \subseteq Nat \ {0}
    /\ Changes \in Nat
    /\ None \notin Accounts

VARIABLES
    channel,    \* the provider
    streams,    \* payload["stream"]
    pin,        \* auth_manager.pinned_for(channel)
    status,     \* accounts.status
    lapsed,     \* accounts whose is_token_expired holds
    cooling,    \* accounts account_is_cooling_down reports
    changes,    \* changes made by others so far
    at,         \* where the request is
    limit,      \* account_attempt_limit, computed once
    pooled,     \* history: the accounts it counted
    attempt,    \* attempts begun
    tried,      \* tried
    picked,     \* what pick_account returned
    rows,       \* rows left of the listing the picker walks
    listed,     \* the listing has been made
    account,    \* the account in use
    renewed,    \* accounts renewed after a 401 (qoder: this attempt)
    last,       \* the last failure
    counted,    \* log rows with increment_usage
    row,        \* the last log row: account and whether it reports success
    outcome,    \* how the request ended
    fresh,      \* history: accounts whose token this request has not sent
    resent,     \* history: a token was sent twice
    asked,      \* history: accounts an attempt was made with
    sources,    \* history: accounts whose output the client received
    usable      \* history: accounts usable ever since the request began

request == <<channel, streams, pin, limit, pooled>>
pool == <<status, lapsed, cooling, changes>>
picking == <<picked, rows, listed>>
loop == <<attempt, tried, account, renewed>>
record == <<counted, row>>
past == <<fresh, resent, asked, sources, usable>>
vars == <<request, pool, at, loop, picking, last, record, outcome, past>>

Channels == {"qoder", "qwenwork", "traework", "loomy", "xiaohuanxiong"}
Statuses == {"active", "inactive", "expired"}
\* auth: 401 or 403; busy: the other statuses worth another account.
Failures == {"auth", "busy", "refused", "context", "network", "inBand"}

Usable(a) == status[a] = "active" /\ a \notin cooling

\* The loop goes on after any failure in qoder and traework; elsewhere it ends
\* at a status outside RETRYABLE_STATUS, and in loomy at a context rejection.
Stops(f) ==
    \/ channel \notin {"qoder", "traework"} /\ f \in {"refused", "context"}
    \/ channel = "qwenwork" /\ f = "auth"
Final(f) == Stops(f) \/ attempt = limit

\* Mutant: the budget is capped below the pool, as it once was at three.
AttemptLimitCapped(ch, st, least) == 1

\* Accounts that are in the pool or may come back by a renewal.
Pool(st) == {a \in Accounts : st[a] \in {"active", "expired"}}

\* account_attempt_limit: the pool, twice where each account may be retried.
AttemptLimit(ch, st, least) ==
    LET count == Cardinality(Pool(st))
        budget == IF ch = "traework" THEN 2 * count ELSE count
    IN  IF budget > least THEN budget ELSE least

Init ==
    /\ channel \in Channels /\ streams \in BOOLEAN /\ pin \in Accounts \cup {None}
    /\ status \in [Accounts -> Statuses]
    /\ lapsed \in SUBSET Accounts /\ cooling \in SUBSET Accounts
    /\ changes = 0
    /\ at = "picking"
    /\ \E least \in Budgets : limit = AttemptLimit(channel, status, least)
    /\ attempt = 0 /\ tried = {}
    /\ picked = None /\ rows = {} /\ listed = FALSE
    /\ account = None /\ renewed = {} /\ last = "none"
    /\ counted = 0 /\ row = <<None, FALSE>> /\ outcome = "none"
    /\ fresh = Accounts /\ resent = FALSE /\ pooled = Pool(status)
    /\ asked = {} /\ sources = {}
    /\ usable = {a \in Accounts : Usable(a)}

End(how) == at' = "done" /\ outcome' = how

Row(a, success, counts) ==
    /\ row' = <<a, success>>
    /\ counted' = IF counts THEN counted + 1 ELSE counted

----------------------------------------------------------------------------
(* Picking an account                                                      *)

\* auth_manager.pick_account: the pinned account whatever its status, or any
\* active one; the order among these is the dispatcher's concern.
Eligible(a) ==
    /\ a \notin tried /\ a \notin cooling
    /\ IF pin # None THEN a = pin ELSE status[a] = "active"

RenewsWhenPicking == channel \in {"qoder", "qwenwork", "traework"}
ChecksWhenReady == channel \in {"loomy", "xiaohuanxiong"}

\* What a successful refresh_account leaves.
Renewed(a) ==
    /\ status' = [status EXCEPT ![a] = "active"]
    /\ lapsed' = lapsed \ {a}
    /\ fresh' = fresh \cup {a}

Use(a) ==
    /\ account' = a
    /\ tried' = tried \cup {a}
    /\ attempt' = attempt + 1
    /\ renewed' = IF channel = "qoder" THEN {} ELSE renewed
    /\ asked' = asked \cup {a}
    /\ at' = IF ChecksWhenReady THEN "readying" ELSE "sending"
    /\ picked' = None /\ rows' = {} /\ listed' = FALSE

\* The rows a picker walks: expired ones, or in qoder every other row, disabled
\* ones included.  A pinned hop has none in qoder.
Listing(p) ==
    {a \in Accounts \ (tried \cup {p}) :
        IF channel = "qoder" THEN pin = None ELSE status[a] = "expired"}

\* The row that comes next: the account pick_account returned, then the listing
\* in its order.
Before(a, b) == \E i, j \in DOMAIN Order : i < j /\ Order[i] = a /\ Order[j] = b
Foremost(a) == a \in rows /\ (picked \in rows => a = picked)
                          /\ (picked \notin rows => \A b \in rows \ {a} : Before(a, b))

\* pick_account returned an account that can be used as it is.
PickReady(a) ==
    /\ at = "picking" /\ attempt < limit /\ Eligible(a)
    /\ RenewsWhenPicking => a \notin lapsed
    /\ Use(a)
    /\ UNCHANGED <<request, pool, last, record, outcome, fresh, resent, sources, usable>>

\* It returned one whose token has lapsed: this row is tried first.  qoder lists
\* the others now, the other two once this renewal has failed.
PickLapsed(a) ==
    /\ at = "picking" /\ attempt < limit /\ Eligible(a)
    /\ RenewsWhenPicking /\ a \in lapsed
    /\ picked' = a
    /\ listed' = (channel = "qoder")
    /\ rows' = {a} \cup (IF channel = "qoder" THEN Listing(a) ELSE {})
    /\ at' = "sweeping"
    /\ UNCHANGED <<request, pool, loop, last, record, outcome, past>>

\* It returned nothing.
PickNothing ==
    /\ at = "picking" /\ attempt < limit
    /\ \A a \in Accounts : ~Eligible(a)
    /\ rows' = (IF RenewsWhenPicking THEN Listing(None) ELSE {})
    /\ listed' = TRUE /\ picked' = None
    /\ at' = "sweeping"
    /\ UNCHANGED <<request, pool, loop, last, record, outcome, past>>

\* The next row can be used without a renewal (qoder), or its renewal succeeds.
SweepUse ==
    /\ at = "sweeping"
    /\ \E a \in rows :
         /\ Foremost(a) /\ Use(a)
         /\ IF channel = "qoder" /\ a \notin lapsed
            THEN UNCHANGED <<status, lapsed, fresh>>
            ELSE Renewed(a)
    /\ UNCHANGED <<request, cooling, changes, last, record, outcome, resent, sources,
                   usable>>

SweepFail ==
    /\ at = "sweeping"
    /\ \E a \in rows : /\ Foremost(a) /\ (channel = "qoder" => a \in lapsed)
                      /\ rows' = rows \ {a}
    /\ UNCHANGED <<request, pool, at, loop, picked, listed, last, record, outcome, past>>

\* Only TraeWorkAuthError is caught around a traework renewal.
SweepBreak ==
    /\ at = "sweeping" /\ rows # {} /\ channel = "traework"
    /\ End("broken")
    /\ UNCHANGED <<request, pool, loop, picking, last, record, past>>

SweepList ==
    /\ at = "sweeping" /\ rows = {} /\ ~listed
    /\ rows' = Listing(picked) /\ listed' = TRUE
    /\ UNCHANGED <<request, pool, at, loop, picked, last, record, outcome, past>>

\* qoder falls back on what pick_account returned, renewed or not.
SweepFallBack ==
    /\ at = "sweeping" /\ rows = {} /\ listed
    /\ channel = "qoder" /\ picked # None
    /\ Use(picked)
    /\ Renewed(picked) \/ UNCHANGED <<status, lapsed, fresh>>
    /\ UNCHANGED <<request, cooling, changes, last, record, outcome, resent, sources,
                   usable>>

\* The error for a request that has no account left; qwenwork logs it when
\* it streams.
Surrender ==
    /\ End("error")
    /\ IF streams /\ channel = "qwenwork" THEN Row(None, FALSE, TRUE)
       ELSE UNCHANGED record
    /\ UNCHANGED <<request, pool, loop, picking, last, past>>

\* In qwenwork and traework also when the account pick_account returned could
\* not be renewed, nor any expired one: other active accounts are not looked at.
SweepEnd ==
    /\ at = "sweeping" /\ rows = {} /\ listed
    /\ channel # "qoder" \/ picked = None
    /\ Surrender

Exhausted == at = "picking" /\ attempt = limit /\ Surrender

----------------------------------------------------------------------------
(* Renewing before the post: loomy's _ready, xiaohuanxiong's ensure_ready   *)

\* The token has not lapsed, and for xiaohuanxiong a probe agrees.
ReadyAsIs ==
    /\ at = "readying" /\ account \notin lapsed
    /\ at' = "sending"
    /\ UNCHANGED <<request, pool, loop, picking, last, record, outcome, past>>

ReadyRenewed ==
    /\ at = "readying"
    /\ channel = "loomy" => account \in lapsed
    /\ Renewed(account)
    /\ at' = "sending"
    /\ UNCHANGED <<request, cooling, changes, loop, picking, last, record, outcome,
                   resent, asked, sources, usable>>

----------------------------------------------------------------------------
(* A failed attempt                                                        *)

\* Whether a failed attempt is recorded against its account.
Marks(f) ==
    CASE channel = "qoder" -> f \notin {"network", "inBand"}
      [] channel = "qwenwork" -> f # "inBand"
      [] OTHER -> f # "context"

\* Whether it leaves a log row, and whether that row counts (increment_usage).
Logs(f) ==
    CASE channel = "qoder" -> f # "network"
      [] channel = "loomy" -> FALSE
      [] channel \in {"traework", "xiaohuanxiong"} -> TRUE
      [] OTHER -> streams => Stops(f)

Counts(f) == channel \in {"qoder", "traework"} \/ Final(f)

LogFailure(f) == IF Logs(f) THEN Row(account, FALSE, Counts(f)) ELSE UNCHANGED record

\* auth_manager.mark_account_failure.
MarkFailure(f) ==
    /\ cooling' = IF Marks(f) THEN cooling \cup {account} ELSE cooling
    /\ status' = IF f = "auth" THEN [status EXCEPT ![account] = "expired"] ELSE status

Leave(f) ==
    /\ last' = f
    /\ account' = None
    /\ IF Stops(f) THEN End("refused") ELSE at' = "picking" /\ UNCHANGED outcome

Failed(f) == MarkFailure(f) /\ LogFailure(f) /\ Leave(f)

\* No usable login: xiaohuanxiong also gives the login up.
ReadyFails ==
    /\ at = "readying"
    /\ channel = "loomy" => account \in lapsed
    /\ cooling' = cooling \cup {account}
    /\ status' = IF channel = "xiaohuanxiong" THEN [status EXCEPT ![account] = "expired"]
                 ELSE status
    /\ LogFailure("network") /\ Leave("network")
    /\ UNCHANGED <<request, lapsed, changes, attempt, tried, renewed, picking, past>>

----------------------------------------------------------------------------
(* The upstream call                                                       *)

\* The slot is granted and the request sent.
Send ==
    /\ at = "sending"
    /\ at' = "posted"
    /\ resent' = (resent \/ account \notin fresh)
    /\ fresh' = fresh \ {account}
    /\ UNCHANGED <<request, pool, loop, picking, last, record, outcome, asked, sources,
                   usable>>

\* qwenwork's `except` names EncodeError, which is imported in another function:
\* whatever it should have caught (the encoder, the slot, the connection before
\* or after output) ends the request with NameError, unmarked and unlogged.
CatchesNothing == channel = "qwenwork"

NameFails ==
    /\ CatchesNothing /\ at \in {"sending", "posted", "reading"}
    /\ End("broken")
    /\ UNCHANGED <<request, pool, loop, picking, last, record, past>>

\* No provider catches RateLimitError.
SlotRefused ==
    /\ at = "sending" /\ ~CatchesNothing
    /\ End("limited")
    /\ UNCHANGED <<request, pool, loop, picking, last, record, past>>

\* Mutant: qoder renews as often as it is refused.
RenewableAgain ==
    CASE channel = "qoder" -> TRUE
      [] channel = "traework" -> account \notin renewed
      [] channel = "loomy" -> ~streams /\ attempt < limit
      [] channel = "xiaohuanxiong" -> ~streams /\ attempt <= 2
      [] OTHER -> FALSE

\* A login worth renewing after this failure: once per attempt in qoder, once
\* per account in traework (a 403 never), for JSON requests in the other two.
Renewable ==
    CASE channel = "qoder" -> account \notin renewed
      [] channel = "traework" -> account \notin renewed
      [] channel = "loomy" -> ~streams /\ attempt < limit
      [] channel = "xiaohuanxiong" -> ~streams /\ attempt <= 2
      [] OTHER -> FALSE

\* Before the first output traework and the JSON requests read on: the failure
\* may also come with a 200.
Unanswered == at = "posted" \/ (at = "reading" /\ channel = "traework" /\ ~streams)

Refused(f) ==
    /\ Unanswered /\ f \in {"auth", "busy", "refused", "context"}
    /\ f = "context" => channel = "loomy"
    /\ f = "auth" => ~Renewable \/ channel = "traework"
    /\ Failed(f)
    /\ UNCHANGED <<request, lapsed, changes, attempt, tried, renewed, picking, past>>

\* xiaohuanxiong, streaming: the token now in the client's file is adopted after
\* the failure has been recorded, and no row is left.
Resync ==
    /\ at = "posted" /\ channel = "xiaohuanxiong" /\ streams /\ ~Final("auth")
    /\ cooling' = cooling \cup {account}
    /\ Renewed(account)
    /\ Leave("auth")
    /\ UNCHANGED <<request, changes, attempt, tried, renewed, picking, record, resent,
                   asked, sources, usable>>

Unauthorized ==
    /\ Unanswered /\ Renewable
    /\ at' = "renewing"
    /\ renewed' = renewed \cup {account}
    /\ tried' = IF channel = "traework" THEN tried \ {account} ELSE tried
    /\ UNCHANGED <<request, pool, attempt, account, picking, last, record, outcome,
                   past>>

\* qoder sends the request again with the new token.
RenewedResend ==
    /\ at = "renewing" /\ channel = "qoder"
    /\ Renewed(account)
    /\ at' = "sending"
    /\ UNCHANGED <<request, cooling, changes, loop, picking, last, record, outcome,
                   resent, asked, sources, usable>>

\* qoder could not renew: the failure is recorded, but no row.
RenewalFailed ==
    /\ at = "renewing" /\ channel = "qoder"
    /\ MarkFailure("auth") /\ Leave("auth")
    /\ UNCHANGED <<request, lapsed, changes, attempt, tried, renewed, picking, record,
                   past>>

\* The others record the refused post after the renewal, whatever came of it.
RenewedOrNot ==
    /\ at = "renewing" /\ channel # "qoder"
    /\ \/ lapsed' = lapsed \ {account} /\ fresh' = fresh \cup {account}
       \/ UNCHANGED <<lapsed, fresh>>
    /\ Failed("auth")
    /\ UNCHANGED <<request, changes, attempt, tried, renewed, picking, resent, asked,
                   sources, usable>>

\* Only TraeWorkAuthError is caught around a traework renewal.
RenewalBreaks ==
    /\ at = "renewing" /\ channel = "traework"
    /\ End("broken")
    /\ UNCHANGED <<request, pool, loop, picking, last, record, past>>

Unreachable ==
    /\ at = "posted" /\ ~CatchesNothing
    /\ Failed("network")
    /\ UNCHANGED <<request, lapsed, changes, attempt, tried, renewed, picking, past>>
----------------------------------------------------------------------------
(* Reading the answer                                                      *)

MarksAtHeaders == channel \in {"qwenwork", "loomy", "xiaohuanxiong"}
\* qoder's JSON answer is collected from the same stream.
Forwards == streams \/ channel = "qoder"
Started == account \in sources

\* A status below 400; in a traework stream, the first event.
Accepted ==
    /\ at = "posted"
    /\ at' = "reading"
    /\ cooling' = IF MarksAtHeaders THEN cooling \ {account} ELSE cooling
    /\ UNCHANGED <<request, status, lapsed, changes, loop, picking, last, record,
                   outcome, past>>

Delta ==
    /\ at = "reading" /\ Forwards
    /\ sources' = sources \cup {account}
    /\ UNCHANGED <<request, pool, at, loop, picking, last, record, outcome, fresh,
                   resent, asked, usable>>

Whole ==
    /\ cooling' = cooling \ {account}
    /\ Row(account, TRUE, TRUE)
    /\ End("ok")

Complete ==
    /\ at = "reading"
    /\ Whole
    /\ sources' = IF streams THEN sources ELSE sources \cup {account}
    /\ UNCHANGED <<request, status, lapsed, changes, loop, picking, last, fresh, resent,
                   asked, usable>>

\* qwenwork: an error in the envelope ends the request whatever came before;
\* the account has been recorded as successful.
EnvelopeError ==
    /\ at = "reading" /\ channel = "qwenwork"
    /\ Row(account, FALSE, TRUE)
    /\ last' = "inBand"
    /\ End(IF streams /\ Started THEN "cut" ELSE "refused")
    /\ UNCHANGED <<request, pool, loop, picking, past>>

\* qoder goes on to the next account, also after output.
BodyError ==
    /\ at = "reading" /\ channel = "qoder"
    /\ Failed("inBand")
    /\ UNCHANGED <<request, lapsed, changes, attempt, tried, renewed, picking, past>>

\* traework, streaming: an error event becomes text and the answer ends well.
ErrorBecomesText ==
    /\ at = "reading" /\ channel = "traework" /\ streams
    /\ sources' = sources \cup {account}
    /\ last' = "inBand"
    /\ Whole
    /\ UNCHANGED <<request, status, lapsed, changes, loop, picking, fresh, resent, asked,
                   usable>>

\* Mutant: a broken stream is replayed on the next account.
CutsShortNever == FALSE

\* A stream that breaks after output ends, except in qoder; a traework stream
\* has been handed over by then.
CutsShort == streams /\ channel # "qoder" /\ (Started \/ channel = "traework")

\* The connection breaks.  A JSON answer of the pass-through channels arrives
\* with its status.
Disconnect ==
    /\ at = "reading" /\ ~CatchesNothing
    /\ IF CutsShort
       THEN /\ End("cut")
            /\ IF channel = "xiaohuanxiong" THEN Row(account, FALSE, TRUE)
               ELSE UNCHANGED record
            /\ last' = "network"
            /\ UNCHANGED <<status, cooling, account>>
       ELSE Failed("network")
    /\ UNCHANGED <<request, lapsed, changes, attempt, tried, renewed, picking, past>>

\* The client goes away.
Hangup ==
    /\ at # "done"
    /\ End("closed")
    /\ UNCHANGED <<request, pool, loop, picking, last, record, past>>

----------------------------------------------------------------------------
(* Everybody else                                                          *)

Others == changes < Changes /\ changes' = changes + 1 /\ at # "done"
StillUsable(st, co) == {a \in usable : st[a] = "active" /\ a \notin co}

\* An administrator, a renewal or a refused request elsewhere.
StatusChanges(a) ==
    /\ Others
    /\ \E s \in Statuses \ {status[a]} : status' = [status EXCEPT ![a] = s]
    /\ usable' = StillUsable(status', cooling)
    /\ UNCHANGED <<request, lapsed, cooling, at, loop, picking, last, record, outcome,
                   fresh, resent, asked, sources>>

\* Another request fails on an account, or a cooldown ends.  The ones this
\* request has earned have only just begun.
CooldownChanges(a) ==
    /\ Others
    /\ a \in cooling => a \notin asked
    /\ cooling' = IF a \in cooling THEN cooling \ {a} ELSE cooling \cup {a}
    /\ usable' = StillUsable(status, cooling')
    /\ UNCHANGED <<request, status, lapsed, at, loop, picking, last, record, outcome,
                   fresh, resent, asked, sources>>

TokenLapses(a) ==
    /\ Others
    /\ a \notin lapsed /\ lapsed' = lapsed \cup {a}
    /\ UNCHANGED <<request, status, cooling, at, loop, picking, last, record, outcome,
                   past>>

----------------------------------------------------------------------------

Pick ==
    \/ \E a \in Accounts : PickReady(a) \/ PickLapsed(a)
    \/ PickNothing \/ SweepUse \/ SweepFail \/ SweepBreak \/ SweepList
    \/ SweepFallBack \/ SweepEnd \/ Exhausted
Call ==
    \/ ReadyAsIs \/ ReadyRenewed \/ ReadyFails
    \/ Send \/ SlotRefused
    \/ \E f \in Failures : Refused(f)
    \/ Resync \/ Unauthorized \/ RenewedResend \/ RenewalFailed \/ RenewedOrNot
    \/ RenewalBreaks \/ Unreachable \/ Accepted
Read ==
    Delta \/ Complete \/ EnvelopeError \/ BodyError \/ ErrorBecomesText \/ Disconnect
Surroundings ==
    \E a \in Accounts : StatusChanges(a) \/ CooldownChanges(a) \/ TokenLapses(a)

\* The request has ended.
Finished == at = "done" /\ UNCHANGED vars

Next == Pick \/ Call \/ Read \/ NameFails \/ Hangup \/ Surroundings \/ Finished

Spec == Init /\ [][Next]_vars

\* Renewals and posts have httpx timeouts, the slot its queue timeout.  A stream
\* may last for ever.
FairSpec == Spec /\ WF_vars(Pick \/ Call)

----------------------------------------------------------------------------
(* Properties                                                              *)

TypeOK ==
    /\ channel \in Channels /\ streams \in BOOLEAN /\ pin \in Accounts \cup {None}
    /\ status \in [Accounts -> Statuses]
    /\ lapsed \subseteq Accounts /\ cooling \subseteq Accounts /\ changes \in 0..Changes
    /\ at \in {"picking", "sweeping", "readying", "sending", "posted", "renewing",
               "reading", "done"}
    /\ limit \in Nat /\ attempt \in 0..limit
    /\ tried \subseteq asked /\ asked \subseteq Accounts /\ renewed \subseteq asked
    /\ picked \in Accounts \cup {None} /\ rows \subseteq Accounts /\ listed \in BOOLEAN
    /\ account \in Accounts \cup {None}
    /\ account = None => at \in {"picking", "sweeping", "done"}
    /\ last \in Failures \cup {"none"}
    /\ counted \in 0..limit + 1 /\ row \in (Accounts \cup {None}) \X BOOLEAN
    /\ outcome \in {"none", "ok", "error", "refused", "cut", "limited", "broken",
                    "closed"}
    /\ fresh \subseteq Accounts /\ resent \in BOOLEAN /\ pooled \subseteq Accounts
    /\ sources \subseteq asked /\ usable \subseteq Accounts

\* What a client receives comes from one account: a stream that has begun is
\* never continued with another one (`if output_started: return` and its like).
\* qoder does go on after an error inside its stream unless the hop is pinned.
OneSource ==
    \/ channel = "qoder" /\ pin = None
    \/ Cardinality(sources) <= 1

\* No token is tried twice in one request: an account comes back only with a new
\* token, whatever others do to its row meanwhile, so a dead login costs one
\* post and cannot keep the loop busy.
NoTokenTwice == ~resent

\* The accounts a request owns: all that have stayed usable since it began, in
\* a pinned hop the pinned one.
Mine == IF pin = None THEN usable ELSE usable \cap {pin}

\* A request told that no account is left has had an attempt on every account it
\* owns.  The code has two exceptions.  The budget, computed once, may go to
\* accounts that were not in the pool then: enabled meanwhile, or disabled ones,
\* which qoder lists.  And the pickers of qwenwork and traework give up with the
\* account they were given: if neither its login nor an expired one can be
\* renewed, usable accounts behind it are not asked.
NobodySkipped ==
    outcome = "error" =>
        \/ Mine \subseteq asked
        \/ attempt = limit /\ ~(asked \subseteq pooled)
        \/ channel \in {"qwenwork", "traework"} /\ picked # None

\* A pinned hop owns one account and leaves every other to the dispatcher.  The
\* pickers of qwenwork and traework do not keep this: with the pinned account
\* spent they renew an expired sibling.
PinnedStays ==
    pin # None /\ channel \notin {"qwenwork", "traework"} => asked \subseteq {pin}

\* The log names the account that answered, and with it exactly one counted row;
\* otherwise at most one.  qoder and traework count every failed account.
CountedOnce ==
    /\ outcome = "ok" => row = <<account, TRUE>>
    /\ channel \notin {"qoder", "traework"} =>
          counted <= 1 /\ (outcome = "ok" => counted = 1)

\* A request has one answer, and the log counts it as one.
OneAnswer == TypeOK /\ OneSource /\ CountedOnce

\* The channel's own loop asks every account that is its to ask, no other, and
\* none of them twice with one token.
OwnAccounts == NobodySkipped /\ PinnedStays /\ NoTokenTwice

\* Every request comes to an end or is left streaming: no channel renews,
\* retries or walks its rows for ever.
Answered == <>[](at \in {"reading", "done"})
=============================================================================
