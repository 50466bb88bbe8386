--------------------------- MODULE AccountHealth ---------------------------
(***************************************************************************)
(* The failure memory of auth_manager (_account_failures): consecutive     *)
(* failures per account, the cooldown they earn, and its effect on which   *)
(* accounts a request may be sent to.  Several requests are in flight on   *)
(* one account at the same time, so their outcomes are recorded in any     *)
(* order, and after a cooldown has already begun.                          *)
(*                                                                         *)
(* The monotonic clock is replaced by the time a cooldown still has to run *)
(* (`left`) and the time since the last failure (`quiet`), which saturates *)
(* where the code stops telling values apart.                              *)
(***************************************************************************)
EXTENDS Integers, FiniteSets

CONSTANTS
    Pool,
    Attempts,           \* chat attempts that may be in flight together
    PlainBase,          \* 5: first cooldown after an ordinary failure
    AuthBase,           \* 30: first cooldown after 401, 403 or 429
    BackoffCap,         \* 300
    MaxDoublings,       \* 6
    HintMax,            \* 3600: _QUOTA_HINT_MAX_SECONDS
    Decay,              \* 1800: _FAILURE_DECAY_SECONDS
    Hints               \* cooldown hints an upstream may send, 0 = none

ASSUME HealthAssumption ==
    /\ PlainBase \in Nat \ {0} /\ AuthBase \in Nat \ {0}
    /\ BackoffCap \in Nat \ {0} /\ MaxDoublings \in Nat
    /\ HintMax \in Nat /\ BackoffCap <= HintMax
    /\ Decay \in Nat /\ BackoffCap <= Decay
    /\ Hints \subseteq Nat

VARIABLES
    entry,      \* _account_failures; count = 0 when the account has no entry
    expired,    \* accounts whose database status is "expired"
    flight,     \* flight[r]: the account request r is running on, or Nobody
    streak,     \* history: failures recorded since the last success ...
    sinceFail,  \* history: ... the time since the last of them ...
    lastCode    \* history: ... and its status code

health == <<entry, expired, flight, streak, sinceFail, lastCode>>

Nobody == "nobody"
NoEntry == [count |-> 0, left |-> 0, quiet |-> 0]

\* A count beyond MaxCount earns the same cooldown as MaxCount.
MaxCount == MaxDoublings + 1

Smaller(m, n) == IF m < n THEN m ELSE n
Larger(m, n) == IF m > n THEN m ELSE n

\* Status codes only matter through the base they select.
Codes == {"auth", "throttled", "other"}         \* 401/403, 429, the rest
Base(code) == IF code = "other" THEN PlainBase ELSE AuthBase

Backoff(count, code) ==
    Smaller(BackoffCap, Base(code) * 2 ^ Smaller(count - 1, MaxDoublings))

\* Mutant: the advertised reset is believed whatever it says.
CooldownUncapped(count, code, hint) == Larger(Backoff(count, code), hint)

\* The advertised reset is a floor on the cooldown, itself capped.
Cooldown(count, code, hint) ==
    IF hint > 0 THEN Larger(Backoff(count, code), Smaller(hint, HintMax))
                ELSE Backoff(count, code)

CoolingDown(a) == entry[a].count > 0 /\ entry[a].left > 0

\* Mutant: an elapsed cooldown clears the whole entry.
ConsultedForgets(e) == IF e.count > 0 /\ e.left = 0 THEN NoEntry ELSE e

\* What account_is_cooling_down leaves of an entry it finds elapsed: the
\* counter survives the cooldown and goes only after a quiet decay window.
Consulted(e) == IF e.count > 0 /\ e.left = 0 /\ e.quiet > Decay THEN NoEntry ELSE e

\* Mutant: the newest failure decides, even when it earns less.
FailedOverwrites(e, code, hint) ==
    LET kept  == IF e.count > 0 /\ e.quiet > Decay THEN 0 ELSE e.count
        count == Smaller(kept + 1, MaxCount)
    IN  [count |-> count, left |-> Cooldown(count, code, hint), quiet |-> 0]

\* mark_account_failure: decay, count, back off, never shorten a cooldown.
Failed(e, code, hint) ==
    LET kept  == IF e.count > 0 /\ e.quiet > Decay THEN 0 ELSE e.count
        count == Smaller(kept + 1, MaxCount)
    IN  [count |-> count,
         left  |-> Larger(e.left, Cooldown(count, code, hint)),
         quiet |-> 0]

HealthInit ==
    /\ entry = [a \in Pool |-> NoEntry]
    /\ expired = {}
    /\ flight = [r \in Attempts |-> Nobody]
    /\ streak = [a \in Pool |-> 0]
    /\ sinceFail = [a \in Pool |-> 0]
    /\ lastCode = [a \in Pool |-> "other"]

\* pick_account: every account of the pool is consulted, one that is active
\* and not cooling is taken.
Pick(r, a) ==
    /\ flight[r] = Nobody
    /\ a \notin expired
    /\ ~CoolingDown(a)
    /\ entry' = [b \in Pool |-> IF b \in expired THEN entry[b] ELSE Consulted(entry[b])]
    /\ flight' = [flight EXCEPT ![r] = a]
    /\ UNCHANGED <<expired, streak, sinceFail, lastCode>>

\* mark_account_failure(aid, status_code, cooldown_hint): the entry under the
\* lock, then the status in the database.
Fail(r, code, hint) ==
    /\ flight[r] # Nobody
    /\ LET a == flight[r]
       IN  /\ entry' = [entry EXCEPT ![a] = Failed(@, code, hint)]
           /\ expired' = IF code = "auth" THEN expired \cup {a} ELSE expired
           /\ streak' = [streak EXCEPT ![a] =
                            IF sinceFail[a] > Decay THEN 1 ELSE Smaller(@ + 1, MaxCount)]
           /\ sinceFail' = [sinceFail EXCEPT ![a] = 0]
           /\ lastCode' = [lastCode EXCEPT ![a] = code]
    /\ flight' = [flight EXCEPT ![r] = Nobody]

\* mark_account_success(aid)
Succeed(r) ==
    /\ flight[r] # Nobody
    /\ entry' = [entry EXCEPT ![flight[r]] = NoEntry]
    /\ streak' = [streak EXCEPT ![flight[r]] = 0]
    /\ flight' = [flight EXCEPT ![r] = Nobody]
    /\ UNCHANGED <<expired, sinceFail, lastCode>>

\* The attempt ends without a verdict on the account (client gone, caller's
\* own mistake).
Abandon(r) ==
    /\ flight[r] # Nobody
    /\ flight' = [flight EXCEPT ![r] = Nobody]
    /\ UNCHANGED <<entry, expired, streak, sinceFail, lastCode>>

\* The routing preview and the rate limiter also ask about one account.
Consult(a) ==
    /\ entry' = [entry EXCEPT ![a] = Consulted(@)]
    /\ UNCHANGED <<expired, flight, streak, sinceFail, lastCode>>

\* A token renewal or a new login puts the account back in service.
Renew(a) ==
    /\ a \in expired
    /\ expired' = expired \ {a}
    /\ UNCHANGED <<entry, flight, streak, sinceFail, lastCode>>

Aged(e) == [e EXCEPT !.left = Larger(@ - 1, 0),
                     !.quiet = IF e.count > 0 THEN Smaller(@ + 1, Decay + 1) ELSE @]

TimePasses ==
    /\ entry' = [a \in Pool |-> Aged(entry[a])]
    /\ sinceFail' = [a \in Pool |-> Smaller(sinceFail[a] + 1, Decay + 1)]
    /\ UNCHANGED <<expired, flight, streak, lastCode>>

HealthNext ==
    \/ TimePasses
    \/ \E a \in Pool : Consult(a) \/ Renew(a)
    \/ \E r \in Attempts : \/ \E a \in Pool : Pick(r, a)
                           \/ \E code \in Codes, hint \in Hints : Fail(r, code, hint)
                           \/ Succeed(r)
                           \/ Abandon(r)

HealthSpec == HealthInit /\ [][HealthNext]_health

\* Only time is assumed to pass.
HealthFairSpec == HealthSpec /\ WF_health(TimePasses)

----------------------------------------------------------------------------
\* Types of the variables.
HealthTypeOK ==
    /\ entry \in [Pool -> [count : 0..MaxCount, left : Nat, quiet : 0..(Decay + 1)]]
    /\ expired \subseteq Pool
    /\ flight \in [Attempts -> Pool \cup {Nobody}]
    /\ streak \in [Pool -> 0..MaxCount]
    /\ sinceFail \in [Pool -> 0..(Decay + 1)]
    /\ lastCode \in [Pool -> Codes]

\* No hint, streak or order of concurrent failures keeps an account away for
\* longer than the cap: a mis-parsed reset moment must not strand it.
NeverStranded == \A a \in Pool : entry[a].left <= HintMax

\* A cooldown that has been granted is cut short only by a success on that
\* account, whatever shorter cooldowns other in-flight failures would earn.
OnlySuccessEndsCooldown ==
    [][\A a \in Pool :
          entry'[a].left < entry[a].left - 1
             => \E r \in Attempts : flight[r] = a /\ flight'[r] = Nobody /\ streak'[a] = 0]_health

\* While an account has not been heard of again, it stays away for at least the
\* backoff its last failure earned through the whole run since the last success, also
\* when earlier cooldowns have elapsed in between: an account whose quota is
\* dead is not retried in a 30-second cycle.
BackoffFollowsStreak ==
    \A a \in Pool :
        streak[a] > 0 => entry[a].left + sinceFail[a] >= Backoff(streak[a], lastCode[a])

=============================================================================
