----------------------------- MODULE Automation -----------------------------
(***************************************************************************)
(* The daily jobs: keepalive_loop looks at the clock every half minute and  *)
(* starts the renewal and the check-in job in the first ten minutes of      *)
(* their hours; an administrator may start the same jobs at any time.  One  *)
(* flag keeps two jobs apart, except that the plain check-in of the         *)
(* administrator does not ask for it.  A check-in asks the vendor whether   *)
(* today's credits are claimed, claims them, and writes what it learned     *)
(* into the check-in cache, which counts for one day, and into the cache of *)
(* balances.                                                                *)
(*                                                                         *)
(* Time is a count of instants, `Instants` to a day: the ten minutes of the *)
(* check-in hour, those of the keepalive hour, and the rest.                *)
(***************************************************************************)
EXTENDS Balances, Sequences

CONSTANTS
    Order,          \* the accounts, channel by channel
    Admins,         \* requests of administrators that run a job
    CheckinHour, KeepaliveHour, Instants, Horizon,
    MaxMoves        \* bound on readings, requests, settings, jobs and restarts

ASSUME AutomationAssumption ==
    /\ Order \in Seq(Accounts) /\ {Order[i] : i \in DOMAIN Order} = Accounts
    /\ Instants \in Nat \ {0} /\ "loop" \notin Admins
    /\ CheckinHour \in 0..(Instants - 1) /\ KeepaliveHour \in 0..(Instants - 1)
    /\ Horizon \in Nat /\ MaxMoves \in Nat

VARIABLES
    now,            \* the instant
    polled,         \* the loop has looked at the clock in this instant, and at
                    \* the switches as they are
    enabled,        \* the jobs that are switched on
    fired,          \* the slots the loop has served: days and jobs
    loopTime,       \* the instant the loop read when it woke
    running,        \* _keepalive_running
    job,            \* the jobs in progress
    active,         \* accounts that are not disabled
    claimed,        \* the day of the last claim the vendor has booked
    entry,          \* account_checkin_cache: a day and whether claimed
    moves,
    launched,       \* history: slots served since the start of the process
    late            \* history: check-in answers that crossed midnight

jobs == <<fired, loopTime, running, job>>
facts == <<active, enabled, claimed, entry>>
vars == <<quota, now, polled, jobs, facts, moves, launched, late>>

Loop == "loop"
Workers == {Loop} \cup Admins
Day(t) == t \div Instants
Today == Day(now)

\* What a job is at: nothing; a renewal; the next account of a check-in; or an
\* answer of the vendor.
Steps == {"none", "renew", "turn", "status", "claim", "measure"}
NoJob == [step |-> "none", guarded |-> FALSE, claims |-> FALSE, at |-> 1,
          answer |-> Pending, since |-> 0, asked |-> {}, away |-> {}]

\* Answers to a check-in: the credits of the day are there, or can be claimed.
Already == 1
Claimable == 0

Init ==
    /\ BalancesInit
    /\ now = 0 /\ polled = FALSE
    /\ enabled \in SUBSET {"keepalive", "checkin"}
    /\ fired = {} /\ loopTime = 0 /\ running = FALSE
    /\ job = [w \in Workers |-> NoJob]
    /\ active = Accounts
    /\ claimed = [a \in Accounts |-> Unknown]
    /\ entry = [a \in Accounts |-> [day |-> Unknown, claimed |-> FALSE]]
    /\ moves = 0
    /\ launched = {} /\ late = FALSE

Moved == moves < MaxMoves /\ moves' = moves + 1
At(w) == Order[job[w].at]

----------------------------------------------------------------------------
(* Beginning and ending a job                                              *)

Hour(j) == IF j = "keepalive" THEN KeepaliveHour ELSE CheckinHour

\* automation_due
Due(j, t) == j \in enabled /\ t % Instants = Hour(j)

Begun(kind, guarded, claims) ==
    [NoJob EXCEPT !.step = IF kind = "keepalive" THEN "renew" ELSE "turn",
                  !.guarded = guarded, !.claims = claims, !.away = Accounts \ active]

\* The code's slot has the hour too; the hours of this model do not change.
Slot(j, t) == <<Day(t), j>>

\* The second half of a turn of the loop: the time is the one read at the start
\* of the turn, also when a renewal job has run for hours in between.  A job
\* that finds the flag set is given up for the day.
ThenCheckin(served, t, free) ==
    /\ loopTime' = t
    /\ LET s == Slot("checkin", t)
           due == Due("checkin", t) /\ s \notin served
       IN  /\ fired' = IF due THEN served \cup {s} ELSE served
           /\ job' = [job EXCEPT ![Loop] =
                         IF due /\ free THEN Begun("checkin", TRUE, TRUE) ELSE NoJob]
           /\ running' = ((due /\ free) \/ ~free)
    /\ launched' = launched \cup fired'

\* _begin_job
Free == ~running

\* Mutant: the slots served are forgotten at every turn.
ServedNone == {}

\* The loop forgets the slots of other days.
Served == {f \in fired : f[1] = Today}

\* keepalive_loop wakes, many times in one instant.
Poll ==
    /\ job[Loop] = NoJob
    /\ polled' = TRUE
    /\ LET today == Served
           s == Slot("keepalive", now)
           due == Due("keepalive", now) /\ s \notin today
           served == IF due THEN today \cup {s} ELSE today
       IN  IF due /\ Free
           THEN /\ fired' = served /\ loopTime' = now
                /\ job' = [job EXCEPT ![Loop] = Begun("keepalive", TRUE, FALSE)]
                /\ running' = TRUE
                /\ launched' = launched \cup served
           ELSE ThenCheckin(served, now, Free)
    /\ UNCHANGED <<quota, now, facts, moves, late>>

\* An administrator renews and claims, or claims only.
AdminKeepalive(w) ==
    /\ Moved
    /\ job[w] = NoJob
    /\ Free
    /\ running' = TRUE
    /\ job' = [job EXCEPT ![w] = Begun("keepalive", TRUE, TRUE)]
    /\ UNCHANGED <<quota, now, polled, fired, loopTime, facts, launched, late>>
AdminCheckin(w) ==
    /\ Moved
    /\ job[w] = NoJob
    /\ job' = [job EXCEPT ![w] = Begun("checkin", FALSE, TRUE)]
    /\ UNCHANGED <<quota, now, polled, fired, loopTime, running, facts, launched, late>>

\* checkin_status_all: what the accounts have claimed, asked and not claimed.
AdminStatus(w) ==
    /\ Moved
    /\ job[w] = NoJob
    /\ job' = [job EXCEPT ![w] = Begun("checkin", FALSE, FALSE)]
    /\ UNCHANGED <<quota, now, polled, fired, loopTime, running, facts, launched, late>>

\* A job ends, done or broken by an exception.  The loop goes on with the
\* second half of its turn if it was renewing.
End(w, broken) ==
    \/ /\ w = Loop /\ job[w].claims = FALSE
       /\ ThenCheckin(fired, loopTime, TRUE)
    \/ /\ w # Loop \/ job[w].claims
       /\ running' = (running /\ ~job[w].guarded)
       /\ job' = [job EXCEPT ![w] = NoJob]
       /\ UNCHANGED <<fired, loopTime, launched>>

Break(w) ==
    /\ Moved
    /\ job[w].step \in {"renew", "turn"}
    /\ End(w, TRUE)
    /\ UNCHANGED <<quota, now, polled, facts, late>>

----------------------------------------------------------------------------
(* The accounts of a job, one after the other                              *)

\* The renewals of the accounts come to an end, however (TokenRefresh and
\* ChannelLogin say what one does).  The check-in follows, if asked for.
Renew(w) ==
    /\ job[w].step = "renew"
    /\ \/ /\ job[w].claims
          /\ job' = [job EXCEPT ![w].step = "turn"]
          /\ UNCHANGED <<fired, loopTime, running, launched>>
       \/ ~job[w].claims /\ End(w, FALSE)
    /\ UNCHANGED <<quota, now, polled, facts, moves, late>>

Ask(w, step, asked) ==
    job' = [job EXCEPT ![w].step = step, ![w].answer = Pending, ![w].since = now,
                       ![w].asked = asked]
NextTurn(w) ==
    job' = [job EXCEPT ![w].step = "turn", ![w].at = @ + 1, ![w].answer = Pending,
                       ![w].since = 0]

\* Mutant: the check-in takes its accounts from the routing pool.
ClaimsForRouted(a) == a \in active /\ Available(a, FALSE)

\* _channel_accounts
ClaimsFor(a) == a \in active

\* _store_checkin_expiry: the deadline of the credits, where the vendor tells one.
StoreExpiry(a) ==
    \/ KindOf(a) # "workbuddy" /\ MergeDeadline(a) /\ UNCHANGED <<balance, reading, zeroes>>
    \/ UNCHANGED quota

\* Who only wants to know is content with today's entry, unless it must be fresh.
Turn(w) ==
    /\ job[w].step = "turn"
    /\ job[w].at <= Len(Order)
    /\ LET a == At(w)
       IN  \/ /\ ClaimsFor(a) /\ Ask(w, "status", job[w].asked \cup {a})
              /\ UNCHANGED quota
           \/ ~ClaimsFor(a) /\ NextTurn(w) /\ UNCHANGED quota
           \/ /\ ClaimsFor(a) /\ ~job[w].claims /\ entry[a].day = Today
              /\ job' = [job EXCEPT ![w].at = @ + 1, ![w].asked = @ \cup {a}]
              /\ StoreExpiry(a)
    /\ UNCHANGED <<now, polled, fired, loopTime, running, facts, moves, launched, late>>

Finish(w) ==
    /\ job[w].step = "turn"
    /\ job[w].at > Len(Order)
    /\ End(w, FALSE)
    /\ UNCHANGED <<quota, now, polled, facts, moves, late>>

Asking(w, step) == job[w].step = step /\ job[w].answer = Pending
Answers(w, value) == job' = [job EXCEPT ![w].answer = value]

\* The vendor tells whether the day's credits are there; those of a wallet it
\* hands out by itself at some time of the day (external).
ServeStatus(w) ==
    /\ Asking(w, "status")
    /\ \/ Answers(w, IF claimed[At(w)] = Today THEN Already ELSE Claimable) /\ UNCHANGED claimed
       \/ KindOf(At(w)) = "other" /\ Answers(w, Already)
            /\ claimed' = [claimed EXCEPT ![At(w)] = Today]
       \/ Answers(w, Failed) /\ UNCHANGED claimed
    /\ UNCHANGED <<quota, now, polled, fired, loopTime, running, active, enabled, entry, moves,
                   launched, late>>

\* It books them once a day; the request or the answer may be lost (external).
ServeClaim(w) ==
    /\ Asking(w, "claim")
    /\ \/ Answers(w, Failed) /\ UNCHANGED <<claimed, balance>>
       \/ LET a == At(w) IN
             /\ claimed' = [claimed EXCEPT ![a] = Today]
             /\ balance' = IF claimed[a] # Today /\ balance[a] < MaxBalance
                           THEN [balance EXCEPT ![a] = @ + 1] ELSE balance
             /\ Answers(w, Already) \/ Answers(w, Failed)
    /\ UNCHANGED <<cache, reading, zeroes, top, now, polled, fired, loopTime, running,
                   active, enabled, entry, moves, launched, late>>

\* upsert_account_checkin_cache: tagged with the day on which it is written.
Remember(w, isClaimed) ==
    /\ entry' = [entry EXCEPT ![At(w)] = [day |-> Today, claimed |-> isClaimed]]
    /\ late' = (late \/ Day(job[w].since) # Today)

\* WorkBuddy caches every status, the others a confirmed claim.  Credits that can
\* be claimed are claimed, unless the activity is over, a wallet hands them out
\* by itself, or the job only wants to know.
ReceiveStatus(w) ==
    /\ job[w].step = "status" /\ job[w].answer # Pending
    /\ LET a == At(w)
           got == job[w].answer
       IN  \/ /\ got = Failed
              /\ NextTurn(w) /\ UNCHANGED <<quota, entry, late>>
           \/ /\ got # Failed /\ KindOf(a) = "workbuddy"
              /\ \/ /\ job[w].claims
                    /\ Ask(w, IF got = Already THEN "measure" ELSE "claim", job[w].asked)
                 \/ (got = Claimable \/ ~job[w].claims) /\ NextTurn(w)
              /\ Remember(w, got = Already) /\ UNCHANGED quota
           \/ /\ got = Already /\ KindOf(a) = "other"
              /\ NextTurn(w) /\ Remember(w, TRUE) /\ StoreExpiry(a)
           \/ /\ got = Claimable /\ KindOf(a) = "other"
              /\ \/ job[w].claims /\ Ask(w, "claim", job[w].asked) /\ UNCHANGED quota
                 \/ NextTurn(w) /\ StoreExpiry(a)
              /\ UNCHANGED <<entry, late>>
    /\ UNCHANGED <<now, polled, fired, loopTime, running, active, enabled, claimed, moves,
                   launched>>

ReceiveClaim(w) ==
    /\ job[w].step = "claim" /\ job[w].answer # Pending
    /\ LET a == At(w) IN
          IF job[w].answer = Failed
          THEN NextTurn(w) /\ UNCHANGED <<quota, entry, late>>
          ELSE /\ Remember(w, TRUE)
               /\ IF KindOf(a) = "workbuddy"
                  THEN Ask(w, "measure", job[w].asked) /\ UNCHANGED quota
                  ELSE NextTurn(w) /\ StoreExpiry(a)
    /\ UNCHANGED <<now, polled, fired, loopTime, running, active, enabled, claimed, moves,
                   launched>>

\* claim_one reads a WorkBuddy account's resources after its check-in; what other
\* readings may overtake is up to the readers of Balances.
MeasureResources(w) ==
    /\ job[w].step = "measure"
    /\ NextTurn(w)
    /\ \/ \E value \in Answer(At(w)) \ {Failed} : Snapshot(At(w), value)
       \/ Failed \in Answer(At(w)) /\ UNCHANGED <<cache, top>>
    /\ UNCHANGED <<balance, reading, zeroes, now, polled, fired, loopTime, running, facts,
                   moves, launched, late>>

----------------------------------------------------------------------------
(* The management page, time and restarts                                  *)

\* Mutant: a claim of yesterday counts.
ShownOfAnyDay(a) == entry[a].claimed

\* get_account_checkin_cache: what a page shows as claimed without asking.
Shown(a) == entry[a].claimed /\ entry[a].day = Today

Switch(j) ==
    /\ Moved
    /\ enabled' = IF j \in enabled THEN enabled \ {j} ELSE enabled \cup {j}
    /\ polled' = FALSE
    /\ UNCHANGED <<quota, now, jobs, active, claimed, entry, launched, late>>

Toggle(a) ==
    /\ Moved
    /\ active' = IF a \in active THEN active \ {a} ELSE active \cup {a}
    /\ job' = [w \in Workers |-> IF job[w] # NoJob /\ a \notin active'
                                 THEN [job[w] EXCEPT !.away = @ \cup {a}] ELSE job[w]]
    /\ UNCHANGED <<quota, now, polled, fired, loopTime, running, enabled, claimed, entry,
                   launched, late>>

\* The loop sleeps half a minute at a time, so while it sleeps no instant passes
\* that it has not looked at.
TimePasses ==
    /\ now < Horizon
    /\ polled \/ job[Loop] # NoJob
    /\ now' = now + 1 /\ polled' = FALSE
    /\ UNCHANGED <<quota, jobs, facts, moves, launched, late>>

\* Everything in memory is lost, the database stays.
Restart ==
    /\ Moved
    /\ fired' = {} /\ loopTime' = 0 /\ running' = FALSE /\ polled' = FALSE
    /\ job' = [w \in Workers |-> NoJob]
    /\ reading' = [r \in Readers |-> NoReading]
    /\ launched' = {}
    /\ UNCHANGED <<balance, cache, zeroes, top, now, facts, late>>

Environment ==
    \/ \E r \in Readers, a \in Accounts : Moved /\ BeginReading(r, a)
    \/ \E a \in Accounts : Moved /\ Spend(a)
Readings ==
    /\ \E r \in Readers : Measure(r) \/ StoreReading(r) \/ DropReading(r)
    /\ UNCHANGED moves

Work(w) ==
    \/ Renew(w) \/ Turn(w) \/ Finish(w)
    \/ ServeStatus(w) \/ ReceiveStatus(w)
    \/ ServeClaim(w) \/ ReceiveClaim(w)
    \/ MeasureResources(w)

Next ==
    \/ Poll \/ TimePasses \/ Restart
    \/ \E w \in Workers : Work(w) \/ Break(w)
    \/ \E w \in Admins : AdminKeepalive(w) \/ AdminCheckin(w) \/ AdminStatus(w)
    \/ \E j \in {"keepalive", "checkin"} : Switch(j)
    \/ \E a \in Accounts : Toggle(a)
    \/ (Environment \/ Readings) /\ UNCHANGED <<now, polled, jobs, facts, launched, late>>

Spec == Init /\ [][Next]_vars

----------------------------------------------------------------------------
(* Properties                                                              *)

TypeOK ==
    /\ BalancesTypeOK
    /\ now \in 0..Horizon /\ polled \in BOOLEAN
    /\ enabled \subseteq {"keepalive", "checkin"}
    /\ fired \subseteq (0..Today) \X {"keepalive", "checkin"}
    /\ loopTime \in 0..now /\ running \in BOOLEAN
    /\ job \in [Workers -> [step : Steps, guarded : BOOLEAN, claims : BOOLEAN,
                            at : 1..(Len(Order) + 1), since : 0..now,
                            answer : {Pending, Failed, Already, Claimable},
                            asked : SUBSET Accounts, away : SUBSET Accounts]]
    /\ active \subseteq Accounts
    /\ claimed \in [Accounts -> Unknown..Today]
    /\ entry \in [Accounts -> [day : Unknown..Today, claimed : BOOLEAN]]
    /\ moves \in 0..MaxMoves /\ launched \subseteq (0..Today) \X {"keepalive", "checkin"}
    /\ late \in BOOLEAN

\* The flag is set exactly while a job that asked for it is in progress, so two
\* such jobs never run at once and none blocks the next for ever, however it
\* ends: done, broken inside, or lost in a restart.  A part of DailyJobs.
OneJob ==
    /\ TypeOK
    /\ Cardinality({w \in Workers : job[w].guarded}) <= 1
    /\ running <=> \E w \in Workers : job[w].guarded

\* "只在该小时的前 10 分钟执行一次", "自动任务每天触发一次": a process starts a daily
\* job once a day, unless its hour is changed on that day, which makes a new slot
\* and is not modelled; and a loop that has looked at the clock and sleeps again has
\* served every job that is due, or given it up to another job in its ten
\* minutes, so that none is forgotten, on no day.
OnceADay == [][\A s \in fired' \ fired : s \notin launched]_<<fired, launched>>
NoDayMissed ==
    polled /\ job[Loop] = NoJob =>
        \A j \in {"keepalive", "checkin"} : Due(j, now) => <<Day(now), j>> \in launched
DailyJobs == [](OneJob /\ NoDayMissed) /\ OnceADay

\* "零余额暂停请求调度，签到继续", "一个账号领取或续期抛错时，其余账号继续处理":
\* a check-in job that is not broken asks for every account that was active all
\* the time, with or without balance, and whatever the others answered.
EverybodyAsked ==
    \A w \in Workers : job[w].step = "turn" /\ job[w].at > Len(Order)
        => Accounts \ job[w].away \subseteq job[w].asked

\* A page that does not ask the vendor shows a day's credits as claimed only if
\* they are, unless an answer came in after midnight.
ShownIsClaimed == late \/ \A a \in Accounts : Shown(a) => claimed[a] = Today
=============================================================================
