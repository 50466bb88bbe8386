---------------------------- MODULE RateLimiter ----------------------------
(***************************************************************************)
(* rate_limiter.account_slot: the per-account queue every upstream chat    *)
(* request passes.  A request appends its token to the account's deque,    *)
(* polls (sleeping at most 0.1 s between polls, settings re-read after     *)
(* each sleep) until its token is at the head, the pacing interval since   *)
(* the last admission has passed and an in-flight slot is free, then holds *)
(* the slot until its upstream response is finished, failed or cancelled.  *)
(*                                                                         *)
(* One poll is atomic: there is no await between reading the clock and the *)
(* settings and leaving the `with _lock` block, and none between admission *)
(* and the cooldown check.  Absolute times are replaced by elapsed times   *)
(* that saturate where the code stops telling them apart.                  *)
(***************************************************************************)
EXTENDS Integers, Sequences, FiniteSets

CONSTANTS
    Accounts,           \* upstream accounts with a row in the database
    Requests,           \* concurrent calls of account_slot
    MaxInterval,        \* 600: the largest pacing interval
    IdleAfter,          \* 600: age after which an idle entry is dropped
    MaxCap,             \* 100: the largest in-flight limit
    MinTimeout,         \* 1
    MaxTimeout,         \* 600
    DefaultTimeout,     \* 120
    MaxWaiters,         \* 256: _MAX_WAITERS
    StoredIntervals,    \* values the settings table may hold; a negative
    StoredCaps,         \*   one stands for every value settings() rejects
    StoredTimeouts      \*   (negative, NaN, infinite, not a number)

ASSUME LimitsAssumption ==
    /\ MaxInterval \in Nat /\ IdleAfter \in Nat /\ MaxInterval <= IdleAfter
    /\ MaxCap \in Nat /\ MaxWaiters \in Nat
    /\ MinTimeout \in Nat /\ MaxTimeout \in Nat /\ DefaultTimeout \in Nat
    /\ 0 < MinTimeout /\ MinTimeout <= MaxTimeout

ASSUME StoredAssumption ==
    /\ StoredIntervals \subseteq Int
    /\ StoredCaps \subseteq Int
    /\ StoredTimeouts \subseteq Int

ASSUME RequestsAssumption == IsFiniteSet(Requests)

VARIABLES
    phase,      \* phase[r]: where the call of request r is
    account,    \* account[r]: the account r was given (meaningful in a call)
    age,        \* age[r]: now - started, saturating at MaxTimeout
    active,     \* _State.active
    waiting,    \* _State.waiting
    sinceStart, \* now - _State.last_start, saturating at Never
    stored,     \* the three settings as the database holds them
    cooling,    \* accounts auth_manager.account_is_cooling_down reports
    sinceServed \* history: time since an upstream request really started

vars == <<phase, account, age, active, waiting, sinceStart, stored, cooling,
          sinceServed>>

\* last_start = -inf, and every gap longer than any supported interval.
Never == IdleAfter + 1

\* "free" stands for not calling, and for every finished call.
Phases == {"free", "waiting", "holding", "full", "timeout", "cooldown"}
InCall(r) == phase[r] \in {"waiting", "holding"}

WaitingOn(a) == {r \in Requests : phase[r] = "waiting" /\ account[r] = a}
HoldingOn(a) == {r \in Requests : phase[r] = "holding" /\ account[r] = a}

----------------------------------------------------------------------------
(* settings(): a rejected value falls back to its default, the rest is     *)
(* clamped to the supported range.                                         *)

AtMost(v, top) == IF v < top THEN v ELSE top
AtLeast(v, bottom) == IF v > bottom THEN v ELSE bottom
Accepted(v, default) == IF v < 0 THEN default ELSE v

Interval(s) == AtMost(Accepted(s.interval, 0), MaxInterval)
Cap(s) == AtMost(Accepted(s.cap, 0), MaxCap)
Timeout(s) ==
    AtLeast(AtMost(Accepted(s.timeout, DefaultTimeout), MaxTimeout), MinTimeout)

Settings == [interval : StoredIntervals, cap : StoredCaps, timeout : StoredTimeouts]

----------------------------------------------------------------------------
Position(q, r) == CHOOSE i \in DOMAIN q : q[i] = r

\* waiting.remove(token): the token leaves from wherever it is.
Without(q, r) == SubSeq(q, 1, Position(q, r) - 1)
                   \o SubSeq(q, Position(q, r) + 1, Len(q))

\* Mutant: idle entries are dropped whatever their age.
DroppableAtOnce(a) == active[a] = 0 /\ waiting[a] = <<>>

\* Entries nobody uses and whose last admission is long past are deleted;
\* the next request finds a fresh one, as if nothing had ever started.
Droppable(a) == active[a] = 0 /\ waiting[a] = <<>> /\ sinceStart[a] > IdleAfter
AfterDrop == [a \in Accounts |-> IF Droppable(a) THEN Never ELSE sinceStart[a]]

\* The admission test for the head of the queue of a.
Admissible(a) == /\ sinceStart[a] >= Interval(stored)
                 /\ Cap(stored) = 0 \/ active[a] < Cap(stored)

Init ==
    /\ phase = [r \in Requests |-> "free"]
    /\ account \in [Requests -> Accounts]
    /\ age = [r \in Requests |-> 0]
    /\ active = [a \in Accounts |-> 0]
    /\ waiting = [a \in Accounts |-> <<>>]
    /\ sinceStart = [a \in Accounts |-> Never]
    /\ stored \in Settings
    /\ cooling = {}
    /\ sinceServed = [a \in Accounts |-> Never]

\* The queue of the account is full: refused before anything is enqueued.
EnterFull(r, a) ==
    /\ ~InCall(r)
    /\ Len(waiting[a]) >= MaxWaiters
    /\ phase' = [phase EXCEPT ![r] = "full"]
    /\ sinceStart' = AfterDrop
    /\ UNCHANGED <<account, age, active, waiting, stored, cooling, sinceServed>>

\* First poll fails: the request sleeps in the queue.
EnterWait(r, a) ==
    /\ ~InCall(r)
    /\ Len(waiting[a]) < MaxWaiters
    /\ waiting[a] # <<>> \/ ~Admissible(a)
    /\ phase' = [phase EXCEPT ![r] = "waiting"]
    /\ account' = [account EXCEPT ![r] = a]
    /\ age' = [age EXCEPT ![r] = 0]
    /\ waiting' = [waiting EXCEPT ![a] = Append(@, r)]
    /\ sinceStart' = AfterDrop
    /\ UNCHANGED <<active, stored, cooling, sinceServed>>

\* Mutant: a newcomer is admitted although others are queued.
EnterBarging(r, a) ==
    /\ ~InCall(r)
    /\ Len(waiting[a]) < MaxWaiters
    /\ Admissible(a)
    /\ phase' = [phase EXCEPT ![r] = "holding"]
    /\ account' = [account EXCEPT ![r] = a]
    /\ age' = [age EXCEPT ![r] = 0]
    /\ active' = [active EXCEPT ![a] = @ + 1]
    /\ sinceStart' = [AfterDrop EXCEPT ![a] = 0]
    /\ sinceServed' = [sinceServed EXCEPT ![a] = 0]
    /\ UNCHANGED <<waiting, stored, cooling>>

\* First poll succeeds: appended, at the head, popped and admitted without a
\* sleep, so the cooldown is not looked at again.
EnterAtOnce(r, a) ==
    /\ ~InCall(r)
    /\ Len(waiting[a]) < MaxWaiters
    /\ waiting[a] = <<>> /\ Admissible(a)
    /\ phase' = [phase EXCEPT ![r] = "holding"]
    /\ account' = [account EXCEPT ![r] = a]
    /\ age' = [age EXCEPT ![r] = 0]
    /\ active' = [active EXCEPT ![a] = @ + 1]
    /\ sinceStart' = [AfterDrop EXCEPT ![a] = 0]
    /\ sinceServed' = [sinceServed EXCEPT ![a] = 0]
    /\ UNCHANGED <<waiting, stored, cooling>>

\* Mutant: the deadline is looked at only once a slot is free.
PollTimeoutWithSlot(r) ==
    /\ phase[r] = "waiting"
    /\ age[r] >= Timeout(stored)
    /\ Admissible(account[r])
    /\ phase' = [phase EXCEPT ![r] = "timeout"]
    /\ age' = [age EXCEPT ![r] = 0]
    /\ waiting' = [waiting EXCEPT ![account[r]] = Without(@, r)]
    /\ UNCHANGED <<account, active, sinceStart, stored, cooling, sinceServed>>

\* A waiter wakes up too late.
PollTimeout(r) ==
    /\ phase[r] = "waiting"
    /\ age[r] >= Timeout(stored)
    /\ phase' = [phase EXCEPT ![r] = "timeout"]
    /\ age' = [age EXCEPT ![r] = 0]
    /\ waiting' = [waiting EXCEPT ![account[r]] = Without(@, r)]
    /\ UNCHANGED <<account, active, sinceStart, stored, cooling, sinceServed>>

\* A waiter wakes up in time, finds itself at the head and admissible.
PollReady(r) ==
    /\ phase[r] = "waiting"
    /\ age[r] < Timeout(stored)
    /\ Head(waiting[account[r]]) = r
    /\ Admissible(account[r])
    /\ waiting' = [waiting EXCEPT ![account[r]] = Tail(@)]
    /\ sinceStart' = [sinceStart EXCEPT ![account[r]] = 0]
    /\ age' = [age EXCEPT ![r] = 0]

PollAdmit(r) ==
    /\ PollReady(r)
    /\ account[r] \notin cooling
    /\ phase' = [phase EXCEPT ![r] = "holding"]
    /\ active' = [active EXCEPT ![account[r]] = @ + 1]
    /\ sinceServed' = [sinceServed EXCEPT ![account[r]] = 0]
    /\ UNCHANGED <<account, stored, cooling>>

\* Mutant: the slot is counted before the cooldown check and not given back.
PollCooldownLeak(r) ==
    /\ PollReady(r)
    /\ account[r] \in cooling
    /\ phase' = [phase EXCEPT ![r] = "cooldown"]
    /\ active' = [active EXCEPT ![account[r]] = @ + 1]
    /\ UNCHANGED <<account, stored, cooling, sinceServed>>

\* Admitted, but the account entered a cooldown meanwhile: the finally block
\* gives the slot back at once, the pacing interval stays consumed.
PollCooldown(r) ==
    /\ PollReady(r)
    /\ account[r] \in cooling
    /\ phase' = [phase EXCEPT ![r] = "cooldown"]
    /\ UNCHANGED <<account, active, stored, cooling, sinceServed>>

\* Mutant: a cancelled waiter leaves its token in the deque.
CancelGhost(r) ==
    /\ phase[r] = "waiting"
    /\ phase' = [phase EXCEPT ![r] = "free"]
    /\ age' = [age EXCEPT ![r] = 0]
    /\ UNCHANGED <<account, active, waiting, sinceStart, stored, cooling, sinceServed>>

\* The task of a sleeping waiter is cancelled (the client hung up).
Cancel(r) ==
    /\ phase[r] = "waiting"
    /\ phase' = [phase EXCEPT ![r] = "free"]
    /\ age' = [age EXCEPT ![r] = 0]
    /\ waiting' = [waiting EXCEPT ![account[r]] = Without(@, r)]
    /\ UNCHANGED <<account, active, sinceStart, stored, cooling, sinceServed>>

\* The body of the context manager ends: response finished, failed, closed
\* or cancelled.
Release(r) ==
    /\ phase[r] = "holding"
    /\ phase' = [phase EXCEPT ![r] = "free"]
    /\ active' = [active EXCEPT ![account[r]] = @ - 1]
    /\ UNCHANGED <<account, age, waiting, sinceStart, stored, cooling, sinceServed>>

\* An administrator saves settings (or the row is edited by hand).
ChangeSettings ==
    /\ stored' \in Settings
    /\ UNCHANGED <<phase, account, age, active, waiting, sinceStart, cooling,
                   sinceServed>>

\* Another request's failure or success, or time, changes a cooldown.
ToggleCooling(a) ==
    /\ cooling' = IF a \in cooling THEN cooling \ {a} ELSE cooling \cup {a}
    /\ UNCHANGED <<phase, account, age, active, waiting, sinceStart, stored,
                   sinceServed>>

\* One unit of the monotonic clock.
Tick ==
    /\ age' = [r \in Requests |->
                 IF phase[r] = "waiting" THEN AtMost(age[r] + 1, MaxTimeout) ELSE age[r]]
    /\ sinceStart' = [a \in Accounts |-> AtMost(sinceStart[a] + 1, Never)]
    /\ sinceServed' = [a \in Accounts |-> AtMost(sinceServed[a] + 1, Never)]
    /\ UNCHANGED <<phase, account, active, waiting, stored, cooling>>

Enter(r, a) == EnterFull(r, a) \/ EnterWait(r, a) \/ EnterAtOnce(r, a)
Poll(r) == PollTimeout(r) \/ PollAdmit(r) \/ PollCooldown(r)

Next ==
    \/ Tick
    \/ ChangeSettings
    \/ \E a \in Accounts : ToggleCooling(a)
    \/ \E r \in Requests : \/ \E a \in Accounts : Enter(r, a)
                           \/ Poll(r)
                           \/ Cancel(r)
                           \/ Release(r)

Spec == Init /\ [][Next]_vars

\* The clock advances and asyncio.sleep returns.  Nothing is assumed of the
\* requests that hold slots: a stream may stay open for ever.
FairSpec == Spec /\ WF_vars(Tick) /\ \A r \in Requests : WF_vars(Poll(r))

----------------------------------------------------------------------------
\* Types of the variables.
TypeOK ==
    /\ phase \in [Requests -> Phases]
    /\ account \in [Requests -> Accounts]
    /\ age \in [Requests -> 0..MaxTimeout]
    /\ active \in [Accounts -> Nat]
    /\ waiting \in [Accounts -> Seq(Requests)]
    /\ sinceStart \in [Accounts -> 0..Never]
    /\ stored \in Settings
    /\ cooling \subseteq Accounts
    /\ sinceServed \in [Accounts -> 0..Never]

\* The deque of an account holds every waiter of that account exactly once and
\* nobody else: a token left behind by a cancelled, timed-out or admitted
\* request would block the head of the queue for ever.
QueueExact ==
    \A a \in Accounts :
        /\ {waiting[a][i] : i \in DOMAIN waiting[a]} = WaitingOn(a)
        /\ \A i, j \in DOMAIN waiting[a] : waiting[a][i] = waiting[a][j] => i = j

\* The counter the admission test reads is the number of requests really in
\* flight, whatever way each of them ended.
SlotsExact == \A a \in Accounts : active[a] = Cardinality(HoldingOn(a))

\* A request that starts upstream comes at least one interval in force after
\* the last one that started, across dropped entries and settings changes.
StartsPaced ==
    [][\A r \in Requests :
          phase[r] # "holding" /\ phase'[r] = "holding"
             => sinceServed[account'[r]] >= Interval(stored)]_vars

\* No waiter sleeps for ever, even if every slot of its account stays taken.
EveryWaiterLeaves ==
    \A r \in Requests : (phase[r] = "waiting") ~> (phase[r] # "waiting")

\* The queue keeps the promise of SlotService: service in order of arrival,
\* and no start beyond the limit in force.
Service == INSTANCE SlotService WITH
    queue <- waiting,
    busy <- [a \in Accounts |-> HoldingOn(a)],
    limit <- Cap(stored),
    Limits <- 0..MaxCap

ServesInOrder == Service!Spec
=============================================================================
