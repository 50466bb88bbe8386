------------------------------ MODULE Balances ------------------------------
(***************************************************************************)
(* What the gateway remembers of the quota of its accounts, and the gate    *)
(* that reads nothing else.  Routing drops an account whose cached balance  *)
(* is zero, so a row of account_resource_cache decides whether the account  *)
(* serves requests at all.  Rows are written by readings of several         *)
(* coroutines at once: a WorkBuddy reading replaces the row by a snapshot,  *)
(* the readings of the other channels and the deadlines their check-ins     *)
(* reveal are merged into it.                                               *)
(***************************************************************************)
EXTENDS Integers, FiniteSets

CONSTANTS
    Accounts,
    KindOf(_),      \* WorkBuddy, or one of the other channels
    Readers,        \* coroutines that read balances at the same time
    MaxBalance

Kinds == {"workbuddy", "other"}

ASSUME BalanceAssumption ==
    /\ \A a \in Accounts : KindOf(a) \in Kinds
    /\ MaxBalance \in Nat

VARIABLES
    balance,        \* the total balance the vendor keeps (external)
    cache,          \* account_resource_cache
    reading,        \* the readings in flight
    zeroes,         \* history: accounts whose balance has been zero
    top             \* history: the highest balance ever stored

quota == <<balance, cache, reading, zeroes, top>>

Unknown == -1
Pending == -2
Failed == -3
NoReading == [account |-> Unknown, value |-> Pending]

Larger(m, n) == IF m > n THEN m ELSE n

BalancesInit ==
    /\ balance \in [Accounts -> 0..MaxBalance]
    /\ cache = [a \in Accounts |-> [remaining |-> Unknown, deadline |-> FALSE,
                                    peak |-> Unknown]]
    /\ reading = [r \in Readers |-> NoReading]
    /\ zeroes = {a \in Accounts : balance[a] = 0}
    /\ top = [a \in Accounts |-> Unknown]

----------------------------------------------------------------------------
(* The cache                                                               *)

\* The highest balance is carried forward, whatever else the write replaces.
Peak(old, remaining) == Larger(Larger(old.peak, old.remaining), remaining)

\* upsert_account_resource_cache: a snapshot; its deadline is that of the packages
\* with something left.
Snapshot(a, value) ==
    /\ cache' = [cache EXCEPT ![a] = [remaining |-> value, deadline |-> value > 0,
                                      peak |-> Peak(@, value)]]
    /\ top' = [top EXCEPT ![a] = Larger(@, value)]

\* Mutant: the deadline is written as a row of its own.
DeadlineReplaces(a) ==
    /\ cache' = [cache EXCEPT ![a] = [remaining |-> Unknown, deadline |-> TRUE,
                                      peak |-> Peak(@, Unknown)]]
    /\ UNCHANGED top

\* store_quota_reading and store_quota_expiry: merged, each leaves the other's
\* keys alone.
MergeReading(a, value) ==
    /\ cache' = [cache EXCEPT ![a] = [@ EXCEPT !.remaining = value,
                                               !.peak = Peak(cache[a], value)]]
    /\ top' = [top EXCEPT ![a] = Larger(@, value)]
MergeDeadline(a) ==
    /\ cache' = [cache EXCEPT ![a].deadline = TRUE,
                              ![a].peak = Peak(cache[a], cache[a].remaining)]
    /\ UNCHANGED top

\* quota_exhausted: an unknown balance keeps the account in the pool, a zero
\* keeps it out until another reading is written.
Exhausted(a) == cache[a].remaining # Unknown /\ cache[a].remaining <= 0

\* account_available: not asked for a model marked as exempt on the channel.
Available(a, exempt) == exempt \/ ~Exhausted(a)

----------------------------------------------------------------------------
(* Readings: the quota page, the dashboard, a refused request              *)

BeginReading(r, a) ==
    /\ reading[r] = NoReading
    /\ reading' = [reading EXCEPT ![r] = [account |-> a, value |-> Pending]]
    /\ UNCHANGED <<balance, cache, zeroes, top>>

\* The billing service reports the whole balance, or the request fails; outside
\* WorkBuddy an answer without a total counts as failed.
Answer(a) == {balance[a], Failed}

Measure(r) ==
    /\ reading[r] # NoReading /\ reading[r].value = Pending
    /\ \E value \in Answer(reading[r].account) :
          reading' = [reading EXCEPT ![r].value = value]
    /\ UNCHANGED <<balance, cache, zeroes, top>>

\* Only a measured number is written.
StoreReading(r) ==
    /\ reading[r].value \notin {Pending, Failed}
    /\ LET a == reading[r].account
           value == reading[r].value
       IN  IF KindOf(a) = "workbuddy"
           THEN Snapshot(a, value)
           ELSE MergeReading(a, value)
    /\ reading' = [reading EXCEPT ![r] = NoReading]
    /\ UNCHANGED <<balance, zeroes>>

DropReading(r) ==
    /\ reading[r].value = Failed
    /\ reading' = [reading EXCEPT ![r] = NoReading]
    /\ UNCHANGED <<balance, cache, zeroes, top>>

\* Requests spend the balance, here or in the vendor's own client.
Spend(a) ==
    /\ balance[a] > 0
    /\ balance' = [balance EXCEPT ![a] = @ - 1]
    /\ zeroes' = IF balance[a] = 1 THEN zeroes \cup {a} ELSE zeroes
    /\ UNCHANGED <<cache, reading, top>>

----------------------------------------------------------------------------
(* Properties                                                              *)

BalancesTypeOK ==
    /\ balance \in [Accounts -> 0..MaxBalance]
    /\ cache \in [Accounts -> [remaining : Unknown..MaxBalance, deadline : BOOLEAN,
                               peak : Unknown..MaxBalance]]
    /\ reading \in [Readers -> [account : Accounts \cup {Unknown},
                                value : {Pending, Failed} \cup (0..MaxBalance)]]
    /\ zeroes \subseteq Accounts /\ top \in [Accounts -> Unknown..MaxBalance]

\* "A zero is proof": an account leaves the pool only if its total balance has
\* been zero at some time.  A failed reading, the deadline of a check-in or the
\* merge of two writers never makes one up ("余额查询失败不会被写成 0").
GateIsEvidence == \A a \in Accounts : Exhausted(a) => a \in zeroes

\* The peak that "how empty is this account" is measured against is the highest
\* balance ever read, through snapshots, merges and whatever order they come in.
PeakKept == \A a \in Accounts : cache[a].peak = top[a]

\* "避免余额和到期信息互相覆盖": outside WorkBuddy, a deadline written leaves the
\* balance, a balance written leaves the deadline.
FieldsSurvive ==
    [][\A a \in Accounts : KindOf(a) # "workbuddy" =>
          /\ cache'[a].remaining # cache[a].remaining =>
                cache'[a].deadline = cache[a].deadline
          /\ cache[a].remaining # Unknown => cache'[a].remaining # Unknown
          /\ cache[a].deadline => cache'[a].deadline]_quota

\* The row of an account holds what was measured, each part whoever wrote it,
\* and only what was measured keeps the account out of the pool.
CacheIsMeasured == [](GateIsEvidence /\ PeakKept) /\ FieldsSurvive
=============================================================================
