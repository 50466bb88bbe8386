---------------------------- MODULE RoutingProofs ---------------------------
(***************************************************************************)
(* Proofs about Automation, which keeps logins and balances up to date for  *)
(* the routing of requests (for every set of accounts, readers and          *)
(* administrators, every length of a day and all hours), and about Request, *)
(* which spends them (for any channels, accounts, models, keys and starts). *)
(***************************************************************************)
EXTENDS Automation, Request, SequenceTheorems, FiniteSetTheorems, FunctionTheorems, TLAPS

\* A reading under way is of an account, and a zero it brings is one the account
\* has had.
ReadingsTrue ==
    \A r \in Readers : reading[r] # NoReading =>
        /\ reading[r].account \in Accounts
        /\ reading[r].value = 0 => reading[r].account \in zeroes

\* Every zero there is has been noted.
ZeroesNoted ==
    \A a \in Accounts :
        (balance[a] = 0 \/ cache[a].remaining = 0) => a \in zeroes

\* The peak is the highest balance stored, the present one included.
Peaks == \A a \in Accounts : cache[a].peak = top[a] /\ cache[a].remaining <= top[a]

\* The steps at which a job waits for an answer about an account.
Awaiting == {"status", "claim", "measure"}

\* What is true of a job: resources are measured only of a WorkBuddy account; the
\* accounts it has passed were asked, or were away at some time; an answer that
\* says claimed was true on the day it was asked for.
Sound(n) ==
    /\ n.step = "none" => n = NoJob
    /\ n.step \in Awaiting => n.at <= Len(Order)
    /\ n.step = "measure" => KindOf(Order[n.at]) = "workbuddy"
    /\ n.step = "claim" => n.answer # Claimable
    /\ n # NoJob =>
          /\ Accounts \ active \subseteq n.away
          /\ \A i \in DOMAIN Order :
                i < n.at \/ (i = n.at /\ n.step \in Awaiting)
                  => Order[i] \in n.asked \cup n.away
    /\ n.step \in {"status", "claim"} /\ n.answer = Already
          => Day(n.since) <= claimed[Order[n.at]]
JobsSound == \A w \in Workers : Sound(job[w])

\* The flag belongs to one job, and the loop's job has it.
Flag ==
    /\ \A v, w \in Workers : job[v].guarded /\ job[w].guarded => v = w
    /\ running <=> \E w \in Workers : job[w].guarded
    /\ job[Loop] # NoJob => job[Loop].guarded

\* The slots served since the turn of the loop began are those it remembers.
Slots ==
    /\ fired \subseteq launched
    /\ \A s \in launched : s[1] >= Day(loopTime) => s \in fired

\* A clock that has been looked at has its jobs served, the check-in as soon as
\* the renewal is over.
Looked ==
    polled =>
        /\ loopTime = now
        /\ Due("keepalive", now) => Slot("keepalive", now) \in launched
        /\ (job[Loop] = NoJob \/ job[Loop].claims) /\ Due("checkin", now)
              => Slot("checkin", now) \in launched

\* An entry is of a day on which the credits were claimed, unless it came late.
EntriesTrue ==
    late \/ \A a \in Accounts : entry[a].claimed => entry[a].day <= claimed[a]

\* The part of it about the balances.
QuotaInv == BalancesTypeOK /\ ReadingsTrue /\ ZeroesNoted /\ Peaks

IInv ==
    /\ TypeOK /\ ReadingsTrue /\ ZeroesNoted /\ Peaks
    /\ JobsSound /\ Flag /\ Slots /\ Looked /\ EntriesTrue

----------------------------------------------------------------------------
(* Days                                                                    *)

\* Days follow the instants.
LEMMA DaysFollow ==
    ASSUME NEW s \in Nat, NEW t \in Nat, s <= t
    PROVE  Day(s) \in Nat /\ Day(t) \in Nat /\ Day(s) <= Day(t)
BY AutomationAssumption DEF Day

\* The times kept are past instants.
LEMMA TimesKept ==
    ASSUME TypeOK
    PROVE  /\ now \in Nat /\ loopTime \in Nat /\ loopTime <= now
           /\ Today \in Nat /\ Day(loopTime) \in Nat /\ Day(loopTime) <= Today
           /\ \A w \in Workers : job[w].since \in Nat /\ job[w].since <= now
<1>1. now \in Nat /\ loopTime \in Nat /\ loopTime <= now
  BY AutomationAssumption DEF TypeOK
<1>2. \A w \in Workers : job[w].since \in Nat /\ job[w].since <= now
  BY <1>1 DEF TypeOK
<1> QED BY <1>1, <1>2, DaysFollow DEF Today

\* The order names every account, and accounts only.
LEMMA Orders ==
    /\ Order \in Seq(Accounts) /\ Len(Order) \in Nat /\ DOMAIN Order = 1..Len(Order)
    /\ \A i \in DOMAIN Order : Order[i] \in Accounts
    /\ \A a \in Accounts : \E i \in DOMAIN Order : Order[i] = a
<1>1. Order \in Seq(Accounts) /\ {Order[i] : i \in DOMAIN Order} = Accounts
  BY AutomationAssumption
<1> QED BY <1>1, LenProperties

\* A job that waits for an answer does so about an account.
LEMMA AtAccount ==
    ASSUME TypeOK, JobsSound, NEW w \in Workers
    PROVE  /\ job[w].step \in Awaiting => At(w) \in Accounts /\ job[w].at \in DOMAIN Order
           /\ job[w].at <= Len(Order) => At(w) \in Accounts /\ job[w].at \in DOMAIN Order
<1>1. job[w].at \in 1..(Len(Order) + 1) /\ (job[w].step \in Awaiting => job[w].at <= Len(Order))
  BY DEF TypeOK, JobsSound, Sound
<1>2. job[w].at <= Len(Order) => job[w].at \in 1..Len(Order)
  BY <1>1, Orders
<1> QED BY <1>1, <1>2, Orders DEF At

----------------------------------------------------------------------------
(* The balances                                                            *)

\* The larger of two numbers.
LEMMA Largest ==
    ASSUME NEW m \in Int, NEW n \in Int
    PROVE  /\ Larger(m, n) \in {m, n} /\ m <= Larger(m, n) /\ n <= Larger(m, n)
           /\ m <= n => Larger(m, n) = n
           /\ n <= m => Larger(m, n) = m
BY DEF Larger

\* What a write to the cache leaves: the fields of the account, the rest as is.
LEMMA Written ==
    ASSUME QuotaInv, NEW a \in Accounts, NEW value \in Unknown..MaxBalance,
           NEW deadline \in BOOLEAN, NEW peak \in Unknown..MaxBalance,
           cache' = [cache EXCEPT ![a] = [remaining |-> value, deadline |-> deadline,
                                          peak |-> peak]],
           top' = [top EXCEPT ![a] = peak],
           value <= peak, value = 0 => a \in zeroes,
           UNCHANGED <<balance, zeroes>>
    PROVE  /\ cache' \in [Accounts -> [remaining : Unknown..MaxBalance, deadline : BOOLEAN,
                                       peak : Unknown..MaxBalance]]
           /\ top' \in [Accounts -> Unknown..MaxBalance]
           /\ ZeroesNoted' /\ Peaks'
<1>1. PICK n : n = [remaining |-> value, deadline |-> deadline, peak |-> peak]
  OBVIOUS
<1>2. /\ n \in [remaining : Unknown..MaxBalance, deadline : BOOLEAN, peak : Unknown..MaxBalance]
      /\ n.remaining = value /\ n.peak = peak
      /\ cache' = [cache EXCEPT ![a] = n]
  BY <1>1
<1>3. /\ cache \in [Accounts -> [remaining : Unknown..MaxBalance, deadline : BOOLEAN,
                                 peak : Unknown..MaxBalance]]
      /\ top \in [Accounts -> Unknown..MaxBalance]
  BY DEF QuotaInv, BalancesTypeOK
<1>4. ZeroesNoted'
  BY <1>2, <1>3 DEF QuotaInv, ZeroesNoted
<1>5. Peaks'
  BY <1>2, <1>3 DEF QuotaInv, Peaks
<1> QED BY <1>2, <1>3, <1>4, <1>5

\* No balance written outside WorkBuddy takes a deadline away, no deadline a
\* balance: FieldsSurvive for one step.
Fields ==
    \A a \in Accounts : KindOf(a) # "workbuddy" =>
          /\ cache'[a].remaining # cache[a].remaining =>
                cache'[a].deadline = cache[a].deadline
          /\ cache[a].remaining # Unknown => cache'[a].remaining # Unknown
          /\ cache[a].deadline => cache'[a].deadline

\* The three ways a row is written.
LEMMA RowWritten ==
    ASSUME QuotaInv, NEW a \in Accounts, NEW value \in 0..MaxBalance,
           UNCHANGED <<balance, zeroes>>,
           \/ /\ value = 0 => a \in zeroes
              /\ \/ Snapshot(a, value) /\ KindOf(a) = "workbuddy"
                 \/ MergeReading(a, value)
           \/ MergeDeadline(a)
    PROVE  /\ cache' \in [Accounts -> [remaining : Unknown..MaxBalance, deadline : BOOLEAN,
                                       peak : Unknown..MaxBalance]]
           /\ top' \in [Accounts -> Unknown..MaxBalance]
           /\ ZeroesNoted' /\ Peaks' /\ Fields
<1>1. /\ cache \in [Accounts -> [remaining : Unknown..MaxBalance, deadline : BOOLEAN,
                                 peak : Unknown..MaxBalance]]
      /\ top \in [Accounts -> Unknown..MaxBalance]
      /\ MaxBalance \in Nat
  BY BalanceAssumption DEF QuotaInv, BalancesTypeOK
<1>2. PICK old, peak : old = cache[a] /\ peak = top[a]
  OBVIOUS
<1>3. /\ old \in [remaining : Unknown..MaxBalance, deadline : BOOLEAN, peak : Unknown..MaxBalance]
      /\ old.peak = peak /\ old.remaining <= peak /\ peak \in Unknown..MaxBalance
      /\ old.remaining = 0 => a \in zeroes
  BY <1>1, <1>2 DEF QuotaInv, Peaks, ZeroesNoted
<1>4. PICK high : high = Larger(peak, value)
  OBVIOUS
<1>5. /\ high \in Unknown..MaxBalance /\ value <= high /\ value \in Unknown..MaxBalance
      /\ Peak(old, value) = high /\ Peak(old, old.remaining) = peak
  <2>1. Larger(old.peak, old.remaining) = peak
    BY <1>3, Largest DEF Unknown
  <2>2. Larger(peak, old.remaining) = peak
    BY <1>3, Largest DEF Unknown
  <2>3. high \in {peak, value} /\ value <= high
    BY <1>3, <1>4, Largest DEF Unknown
  <2>4. value \in Unknown..MaxBalance
    BY DEF Unknown
  <2> QED BY <1>3, <1>4, <2>1, <2>2, <2>3, <2>4 DEF Peak
<1>6. CASE (value = 0 => a \in zeroes) /\ Snapshot(a, value) /\ KindOf(a) = "workbuddy"
  <2>1. PICK deadline \in BOOLEAN : deadline = (value > 0)
    <3>1. (value > 0) \in BOOLEAN
      OBVIOUS
    <3> QED BY <3>1
  <2>2. /\ cache' = [cache EXCEPT ![a] = [remaining |-> value, deadline |-> deadline,
                                          peak |-> high]]
        /\ top' = [top EXCEPT ![a] = high]
    BY <1>1, <1>2, <1>4, <1>5, <1>6, <2>1 DEF Snapshot
  <2>3. Fields
    BY <1>1, <1>6, <2>2 DEF Fields
  <2> QED BY <1>5, <1>6, <2>2, <2>3, Written
<1>7. CASE (value = 0 => a \in zeroes) /\ MergeReading(a, value)
  <2>1. PICK n : n = [old EXCEPT !.remaining = value, !.peak = high]
    OBVIOUS
  <2>2. n = [remaining |-> value, deadline |-> old.deadline, peak |-> high]
    BY <1>3, <2>1
  <2>3. cache' = [cache EXCEPT ![a] = n] /\ top' = [top EXCEPT ![a] = high]
    BY <1>1, <1>2, <1>4, <1>5, <1>7, <2>1 DEF MergeReading
  <2>4. old.deadline \in BOOLEAN
    BY <1>3
  <2>5. Fields
    <3>1. n.remaining = value /\ n.deadline = old.deadline /\ value # Unknown
      BY <2>2 DEF Unknown
    <3> QED BY <1>1, <1>2, <2>3, <3>1 DEF Fields
  <2> QED BY <1>5, <1>7, <2>2, <2>3, <2>4, <2>5, Written
<1>8. CASE MergeDeadline(a)
  <2>1. PICK n : n = [old EXCEPT !.deadline = TRUE, !.peak = peak]
    OBVIOUS
  <2>2. n = [remaining |-> old.remaining, deadline |-> TRUE, peak |-> peak]
    BY <1>3, <2>1
  <2>3. cache' = [cache EXCEPT ![a] = n]
    BY <1>1, <1>2, <1>5, <1>8, <2>1 DEF MergeDeadline
  <2>4. top' = [top EXCEPT ![a] = peak]
    BY <1>1, <1>2, <1>8 DEF MergeDeadline
  <2>5. Fields
    <3>1. n.remaining = old.remaining /\ n.deadline
      BY <2>2
    <3> QED BY <1>1, <1>2, <2>3, <3>1 DEF Fields
  <2>6. old.remaining \in Unknown..MaxBalance
    BY <1>3
  <2> QED BY <1>3, <2>2, <2>3, <2>4, <2>5, <2>6, Written
<1> QED BY <1>6, <1>7, <1>8

\* Nothing of the balances changes but the readings.
LEMMA RowsStay ==
    ASSUME QuotaInv, UNCHANGED <<balance, cache, zeroes, top>>,
           reading' \in [Readers -> [account : Accounts \cup {Unknown},
                                     value : {Pending, Failed} \cup (0..MaxBalance)]],
           ReadingsTrue'
    PROVE  QuotaInv' /\ Fields
BY DEF QuotaInv, BalancesTypeOK, ZeroesNoted, Peaks, Fields

\* A row is written, the readings are as true as before.
LEMMA RowMoves ==
    ASSUME QuotaInv, UNCHANGED <<balance, zeroes, reading>>, NEW a \in Accounts,
           NEW value \in 0..MaxBalance,
           \/ /\ value = 0 => a \in zeroes
              /\ Snapshot(a, value) /\ KindOf(a) = "workbuddy"
           \/ MergeDeadline(a)
    PROVE  QuotaInv' /\ Fields
<1>1. ReadingsTrue'
  BY DEF QuotaInv, ReadingsTrue
<1> QED BY <1>1, RowWritten DEF QuotaInv, BalancesTypeOK

\* The readings of Balances.
LEMMA ReadingMoves ==
    ASSUME QuotaInv, NEW r \in Readers, NEW a \in Accounts,
           BeginReading(r, a) \/ Measure(r) \/ StoreReading(r) \/ DropReading(r)
    PROVE  QuotaInv' /\ Fields
<1> DEFINE Values == {Pending, Failed} \cup (0..MaxBalance)
           Record == [account : Accounts \cup {Unknown}, value : Values]
<1>1. /\ reading \in [Readers -> Record] /\ ReadingsTrue /\ MaxBalance \in Nat
      /\ balance \in [Accounts -> 0..MaxBalance]
  BY BalanceAssumption DEF QuotaInv, BalancesTypeOK
<1>2. NoReading \in Record /\ NoReading.value = Pending /\ NoReading.value # 0
  BY DEF NoReading, Pending, Failed, Unknown
<1>3. CASE BeginReading(r, a)
  <2>1. PICK n : n = [account |-> a, value |-> Pending]
    OBVIOUS
  <2>2. n \in Record /\ n.account = a /\ n.value # 0 /\ reading' = [reading EXCEPT ![r] = n]
    BY <1>3, <2>1 DEF BeginReading, Pending, Failed
  <2>3. ReadingsTrue'
    BY <1>1, <1>3, <2>2 DEF ReadingsTrue, BeginReading
  <2>4. reading' \in [Readers -> Record]
    BY <1>1, <2>2
  <2> QED BY <1>3, <2>3, <2>4, RowsStay DEF BeginReading
<1>4. CASE Measure(r)
  <2>1. PICK old : old = reading[r]
    OBVIOUS
  <2>2. PICK value \in Answer(old.account) : reading' = [reading EXCEPT ![r].value = value]
    BY <1>4, <2>1 DEF Measure
  <2>3. old \in Record /\ old.account \in Accounts
    BY <1>1, <1>4, <2>1 DEF Measure, ReadingsTrue
  <2>4. value \in Values /\ (value = 0 => old.account \in zeroes)
    BY <1>1, <2>2, <2>3 DEF Answer, QuotaInv, ZeroesNoted, Failed
  <2>5. PICK n : n = [old EXCEPT !.value = value]
    OBVIOUS
  <2>6. n \in Record /\ n.account = old.account /\ n.value = value
    BY <2>3, <2>4, <2>5
  <2>7. reading' = [reading EXCEPT ![r] = n]
    BY <1>1, <2>1, <2>2, <2>5
  <2>8. ReadingsTrue'
    BY <1>1, <1>4, <2>3, <2>4, <2>6, <2>7 DEF ReadingsTrue, Measure
  <2>9. reading' \in [Readers -> Record]
    BY <1>1, <2>6, <2>7
  <2> QED BY <1>4, <2>8, <2>9, RowsStay DEF Measure
<1>5. CASE StoreReading(r)
  <2>1. PICK old : old = reading[r]
    OBVIOUS
  <2>2. /\ old \in Record /\ old.account \in Accounts /\ old.value \in 0..MaxBalance
        /\ old.value = 0 => old.account \in zeroes
    BY <1>1, <1>2, <1>5, <2>1 DEF StoreReading, ReadingsTrue
  <2>3. \/ Snapshot(old.account, old.value) /\ KindOf(old.account) = "workbuddy"
        \/ MergeReading(old.account, old.value)
    BY <1>5, <2>1 DEF StoreReading
  <2>4. /\ reading' = [reading EXCEPT ![r] = NoReading] /\ UNCHANGED <<balance, zeroes>>
    BY <1>5 DEF StoreReading
  <2>5. ReadingsTrue' /\ reading' \in [Readers -> Record]
    BY <1>1, <1>2, <2>4 DEF ReadingsTrue
  <2> QED BY <2>2, <2>3, <2>4, <2>5, RowWritten DEF QuotaInv, BalancesTypeOK
<1>6. CASE DropReading(r)
  <2>1. ReadingsTrue' /\ reading' \in [Readers -> Record]
    BY <1>1, <1>2, <1>6 DEF ReadingsTrue, DropReading
  <2> QED BY <1>6, <2>1, RowsStay DEF DropReading
<1> QED BY <1>3, <1>4, <1>5, <1>6

\* What is spent, and what a claim adds.
LEMMA BalanceMoves ==
    ASSUME QuotaInv, UNCHANGED <<cache, reading, top>>,
           balance' \in [Accounts -> 0..MaxBalance], zeroes \subseteq zeroes',
           zeroes' \subseteq Accounts,
           \A a \in Accounts : balance'[a] = 0 => a \in zeroes'
    PROVE  QuotaInv' /\ Fields
<1>1. BalancesTypeOK'
  BY DEF QuotaInv, BalancesTypeOK
<1> QED BY <1>1 DEF QuotaInv, ReadingsTrue, ZeroesNoted, Peaks, Fields

\* Every step keeps the balances in order.
LEMMA QuotaStep == IInv /\ [Next]_vars => QuotaInv' /\ Fields
<1> SUFFICES ASSUME IInv, [Next]_vars PROVE QuotaInv' /\ Fields
  OBVIOUS
<1>1. QuotaInv /\ TypeOK /\ JobsSound
  BY DEF IInv, QuotaInv, TypeOK
<1>2. /\ balance \in [Accounts -> 0..MaxBalance] /\ MaxBalance \in Nat
      /\ zeroes \subseteq Accounts
      /\ \A a \in Accounts : balance[a] = 0 => a \in zeroes
  BY <1>1, BalanceAssumption DEF QuotaInv, BalancesTypeOK, ZeroesNoted
<1>3. ASSUME UNCHANGED quota PROVE QuotaInv' /\ Fields
  <2>1. ReadingsTrue'
    BY <1>1, <1>3 DEF quota, QuotaInv, ReadingsTrue
  <2> QED BY <1>1, <1>3, <2>1, RowsStay DEF quota, QuotaInv, BalancesTypeOK
<1>4. ASSUME NEW w \in Workers, At(w) \in Accounts, StoreExpiry(At(w))
      PROVE  QuotaInv' /\ Fields
  <2>1. MaxBalance \in 0..MaxBalance
    BY <1>2
  <2> QED BY <1>1, <1>3, <1>4, <2>1, RowMoves DEF StoreExpiry
<1>5. CASE Poll \/ TimePasses
  BY <1>3, <1>5 DEF Poll, TimePasses
<1>6. CASE Restart
  <2>1. /\ UNCHANGED <<balance, cache, zeroes, top>>
        /\ reading' = [r \in Readers |-> NoReading]
    BY <1>6 DEF Restart
  <2>2. /\ ReadingsTrue'
        /\ reading' \in [Readers -> [account : Accounts \cup {Unknown},
                                     value : {Pending, Failed} \cup (0..MaxBalance)]]
    BY <2>1 DEF ReadingsTrue, NoReading
  <2> QED BY <1>1, <2>1, <2>2, RowsStay
<1>7. ASSUME NEW w \in Workers, Work(w) \/ Break(w) PROVE QuotaInv' /\ Fields
  <2>1. CASE Renew(w) \/ Finish(w) \/ Break(w) \/ ServeStatus(w)
    BY <1>3, <2>1 DEF Renew, Finish, Break, ServeStatus, quota
  <2>2. CASE Turn(w)
    <3>1. At(w) \in Accounts
      BY <1>1, <2>2, AtAccount DEF Turn
    <3>2. UNCHANGED quota \/ StoreExpiry(At(w))
      BY <2>2 DEF Turn
    <3> QED BY <1>3, <1>4, <3>1, <3>2
  <2>3. CASE ReceiveStatus(w) \/ ReceiveClaim(w)
    <3>1. At(w) \in Accounts
      BY <1>1, <2>3, AtAccount DEF ReceiveStatus, ReceiveClaim, Awaiting
    <3>2. UNCHANGED quota \/ StoreExpiry(At(w))
      BY <2>3 DEF ReceiveStatus, ReceiveClaim
    <3> QED BY <1>3, <1>4, <3>1, <3>2
  <2>4. CASE ServeClaim(w)
    <3>1. At(w) \in Accounts
      BY <1>1, <2>4, AtAccount DEF ServeClaim, Asking, Awaiting
    <3>2. PICK a \in Accounts : a = At(w)
      BY <3>1
    <3>3. /\ UNCHANGED <<cache, reading, zeroes, top>>
          /\ \/ balance' = balance
             \/ balance[a] < MaxBalance /\ balance' = [balance EXCEPT ![a] = @ + 1]
      BY <2>4, <3>2 DEF ServeClaim
    <3>4. /\ balance' \in [Accounts -> 0..MaxBalance]
          /\ \A b \in Accounts : balance'[b] = 0 => balance[b] = 0
      BY <1>2, <3>3
    <3> QED BY <1>1, <1>2, <3>3, <3>4, BalanceMoves
  <2>5. CASE MeasureResources(w)
    <3>1. At(w) \in Accounts /\ KindOf(At(w)) = "workbuddy"
      BY <1>1, <2>5, AtAccount DEF MeasureResources, Awaiting, JobsSound, Sound, At
    <3>2. PICK a \in Accounts : a = At(w)
      BY <3>1
    <3>3. CASE UNCHANGED <<cache, top>>
      BY <1>3, <2>5, <3>3 DEF MeasureResources, quota
    <3>4. CASE \E value \in Answer(a) \ {Failed} : Snapshot(a, value)
      <4>1. PICK value \in Answer(a) \ {Failed} : Snapshot(a, value)
        BY <3>4
      <4>2. value \in 0..MaxBalance /\ (value = 0 => a \in zeroes)
        BY <1>2, <4>1 DEF Answer
      <4>3. UNCHANGED <<balance, zeroes, reading>>
        BY <2>5 DEF MeasureResources
      <4> QED BY <1>1, <3>1, <3>2, <4>1, <4>2, <4>3, RowMoves
    <3> QED BY <2>5, <3>2, <3>3, <3>4 DEF MeasureResources
  <2> QED BY <1>7, <2>1, <2>2, <2>3, <2>4, <2>5 DEF Work
<1>8. ASSUME NEW w \in Admins, AdminKeepalive(w) \/ AdminCheckin(w) \/ AdminStatus(w)
      PROVE  QuotaInv' /\ Fields
  BY <1>3, <1>8 DEF AdminKeepalive, AdminCheckin, AdminStatus
<1>9. ASSUME NEW j, Switch(j) PROVE QuotaInv' /\ Fields
  BY <1>3, <1>9 DEF Switch
<1>10. ASSUME NEW a \in Accounts, Toggle(a) PROVE QuotaInv' /\ Fields
  BY <1>3, <1>10 DEF Toggle
<1>11. CASE Environment \/ Readings
  <2>1. ASSUME NEW r \in Readers, NEW a \in Accounts, BeginReading(r, a)
        PROVE  QuotaInv' /\ Fields
    BY <1>1, <2>1, ReadingMoves
  <2>2. ASSUME NEW a \in Accounts, Spend(a) PROVE QuotaInv' /\ Fields
    <3>1. /\ UNCHANGED <<cache, reading, top>>
          /\ balance' = [balance EXCEPT ![a] = @ - 1] /\ balance[a] > 0
          /\ zeroes' = IF balance[a] = 1 THEN zeroes \cup {a} ELSE zeroes
      BY <2>2 DEF Spend
    <3>2. balance' \in [Accounts -> 0..MaxBalance]
      BY <1>2, <3>1
    <3>3. \A b \in Accounts : balance'[b] = 0 => b \in zeroes'
      BY <1>2, <3>1
    <3> QED BY <1>1, <1>2, <3>1, <3>2, <3>3, BalanceMoves
  <2>3. ASSUME NEW r \in Readers, Measure(r) \/ StoreReading(r) \/ DropReading(r)
        PROVE  QuotaInv' /\ Fields
    <3>1. CASE StoreReading(r) \/ DropReading(r)
      <4>1. reading[r] # NoReading
        BY <3>1 DEF StoreReading, DropReading, NoReading, Pending, Failed
      <4>2. reading[r].account \in Accounts
        BY <1>1, <4>1 DEF QuotaInv, ReadingsTrue
      <4> QED BY <1>1, <3>1, <4>2, ReadingMoves
    <3>2. CASE Measure(r)
      <4>1. reading[r].account \in Accounts
        BY <1>1, <3>2 DEF QuotaInv, ReadingsTrue, Measure
      <4> QED BY <1>1, <3>2, <4>1, ReadingMoves
    <3> QED BY <2>3, <3>1, <3>2
  <2> QED BY <1>11, <2>1, <2>2, <2>3 DEF Environment, Readings
<1> QED BY <1>3, <1>5, <1>6, <1>7, <1>8, <1>9, <1>10, <1>11 DEF Next, vars

----------------------------------------------------------------------------
(* The jobs                                                                *)

JobRecords == [step : Steps, guarded : BOOLEAN, claims : BOOLEAN,
               at : 1..(Len(Order) + 1), since : 0..now,
               answer : {Pending, Failed, Already, Claimable},
               asked : SUBSET Accounts, away : SUBSET Accounts]

\* No job is a job of nobody: sound whatever happens.
LEMMA NoJobSound ==
    /\ NoJob.step = "none" /\ NoJob.guarded = FALSE /\ NoJob.claims = FALSE
    /\ TypeOK => NoJob \in JobRecords
    /\ Sound(NoJob)
<1>1. /\ NoJob.step = "none" /\ NoJob.guarded = FALSE /\ NoJob.claims = FALSE
      /\ NoJob.at = 1 /\ NoJob.answer = Pending /\ NoJob.since = 0
      /\ NoJob.asked = {} /\ NoJob.away = {}
  BY DEF NoJob
<1>2. TypeOK => NoJob \in JobRecords
  <2>1. 1 \in 1..(Len(Order) + 1)
    BY Orders
  <2>2. TypeOK => 0 \in 0..now
    BY TimesKept
  <2> QED BY <2>1, <2>2 DEF NoJob, JobRecords, Steps
<1> QED BY <1>1, <1>2 DEF Sound, Awaiting

\* A job begun has asked nobody; who is not active is away.
LEMMA BegunSound ==
    ASSUME TypeOK, NEW kind, NEW guarded \in BOOLEAN, NEW claims \in BOOLEAN
    PROVE  /\ Begun(kind, guarded, claims) \in JobRecords
           /\ Begun(kind, guarded, claims).guarded = guarded
           /\ Begun(kind, guarded, claims).claims = claims
           /\ Begun(kind, guarded, claims).step # "none"
           /\ Sound(Begun(kind, guarded, claims))
<1>1. PICK step : step = IF kind = "keepalive" THEN "renew" ELSE "turn"
  OBVIOUS
<1>2. PICK n : n = Begun(kind, guarded, claims)
  OBVIOUS
<1>3. n = [step |-> step, guarded |-> guarded, claims |-> claims, at |-> 1, answer |-> Pending,
           since |-> 0, asked |-> {}, away |-> Accounts \ active]
  BY <1>1, <1>2 DEF Begun, NoJob
<1>4. n \in JobRecords
  <2>1. 1 \in 1..(Len(Order) + 1) /\ 0 \in 0..now
    BY Orders, TimesKept
  <2> QED BY <1>1, <1>3, <2>1 DEF JobRecords, Steps
<1>5. Sound(n)
  <2>1. \A i \in DOMAIN Order : ~(i < n.at) /\ n.step \notin Awaiting
    BY <1>1, <1>3, Orders DEF Awaiting
  <2> QED BY <1>1, <1>3, <2>1 DEF Sound, Awaiting
<1> QED BY <1>1, <1>2, <1>3, <1>4, <1>5

\* What a step does to the other jobs.
LEMMA OthersSound ==
    ASSUME JobsSound, NEW v \in Workers, job'[v] = job[v],
           active' = active, \A a \in Accounts : claimed[a] <= claimed'[a],
           TypeOK, claimed' \in [Accounts -> Unknown..Day(now')], now' \in Nat
    PROVE  Sound(job[v])'
<1>1. Sound(job[v])
  BY DEF JobsSound
<1>2. PICK n : n = job[v]
  OBVIOUS
<1>3. n.step \in {"status", "claim"} /\ n.answer = Already
        => Day(n.since) <= claimed'[Order[n.at]]
  <2>1. SUFFICES ASSUME n.step \in {"status", "claim"}, n.answer = Already
                 PROVE  Day(n.since) <= claimed'[Order[n.at]]
    OBVIOUS
  <2>2. PICK a \in Accounts : a = Order[n.at]
    BY <1>2, <2>1, AtAccount DEF Awaiting, At
  <2>3. Day(n.since) <= claimed[a] /\ claimed[a] <= claimed'[a]
    BY <1>1, <1>2, <2>1, <2>2 DEF Sound
  <2>4. Day(n.since) \in Int /\ claimed[a] \in Int /\ claimed'[a] \in Int
    <3>1. n.since \in Nat /\ Day(n.since) \in Nat /\ Day(now') \in Nat /\ Today \in Nat
      BY <1>2, TimesKept, DaysFollow
    <3> QED BY <3>1 DEF TypeOK, Unknown
  <2> QED BY <2>2, <2>3, <2>4
<1> QED BY <1>1, <1>2, <1>3 DEF Sound, Day

\* The flag, the slots and the look at the clock, where no job begins or ends.
Kept ==
    /\ UNCHANGED <<fired, loopTime, running, launched>>
    /\ \A v \in Workers : /\ job'[v].guarded = job[v].guarded
                          /\ job'[v].claims = job[v].claims
                          /\ job'[v] = NoJob <=> job[v] = NoJob
    /\ polled' => polled /\ now' = now /\ enabled' = enabled

LEMMA KeptInv == ASSUME IInv, Kept PROVE Flag' /\ Slots' /\ Looked'
<1>1. Flag /\ Slots /\ Looked /\ Loop \in Workers
  BY DEF IInv, Workers
<1>2. Flag'
  BY <1>1 DEF Kept, Flag
<1>3. Slots'
  BY <1>1 DEF Kept, Slots, Day
<1>4. Looked'
  BY <1>1 DEF Kept, Looked, Due, Slot, Day, Hour
<1> QED BY <1>2, <1>3, <1>4

\* What the steps of a job have in common: only the job, what the vendor has
\* booked, the entries and the balances change, each as it should.
Going ==
    /\ UNCHANGED <<now, polled, fired, loopTime, running, active, enabled, moves, launched>>
    /\ claimed' \in [Accounts -> Unknown..Today]
    /\ \A a \in Accounts : claimed[a] <= claimed'[a]
    /\ entry' \in [Accounts -> [day : Unknown..Today, claimed : BOOLEAN]]
    /\ late' \in BOOLEAN /\ EntriesTrue' /\ BalancesTypeOK'

Gone == TypeOK' /\ JobsSound' /\ Flag' /\ Slots' /\ Looked' /\ EntriesTrue'

\* A step of one job that goes on.
LEMMA WorkInv ==
    ASSUME IInv, Going, NEW w \in Workers, NEW n \in JobRecords,
           job' = [job EXCEPT ![w] = n], job[w].step # "none", n.step # "none",
           n.guarded = job[w].guarded, n.claims = job[w].claims, Sound(n)'
    PROVE  Gone
<1>1. TypeOK /\ JobsSound /\ now \in Nat /\ job \in [Workers -> JobRecords]
  BY TimesKept DEF IInv, TypeOK, JobRecords
<1>2. /\ job' \in [Workers -> JobRecords] /\ job'[w] = n
      /\ \A v \in Workers : v # w => job'[v] = job[v]
  BY <1>1
<1>3. TypeOK'
  BY <1>1, <1>2 DEF TypeOK, JobRecords, Today, Day, Going
<1>4. JobsSound'
  <2>1. ASSUME NEW v \in Workers, v # w PROVE Sound(job[v])'
    BY <1>1, <1>2, <2>1, OthersSound DEF Today, Going
  <2>2. Sound(job[w])'
    BY <1>2 DEF Sound
  <2> QED BY <2>1, <2>2 DEF JobsSound
<1>5. Kept
  <2>1. job[w] # NoJob /\ n # NoJob
    BY NoJobSound
  <2> QED BY <1>2, <2>1 DEF Kept, Going
<1> QED BY <1>3, <1>4, <1>5, KeptInv DEF Going, Gone

\* What a job that waits for an answer looks like.
LEMMA AskSets ==
    ASSUME TypeOK, NEW w \in Workers, NEW step \in Steps, NEW asked \in SUBSET Accounts,
           Ask(w, step, asked)
    PROVE  \E n \in JobRecords :
              /\ job' = [job EXCEPT ![w] = n]
              /\ n.step = step /\ n.answer = Pending /\ n.since = now /\ n.asked = asked
              /\ n.guarded = job[w].guarded /\ n.claims = job[w].claims
              /\ n.at = job[w].at /\ n.away = job[w].away
<1>1. PICK old \in JobRecords : old = job[w]
  BY DEF TypeOK, JobRecords
<1>2. PICK n : n = [old EXCEPT !.step = step, !.answer = Pending, !.since = now, !.asked = asked]
  OBVIOUS
<1>3. now \in 0..now
  BY TimesKept
<1>4. n \in JobRecords /\ n.step = step /\ n.answer = Pending /\ n.since = now /\ n.asked = asked
      /\ n.guarded = old.guarded /\ n.claims = old.claims /\ n.at = old.at /\ n.away = old.away
  BY <1>1, <1>2, <1>3 DEF JobRecords
<1>5. job' = [job EXCEPT ![w] = n]
  BY <1>1, <1>2 DEF Ask, TypeOK
<1> QED BY <1>1, <1>4, <1>5

\* A job that has gone to the next account.
LEMMA NextTurnSets ==
    ASSUME TypeOK, NEW w \in Workers, job[w].at <= Len(Order), NextTurn(w)
    PROVE  \E n \in JobRecords :
              /\ job' = [job EXCEPT ![w] = n]
              /\ n.step = "turn" /\ n.answer = Pending /\ n.at = job[w].at + 1
              /\ n.asked = job[w].asked /\ n.away = job[w].away
              /\ n.guarded = job[w].guarded /\ n.claims = job[w].claims
<1>1. PICK old \in JobRecords : old = job[w]
  BY DEF TypeOK, JobRecords
<1>2. PICK n : n = [old EXCEPT !.step = "turn", !.at = old.at + 1, !.answer = Pending, !.since = 0]
  OBVIOUS
<1>3. 0 \in 0..now /\ old.at + 1 \in 1..(Len(Order) + 1)
  BY <1>1, TimesKept, Orders DEF JobRecords
<1>4. n \in JobRecords /\ n.step = "turn" /\ n.answer = Pending /\ n.at = old.at + 1
      /\ n.asked = old.asked /\ n.guarded = old.guarded /\ n.claims = old.claims
      /\ n.away = old.away
  BY <1>1, <1>2, <1>3 DEF JobRecords, Steps
<1>5. job' = [job EXCEPT ![w] = n]
  BY <1>1, <1>2 DEF NextTurn, TypeOK
<1> QED BY <1>1, <1>4, <1>5

\* A job that has its answer.
LEMMA AnswersSets ==
    ASSUME TypeOK, NEW w \in Workers, NEW value \in {Pending, Failed, Already, Claimable},
           Answers(w, value)
    PROVE  \E n \in JobRecords :
              /\ job' = [job EXCEPT ![w] = n]
              /\ n.answer = value /\ n.step = job[w].step /\ n.since = job[w].since
              /\ n.at = job[w].at /\ n.asked = job[w].asked /\ n.away = job[w].away
              /\ n.guarded = job[w].guarded /\ n.claims = job[w].claims
<1>1. PICK old \in JobRecords : old = job[w]
  BY DEF TypeOK, JobRecords
<1>2. PICK n : n = [old EXCEPT !.answer = value]
  OBVIOUS
<1>3. n \in JobRecords /\ n.step = old.step /\ n.answer = value /\ n.since = old.since
      /\ n.asked = old.asked /\ n.guarded = old.guarded /\ n.claims = old.claims
      /\ n.at = old.at /\ n.away = old.away
  BY <1>1, <1>2 DEF JobRecords
<1>4. job' = [job EXCEPT ![w] = n]
  BY <1>1, <1>2 DEF Answers, TypeOK
<1> QED BY <1>1, <1>3, <1>4

\* The account in turn is asked, or asked for more.
LEMMA AskInv ==
    ASSUME IInv, Going, NEW w \in Workers, NEW step \in Awaiting,
           NEW asked \in SUBSET Accounts, Ask(w, step, asked),
           job[w].step # "none", job[w].at <= Len(Order),
           job[w].asked \subseteq asked, At(w) \in asked \cup job[w].away,
           step = "measure" => KindOf(At(w)) = "workbuddy"
    PROVE  Gone
<1>1. TypeOK /\ Sound(job[w]) /\ step \in Steps /\ job[w] # NoJob
  BY NoJobSound DEF IInv, JobsSound, Awaiting, Steps
<1>2. PICK n \in JobRecords :
         /\ job' = [job EXCEPT ![w] = n]
         /\ n.step = step /\ n.answer = Pending /\ n.since = now /\ n.asked = asked
         /\ n.guarded = job[w].guarded /\ n.claims = job[w].claims
         /\ n.at = job[w].at /\ n.away = job[w].away
  BY <1>1, AskSets
<1>3. Sound(n)'
  <2>1. n.step # "none" /\ n.answer # Already /\ n.answer # Claimable
    BY <1>2 DEF Awaiting, Pending, Already, Claimable
  <2>2. ASSUME NEW i \in DOMAIN Order, i < n.at \/ i = n.at
        PROVE  Order[i] \in n.asked \cup n.away
    BY <1>1, <1>2, <2>2 DEF Sound, At
  <2> QED BY <1>1, <1>2, <2>1, <2>2 DEF Sound, At, Going
<1> QED BY <1>2, <1>3, WorkInv DEF Awaiting

\* The account in turn has been asked, or is away: it is passed.
LEMMA PassInv ==
    ASSUME IInv, Going, NEW w \in Workers, NEW n \in JobRecords,
           job' = [job EXCEPT ![w] = n], job[w].step # "none",
           n.step = "turn", n.at = job[w].at + 1, n.away = job[w].away,
           n.guarded = job[w].guarded, n.claims = job[w].claims,
           job[w].at <= Len(Order), job[w].asked \subseteq n.asked,
           At(w) \in n.asked \cup n.away
    PROVE  Gone
<1>1. TypeOK /\ Sound(job[w]) /\ job[w] # NoJob
  BY NoJobSound DEF IInv, JobsSound
<1>2. Sound(n)'
  <2>1. ASSUME NEW i \in DOMAIN Order, i < n.at
        PROVE  Order[i] \in n.asked \cup n.away
    <3>1. i \in Int /\ job[w].at \in Int
      BY <1>1, Orders DEF TypeOK
    <3>2. i < job[w].at \/ i = job[w].at
      BY <2>1, <3>1
    <3> QED BY <1>1, <3>2 DEF Sound, At
  <2> QED BY <1>1, <2>1 DEF Sound, Going, Awaiting
<1> QED BY <1>2, WorkInv

LEMMA NextTurnInv ==
    ASSUME IInv, Going, NEW w \in Workers, NextTurn(w), job[w].step # "none",
           job[w].at <= Len(Order), At(w) \in job[w].asked \cup job[w].away
    PROVE  Gone
<1>1. TypeOK
  BY DEF IInv
<1> QED BY <1>1, NextTurnSets, PassInv

\* The vendor answers: what it says of today is so.
LEMMA AnswersInv ==
    ASSUME IInv, Going, NEW w \in Workers,
           NEW value \in {Failed, Already, Claimable}, Answers(w, value),
           job[w].step \in {"status", "claim"},
           job[w].step = "claim" => value # Claimable,
           value = Already => claimed'[At(w)] = Today
    PROVE  Gone
<1>1. TypeOK /\ Sound(job[w]) /\ job[w] # NoJob
  BY NoJobSound DEF IInv, JobsSound
<1>2. PICK n \in JobRecords :
         /\ job' = [job EXCEPT ![w] = n]
         /\ n.answer = value /\ n.step = job[w].step /\ n.since = job[w].since
         /\ n.at = job[w].at /\ n.asked = job[w].asked /\ n.away = job[w].away
         /\ n.guarded = job[w].guarded /\ n.claims = job[w].claims
  BY <1>1, AnswersSets
<1>3. Day(n.since) <= Today
  BY <1>1, <1>2, TimesKept, DaysFollow DEF Today
<1>4. Sound(n)'
  BY <1>1, <1>2, <1>3 DEF Sound, Going, At, Day, Awaiting
<1> QED BY <1>1, <1>2, <1>4, WorkInv

\* The steps of a job that book, enter and answer nothing new.
LEMMA NothingClaimed ==
    ASSUME IInv, BalancesTypeOK', UNCHANGED <<claimed, entry, late>>,
           UNCHANGED <<now, polled, fired, loopTime, running, active, enabled, moves, launched>>
    PROVE  Going
<1>1. TypeOK /\ Today \in Nat
  BY TimesKept DEF IInv
<1>2. \A a \in Accounts : claimed[a] <= claimed'[a]
  BY <1>1 DEF TypeOK, Unknown
<1> QED BY <1>1, <1>2 DEF Going, TypeOK, IInv, EntriesTrue

\* The vendor books a claim.
LEMMA Booked ==
    ASSUME IInv, BalancesTypeOK', NEW a \in Accounts,
           claimed' = claimed \/ claimed' = [claimed EXCEPT ![a] = Today],
           UNCHANGED <<entry, late>>,
           UNCHANGED <<now, polled, fired, loopTime, running, active, enabled, moves, launched>>
    PROVE  Going
<1>1. TypeOK /\ Today \in Nat /\ EntriesTrue
  BY TimesKept DEF IInv
<1> DEFINE Past == Unknown..Today
<1>2. Today \in Past /\ \A d \in Past : d \in Int /\ d <= Today /\ d <= d
  BY <1>1 DEF Unknown
<1>3. claimed \in [Accounts -> Past]
  BY <1>1 DEF TypeOK
<1> HIDE DEF Past
<1>4. claimed' \in [Accounts -> Past] /\ \A b \in Accounts : claimed[b] <= claimed'[b]
  BY <1>2, <1>3
<1>5. claimed' \in [Accounts -> Unknown..Today]
  BY <1>4 DEF Past
<1>6. \A b \in Accounts : claimed[b] <= claimed'[b]
  BY <1>4
<1>7. EntriesTrue'
  <2>1. ASSUME NEW b \in Accounts, entry[b].claimed => entry[b].day <= claimed[b]
        PROVE  entry[b].claimed => entry[b].day <= claimed'[b]
    <3>1. entry[b].day \in Int /\ claimed[b] \in Int /\ claimed'[b] \in Int
      BY <1>1, <1>5 DEF TypeOK, Unknown
    <3> QED BY <1>6, <2>1, <3>1
  <2> QED BY <1>1, <2>1 DEF EntriesTrue
<1> QED BY <1>1, <1>5, <1>6, <1>7 DEF Going, TypeOK

\* An entry is written on the day of the answer, or it is late.
LEMMA Entered ==
    ASSUME IInv, BalancesTypeOK', NEW w \in Workers, NEW isClaimed \in BOOLEAN,
           Remember(w, isClaimed), job[w].step \in {"status", "claim"},
           isClaimed => job[w].answer = Already,
           claimed' = claimed,
           UNCHANGED <<now, polled, fired, loopTime, running, active, enabled, moves, launched>>
    PROVE  Going
<1>1. /\ TypeOK /\ JobsSound /\ Today \in Nat /\ EntriesTrue /\ At(w) \in Accounts
      /\ Sound(job[w])
  BY TimesKept, AtAccount DEF IInv, Awaiting, JobsSound
<1>2. PICK a \in Accounts : a = At(w)
  BY <1>1
<1>3. PICK e : e = [day |-> Today, claimed |-> isClaimed]
  OBVIOUS
<1>4. /\ e \in [day : Unknown..Today, claimed : BOOLEAN] /\ e.day = Today
      /\ e.claimed = isClaimed /\ entry' = [entry EXCEPT ![a] = e]
  BY <1>1, <1>2, <1>3 DEF Remember, Unknown
<1>5. entry' \in [Accounts -> [day : Unknown..Today, claimed : BOOLEAN]]
  BY <1>1, <1>4 DEF TypeOK
<1>6. \A b \in Accounts : claimed[b] <= claimed'[b] /\ claimed[b] \in Int
  BY <1>1 DEF TypeOK, Unknown
<1>7. PICK l \in BOOLEAN : l = (Day(job[w].since) # Today)
  <2>1. (Day(job[w].since) # Today) \in BOOLEAN
    OBVIOUS
  <2> QED BY <2>1
<1>8. late' \in BOOLEAN
  <2>1. late' = (late \/ l)
    BY <1>7 DEF Remember
  <2> QED BY <1>1, <2>1 DEF TypeOK
<1>9. EntriesTrue'
  <2>1. SUFFICES ASSUME ~late', NEW b \in Accounts, entry'[b].claimed
                 PROVE  entry'[b].day <= claimed[b]
    BY DEF EntriesTrue
  <2>2. ~late /\ Day(job[w].since) = Today
    BY <2>1 DEF Remember
  <2>3. CASE b # a
    BY <1>1, <1>4, <2>1, <2>2, <2>3 DEF EntriesTrue, TypeOK
  <2>4. CASE b = a
    <3>1. isClaimed
      BY <1>1, <1>4, <2>1, <2>4 DEF TypeOK
    <3>2. Today <= claimed[a]
      BY <1>1, <1>2, <2>2, <3>1 DEF Sound, At
    <3> QED BY <1>1, <1>4, <2>4, <3>2 DEF TypeOK
  <2> QED BY <2>3, <2>4
<1> QED BY <1>1, <1>5, <1>6, <1>8, <1>9 DEF Going, TypeOK

\* A turn: the account is asked, or passed.
LEMMA TurnInv == ASSUME IInv, BalancesTypeOK', NEW w \in Workers, Turn(w) PROVE Gone
<1>1. /\ TypeOK /\ JobsSound /\ Sound(job[w]) /\ job[w].step = "turn" /\ job[w].at <= Len(Order)
      /\ job[w] # NoJob
  BY NoJobSound DEF IInv, JobsSound, Turn
<1>2. PICK a \in Accounts : a = At(w)
  BY <1>1, AtAccount
<1>3. Going
  BY NothingClaimed DEF Turn, facts
<1>4. job[w].asked \in SUBSET Accounts
  BY <1>1 DEF TypeOK
<1>5. CASE Ask(w, "status", job[w].asked \cup {a})
  BY <1>1, <1>2, <1>3, <1>4, <1>5, AskInv DEF Awaiting
<1>6. CASE ~ClaimsFor(a) /\ NextTurn(w)
  <2>1. a \in job[w].away
    BY <1>1, <1>6 DEF ClaimsFor, Sound
  <2> QED BY <1>1, <1>2, <1>3, <1>6, <2>1, NextTurnInv
<1>7. CASE job' = [job EXCEPT ![w].at = @ + 1, ![w].asked = @ \cup {a}]
  <2>1. PICK old \in JobRecords : old = job[w]
    BY <1>1 DEF TypeOK, JobRecords
  <2>2. PICK n : n = [old EXCEPT !.at = old.at + 1, !.asked = old.asked \cup {a}]
    OBVIOUS
  <2>3. old.at + 1 \in 1..(Len(Order) + 1) /\ old.asked \cup {a} \in SUBSET Accounts
    BY <1>1, <1>4, <2>1, Orders DEF JobRecords
  <2>4. n \in JobRecords /\ n.step = old.step /\ n.at = old.at + 1
        /\ n.asked = old.asked \cup {a} /\ n.guarded = old.guarded /\ n.claims = old.claims
        /\ n.away = old.away
    BY <2>1, <2>2, <2>3 DEF JobRecords
  <2>5. job' = [job EXCEPT ![w] = n]
    BY <1>1, <1>7, <2>1, <2>2 DEF TypeOK
  <2> QED BY <1>1, <1>2, <1>3, <2>1, <2>4, <2>5, PassInv
<1> QED BY <1>2, <1>5, <1>6, <1>7 DEF Turn

\* The answers of the vendor.
LEMMA ServeInv ==
    ASSUME IInv, BalancesTypeOK', NEW w \in Workers, ServeStatus(w) \/ ServeClaim(w)
    PROVE  Gone
<1>1. TypeOK /\ JobsSound /\ job[w].step \in {"status", "claim"}
  BY DEF IInv, ServeStatus, ServeClaim, Asking
<1>2. PICK a \in Accounts : a = At(w)
  BY <1>1, AtAccount DEF Awaiting
<1>3. claimed \in [Accounts -> Unknown..Today]
  BY <1>1 DEF TypeOK
<1>4. Going
  <2>1. claimed' = claimed \/ claimed' = [claimed EXCEPT ![a] = Today]
    BY <1>2 DEF ServeStatus, ServeClaim
  <2>2. UNCHANGED <<entry, late>> /\ UNCHANGED <<now, polled, fired, loopTime, running, active,
                                                enabled, moves, launched>>
    BY DEF ServeStatus, ServeClaim
  <2> QED BY <2>1, <2>2, Booked
<1>5. CASE ServeStatus(w)
  <2>1. job[w].step # "claim" /\ job[w].step # "none"
    BY <1>5 DEF ServeStatus, Asking
  <2>2. CASE Answers(w, IF claimed[a] = Today THEN Already ELSE Claimable) /\ UNCHANGED claimed
    <3>1. PICK value \in {Already, Claimable} :
             value = IF claimed[a] = Today THEN Already ELSE Claimable
      OBVIOUS
    <3>2. value = Already => claimed'[a] = Today
      BY <2>2, <3>1 DEF Already, Claimable
    <3> QED BY <1>1, <1>2, <1>4, <2>1, <2>2, <3>1, <3>2, AnswersInv
  <2>3. CASE Answers(w, Already) /\ claimed' = [claimed EXCEPT ![a] = Today]
    BY <1>1, <1>2, <1>3, <1>4, <2>1, <2>3, AnswersInv
  <2>4. CASE Answers(w, Failed)
    BY <1>1, <1>4, <2>1, <2>4, AnswersInv DEF Failed, Already
  <2> QED BY <1>2, <1>5, <2>2, <2>3, <2>4 DEF ServeStatus
<1>6. CASE ServeClaim(w)
  <2>1. CASE Answers(w, Failed)
    BY <1>1, <1>4, <2>1, AnswersInv DEF Failed, Already, Claimable
  <2>2. CASE Answers(w, Already) /\ claimed' = [claimed EXCEPT ![a] = Today]
    BY <1>1, <1>2, <1>3, <1>4, <2>2, AnswersInv DEF Already, Claimable
  <2> QED BY <1>2, <1>6, <2>1, <2>2 DEF ServeClaim
<1> QED BY <1>5, <1>6

\* What the job makes of an answer.
LEMMA ReceiveInv ==
    ASSUME IInv, BalancesTypeOK', NEW w \in Workers, ReceiveStatus(w) \/ ReceiveClaim(w)
    PROVE  Gone
<1>1. /\ TypeOK /\ JobsSound /\ Sound(job[w]) /\ job[w].step \in {"status", "claim"}
      /\ job[w] # NoJob /\ job[w].answer # Pending
  BY NoJobSound DEF IInv, JobsSound, ReceiveStatus, ReceiveClaim
<1>2. PICK a \in Accounts : a = At(w)
  BY <1>1, AtAccount DEF Awaiting
<1>3. /\ job[w].at <= Len(Order) /\ At(w) \in job[w].asked \cup job[w].away
      /\ job[w].asked \in SUBSET Accounts
      /\ job[w].answer \in {Failed, Already, Claimable}
      /\ job[w].step = "claim" => job[w].answer # Claimable
  BY <1>1, AtAccount DEF Sound, Awaiting, At, TypeOK
<1>4. UNCHANGED <<now, polled, fired, loopTime, running, active, enabled, moves, launched>>
      /\ claimed' = claimed
  BY DEF ReceiveStatus, ReceiveClaim
<1>5. Going
  <2>1. CASE UNCHANGED <<entry, late>>
    BY <1>4, <2>1, NothingClaimed
  <2>2. ASSUME NEW isClaimed \in BOOLEAN, Remember(w, isClaimed),
               isClaimed => job[w].answer = Already
        PROVE  Going
    BY <1>1, <1>4, <2>2, Entered
  <2>3. CASE Remember(w, job[w].answer = Already)
    <3>1. (job[w].answer = Already) \in BOOLEAN
      OBVIOUS
    <3>2. CASE job[w].answer = Already
      <4>1. Remember(w, TRUE)
        BY <2>3, <3>2 DEF Remember
      <4> QED BY <2>2, <3>2, <4>1
    <3>3. CASE job[w].answer # Already
      <4>1. Remember(w, FALSE)
        BY <2>3, <3>3 DEF Remember
      <4> QED BY <2>2, <4>1
    <3> QED BY <3>2, <3>3
  <2>4. CASE Remember(w, TRUE) /\ job[w].answer = Already
    BY <2>2, <2>4
  <2> QED BY <1>3, <2>1, <2>3, <2>4 DEF ReceiveStatus, ReceiveClaim
<1>6. CASE NextTurn(w)
  BY <1>1, <1>3, <1>5, <1>6, NextTurnInv
<1>7. ASSUME NEW step \in {"claim", "measure"}, Ask(w, step, job[w].asked),
             step = "measure" => KindOf(At(w)) = "workbuddy"
      PROVE  Gone
  BY <1>1, <1>3, <1>5, <1>7, AskInv DEF Awaiting
<1>8. CASE ReceiveStatus(w)
  <2>1. CASE KindOf(a) = "workbuddy"
              /\ Ask(w, IF job[w].answer = Already THEN "measure" ELSE "claim", job[w].asked)
    <3>1. PICK step \in {"claim", "measure"} :
             step = IF job[w].answer = Already THEN "measure" ELSE "claim"
      OBVIOUS
    <3> QED BY <1>2, <1>7, <2>1, <3>1
  <2>2. CASE Ask(w, "claim", job[w].asked)
    BY <1>7, <2>2
  <2> QED BY <1>2, <1>6, <1>8, <2>1, <2>2 DEF ReceiveStatus
<1>9. CASE ReceiveClaim(w)
  <2>1. CASE KindOf(a) = "workbuddy" /\ Ask(w, "measure", job[w].asked)
    BY <1>2, <1>7, <2>1
  <2> QED BY <1>2, <1>6, <1>9, <2>1 DEF ReceiveClaim
<1> QED BY <1>8, <1>9

\* The resources of a WorkBuddy account have been read, or not.
LEMMA MeasureInv ==
    ASSUME IInv, BalancesTypeOK', NEW w \in Workers, MeasureResources(w)
    PROVE  Gone
<1>1. /\ TypeOK /\ JobsSound /\ Sound(job[w]) /\ job[w].step = "measure" /\ job[w] # NoJob
  BY NoJobSound DEF IInv, JobsSound, MeasureResources
<1>2. job[w].at <= Len(Order) /\ At(w) \in job[w].asked \cup job[w].away
  BY <1>1, AtAccount DEF Sound, Awaiting, At
<1>3. Going
  BY NothingClaimed DEF MeasureResources, facts
<1> QED BY <1>1, <1>2, <1>3, NextTurnInv DEF MeasureResources

----------------------------------------------------------------------------
(* Jobs that begin and end                                                 *)

\* A daily slot is served once: OnceADay for one step.
Once == \A s \in fired' \ fired : s \notin launched

\* A sound job stays so while nobody leaves and nothing is booked.
LEMMA SoundStays ==
    ASSUME NEW n, Sound(n), UNCHANGED <<active, claimed>>
    PROVE  Sound(n)'
BY DEF Sound, Day

\* The moves stay within their bound.
LEMMA MovesBound == TypeOK /\ (Moved \/ moves' = moves) => moves' \in 0..MaxMoves
<1>1. TypeOK => moves \in 0..MaxMoves
  BY DEF TypeOK
<1>2. MaxMoves \in Nat
  BY AutomationAssumption
<1> QED BY <1>1, <1>2 DEF Moved

\* The loop is a worker, and no administrator.
LEMMA WorkerLoop == Loop \in Workers /\ \A w \in Admins : w \in Workers /\ w # Loop
BY AutomationAssumption DEF Workers, Loop

\* Slots are days and jobs.
Slotted == (0..Today) \X {"keepalive", "checkin"}
LEMMA SlotOf ==
    ASSUME TypeOK, NEW j \in {"keepalive", "checkin"}, NEW t \in Nat, t <= now
    PROVE  Slot(j, t) \in Slotted /\ Slot(j, t)[1] = Day(t) /\ Day(t) \in Nat /\ Day(t) <= Today
<1>1. Day(t) \in Nat /\ Today \in Nat /\ Day(t) <= Today
  BY TimesKept, DaysFollow DEF Today
<1> QED BY <1>1 DEF Slot, Slotted

\* A job is put in or taken out; the others go on.
LEMMA PutInv ==
    ASSUME TypeOK, JobsSound, NEW w \in Workers, NEW n \in JobRecords, Sound(n),
           job' = [job EXCEPT ![w] = n], UNCHANGED <<now, active, claimed>>
    PROVE  /\ job' \in [Workers -> JobRecords] /\ job'[w] = n
           /\ \A v \in Workers : v # w => job'[v] = job[v]
           /\ JobsSound'
<1>1. /\ job' \in [Workers -> JobRecords] /\ job'[w] = n
      /\ \A v \in Workers : v # w => job'[v] = job[v]
  BY DEF TypeOK, JobRecords
<1>2. ASSUME NEW v \in Workers PROVE Sound(job[v])'
  <2>1. PICK m : m = job'[v] /\ Sound(m)
    BY <1>1 DEF JobsSound
  <2>2. Sound(m)'
    BY <2>1, SoundStays
  <2> QED BY <2>1, <2>2 DEF Sound
<1> QED BY <1>1, <1>2 DEF JobsSound

\* The types, where the loop or an administrator moves.
LEMMA MovedTypes ==
    ASSUME TypeOK, BalancesTypeOK', job' \in [Workers -> JobRecords],
           UNCHANGED <<now, active, enabled, claimed, entry, late>>,
           polled' \in BOOLEAN, running' \in BOOLEAN, moves' \in 0..MaxMoves,
           loopTime' \in 0..now, fired' \subseteq Slotted, launched' \subseteq Slotted
    PROVE  TypeOK'
BY DEF TypeOK, JobRecords, Today, Day, Slotted

\* The check-in of a turn of the loop.
LEMMA ThenCheckinInv ==
    ASSUME IInv, BalancesTypeOK', NEW t \in Nat, t <= now, NEW served, NEW free \in BOOLEAN,
           ThenCheckin(served, t, free), served \subseteq Slotted,
           \A w \in Workers : w # Loop /\ free => ~job[w].guarded,
           ~free => running /\ job[Loop] = NoJob,
           \A s \in launched \cup served : s[1] >= Day(t) => s \in served,
           \A s \in served : s \in fired \/ s \notin launched,
           polled' => t = now
                      /\ (Due("keepalive", now) => Slot("keepalive", now) \in launched \cup served),
           UNCHANGED <<now, active, enabled, claimed, entry, late>>,
           polled' \in BOOLEAN, moves' \in 0..MaxMoves
    PROVE  Gone /\ Once
<1>1. TypeOK /\ JobsSound /\ Flag /\ Slots /\ EntriesTrue /\ Loop \in Workers
  BY WorkerLoop DEF IInv
<1>2. PICK s : s = Slot("checkin", t)
  OBVIOUS
<1>3. PICK due \in BOOLEAN : due = (Due("checkin", t) /\ s \notin served)
  <2>1. (Due("checkin", t) /\ s \notin served) \in BOOLEAN
    OBVIOUS
  <2> QED BY <2>1
<1>4. s \in Slotted /\ s[1] = Day(t) /\ Day(t) \in Nat
  BY <1>1, <1>2, SlotOf
<1>5. /\ loopTime' = t
      /\ fired' = IF due THEN served \cup {s} ELSE served
      /\ job' = [job EXCEPT ![Loop] =
                    IF due /\ free THEN Begun("checkin", TRUE, TRUE) ELSE NoJob]
      /\ running' = ((due /\ free) \/ ~free)
      /\ launched' = launched \cup fired'
  BY <1>2, <1>3 DEF ThenCheckin
<1>6. PICK n \in JobRecords :
         /\ Sound(n) /\ job' = [job EXCEPT ![Loop] = n]
         /\ due /\ free => n.guarded /\ n.claims /\ n # NoJob
         /\ ~(due /\ free) => n = NoJob
  <2>1. PICK n : n = IF due /\ free THEN Begun("checkin", TRUE, TRUE) ELSE NoJob
    OBVIOUS
  <2> QED BY <1>1, <1>5, <2>1, BegunSound, NoJobSound
<1>7. /\ job' \in [Workers -> JobRecords] /\ job'[Loop] = n
      /\ \A v \in Workers : v # Loop => job'[v] = job[v]
      /\ JobsSound'
  BY <1>1, <1>6, PutInv
<1>8. Flag'
  <2>1. CASE free
    <3>1. running' <=> due
      BY <1>5, <2>1
    <3>2. \A v \in Workers : v # Loop => ~job'[v].guarded
      BY <1>7, <2>1
    <3>3. job'[Loop].guarded <=> due
      BY <1>6, <1>7, <2>1, NoJobSound
    <3>4. job'[Loop] # NoJob => due
      BY <1>6, <1>7, <2>1
    <3> QED BY <1>1, <3>1, <3>2, <3>3, <3>4 DEF Flag
  <2>2. CASE ~free
    <3>1. running' = TRUE /\ running /\ n = NoJob /\ job[Loop] = NoJob
      BY <1>5, <1>6, <2>2
    <3>2. \A v \in Workers : job'[v] = job[v]
      BY <1>7, <3>1
    <3> QED BY <1>1, <3>1, <3>2 DEF Flag
  <2> QED BY <2>1, <2>2
<1>9. s \notin served => s \notin launched
  BY <1>4
<1>10. Slots'
  <2>1. \A x \in launched' : x[1] >= Day(t) => x \in fired'
    BY <1>5
  <2> QED BY <1>5, <2>1 DEF Slots, Day
<1>11. Looked'
  <2>1. SUFFICES ASSUME polled' PROVE Looked'
    BY DEF Looked
  <2>2. t = now /\ served \subseteq launched'
    BY <1>5, <2>1
  <2>3. Due("keepalive", now) => Slot("keepalive", now) \in launched'
    BY <1>5, <2>1, <2>2
  <2>4. Due("checkin", now) => Slot("checkin", now) \in launched'
    BY <1>2, <1>3, <1>5, <2>2
  <2> QED BY <1>5, <2>2, <2>3, <2>4 DEF Looked, Due, Slot, Day, Hour
<1>12. TypeOK'
  <2>1. fired' \subseteq Slotted /\ launched' \subseteq Slotted /\ running' \in BOOLEAN
    <3>1. launched \subseteq Slotted
      BY <1>1 DEF TypeOK, Slotted
    <3> QED BY <1>4, <1>5, <3>1
  <2>2. loopTime' \in 0..now
    BY <1>1, <1>5, TimesKept
  <2> QED BY <1>1, <1>7, <2>1, <2>2, MovedTypes
<1>13. Once
  BY <1>5, <1>9 DEF Once
<1>14. EntriesTrue'
  BY <1>1 DEF EntriesTrue
<1> QED BY <1>7, <1>8, <1>10, <1>11, <1>12, <1>13, <1>14 DEF Gone

\* A job ends; the loop goes on to the check-in, or sleeps again.
LEMMA EndInv ==
    ASSUME IInv, BalancesTypeOK', NEW w \in Workers, NEW broken \in BOOLEAN, End(w, broken),
           job[w].step # "none", UNCHANGED <<now, polled, facts, late>>,
           moves' \in 0..MaxMoves
    PROVE  Gone /\ Once
<1>1. TypeOK /\ JobsSound /\ Flag /\ Slots /\ Looked /\ EntriesTrue /\ job[w] # NoJob
      /\ Loop \in Workers
  BY NoJobSound, WorkerLoop DEF IInv
<1>2. CASE w = Loop /\ job[w].claims = FALSE /\ ThenCheckin(fired, loopTime, TRUE)
  <2>1. loopTime \in Nat /\ loopTime <= now
    BY <1>1, TimesKept
  <2>2. \A v \in Workers : v # Loop => ~job[v].guarded
    BY <1>1, <1>2 DEF Flag
  <2>3. \A s \in launched \cup fired : s[1] >= Day(loopTime) => s \in fired
    BY <1>1 DEF Slots
  <2>4. polled' => /\ loopTime = now
                   /\ Due("keepalive", now) => Slot("keepalive", now) \in launched \cup fired
    BY <1>1 DEF Looked
  <2>5. fired \subseteq Slotted /\ polled' \in BOOLEAN
    BY <1>1 DEF TypeOK, Slotted
  <2>6. UNCHANGED <<now, active, enabled, claimed, entry, late>>
    BY DEF facts
  <2> QED BY <1>2, <2>1, <2>2, <2>3, <2>4, <2>5, <2>6, ThenCheckinInv
<1>3. CASE /\ w # Loop \/ job[w].claims
           /\ running' = (running /\ ~job[w].guarded)
           /\ job' = [job EXCEPT ![w] = NoJob]
           /\ UNCHANGED <<fired, loopTime, launched>>
  <2>1. /\ job' \in [Workers -> JobRecords] /\ job'[w] = NoJob
        /\ \A v \in Workers : v # w => job'[v] = job[v]
        /\ JobsSound'
    BY <1>1, <1>3, NoJobSound, PutInv DEF facts
  <2>2. running' \in BOOLEAN /\ running \in BOOLEAN /\ job[w].guarded \in BOOLEAN
    BY <1>1, <1>3 DEF TypeOK
  <2>3. TypeOK'
    BY <1>1, <1>3, <2>1, <2>2, MovedTypes DEF TypeOK, Slotted, facts
  <2>4. Flag'
    <3>1. \A v \in Workers : job'[v].guarded <=> job[v].guarded /\ v # w
      BY <2>1, NoJobSound
    <3>2. running' <=> \E v \in Workers : job'[v].guarded
      BY <1>1, <1>3, <2>2, <3>1 DEF Flag
    <3>3. job'[Loop] # NoJob => job'[Loop].guarded
      BY <1>1, <2>1 DEF Flag
    <3> QED BY <1>1, <3>1, <3>2, <3>3 DEF Flag
  <2>5. Slots'
    BY <1>1, <1>3 DEF Slots, Day
  <2>6. Looked'
    <3>1. job'[Loop] = NoJob \/ job'[Loop].claims => job[Loop] = NoJob \/ job[Loop].claims
      BY <1>1, <1>3, <2>1
    <3> QED BY <1>1, <1>3, <3>1 DEF Looked, Due, Slot, Day, Hour, facts
  <2>7. EntriesTrue' /\ Once
    BY <1>1, <1>3 DEF EntriesTrue, Once, facts
  <2> QED BY <2>1, <2>3, <2>4, <2>5, <2>6, <2>7 DEF Gone
<1> QED BY <1>2, <1>3 DEF End

\* The loop looks at the clock.
LEMMA PollInv == ASSUME IInv, BalancesTypeOK', Poll PROVE Gone /\ Once
<1>1. /\ TypeOK /\ JobsSound /\ Flag /\ Slots /\ EntriesTrue /\ Loop \in Workers
      /\ now \in Nat /\ Today \in Nat /\ Day(loopTime) \in Nat /\ Day(loopTime) <= Today
  BY WorkerLoop, TimesKept DEF IInv
<1>2. PICK s, served, due :
         /\ s = Slot("keepalive", now)
         /\ due \in BOOLEAN /\ due = (Due("keepalive", now) /\ s \notin Served)
         /\ served = IF due THEN Served \cup {s} ELSE Served
  <2>1. PICK s : s = Slot("keepalive", now)
    OBVIOUS
  <2>2. PICK due : due = (Due("keepalive", now) /\ s \notin Served)
    OBVIOUS
  <2>3. due \in BOOLEAN
    BY <2>2
  <2> QED BY <2>1, <2>2, <2>3
<1>3. IF due /\ Free
      THEN /\ fired' = served /\ loopTime' = now
           /\ job' = [job EXCEPT ![Loop] = Begun("keepalive", TRUE, FALSE)]
           /\ running' = TRUE
           /\ launched' = launched \cup served
      ELSE ThenCheckin(served, now, Free)
  BY <1>2 DEF Poll
<1>4. /\ s \in Slotted /\ s[1] = Today
      /\ fired \subseteq Slotted /\ launched \subseteq Slotted
      /\ \A x \in Slotted : x[1] \in Nat /\ x[1] <= Today
  <2>1. s \in Slotted /\ s[1] = Today
    BY <1>1, <1>2, SlotOf DEF Today
  <2> QED BY <1>1, <2>1 DEF TypeOK, Slotted
<1>5. \A x \in launched : x[1] >= Today => x \in Served
  <2>1. ASSUME NEW x \in launched, x[1] >= Today PROVE x \in Served
    <3>1. x[1] \in Nat /\ x[1] <= Today
      BY <1>4
    <3>2. x[1] = Today /\ x[1] >= Day(loopTime)
      BY <1>1, <2>1, <3>1
    <3> QED BY <1>1, <3>2 DEF Slots, Served
  <2> QED BY <2>1
<1>6. Served \subseteq fired /\ Served \subseteq served /\ served \subseteq Slotted
      /\ \A x \in served : x \in Served \/ x = s
  BY <1>2, <1>4 DEF Served
<1>7. \A x \in launched \cup served : x[1] >= Today => x \in served
  BY <1>5, <1>6
<1>8. \A x \in served : x \in fired \/ x \notin launched
  BY <1>2, <1>4, <1>5, <1>6, <1>1
<1>9. Due("keepalive", now) => s \in launched \cup served
  BY <1>2, <1>6
<1>10. /\ polled' = TRUE /\ UNCHANGED <<now, active, enabled, claimed, entry, late>>
       /\ moves' \in 0..MaxMoves
  BY <1>1 DEF Poll, facts, TypeOK
<1>11. CASE due /\ Free
  <2>1. PICK n \in JobRecords :
           /\ n.guarded /\ ~n.claims /\ n # NoJob /\ Sound(n)
           /\ job' = [job EXCEPT ![Loop] = n]
    BY <1>1, <1>3, <1>11, BegunSound, NoJobSound
  <2>2. /\ job' \in [Workers -> JobRecords] /\ job'[Loop] = n
        /\ \A v \in Workers : v # Loop => job'[v] = job[v]
        /\ JobsSound'
    BY <1>1, <1>10, <2>1, PutInv
  <2>3. TypeOK'
    <3>1. now \in 0..now
      BY <1>1
    <3> QED BY <1>1, <1>3, <1>4, <1>6, <1>10, <1>11, <2>2, <3>1, MovedTypes
  <2>4. Flag'
    BY <1>1, <1>3, <1>11, <2>1, <2>2 DEF Flag, Free
  <2>5. Slots'
    BY <1>3, <1>7, <1>11 DEF Slots, Day, Today
  <2>6. Looked'
    <3>1. ~(job'[Loop] = NoJob \/ job'[Loop].claims)
      BY <2>1, <2>2
    <3> QED BY <1>2, <1>3, <1>9, <1>10, <1>11, <3>1 DEF Looked, Due, Slot, Day, Hour
  <2>7. EntriesTrue' /\ Once
    BY <1>1, <1>3, <1>8, <1>10, <1>11 DEF EntriesTrue, Once
  <2> QED BY <2>2, <2>3, <2>4, <2>5, <2>6, <2>7 DEF Gone
<1>12. CASE ~(due /\ Free)
  <2>1. ThenCheckin(served, now, Free)
    BY <1>3, <1>12
  <2>2. Free \in BOOLEAN /\ polled' \in BOOLEAN
    BY <1>10 DEF Free
  <2>3. \A w \in Workers : w # Loop /\ Free => ~job[w].guarded
    BY <1>1 DEF Flag, Free
  <2>4. ~Free => running /\ job[Loop] = NoJob
    BY DEF Free, Poll
  <2>5. \A x \in launched \cup served : x[1] >= Day(now) => x \in served
    BY <1>7 DEF Today
  <2>6. PICK free \in BOOLEAN : free = Free
    BY <2>2
  <2>7. now <= now
    BY <1>1
  <2>8. Due("keepalive", now) => Slot("keepalive", now) \in launched \cup served
    BY <1>2, <1>9
  <2> QED BY <1>1, <1>6, <1>8, <1>10, <2>1, <2>2, <2>3, <2>4, <2>5, <2>6, <2>7, <2>8,
             ThenCheckinInv
<1> QED BY <1>11, <1>12

\* A job is over, by itself or by an exception.
LEMMA OverInv ==
    ASSUME IInv, BalancesTypeOK', NEW w \in Workers, Renew(w) \/ Finish(w) \/ Break(w)
    PROVE  Gone /\ Once
<1>1. TypeOK /\ JobsSound /\ Sound(job[w]) /\ job[w].step # "none" /\ job[w] # NoJob
  BY NoJobSound DEF IInv, JobsSound, Renew, Finish, Break
<1>2. moves' \in 0..MaxMoves
  <2>1. Moved \/ moves' = moves
    BY DEF Renew, Finish, Break
  <2> QED BY <1>1, <2>1, MovesBound
<1>3. CASE End(w, TRUE) \/ End(w, FALSE)
  BY <1>1, <1>2, <1>3, EndInv DEF Renew, Finish, Break
<1>4. CASE /\ Renew(w) /\ job' = [job EXCEPT ![w].step = "turn"]
           /\ UNCHANGED <<fired, loopTime, running, launched>>
  <2>1. PICK old \in JobRecords : old = job[w]
    BY <1>1 DEF TypeOK, JobRecords
  <2>2. PICK n : n = [old EXCEPT !.step = "turn"]
    OBVIOUS
  <2>3. n \in JobRecords /\ n.step = "turn" /\ n.at = old.at
        /\ n.asked = old.asked /\ n.guarded = old.guarded /\ n.claims = old.claims
        /\ n.away = old.away
    BY <2>1, <2>2 DEF JobRecords, Steps
  <2>4. job' = [job EXCEPT ![w] = n]
    BY <1>1, <1>4, <2>1, <2>2 DEF TypeOK
  <2>5. Going /\ UNCHANGED <<active, claimed>>
    BY <1>4, NothingClaimed DEF Renew, facts
  <2>6. Sound(n)'
    <3>1. Sound(n)
      BY <1>1, <2>1, <2>3 DEF Sound, Awaiting
    <3> QED BY <2>5, <3>1, SoundStays
  <2>7. Once
    BY <1>4 DEF Once
  <2> QED BY <1>1, <2>1, <2>3, <2>4, <2>5, <2>6, <2>7, WorkInv
<1> QED BY <1>3, <1>4 DEF Renew, Finish, Break

\* An administrator's job; with the flag only if it is free.
LEMMA AdminInv ==
    ASSUME IInv, BalancesTypeOK', NEW w \in Admins,
           AdminKeepalive(w) \/ AdminCheckin(w) \/ AdminStatus(w)
    PROVE  Gone /\ Once
<1>1. TypeOK /\ JobsSound /\ Flag /\ Slots /\ Looked /\ EntriesTrue /\ w \in Workers /\ w # Loop
  BY WorkerLoop DEF IInv
<1>2. /\ job[w] = NoJob /\ ~job[w].guarded
      /\ UNCHANGED <<now, polled, fired, loopTime, facts, launched, late>>
  BY NoJobSound DEF AdminKeepalive, AdminCheckin, AdminStatus
<1>3. moves' \in 0..MaxMoves
  BY <1>1, MovesBound DEF AdminKeepalive, AdminCheckin, AdminStatus
<1>4. PICK n \in JobRecords :
         /\ Sound(n) /\ job' = [job EXCEPT ![w] = n] /\ n.guarded \in BOOLEAN
         /\ IF n.guarded THEN Free /\ running' = TRUE ELSE running' = running
  <2>1. CASE AdminKeepalive(w)
    BY <1>1, <2>1, BegunSound DEF AdminKeepalive
  <2>2. CASE AdminCheckin(w) \/ AdminStatus(w)
    BY <1>1, <2>2, BegunSound DEF AdminCheckin, AdminStatus
  <2> QED BY <2>1, <2>2
<1>5. /\ job' \in [Workers -> JobRecords] /\ job'[w] = n
      /\ \A v \in Workers : v # w => job'[v] = job[v]
      /\ JobsSound'
  BY <1>1, <1>2, <1>4, PutInv DEF facts
<1>6. TypeOK'
  BY <1>1, <1>2, <1>3, <1>4, <1>5, MovedTypes DEF TypeOK, Slotted, facts
<1>7. Flag'
  <2>1. CASE n.guarded
    <3>1. \A v \in Workers : ~job[v].guarded
      BY <1>1, <1>4, <2>1 DEF Flag, Free
    <3>2. \A v \in Workers : job'[v].guarded <=> v = w
      BY <1>5, <2>1, <3>1
    <3> QED BY <1>1, <1>4, <1>5, <2>1, <3>2 DEF Flag
  <2>2. CASE ~n.guarded
    <3>1. \A v \in Workers : job'[v].guarded <=> job[v].guarded
      BY <1>2, <1>5, <2>2
    <3> QED BY <1>1, <1>4, <1>5, <2>2, <3>1 DEF Flag
  <2> QED BY <1>4, <2>1, <2>2
<1>8. Slots' /\ Once
  BY <1>1, <1>2 DEF Slots, Day, Once
<1>9. Looked'
  BY <1>1, <1>2, <1>5, WorkerLoop DEF Looked, Due, Slot, Day, Hour, facts
<1>10. EntriesTrue'
  BY <1>1, <1>2 DEF EntriesTrue, facts
<1> QED BY <1>5, <1>6, <1>7, <1>8, <1>9, <1>10 DEF Gone

\* Memory is lost.
LEMMA RestartInv == ASSUME IInv, BalancesTypeOK', Restart PROVE Gone /\ Once
<1>1. TypeOK /\ EntriesTrue
  BY DEF IInv
<1>2. /\ job' = [w \in Workers |-> NoJob] /\ fired' = {} /\ launched' = {} /\ loopTime' = 0
      /\ running' = FALSE /\ polled' = FALSE /\ UNCHANGED <<now, facts, late>>
      /\ moves' \in 0..MaxMoves
  BY <1>1, MovesBound DEF Restart
<1>3. TypeOK'
  <2>1. job' \in [Workers -> JobRecords]
    BY <1>1, <1>2, NoJobSound
  <2>2. 0 \in 0..now
    BY <1>1, TimesKept
  <2> QED BY <1>1, <1>2, <2>1, <2>2, MovedTypes DEF facts
<1>4. JobsSound'
  <2>1. Sound(NoJob)'
    BY <1>2, NoJobSound, SoundStays DEF facts, Sound, Day, NoJob, Awaiting
  <2> QED BY <1>2, <2>1 DEF JobsSound, Sound
<1>5. Flag'
  BY <1>2, NoJobSound, WorkerLoop DEF Flag
<1> QED BY <1>1, <1>2, <1>3, <1>4, <1>5 DEF Slots, Looked, EntriesTrue, Once, Gone, facts

\* What leaves the jobs alone: time, the switches, the readings.
LEMMA QuietInv ==
    ASSUME IInv, BalancesTypeOK', UNCHANGED <<jobs, active, claimed, entry, launched, late>>,
           now' \in 0..Horizon, now <= now', polled' \in BOOLEAN,
           enabled' \subseteq {"keepalive", "checkin"}, moves' \in 0..MaxMoves,
           polled' => polled /\ now' = now /\ enabled' = enabled
    PROVE  Gone /\ Once
<1>1. /\ TypeOK /\ JobsSound /\ EntriesTrue /\ now \in Nat /\ now' \in Nat
      /\ UNCHANGED <<fired, loopTime, running, job>>
  BY TimesKept, AutomationAssumption DEF IInv, jobs
<1>2. PICK today, later \in Nat : today = Today /\ later = Today' /\ today <= later
  <2>1. Day(now') = Today'
    BY DEF Today, Day
  <2> QED BY <1>1, <2>1, DaysFollow DEF Today
<1>3. TypeOK'
  <2>1. 0..today \subseteq 0..later /\ Unknown..today \subseteq Unknown..later
        /\ 0..now \subseteq 0..now'
    BY <1>1, <1>2 DEF Unknown
  <2>2. fired' \subseteq (0..later) \X {"keepalive", "checkin"}
    BY <1>1, <1>2, <2>1 DEF TypeOK
  <2>3. launched' \subseteq (0..later) \X {"keepalive", "checkin"}
    BY <1>1, <1>2, <2>1 DEF TypeOK
  <2>4. claimed' \in [Accounts -> Unknown..later]
    BY <1>1, <1>2, <2>1 DEF TypeOK
  <2>5. entry' \in [Accounts -> [day : Unknown..later, claimed : BOOLEAN]]
    BY <1>1, <1>2, <2>1 DEF TypeOK
  <2>6. job' \in [Workers -> JobRecords'] /\ loopTime' \in 0..now'
    BY <1>1, <2>1 DEF TypeOK, JobRecords
  <2> QED BY <1>1, <1>2, <2>2, <2>3, <2>4, <2>5, <2>6 DEF TypeOK, JobRecords
<1>4. JobsSound'
  BY <1>1 DEF JobsSound, Sound, Day
<1>5. Kept
  BY <1>1 DEF Kept
<1>6. EntriesTrue' /\ Once
  BY <1>1 DEF EntriesTrue, Once
<1> QED BY <1>3, <1>4, <1>5, <1>6, KeptInv DEF Gone

\* An account that leaves is away for every job in progress.
LEMMA ToggleInv == ASSUME IInv, BalancesTypeOK', NEW a \in Accounts, Toggle(a) PROVE Gone /\ Once
<1>1. /\ TypeOK /\ JobsSound /\ EntriesTrue /\ job \in [Workers -> JobRecords]
  BY DEF IInv, TypeOK, JobRecords
<1>2. /\ active' = IF a \in active THEN active \ {a} ELSE active \cup {a}
      /\ UNCHANGED <<now, polled, fired, loopTime, running, enabled, claimed, entry, launched, late>>
      /\ moves' \in 0..MaxMoves
  BY <1>1, MovesBound DEF Toggle
<1>3. ASSUME NEW v \in Workers
      PROVE  \E m \in JobRecords :
                /\ m = IF job[v] # NoJob /\ a \notin active'
                       THEN [job[v] EXCEPT !.away = @ \cup {a}] ELSE job[v]
                /\ Sound(m)'
                /\ m.guarded = job[v].guarded /\ m.claims = job[v].claims
                /\ m = NoJob <=> job[v] = NoJob
  <2>1. PICK old \in JobRecords : old = job[v]
    BY <1>1
  <2>2. Sound(old)
    BY <1>1, <2>1 DEF JobsSound
  <2>3. CASE old # NoJob /\ a \notin active'
    <3>1. PICK m : m = [old EXCEPT !.away = old.away \cup {a}]
      OBVIOUS
    <3>2. m \in JobRecords /\ m.step = old.step /\ m.at = old.at /\ m.answer = old.answer
          /\ m.since = old.since /\ m.asked = old.asked /\ m.away = old.away \cup {a}
          /\ m.guarded = old.guarded /\ m.claims = old.claims
      BY <2>1, <3>1 DEF JobRecords
    <3>3. m # NoJob /\ m.step # "none"
      BY <2>2, <2>3, <3>2, NoJobSound DEF Sound
    <3>4. Accounts \ active' \subseteq m.away
      BY <1>2, <2>2, <2>3, <3>2 DEF Sound
    <3>5. Sound(m)'
      BY <1>2, <2>2, <2>3, <3>2, <3>3, <3>4 DEF Sound, Day
    <3> QED BY <2>1, <2>3, <3>1, <3>2, <3>3, <3>5
  <2>4. CASE ~(old # NoJob /\ a \notin active')
    <3>1. old # NoJob => Accounts \ active' \subseteq Accounts \ active
      BY <1>2, <2>4
    <3>2. Sound(old)'
      BY <1>2, <2>2, <3>1 DEF Sound, Day
    <3> QED BY <2>1, <2>4, <3>2
  <2> QED BY <2>3, <2>4
<1>4. job' = [v \in Workers |-> IF job[v] # NoJob /\ a \notin active'
                                THEN [job[v] EXCEPT !.away = @ \cup {a}] ELSE job[v]]
  BY DEF Toggle
<1>5. ASSUME NEW v \in Workers
      PROVE  /\ job'[v] \in JobRecords /\ Sound(job[v])'
             /\ job'[v].guarded = job[v].guarded /\ job'[v].claims = job[v].claims
             /\ job'[v] = NoJob <=> job[v] = NoJob
  <2>1. PICK m \in JobRecords :
                /\ m = IF job[v] # NoJob /\ a \notin active'
                       THEN [job[v] EXCEPT !.away = @ \cup {a}] ELSE job[v]
                /\ Sound(m)'
                /\ m.guarded = job[v].guarded /\ m.claims = job[v].claims
                /\ m = NoJob <=> job[v] = NoJob
    BY <1>3
  <2>2. job'[v] = m
    BY <1>4, <2>1
  <2>3. Sound(job[v])'
    BY <2>1, <2>2 DEF Sound
  <2> QED BY <2>1, <2>2, <2>3
<1>6. job' \in [Workers -> JobRecords]
  BY <1>4, <1>5
<1>7. TypeOK'
  BY <1>1, <1>2, <1>6 DEF TypeOK, JobRecords, Today, Day
<1>8. Kept
  BY <1>2, <1>5 DEF Kept
<1>9. EntriesTrue' /\ Once /\ JobsSound'
  BY <1>1, <1>2, <1>5 DEF EntriesTrue, Once, JobsSound
<1> QED BY <1>7, <1>8, <1>9, KeptInv DEF Gone

\* Every step.
LEMMA NextInv == IInv /\ [Next]_vars => IInv' /\ Fields /\ Once
<1> SUFFICES ASSUME IInv, [Next]_vars PROVE IInv' /\ Fields /\ Once
  OBVIOUS
<1>1. QuotaInv' /\ Fields /\ BalancesTypeOK' /\ TypeOK
  BY QuotaStep DEF QuotaInv, IInv
<1>2. SUFFICES Gone /\ Once
  BY <1>1 DEF Gone, IInv, QuotaInv
<1>3. ASSUME UNCHANGED <<jobs, active, claimed, entry, launched, late>>,
             UNCHANGED <<now, polled, enabled>>, Moved \/ moves' = moves
      PROVE  Gone /\ Once
  <2>1. now \in Nat /\ now <= now
    BY <1>1, TimesKept
  <2>2. moves' \in 0..MaxMoves
    BY <1>1, <1>3, MovesBound
  <2> QED BY <1>1, <1>3, <2>1, <2>2, QuietInv DEF TypeOK
<1>4. CASE UNCHANGED vars
  BY <1>3, <1>4 DEF vars, facts, jobs
<1>5. CASE Poll
  BY <1>1, <1>5, PollInv
<1>6. CASE TimePasses
  <2>1. now \in 0..Horizon /\ Horizon \in Nat
    BY <1>1, AutomationAssumption DEF TypeOK
  <2>2. now' \in 0..Horizon /\ now <= now' /\ ~polled' /\ polled' \in BOOLEAN
    <3>1. now < Horizon /\ now' = now + 1 /\ polled' = FALSE
      BY <1>6 DEF TimePasses
    <3>2. now' \in 0..Horizon /\ now <= now'
      BY <2>1, <3>1
    <3> QED BY <3>1, <3>2
  <2>3. /\ UNCHANGED <<jobs, active, claimed, entry, launched, late>>
        /\ enabled' = enabled /\ moves' = moves
    BY <1>6 DEF TimePasses, facts
  <2>4. enabled' \subseteq {"keepalive", "checkin"} /\ moves' \in 0..MaxMoves
    BY <1>1, <2>3 DEF TypeOK
  <2> QED BY <1>1, <2>2, <2>3, <2>4, QuietInv
<1>7. CASE Restart
  BY <1>1, <1>7, RestartInv
<1>8. ASSUME NEW w \in Workers, Work(w) \/ Break(w) PROVE Gone /\ Once
  <2>1. CASE Turn(w)
    BY <1>1, <2>1, TurnInv DEF Turn, Once
  <2>2. CASE ServeStatus(w) \/ ServeClaim(w)
    BY <1>1, <2>2, ServeInv DEF ServeStatus, ServeClaim, Once
  <2>3. CASE ReceiveStatus(w) \/ ReceiveClaim(w)
    BY <1>1, <2>3, ReceiveInv DEF ReceiveStatus, ReceiveClaim, Once
  <2>4. CASE MeasureResources(w)
    BY <1>1, <2>4, MeasureInv DEF MeasureResources, Once
  <2>5. CASE Renew(w) \/ Finish(w) \/ Break(w)
    BY <1>1, <2>5, OverInv
  <2> QED BY <1>8, <2>1, <2>2, <2>3, <2>4, <2>5 DEF Work
<1>9. ASSUME NEW w \in Admins, AdminKeepalive(w) \/ AdminCheckin(w) \/ AdminStatus(w)
      PROVE  Gone /\ Once
  BY <1>1, <1>9, AdminInv
<1>10. ASSUME NEW j \in {"keepalive", "checkin"}, Switch(j) PROVE Gone /\ Once
  <2>1. /\ UNCHANGED <<now, jobs, active, claimed, entry, launched, late>> /\ polled' = FALSE
        /\ enabled' = IF j \in enabled THEN enabled \ {j} ELSE enabled \cup {j}
        /\ Moved
    BY <1>10 DEF Switch
  <2>2. now' \in 0..Horizon /\ now <= now' /\ enabled' \subseteq {"keepalive", "checkin"}
    BY <1>1, <2>1, TimesKept DEF TypeOK
  <2>3. moves' \in 0..MaxMoves
    BY <1>1, <2>1, MovesBound
  <2> QED BY <1>1, <2>1, <2>2, <2>3, QuietInv
<1>11. ASSUME NEW a \in Accounts, Toggle(a) PROVE Gone /\ Once
  BY <1>1, <1>11, ToggleInv
<1>12. CASE (Environment \/ Readings) /\ UNCHANGED <<now, polled, jobs, facts, launched, late>>
  <2>1. Moved \/ moves' = moves
    BY <1>12 DEF Environment, Readings
  <2> QED BY <1>3, <1>12, <2>1 DEF facts
<1> QED BY <1>4, <1>5, <1>6, <1>7, <1>8, <1>9, <1>10, <1>11, <1>12 DEF Next

\* It holds at the start.
LEMMA InitInv == Init => IInv
<1> SUFFICES ASSUME Init PROVE IInv
  OBVIOUS
<1>1. QuotaInv
  <2>1. MaxBalance \in Nat
    BY BalanceAssumption
  <2>2. Unknown \in Unknown..MaxBalance /\ Unknown # 0 /\ Unknown <= Unknown
    BY <2>1 DEF Unknown
  <2>3. cache = [a \in Accounts |-> [remaining |-> Unknown, deadline |-> FALSE,
                                     peak |-> Unknown]]
        /\ top = [a \in Accounts |-> Unknown] /\ zeroes = {a \in Accounts : balance[a] = 0}
        /\ balance \in [Accounts -> 0..MaxBalance] /\ reading = [r \in Readers |-> NoReading]
    BY DEF Init, BalancesInit
  <2>4. BalancesTypeOK
    BY <2>2, <2>3 DEF BalancesTypeOK, NoReading
  <2>5. ZeroesNoted /\ Peaks
    BY <2>2, <2>3 DEF ZeroesNoted, Peaks
  <2> QED BY <2>3, <2>4, <2>5 DEF QuotaInv, ReadingsTrue
<1>2. now = 0 /\ now \in Nat /\ Today \in Nat /\ 0 \in 0..0 /\ Horizon \in Nat /\ MaxMoves \in Nat
  <2>1. now = 0 /\ now \in Nat /\ 0 \in 0..0 /\ Horizon \in Nat /\ MaxMoves \in Nat
    BY AutomationAssumption DEF Init
  <2> QED BY <2>1, DaysFollow DEF Today
<1>3. TypeOK
  <2>1. job \in [Workers -> JobRecords]
    <3>1. 1 \in 1..(Len(Order) + 1)
      BY Orders
    <3>2. NoJob \in JobRecords
      BY <1>2, <3>1 DEF NoJob, JobRecords, Steps
    <3> QED BY <3>2 DEF Init
  <2>2. Unknown \in Unknown..Today
    BY <1>2 DEF Unknown
  <2>3. now \in 0..Horizon /\ loopTime \in 0..now /\ moves \in 0..MaxMoves
    BY <1>2 DEF Init
  <2> QED BY <1>1, <2>1, <2>2, <2>3 DEF Init, TypeOK, JobRecords, QuotaInv
<1>4. JobsSound
  BY NoJobSound DEF Init, JobsSound
<1>5. Flag
  BY NoJobSound, WorkerLoop DEF Init, Flag
<1>6. EntriesTrue
  BY DEF Init, EntriesTrue
<1> QED BY <1>1, <1>3, <1>4, <1>5, <1>6 DEF IInv, QuotaInv, Init, Slots, Looked

\* The inductive invariant holds throughout.
THEOREM Invariant == Spec => []IInv
<1>1. IInv /\ [Next]_vars => IInv'
  BY NextInv
<1> QED BY InitInv, <1>1, PTL DEF Spec

----------------------------------------------------------------------------
(* What the runs check                                                     *)

\* A zero in the cache was a balance of zero once, the peak kept is the highest
\* balance read, and a balance and a deadline that different writers merge into
\* one row survive each other (upsert_account_resource_cache, quota_exhausted).
THEOREM BalancesAreEvidence == Spec => CacheIsMeasured
<1>1. IInv => GateIsEvidence /\ PeakKept
  <2>1. SUFFICES ASSUME IInv, NEW a \in Accounts, Exhausted(a) PROVE a \in zeroes
    BY DEF GateIsEvidence, PeakKept, IInv, Peaks
  <2>2. cache[a].remaining = 0
    <3>1. cache[a].remaining \in Unknown..MaxBalance /\ MaxBalance \in Nat
      BY <2>1, BalanceAssumption DEF IInv, TypeOK, BalancesTypeOK
    <3> QED BY <2>1, <3>1 DEF Exhausted, Unknown
  <2> QED BY <2>1, <2>2 DEF IInv, ZeroesNoted
<1>2. IInv /\ [Next]_vars => [Fields]_quota
  BY NextInv
<1>3. Spec => FieldsSurvive
  BY Invariant, <1>2, PTL DEF Spec, FieldsSurvive, Fields
<1>4. Spec => [](GateIsEvidence /\ PeakKept)
  BY Invariant, <1>1, PTL
<1> QED BY <1>3, <1>4, PTL DEF CacheIsMeasured

\* The flag belongs to exactly one job in progress and to nobody else; a daily
\* job starts once a day while its hour stands, and none that is due is passed
\* over by a loop that has looked at the clock (keepalive_loop, _begin_job,
\* automation_due).
THEOREM JobsRunOnceADay == Spec => DailyJobs
<1>1. IInv => OneJob
  <2>1. SUFFICES ASSUME IInv
                 PROVE  Cardinality({w \in Workers : job[w].guarded}) <= 1
    BY DEF OneJob, IInv, Flag
  <2>2. CASE \E w \in Workers : job[w].guarded
    <3>1. PICK w \in Workers : job[w].guarded
      BY <2>2
    <3>2. {v \in Workers : job[v].guarded} = {w}
      BY <2>1, <3>1 DEF IInv, Flag
    <3>3. Cardinality({w}) = 1
      BY FS_Singleton
    <3>4. Cardinality({v \in Workers : job[v].guarded}) = 1
      BY <3>2, <3>3
    <3> QED BY <3>4
  <2>3. CASE ~\E w \in Workers : job[w].guarded
    <3>1. {v \in Workers : job[v].guarded} = {}
      BY <2>3
    <3> QED BY <3>1, FS_EmptySet
  <2> QED BY <2>2, <2>3
<1>2. IInv => NoDayMissed
  <2>1. SUFFICES ASSUME IInv, polled, job[Loop] = NoJob, NEW j \in {"keepalive", "checkin"},
                        Due(j, now)
                 PROVE  <<Day(now), j>> \in launched
    BY DEF NoDayMissed
  <2> QED BY <2>1 DEF IInv, Looked, Slot
<1>3. IInv /\ [Next]_vars => [Once]_<<fired, launched>>
  BY NextInv
<1>4. Spec => OnceADay
  BY Invariant, <1>3, PTL DEF Spec, OnceADay, Once
<1>5. Spec => [](OneJob /\ NoDayMissed)
  BY Invariant, <1>1, <1>2, PTL
<1> QED BY <1>4, <1>5, PTL DEF DailyJobs

\* A check-in that comes to its end has asked for every account that was active
\* all the time, with or without balance, whatever the others answered
\* (claim_checkin_all, checkin_status_all).
THEOREM CheckinSkipsNobody == Spec => []EverybodyAsked
<1>1. IInv => EverybodyAsked
  <2>1. SUFFICES ASSUME IInv, NEW w \in Workers, job[w].step = "turn",
                        job[w].at > Len(Order), NEW a \in Accounts \ job[w].away
                 PROVE  a \in job[w].asked
    BY DEF EverybodyAsked
  <2>2. PICK i \in DOMAIN Order : Order[i] = a
    BY Orders
  <2>3. i < job[w].at
    <3>1. i \in 1..Len(Order) /\ Len(Order) \in Nat /\ job[w].at \in 1..(Len(Order) + 1)
      BY <2>1, Orders DEF IInv, TypeOK
    <3> QED BY <2>1, <3>1
  <2>4. job[w] # NoJob
    BY <2>1, NoJobSound
  <2> QED BY <2>1, <2>2, <2>3, <2>4 DEF IInv, JobsSound, Sound
<1> QED BY Invariant, <1>1, PTL

\* A day's credits are shown as claimed only if the vendor has booked them on
\* that day, unless an answer came in after midnight
\* (upsert_account_checkin_cache, get_account_checkin_cache).
THEOREM PageShowsWhatIsBooked == Spec => []ShownIsClaimed
<1>1. IInv => ShownIsClaimed
  <2>1. SUFFICES ASSUME IInv, ~late, NEW a \in Accounts, Shown(a)
                 PROVE  claimed[a] = Today
    BY DEF ShownIsClaimed
  <2>2. claimed[a] \in Unknown..Today /\ Today \in Nat
    BY <2>1, TimesKept DEF IInv, TypeOK
  <2>3. Today <= claimed[a]
    BY <2>1 DEF IInv, EntriesTrue, Shown
  <2> QED BY <2>2, <2>3 DEF Unknown
<1> QED BY Invariant, <1>1, PTL

----------------------------------------------------------------------------
(***************************************************************************)
(* Request: whom a request may ask, and what it sends.                     *)
(***************************************************************************)

\* A proper part of a finite set is smaller.
LEMMA Smaller ==
    ASSUME NEW S, IsFiniteSet(S), NEW T, T \subseteq S, T # S
    PROVE  /\ IsFiniteSet(T) /\ Cardinality(T) \in Nat /\ Cardinality(S) \in Nat
           /\ Cardinality(T) < Cardinality(S)
<1>1. IsFiniteSet(T) /\ Cardinality(T) <= Cardinality(S) /\ Cardinality(T) # Cardinality(S)
  BY FS_Subset
<1>2. Cardinality(T) \in Nat /\ Cardinality(S) \in Nat
  BY <1>1, FS_CardinalityType
<1> QED BY <1>1, <1>2

\* In a finite set in strict order, an element's place is the number of
\* elements before it, and every place is taken.
LEMMA Places ==
    ASSUME NEW S, IsFiniteSet(S), NEW R,
           \A a \in S : <<a, a>> \notin R,
           \A a, b, c \in S : <<a, b>> \in R /\ <<b, c>> \in R => <<a, c>> \in R,
           \A a, b \in S : a # b => <<a, b>> \in R \/ <<b, a>> \in R
    PROVE  /\ Cardinality(S) \in Nat
           /\ \A i \in 1..Cardinality(S) :
                 \E a \in S : Cardinality({b \in S : <<b, a>> \in R}) = i - 1
<1> DEFINE n == Cardinality(S)
           Before(a) == {b \in S : <<b, a>> \in R}
<1>1. n \in Nat
  BY FS_CardinalityType
<1>2. ASSUME NEW a \in S
      PROVE  /\ IsFiniteSet(Before(a)) /\ Cardinality(Before(a)) \in Nat
             /\ Cardinality(Before(a)) < n
  <2>1. Before(a) \subseteq S /\ Before(a) # S
    OBVIOUS
  <2> HIDE DEF Before
  <2> QED BY <2>1, Smaller
<1>3. ASSUME NEW a \in S, NEW b \in S, <<a, b>> \in R
      PROVE  Cardinality(Before(a)) < Cardinality(Before(b))
  <2>1. Before(a) \subseteq Before(b) /\ Before(a) # Before(b)
    BY <1>3
  <2>2. IsFiniteSet(Before(b))
    BY <1>2
  <2> HIDE DEF Before
  <2> QED BY <2>1, <2>2, Smaller
<1>4. PICK place : place = [a \in S |-> Cardinality(Before(a)) + 1]
  OBVIOUS
<1>5. \A a \in S : place[a] = Cardinality(Before(a)) + 1
  BY <1>4
<1> HIDE DEF Before
<1>6. place \in [S -> 1..n]
  <2>1. \A a \in S : Cardinality(Before(a)) + 1 \in 1..n
    BY <1>1, <1>2
  <2> QED BY <1>4, <2>1
<1>7. \A a, b \in S : place[a] = place[b] => a = b
  <2> SUFFICES ASSUME NEW a \in S, NEW b \in S, a # b PROVE place[a] # place[b]
    OBVIOUS
  <2>1. Cardinality(Before(a)) \in Nat /\ Cardinality(Before(b)) \in Nat
    BY <1>2
  <2>2. <<a, b>> \in R \/ <<b, a>> \in R
    OBVIOUS
  <2>3. Cardinality(Before(a)) < Cardinality(Before(b))
        \/ Cardinality(Before(b)) < Cardinality(Before(a))
    BY <1>3, <2>2
  <2> QED BY <1>5, <2>1, <2>3
<1>8. place \in Injection(S, 1..n)
  BY <1>6, <1>7 DEF Injection, IsInjective
<1>9. IsFiniteSet(1..n) /\ Cardinality(1..n) = n
  BY <1>1, FS_Interval
<1>10. place \in Surjection(S, 1..n)
  BY <1>8, <1>9, FS_Injection
<1>11. \A i \in 1..n : \E a \in S : place[a] = i
  BY <1>10 DEF Surjection
<1>12. ASSUME NEW i \in 1..n PROVE \E a \in S : Cardinality(Before(a)) = i - 1
  <2>1. PICK a \in S : place[a] = i
    BY <1>11
  <2>2. Cardinality(Before(a)) + 1 = i /\ Cardinality(Before(a)) \in Nat
    BY <1>2, <1>5, <2>1
  <2> QED BY <1>1, <2>2
<1> QED BY <1>1, <1>12 DEF Before

----------------------------------------------------------------------------
(* The order of the queue and the pick                                     *)

\* What the settings and the accounts are.
Settled ==
    /\ order \in SetToSeqs(Enabled)
    /\ row \in [Roster -> AccountRows] /\ cooling \subseteq Roster

InService == {a \in Roster : ChannelOf[a] \in Enabled}

\* Every enabled channel has a rank of its own.
LEMMA Ranks ==
    ASSUME order \in SetToSeqs(Enabled), NEW c \in Enabled
    PROVE  Rank(c) \in Nat /\ order[Rank(c)] = c
<1> DEFINE n == Cardinality(Enabled)
<1>1. IsFiniteSet(Enabled) /\ n \in Nat
  BY AdmissionAssumption, FS_CardinalityType
<1>2. order \in [1..n -> Enabled] /\ \A i, j \in 1..n : i # j => order[i] # order[j]
  BY DEF SetToSeqs
<1>3. order \in Injection(1..n, Enabled)
  BY <1>2 DEF Injection, IsInjective
<1>4. IsFiniteSet(1..n) /\ Cardinality(1..n) = n
  BY <1>1, FS_Interval
<1>5. order \in Surjection(1..n, Enabled)
  BY <1>1, <1>3, <1>4, FS_Injection
<1>6. DOMAIN order = 1..n /\ \E i \in 1..n : order[i] = c
  BY <1>2, <1>5 DEF Surjection
<1>7. Rank(c) \in 1..n /\ order[Rank(c)] = c
  BY <1>6 DEF Rank
<1> QED BY <1>1, <1>7

\* The order of the queue is strict, and it orders any two accounts.
LEMMA QueueOrder ==
    ASSUME Settled
    PROVE  /\ \A a \in InService : ~QueueBefore(a, a)
           /\ \A a, b, c \in InService :
                 QueueBefore(a, b) /\ QueueBefore(b, c) => QueueBefore(a, c)
           /\ \A a, b \in InService : a # b => QueueBefore(a, b) \/ QueueBefore(b, a)
<1>1. \A a \in InService : a \in Nat /\ row[a].priority \in Int /\ row[a].weight \in Nat
                        /\ Rank(ChannelOf[a]) \in Nat
  BY Ranks, AdmissionAssumption DEF Settled, InService, AccountRows
<1>2. \A a, b \in InService : Rank(ChannelOf[a]) = Rank(ChannelOf[b]) => ChannelOf[a] = ChannelOf[b]
  BY Ranks DEF Settled, InService
<1>3. PICK p, w, r : /\ p = [a \in InService |-> row[a].priority]
                     /\ w = [a \in InService |-> row[a].weight]
                     /\ r = [a \in InService |-> Rank(ChannelOf[a])]
  OBVIOUS
<1>4. \A a, b \in InService :
         QueueBefore(a, b) <=>
            \/ p[a] > p[b]
            \/ p[a] = p[b] /\ r[a] < r[b]
            \/ p[a] = p[b] /\ r[a] = r[b] /\ w[a] > w[b]
            \/ p[a] = p[b] /\ r[a] = r[b] /\ w[a] = w[b] /\ Preferred(a) /\ ~Preferred(b)
            \/ p[a] = p[b] /\ r[a] = r[b] /\ w[a] = w[b] /\ (Preferred(a) <=> Preferred(b)) /\ a < b
  <2> SUFFICES ASSUME NEW a \in InService, NEW b \in InService
               PROVE  QueueBefore(a, b) <=>
            \/ p[a] > p[b]
            \/ p[a] = p[b] /\ r[a] < r[b]
            \/ p[a] = p[b] /\ r[a] = r[b] /\ w[a] > w[b]
            \/ p[a] = p[b] /\ r[a] = r[b] /\ w[a] = w[b] /\ Preferred(a) /\ ~Preferred(b)
            \/ p[a] = p[b] /\ r[a] = r[b] /\ w[a] = w[b] /\ (Preferred(a) <=> Preferred(b)) /\ a < b
    OBVIOUS
  <2>1. /\ p[a] = row[a].priority /\ p[b] = row[b].priority
        /\ w[a] = row[a].weight /\ w[b] = row[b].weight
        /\ r[a] = Rank(ChannelOf[a]) /\ r[b] = Rank(ChannelOf[b])
    BY <1>3
  <2>2. /\ p[a] \in Int /\ p[b] \in Int /\ w[a] \in Nat /\ w[b] \in Nat /\ r[a] \in Nat /\ r[b] \in Nat
        /\ a \in Nat /\ b \in Nat /\ (ChannelOf[a] = ChannelOf[b] <=> r[a] = r[b])
    BY <1>1, <1>2, <2>1
  <2>3. Preferred(a) \in BOOLEAN /\ Preferred(b) \in BOOLEAN
    BY DEF Preferred
  <2> QED BY <2>1, <2>2, <2>3 DEF QueueBefore
<1>5. \A a \in InService : a \in Nat /\ p[a] \in Int /\ w[a] \in Nat /\ r[a] \in Nat
  BY <1>1, <1>3
<1>6. \A a \in InService : ~QueueBefore(a, a)
  BY <1>4, <1>5
<1>7. ASSUME NEW a \in InService, NEW b \in InService, NEW c \in InService,
             QueueBefore(a, b), QueueBefore(b, c)
      PROVE  QueueBefore(a, c)
  BY <1>4, <1>5, <1>7
<1>8. ASSUME NEW a \in InService, NEW b \in InService, a # b
      PROVE  QueueBefore(a, b) \/ QueueBefore(b, a)
  BY <1>4, <1>5, <1>8
<1> QED BY <1>6, <1>7, <1>8

\* Who waits: the accounts of the name's channels that are in service, and not
\* cooling down.
LEMMA WhoWaits ==
    ASSUME NEW k, NEW n
    PROVE  \A a : a \in Waiting(k, n) <=>
              /\ a \in Roster \ cooling /\ ChannelOf[a] \in QueueChannels(k, n)
              /\ row[a].status = "active"
              /\ ChannelOf[a] \in ExemptChannels(n.base) \/ ~row[a].zero
<1>1. ASSUME NEW a
      PROVE  a \in UNION {Pool(c, ExemptChannels(n.base)) : c \in QueueChannels(k, n)} <=>
                \E c \in QueueChannels(k, n) : a \in Pool(c, ExemptChannels(n.base))
  OBVIOUS
<1>2. ASSUME NEW a, NEW c
      PROVE  a \in Pool(c, ExemptChannels(n.base)) <=>
                /\ a \in Roster /\ ChannelOf[a] = c /\ row[a].status = "active"
                /\ c \in ExemptChannels(n.base) \/ ~row[a].zero
  BY DEF Pool, Own
<1> QED BY <1>1, <1>2 DEF Waiting

\* The queue holds them all, and the first is the one nobody is before.
LEMMA QueueHolds ==
    ASSUME Settled, NEW k, NEW n
    PROVE  /\ AccountQueue(k, n) \in Seq(Roster)
           /\ \A i \in 1..Len(AccountQueue(k, n)) : AccountQueue(k, n)[i] \in Waiting(k, n)
           /\ AccountQueue(k, n) # <<>> =>
                 /\ AccountQueue(k, n)[1] \in Waiting(k, n)
                 /\ \A b \in Waiting(k, n) : ~QueueBefore(b, AccountQueue(k, n)[1])
<1>1. PICK S : S = Waiting(k, n)
  OBVIOUS
<1>2. S \subseteq InService /\ S \subseteq Roster
  BY <1>1, WhoWaits DEF InService, QueueChannels
<1>3. IsFiniteSet(S)
  BY <1>2, AdmissionAssumption, FS_Subset
<1>4. PICK R : R = {x \in S \X S : QueueBefore(x[1], x[2])}
  OBVIOUS
<1>5. \A a, b \in S : <<a, b>> \in R <=> QueueBefore(a, b)
  BY <1>4
<1>6. /\ \A a \in S : <<a, a>> \notin R
      /\ \A a, b, c \in S : <<a, b>> \in R /\ <<b, c>> \in R => <<a, c>> \in R
      /\ \A a, b \in S : a # b => <<a, b>> \in R \/ <<b, a>> \in R
  BY <1>2, <1>5, QueueOrder
<1>7. /\ Cardinality(S) \in Nat
      /\ \A i \in 1..Cardinality(S) :
            \E a \in S : Cardinality({b \in S : <<b, a>> \in R}) = i - 1
  BY <1>3, <1>6, Places
<1>8. \A a \in S : {b \in S : <<b, a>> \in R} = {b \in S : QueueBefore(b, a)}
  BY <1>5
<1>9. \A i \in 1..Cardinality(S) : \E a \in S : Place(S, a) = i - 1
  BY <1>7, <1>8 DEF Place
<1>10. PICK Q : Q = AccountQueue(k, n)
  OBVIOUS
<1>11. Q = [i \in 1..Cardinality(S) |-> CHOOSE a \in S : Place(S, a) = i - 1]
  BY <1>1, <1>10 DEF AccountQueue
<1>12. \A i \in 1..Cardinality(S) : Q[i] \in S /\ Place(S, Q[i]) = i - 1
  BY <1>9, <1>11
<1>13. Q \in [1..Cardinality(S) -> S]
  BY <1>11, <1>12
<1>14. Q \in Seq(S) /\ Q \in Seq(Roster) /\ Len(Q) = Cardinality(S)
  BY <1>2, <1>7, <1>13
<1>15. ASSUME Q # <<>> PROVE Q[1] \in S /\ \A b \in S : ~QueueBefore(b, Q[1])
  <2>1. 1 \in 1..Cardinality(S)
    BY <1>7, <1>14, <1>15
  <2>2. Q[1] \in S /\ Place(S, Q[1]) = 0
    BY <1>12, <2>1
  <2>3. PICK T : T = {b \in S : QueueBefore(b, Q[1])}
    OBVIOUS
  <2>4. Cardinality(T) = 0
    BY <2>2, <2>3 DEF Place
  <2>5. IsFiniteSet(T)
    BY <1>3, <2>3, FS_Subset
  <2>6. T = {}
    BY <2>4, <2>5, FS_EmptySet
  <2> QED BY <2>2, <2>3, <2>6
<1> QED BY <1>1, <1>10, <1>12, <1>14, <1>15

\* A channel picks one of those in service that neither cool down nor are excluded.
LEMMA PickServes ==
    ASSUME Settled, NEW c, NEW ex, NEW out, Pick(c, ex, out) # None
    PROVE  Pick(c, ex, out) \in Pool(c, ex) \ (cooling \cup out)
<1> DEFINE S == Pool(c, ex) \ (cooling \cup out)
           best == {a \in S : \A b \in S : row[a].priority >= row[b].priority}
           kept == {a \in best : Preferred(a) /\ \A b \in best : row[a].weight >= row[b].weight}
           first == {a \in best : \A b \in best \ {a} : PickOrder(a, b)}
<1>1. S # {} /\ Pick(c, ex, out) = CHOOSE a \in (IF kept # {} THEN kept ELSE first) : TRUE
  BY DEF Pick
<1>2. S \subseteq Roster
  BY DEF Pool, Own
<1>3. IsFiniteSet(S)
  BY <1>2, AdmissionAssumption, FS_Subset
<1>4. \A a \in S : a \in Nat /\ row[a].priority \in Int /\ row[a].weight \in Nat
  BY <1>2, AdmissionAssumption DEF Settled, AccountRows
<1>5. PICK R : R = {x \in S \X S : \/ row[x[1]].priority > row[x[2]].priority
                                   \/ /\ row[x[1]].priority = row[x[2]].priority
                                      /\ x[1] # x[2] /\ PickOrder(x[1], x[2])}
  OBVIOUS
<1> HIDE DEF S
<1>6. \A a, b \in S : <<a, b>> \in R <=>
         \/ row[a].priority > row[b].priority
         \/ row[a].priority = row[b].priority /\ row[a].weight > row[b].weight
         \/ row[a].priority = row[b].priority /\ row[a].weight = row[b].weight /\ a < b
  <2> SUFFICES ASSUME NEW a \in S, NEW b \in S
               PROVE <<a, b>> \in R <=>
         \/ row[a].priority > row[b].priority
         \/ row[a].priority = row[b].priority /\ row[a].weight > row[b].weight
         \/ row[a].priority = row[b].priority /\ row[a].weight = row[b].weight /\ a < b
    OBVIOUS
  <2>1. <<a, b>> \in R <=> \/ row[a].priority > row[b].priority
                           \/ row[a].priority = row[b].priority /\ a # b /\ PickOrder(a, b)
    BY <1>5
  <2> QED BY <1>4, <2>1 DEF PickOrder
<1>7. /\ \A a \in S : <<a, a>> \notin R
      /\ \A a, b, d \in S : <<a, b>> \in R /\ <<b, d>> \in R => <<a, d>> \in R
      /\ \A a, b \in S : a # b => <<a, b>> \in R \/ <<b, a>> \in R
  <2>1. ASSUME NEW a \in S PROVE <<a, a>> \notin R
    BY <1>4, <1>6
  <2>2. ASSUME NEW a \in S, NEW b \in S, NEW d \in S, <<a, b>> \in R, <<b, d>> \in R
        PROVE  <<a, d>> \in R
    BY <1>4, <1>6, <2>2
  <2>3. ASSUME NEW a \in S, NEW b \in S, a # b PROVE <<a, b>> \in R \/ <<b, a>> \in R
    BY <1>4, <1>6, <2>3
  <2> QED BY <2>1, <2>2, <2>3
<1>8. /\ Cardinality(S) \in Nat
      /\ \A i \in 1..Cardinality(S) :
            \E a \in S : Cardinality({b \in S : <<b, a>> \in R}) = i - 1
  BY <1>3, <1>7, Places
<1>9. Cardinality(S) # 0
  BY <1>1, <1>3, FS_EmptySet
<1>10. PICK m \in S : Cardinality({b \in S : <<b, m>> \in R}) = 0
  <2>1. 1 \in 1..Cardinality(S)
    BY <1>8, <1>9
  <2> QED BY <1>8, <2>1
<1>11. \A b \in S : <<b, m>> \notin R
  <2>1. PICK T : T = {b \in S : <<b, m>> \in R}
    OBVIOUS
  <2>2. IsFiniteSet(T)
    BY <1>3, <2>1, FS_Subset
  <2>3. T = {}
    BY <1>10, <2>1, <2>2, FS_EmptySet
  <2> QED BY <2>1, <2>3
<1>12. m \in first
  <2>1. ASSUME NEW b \in S PROVE row[m].priority >= row[b].priority
    <3>1. b = m \/ <<m, b>> \in R
      BY <1>7, <1>11
    <3> QED BY <1>4, <1>6, <3>1
  <2>2. ASSUME NEW b \in best \ {m} PROVE PickOrder(m, b)
    <3>1. b \in S /\ row[b].priority >= row[m].priority /\ b # m
      OBVIOUS
    <3>2. <<m, b>> \in R
      BY <1>7, <1>11, <3>1
    <3> QED BY <1>4, <1>6, <3>1, <3>2 DEF PickOrder
  <2> QED BY <2>1, <2>2
<1>13. (IF kept # {} THEN kept ELSE first) # {} /\ (IF kept # {} THEN kept ELSE first) \subseteq S
  BY <1>12
<1>14. Pick(c, ex, out) \in S
  BY <1>1, <1>13
<1> QED BY <1>14 DEF S

\* The head of a queue is what its channel picks: nobody of the channel is before
\* it, and of two that weigh the same the preferred account is first in both.
LEMMA HeadIsPick ==
    ASSUME Settled, NEW k, NEW n, AccountQueue(k, n) # <<>>
    PROVE  Pick(ChannelOf[AccountQueue(k, n)[1]], ExemptChannels(n.base), {})
              = AccountQueue(k, n)[1]
<1>1. PICK h : h = AccountQueue(k, n)[1]
  OBVIOUS
<1>2. h \in Waiting(k, n) /\ \A b \in Waiting(k, n) : ~QueueBefore(b, h)
  BY <1>1, QueueHolds
<1>3. PICK c : c = ChannelOf[h]
  OBVIOUS
<1>4. PICK ex : ex = ExemptChannels(n.base)
  OBVIOUS
<1> DEFINE S == Pool(c, ex) \ (cooling \cup {})
           best == {a \in S : \A b \in S : row[a].priority >= row[b].priority}
           kept == {a \in best : Preferred(a) /\ \A b \in best : row[a].weight >= row[b].weight}
           first == {a \in best : \A b \in best \ {a} : PickOrder(a, b)}
<1>5. S # {} => Pick(c, ex, {}) = CHOOSE a \in (IF kept # {} THEN kept ELSE first) : TRUE
  BY DEF Pick
<1>6. h \in S /\ S \subseteq Waiting(k, n) /\ \A a \in S : a \in InService /\ ChannelOf[a] = c
  <2>1. \A a : a \in S <=> /\ a \in Roster \ cooling /\ ChannelOf[a] = c
                           /\ row[a].status = "active" /\ (c \in ex \/ ~row[a].zero)
    BY DEF Pool, Own
  <2>2. c \in QueueChannels(k, n) /\ QueueChannels(k, n) \subseteq Enabled
    BY <1>2, <1>3, WhoWaits DEF QueueChannels
  <2> QED BY <1>2, <1>3, <1>4, <2>1, <2>2, WhoWaits DEF InService
<1> HIDE DEF S
<1>7. \A a \in S : a \in Nat /\ row[a].priority \in Int /\ row[a].weight \in Nat
  BY <1>6, AdmissionAssumption DEF Settled, AccountRows, InService
<1>8. \A a \in S : a # h => QueueBefore(h, a)
  BY <1>2, <1>6, QueueOrder
<1>9. \A a \in S : Preferred(a) <=> sticky[c] = a
  BY <1>6 DEF Preferred
<1>10. ASSUME NEW a \in S, a # h
       PROVE  \/ row[h].priority > row[a].priority
              \/ /\ row[h].priority = row[a].priority
                 /\ \/ row[h].weight > row[a].weight
                    \/ /\ row[h].weight = row[a].weight
                       /\ ~Preferred(a) /\ (Preferred(h) \/ h < a)
  <2>1. QueueBefore(h, a) /\ ChannelOf[a] = ChannelOf[h]
    BY <1>3, <1>6, <1>8, <1>10
  <2>2. ~(Preferred(a) /\ Preferred(h)) /\ Preferred(a) \in BOOLEAN /\ Preferred(h) \in BOOLEAN
    BY <1>6, <1>9, <1>10 DEF Preferred
  <2>3. row[h].priority \in Int /\ row[a].priority \in Int /\ row[h].weight \in Nat
        /\ row[a].weight \in Nat /\ h \in Nat /\ a \in Nat
    BY <1>6, <1>7
  <2> QED BY <2>1, <2>2, <2>3 DEF QueueBefore
<1>11. h \in best /\ \A b \in best : row[h].weight >= row[b].weight
  BY <1>6, <1>7, <1>10
<1>12. CASE Preferred(h)
  <2>1. h \in kept
    BY <1>11, <1>12
  <2>2. \A a \in kept : a = h
    BY <1>6, <1>9, <1>12
  <2>3. (IF kept # {} THEN kept ELSE first) = {h}
    BY <2>1, <2>2
  <2> HIDE DEF kept, first
  <2> QED BY <1>1, <1>3, <1>4, <1>5, <1>6, <2>3
<1>13. CASE ~Preferred(h)
  <2>1. kept = {}
    BY <1>6, <1>7, <1>10, <1>11, <1>13
  <2>2. h \in first
    <3>1. ASSUME NEW b \in best \ {h} PROVE PickOrder(h, b)
      <4>1. b \in S /\ b # h /\ row[b].priority >= row[h].priority
        BY <1>6
      <4> QED BY <1>6, <1>7, <1>10, <1>13, <4>1 DEF PickOrder
    <3> QED BY <1>11, <3>1
  <2>3. \A a \in first : a = h
    <3> SUFFICES ASSUME NEW a \in first, a # h PROVE FALSE
      OBVIOUS
    <3>1. PickOrder(a, h) /\ PickOrder(h, a) /\ a \in S
      BY <1>11, <2>2
    <3> QED BY <1>6, <1>7, <3>1 DEF PickOrder
  <2>4. (IF kept # {} THEN kept ELSE first) = {h}
    BY <2>1, <2>2, <2>3
  <2> HIDE DEF kept, first
  <2> QED BY <1>1, <1>3, <1>4, <1>5, <1>6, <2>4
<1> QED BY <1>12, <1>13

----------------------------------------------------------------------------
(* The inductive invariant                                                 *)

\* Where a request is, and whose turn it is.
Position ==
    /\ start.cross \in BOOLEAN /\ name \in Names
    /\ queue \in Seq(Roster) /\ next \in Nat \ {0}
    /\ at \in {"new", "sweep"} => queue = <<>>
    /\ at \in {"new", "sweep", "reserve"} => next = 1
    /\ at \in {"reserve", "walk", "pick", "sent"} => next <= Len(queue)

\* What was true of the waiting accounts when the queue was built and has not
\* changed; the channels noted as exempt are those of the admission.
Planned ==
    /\ at \notin {"new", "refused"} /\ ~touched => exempt = ExemptChannels(name.base)
    /\ \A i \in 1..Len(queue) :
          LET c == ChannelOf[queue[i]]
          IN  /\ c \in Visible(key) /\ name.prefix \in {None, c}
              /\ ~touched => Accepts(c, name.base) /\ ModelAllowed(key, c, name.base)
              /\ ~touched /\ queue[i] \notin moved => c \in exempt \/ ~row[queue[i]].zero
    /\ /\ at \in {"reserve", "walk"} /\ next = 1
       /\ ~touched /\ moved = {} /\ ~swayed
       => queue = AccountQueue(key, name)

\* What a hop asks for.
HopAsks ==
    /\ at \in {"pick", "sent"} =>
        /\ hop.channel = ChannelOf[queue[next]]
        /\ ~touched => hop.model = Translate(hop.channel, name.base)
    /\ at = "sent" => sent.account \in Roster

RequestInv == Settled /\ Position /\ Planned /\ HopAsks /\ SentIsAllowed

\* While the names stay, so does what is read from them.
LEMMA NamesStay ==
    ASSUME UNCHANGED config, NEW c, NEW m, NEW k
    PROVE  /\ Accepts(c, m)' <=> Accepts(c, m)
           /\ Translate(c, m)' = Translate(c, m)
           /\ ModelAllowed(k, c, m)' <=> ModelAllowed(k, c, m)
           /\ (marks[c])' = marks[c]
<1>1. UNCHANGED <<catalog, extras, marks, alias, order>>
  BY DEF config, names
<1>2. ListModels(c)' = ListModels(c) /\ Merged(c, m)' = Merged(c, m)
  BY <1>1 DEF ListModels, Merged
<1>3. (Accepts(c, m)' <=> Accepts(c, m)) /\ Translate(c, m)' = Translate(c, m)
  BY <1>2 DEF Accepts, Translate
<1>4. Spellings(c, m)' = Spellings(c, m)
  BY <1>3 DEF Spellings
<1>5. ModelAllowed(k, c, m)' <=> ModelAllowed(k, c, m)
  BY <1>4 DEF ModelAllowed
<1> QED BY <1>1, <1>3, <1>5

LEMMA ExemptStays ==
    ASSUME UNCHANGED config, NEW m
    PROVE  ExemptChannels(m)' = ExemptChannels(m)
<1>1. ASSUME NEW c \in Enabled
      PROVE  /\ Accepts(c, m)' <=> Accepts(c, m)
             /\ ({m, Translate(c, m)} \cap marks[c])' = {m, Translate(c, m)} \cap marks[c]
  BY NamesStay
<1> QED BY <1>1 DEF ExemptChannels

\* While the accounts stay as well, so does the queue.
LEMMA QueueStays ==
    ASSUME UNCHANGED <<config, row, cooling, sticky>>, NEW k, NEW n
    PROVE  AccountQueue(k, n)' = AccountQueue(k, n)
<1>1. UNCHANGED <<catalog, extras, marks, alias, order, row, cooling, sticky>>
  BY DEF config, names
<1>2. QueueChannels(k, n)' = QueueChannels(k, n)
  <2>1. ASSUME NEW c \in Enabled
        PROVE  /\ Accepts(c, n.base)' <=> Accepts(c, n.base)
               /\ ModelAllowed(k, c, n.base)' <=> ModelAllowed(k, c, n.base)
    BY NamesStay
  <2> QED BY <2>1 DEF QueueChannels
<1>3. ASSUME NEW c PROVE Pool(c, ExemptChannels(n.base))' = Pool(c, ExemptChannels(n.base))
  BY <1>1, ExemptStays DEF Pool, Own
<1>4. Waiting(k, n)' = Waiting(k, n)
  BY <1>1, <1>2, <1>3 DEF Waiting
<1>5. ASSUME NEW a, NEW b PROVE QueueBefore(a, b)' <=> QueueBefore(a, b)
  BY <1>1 DEF QueueBefore, Rank, Preferred
<1>6. ASSUME NEW S, NEW a PROVE Place(S, a)' = Place(S, a)
  <2>1. {b \in S : QueueBefore(b, a)}' = {b \in S : QueueBefore(b, a)}
    BY <1>5
  <2> QED BY <2>1 DEF Place
<1>7. PICK S : S = Waiting(k, n)
  OBVIOUS
<1>8. AccountQueue(k, n) = [i \in 1..Cardinality(S) |-> CHOOSE a \in S : Place(S, a) = i - 1]
  BY <1>7 DEF AccountQueue
<1>9. AccountQueue(k, n)' = [i \in 1..Cardinality(S) |-> CHOOSE a \in S : Place(S, a)' = i - 1]
  BY <1>4, <1>7 DEF AccountQueue
<1> QED BY <1>6, <1>8, <1>9

\* What is true of the accounts of a new queue.
LEMMA Queued ==
    ASSUME Settled, NEW k, NEW n, NEW i \in 1..Len(AccountQueue(k, n))
    PROVE  LET a == AccountQueue(k, n)[i]
               c == ChannelOf[a]
           IN  /\ a \in Roster /\ c \in Visible(k) /\ n.prefix \in {None, c}
               /\ Accepts(c, n.base) /\ ModelAllowed(k, c, n.base)
               /\ c \in ExemptChannels(n.base) \/ ~row[a].zero
<1>1. PICK a : a = AccountQueue(k, n)[i]
  OBVIOUS
<1>2. a \in Waiting(k, n)
  BY <1>1, QueueHolds
<1>3. /\ a \in Roster /\ ChannelOf[a] \in QueueChannels(k, n)
      /\ ChannelOf[a] \in ExemptChannels(n.base) \/ ~row[a].zero
  BY <1>2, WhoWaits
<1> QED BY <1>1, <1>3 DEF QueueChannels, Visible

----------------------------------------------------------------------------
(* The invariant holds at first, and every step keeps it                   *)

LEMMA InitIInv == RequestInit => RequestInv
<1> SUFFICES ASSUME RequestInit PROVE RequestInv
  OBVIOUS
<1>1. PICK f \in Starts :
         /\ start \in [key : f.key, name : f.name, items : f.items, api : f.api,
                       codex : f.codex, budget : f.budget, cross : f.cross,
                       kind : f.kind, limited : f.limited, moves : f.moves]
         /\ order \in f.order /\ row \in f.row /\ cooling \in f.cooling
  BY DEF RequestInit
<1>2. start.cross \in BOOLEAN /\ name \in Names
  BY <1>1, RequestAssumption DEF name
<1>3. Settled
  BY <1>1, RequestAssumption DEF Settled
<1>4. /\ at = "new" /\ queue = <<>> /\ next = 1
  BY DEF RequestInit
<1>5. Position
  BY <1>2, <1>4 DEF Position
<1> QED BY <1>3, <1>4, <1>5 DEF RequestInv, Planned, HopAsks, SentIsAllowed

\* A new queue satisfies what is kept of it.
LEMMA PlanKeeps ==
    ASSUME Settled, name \in Names, start.cross \in BOOLEAN, next = 1,
           NEW empty \in {"sweep", "unavailable"}, Plan(empty),
           ~touched => exempt' = ExemptChannels(name.base),
           UNCHANGED <<config, row, cooling, sticky, start, touched, next>>
    PROVE  Settled' /\ Position' /\ Planned' /\ HopAsks' /\ SentIsAllowed'
<1>1. Settled'
  BY DEF Settled, config
<1>2. key' = key /\ name' = name
  BY DEF key, name
<1>3. PICK Q : Q = AccountQueue(key, name)
  OBVIOUS
<1>4. queue' = Q /\ at' = (IF Q = <<>> THEN empty ELSE "reserve") /\ Q \in Seq(Roster)
  BY <1>3, QueueHolds DEF Plan
<1>5. Q # <<>> => Len(Q) >= 1
  BY <1>4
<1>6. Position'
  BY <1>2, <1>4, <1>5 DEF Position
<1>7. ~touched' => exempt' = ExemptChannels(name.base)'
  <2>1. PICK m : m = name.base
    OBVIOUS
  <2>2. name.base' = m
    BY <1>2, <2>1
  <2>3. ExemptChannels(m)' = ExemptChannels(m)
    BY ExemptStays
  <2> QED BY <2>1, <2>2, <2>3
<1>8. ASSUME NEW i \in 1..Len(Q)
      PROVE  LET c == ChannelOf[Q[i]]
             IN  /\ c \in Visible(key) /\ name.prefix \in {None, c}
                 /\ Accepts(c, name.base)' /\ ModelAllowed(key, c, name.base)'
                 /\ ~touched' => c \in exempt' \/ ~row'[Q[i]].zero
  <2>1. PICK c : c = ChannelOf[Q[i]]
    OBVIOUS
  <2>2. /\ c \in Visible(key) /\ name.prefix \in {None, c}
        /\ Accepts(c, name.base) /\ ModelAllowed(key, c, name.base)
        /\ c \in ExemptChannels(name.base) \/ ~row[Q[i]].zero
    BY <1>3, <1>8, <2>1, Queued
  <2>3. /\ Accepts(c, name.base)' <=> Accepts(c, name.base)
        /\ ModelAllowed(key, c, name.base)' <=> ModelAllowed(key, c, name.base)
    BY <1>2, NamesStay
  <2> QED BY <2>1, <2>2, <2>3
<1>9. AccountQueue(key, name)' = Q
  BY <1>2, <1>3, QueueStays
<1>10. Planned'
  BY <1>2, <1>4, <1>7, <1>8, <1>9 DEF Planned, Visible
<1>11. at' \notin {"pick", "sent"}
  BY <1>4
<1> QED BY <1>1, <1>6, <1>10, <1>11 DEF HopAsks, SentIsAllowed

\* A step that leaves the names and the queue alone.
LEMMA KeptStays ==
    ASSUME Position, Planned, UNCHANGED <<config, start, exempt, queue, touched>>,
           at' = "refused" \/ at \notin {"new", "refused"},
           \A a \in Roster : a \notin moved' => a \notin moved /\ row'[a].zero = row[a].zero,
           at' \in {"reserve", "walk"} /\ next' = 1 =>
              /\ at \in {"reserve", "walk"} /\ next = 1
              /\ UNCHANGED <<row, cooling, sticky, swayed, moved>>
    PROVE  Planned'
<1>1. key' = key /\ name' = name
  BY DEF key, name
<1>2. PICK k, n : k = key /\ n = name
  OBVIOUS
<1>3. at' # "refused" /\ ~touched' => exempt' = ExemptChannels(name.base)'
  <2>1. PICK m : m = name.base
    OBVIOUS
  <2>2. ExemptChannels(m)' = ExemptChannels(m) /\ name.base' = m
    BY <1>1, <2>1, ExemptStays
  <2> QED BY <2>1, <2>2 DEF Planned
<1>4. ASSUME NEW i \in 1..Len(queue)
      PROVE  LET c == ChannelOf[queue[i]]
             IN  /\ c \in Visible(key) /\ name.prefix \in {None, c}
                 /\ ~touched' => Accepts(c, name.base)' /\ ModelAllowed(key, c, name.base)'
                 /\ ~touched' /\ queue[i] \notin moved' => c \in exempt' \/ ~row'[queue[i]].zero
  <2>1. PICK c : c = ChannelOf[queue[i]]
    OBVIOUS
  <2>2. /\ c \in Visible(key) /\ name.prefix \in {None, c}
        /\ ~touched => Accepts(c, name.base) /\ ModelAllowed(key, c, name.base)
        /\ ~touched /\ queue[i] \notin moved => c \in exempt \/ ~row[queue[i]].zero
    BY <2>1 DEF Planned
  <2>3. /\ Accepts(c, n.base)' <=> Accepts(c, n.base)
        /\ ModelAllowed(k, c, n.base)' <=> ModelAllowed(k, c, n.base)
    BY NamesStay
  <2>4. queue[i] \in Roster
    BY DEF Position
  <2> QED BY <1>1, <1>2, <2>1, <2>2, <2>3, <2>4
<1>5. /\ at' \in {"reserve", "walk"} /\ next' = 1
      /\ ~touched' /\ moved' = {} /\ ~swayed'
      => queue' = AccountQueue(key, name)'
  <2> SUFFICES ASSUME at' \in {"reserve", "walk"}, next' = 1, ~touched', moved' = {}, ~swayed'
               PROVE  queue' = AccountQueue(key, name)'
    OBVIOUS
  <2>1. /\ at \in {"reserve", "walk"} /\ next = 1
        /\ UNCHANGED <<row, cooling, sticky, swayed, moved>>
    OBVIOUS
  <2>2. queue = AccountQueue(k, n)
    BY <1>2, <2>1 DEF Planned
  <2>3. AccountQueue(k, n)' = AccountQueue(k, n)
    BY <2>1, QueueStays
  <2> QED BY <1>1, <1>2, <2>2, <2>3
<1> QED BY <1>1, <1>3, <1>4, <1>5 DEF Planned, Visible

LEMMA RefuseStep ==
    ASSUME RequestInv, Refuse \/ ReserveRefused
    PROVE  RequestInv'
<1>1. /\ at' = "refused" /\ at \in {"new", "reserve"}
      /\ UNCHANGED <<config, row, cooling, sticky, start, touched, moved, exempt, queue, swayed, next>>
  BY DEF Refuse, ReserveRefused, Stay, accounts, request
<1>2. Settled' /\ Position'
  BY <1>1 DEF RequestInv, Settled, Position, config, key, name
<1>3. Planned'
  BY <1>1, KeptStays DEF RequestInv
<1> QED BY <1>1, <1>2, <1>3 DEF RequestInv, HopAsks, SentIsAllowed

LEMMA AdmitStep ==
    ASSUME RequestInv, Admit
    PROVE  RequestInv'
<1>1. /\ at = "new" /\ exempt' = ExemptChannels(name.base) /\ Plan("sweep")
      /\ UNCHANGED <<config, row, cooling, sticky, start, touched, next>>
  BY DEF Admit, Stay, accounts
<1>2. Settled /\ name \in Names /\ start.cross \in BOOLEAN /\ next = 1
  BY <1>1 DEF RequestInv, Position
<1> QED BY <1>1, <1>2, PlanKeeps DEF RequestInv

LEMMA RequeueStep ==
    ASSUME RequestInv, Requeue
    PROVE  RequestInv'
<1>1. /\ at = "sweep" /\ exempt' = exempt /\ Plan("unavailable")
      /\ UNCHANGED <<config, row, cooling, sticky, start, touched, next>>
  BY DEF Requeue, accounts
<1>2. Settled /\ name \in Names /\ start.cross \in BOOLEAN /\ next = 1
  BY <1>1 DEF RequestInv, Position
<1>3. ~touched => exempt' = ExemptChannels(name.base)
  BY <1>1 DEF RequestInv, Planned
<1> QED BY <1>1, <1>2, <1>3, PlanKeeps DEF RequestInv

\* A renewal touches the status of one account.
LEMMA RenewedRow ==
    ASSUME Settled, NEW b \in Roster, Renewed(b)
    PROVE  /\ row' \in [Roster -> AccountRows]
           /\ \A a \in Roster : row'[a].zero = row[a].zero
           /\ \A a \in Roster : a \notin moved' => a \notin moved
<1>1. row' = [row EXCEPT ![b].status = "active"] /\ moved' = moved \cup {b}
  BY DEF Renewed
<1>2. PICK r : r = [row[b] EXCEPT !.status = "active"]
  OBVIOUS
<1>3. row[b] \in AccountRows
  BY DEF Settled
<1>4. r \in AccountRows /\ r.zero = row[b].zero
  BY <1>2, <1>3 DEF AccountRows
<1>5. row' = [row EXCEPT ![b] = r]
  BY <1>1, <1>2 DEF Settled
<1> QED BY <1>1, <1>4, <1>5 DEF Settled

LEMMA SweepStep ==
    ASSUME RequestInv, Sweep
    PROVE  RequestInv'
<1>1. /\ at = "sweep" /\ at' = "sweep"
      /\ UNCHANGED <<config, cooling, start, exempt, queue, swayed, next, touched>>
  BY DEF Sweep
<1>2. \/ UNCHANGED <<row, moved>>
      \/ \E b \in Roster : Renewed(b)
  BY DEF Sweep, PickOrRenew, Expired, Own
<1>3. /\ row' \in [Roster -> AccountRows]
      /\ \A a \in Roster : a \notin moved' => a \notin moved /\ row'[a].zero = row[a].zero
  BY <1>2, RenewedRow DEF RequestInv, Settled
<1>4. Settled' /\ Position'
  BY <1>1, <1>3 DEF RequestInv, Settled, Position, config, key, name
<1>5. Planned'
  BY <1>1, <1>3, KeptStays DEF RequestInv
<1> QED BY <1>1, <1>4, <1>5 DEF RequestInv, HopAsks, SentIsAllowed

LEMMA ReserveStep ==
    ASSUME RequestInv, Reserve
    PROVE  RequestInv'
<1>1. /\ at = "reserve" /\ at' \in {"tooLong", "walk"}
      /\ UNCHANGED <<config, row, cooling, sticky, start, touched, moved, exempt, queue, swayed, next>>
  BY DEF Reserve, Stay, accounts
<1>2. Settled' /\ Position'
  BY <1>1 DEF RequestInv, Settled, Position, config, key, name
<1>3. Planned'
  BY <1>1, KeptStays DEF RequestInv, Position
<1> QED BY <1>1, <1>2, <1>3 DEF RequestInv, HopAsks, SentIsAllowed

\* The next account of the queue, if there is one.
LEMMA NextHopStep ==
    ASSUME RequestInv, at \in {"walk", "pick", "sent"}, NextHop,
           UNCHANGED <<config, accounts, start, touched, moved, exempt, queue>>
    PROVE  RequestInv'
<1>1. /\ at' \in {"walk", "failed"} /\ (at' = "walk" => next < Len(queue))
      /\ next' = next + 1
  BY DEF NextHop
<1>2. next \in Nat \ {0} /\ queue \in Seq(Roster)
  BY DEF RequestInv, Position
<1>3. next' \in Nat \ {0} /\ next' # 1 /\ (at' = "walk" => next' <= Len(queue))
  BY <1>1, <1>2
<1>4. Settled' /\ Position'
  BY <1>1, <1>3 DEF RequestInv, Settled, Position, config, accounts, key, name
<1>5. Planned'
  BY <1>1, <1>3, KeptStays DEF RequestInv, accounts
<1> QED BY <1>1, <1>4, <1>5 DEF RequestInv, HopAsks, SentIsAllowed

LEMMA HopStep ==
    ASSUME RequestInv, Hop
    PROVE  RequestInv'
<1>1. PICK c : c = ChannelOf[queue[next]]
  OBVIOUS
<1>2. /\ at = "walk" /\ hop'.channel = c /\ hop'.model = Translate(c, name.base)
      /\ NextHop \/ (at' = "pick" /\ next' = next)
      /\ UNCHANGED <<config, accounts, start, touched, moved, exempt, queue>>
  BY <1>1 DEF Hop, Stay
<1>3. CASE NextHop
  BY <1>2, <1>3, NextHopStep
<1>4. CASE at' = "pick" /\ next' = next
  <2>1. Settled' /\ Position'
    BY <1>2, <1>4 DEF RequestInv, Settled, Position, config, accounts, key, name
  <2>2. Planned'
    BY <1>2, <1>4, KeptStays DEF RequestInv, accounts
  <2>3. PICK m : m = name.base
    OBVIOUS
  <2>4. Translate(c, m)' = Translate(c, m) /\ name.base' = m
    BY <1>2, <2>3, NamesStay DEF name
  <2>5. HopAsks'
    BY <1>1, <1>2, <1>4, <2>3, <2>4 DEF HopAsks
  <2> QED BY <1>4, <2>1, <2>2, <2>5 DEF RequestInv, SentIsAllowed
<1> QED BY <1>2, <1>3, <1>4

LEMMA NobodyLeftStep ==
    ASSUME RequestInv, NobodyLeft
    PROVE  RequestInv'
BY NextHopStep DEF NobodyLeft, Stay

\* The hop goes on, with what it asks for.
LEMMA SameHop ==
    ASSUME RequestInv, at \in {"pick", "sent"},
           at' \in {"pick", "done"} \/ (at' = "sent" /\ sent'.account \in Roster),
           UNCHANGED <<config, start, touched, exempt, queue, next>>,
           hop'.channel = hop.channel, hop'.model = hop.model,
           row' \in [Roster -> AccountRows], cooling' \subseteq Roster,
           \A a \in Roster : a \notin moved' => a \notin moved /\ row'[a].zero = row[a].zero
    PROVE  Settled' /\ Position' /\ Planned' /\ HopAsks'
<1>1. Settled' /\ Position'
  BY DEF RequestInv, Settled, Position, config, key, name
<1>2. Planned'
  BY KeptStays DEF RequestInv
<1>3. PICK m, c : m = name.base /\ c = hop.channel
  OBVIOUS
<1>4. Translate(c, m)' = Translate(c, m) /\ name.base' = m
  BY <1>3, NamesStay DEF name
<1>5. HopAsks'
  BY <1>3, <1>4 DEF RequestInv, HopAsks
<1> QED BY <1>1, <1>2, <1>5

LEMMA ServeStep ==
    ASSUME RequestInv, Serve
    PROVE  RequestInv'
<1>1. /\ at = "sent" /\ at' = "done"
      /\ UNCHANGED <<config, row, cooling, start, touched, moved, exempt, queue, next, hop>>
  BY DEF Serve, request
<1>2. Settled' /\ Position' /\ Planned' /\ HopAsks'
  BY <1>1, SameHop DEF RequestInv, Settled
<1> QED BY <1>1, <1>2 DEF RequestInv, SentIsAllowed

LEMMA FailStep ==
    ASSUME RequestInv, Fail
    PROVE  RequestInv'
<1>1. /\ at = "sent" /\ at' = "pick" /\ cooling' \in {cooling, cooling \cup {sent.account}}
      /\ UNCHANGED <<config, row, start, touched, moved, exempt, queue, next, hop>>
  BY DEF Fail, request
<1>2. sent.account \in Roster
  BY <1>1 DEF RequestInv, HopAsks
<1>3. Settled' /\ Position' /\ Planned' /\ HopAsks'
  BY <1>1, <1>2, SameHop DEF RequestInv, Settled
<1> QED BY <1>1, <1>3 DEF RequestInv, SentIsAllowed

LEMMA RejectLengthStep ==
    ASSUME RequestInv, RejectLength
    PROVE  RequestInv'
<1>1. /\ at = "sent" /\ UNCHANGED <<config, accounts, start, touched, moved, exempt, queue>>
      /\ \/ NextHop
         \/ /\ at' = "pick" /\ next' = next
            /\ \E cut : hop' = [hop EXCEPT !.messages = cut]
  BY DEF RejectLength, Stay
<1>2. CASE NextHop
  BY <1>1, <1>2, NextHopStep
<1>3. CASE at' = "pick" /\ next' = next /\ \E cut : hop' = [hop EXCEPT !.messages = cut]
  <2>1. hop'.channel = hop.channel /\ hop'.model = hop.model
    BY <1>3
  <2>2. Settled' /\ Position' /\ Planned' /\ HopAsks'
    BY <1>1, <1>3, <2>1, SameHop DEF RequestInv, Settled, accounts
  <2> QED BY <1>3, <2>2 DEF RequestInv, SentIsAllowed
<1> QED BY <1>1, <1>2, <1>3

\* A history is sent, or cannot be.
LEMMA SendDone ==
    ASSUME RequestInv, at = "pick", NEW a \in Roster, NEW stray \in BOOLEAN, Send(a, stray),
           row' \in [Roster -> AccountRows],
           \A b \in Roster : b \notin moved' => b \notin moved /\ row'[b].zero = row[b].zero
    PROVE  /\ Settled' /\ Position' /\ Planned' /\ HopAsks'
           /\ UNCHANGED <<config, start, touched, exempt, queue, next, hop>>
           /\ \/ at' = "pick"
              \/ /\ at' = "sent" /\ sent'.account = a /\ sent'.stray = stray
                 /\ sent'.model = hop.model /\ sent'.zero = row[a].zero
<1>1. /\ \/ at' = "sent" /\ cooling' = cooling
            /\ sent' = [account |-> a, stray |-> stray, model |-> hop.model,
                        zero |-> row[a].zero, messages |-> Outbound(Here, hop.messages)]
         \/ cooling' = cooling \cup {a} /\ UNCHANGED <<at, sent>>
      /\ UNCHANGED <<config, start, touched, exempt, queue, next, hop>>
  BY DEF Send
<1>2. /\ cooling' \subseteq Roster
      /\ \/ at' = "pick"
         \/ /\ at' = "sent" /\ sent'.account = a /\ sent'.stray = stray
            /\ sent'.model = hop.model /\ sent'.zero = row[a].zero
  BY <1>1 DEF RequestInv, Settled
<1>3. Settled' /\ Position' /\ Planned' /\ HopAsks'
  BY <1>1, <1>2, SameHop
<1> QED BY <1>1, <1>2, <1>3

LEMMA PickAccountStep ==
    ASSUME RequestInv, PickAccount
    PROVE  RequestInv'
<1>1. PICK a : a = Chosen
  OBVIOUS
<1>2. at = "pick" /\ a # None /\ Send(a, FALSE) /\ UNCHANGED <<row, moved>>
  BY <1>1 DEF PickAccount
<1>3. /\ next \in 1..Len(queue) /\ queue \in Seq(Roster) /\ start.cross \in BOOLEAN
      /\ hop.channel = ChannelOf[queue[next]]
  BY <1>2 DEF RequestInv, Position, HopAsks
<1>4. PICK c : c = hop.channel
  OBVIOUS
<1>5. ASSUME ~start.cross
      PROVE  a \in Roster /\ ChannelOf[a] = c /\ (c \in exempt \/ ~row[a].zero)
  <2>1. a = Pick(c, exempt, tried)
    BY <1>1, <1>4, <1>5 DEF Chosen
  <2>2. a \in Pool(c, exempt)
    BY <1>2, <2>1, PickServes DEF RequestInv
  <2> QED BY <2>2 DEF Pool, Own
<1>6. ASSUME start.cross
      PROVE  a = queue[next] /\ a \in Roster /\ ChannelOf[a] = c
  BY <1>1, <1>2, <1>3, <1>4, <1>6 DEF Chosen
<1>7. a \in Roster /\ ChannelOf[a] = c
  BY <1>3, <1>5, <1>6
<1>8. /\ Settled' /\ Position' /\ Planned' /\ HopAsks'
      /\ UNCHANGED <<config, start, touched, exempt, queue, next, hop>>
      /\ \/ at' = "pick"
         \/ /\ at' = "sent" /\ sent'.account = a /\ sent'.stray = FALSE
            /\ sent'.model = hop.model /\ sent'.zero = row[a].zero
  BY <1>2, <1>7, SendDone DEF RequestInv, Settled
<1>9. SentIsAllowed'
  <2> SUFFICES ASSUME at' = "sent" PROVE SentIsAllowed'
    BY DEF SentIsAllowed
  <2>1. /\ sent'.account = a /\ sent'.stray = FALSE
        /\ sent'.model = hop.model /\ sent'.zero = row[a].zero
    BY <1>8
  <2>2. /\ c \in Visible(key) /\ name.prefix \in {None, c}
        /\ ~touched => Accepts(c, name.base) /\ ModelAllowed(key, c, name.base)
        /\ ~touched => hop.model = Translate(c, name.base)
        /\ ~touched => exempt = ExemptChannels(name.base)
    BY <1>2, <1>3, <1>4 DEF RequestInv, Planned, HopAsks
  <2>3. row[a].zero => c \in exempt \/ (start.cross /\ (a \in moved \/ touched))
    BY <1>3, <1>4, <1>5, <1>6 DEF RequestInv, Planned
  <2>4. PICK k, n : k = key /\ n = name
    OBVIOUS
  <2>5. key' = k /\ name' = n /\ hop'.channel = c
    BY <1>4, <1>8, <2>4 DEF key, name
  <2>6. /\ Accepts(c, n.base)' <=> Accepts(c, n.base)
        /\ ModelAllowed(k, c, n.base)' <=> ModelAllowed(k, c, n.base)
        /\ Translate(c, n.base)' = Translate(c, n.base)
        /\ (marks[c])' = marks[c]
    BY <1>8, NamesStay
  <2>7. ~touched /\ c \in exempt => marks[c] \cap {name.base, hop.model} # {}
    BY <2>2 DEF ExemptChannels
  <2>8. start.cross => a = queue[next]
    BY <1>6
  <2> QED BY <1>2, <1>7, <1>8, <2>1, <2>2, <2>3, <2>4, <2>5, <2>6, <2>7, <2>8
          DEF SentIsAllowed, Visible
<1> QED BY <1>8, <1>9 DEF RequestInv

LEMMA PickStrayStep ==
    ASSUME RequestInv, PickStray
    PROVE  RequestInv'
<1>1. PICK b \in Strays \ tried :
         /\ Send(b, TRUE)
         /\ Renewed(b) \/ UNCHANGED <<row, moved>>
  BY DEF PickStray
<1>2. PICK c : c = hop.channel
  OBVIOUS
<1>3. /\ b \in Roster /\ ChannelOf[b] = c
      /\ start.cross => Here \in {"qwenwork", "traework"}
  BY <1>1, <1>2 DEF Strays, Expired, Own
<1>4. at = "pick"
  BY DEF PickStray
<1>5. /\ row' \in [Roster -> AccountRows]
      /\ \A a \in Roster : a \notin moved' => a \notin moved /\ row'[a].zero = row[a].zero
  BY <1>1, <1>3, RenewedRow DEF RequestInv, Settled
<1>6. /\ Settled' /\ Position' /\ Planned' /\ HopAsks'
      /\ UNCHANGED <<config, start, touched, exempt, queue, next, hop>>
      /\ \/ at' = "pick"
         \/ /\ at' = "sent" /\ sent'.account = b /\ sent'.stray = TRUE
            /\ sent'.model = hop.model /\ sent'.zero = row[b].zero
  BY <1>1, <1>3, <1>4, <1>5, SendDone
<1>7. SentIsAllowed'
  <2> SUFFICES ASSUME at' = "sent" PROVE SentIsAllowed'
    BY DEF SentIsAllowed
  <2>1. /\ sent'.account = b /\ sent'.stray = TRUE /\ sent'.model = hop.model
    BY <1>6
  <2>2. /\ c \in Visible(key) /\ name.prefix \in {None, c}
        /\ ~touched => Accepts(c, name.base) /\ ModelAllowed(key, c, name.base)
        /\ ~touched => hop.model = Translate(c, name.base)
    BY <1>2, <1>4 DEF RequestInv, Position, Planned, HopAsks
  <2>3. PICK k, n : k = key /\ n = name
    OBVIOUS
  <2>4. key' = k /\ name' = n /\ hop'.channel = c /\ Here' = Here
    BY <1>2, <1>6, <2>3 DEF key, name, Here
  <2>5. /\ Accepts(c, n.base)' <=> Accepts(c, n.base)
        /\ ModelAllowed(k, c, n.base)' <=> ModelAllowed(k, c, n.base)
        /\ Translate(c, n.base)' = Translate(c, n.base)
    BY <1>6, NamesStay
  <2> QED BY <1>3, <1>6, <2>1, <2>2, <2>3, <2>4, <2>5 DEF SentIsAllowed, Visible
<1> QED BY <1>6, <1>7 DEF RequestInv

\* What others change, they change to something of its kind, and it is noted.
Recorded ==
    /\ Settled'
    /\ \A a \in Roster : a \notin moved' =>
          row'[a] = row[a] /\ (a \in cooling' <=> a \in cooling)
    /\ moved \subseteq moved'
    /\ ~touched' => ~touched /\ UNCHANGED config
    /\ ~swayed' => ~swayed /\ UNCHANGED sticky
    /\ UNCHANGED <<start, at, exempt, queue, next, hop, sent>>

LEMMA ChangeNoted ==
    ASSUME RequestInv, Surroundings
    PROVE  Recorded
<1>1. /\ Change /\ at \notin {"new"} \cup Over
      /\ touched' = (touched \/ config' # config) /\ swayed' = (swayed \/ sticky' # sticky)
      /\ moved' = moved \cup {a \in Roster : row'[a] # row[a]
                                              \/ (a \in cooling) # (a \in cooling')}
      /\ UNCHANGED <<start, at, exempt, queue, next, hop, sent>>
  BY DEF Surroundings
<1>2. Settled
  BY DEF RequestInv
<1>3. Settled'
  <2>1. CASE RefreshCatalog \/ UpsertModel \/ RemoveModel \/ SetExempt \/ SaveAliases
    <3>1. UNCHANGED <<order, row, cooling>>
      BY <2>1 DEF RefreshCatalog, UpsertModel, RemoveModel, SetExempt, SaveAliases, accounts
    <3> QED BY <1>2, <3>1 DEF Settled
  <2>2. CASE SaveOrder
    BY <1>2, <2>2 DEF SaveOrder, Settled, accounts
  <2>3. CASE ChangeAccount
    <3>1. PICK a \in Roster :
             \/ \E st \in {"active", "expired", "inactive"} :
                   row' = [row EXCEPT ![a].status = st] /\ cooling' = cooling
             \/ \E p \in {0, 1} : row' = [row EXCEPT ![a].priority = p] /\ cooling' = cooling
             \/ row' = [row EXCEPT ![a].zero = ~@] /\ cooling' = cooling
             \/ row' = row /\ cooling' = (cooling \cup {a}) \ (cooling \cap {a})
      BY <2>3 DEF ChangeAccount
    <3>2. row[a] \in AccountRows /\ row \in [Roster -> AccountRows] /\ cooling \subseteq Roster
      BY <1>2 DEF Settled
    <3>3. order' = order
      BY <2>3 DEF ChangeAccount, config
    <3>4. ASSUME NEW r \in AccountRows, row' = [row EXCEPT ![a] = r], cooling' = cooling
          PROVE  Settled'
      BY <1>2, <3>2, <3>3, <3>4 DEF Settled
    <3>5. CASE \E st \in {"active", "expired", "inactive"} :
                   row' = [row EXCEPT ![a].status = st] /\ cooling' = cooling
      <4>1. PICK st \in {"active", "expired", "inactive"} :
               row' = [row EXCEPT ![a].status = st] /\ cooling' = cooling
        BY <3>5
      <4>2. [row[a] EXCEPT !.status = st] \in AccountRows
        BY <3>2, <4>1 DEF AccountRows
      <4>3. row' = [row EXCEPT ![a] = [row[a] EXCEPT !.status = st]]
        BY <3>2, <4>1
      <4> QED BY <3>4, <4>1, <4>2, <4>3
    <3>6. CASE \E p \in {0, 1} : row' = [row EXCEPT ![a].priority = p] /\ cooling' = cooling
      <4>1. PICK p \in {0, 1} : row' = [row EXCEPT ![a].priority = p] /\ cooling' = cooling
        BY <3>6
      <4>2. [row[a] EXCEPT !.priority = p] \in AccountRows
        BY <3>2, <4>1 DEF AccountRows
      <4>3. row' = [row EXCEPT ![a] = [row[a] EXCEPT !.priority = p]]
        BY <3>2, <4>1
      <4> QED BY <3>4, <4>1, <4>2, <4>3
    <3>7. CASE row' = [row EXCEPT ![a].zero = ~@] /\ cooling' = cooling
      <4>1. [row[a] EXCEPT !.zero = ~@] \in AccountRows
        BY <3>2 DEF AccountRows
      <4>2. row' = [row EXCEPT ![a] = [row[a] EXCEPT !.zero = ~@]]
        BY <3>2, <3>7
      <4> QED BY <3>4, <3>7, <4>1, <4>2
    <3>8. CASE row' = row /\ cooling' = (cooling \cup {a}) \ (cooling \cap {a})
      BY <1>2, <3>2, <3>3, <3>8 DEF Settled
    <3> QED BY <3>1, <3>5, <3>6, <3>7, <3>8
  <2> QED BY <1>1, <2>1, <2>2, <2>3 DEF Change
<1>4. /\ moved \subseteq moved'
      /\ \A a \in Roster : a \notin moved' =>
            row'[a] = row[a] /\ (a \in cooling' <=> a \in cooling)
  BY <1>1
<1> QED BY <1>1, <1>3, <1>4 DEF Recorded

LEMMA NotedStep ==
    ASSUME RequestInv, Recorded
    PROVE  RequestInv'
<1>1. PICK k, n : k = key /\ n = name
  OBVIOUS
<1>2. /\ key' = k /\ name' = n /\ Here' = Here
      /\ UNCHANGED <<start, at, exempt, queue, next, hop, sent>>
  BY <1>1 DEF Recorded, key, name, Here
<1>3. Settled' /\ Position'
  BY <1>1, <1>2 DEF Recorded, RequestInv, Position
<1>4. ASSUME ~touched', NEW c
      PROVE  /\ Accepts(c, n.base)' <=> Accepts(c, n.base)
             /\ ModelAllowed(k, c, n.base)' <=> ModelAllowed(k, c, n.base)
             /\ Translate(c, n.base)' = Translate(c, n.base)
             /\ (marks[c])' = marks[c]
  BY <1>4, NamesStay DEF Recorded
<1>5. ASSUME at' \notin {"new", "refused"}, ~touched' PROVE exempt' = ExemptChannels(n.base)'
  <2>1. ~touched /\ UNCHANGED config /\ at \notin {"new", "refused"}
    BY <1>5 DEF Recorded
  <2>2. ExemptChannels(n.base)' = ExemptChannels(n.base)
    BY <2>1, ExemptStays
  <2> QED BY <1>1, <1>2, <2>1, <2>2 DEF RequestInv, Planned
<1>6. ASSUME NEW i \in 1..Len(queue)
      PROVE  LET c == ChannelOf[queue[i]]
             IN  /\ c \in Visible(k) /\ n.prefix \in {None, c}
                 /\ ~touched' => Accepts(c, n.base)' /\ ModelAllowed(k, c, n.base)'
                 /\ ~touched' /\ queue[i] \notin moved' => c \in exempt' \/ ~row'[queue[i]].zero
  <2>1. PICK c : c = ChannelOf[queue[i]]
    OBVIOUS
  <2>2. /\ c \in Visible(k) /\ n.prefix \in {None, c}
        /\ ~touched => Accepts(c, n.base) /\ ModelAllowed(k, c, n.base)
        /\ ~touched /\ queue[i] \notin moved => c \in exempt \/ ~row[queue[i]].zero
    BY <1>1, <2>1 DEF RequestInv, Planned
  <2>3. queue[i] \in Roster
    BY DEF RequestInv, Position
  <2> QED BY <1>2, <1>4, <2>1, <2>2, <2>3 DEF Recorded
<1>7. ASSUME at' \in {"reserve", "walk"}, next' = 1, ~touched', moved' = {}, ~swayed'
      PROVE  queue' = AccountQueue(k, n)'
  <2>1. UNCHANGED <<config, sticky>> /\ ~touched /\ ~swayed
    BY <1>7 DEF Recorded
  <2>2. moved = {}
    BY <1>7 DEF Recorded
  <2>3. row' = row
    BY <1>3, <1>7 DEF Recorded, RequestInv, Settled
  <2>4. cooling' = cooling
    BY <1>3, <1>7 DEF Recorded, RequestInv, Settled
  <2>5. queue = AccountQueue(k, n)
    BY <1>1, <1>2, <1>7, <2>1, <2>2 DEF RequestInv, Planned
  <2>6. AccountQueue(k, n)' = AccountQueue(k, n)
    BY <2>1, <2>3, <2>4, QueueStays
  <2> QED BY <1>2, <2>5, <2>6
<1>8. Planned'
  BY <1>2, <1>5, <1>6, <1>7 DEF Planned, Visible
<1>9. HopAsks'
  <2>1. PICK c : c = hop.channel
    OBVIOUS
  <2>2. ~touched' => Translate(c, n.base)' = Translate(c, n.base) /\ ~touched
    BY <1>4 DEF Recorded
  <2> QED BY <1>1, <1>2, <2>1, <2>2 DEF RequestInv, HopAsks
<1>10. SentIsAllowed'
  <2> SUFFICES ASSUME at' = "sent" PROVE SentIsAllowed'
    BY DEF SentIsAllowed
  <2>1. PICK a, c : a = sent.account /\ c = ChannelOf[a]
    OBVIOUS
  <2>2. /\ c = hop.channel /\ c \in Visible(k) /\ n.prefix \in {None, c}
        /\ ~touched =>
              /\ Accepts(c, n.base) /\ ModelAllowed(k, c, n.base)
              /\ sent.model = Translate(c, n.base)
        /\ ~sent.stray /\ sent.zero =>
              \/ c \in exempt /\ (touched \/ marks[c] \cap {n.base, sent.model} # {})
              \/ start.cross /\ (a \in moved \/ touched)
        /\ start.cross =>
              IF sent.stray THEN Here \in {"qwenwork", "traework"}
              ELSE a = queue[next]
    BY <1>1, <1>2, <2>1 DEF RequestInv, SentIsAllowed
  <2>3. a \in moved => a \in moved'
    BY DEF Recorded
  <2>4. touched => touched'
    BY DEF Recorded
  <2> QED BY <1>2, <1>4, <2>1, <2>2, <2>3, <2>4 DEF SentIsAllowed, Visible
<1> QED BY <1>3, <1>8, <1>9, <1>10 DEF RequestInv

LEMMA RequestNextIInv == RequestInv /\ [RequestNext]_serving => RequestInv'
<1> SUFFICES ASSUME RequestInv, [RequestNext]_serving PROVE RequestInv'
  OBVIOUS
<1>1. CASE Refuse \/ ReserveRefused
  BY <1>1, RefuseStep
<1>2. CASE Admit
  BY <1>2, AdmitStep
<1>3. CASE Sweep
  BY <1>3, SweepStep
<1>4. CASE Requeue
  BY <1>4, RequeueStep
<1>5. CASE Reserve
  BY <1>5, ReserveStep
<1>6. CASE Hop
  BY <1>6, HopStep
<1>7. CASE PickAccount
  BY <1>7, PickAccountStep
<1>8. CASE PickStray
  BY <1>8, PickStrayStep
<1>9. CASE NobodyLeft
  BY <1>9, NobodyLeftStep
<1>10. CASE Serve
  BY <1>10, ServeStep
<1>11. CASE Fail
  BY <1>11, FailStep
<1>12. CASE RejectLength
  BY <1>12, RejectLengthStep
<1>13. CASE Surroundings
  BY <1>13, ChangeNoted, NotedStep
<1>14. CASE UNCHANGED serving
  <2>1. /\ UNCHANGED <<config, row, cooling, sticky, start, at, touched, moved, exempt, queue,
                       swayed, next, hop, sent>>
    BY <1>14 DEF serving, accounts, request
  <2>2. Recorded
    BY <2>1 DEF Recorded, RequestInv, Settled, config
  <2> QED BY <2>2, NotedStep
<1> QED BY <1>1, <1>2, <1>3, <1>4, <1>5, <1>6, <1>7, <1>8, <1>9, <1>10, <1>11, <1>12, <1>13,
           <1>14 DEF RequestNext

\* The inductive invariant holds.
THEOREM RequestHolds == RequestSpec => []RequestInv
<1> QED BY InitIInv, RequestNextIInv, PTL DEF RequestSpec

\* What is sent is allowed, although the whitelist is read when the queue is
\* built and the model is named hops later.
THEOREM OnlyAllowedIsSent == RequestSpec => []SentIsAllowed
<1>1. RequestInv => SentIsAllowed
  BY DEF RequestInv
<1> QED BY <1>1, RequestHolds, PTL

\* Admission, queue, sweep and catalog agree on the channels of a name, and the
\* queue and the channel's own pick on who is first.
THEOREM FiltersAgree == RequestSpec => []PlanIsFollowed
<1>1. ASSUME RequestInv PROVE PlanIsFollowed
  <2>1. Admitted(key, name) <=> QueueChannels(key, name) # {}
    BY DEF Admitted, Candidates, QueueChannels, Visible, Accepts
  <2>2. SweepChannels(key, name) = QueueChannels(key, name)
    BY DEF SweepChannels, QueueChannels, Visible, Accepts
  <2>3. ASSUME key = [channel |-> AnyChannel, allowed |-> {}], name \in Listed(WorkBuddy),
               NEW c \in Enabled, c = IF name.prefix = None THEN WorkBuddy ELSE name.prefix
        PROVE  c \in QueueChannels(key, name)
    <3>1. Accepts(c, name.base)
      BY <2>3 DEF Listed, Accepts
    <3>2. ModelAllowed(key, c, name.base)
      BY <2>3 DEF ModelAllowed
    <3> QED BY <2>3, <3>1, <3>2 DEF QueueChannels
  <2>4. ASSUME queue # <<>>, at \in {"reserve", "walk"}, next = 1,
               ~touched, moved = {}, ~swayed
        PROVE  Pick(ChannelOf[queue[1]], exempt, {}) = queue[1]
    <3>1. queue = AccountQueue(key, name) /\ exempt = ExemptChannels(name.base)
      BY <1>1, <2>4 DEF RequestInv, Planned
    <3> QED BY <1>1, <2>4, <3>1, HeadIsPick DEF RequestInv
  <2> QED BY <2>1, <2>2, <2>3, <2>4 DEF PlanIsFollowed
<1> QED BY <1>1, RequestHolds, PTL
=============================================================================
