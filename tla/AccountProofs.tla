--------------------------- MODULE AccountProofs ---------------------------
(***************************************************************************)
(* Proofs about the three things that decide whether and when an upstream  *)
(* account is used: RateLimiter (its queue and its slots), AccountHealth   *)
(* (its failures and cooldowns) and TokenRefresh (its login); for every    *)
(* set of accounts, requests and coroutines, and every admissible choice   *)
(* of limits, stored settings, backoff constants, hints and tokens.        *)
(***************************************************************************)
EXTENDS RateLimiter, AccountHealth, TokenRefresh, SequenceTheorems, FiniteSetTheorems,
        TLAPS

----------------------------------------------------------------------------
(***************************************************************************)
(* RateLimiter: the account's queue and its slots.                         *)
(***************************************************************************)

Members(q) == {q[i] : i \in DOMAIN q}
NoRepeat(q) == \A i, j \in DOMAIN q : q[i] = q[j] => i = j

----------------------------------------------------------------------------
(* The three things a queue undergoes.                                     *)

\* Appending a newcomer adds it and keeps the queue free of repetitions.
LEMMA JoinQueue ==
    ASSUME NEW q \in Seq(Requests), NoRepeat(q), NEW r \in Requests, r \notin Members(q)
    PROVE  /\ Append(q, r) \in Seq(Requests)
           /\ Members(Append(q, r)) = Members(q) \cup {r}
           /\ NoRepeat(Append(q, r))
<1> DEFINE p == Append(q, r)
<1>1. /\ p \in Seq(Requests) /\ Len(p) = Len(q) + 1
      /\ \A i \in 1..Len(q) : p[i] = q[i]
      /\ p[Len(q) + 1] = r
  BY AppendProperties
<1>2. DOMAIN q = 1..Len(q) /\ DOMAIN p = 1..(Len(q) + 1) /\ Len(q) \in Nat
  BY <1>1, LenProperties
<1>3. Members(p) = Members(q) \cup {r}
  BY <1>1, <1>2 DEF Members
<1>4. NoRepeat(p)
  BY <1>1, <1>2 DEF Members, NoRepeat
<1> QED BY <1>1, <1>3, <1>4

\* Taking the head away removes it and nothing else.
LEMMA LeaveHead ==
    ASSUME NEW q \in Seq(Requests), NoRepeat(q), q # <<>>
    PROVE  /\ Head(q) \in Members(q)
           /\ Tail(q) \in Seq(Requests)
           /\ Members(Tail(q)) = Members(q) \ {Head(q)}
           /\ NoRepeat(Tail(q))
<1> DEFINE p == Tail(q)
<1>1. /\ p \in Seq(Requests) /\ Len(p) = Len(q) - 1
      /\ \A i \in 1..Len(p) : p[i] = q[i + 1]
  BY HeadTailProperties
<1>2. /\ DOMAIN q = 1..Len(q) /\ DOMAIN p = 1..(Len(q) - 1)
      /\ Len(q) \in Nat \ {0} /\ Head(q) = q[1]
  BY <1>1, LenProperties, EmptySeq
<1>3. Head(q) \in Members(q)
  BY <1>2 DEF Members
<1>4. Members(p) = Members(q) \ {Head(q)}
  <2>1. ASSUME NEW x \in Members(p) PROVE x \in Members(q) \ {Head(q)}
    <3>1. PICK i \in 1..(Len(q) - 1) : x = q[i + 1]
      BY <2>1, <1>1, <1>2 DEF Members
    <3>2. i + 1 \in DOMAIN q /\ 1 \in DOMAIN q /\ i + 1 # 1
      BY <1>2
    <3> QED BY <3>1, <3>2, <1>2 DEF Members, NoRepeat
  <2>2. ASSUME NEW x \in Members(q) \ {Head(q)} PROVE x \in Members(p)
    <3>1. PICK i \in 1..Len(q) : x = q[i] /\ i # 1
      BY <2>2, <1>2 DEF Members
    <3>2. i - 1 \in DOMAIN p /\ p[i - 1] = x
      BY <3>1, <1>1, <1>2
    <3> QED BY <3>2 DEF Members
  <2> QED BY <2>1, <2>2
<1>5. NoRepeat(p)
  BY <1>1, <1>2 DEF NoRepeat
<1> QED BY <1>1, <1>3, <1>4, <1>5

\* Closing a gap at position k: what remains is everything but that element.
LEMMA CloseGap ==
    ASSUME NEW n \in Nat, NEW k \in 1..n, NEW q, NEW p, NoRepeat(q),
           DOMAIN q = 1..n, DOMAIN p = 1..(n - 1),
           \A i \in 1..(n - 1) : i < k => p[i] = q[i],
           \A i \in 1..(n - 1) : i >= k => p[i] = q[i + 1]
    PROVE  Members(p) = Members(q) \ {q[k]} /\ NoRepeat(p)
<1>1. ASSUME NEW x \in Members(p) PROVE x \in Members(q) \ {q[k]}
  <2>1. PICK i \in 1..(n - 1) : x = p[i]
    BY <1>1 DEF Members
  <2>2. CASE i < k
    <3>1. x = q[i] /\ i \in DOMAIN q /\ i # k /\ k \in DOMAIN q
      BY <2>1, <2>2
    <3> QED BY <3>1 DEF Members, NoRepeat
  <2>3. CASE i >= k
    <3>1. x = q[i + 1] /\ i + 1 \in DOMAIN q /\ i + 1 # k /\ k \in DOMAIN q
      BY <2>1, <2>3
    <3> QED BY <3>1 DEF Members, NoRepeat
  <2> QED BY <2>2, <2>3
<1>2. ASSUME NEW x \in Members(q) \ {q[k]} PROVE x \in Members(p)
  <2>1. PICK i \in 1..n : x = q[i] /\ i # k
    BY <1>2 DEF Members
  <2>2. CASE i < k
    <3>1. i \in DOMAIN p /\ p[i] = x
      BY <2>1, <2>2
    <3> QED BY <3>1 DEF Members
  <2>3. CASE i > k
    <3>1. i - 1 \in 1..(n - 1) /\ i - 1 >= k /\ (i - 1) + 1 = i
      BY <2>1, <2>3
    <3>2. i - 1 \in DOMAIN p /\ p[i - 1] = x
      BY <3>1, <2>1
    <3> QED BY <3>2 DEF Members
  <2> QED BY <2>1, <2>2, <2>3
<1>3. ASSUME NEW i \in 1..(n - 1), NEW j \in 1..(n - 1), p[i] = p[j] PROVE i = j
  <2> DEFINE up(l) == IF l < k THEN l ELSE l + 1
  <2>1. /\ p[i] = q[up(i)] /\ up(i) \in 1..n
        /\ p[j] = q[up(j)] /\ up(j) \in 1..n
    OBVIOUS
  <2>2. up(i) = up(j)
    BY <1>3, <2>1 DEF NoRepeat
  <2> QED BY <2>2
<1> QED BY <1>1, <1>2, <1>3 DEF NoRepeat

\* A member that leaves from any place is removed and nothing else.
LEMMA LeaveQueue ==
    ASSUME NEW q \in Seq(Requests), NoRepeat(q), NEW r \in Members(q)
    PROVE  /\ Position(q, r) \in DOMAIN q
           /\ Without(q, r) \in Seq(Requests)
           /\ Members(Without(q, r)) = Members(q) \ {r}
           /\ NoRepeat(Without(q, r))
<1>1. Position(q, r) \in DOMAIN q /\ q[Position(q, r)] = r
  BY DEF Members, Position
<1>2. PICK k : k = Position(q, r)
  OBVIOUS
<1>3. PICK n : n = Len(q)
  OBVIOUS
<1>4. n \in Nat /\ DOMAIN q = 1..n /\ k \in 1..n /\ \A i \in 1..n : q[i] \in Requests
  BY <1>1, <1>2, <1>3, LenProperties, ElementOfSeq
<1>5. PICK left : left = SubSeq(q, 1, k - 1)
  OBVIOUS
<1>6. PICK right : right = SubSeq(q, k + 1, n)
  OBVIOUS
<1>7. /\ left \in Seq(Requests) /\ Len(left) = k - 1
      /\ \A i \in 1..(k - 1) : left[i] = q[i]
  <2>1. \A i \in 1..(k - 1) : q[i] \in Requests
    BY <1>4
  <2>2. /\ left \in Seq(Requests)
        /\ Len(left) = IF 1 <= k - 1 THEN k - 1 - 1 + 1 ELSE 0
        /\ \A i \in 1..(k - 1 - 1 + 1) : left[i] = q[1 + i - 1]
    BY <1>4, <1>5, <2>1, SubSeqProperties
  <2> QED BY <2>2, <1>4
<1>8. /\ right \in Seq(Requests) /\ Len(right) = n - k
      /\ \A i \in 1..(n - k) : right[i] = q[k + i]
  <2>1. \A i \in (k + 1)..n : q[i] \in Requests
    BY <1>4
  <2>2. /\ right \in Seq(Requests)
        /\ Len(right) = IF k + 1 <= n THEN n - (k + 1) + 1 ELSE 0
        /\ \A i \in 1..(n - (k + 1) + 1) : right[i] = q[(k + 1) + i - 1]
    BY <1>4, <1>6, <2>1, SubSeqProperties
  <2>3. ASSUME NEW i \in 1..(n - k) PROVE right[i] = q[k + i]
    <3>1. i \in 1..(n - (k + 1) + 1) /\ (k + 1) + i - 1 = k + i
      BY <1>4
    <3> QED BY <2>2, <3>1
  <2> QED BY <2>2, <2>3, <1>4
<1>9. PICK p : p = Without(q, r)
  OBVIOUS
<1>10. p = left \o right
  BY <1>2, <1>3, <1>5, <1>6, <1>9 DEF Without
<1>11. /\ p \in Seq(Requests) /\ Len(p) = (k - 1) + (n - k)
       /\ \A i \in 1..((k - 1) + (n - k)) :
             p[i] = IF i <= k - 1 THEN left[i] ELSE right[i - (k - 1)]
  BY <1>10, <1>7, <1>8, ConcatProperties
<1>12. DOMAIN p = 1..(n - 1)
  BY <1>4, <1>11, LenProperties
<1>13. ASSUME NEW i \in 1..(n - 1), i < k PROVE p[i] = q[i]
  BY <1>4, <1>7, <1>11, <1>13
<1>14. ASSUME NEW i \in 1..(n - 1), i >= k PROVE p[i] = q[i + 1]
  <2>1. p[i] = right[i - (k - 1)]
    BY <1>4, <1>11, <1>14
  <2>2. i - (k - 1) \in 1..(n - k) /\ k + (i - (k - 1)) = i + 1
    BY <1>4, <1>14
  <2> QED BY <2>1, <2>2, <1>8
<1>15. Members(p) = Members(q) \ {q[k]} /\ NoRepeat(p)
  BY <1>4, <1>12, <1>13, <1>14, CloseGap
<1> QED BY <1>1, <1>2, <1>9, <1>11, <1>15

----------------------------------------------------------------------------
(* The inductive invariant.                                                *)

IInv == TypeOK /\ QueueExact /\ SlotsExact

\* QueueExact in the terms of the lemmas above.
LEMMA QueueExactForm ==
    QueueExact <=> \A a \in Accounts : /\ Members(waiting[a]) = WaitingOn(a)
                                       /\ NoRepeat(waiting[a])
BY DEF QueueExact, Members, NoRepeat

LEMMA InitInv == Init => IInv
<1> SUFFICES ASSUME Init PROVE IInv
  OBVIOUS
<1>1. TypeOK
  BY EmptySeq, LimitsAssumption DEF Init, TypeOK, Phases, Never
<1>2. QueueExact
  BY EmptySeq DEF Init, QueueExact, WaitingOn
<1>3. SlotsExact
  <2>1. \A a \in Accounts : HoldingOn(a) = {}
    BY DEF Init, HoldingOn
  <2> QED BY <2>1, FS_EmptySet DEF Init, SlotsExact
<1> QED BY <1>1, <1>2, <1>3 DEF IInv

\* A waiter is in the queue of its account, and can leave it.
LEMMA WaiterLeaves ==
    ASSUME IInv, NEW r \in Requests, phase[r] = "waiting"
    PROVE  /\ account[r] \in Accounts
           /\ waiting[account[r]] \in Seq(Requests)
           /\ Position(waiting[account[r]], r) \in DOMAIN waiting[account[r]]
           /\ Without(waiting[account[r]], r) \in Seq(Requests)
           /\ Members(Without(waiting[account[r]], r)) = WaitingOn(account[r]) \ {r}
           /\ NoRepeat(Without(waiting[account[r]], r))
<1>1. account[r] \in Accounts /\ waiting[account[r]] \in Seq(Requests)
  BY DEF IInv, TypeOK
<1>2. /\ r \in Members(waiting[account[r]]) /\ NoRepeat(waiting[account[r]])
      /\ Members(waiting[account[r]]) = WaitingOn(account[r])
  BY <1>1, QueueExactForm DEF IInv, WaitingOn
<1> QED BY <1>1, <1>2, LeaveQueue

\* The head of a queue that is polled successfully can leave it.
LEMMA HeadLeaves ==
    ASSUME IInv, NEW r \in Requests, PollReady(r)
    PROVE  /\ account[r] \in Accounts
           /\ waiting[account[r]] \in Seq(Requests)
           /\ waiting[account[r]] # <<>>
           /\ Tail(waiting[account[r]]) \in Seq(Requests)
           /\ Members(Tail(waiting[account[r]])) = WaitingOn(account[r]) \ {r}
           /\ NoRepeat(Tail(waiting[account[r]]))
<1>1. account[r] \in Accounts /\ waiting[account[r]] \in Seq(Requests)
  BY DEF IInv, TypeOK
<1>2. /\ r \in Members(waiting[account[r]]) /\ NoRepeat(waiting[account[r]])
      /\ Members(waiting[account[r]]) = WaitingOn(account[r])
  BY <1>1, QueueExactForm DEF IInv, WaitingOn, PollReady
<1>3. waiting[account[r]] # <<>>
  BY <1>1, <1>2, EmptySeq DEF Members
<1> QED BY <1>1, <1>2, <1>3, LeaveHead DEF PollReady

LEMMA ElapsedTyped ==
    ASSUME TypeOK
    PROVE  /\ AfterDrop \in [Accounts -> 0..Never]
           /\ 0 \in 0..Never
           /\ \A a \in Accounts : AtMost(sinceStart[a] + 1, Never) \in 0..Never
           /\ \A a \in Accounts : AtMost(sinceServed[a] + 1, Never) \in 0..Never
           /\ 0 \in 0..MaxTimeout
           /\ \A r \in Requests : AtMost(age[r] + 1, MaxTimeout) \in 0..MaxTimeout
BY LimitsAssumption DEF TypeOK, AfterDrop, AtMost, Never

LEMMA PhaseTyped ==
    ASSUME TypeOK, NEW r \in Requests, NEW p \in Phases,
           phase' = [phase EXCEPT ![r] = p]
    PROVE  phase' \in [Requests -> Phases]
BY DEF TypeOK

LEMMA ActiveTyped ==
    ASSUME TypeOK, NEW a \in Accounts, active' = [active EXCEPT ![a] = @ + 1]
    PROVE  active' \in [Accounts -> Nat]
BY DEF TypeOK

\* A request that holds a slot is counted, so its slot can be given back.
LEMMA HolderCounted ==
    ASSUME IInv, NEW r \in Requests, phase[r] = "holding"
    PROVE  account[r] \in Accounts /\ active[account[r]] - 1 \in Nat
<1>1. account[r] \in Accounts
  BY DEF IInv, TypeOK
<1>2. PICK a \in Accounts : a = account[r]
  BY <1>1
<1>3. r \in HoldingOn(a) /\ IsFiniteSet(HoldingOn(a))
  BY <1>2, RequestsAssumption, FS_Subset DEF HoldingOn
<1>4. Cardinality(HoldingOn(a)) # 0 /\ Cardinality(HoldingOn(a)) \in Nat
  BY <1>3, FS_EmptySet, FS_CardinalityType
<1> QED BY <1>1, <1>2, <1>4 DEF IInv, SlotsExact

LEMMA TypeStep == IInv /\ [Next]_vars => TypeOK'
<1> SUFFICES ASSUME IInv, [Next]_vars PROVE TypeOK'
  OBVIOUS
<1>0. /\ AfterDrop \in [Accounts -> 0..Never]
      /\ 0 \in 0..Never
      /\ \A a \in Accounts : AtMost(sinceStart[a] + 1, Never) \in 0..Never
      /\ \A a \in Accounts : AtMost(sinceServed[a] + 1, Never) \in 0..Never
      /\ 0 \in 0..MaxTimeout
      /\ \A r \in Requests : AtMost(age[r] + 1, MaxTimeout) \in 0..MaxTimeout
  BY ElapsedTyped DEF IInv
<1> USE <1>0 DEF TypeOK, IInv, Phases
<1>1. CASE Tick
  BY <1>1 DEF Tick
<1>2. CASE ChangeSettings
  BY <1>2 DEF ChangeSettings
<1>3. ASSUME NEW a \in Accounts, ToggleCooling(a) PROVE TypeOK'
  BY <1>3 DEF ToggleCooling
<1>4. ASSUME NEW r \in Requests, NEW a \in Accounts, EnterFull(r, a) PROVE TypeOK'
  BY <1>4 DEF EnterFull
<1>5. ASSUME NEW r \in Requests, NEW a \in Accounts, EnterWait(r, a) PROVE TypeOK'
  <2>1. Append(waiting[a], r) \in Seq(Requests)
    BY <1>5, AppendProperties
  <2> QED BY <1>5, <2>1 DEF EnterWait
<1>6. ASSUME NEW r \in Requests, NEW a \in Accounts, EnterAtOnce(r, a) PROVE TypeOK'
  <2>1. /\ phase' \in [Requests -> Phases] /\ account' \in [Requests -> Accounts]
        /\ age' \in [Requests -> 0..MaxTimeout]
    BY <1>6 DEF EnterAtOnce
  <2>3. active' \in [Accounts -> Nat]
    BY <1>6, ActiveTyped DEF EnterAtOnce
  <2>2. sinceStart' \in [Accounts -> 0..Never] /\ sinceServed' \in [Accounts -> 0..Never]
    BY <1>6 DEF EnterAtOnce
  <2> QED BY <1>6, <2>1, <2>2, <2>3 DEF EnterAtOnce
<1>7. ASSUME NEW r \in Requests, PollTimeout(r) PROVE TypeOK'
  BY <1>7, WaiterLeaves DEF PollTimeout
<1>8. ASSUME NEW r \in Requests, PollAdmit(r) PROVE TypeOK'
  <2>1. /\ account[r] \in Accounts
        /\ Tail(waiting[account[r]]) \in Seq(Requests)
    BY <1>8, HeadLeaves DEF PollAdmit
  <2>2. phase' \in [Requests -> Phases]
    <3>1. phase' = [phase EXCEPT ![r] = "holding"] /\ "holding" \in Phases
      BY <1>8 DEF PollAdmit
    <3> QED BY <3>1, PhaseTyped
  <2>5. active' \in [Accounts -> Nat]
    BY <1>8, <2>1, ActiveTyped DEF PollAdmit
  <2>4. age' \in [Requests -> 0..MaxTimeout]
    BY <1>8 DEF PollAdmit, PollReady
  <2>3. /\ sinceStart' \in [Accounts -> 0..Never]
        /\ sinceServed' \in [Accounts -> 0..Never]
        /\ waiting' \in [Accounts -> Seq(Requests)]
    BY <1>8, <2>1 DEF PollAdmit, PollReady
  <2> QED BY <1>8, <2>2, <2>3, <2>4, <2>5 DEF PollAdmit
<1>9. ASSUME NEW r \in Requests, PollCooldown(r) PROVE TypeOK'
  <2>1. /\ account[r] \in Accounts
        /\ Tail(waiting[account[r]]) \in Seq(Requests)
    BY <1>9, HeadLeaves DEF PollCooldown
  <2>2. phase' \in [Requests -> Phases]
    <3>1. phase' = [phase EXCEPT ![r] = "cooldown"] /\ "cooldown" \in Phases
      BY <1>9 DEF PollCooldown
    <3> QED BY <3>1, PhaseTyped
  <2>5. active' \in [Accounts -> Nat]
    BY <1>9, <2>1 DEF PollCooldown
  <2>4. age' \in [Requests -> 0..MaxTimeout]
    BY <1>9 DEF PollCooldown, PollReady
  <2>3. /\ sinceStart' \in [Accounts -> 0..Never]
        /\ sinceServed' \in [Accounts -> 0..Never]
        /\ waiting' \in [Accounts -> Seq(Requests)]
    BY <1>9, <2>1 DEF PollCooldown, PollReady
  <2> QED BY <1>9, <2>2, <2>3, <2>4, <2>5 DEF PollCooldown
<1>10. ASSUME NEW r \in Requests, Cancel(r) PROVE TypeOK'
  BY <1>10, WaiterLeaves DEF Cancel
<1>11. ASSUME NEW r \in Requests, Release(r) PROVE TypeOK'
  <2>1. phase' \in [Requests -> Phases]
    <3>1. phase' = [phase EXCEPT ![r] = "free"] /\ "free" \in Phases
      BY <1>11 DEF Release
    <3> QED BY <3>1, PhaseTyped
  <2>2. account[r] \in Accounts /\ active[account[r]] - 1 \in Nat
    BY <1>11, HolderCounted DEF Release
  <2>3. active' \in [Accounts -> Nat]
    BY <1>11, <2>2 DEF Release
  <2> QED BY <1>11, <2>1, <2>3 DEF Release
<1>12. CASE UNCHANGED vars
  BY <1>12 DEF vars
<1> QED BY <1>1, <1>2, <1>3, <1>4, <1>5, <1>6, <1>7, <1>8, <1>9, <1>10, <1>11, <1>12
        DEF Next, Enter, Poll

\* If the queue of one account changes to match its waiters and nobody else's
\* changes, the queues are still exact.
LEMMA OneQueueChanges ==
    ASSUME IInv, NEW a \in Accounts, NEW q,
           waiting' = [waiting EXCEPT ![a] = q],
           NoRepeat(q), Members(q) = WaitingOn(a)',
           \A b \in Accounts : b # a => WaitingOn(b)' = WaitingOn(b)
    PROVE  QueueExact'
<1>1. \A b \in Accounts : /\ Members(waiting[b]) = WaitingOn(b)
                          /\ NoRepeat(waiting[b])
  BY QueueExactForm DEF IInv
<1>2. \A b \in Accounts : waiting'[b] = IF b = a THEN q ELSE waiting[b]
  BY DEF IInv, TypeOK
<1>3. \A b \in Accounts : Members(waiting'[b]) = WaitingOn(b)' /\ NoRepeat(waiting'[b])
  BY <1>1, <1>2
<1> QED BY <1>3 DEF QueueExact, Members, NoRepeat

LEMMA QueueStep == IInv /\ [Next]_vars => QueueExact'
<1> SUFFICES ASSUME IInv, [Next]_vars PROVE QueueExact'
  OBVIOUS
<1>0. ASSUME waiting' = waiting, \A a \in Accounts : WaitingOn(a)' = WaitingOn(a)
      PROVE  QueueExact'
  BY <1>0 DEF IInv, QueueExact
<1>1. CASE Tick
  BY <1>0, <1>1 DEF Tick, WaitingOn
<1>2. CASE ChangeSettings
  BY <1>0, <1>2 DEF ChangeSettings, WaitingOn
<1>3. ASSUME NEW a \in Accounts, ToggleCooling(a) PROVE QueueExact'
  BY <1>0, <1>3 DEF ToggleCooling, WaitingOn
<1>4. ASSUME NEW r \in Requests, NEW a \in Accounts, EnterFull(r, a) PROVE QueueExact'
  <2>1. \A b \in Accounts : WaitingOn(b)' = WaitingOn(b)
    BY <1>4 DEF EnterFull, WaitingOn, InCall, IInv, TypeOK
  <2> QED BY <1>0, <1>4, <2>1 DEF EnterFull
<1>5. ASSUME NEW r \in Requests, NEW a \in Accounts, EnterWait(r, a) PROVE QueueExact'
  <2>1. /\ waiting[a] \in Seq(Requests) /\ NoRepeat(waiting[a])
        /\ Members(waiting[a]) = WaitingOn(a)
    BY QueueExactForm DEF IInv, TypeOK
  <2>2. r \notin WaitingOn(a)
    BY <1>5 DEF EnterWait, InCall, WaitingOn
  <2>3. /\ Members(Append(waiting[a], r)) = WaitingOn(a) \cup {r}
        /\ NoRepeat(Append(waiting[a], r))
    BY <2>1, <2>2, JoinQueue
  <2>4. /\ WaitingOn(a)' = WaitingOn(a) \cup {r}
        /\ \A b \in Accounts : b # a => WaitingOn(b)' = WaitingOn(b)
    BY <1>5 DEF EnterWait, InCall, WaitingOn, IInv, TypeOK
  <2>5. waiting' = [waiting EXCEPT ![a] = Append(waiting[a], r)]
    BY <1>5 DEF EnterWait
  <2> QED BY <2>3, <2>4, <2>5, OneQueueChanges
<1>6. ASSUME NEW r \in Requests, NEW a \in Accounts, EnterAtOnce(r, a) PROVE QueueExact'
  <2>1. \A b \in Accounts : WaitingOn(b)' = WaitingOn(b)
    BY <1>6 DEF EnterAtOnce, WaitingOn, InCall, IInv, TypeOK
  <2> QED BY <1>0, <1>6, <2>1 DEF EnterAtOnce
<1>7. ASSUME NEW r \in Requests, phase[r] = "waiting", account' = account,
             NEW p, p # "waiting", phase' = [phase EXCEPT ![r] = p]
      PROVE  /\ WaitingOn(account[r])' = WaitingOn(account[r]) \ {r}
             /\ \A b \in Accounts : b # account[r] => WaitingOn(b)' = WaitingOn(b)
  BY <1>7 DEF WaitingOn, IInv, TypeOK
<1>8. ASSUME NEW r \in Requests, PollTimeout(r) \/ Cancel(r) PROVE QueueExact'
  <2> DEFINE a == account[r]
             q == Without(waiting[a], r)
  <2>1. a \in Accounts /\ Members(q) = WaitingOn(a) \ {r} /\ NoRepeat(q)
    BY <1>8, WaiterLeaves DEF PollTimeout, Cancel
  <2>2. waiting' = [waiting EXCEPT ![a] = q]
    BY <1>8 DEF PollTimeout, Cancel
  <2>3. /\ WaitingOn(a)' = WaitingOn(a) \ {r}
        /\ \A b \in Accounts : b # a => WaitingOn(b)' = WaitingOn(b)
    BY <1>7, <1>8 DEF PollTimeout, Cancel
  <2> HIDE DEF a, q
  <2>4. PICK c \in Accounts : c = account[r]
    BY <2>1 DEF a
  <2>5. /\ Members(q) = WaitingOn(c)' /\ NoRepeat(q)
        /\ waiting' = [waiting EXCEPT ![c] = q]
        /\ \A b \in Accounts : b # c => WaitingOn(b)' = WaitingOn(b)
    BY <2>1, <2>2, <2>3, <2>4, <1>8 DEF a, PollTimeout, Cancel
  <2> QED BY <2>5, OneQueueChanges
<1>9. ASSUME NEW r \in Requests, PollAdmit(r) \/ PollCooldown(r) PROVE QueueExact'
  <2> DEFINE a == account[r]
             q == Tail(waiting[a])
  <2>0. PollReady(r) /\ account' = account
    BY <1>9 DEF PollAdmit, PollCooldown
  <2>1. a \in Accounts /\ Members(q) = WaitingOn(a) \ {r} /\ NoRepeat(q)
    BY <2>0, HeadLeaves
  <2>2. waiting' = [waiting EXCEPT ![a] = q]
    BY <2>0 DEF PollReady
  <2>3. /\ WaitingOn(a)' = WaitingOn(a) \ {r}
        /\ \A b \in Accounts : b # a => WaitingOn(b)' = WaitingOn(b)
    BY <1>7, <1>9 DEF PollAdmit, PollCooldown, PollReady
  <2> HIDE DEF a, q
  <2>4. PICK c \in Accounts : c = account[r]
    BY <2>1 DEF a
  <2>5. /\ Members(q) = WaitingOn(c)' /\ NoRepeat(q)
        /\ waiting' = [waiting EXCEPT ![c] = q]
        /\ \A b \in Accounts : b # c => WaitingOn(b)' = WaitingOn(b)
    BY <2>0, <2>1, <2>2, <2>3, <2>4 DEF a
  <2> QED BY <2>5, OneQueueChanges
<1>10. ASSUME NEW r \in Requests, Release(r) PROVE QueueExact'
  <2>1. \A b \in Accounts : WaitingOn(b)' = WaitingOn(b)
    BY <1>10 DEF Release, WaitingOn, IInv, TypeOK
  <2> QED BY <1>0, <1>10, <2>1 DEF Release
<1>11. CASE UNCHANGED vars
  BY <1>0, <1>11 DEF vars, WaitingOn
<1> QED BY <1>1, <1>2, <1>3, <1>4, <1>5, <1>6, <1>8, <1>9, <1>10, <1>11
        DEF Next, Enter, Poll

\* A request that starts, or ends, holding account a.
LEMMA OneHolderMore ==
    ASSUME IInv, NEW a \in Accounts, NEW r \in Requests, r \notin HoldingOn(a),
           active' = [active EXCEPT ![a] = @ + 1],
           HoldingOn(a)' = HoldingOn(a) \cup {r},
           \A b \in Accounts : b # a => HoldingOn(b)' = HoldingOn(b)
    PROVE  SlotsExact'
<1>1. IsFiniteSet(HoldingOn(a))
  BY RequestsAssumption, FS_Subset DEF HoldingOn
<1>2. Cardinality(HoldingOn(a)') = Cardinality(HoldingOn(a)) + 1
  BY <1>1, FS_AddElement
<1> QED BY <1>2 DEF SlotsExact, IInv, TypeOK

LEMMA OneHolderLess ==
    ASSUME IInv, NEW a \in Accounts, NEW r \in HoldingOn(a),
           active' = [active EXCEPT ![a] = @ - 1],
           HoldingOn(a)' = HoldingOn(a) \ {r},
           \A b \in Accounts : b # a => HoldingOn(b)' = HoldingOn(b)
    PROVE  SlotsExact'
<1>1. IsFiniteSet(HoldingOn(a))
  BY RequestsAssumption, FS_Subset DEF HoldingOn
<1>2. Cardinality(HoldingOn(a)') = Cardinality(HoldingOn(a)) - 1
  BY <1>1, FS_RemoveElement
<1> QED BY <1>2 DEF SlotsExact, IInv, TypeOK

LEMMA SlotsStep == IInv /\ [Next]_vars => SlotsExact'
<1> SUFFICES ASSUME IInv, [Next]_vars PROVE SlotsExact'
  OBVIOUS
<1>0. ASSUME active' = active, \A a \in Accounts : HoldingOn(a)' = HoldingOn(a)
      PROVE  SlotsExact'
  BY <1>0 DEF IInv, SlotsExact
<1>1. CASE Tick \/ ChangeSettings \/ UNCHANGED vars
  BY <1>0, <1>1 DEF Tick, ChangeSettings, vars, HoldingOn
<1>2. ASSUME NEW a \in Accounts, ToggleCooling(a) PROVE SlotsExact'
  BY <1>0, <1>2 DEF ToggleCooling, HoldingOn
<1>3. ASSUME NEW r \in Requests, NEW a \in Accounts, EnterFull(r, a) \/ EnterWait(r, a)
      PROVE  SlotsExact'
  <2>1. \A b \in Accounts : HoldingOn(b)' = HoldingOn(b)
    BY <1>3 DEF EnterFull, EnterWait, HoldingOn, InCall, IInv, TypeOK
  <2> QED BY <1>0, <1>3, <2>1 DEF EnterFull, EnterWait
<1>4. ASSUME NEW r \in Requests, NEW a \in Accounts, EnterAtOnce(r, a) PROVE SlotsExact'
  <2>1. /\ r \notin HoldingOn(a)
        /\ HoldingOn(a)' = HoldingOn(a) \cup {r}
        /\ \A b \in Accounts : b # a => HoldingOn(b)' = HoldingOn(b)
    BY <1>4 DEF EnterAtOnce, HoldingOn, InCall, IInv, TypeOK
  <2> QED BY <1>4, <2>1, OneHolderMore DEF EnterAtOnce
<1>5. ASSUME NEW r \in Requests, PollTimeout(r) \/ Cancel(r) \/ PollCooldown(r)
      PROVE  SlotsExact'
  <2>1. \A b \in Accounts : HoldingOn(b)' = HoldingOn(b)
    BY <1>5 DEF PollTimeout, Cancel, PollCooldown, PollReady, HoldingOn, IInv, TypeOK
  <2> QED BY <1>0, <1>5, <2>1 DEF PollTimeout, Cancel, PollCooldown
<1>6. ASSUME NEW r \in Requests, PollAdmit(r) PROVE SlotsExact'
  <2>1. PICK c \in Accounts : c = account[r]
    BY DEF IInv, TypeOK
  <2>2. /\ r \notin HoldingOn(c)
        /\ HoldingOn(c)' = HoldingOn(c) \cup {r}
        /\ \A b \in Accounts : b # c => HoldingOn(b)' = HoldingOn(b)
    BY <1>6, <2>1 DEF PollAdmit, PollReady, HoldingOn, IInv, TypeOK
  <2> QED BY <1>6, <2>1, <2>2, OneHolderMore DEF PollAdmit
<1>7. ASSUME NEW r \in Requests, Release(r) PROVE SlotsExact'
  <2>1. PICK c \in Accounts : c = account[r]
    BY DEF IInv, TypeOK
  <2>2. /\ r \in HoldingOn(c)
        /\ HoldingOn(c)' = HoldingOn(c) \ {r}
        /\ \A b \in Accounts : b # c => HoldingOn(b)' = HoldingOn(b)
    BY <1>7, <2>1 DEF Release, HoldingOn, IInv, TypeOK
  <2> QED BY <1>7, <2>1, <2>2, OneHolderLess DEF Release
<1> QED BY <1>1, <1>2, <1>3, <1>4, <1>5, <1>6, <1>7 DEF Next, Enter, Poll

\* Types, exact queues and exact slot counts together are inductive: a queue
\* could not be left by its waiters, nor the head of one be admitted, if the
\* deque and the phases of the requests ever disagreed.
THEOREM Inductive == Spec => []IInv
<1>1. IInv /\ [Next]_vars => IInv'
  BY TypeStep, QueueStep, SlotsStep DEF IInv
<1> QED BY InitInv, <1>1, PTL DEF Spec

\* Every variable keeps its type, whatever the requests do.
THEOREM TypeCorrect == Spec => []TypeOK
<1>1. IInv => TypeOK
  BY DEF IInv
<1> QED BY <1>1, Inductive, PTL

\* The deque of an account holds its waiters, each once, and nobody else:
\* account_slot's finally block never leaves a ghost token behind.
THEOREM QueueCorrect == Spec => []QueueExact
<1>1. IInv => QueueExact
  BY DEF IInv
<1> QED BY <1>1, Inductive, PTL

\* _State.active is the number of requests in flight: no way of ending a
\* request leaks a slot or gives one back twice.
THEOREM SlotsCorrect == Spec => []SlotsExact
<1>1. IInv => SlotsExact
  BY DEF IInv
<1> QED BY <1>1, Inductive, PTL

----------------------------------------------------------------------------
(* Pacing.                                                                 *)

\* The elapsed time the admission test reads never exceeds the time since a
\* request really started: dropping an idle entry forgets nothing.
Paced == \A a \in Accounts : sinceServed[a] >= sinceStart[a]

LEMMA DropForgetsNothing == TypeOK => AfterDrop = sinceStart
BY LimitsAssumption DEF TypeOK, AfterDrop, Droppable, Never

LEMMA PacedStep == TypeOK /\ Paced /\ [Next]_vars => Paced'
<1> SUFFICES ASSUME TypeOK, Paced, [Next]_vars PROVE Paced'
  OBVIOUS
<1>1. AfterDrop = sinceStart
  BY DropForgetsNothing
<1>2. CASE UNCHANGED <<sinceStart, sinceServed>>
  BY <1>2 DEF Paced
<1>3. CASE Tick
  <2>1. \A a \in Accounts : /\ sinceStart[a] \in 0..Never /\ sinceServed[a] \in 0..Never
                            /\ sinceServed[a] >= sinceStart[a]
    BY DEF TypeOK, Paced
  <2>2. \A a \in Accounts : /\ sinceStart'[a] = AtMost(sinceStart[a] + 1, Never)
                            /\ sinceServed'[a] = AtMost(sinceServed[a] + 1, Never)
    BY <1>3 DEF Tick
  <2> QED BY <2>1, <2>2, LimitsAssumption DEF Paced, AtMost, Never
<1>4. ASSUME NEW r \in Requests, NEW a \in Accounts, EnterFull(r, a) \/ EnterWait(r, a)
      PROVE  Paced'
  BY <1>1, <1>2, <1>4 DEF EnterFull, EnterWait
<1>5. ASSUME NEW r \in Requests, NEW a \in Accounts, EnterAtOnce(r, a) PROVE Paced'
  <2>1. \A b \in Accounts :
          /\ sinceStart'[b] = IF b = a THEN 0 ELSE sinceStart[b]
          /\ sinceServed'[b] = IF b = a THEN 0 ELSE sinceServed[b]
    BY <1>1, <1>5 DEF EnterAtOnce, TypeOK
  <2> QED BY <2>1 DEF Paced
<1>6. ASSUME NEW r \in Requests, PollAdmit(r) PROVE Paced'
  <2>1. \A b \in Accounts :
          /\ sinceStart'[b] = IF b = account[r] THEN 0 ELSE sinceStart[b]
          /\ sinceServed'[b] = IF b = account[r] THEN 0 ELSE sinceServed[b]
    BY <1>6 DEF PollAdmit, PollReady, TypeOK
  <2> QED BY <2>1 DEF Paced
<1>7. ASSUME NEW r \in Requests, PollCooldown(r) PROVE Paced'
  <2>1. \A b \in Accounts :
          /\ sinceStart'[b] = IF b = account[r] THEN 0 ELSE sinceStart[b]
          /\ sinceServed'[b] = sinceServed[b] /\ sinceServed[b] \in 0..Never
    BY <1>7 DEF PollCooldown, PollReady, TypeOK
  <2> QED BY <2>1 DEF Paced
<1> QED BY <1>2, <1>3, <1>4, <1>5, <1>6, <1>7
        DEF Next, Enter, Poll, ChangeSettings, ToggleCooling, PollTimeout, Cancel,
            Release, vars

\* A request starts upstream only after the interval in force has passed since
\* the last one that really started on its account.
THEOREM PacingCorrect == Spec => StartsPaced
<1>1. Init => Paced
  BY LimitsAssumption DEF Init, Paced, Never
<1>2. TypeOK /\ Paced /\ [Next]_vars =>
        [\A r \in Requests :
           phase[r] # "holding" /\ phase'[r] = "holding"
             => sinceServed[account'[r]] >= Interval(stored)]_vars
  <2> SUFFICES ASSUME TypeOK, Paced, Next, NEW s \in Requests,
                      phase[s] # "holding", phase'[s] = "holding"
               PROVE  sinceServed[account'[s]] >= Interval(stored)
    OBVIOUS
  <2>1. Interval(stored) \in Int
    <3>1. stored.interval \in Int
      BY StoredAssumption DEF TypeOK, Settings
    <3> QED BY <3>1, LimitsAssumption DEF Interval, AtMost, Accepted
  <2>2. \A a \in Accounts : sinceStart[a] \in Int /\ sinceServed[a] \in Int
                            /\ sinceServed[a] >= sinceStart[a]
    BY LimitsAssumption DEF TypeOK, Paced, Never
  <2>3. ASSUME NEW r \in Requests, NEW a \in Accounts, EnterAtOnce(r, a)
        PROVE  sinceServed[account'[s]] >= Interval(stored)
    <3>1. r = s /\ account'[s] = a /\ sinceStart[a] >= Interval(stored)
      BY <2>3 DEF EnterAtOnce, Admissible, TypeOK
    <3> QED BY <3>1, <2>1, <2>2
  <2>4. ASSUME NEW r \in Requests, PollAdmit(r)
        PROVE  sinceServed[account'[s]] >= Interval(stored)
    <3>1. r = s /\ account'[s] = account[s] /\ sinceStart[account[s]] >= Interval(stored)
      BY <2>4 DEF PollAdmit, PollReady, Admissible, TypeOK
    <3>2. account[s] \in Accounts
      BY DEF TypeOK
    <3> QED BY <3>1, <3>2, <2>1, <2>2
  <2>5. ASSUME NEW r \in Requests,
               \/ PollTimeout(r) \/ PollCooldown(r) \/ Cancel(r) \/ Release(r)
               \/ \E a \in Accounts : EnterFull(r, a) \/ EnterWait(r, a)
        PROVE  FALSE
    BY <2>5 DEF PollTimeout, PollCooldown, Cancel, Release, EnterFull, EnterWait, TypeOK
  <2>6. CASE Tick \/ ChangeSettings \/ \E a \in Accounts : ToggleCooling(a)
    BY <2>6 DEF Tick, ChangeSettings, ToggleCooling
  <2> QED BY <2>3, <2>4, <2>5, <2>6 DEF Next, Enter, Poll
<1> QED BY <1>1, <1>2, PacedStep, TypeCorrect, PTL DEF Spec, StartsPaced

----------------------------------------------------------------------------
(* The refinement.                                                         *)

LEMMA CapTyped ==
    ASSUME NEW s \in Settings
    PROVE  Cap(s) \in 0..MaxCap
<1>1. s.cap \in Int
  BY StoredAssumption DEF Settings
<1> QED BY <1>1, LimitsAssumption DEF Cap, AtMost, Accepted

\* busy after a step, from the holders after it.
LEMMA BusyAfter ==
    ASSUME NEW a \in Accounts, NEW h, HoldingOn(a)' = h,
           \A b \in Accounts : b # a => HoldingOn(b)' = HoldingOn(b)
    PROVE  [b \in Accounts |-> HoldingOn(b)]' = [[b \in Accounts |-> HoldingOn(b)] EXCEPT ![a] = h]
OBVIOUS

LEMMA BusySame ==
    ASSUME \A b \in Accounts : HoldingOn(b)' = HoldingOn(b)
    PROVE  [b \in Accounts |-> HoldingOn(b)]' = [b \in Accounts |-> HoldingOn(b)]
OBVIOUS

LEMMA ServiceInit == Init => Service!Init
<1> SUFFICES ASSUME Init PROVE Service!Init
  OBVIOUS
<1>1. \A a \in Accounts : HoldingOn(a) = {}
  BY DEF Init, HoldingOn
<1>2. Cap(stored) \in 0..MaxCap
  BY CapTyped DEF Init
<1> QED BY <1>1, <1>2 DEF Init, Service!Init

\* Steps that leave the queues, the holders and the cap alone.
LEMMA Stutters ==
    ASSUME waiting' = waiting, stored' = stored,
           \A a \in Accounts : HoldingOn(a)' = HoldingOn(a)
    PROVE  UNCHANGED Service!vars
BY BusySame DEF Service!vars

\* A request not in a call is away from every queue and every slot.
LEMMA NotInCallIsAway ==
    ASSUME IInv, NEW r \in Requests, ~InCall(r)
    PROVE  Service!Away(r)
<1>1. \A a \in Accounts : r \notin HoldingOn(a) /\ r \notin WaitingOn(a)
  BY DEF InCall, HoldingOn, WaitingOn
<1>2. \A a \in Accounts : Service!Queued(a) = WaitingOn(a)
  BY DEF IInv, QueueExact, Service!Queued
<1> QED BY <1>1, <1>2 DEF Service!Away

\* The admission test is the room the service asks for.
LEMMA AdmissibleHasRoom ==
    ASSUME IInv, NEW a \in Accounts, Admissible(a)
    PROVE  Service!Room(a)
<1>1. [b \in Accounts |-> HoldingOn(b)][a] = HoldingOn(a)
  OBVIOUS
<1>2. active[a] = Cardinality(HoldingOn(a))
  BY DEF IInv, SlotsExact
<1>3. Cap(stored) = 0 \/ Cardinality(HoldingOn(a)) < Cap(stored)
  BY <1>2 DEF Admissible
<1>4. CASE Cap(stored) = 0
  BY <1>4 DEF Service!Room
<1>5. CASE Cardinality(HoldingOn(a)) < Cap(stored)
  <2>1. Service!Cardinality(HoldingOn(a)) = Cardinality(HoldingOn(a))
    BY DEF Service!Cardinality, Cardinality
  <2> QED BY <1>1, <1>5, <2>1 DEF Service!Room
<1> QED BY <1>3, <1>4, <1>5

LEMMA ServiceStep == IInv /\ IInv' /\ [Next]_vars => [Service!Next]_(Service!vars)
<1> SUFFICES ASSUME IInv, IInv', [Next]_vars PROVE Service!Next \/ UNCHANGED Service!vars
  OBVIOUS
<1>1. CASE Tick \/ UNCHANGED vars \/ \E a \in Accounts : ToggleCooling(a)
  BY <1>1, Stutters DEF Tick, ToggleCooling, vars, HoldingOn
<1>2. CASE ChangeSettings
  <2>1. \A b \in Accounts : HoldingOn(b)' = HoldingOn(b)
    BY <1>2 DEF ChangeSettings, HoldingOn
  <2>2. Cap(stored') \in 0..MaxCap
    BY <1>2, CapTyped DEF ChangeSettings
  <2>3. Service!ChangeLimit
    BY <1>2, <2>1, <2>2, BusySame DEF ChangeSettings, Service!ChangeLimit
  <2> QED BY <2>3 DEF Service!Next
<1>3. ASSUME NEW r \in Requests, NEW a \in Accounts, EnterFull(r, a)
      PROVE  UNCHANGED Service!vars
  <2>1. \A b \in Accounts : HoldingOn(b)' = HoldingOn(b)
    BY <1>3 DEF EnterFull, HoldingOn, InCall, IInv, TypeOK
  <2> QED BY <1>3, <2>1, Stutters DEF EnterFull
<1>4. ASSUME NEW r \in Requests, NEW a \in Accounts, EnterWait(r, a) PROVE Service!Next
  <2>1. \A b \in Accounts : HoldingOn(b)' = HoldingOn(b)
    BY <1>4 DEF EnterWait, HoldingOn, InCall, IInv, TypeOK
  <2>2. Service!Join(r, a)
    BY <1>4, <2>1, BusySame, NotInCallIsAway DEF EnterWait, Service!Join
  <2> QED BY <2>2 DEF Service!Next
<1>5. ASSUME NEW r \in Requests, NEW a \in Accounts, EnterAtOnce(r, a) PROVE Service!Next
  <2>1. /\ HoldingOn(a)' = HoldingOn(a) \cup {r}
        /\ \A b \in Accounts : b # a => HoldingOn(b)' = HoldingOn(b)
    BY <1>5 DEF EnterAtOnce, HoldingOn, InCall, IInv, TypeOK
  <2>2. Service!Room(a) /\ Service!Away(r)
    BY <1>5, AdmissibleHasRoom, NotInCallIsAway DEF EnterAtOnce
  <2>3. Service!StartAtOnce(r, a)
    BY <1>5, <2>1, <2>2, BusyAfter DEF EnterAtOnce, Service!StartAtOnce
  <2> QED BY <2>3 DEF Service!Next
<1>6. ASSUME NEW r \in Requests, PollTimeout(r) \/ Cancel(r) PROVE Service!Next
  <2>1. \A b \in Accounts : HoldingOn(b)' = HoldingOn(b)
    BY <1>6 DEF PollTimeout, Cancel, HoldingOn, IInv, TypeOK
  <2>2. PICK c \in Accounts : c = account[r]
    BY DEF IInv, TypeOK
  <2>3. /\ Position(waiting[c], r) \in DOMAIN waiting[c]
        /\ waiting' = [waiting EXCEPT ![c] = Without(@, r)]
        /\ stored' = stored
    BY <1>6, <2>2, WaiterLeaves DEF PollTimeout, Cancel
  <2>4. Without(waiting[c], r) = Service!Leaving(waiting[c], Position(waiting[c], r))
    BY DEF Without, Service!Leaving
  <2>5. Service!GiveUp(c)
    BY <2>1, <2>3, <2>4, BusySame DEF Service!GiveUp
  <2> QED BY <2>5 DEF Service!Next
<1>7. ASSUME NEW r \in Requests, PollAdmit(r) PROVE Service!Next
  <2>1. PICK c \in Accounts : c = account[r]
    BY DEF IInv, TypeOK
  <2>2. /\ HoldingOn(c)' = HoldingOn(c) \cup {r}
        /\ \A b \in Accounts : b # c => HoldingOn(b)' = HoldingOn(b)
    <3>1. /\ phase' = [phase EXCEPT ![r] = "holding"] /\ phase[r] = "waiting"
          /\ account' = account /\ DOMAIN phase = Requests
      BY <1>7 DEF PollAdmit, PollReady, IInv, TypeOK
    <3> QED BY <2>1, <3>1 DEF HoldingOn
  <2>3. waiting[c] # <<>> /\ Head(waiting[c]) = r /\ Service!Room(c)
    <3>1. waiting[c] # <<>> /\ Head(waiting[c]) = r
      BY <1>7, <2>1, HeadLeaves DEF PollAdmit, PollReady
    <3>2. Service!Room(c)
      BY <1>7, <2>1, AdmissibleHasRoom DEF PollAdmit, PollReady
    <3> QED BY <3>1, <3>2
  <2>4. Service!StartHead(c)
    BY <1>7, <2>1, <2>2, <2>3, BusyAfter DEF PollAdmit, PollReady, Service!StartHead
  <2> QED BY <2>4 DEF Service!Next
<1>8. ASSUME NEW r \in Requests, PollCooldown(r) PROVE Service!Next
  <2>1. \A b \in Accounts : HoldingOn(b)' = HoldingOn(b)
    BY <1>8 DEF PollCooldown, PollReady, HoldingOn, IInv, TypeOK
  <2>2. PICK c \in Accounts : c = account[r]
    BY DEF IInv, TypeOK
  <2>3. /\ waiting[c] \in Seq(Requests) /\ waiting[c] # <<>>
        /\ waiting' = [waiting EXCEPT ![c] = Tail(@)]
        /\ stored' = stored
    BY <1>8, <2>2, HeadLeaves DEF PollCooldown, PollReady
  <2>4. 1 \in DOMAIN waiting[c]
    BY <2>3, LenProperties, EmptySeq
  <2>5. Tail(waiting[c]) = Service!Leaving(waiting[c], 1)
    <3>1. SubSeq(waiting[c], 1, 1 - 1) = <<>>
      BY SubSeqEmpty
    <3>2. Tail(waiting[c]) = SubSeq(waiting[c], 1 + 1, Len(waiting[c]))
      BY <2>3, TailIsSubSeq
    <3>3. Tail(waiting[c]) \in Seq(Requests)
      BY <2>3, HeadTailProperties
    <3>4. <<>> \o Tail(waiting[c]) = Tail(waiting[c])
      BY <3>3, ConcatEmptySeq
    <3> QED BY <3>1, <3>2, <3>4 DEF Service!Leaving
  <2>6. Service!GiveUp(c)
    BY <2>1, <2>3, <2>4, <2>5, BusySame DEF Service!GiveUp
  <2> QED BY <2>6 DEF Service!Next
<1>9. ASSUME NEW r \in Requests, Release(r) PROVE Service!Next
  <2>1. PICK c \in Accounts : c = account[r]
    BY DEF IInv, TypeOK
  <2>2. /\ r \in HoldingOn(c)
        /\ HoldingOn(c)' = HoldingOn(c) \ {r}
        /\ \A b \in Accounts : b # c => HoldingOn(b)' = HoldingOn(b)
    BY <1>9, <2>1 DEF Release, HoldingOn, IInv, TypeOK
  <2>3. Service!Finish(r, c)
    BY <1>9, <2>1, <2>2, BusyAfter DEF Release, Service!Finish
  <2> QED BY <2>3 DEF Service!Next
<1> QED BY <1>1, <1>2, <1>3, <1>4, <1>5, <1>6, <1>7, <1>8, <1>9 DEF Next, Enter, Poll

\* The polled deque implements the first-come-first-served service: requests
\* are admitted in the order they queued and never beyond the limit in force,
\* whoever times out, is cancelled or finds its account in a cooldown.
THEOREM ServiceCorrect == Spec => ServesInOrder
<1> QED BY Inductive, ServiceInit, ServiceStep, PTL DEF Spec, ServesInOrder, Service!Spec

----------------------------------------------------------------------------
(***************************************************************************)
(* AccountHealth: the account's failures and cooldowns.                    *)
(***************************************************************************)

Entries == [count : 0..MaxCount, left : Nat, quiet : 0..(Decay + 1)]

\* The counter of the code and the history of failures tell the same story
\* until a quiet decay window has passed.
StreakIsCount ==
    \A a \in Pool :
        /\ entry[a].count > 0 => /\ entry[a].quiet = sinceFail[a]
                                 /\ streak[a] = entry[a].count
        /\ entry[a].count = 0 => streak[a] = 0 \/ sinceFail[a] > Decay

HealthInv == HealthTypeOK /\ NeverStranded /\ BackoffFollowsStreak /\ StreakIsCount

----------------------------------------------------------------------------
(* The operators                                                           *)

\* No backoff exceeds the cap.
LEMMA BackoffBound ==
    ASSUME NEW count \in 1..MaxCount, NEW code \in Codes
    PROVE  Backoff(count, code) \in Int /\ Backoff(count, code) <= BackoffCap
<1> DEFINE n == Smaller(count - 1, MaxDoublings)
<1>1. n \in Nat
  BY HealthAssumption DEF MaxCount, Smaller
<1>2. 2 ^ n \in Int
  BY <1>1, SMT
<1>3. Base(code) \in Nat
  BY HealthAssumption DEF Base
<1> HIDE DEF n
<1>4. Base(code) * 2 ^ n \in Int
  BY <1>2, <1>3
<1>5. Backoff(count, code) = Smaller(BackoffCap, Base(code) * 2 ^ n)
  BY DEF Backoff, n
<1> QED BY <1>4, <1>5, HealthAssumption DEF Smaller

\* A hint lengthens the cooldown up to its cap and never shortens the backoff.
LEMMA CooldownBound ==
    ASSUME NEW count \in 1..MaxCount, NEW code \in Codes, NEW hint \in Hints
    PROVE  /\ Cooldown(count, code, hint) \in Int
           /\ Backoff(count, code) <= Cooldown(count, code, hint)
           /\ Cooldown(count, code, hint) <= HintMax
BY BackoffBound, HealthAssumption DEF Cooldown, Larger, Smaller

\* The count a failure leaves behind.
CountAfter(e) == Smaller((IF e.count > 0 /\ e.quiet > Decay THEN 0 ELSE e.count) + 1, MaxCount)

\* A failure keeps the longer of the cooldown it finds and the one it earns.
LEMMA FailedEntry ==
    ASSUME NEW e \in Entries, NEW code \in Codes, NEW hint \in Hints
    PROVE  LET f == Failed(e, code, hint)
           IN  /\ f \in Entries
               /\ f.count = CountAfter(e) /\ f.count \in 1..MaxCount
               /\ f.quiet = 0
               /\ f.left >= e.left
               /\ f.left >= Backoff(CountAfter(e), code)
               /\ e.left <= HintMax => f.left <= HintMax
<1> DEFINE c == CountAfter(e)
<1>1. c \in 1..MaxCount
  BY HealthAssumption DEF CountAfter, Entries, MaxCount, Smaller
<1>2. /\ Cooldown(c, code, hint) \in Int
      /\ Backoff(c, code) <= Cooldown(c, code, hint)
      /\ Cooldown(c, code, hint) <= HintMax
      /\ Backoff(c, code) \in Int
  BY <1>1, CooldownBound, BackoffBound
<1>3. Failed(e, code, hint) = [count |-> c, left |-> Larger(e.left, Cooldown(c, code, hint)),
                               quiet |-> 0]
  BY DEF Failed, CountAfter
<1>4. e.left \in Nat
  BY DEF Entries
<1> HIDE DEF c
<1>5. 0 \in 0..(Decay + 1) /\ HintMax \in Nat /\ MaxCount \in Nat
  BY HealthAssumption DEF MaxCount
<1>6. /\ Larger(e.left, Cooldown(c, code, hint)) \in Nat
      /\ Larger(e.left, Cooldown(c, code, hint)) >= e.left
      /\ Larger(e.left, Cooldown(c, code, hint)) >= Backoff(c, code)
      /\ e.left <= HintMax => Larger(e.left, Cooldown(c, code, hint)) <= HintMax
  BY <1>2, <1>4, <1>5 DEF Larger
<1>7. Failed(e, code, hint) \in Entries
  BY <1>1, <1>3, <1>5, <1>6 DEF Entries
<1> QED BY <1>1, <1>3, <1>6, <1>7 DEF c

\* Looking at an entry drops it only when its cooldown is over and a quiet
\* window has passed.
LEMMA ConsultedEntry ==
    ASSUME NEW e \in Entries
    PROVE  /\ Consulted(e) \in Entries
           /\ Consulted(e) = e \/ (e.left = 0 /\ e.quiet > Decay /\ Consulted(e) = NoEntry)
BY HealthAssumption DEF Consulted, Entries, NoEntry, MaxCount

\* Time takes one unit off the cooldown.
LEMMA AgedEntry ==
    ASSUME NEW e \in Entries
    PROVE  LET f == Aged(e)
           IN  /\ f \in Entries
               /\ f.count = e.count
               /\ f.left = Larger(e.left - 1, 0)
               /\ f.quiet = IF e.count > 0 THEN Smaller(e.quiet + 1, Decay + 1) ELSE e.quiet
<1> DEFINE l == Larger(e.left - 1, 0)
           q == IF e.count > 0 THEN Smaller(e.quiet + 1, Decay + 1) ELSE e.quiet
<1>1. e.count \in 0..MaxCount /\ e.left \in Nat /\ e.quiet \in 0..(Decay + 1)
  BY DEF Entries
<1>2. l \in Nat /\ q \in 0..(Decay + 1)
  BY <1>1, HealthAssumption DEF Larger, Smaller
<1>3. e = [count |-> e.count, left |-> e.left, quiet |-> e.quiet]
  BY DEF Entries
<1>4. Aged(e) = [e EXCEPT !.left = l, !.quiet = q]
  BY DEF Aged
<1> HIDE DEF l, q
<1>5. Aged(e) = [count |-> e.count, left |-> l, quiet |-> q]
  BY <1>3, <1>4
<1>6. Aged(e) \in Entries
  BY <1>1, <1>2, <1>5 DEF Entries
<1> QED BY <1>5, <1>6 DEF l, q

----------------------------------------------------------------------------
\* The initial state satisfies the invariant.
LEMMA HealthInitInv == HealthInit => HealthInv
<1> SUFFICES ASSUME HealthInit PROVE HealthInv
  OBVIOUS
<1>1. NoEntry \in Entries /\ 0 \in 0..MaxCount /\ 0 \in 0..(Decay + 1)
  BY HealthAssumption DEF NoEntry, Entries, MaxCount
<1>2. HealthTypeOK
  BY <1>1 DEF HealthInit, HealthTypeOK, Entries, Codes
<1> QED BY <1>2, HealthAssumption
        DEF HealthInit, HealthInv, NeverStranded, BackoffFollowsStreak, StreakIsCount, NoEntry

\* What the invariant says of one account.
Healthy(e, s, t, c) ==
    /\ e \in Entries /\ s \in 0..MaxCount /\ t \in 0..(Decay + 1) /\ c \in Codes
    /\ e.left <= HintMax
    /\ s > 0 => e.left + t >= Backoff(s, c)
    /\ e.count > 0 => e.quiet = t /\ s = e.count
    /\ e.count = 0 => s = 0 \/ t > Decay

\* The invariant is that of every account, and the types of the rest.
LEMMA InvByAccount ==
    HealthInv <=> /\ entry \in [Pool -> Entries] /\ streak \in [Pool -> 0..MaxCount]
             /\ sinceFail \in [Pool -> 0..(Decay + 1)]
             /\ lastCode \in [Pool -> Codes]
             /\ expired \subseteq Pool /\ flight \in [Attempts -> Pool \cup {Nobody}]
             /\ \A a \in Pool : Healthy(entry[a], streak[a], sinceFail[a], lastCode[a])
BY DEF HealthInv, HealthTypeOK, NeverStranded, BackoffFollowsStreak, StreakIsCount, Healthy, Entries

\* A failure keeps an account's history healthy.
LEMMA FailHealthy ==
    ASSUME NEW e, NEW s, NEW t, NEW c, Healthy(e, s, t, c),
           NEW code \in Codes, NEW hint \in Hints
    PROVE  Healthy(Failed(e, code, hint),
                   IF t > Decay THEN 1 ELSE Smaller(s + 1, MaxCount), 0, code)
<1> DEFINE f == Failed(e, code, hint)
           n == IF t > Decay THEN 1 ELSE Smaller(s + 1, MaxCount)
<1>1. /\ f \in Entries
      /\ f.count = CountAfter(e) /\ f.count \in 1..MaxCount
      /\ f.quiet = 0
      /\ f.left >= Backoff(CountAfter(e), code)
      /\ f.left <= HintMax
  BY FailedEntry DEF Healthy
<1>2. n = CountAfter(e)
  BY HealthAssumption DEF Healthy, CountAfter, Entries, Smaller, MaxCount
<1>3. f.left \in Nat
  BY <1>1 DEF Entries
<1>4. Backoff(n, code) \in Int
  BY <1>1, <1>2, BackoffBound
<1>5. 0 \in 0..(Decay + 1) /\ n \in 0..MaxCount /\ MaxCount \in Nat
  BY <1>1, <1>2, HealthAssumption DEF MaxCount
<1>6. f.left + 0 >= Backoff(n, code)
  BY <1>1, <1>2, <1>3, <1>4
<1>7. f.count > 0 /\ f.count = n /\ f.count # 0
  BY <1>1, <1>2, <1>5
<1> HIDE DEF f, n
<1>8. Healthy(f, n, 0, code)
  BY <1>1, <1>5, <1>6, <1>7 DEF Healthy
<1> QED BY <1>8 DEF f, n

\* So does a look at it.
LEMMA ConsultHealthy ==
    ASSUME NEW e, NEW s, NEW t, NEW c, Healthy(e, s, t, c)
    PROVE  Healthy(Consulted(e), s, t, c)
<1>1. CASE Consulted(e) = e
  BY <1>1
<1>2. CASE Consulted(e) # e
  <2>1. /\ e.left = 0 /\ e.quiet > Decay /\ Consulted(e) = NoEntry
        /\ Consulted(e) \in Entries
    BY <1>2, ConsultedEntry DEF Healthy
  <2>2. s = 0 \/ t > Decay
    BY <2>1, HealthAssumption DEF Healthy, Entries, MaxCount
  <2>3. NoEntry.left = e.left /\ NoEntry.count = 0
    BY <2>1 DEF NoEntry
  <2> QED BY <2>1, <2>2, <2>3 DEF Healthy
<1> QED BY <1>1, <1>2

\* So does time.
LEMMA AgeHealthy ==
    ASSUME NEW e, NEW s, NEW t, NEW c, Healthy(e, s, t, c)
    PROVE  Healthy(Aged(e), s, Smaller(t + 1, Decay + 1), c)
<1> DEFINE f == Aged(e)
           u == Smaller(t + 1, Decay + 1)
<1>1. /\ f \in Entries
      /\ f.count = e.count
      /\ f.left = Larger(e.left - 1, 0)
      /\ f.quiet = IF e.count > 0 THEN Smaller(e.quiet + 1, Decay + 1) ELSE e.quiet
  BY AgedEntry DEF Healthy
<1>2. e.left \in Nat /\ e.count \in Nat /\ e.quiet \in Nat /\ t \in Nat /\ s \in Nat
      /\ Decay \in Nat /\ HintMax \in Nat /\ BackoffCap \in Nat /\ BackoffCap <= Decay
  BY HealthAssumption DEF Healthy, Entries, MaxCount
<1>3. u \in 0..(Decay + 1) /\ (u = t + 1 \/ u = Decay + 1) /\ (t > Decay => u > Decay)
  BY <1>2 DEF Healthy, Smaller
<1>4. f.left <= HintMax /\ f.left \in Nat /\ f.left >= e.left - 1
  BY <1>1, <1>2 DEF Healthy, Larger
<1>5. s > 0 => f.left + u >= Backoff(s, c)
  <2> SUFFICES ASSUME s > 0 PROVE f.left + u >= Backoff(s, c)
    OBVIOUS
  <2>1. s \in 1..MaxCount /\ c \in Codes
    BY <1>2, HealthAssumption DEF Healthy, MaxCount
  <2>2. Backoff(s, c) \in Int /\ Backoff(s, c) <= BackoffCap
    BY <2>1, BackoffBound
  <2>3. e.left + t >= Backoff(s, c)
    BY DEF Healthy
  <2> HIDE DEF f, u
  <2> QED BY <1>2, <1>3, <1>4, <2>2, <2>3
<1>6. f.count > 0 => f.quiet = u /\ s = f.count
  BY <1>1, <1>2 DEF Healthy
<1>7. f.count = 0 => s = 0 \/ u > Decay
  BY <1>1, <1>3 DEF Healthy
<1> HIDE DEF f, u
<1>8. Healthy(f, s, u, c)
  BY <1>1, <1>3, <1>4, <1>5, <1>6, <1>7 DEF Healthy
<1> QED BY <1>8 DEF f, u

\* So does a success, which forgets everything.
LEMMA SucceedHealthy ==
    ASSUME NEW t \in 0..(Decay + 1), NEW c \in Codes
    PROVE  Healthy(NoEntry, 0, t, c)
BY HealthAssumption DEF Healthy, NoEntry, Entries, MaxCount

----------------------------------------------------------------------------
\* Every step keeps every account healthy.
LEMMA HealthNextInv == HealthInv /\ [HealthNext]_health => HealthInv'
<1> SUFFICES ASSUME HealthInv, [HealthNext]_health PROVE HealthInv'
  OBVIOUS
<1> DEFINE Typed ==
       /\ entry \in [Pool -> Entries] /\ streak \in [Pool -> 0..MaxCount]
       /\ sinceFail \in [Pool -> 0..(Decay + 1)] /\ lastCode \in [Pool -> Codes]
       /\ expired \subseteq Pool /\ flight \in [Attempts -> Pool \cup {Nobody}]
<1> DEFINE AllHealthy ==
       \A a \in Pool : Healthy(entry[a], streak[a], sinceFail[a], lastCode[a])
<1>0. Typed /\ AllHealthy
  BY InvByAccount
<1>t. 0 \in 0..MaxCount /\ 0 \in 0..(Decay + 1) /\ 1 \in 0..MaxCount
  BY HealthAssumption DEF MaxCount
<1>q. Typed' /\ AllHealthy' => HealthInv'
  BY DEF HealthInv, HealthTypeOK, NeverStranded, BackoffFollowsStreak, StreakIsCount, Healthy, Entries
<1>1. CASE TimePasses
  <2>1. \A a \in Pool : /\ Aged(entry[a]) \in Entries
                           /\ Smaller(sinceFail[a] + 1, Decay + 1) \in 0..(Decay + 1)
                           /\ Healthy(Aged(entry[a]), streak[a],
                                      Smaller(sinceFail[a] + 1, Decay + 1), lastCode[a])
    BY <1>0, AgeHealthy DEF Healthy
  <2>2. Typed'
    BY <1>0, <1>1, <2>1 DEF TimePasses
  <2>3. AllHealthy'
    BY <1>0, <1>1, <2>1 DEF TimePasses
  <2> QED BY <2>2, <2>3, <1>q
<1>2. ASSUME NEW a \in Pool, Consult(a) PROVE HealthInv'
  <2>1. Consulted(entry[a]) \in Entries
        /\ Healthy(Consulted(entry[a]), streak[a], sinceFail[a], lastCode[a])
    BY <1>0, ConsultHealthy DEF Healthy
  <2>2. Typed'
    BY <1>0, <1>2, <2>1 DEF Consult
  <2>3. AllHealthy'
    BY <1>0, <1>2, <2>1 DEF Consult
  <2> QED BY <2>2, <2>3, <1>q
<1>3. ASSUME NEW a \in Pool, Renew(a) PROVE HealthInv'
  <2>1. Typed' /\ AllHealthy'
    BY <1>0, <1>3 DEF Renew
  <2> QED BY <2>1, <1>q
<1>4. ASSUME NEW r \in Attempts, NEW a \in Pool, Pick(r, a) PROVE HealthInv'
  <2>1. \A b \in Pool : /\ Consulted(entry[b]) \in Entries
                           /\ Healthy(Consulted(entry[b]), streak[b], sinceFail[b], lastCode[b])
    BY <1>0, ConsultHealthy DEF Healthy
  <2>2. Typed'
    BY <1>0, <1>4, <2>1 DEF Pick
  <2>3. AllHealthy'
    BY <1>0, <1>4, <2>1 DEF Pick
  <2> QED BY <2>2, <2>3, <1>q
<1>5. ASSUME NEW r \in Attempts, NEW code \in Codes, NEW hint \in Hints, Fail(r, code, hint)
      PROVE  HealthInv'
  <2> DEFINE a == flight[r]
             f == Failed(entry[a], code, hint)
             n == IF sinceFail[a] > Decay THEN 1 ELSE Smaller(streak[a] + 1, MaxCount)
  <2>1. a \in Pool
    BY <1>0, <1>5 DEF Fail
  <2>2. Healthy(f, n, 0, code)
    BY <1>0, <2>1, FailHealthy
  <2>3. f \in Entries /\ n \in 0..MaxCount
    BY <2>2 DEF Healthy
  <2>4. /\ entry' = [entry EXCEPT ![a] = f]
        /\ streak' = [streak EXCEPT ![a] = n]
        /\ sinceFail' = [sinceFail EXCEPT ![a] = 0]
        /\ lastCode' = [lastCode EXCEPT ![a] = code]
        /\ flight' = [flight EXCEPT ![r] = Nobody]
        /\ expired' \subseteq expired \cup {a}
    BY <1>5 DEF Fail
  <2> HIDE DEF a, f, n
  <2>5. Typed'
    BY <1>0, <1>t, <2>1, <2>3, <2>4
  <2>6. AllHealthy'
    BY <1>0, <2>1, <2>2, <2>4
  <2> QED BY <2>5, <2>6, <1>q
<1>6. ASSUME NEW r \in Attempts, Succeed(r) PROVE HealthInv'
  <2>1. flight[r] \in Pool
    BY <1>0, <1>6 DEF Succeed
  <2>2. Healthy(NoEntry, 0, sinceFail[flight[r]], lastCode[flight[r]])
    BY <1>0, <2>1, SucceedHealthy
  <2>3. NoEntry \in Entries
    BY <2>2 DEF Healthy
  <2>4. Typed'
    BY <1>0, <1>6, <1>t, <2>1, <2>3 DEF Succeed
  <2>5. AllHealthy'
    BY <1>0, <1>6, <2>1, <2>2 DEF Succeed
  <2> QED BY <2>4, <2>5, <1>q
<1>7. ASSUME NEW r \in Attempts, Abandon(r) PROVE HealthInv'
  <2>1. Typed' /\ AllHealthy'
    BY <1>0, <1>7 DEF Abandon
  <2> QED BY <2>1, <1>q
<1>8. CASE UNCHANGED health
  <2>1. Typed' /\ AllHealthy'
    BY <1>0, <1>8 DEF health
  <2> QED BY <2>1, <1>q
<1> QED BY <1>1, <1>2, <1>3, <1>4, <1>5, <1>6, <1>7, <1>8 DEF HealthNext

\* The invariant holds in every reachable state.
THEOREM HealthHolds == HealthSpec => []HealthInv
<1> QED BY HealthInitInv, HealthNextInv, PTL DEF HealthSpec

\* The variables keep their types.
THEOREM HealthTypeCorrect == HealthSpec => []HealthTypeOK
<1>1. HealthInv => HealthTypeOK
  BY DEF HealthInv
<1> QED BY <1>1, HealthHolds, PTL

\* No failure, hint or order of failures keeps an account away longer than the
\* cap of mark_account_failure.
THEOREM StrandedNever == HealthSpec => []NeverStranded
<1>1. HealthInv => NeverStranded
  BY DEF HealthInv
<1> QED BY <1>1, HealthHolds, PTL

\* The counter survives the end of a cooldown: an account stays away for the
\* backoff of the whole run of its failures.
THEOREM BackoffKept == HealthSpec => []BackoffFollowsStreak
<1>1. HealthInv => BackoffFollowsStreak
  BY DEF HealthInv
<1> QED BY <1>1, HealthHolds, PTL

\* A step that ends a cooldown early is a success on that account.
LEMMA CooldownStep ==
    ASSUME HealthInv, [HealthNext]_health, NEW a \in Pool, entry'[a].left < entry[a].left - 1
    PROVE  \E r \in Attempts : flight[r] = a /\ flight'[r] = Nobody /\ streak'[a] = 0
<1>0. /\ entry \in [Pool -> Entries] /\ streak \in [Pool -> 0..MaxCount]
      /\ flight \in [Attempts -> Pool \cup {Nobody}]
      /\ entry[a] \in Entries /\ entry[a].left \in Nat
  BY DEF HealthInv, HealthTypeOK, Entries
<1>s. entry'[a] # entry[a]
  BY <1>0
<1>c. Consulted(entry[a]).left >= entry[a].left /\ Consulted(entry[a]).left \in Nat
  BY <1>0, ConsultedEntry DEF NoEntry, Entries
<1>1. CASE TimePasses
  <2>1. entry'[a] = Aged(entry[a])
    BY <1>1 DEF TimePasses
  <2>2. entry'[a].left = Larger(entry[a].left - 1, 0)
    BY <1>0, <2>1, AgedEntry
  <2> QED BY <1>0, <2>2 DEF Larger
<1>2. ASSUME NEW b \in Pool, Consult(b) PROVE FALSE
  <2>1. entry'[a] = entry[a] \/ entry'[a] = Consulted(entry[a])
    BY <1>0, <1>2 DEF Consult
  <2> QED BY <1>0, <1>c, <2>1
<1>3. ASSUME NEW r \in Attempts, NEW b \in Pool, Pick(r, b) PROVE FALSE
  <2>1. entry'[a] = entry[a] \/ entry'[a] = Consulted(entry[a])
    BY <1>3 DEF Pick
  <2> QED BY <1>0, <1>c, <2>1
<1>4. ASSUME NEW r \in Attempts, NEW code \in Codes, NEW hint \in Hints, Fail(r, code, hint)
      PROVE  FALSE
  <2>1. entry'[a] = entry[a] \/ entry'[a] = Failed(entry[a], code, hint)
    BY <1>0, <1>4 DEF Fail
  <2>2. /\ Failed(entry[a], code, hint).left >= entry[a].left
        /\ Failed(entry[a], code, hint).left \in Nat
    BY <1>0, FailedEntry DEF Entries
  <2> QED BY <1>0, <2>1, <2>2
<1>5. ASSUME NEW r \in Attempts, Succeed(r)
      PROVE  flight[r] = a /\ flight'[r] = Nobody /\ streak'[a] = 0
  <2>1. flight[r] = a
    BY <1>0, <1>5, <1>s DEF Succeed
  <2> QED BY <1>0, <1>5, <2>1 DEF Succeed
<1>6. ASSUME NEW r \in Attempts, Abandon(r) PROVE FALSE
  BY <1>s, <1>6 DEF Abandon
<1>7. ASSUME NEW b \in Pool, Renew(b) PROVE FALSE
  BY <1>s, <1>7 DEF Renew
<1>8. ~UNCHANGED health
  BY <1>s DEF health
<1> QED BY <1>1, <1>2, <1>3, <1>4, <1>5, <1>6, <1>7, <1>8 DEF HealthNext

\* Other failures in flight never shorten a cooldown.
THEOREM OnlySuccess == HealthSpec => OnlySuccessEndsCooldown
<1> DEFINE Kept == \A a \in Pool :
              entry'[a].left < entry[a].left - 1
                 => \E r \in Attempts : flight[r] = a /\ flight'[r] = Nobody /\ streak'[a] = 0
<1>1. HealthInv /\ [HealthNext]_health => [Kept]_health
  BY CooldownStep
<1>2. OnlySuccessEndsCooldown <=> [][Kept]_health
  BY DEF OnlySuccessEndsCooldown
<1> HIDE DEF Kept
<1> QED BY <1>1, <1>2, HealthHolds, PTL DEF HealthSpec

----------------------------------------------------------------------------
(***************************************************************************)
(* TokenRefresh: the account's login.                                      *)
(***************************************************************************)

\* Who has sent the POST holds the lock of the account until it has used the
\* answer.
LockHeld ==
    \A t \in Tasks :
        task[t].at \in {"posted", "answered"} => lock[task[t].acct] = t

\* An answer that renews a login carries the token the upstream now accepts.
AnswerIsNewest ==
    \A t \in Tasks :
        /\ task[t].at = "answered" /\ task[t].answer = "ok"
        /\ ~disturbed[task[t].acct]
        => task[t].token = valid[task[t].acct]

\* Only chat requests go on to use the login.
OnlyChatsSend == \A t \in Tasks : task[t].at = "sending" => task[t].kind = "chat"

RefreshInv == RefreshTypeOK /\ NewestTokenKept /\ LockHeld /\ AnswerIsNewest /\ OnlyChatsSend

----------------------------------------------------------------------------
(* Records                                                                 *)

\* An idle coroutine is a record of the right shape.
LEMMA IdleType ==
    /\ NoTask \in TaskStates /\ NoRow \in Copies
    /\ NoTask.at = "idle" /\ NoTask.kind = "chat"
<1>1. (CHOOSE a \in Logins : TRUE) \in Logins
  BY RefreshAssumption
<1> QED BY <1>1, RefreshAssumption
       DEF NoTask, NoRow, TaskStates, Copies, Points, Kinds, Answers, Statuses, NoToken

\* What a coroutine remembers of a row.
LEMMA CopyType ==
    ASSUME RefreshTypeOK, NEW a \in Logins
    PROVE  Copy(a) \in Copies /\ Copy(a).refresh = row[a].refresh
BY DEF RefreshTypeOK, Rows, Copy, Copies

\* A call that begins.
LEMMA BeganTask ==
    ASSUME RefreshTypeOK, NEW t \in Tasks, NEW kind \in Kinds, NEW a \in Logins,
           NEW point \in Points, Began(t, kind, a, point)
    PROVE  \E q \in TaskStates : /\ q.at = point /\ q.kind = kind
                                 /\ q.acct = a /\ q.seen = Copy(a)
                                 /\ task' = [task EXCEPT ![t] = q]
<1> DEFINE q == [NoTask EXCEPT !.at = point, !.kind = kind, !.acct = a, !.seen = Copy(a)]
<1>1. q \in TaskStates /\ q.at = point /\ q.kind = kind /\ q.acct = a /\ q.seen = Copy(a)
  BY IdleType, CopyType DEF TaskStates
<1>2. task' = [task EXCEPT ![t] = q]
  BY DEF Began
<1> QED BY <1>1, <1>2

----------------------------------------------------------------------------
(* Steps that leave the lock and the tokens alone                          *)

\* A coroutine that neither waits for an answer nor begins to may change.
LEMMA CallerStep ==
    ASSUME RefreshInv, NEW t \in Tasks, NEW q \in TaskStates,
           task' = [task EXCEPT ![t] = q],
           task[t].at \notin {"posted", "answered"},
           q.at \notin {"posted", "answered"},
           q.at = "sending" => q.kind = "chat",
           UNCHANGED <<dead, lock, valid, issued, disturbed>>,
           row' \in [Logins -> Rows],
           \A a \in Logins : row'[a].refresh = row[a].refresh
    PROVE  RefreshInv'
<1>1. \A u \in Tasks : task'[u] = IF u = t THEN q ELSE task[u]
  BY DEF RefreshInv, RefreshTypeOK
<1>2. RefreshTypeOK'
  BY DEF RefreshInv, RefreshTypeOK
<1>3. \A a \in Logins : AtPost(a)' = AtPost(a) /\ Renewed(a)' = Renewed(a)
  BY <1>1 DEF AtPost, Renewed
<1>4. \A a \in Logins : t \notin AtPost(a)
  BY DEF AtPost
<1>5. NewestTokenKept'
  BY <1>1, <1>3, <1>4 DEF RefreshInv, NewestTokenKept, AtPost
<1>6. (LockHeld /\ AnswerIsNewest /\ OnlyChatsSend)'
  BY <1>1 DEF RefreshInv, LockHeld, AnswerIsNewest, OnlyChatsSend
<1> QED BY <1>2, <1>5, <1>6 DEF RefreshInv

\* A step outside the renewals: of every login either nothing changes that a
\* renewal looks at, or it is disturbed, or nobody renews it and both tokens
\* agree.
LEMMA OutsideStep ==
    ASSUME RefreshInv, RefreshTypeOK', UNCHANGED <<task, lock>>,
           \A a \in Logins :
               \/ disturbed'[a]
               \/ /\ row'[a].refresh = row[a].refresh
                  /\ valid'[a] = valid[a] /\ disturbed'[a] = disturbed[a]
               \/ AtPost(a) = {} /\ row'[a].refresh = valid'[a]
    PROVE  RefreshInv'
<1>1. \A a \in Logins : AtPost(a)' = AtPost(a) /\ Renewed(a)' = Renewed(a)
  BY DEF AtPost, Renewed
<1>2. NewestTokenKept'
  BY <1>1 DEF RefreshInv, NewestTokenKept
<1>3. AnswerIsNewest'
  <2> SUFFICES ASSUME NEW t \in Tasks, task[t].at = "answered", task[t].answer = "ok",
                      ~disturbed'[task[t].acct]
               PROVE  task[t].token = valid'[task[t].acct]
    BY DEF AnswerIsNewest
  <2>1. task[t].acct \in Logins /\ t \in AtPost(task[t].acct)
    BY DEF RefreshInv, RefreshTypeOK, TaskStates, AtPost
  <2> QED BY <2>1 DEF RefreshInv, AnswerIsNewest
<1>4. LockHeld' /\ OnlyChatsSend'
  BY DEF RefreshInv, LockHeld, OnlyChatsSend
<1> QED BY <1>2, <1>3, <1>4 DEF RefreshInv

----------------------------------------------------------------------------
(* Steps of the coroutine that holds the lock                              *)

\* Never two coroutines renew one login.
LEMMA OneRenewal ==
    ASSUME RefreshInv, NEW a \in Logins, NEW t \in AtPost(a), NEW u \in AtPost(a)
    PROVE  t = u
BY DEF RefreshInv, LockHeld, AtPost

\* An answer arrives: it brings the newest token, or the login is disturbed,
\* or it renews nothing and the tokens are as they were.
LEMMA AnswerStep ==
    ASSUME RefreshInv, NEW t \in Tasks, NEW answer \in Answers, NEW token \in 0..MaxTokens,
           task[t].at = "posted", Answered(t, answer, token),
           UNCHANGED <<row, dead, lock>>,
           valid' \in [Logins -> 0..MaxTokens],
           issued' \in [Logins -> 1..MaxTokens],
           disturbed' \in [Logins -> BOOLEAN],
           \A b \in Logins :
               \/ disturbed'[b]
               \/ ~disturbed[b] /\ valid'[b] = valid[b] /\ b # task[t].acct
               \/ ~disturbed[b] /\ valid'[b] = valid[b] /\ answer # "ok"
               \/ b = task[t].acct /\ answer = "ok" /\ token = valid'[b]
    PROVE  RefreshInv'
<1>1. PICK a \in Logins : a = task[t].acct
  BY DEF RefreshInv, RefreshTypeOK, TaskStates
<1>2. PICK q \in TaskStates : /\ q.at = "answered" /\ q.answer = answer
                              /\ q.token = token /\ q.acct = a /\ q.kind = task[t].kind
                              /\ task' = [task EXCEPT ![t] = q]
  <2> DEFINE q == [task[t] EXCEPT !.at = "answered", !.answer = answer, !.token = token]
  <2>1. task[t] \in TaskStates
    BY DEF RefreshInv, RefreshTypeOK
  <2>2. /\ q \in TaskStates /\ q.at = "answered" /\ q.answer = answer
        /\ q.token = token /\ q.acct = a /\ q.kind = task[t].kind
    BY <1>1, <2>1 DEF TaskStates, Points
  <2>3. task' = [task EXCEPT ![t] = q]
    BY DEF Answered
  <2> QED BY <2>2, <2>3
<1>4. \A u \in Tasks : task'[u] = IF u = t THEN q ELSE task[u]
  BY <1>2 DEF RefreshInv, RefreshTypeOK
<1>5. RefreshTypeOK'
  BY <1>2 DEF RefreshInv, RefreshTypeOK
<1>6. t \in AtPost(a) /\ AtPost(a) = {t} /\ Renewed(a) = {}
  <2>1. t \in AtPost(a)
    BY <1>1 DEF AtPost
  <2>2. AtPost(a) = {t}
    BY <1>1, <2>1, OneRenewal
  <2> QED BY <2>1, <2>2 DEF Renewed
<1>7. \A b \in Logins : AtPost(b)' = AtPost(b)
  BY <1>1, <1>2, <1>4 DEF AtPost
<1>8. \A b \in Logins \ {a} : Renewed(b)' = Renewed(b)
  BY <1>1, <1>2, <1>4, <1>7 DEF Renewed, AtPost
<1>9. answer = "ok" => t \in Renewed(a)'
  BY <1>2, <1>4, <1>6, <1>7, <1>1 DEF Renewed
<1>10. NewestTokenKept'
  <2> SUFFICES ASSUME NEW b \in Logins, ~disturbed'[b]
               PROVE  /\ Renewed(b)' = {} => row'[b].refresh = valid'[b]
                      /\ \A u \in AtPost(b)' :
                            task'[u].at = "posted" => task'[u].current.refresh = valid'[b]
    BY DEF NewestTokenKept
  <2>1. CASE b # a
    <3>1. t \notin AtPost(b) /\ AtPost(b) \subseteq Tasks
      BY <2>1, <1>1 DEF AtPost
    <3> QED BY <2>1, <3>1, <1>1, <1>4, <1>7, <1>8 DEF RefreshInv, NewestTokenKept
  <2>2. CASE b = a
    <3>1. \A u \in AtPost(b)' : task'[u].at = "answered"
      BY <2>2, <1>2, <1>4, <1>6, <1>7
    <3>2. Renewed(b)' = {} => row'[b].refresh = valid'[b]
      BY <2>2, <1>1, <1>6, <1>9 DEF RefreshInv, NewestTokenKept
    <3> QED BY <3>1, <3>2
  <2> QED BY <2>1, <2>2
<1>11. AnswerIsNewest'
  <2> SUFFICES ASSUME NEW u \in Tasks, task'[u].at = "answered", task'[u].answer = "ok",
                      ~disturbed'[task'[u].acct]
               PROVE  task'[u].token = valid'[task'[u].acct]
    BY DEF AnswerIsNewest
  <2>1. CASE u = t
    BY <2>1, <1>1, <1>2, <1>4
  <2>2. CASE u # t
    <3>1. task'[u] = task[u] /\ task[u].acct \in Logins
      BY <2>2, <1>4 DEF RefreshInv, RefreshTypeOK, TaskStates
    <3>2. u \in AtPost(task[u].acct)
      BY <3>1 DEF AtPost
    <3>3. task[u].acct # a
      BY <3>2, <2>2, <1>6
    <3> QED BY <3>1, <3>3, <1>1 DEF RefreshInv, AnswerIsNewest
  <2> QED BY <2>1, <2>2
<1>12. LockHeld' /\ OnlyChatsSend'
  BY <1>1, <1>2, <1>4 DEF RefreshInv, LockHeld, OnlyChatsSend
<1> QED BY <1>5, <1>10, <1>11, <1>12 DEF RefreshInv

\* The holder of the lock gives it back: the tokens agree or the login is
\* disturbed.
LEMMA ReleaseStep ==
    ASSUME RefreshInv, RefreshTypeOK', NEW a \in Logins, NEW t \in AtPost(a), NEW q \in TaskStates,
           task' = [task EXCEPT ![t] = q],
           q.at \notin {"posted", "answered"},
           q.at = "sending" => q.kind = "chat",
           lock' = [lock EXCEPT ![a] = Free],
           \A b \in Logins \ {a} : /\ row'[b].refresh = row[b].refresh
                                     /\ valid'[b] = valid[b]
                                     /\ disturbed'[b] = disturbed[b],
           ~disturbed'[a] => row'[a].refresh = valid'[a]
    PROVE  RefreshInv'
<1>1. \A u \in Tasks : task'[u] = IF u = t THEN q ELSE task[u]
  BY DEF RefreshInv, RefreshTypeOK
<1>2. t \in Tasks /\ task[t].acct = a /\ AtPost(a) = {t}
  BY OneRenewal DEF AtPost
<1>3. AtPost(a)' = {}
  BY <1>1, <1>2 DEF AtPost
<1>4. \A b \in Logins \ {a} : AtPost(b)' = AtPost(b) /\ Renewed(b)' = Renewed(b)
  BY <1>1, <1>2 DEF AtPost, Renewed
<1>5. NewestTokenKept'
  <2> SUFFICES ASSUME NEW b \in Logins, ~disturbed'[b]
               PROVE  /\ Renewed(b)' = {} => row'[b].refresh = valid'[b]
                      /\ \A u \in AtPost(b)' :
                            task'[u].at = "posted" => task'[u].current.refresh = valid'[b]
    BY DEF NewestTokenKept
  <2>1. CASE b # a
    <3>1. t \notin AtPost(b) /\ AtPost(b) \subseteq Tasks
      BY <2>1, <1>2 DEF AtPost
    <3> QED BY <2>1, <3>1, <1>1, <1>4 DEF RefreshInv, NewestTokenKept
  <2> QED BY <2>1, <1>3
<1>6. ASSUME NEW u \in Tasks, task'[u].at \in {"posted", "answered"}
      PROVE  u # t /\ task'[u] = task[u] /\ task[u].acct \in Logins \ {a}
  <2>1. u # t /\ task'[u] = task[u] /\ task[u].acct \in Logins
    BY <1>1, <1>6 DEF RefreshInv, RefreshTypeOK, TaskStates
  <2>2. u \in AtPost(task[u].acct)
    BY <1>6, <2>1 DEF AtPost
  <2> QED BY <2>1, <2>2, <1>2
<1>7. LockHeld'
  BY <1>6 DEF RefreshInv, LockHeld, RefreshTypeOK
<1>8. AnswerIsNewest'
  BY <1>6 DEF RefreshInv, AnswerIsNewest
<1>9. OnlyChatsSend'
  BY <1>1 DEF RefreshInv, OnlyChatsSend
<1> QED BY <1>5, <1>7, <1>8, <1>9 DEF RefreshInv

----------------------------------------------------------------------------
(* The invariant                                                           *)

\* The gateway starts with rows the upstream agrees with and no renewal.
LEMMA RefreshInitInv == ASSUME RefreshInit PROVE RefreshInv
<1>1. \A t \in Tasks : task[t] = NoTask /\ task[t].at = "idle"
  BY IdleType DEF RefreshInit
<1>2. RefreshTypeOK
  BY IdleType, RefreshAssumption DEF RefreshInit, RefreshTypeOK, Rows, NoToken, Statuses
<1>3. \A a \in Logins : AtPost(a) = {} /\ row[a].refresh = valid[a]
  BY <1>1 DEF AtPost, RefreshInit
<1>4. NewestTokenKept
  BY <1>3 DEF NewestTokenKept
<1>5. LockHeld /\ AnswerIsNewest /\ OnlyChatsSend
  BY <1>1 DEF LockHeld, AnswerIsNewest, OnlyChatsSend
<1> QED BY <1>2, <1>4, <1>5 DEF RefreshInv

\* A call that begins and has not sent a POST keeps the invariant.
LEMMA BeginInv ==
    ASSUME RefreshInv, NEW t \in Tasks, NEW kind \in Kinds, NEW a \in Logins,
           NEW point \in Points \ {"posted", "answered"},
           point = "sending" => kind = "chat",
           Idle(t), Began(t, kind, a, point),
           UNCHANGED <<row, dead, lock, valid, issued, disturbed>>
    PROVE  RefreshInv'
<1>1. PICK q \in TaskStates : /\ q.at = point /\ q.kind = kind
                              /\ task' = [task EXCEPT ![t] = q]
  BY BeganTask DEF RefreshInv
<1>2. row' \in [Logins -> Rows] /\ \A b \in Logins : row'[b].refresh = row[b].refresh
  BY DEF RefreshInv, RefreshTypeOK
<1>3. task[t].at \notin {"posted", "answered"}
  BY DEF Idle
<1> QED BY <1>1, <1>2, <1>3, CallerStep

\* A call that ends without having waited for an answer keeps it, whatever
\* it does to the status of an account.
LEMMA EndInv ==
    ASSUME RefreshInv, NEW t \in Tasks, task[t].at \notin {"posted", "answered"}, Ended(t),
           UNCHANGED <<dead, lock, valid, issued, disturbed>>,
           row' \in [Logins -> Rows],
           \A a \in Logins : row'[a].refresh = row[a].refresh
    PROVE  RefreshInv'
BY IdleType, CallerStep DEF Ended

\* Marking an account expired leaves its token.
LEMMA ExpiredRow ==
    ASSUME RefreshTypeOK, NEW a \in Logins, Expired(a)
    PROVE  /\ row' \in [Logins -> Rows]
           /\ \A b \in Logins : row'[b].refresh = row[b].refresh
BY DEF RefreshTypeOK, Rows, Statuses, Expired

\* What callers do up to the lock and after it.
LEMMA CallInv == ASSUME RefreshInv, NEW t \in Tasks, Call(t) PROVE RefreshInv'
<1>1. task[t] \in TaskStates /\ row \in [Logins -> Rows]
  BY DEF RefreshInv, RefreshTypeOK
<1>2. ASSUME KeepaliveTurn(t) PROVE RefreshInv'
  <2>1. CASE Ended(t)
    BY <1>1, <1>2, <2>1, EndInv DEF KeepaliveTurn
  <2>2. CASE ~Ended(t)
    <3> DEFINE q == [task[t] EXCEPT !.at = "queued"]
    <3>1. q \in TaskStates /\ q.at = "queued"
      BY <1>1 DEF TaskStates, Points
    <3>2. task' = [task EXCEPT ![t] = q]
      BY <1>2, <2>2 DEF KeepaliveTurn
    <3>3. task[t].at = "listed" /\ UNCHANGED <<row, dead, lock, valid, issued, disturbed>>
      BY <1>2 DEF KeepaliveTurn
    <3> QED BY <1>1, <3>1, <3>2, <3>3, CallerStep
  <2> QED BY <2>1, <2>2
<1>3. ASSUME ChatServed(t) PROVE RefreshInv'
  BY <1>1, <1>3, EndInv DEF ChatServed
<1>4. ASSUME ChatRefused(t) PROVE RefreshInv'
  <2>1. task[t].acct \in Logins
    BY <1>1 DEF TaskStates
  <2>2. Expired(task[t].acct)
    BY <1>4 DEF ChatRefused
  <2> QED BY <1>4, <2>1, <2>2, ExpiredRow, EndInv DEF ChatRefused, RefreshInv
<1>5. ASSUME ChatCancelled(t) PROVE RefreshInv'
  <2>1. PICK a \in Logins : a = task[t].acct
    BY <1>1 DEF TaskStates
  <2>2. CASE task[t].at = "queued"
    <3>1. t \notin Renewed(a)
      BY <2>2 DEF Renewed
    <3>2. UNCHANGED <<row, dead, lock, valid, issued>> /\ Ended(t)
      BY <1>5, <2>2 DEF ChatCancelled
    <3>3. disturbed' = [disturbed EXCEPT ![a] = @ \/ FALSE \/ FALSE]
      BY <1>5, <2>1, <2>2, <3>1 DEF ChatCancelled
    <3>4. disturbed' = disturbed
      BY <3>3 DEF RefreshInv, RefreshTypeOK
    <3> QED BY <1>1, <2>2, <3>2, <3>4, EndInv
  <2>3. CASE task[t].at \in {"posted", "answered"}
    <3>1. t \in AtPost(a)
      BY <2>1, <2>3 DEF AtPost
    <3>2. /\ UNCHANGED <<row, dead>> /\ task' = [task EXCEPT ![t] = NoTask]
          /\ lock' = [lock EXCEPT ![a] = Free]
      BY <1>5, <2>1, <2>3 DEF ChatCancelled, Ended
    <3>3. /\ disturbed' \in [Logins -> BOOLEAN]
          /\ disturbed'[a] = (disturbed[a] \/ task[t].at = "posted" \/ t \in Renewed(a))
          /\ \A b \in Logins \ {a} : disturbed'[b] = disturbed[b]
      BY <1>5, <2>1 DEF ChatCancelled, RefreshInv, RefreshTypeOK
    <3>4. /\ valid' \in [Logins -> 0..MaxTokens] /\ issued' \in [Logins -> 1..MaxTokens]
          /\ \A b \in Logins \ {a} : valid'[b] = valid[b]
          /\ task[t].at # "posted" => valid' = valid
      BY <1>5, <2>1, RefreshAssumption DEF ChatCancelled, RefreshInv, RefreshTypeOK
    <3>5. RefreshTypeOK'
      BY <3>2, <3>3, <3>4, IdleType DEF RefreshInv, RefreshTypeOK
    <3>6. ~disturbed'[a] => row'[a].refresh = valid'[a]
      <4> SUFFICES ASSUME ~disturbed'[a] PROVE row[a].refresh = valid[a] /\ task[t].at # "posted"
        BY <3>2, <3>4
      <4>1. ~disturbed[a] /\ t \notin Renewed(a) /\ task[t].at # "posted"
        BY <3>3
      <4>2. Renewed(a) = {}
        BY <4>1, <3>1, OneRenewal DEF Renewed
      <4> QED BY <4>1, <4>2 DEF RefreshInv, NewestTokenKept
    <3> QED BY <3>1, <3>2, <3>3, <3>4, <3>5, <3>6, IdleType, ReleaseStep
  <2> QED BY <1>5, <2>2, <2>3 DEF ChatCancelled
<1>6. ASSUME NEW a \in Logins,
             \/ ChatPickFresh(t, a) \/ ChatPickStale(t, a) \/ KeepaliveList(t, a)
             \/ AdminRefresh(t, a) \/ SweepRefresh(t, a)
      PROVE  RefreshInv'
  <2>1. PICK kind \in Kinds, point \in Points \ {"posted", "answered"} :
           /\ Idle(t) /\ Began(t, kind, a, point) /\ (point = "sending" => kind = "chat")
           /\ UNCHANGED <<row, dead, lock, valid, issued, disturbed>>
    BY <1>6 DEF ChatPickFresh, ChatPickStale, KeepaliveList, AdminRefresh, SweepRefresh,
                Kinds, Points
  <2> QED BY <2>1, BeginInv
<1>7. ASSUME NEW a \in Logins, ChatPickHopeless(t, a) PROVE RefreshInv'
  <2>1. Expired(a) /\ UNCHANGED <<dead, lock, task, valid, issued, disturbed>>
    BY <1>7 DEF ChatPickHopeless
  <2>2. RefreshTypeOK' /\ \A b \in Logins : row'[b].refresh = row[b].refresh
    BY <2>1, ExpiredRow DEF RefreshInv, RefreshTypeOK
  <2> QED BY <2>1, <2>2, OutsideStep
<1> QED BY <1>2, <1>3, <1>4, <1>5, <1>6, <1>7 DEF Call

\* Taking the free lock and sending the token of the row re-read under it.
LEMMA AcquireInv == ASSUME RefreshInv, NEW t \in Tasks, Acquire(t) PROVE RefreshInv'
<1>1. task[t] \in TaskStates /\ task[t].at = "queued"
  BY DEF RefreshInv, RefreshTypeOK, Acquire
<1>2. PICK a \in Logins : a = task[t].acct /\ lock[a] = Free
  BY <1>1 DEF TaskStates, Acquire
<1>3. PICK q \in TaskStates : /\ q.at = "posted" /\ q.acct = a
                              /\ q.current.refresh = row[a].refresh
                              /\ task' = [task EXCEPT ![t] = q]
  <2> DEFINE q == [task[t] EXCEPT !.at = "posted", !.seen = NoRow, !.current = Copy(a)]
  <2>1. Copy(a) \in Copies /\ Copy(a).refresh = row[a].refresh /\ NoRow \in Copies
    BY CopyType, IdleType DEF RefreshInv
  <2>2. q \in TaskStates /\ q.at = "posted" /\ q.acct = a /\ q.current = Copy(a)
    BY <1>1, <1>2, <2>1 DEF TaskStates, Points
  <2>3. task' = [task EXCEPT ![t] = q]
    BY <1>2 DEF Acquire
  <2> QED BY <2>1, <2>2, <2>3
<1>4. /\ lock' = [lock EXCEPT ![a] = t]
      /\ UNCHANGED <<row, dead, valid, issued, disturbed>>
  BY <1>2 DEF Acquire
<1>5. \A u \in Tasks : task'[u] = IF u = t THEN q ELSE task[u]
  BY <1>3 DEF RefreshInv, RefreshTypeOK
<1>6. RefreshTypeOK'
  BY <1>3, <1>4 DEF RefreshInv, RefreshTypeOK
<1>7. AtPost(a) = {}
  BY <1>2, RefreshAssumption DEF RefreshInv, LockHeld, AtPost, Free
<1>8. Renewed(a)' = {} /\ \A u \in AtPost(a)' : u = t
  BY <1>3, <1>5, <1>7 DEF AtPost, Renewed
<1>9. \A b \in Logins \ {a} :
         AtPost(b)' = AtPost(b) /\ Renewed(b)' = Renewed(b) /\ t \notin AtPost(b)
  BY <1>1, <1>2, <1>3, <1>5 DEF AtPost, Renewed
<1>10. NewestTokenKept'
  <2> SUFFICES ASSUME NEW b \in Logins, ~disturbed'[b]
               PROVE  /\ Renewed(b)' = {} => row'[b].refresh = valid'[b]
                      /\ \A u \in AtPost(b)' :
                            task'[u].at = "posted" => task'[u].current.refresh = valid'[b]
    BY DEF NewestTokenKept
  <2>1. CASE b # a
    <3>1. AtPost(b) \subseteq Tasks
      BY DEF AtPost
    <3> QED BY <2>1, <3>1, <1>4, <1>5, <1>9 DEF RefreshInv, NewestTokenKept
  <2>2. CASE b = a
    <3>1. row[a].refresh = valid[a]
      BY <1>4, <1>7, <2>2 DEF RefreshInv, NewestTokenKept, Renewed
    <3> QED BY <2>2, <3>1, <1>3, <1>4, <1>5, <1>8
  <2> QED BY <2>1, <2>2
<1>11. LockHeld'
  <2> SUFFICES ASSUME NEW u \in Tasks, task'[u].at \in {"posted", "answered"}
               PROVE  lock'[task'[u].acct] = u
    BY DEF LockHeld
  <2>1. CASE u = t
    BY <2>1, <1>3, <1>4, <1>5 DEF RefreshInv, RefreshTypeOK
  <2>2. CASE u # t
    <3>1. task'[u] = task[u] /\ task[u].acct \in Logins /\ lock[task[u].acct] = u
      BY <2>2, <1>5 DEF RefreshInv, LockHeld, RefreshTypeOK, TaskStates
    <3>2. task[u].acct # a
      BY <3>1, <1>2, RefreshAssumption DEF Free
    <3> QED BY <3>1, <3>2, <1>4 DEF RefreshInv, RefreshTypeOK
  <2> QED BY <2>1, <2>2
<1>12. AnswerIsNewest' /\ OnlyChatsSend'
  BY <1>3, <1>4, <1>5 DEF RefreshInv, AnswerIsNewest, OnlyChatsSend
<1> QED BY <1>6, <1>10, <1>11, <1>12 DEF RefreshInv

\* The upstream answers a renewal.
LEMMA UpstreamInv == ASSUME RefreshInv, NEW t \in Tasks, Upstream(t) PROVE RefreshInv'
<1>1. PICK a \in Logins : a = task[t].acct
  BY DEF RefreshInv, RefreshTypeOK, TaskStates
<1>2. /\ valid \in [Logins -> 0..MaxTokens] /\ issued \in [Logins -> 1..MaxTokens]
      /\ disturbed \in [Logins -> BOOLEAN] /\ task[t].at = "posted"
      /\ UNCHANGED <<row, dead, lock>> /\ NoToken \in 0..MaxTokens
  BY RefreshAssumption
     DEF RefreshInv, RefreshTypeOK, Upstream, UpstreamRenews, UpstreamDead, UpstreamFails, NoToken
<1>3. ASSUME NEW answer \in Answers \ {"ok"}, Answered(t, answer, NoToken),
             UNCHANGED <<valid, issued, disturbed>>
      PROVE  RefreshInv'
  BY <1>2, <1>3, AnswerStep
<1>4. ASSUME UpstreamRenews(t) PROVE RefreshInv'
  <2>1. CASE Answered(t, "ok", valid[a]) /\ UNCHANGED <<valid, issued, disturbed>>
    BY <1>1, <1>2, <2>1, AnswerStep DEF Answers
  <2>2. CASE /\ issued[a] < MaxTokens
             /\ issued' = [issued EXCEPT ![a] = @ + 1]
             /\ valid' = [valid EXCEPT ![a] = issued[a] + 1]
             /\ \/ Answered(t, "ok", issued[a] + 1) /\ UNCHANGED disturbed
                \/ /\ Answered(t, "transient", NoToken)
                   /\ disturbed' = [disturbed EXCEPT ![a] = TRUE]
    <3>1. /\ issued' \in [Logins -> 1..MaxTokens] /\ valid' \in [Logins -> 0..MaxTokens]
          /\ issued[a] + 1 \in 0..MaxTokens /\ valid'[a] = issued[a] + 1
          /\ \A b \in Logins \ {a} : valid'[b] = valid[b]
      BY <1>2, <2>2, RefreshAssumption
    <3>2. CASE Answered(t, "ok", issued[a] + 1) /\ UNCHANGED disturbed
      BY <1>1, <1>2, <3>1, <3>2, AnswerStep DEF Answers
    <3>3. CASE Answered(t, "transient", NoToken) /\ disturbed' = [disturbed EXCEPT ![a] = TRUE]
      <4>1. /\ disturbed' \in [Logins -> BOOLEAN] /\ disturbed'[a]
            /\ \A b \in Logins \ {a} : disturbed'[b] = disturbed[b]
        BY <1>2, <3>3
      <4>2. "transient" \in Answers /\ "transient" # "ok"
        BY DEF Answers
      <4> QED BY <1>1, <1>2, <3>1, <3>3, <4>1, <4>2, AnswerStep
    <3> QED BY <2>2, <3>2, <3>3
  <2> QED BY <1>1, <1>4, <2>1, <2>2 DEF UpstreamRenews
<1>5. ASSUME UpstreamDead(t) PROVE RefreshInv'
  BY <1>3, <1>5 DEF UpstreamDead, Answers
<1>6. ASSUME UpstreamFails(t) PROVE RefreshInv'
  BY <1>3, <1>6 DEF UpstreamFails, Answers
<1> QED BY <1>4, <1>5, <1>6 DEF Upstream

\* The answer is used and the lock given back.
LEMMA ReceiveInv == ASSUME RefreshInv, NEW t \in Tasks, Receive(t) PROVE RefreshInv'
<1>1. PICK a \in Logins : a = task[t].acct
  BY DEF RefreshInv, RefreshTypeOK, TaskStates
<1>2. /\ task[t] \in TaskStates /\ row \in [Logins -> Rows]
      /\ dead \in [Logins -> 0..DeadThreshold] /\ lock \in [Logins -> Tasks \cup {Free}]
      /\ task[t].at = "answered" /\ UNCHANGED <<valid, issued, disturbed>>
      /\ lock' = [lock EXCEPT ![a] = Free]
  BY <1>1 DEF RefreshInv, RefreshTypeOK, Receive, ReceiveRenewed, ReceiveFailed, Released
<1>3. t \in AtPost(a) /\ lock' \in [Logins -> Tasks \cup {Free}]
  BY <1>1, <1>2 DEF AtPost
<1>4. ASSUME ReceiveRenewed(t) PROVE RefreshInv'
  <2>1. task[t].answer = "ok" /\ dead' = [dead EXCEPT ![a] = 0]
    BY <1>1, <1>4 DEF ReceiveRenewed
  <2>2. PICK r \in Rows : r.refresh = task[t].token /\ row' = [row EXCEPT ![a] = r]
    <3> DEFINE r == [status  |-> IF task[t].current.status = "inactive"
                                 THEN "inactive" ELSE "active",
                     refresh |-> task[t].token,
                     fresh   |-> TRUE]
    <3>1. r \in Rows /\ r.refresh = task[t].token
      BY <1>2 DEF Rows, Statuses, TaskStates
    <3>2. row' = [row EXCEPT ![a] = r]
      BY <1>1, <1>4 DEF ReceiveRenewed
    <3> QED BY <3>1, <3>2
  <2>3. PICK q \in TaskStates : /\ q.at \notin {"posted", "answered"}
                                /\ q.at = "sending" => q.kind = "chat"
                                /\ task' = [task EXCEPT ![t] = q]
    <3>1. CASE Began(t, "chat", a, "sending")
      <4>1. "chat" \in Kinds /\ "sending" \in Points
        BY DEF Kinds, Points
      <4> QED BY <3>1, <4>1, BeganTask DEF RefreshInv
    <3>2. CASE Ended(t)
      BY <3>2, IdleType DEF Ended
    <3> QED BY <1>1, <1>4, <3>1, <3>2 DEF ReceiveRenewed
  <2>4. RefreshTypeOK'
    <3>1. dead' \in [Logins -> 0..DeadThreshold]
      BY <1>2, <2>1, RefreshAssumption
    <3> QED BY <1>2, <1>3, <2>2, <2>3, <3>1 DEF RefreshInv, RefreshTypeOK
  <2>5. ~disturbed[a] => task[t].token = valid[a]
    BY <1>1, <1>2, <2>1 DEF RefreshInv, AnswerIsNewest
  <2>6. row'[a].refresh = task[t].token /\ \A b \in Logins \ {a} : row'[b] = row[b]
    BY <1>2, <2>2
  <2> QED BY <1>2, <1>3, <2>3, <2>4, <2>5, <2>6, ReleaseStep
<1>5. ASSUME ReceiveFailed(t) PROVE RefreshInv'
  <2>1. /\ task[t].answer # "ok" /\ task' = [task EXCEPT ![t] = NoTask]
        /\ row' = [row EXCEPT ![a].status = StatusAfterFailure(t)]
        /\ dead' \in {dead, [dead EXCEPT ![a] = @ + 1]}
        /\ dead' = dead \/ dead[a] < DeadThreshold
    BY <1>1, <1>5 DEF ReceiveFailed, Ended
  <2>2. StatusAfterFailure(t) \in Statuses
    BY <1>1, <1>2 DEF StatusAfterFailure, Statuses, Rows
  <2>3. row' \in [Logins -> Rows] /\ \A b \in Logins : row'[b].refresh = row[b].refresh
    BY <1>2, <2>1, <2>2 DEF Rows
  <2>4. RefreshTypeOK'
    <3>1. dead' \in [Logins -> 0..DeadThreshold]
      BY <1>2, <2>1, RefreshAssumption
    <3> QED BY <1>2, <1>3, <2>1, <2>3, <3>1, IdleType DEF RefreshInv, RefreshTypeOK
  <2>5. ~disturbed[a] => row[a].refresh = valid[a]
    <3>1. Renewed(a) = {}
      BY <1>3, <2>1, OneRenewal DEF Renewed
    <3> QED BY <3>1 DEF RefreshInv, NewestTokenKept
  <2> QED BY <1>2, <1>3, <2>1, <2>3, <2>4, <2>5, IdleType, ReleaseStep
<1> QED BY <1>4, <1>5 DEF Receive

\* Administrators, logins, the end of a session and the passing of time.
LEMMA OutsideInv == ASSUME RefreshInv, NEW a \in Logins, Outside(a) PROVE RefreshInv'
<1>1. /\ row \in [Logins -> Rows] /\ dead \in [Logins -> 0..DeadThreshold]
      /\ valid \in [Logins -> 0..MaxTokens] /\ issued \in [Logins -> 1..MaxTokens]
      /\ disturbed \in [Logins -> BOOLEAN]
  BY DEF RefreshInv, RefreshTypeOK
<1>2. ASSUME NEW status \in Statuses, AdminSetStatus(a, status) PROVE RefreshInv'
  <2>1. RefreshTypeOK' /\ \A b \in Logins : row'[b].refresh = row[b].refresh
    BY <1>1, <1>2 DEF AdminSetStatus, RefreshInv, RefreshTypeOK, Rows
  <2> QED BY <1>2, <2>1, OutsideStep DEF AdminSetStatus
<1>3. ASSUME Login(a) PROVE RefreshInv'
  <2>1. PICK r \in Rows : r.refresh = issued[a] + 1 /\ row' = [row EXCEPT ![a] = r]
    <3> DEFINE r == [status |-> "active", refresh |-> issued[a] + 1, fresh |-> TRUE]
    <3>1. r \in Rows /\ r.refresh = issued[a] + 1
      BY <1>1, <1>3, RefreshAssumption DEF Login, Rows, Statuses
    <3> QED BY <1>3, <3>1 DEF Login
  <2>2. /\ issued' \in [Logins -> 1..MaxTokens] /\ valid' \in [Logins -> 0..MaxTokens]
        /\ dead' \in [Logins -> 0..DeadThreshold] /\ valid'[a] = issued[a] + 1
        /\ \A b \in Logins \ {a} : valid'[b] = valid[b]
    BY <1>1, <1>3, RefreshAssumption DEF Login
  <2>3. /\ disturbed' \in [Logins -> BOOLEAN] /\ disturbed'[a] = (AtPost(a) # {})
        /\ \A b \in Logins \ {a} : disturbed'[b] = disturbed[b]
        /\ UNCHANGED <<lock, task>>
    BY <1>1, <1>3 DEF Login
  <2>4. RefreshTypeOK'
    BY <1>1, <2>1, <2>2, <2>3 DEF RefreshInv, RefreshTypeOK
  <2>5. row'[a].refresh = valid'[a] /\ \A b \in Logins \ {a} : row'[b] = row[b]
    BY <1>1, <2>1, <2>2
  <2> QED BY <2>2, <2>3, <2>4, <2>5, OutsideStep
<1>4. ASSUME SessionEnds(a) PROVE RefreshInv'
  <2>1. /\ valid' \in [Logins -> 0..MaxTokens] /\ disturbed' \in [Logins -> BOOLEAN]
        /\ UNCHANGED <<row, dead, lock, task, issued>>
        /\ disturbed'[a]
        /\ \A b \in Logins \ {a} : valid'[b] = valid[b] /\ disturbed'[b] = disturbed[b]
    BY <1>1, <1>4, RefreshAssumption DEF SessionEnds, NoToken
  <2>2. RefreshTypeOK'
    BY <2>1 DEF RefreshInv, RefreshTypeOK
  <2> QED BY <2>1, <2>2, OutsideStep
<1>5. ASSUME TokenAges(a) PROVE RefreshInv'
  <2>1. RefreshTypeOK' /\ \A b \in Logins : row'[b].refresh = row[b].refresh
    BY <1>1, <1>5 DEF TokenAges, RefreshInv, RefreshTypeOK, Rows
  <2> QED BY <1>5, <2>1, OutsideStep DEF TokenAges
<1> QED BY <1>2, <1>3, <1>4, <1>5 DEF Outside

\* A restart forgets renewals; an answer nobody will read disturbs the login.
LEMMA RestartInv == ASSUME RefreshInv, Restart PROVE RefreshInv'
<1>1. \A t \in Tasks : task'[t] = NoTask /\ task'[t].at = "idle"
  BY IdleType DEF Restart
<1>2. RefreshTypeOK'
  BY IdleType, RefreshAssumption DEF RefreshInv, RefreshTypeOK, Restart
<1>3. \A a \in Logins : AtPost(a)' = {}
  BY <1>1 DEF AtPost
<1>4. NewestTokenKept'
  <2> SUFFICES ASSUME NEW a \in Logins, ~disturbed'[a]
               PROVE  row'[a].refresh = valid'[a]
    BY <1>3 DEF NewestTokenKept
  <2>1. ~disturbed[a] /\ Renewed(a) = {}
    BY DEF Restart
  <2> QED BY <2>1 DEF RefreshInv, NewestTokenKept, Restart
<1>5. LockHeld' /\ AnswerIsNewest' /\ OnlyChatsSend'
  BY <1>1 DEF LockHeld, AnswerIsNewest, OnlyChatsSend
<1> QED BY <1>2, <1>4, <1>5 DEF RefreshInv

\* Every step of every coroutine, the upstream and the administrators keeps
\* the invariant.
LEMMA RefreshNextInv == ASSUME RefreshInv, [RefreshNext]_renewal PROVE RefreshInv'
<1>1. CASE UNCHANGED renewal
  <2>1. UNCHANGED <<row, dead, lock, task, valid, issued, disturbed>>
    BY <1>1 DEF renewal
  <2>2. RefreshTypeOK'
    BY <2>1 DEF RefreshInv, RefreshTypeOK
  <2> QED BY <2>1, <2>2, OutsideStep
<1>2. CASE RefreshNext
  BY <1>2, CallInv, AcquireInv, UpstreamInv, ReceiveInv, OutsideInv, RestartInv DEF RefreshNext
<1> QED BY <1>1, <1>2

\* The inductive invariant holds throughout.
THEOREM RefreshHolds == RefreshSpec => []RefreshInv
BY RefreshInitInv, RefreshNextInv, PTL DEF RefreshSpec

\* Renewals of one account leave its row and counters as they should be and
\* never fight over its refresh token: unless the upstream ended the session,
\* an answer was lost or a login crossed a POST, the database holds the token
\* the upstream accepts and every POST presents it (refresh_token_result).
THEOREM NewestTokenIsKept == RefreshSpec => []TokensConsistent
<1>1. RefreshInv => TokensConsistent
  BY DEF RefreshInv, TokensConsistent
<1> QED BY RefreshHolds, <1>1, PTL

\* Two POSTs never compete for the refresh token of one login: between
\* reading the row and writing the answer a coroutine is alone
\* (the asyncio lock of _token_locks).
THEOREM OnePostPerLogin ==
    RefreshSpec => [](\A a \in Logins : \A t, u \in AtPost(a) : t = u)
<1>1. RefreshInv => \A a \in Logins : \A t, u \in AtPost(a) : t = u
  BY OneRenewal
<1> QED BY RefreshHolds, <1>1, PTL

----------------------------------------------------------------------------
(* Giving up a login                                                       *)

\* Why a step may turn the status of an account to expired.
Reason(a) ==
    \/ dead'[a] >= DeadThreshold
    \/ \E t \in Tasks : /\ task[t].acct = a /\ task[t].kind = "chat"
                        /\ task[t].at \in {"answered", "sending"}
    \/ row[a].refresh = NoToken
    \/ AdminSetStatus(a, "expired")

\* Calls that expire a login were refused by the upstream or had no token.
LEMMA CallReason ==
    ASSUME RefreshInv, NEW t \in Tasks, Call(t), NEW a \in Logins,
           row[a].status # "expired", row'[a].status = "expired"
    PROVE  Reason(a)
<1>1. row \in [Logins -> Rows] /\ task[t].acct \in Logins
  BY DEF RefreshInv, RefreshTypeOK, TaskStates
<1>2. ~UNCHANGED row
  OBVIOUS
<1>3. ASSUME ChatRefused(t) PROVE Reason(a)
  <2>1. task[t].acct = a
    BY <1>1, <1>3 DEF ChatRefused, Expired
  <2> QED BY <1>3, <2>1 DEF ChatRefused, Reason, RefreshInv, OnlyChatsSend
<1>4. ASSUME NEW b \in Logins, ChatPickHopeless(t, b) PROVE Reason(a)
  <2>1. b = a
    BY <1>1, <1>4 DEF ChatPickHopeless, Expired
  <2> QED BY <1>4, <2>1 DEF ChatPickHopeless, Reason
<1> QED BY <1>2, <1>3, <1>4
       DEF Call, KeepaliveTurn, ChatServed, ChatCancelled, ChatPickFresh, ChatPickStale,
           KeepaliveList, AdminRefresh, SweepRefresh

\* Renewals that expire a login were told it is dead often enough, or were
\* made for a chat request.
LEMMA ReceiveReason ==
    ASSUME RefreshInv, NEW t \in Tasks, Receive(t), NEW a \in Logins,
           row[a].status # "expired", row'[a].status = "expired"
    PROVE  Reason(a)
<1>1. /\ row \in [Logins -> Rows] /\ dead \in [Logins -> 0..DeadThreshold]
      /\ task[t].acct \in Logins
  BY DEF RefreshInv, RefreshTypeOK, TaskStates
<1>2. ASSUME ReceiveRenewed(t) PROVE FALSE
  <2> DEFINE new == IF task[t].current.status = "inactive" THEN "inactive" ELSE "active"
  <2>1. row'[a].status \in {row[a].status, new}
    BY <1>1, <1>2 DEF ReceiveRenewed
  <2> QED BY <2>1
<1>3. ASSUME ReceiveFailed(t) PROVE Reason(a)
  <2>1. /\ task[t].acct = a /\ task[t].at = "answered" /\ StatusAfterFailure(t) = "expired"
    BY <1>1, <1>3 DEF ReceiveFailed, Rows
  <2>2. CASE task[t].kind = "chat"
    BY <2>1, <2>2 DEF Reason
  <2>3. CASE task[t].answer = "dead" /\ dead[a] + 1 >= DeadThreshold
    <3>1. dead'[a] >= DeadThreshold
      BY <1>1, <1>3, <2>1, <2>3, RefreshAssumption DEF ReceiveFailed
    <3> QED BY <3>1 DEF Reason
  <2> QED BY <2>1, <2>2, <2>3 DEF StatusAfterFailure
<1> QED BY <1>2, <1>3 DEF Receive

\* Administrators aside, nothing outside the renewals expires a login.
LEMMA OutsideReason ==
    ASSUME RefreshInv, NEW b \in Logins, Outside(b), NEW a \in Logins,
           row[a].status # "expired", row'[a].status = "expired"
    PROVE  Reason(a)
<1>1. row \in [Logins -> Rows]
  BY DEF RefreshInv, RefreshTypeOK
<1>2. ASSUME NEW status \in Statuses, AdminSetStatus(b, status) PROVE Reason(a)
  <2>1. a = b /\ status = "expired"
    BY <1>1, <1>2 DEF AdminSetStatus, Rows
  <2> QED BY <1>2, <2>1 DEF Reason
<1>3. ~Login(b) /\ ~SessionEnds(b) /\ ~TokenAges(b)
  BY <1>1 DEF Login, SessionEnds, TokenAges, Rows
<1> QED BY <1>2, <1>3 DEF Outside

\* A login is given up only for a reason: the threshold of sessions reported
\* dead, a chat call that could not be authorised, no token to renew it with,
\* or an administrator (refresh_token_result, mark_account_failure).
THEOREM LoginsAreNotLostLightly == RefreshSpec => ExpiryHasAReason
<1>1. ASSUME RefreshInv, [RefreshNext]_renewal
      PROVE  [\A a \in Logins :
                row[a].status # "expired" /\ row'[a].status = "expired" => Reason(a)]_renewal
  <2> SUFFICES ASSUME RefreshNext, NEW a \in Logins,
                      row[a].status # "expired", row'[a].status = "expired"
               PROVE  Reason(a)
    BY <1>1
  <2>1. ASSUME NEW t \in Tasks, Call(t) PROVE Reason(a)
    BY <1>1, <2>1, CallReason
  <2>2. ASSUME NEW t \in Tasks, Receive(t) PROVE Reason(a)
    BY <1>1, <2>2, ReceiveReason
  <2>3. ASSUME NEW b \in Logins, Outside(b) PROVE Reason(a)
    BY <1>1, <2>3, OutsideReason
  <2>4. row' # row
    OBVIOUS
  <2>5. ~Restart
    BY <2>4 DEF Restart
  <2>6. ASSUME NEW t \in Tasks PROVE ~Acquire(t) /\ ~Upstream(t)
    BY <2>4 DEF Acquire, Upstream, UpstreamRenews, UpstreamDead, UpstreamFails
  <2> QED BY <2>1, <2>2, <2>3, <2>5, <2>6 DEF RefreshNext
<1> QED BY RefreshHolds, <1>1, PTL DEF RefreshSpec, ExpiryHasAReason, Reason
=============================================================================
