---------------------------- MODULE RegistryProofs ----------------------------
(***************************************************************************)
(* Proofs about Registry, and about DailyQuota which it extends, for every *)
(* set of keys, logins, processes, writers and clicks, every set of        *)
(* databases the gateway may find and every bound.                         *)
(***************************************************************************)
EXTENDS Registry, FiniteSetTheorems, TLAPS

----------------------------------------------------------------------------
(* The daily limits alone                                                  *)

\* A worker thread that has read its date finds a counter that has forgotten
\* nothing, however long ago it read it: only a restart prunes, and a restart
\* ends the thread.
DatedExact ==
    \A r \in Requests :
        request[r].at = "dated" =>
            /\ request[r].day \in Days
            /\ usage[request[r].key][request[r].day] >= counted[request[r].key][request[r].day]

Counters == TypeOK /\ NeverUnderCounted /\ DatedExact

RequestRecords == [at : Points, key : Keys, limit : Limits \cup {0}, day : 0..MaxDay,
            rows : 0..MaxRows]

\* A counter of a date that is still kept does not shrink at a restart.
LEMMA KeptCounter ==
    ASSUME TypeOK, NEW k \in Keys, NEW d \in Days
    PROVE  Kept(k, d) \in Nat /\ (d >= today - Retention => Kept(k, d) >= usage[k][d])
<1>1. usage[k][d] \in Nat /\ logged[k][d] \in Nat /\ d \in Int /\ today \in Int
  BY QuotaAssumption DEF TypeOK, Days
<1>2. Migrated(k, d) \in Nat /\ Migrated(k, d) >= usage[k][d]
  BY <1>1 DEF Migrated
<1> QED BY <1>1, <1>2, QuotaAssumption DEF Kept

\* An idle request is a record of the right shape.
LEMMA IdleType == IdleRequest \in RequestRecords
<1>1. (CHOOSE k \in Keys : TRUE) \in Keys
  BY QuotaAssumption
<1> QED BY <1>1, QuotaAssumption DEF IdleRequest, RequestRecords, Points

\* The initial state satisfies the invariant.
LEMMA CountersInit == Init => Counters
<1> SUFFICES ASSUME Init PROVE Counters
  OBVIOUS
<1>1. 1 \in Days /\ 0 \in 0..MaxRestarts
  BY QuotaAssumption DEF Days
<1>2. Zero \in [Keys -> [Days -> Nat]]
  BY DEF Zero
<1>3. TypeOK
  BY <1>1, <1>2, IdleType DEF Init, TypeOK, RequestRecords
<1>4. NeverUnderCounted
  BY DEF Init, NeverUnderCounted, Zero
<1>5. \A r \in Requests : request[r].at = "idle"
  BY DEF Init, IdleRequest
<1> QED BY <1>3, <1>4, <1>5 DEF Counters, DatedExact

\* A step that changes one request, and neither a date nor a counter, keeps the
\* invariant unless it gives the request a date.
LEMMA RequestStep ==
    ASSUME Counters, NEW r \in Requests, NEW q \in RequestRecords,
           request' = [request EXCEPT ![r] = q],
           q.at = "dated" => q.day = today,
           logged' \in [Keys -> [Days -> Nat]],
           UNCHANGED <<today, limit, usage, restarts, counted>>
    PROVE  Counters'
<1>1. TypeOK'
  BY DEF Counters, TypeOK, RequestRecords
<1>2. NeverUnderCounted'
  BY DEF Counters, NeverUnderCounted
<1>3. q.at = "dated" => /\ q.day \in Days /\ q.key \in Keys
                        /\ usage[q.key][q.day] >= counted[q.key][q.day]
  BY QuotaAssumption DEF Counters, TypeOK, NeverUnderCounted, RequestRecords, Days
<1>4. DatedExact'
  BY <1>3 DEF Counters, TypeOK, DatedExact
<1> QED BY <1>1, <1>2, <1>4 DEF Counters

\* Every step keeps the invariant.
LEMMA CountersNext == Counters /\ [Next]_vars => Counters'
<1> SUFFICES ASSUME Counters, [Next]_vars PROVE Counters'
  OBVIOUS
<1>0. /\ TypeOK /\ \A r \in Requests : request[r] \in RequestRecords
      /\ request \in [Requests -> RequestRecords]
  BY DEF Counters, TypeOK, RequestRecords
<1>1. CASE Midnight
  <2>1. today' = today + 1 /\ today' \in Days /\ today \in Int /\ today' \in Int
    BY <1>0, <1>1, QuotaAssumption DEF Midnight, TypeOK, Days
  <2>2. TypeOK'
    BY <1>0, <1>1, <2>1 DEF Midnight, TypeOK
  <2>3. NeverUnderCounted'
    <3> SUFFICES ASSUME NEW k \in Keys, NEW d \in Days, d >= today' - Retention
                 PROVE  usage[k][d] >= counted[k][d]
      BY <1>1 DEF Midnight, NeverUnderCounted
    <3>1. d >= today - Retention
      BY <2>1, QuotaAssumption DEF Days
    <3> QED BY <3>1 DEF Counters, NeverUnderCounted
  <2>4. DatedExact'
    BY <1>1 DEF Midnight, Counters, DatedExact
  <2> QED BY <2>2, <2>3, <2>4 DEF Counters
<1>2. CASE Restart
  <2>1. TypeOK'
    BY <1>0, <1>2, KeptCounter, IdleType, QuotaAssumption DEF Restart, TypeOK, RequestRecords
  <2>2. NeverUnderCounted'
    <3> SUFFICES ASSUME NEW k \in Keys, NEW d \in Days, d >= today - Retention
                 PROVE  Kept(k, d) >= counted[k][d]
      BY <1>2 DEF Restart, NeverUnderCounted
    <3>1. Kept(k, d) \in Nat /\ Kept(k, d) >= usage[k][d] /\ usage[k][d] >= counted[k][d]
      BY <1>0, KeptCounter DEF Counters, NeverUnderCounted
    <3>2. usage[k][d] \in Nat /\ counted[k][d] \in Nat
      BY <1>0 DEF TypeOK
    <3> QED BY <3>1, <3>2
  <2>3. DatedExact'
    BY <1>2 DEF Restart, DatedExact, IdleRequest
  <2> QED BY <2>1, <2>2, <2>3 DEF Counters
<1>3. ASSUME NEW k \in Keys, NEW n \in Limits, ChangeLimit(k, n) PROVE Counters'
  BY <1>3 DEF ChangeLimit, Counters, TypeOK, NeverUnderCounted, DatedExact
<1>4. ASSUME NEW r \in Requests, NEW k \in Keys, Authenticate(r, k) PROVE Counters'
  <2> DEFINE q == [IdleRequest EXCEPT !.at = "authed", !.key = k, !.limit = limit[k]]
  <2>1. q \in RequestRecords /\ q.at = "authed"
    BY <1>0, IdleType DEF RequestRecords, Points, TypeOK, IdleRequest
  <2>2. request' = [request EXCEPT ![r] = q]
    BY <1>4 DEF Authenticate
  <2> HIDE DEF q
  <2> QED BY <1>0, <1>4, <2>1, <2>2, RequestStep DEF Authenticate, TypeOK
<1>5. ASSUME NEW r \in Requests, TurnAway(r) \/ Refuse(r) \/ End(r) PROVE Counters'
  BY <1>0, <1>5, IdleType, RequestStep DEF TurnAway, Refuse, End, TypeOK, IdleRequest
<1>6. ASSUME NEW r \in Requests, FindAccounts(r) PROVE Counters'
  <2> DEFINE q == [request[r] EXCEPT !.at = "queued"]
  <2>1. q \in RequestRecords /\ q.at = "queued"
    BY <1>0 DEF RequestRecords, Points
  <2>2. request' = [request EXCEPT ![r] = q]
    BY <1>6 DEF FindAccounts
  <2> HIDE DEF q
  <2> QED BY <1>0, <1>6, <2>1, <2>2, RequestStep DEF FindAccounts, TypeOK
<1>7. ASSUME NEW r \in Requests, ReadDate(r) PROVE Counters'
  <2> DEFINE q == [request[r] EXCEPT !.at = "dated", !.day = today]
  <2>1. today \in 0..MaxDay
    BY <1>0, QuotaAssumption DEF TypeOK, Days
  <2>2. q \in RequestRecords /\ q.day = today
    BY <1>0, <2>1 DEF RequestRecords, Points
  <2>3. request' = [request EXCEPT ![r] = q]
    BY <1>0, <1>7 DEF ReadDate
  <2> HIDE DEF q
  <2> QED BY <1>0, <1>7, <2>2, <2>3, RequestStep DEF ReadDate, TypeOK
<1>8. ASSUME NEW r \in Requests, LogAttempt(r) PROVE Counters'
  <2> DEFINE q == [request[r] EXCEPT !.rows = @ + 1]
  <2>1. q \in RequestRecords /\ q.at = "admitted"
    BY <1>0, <1>8, QuotaAssumption DEF LogAttempt, RequestRecords
  <2>2. request' = [request EXCEPT ![r] = q]
    BY <1>8 DEF LogAttempt
  <2>3. logged' \in [Keys -> [Days -> Nat]]
    BY <1>0, <1>8 DEF LogAttempt, TypeOK, RequestRecords
  <2> HIDE DEF q
  <2> QED BY <1>8, <2>1, <2>2, <2>3, RequestStep DEF LogAttempt
<1>9. ASSUME NEW r \in Requests, Reserve(r) PROVE Counters'
  <2> DEFINE k == request[r].key
             d == request[r].day
             q == [request[r] EXCEPT !.at = "admitted"]
  <2>1. k \in Keys /\ d \in Days
    BY <1>0, <1>9 DEF Reserve, Counters, DatedExact, RequestRecords
  <2>2. q \in RequestRecords /\ q.at = "admitted"
    BY <1>0 DEF RequestRecords, Points
  <2>3. /\ usage' = [usage EXCEPT ![k][d] = @ + 1]
        /\ counted' = [counted EXCEPT ![k][d] = @ + 1]
        /\ request' = [request EXCEPT ![r] = q]
        /\ UNCHANGED <<today, limit, logged, restarts>>
    BY <1>9 DEF Reserve
  <2> HIDE DEF k, d, q
  <2>4. \A j \in Keys, e \in Days :
           /\ usage[j][e] \in Nat /\ counted[j][e] \in Nat
           /\ usage'[j][e] = IF j = k /\ e = d THEN usage[j][e] + 1 ELSE usage[j][e]
           /\ counted'[j][e] = IF j = k /\ e = d THEN counted[j][e] + 1 ELSE counted[j][e]
    BY <1>0, <2>1, <2>3 DEF TypeOK
  <2>5. \A j \in Keys, e \in Days :
           usage[j][e] >= counted[j][e] => usage'[j][e] >= counted'[j][e]
    BY <2>4
  <2>6. TypeOK'
    BY <1>0, <2>1, <2>2, <2>3 DEF TypeOK, RequestRecords
  <2>7. NeverUnderCounted'
    BY <2>3, <2>5 DEF Counters, NeverUnderCounted
  <2>8. DatedExact'
    BY <1>0, <2>2, <2>3, <2>5 DEF Counters, DatedExact, RequestRecords
  <2> QED BY <2>6, <2>7, <2>8 DEF Counters
<1>10. CASE UNCHANGED vars
  BY <1>10 DEF vars, Counters, TypeOK, NeverUnderCounted, DatedExact
<1> QED BY <1>1, <1>2, <1>3, <1>4, <1>5, <1>6, <1>7, <1>8, <1>9, <1>10 DEF Next

\* The invariant holds in every reachable state.
THEOREM CountersHold == Spec => []Counters
<1> QED BY CountersInit, CountersNext, PTL DEF Spec

\* The variables keep their types.
THEOREM TypeCorrect == Spec => []TypeOK
<1>1. Counters => TypeOK
  BY DEF Counters
<1> QED BY <1>1, CountersHold, PTL

\* No restart and no pruning forgets an admitted request of a date still kept.
THEOREM NothingForgotten == Spec => []NeverUnderCounted
<1>1. Counters => NeverUnderCounted
  BY DEF Counters
<1> QED BY <1>1, CountersHold, PTL

\* A step that counts a request is the reservation of one whose limit allows it.
LEMMA CountingStep ==
    ASSUME Counters, [Next]_vars, NEW k \in Keys, NEW d \in Days, counted'[k][d] > counted[k][d]
    PROVE  \E r \in Requests :
              /\ request[r].at = "dated" /\ request'[r].at = "admitted"
              /\ request[r].key = k /\ request[r].day = d
              /\ request[r].limit = 0 \/ counted[k][d] < request[r].limit
<1>0. /\ TypeOK /\ request \in [Requests -> RequestRecords]
      /\ counted[k][d] \in Nat /\ usage[k][d] \in Nat
  BY DEF Counters, TypeOK, RequestRecords
<1>1. counted' # counted
  BY <1>0
<1>2. PICK r \in Requests : Reserve(r)
  BY <1>1 DEF Next, vars, Midnight, Restart, ChangeLimit, Authenticate, TurnAway,
              FindAccounts, ReadDate, Refuse, LogAttempt, End
<1>3. /\ request[r].at = "dated" /\ request'[r].at = "admitted"
      /\ counted' = [counted EXCEPT ![request[r].key][request[r].day] = @ + 1]
  BY <1>0, <1>2 DEF Reserve, RequestRecords
<1>4. request[r].key \in Keys /\ request[r].day \in Days
  BY <1>0, <1>3 DEF Counters, DatedExact, RequestRecords
<1>5. request[r].key = k /\ request[r].day = d
  BY <1>0, <1>3, <1>4 DEF TypeOK
<1>6. usage[k][d] >= counted[k][d]
  BY <1>3, <1>5 DEF Counters, DatedExact
<1>7. request[r].limit \in Nat
  <2>1. request[r].limit \in Limits \cup {0}
    BY <1>0, <1>2 DEF RequestRecords
  <2>2. Limits \cup {0} \subseteq Nat
    BY QuotaAssumption
  <2> QED BY <2>1, <2>2
<1>8. ~(request[r].limit > 0 /\ usage[k][d] >= request[r].limit)
  BY <1>2, <1>5 DEF Reserve, Exhausted
<1>9. request[r].limit = 0 \/ counted[k][d] < request[r].limit
  BY <1>0, <1>6, <1>7, <1>8
<1> QED BY <1>3, <1>5, <1>9

\* However many worker threads reserve at once, and across midnight and
\* restarts, no request is admitted beyond the limit it was authenticated under.
THEOREM LimitKept == Spec => LimitHonoured
<1> DEFINE Allowed == \A k \in Keys, d \in Days :
              counted'[k][d] > counted[k][d] =>
                 \E r \in Requests :
                    /\ request[r].at = "dated" /\ request'[r].at = "admitted"
                    /\ request[r].key = k /\ request[r].day = d
                    /\ request[r].limit = 0 \/ counted[k][d] < request[r].limit
<1>1. Counters /\ [Next]_vars => [Allowed]_vars
  BY CountingStep
<1>2. LimitHonoured <=> [][Allowed]_vars
  BY DEF LimitHonoured
<1> HIDE DEF Allowed
<1> QED BY <1>1, <1>2, CountersHold, PTL DEF Spec

----------------------------------------------------------------------------
(* The daily limits beside everything else                                 *)

\* What else becomes of a request: it ends with its process, or because its key
\* was deleted.
RequestsEnd ==
    /\ request' = [r \in Requests |-> IdleRequest]
    /\ UNCHANGED <<today, limit, usage, logged, restarts, counted>>
RequestEnds(r) ==
    /\ request' = [request EXCEPT ![r] = IdleRequest]
    /\ UNCHANGED <<today, limit, usage, logged, restarts, counted>>
CounterStep == [Next]_vars \/ RequestsEnd \/ \E r \in Requests : RequestEnds(r)

\* The end of a process, as the counters see it.
LEMMA StopCounters ==
    ASSUME NEW p \in Processes, Stop(p) PROVE UNCHANGED vars \/ RequestsEnd
BY DEF Stop, RequestsEnd, vars

\* Every step is one of these for the counters.
LEMMA CounterSteps == TypeOK /\ [RegistryNext]_rvars => CounterStep
<1> SUFFICES ASSUME TypeOK, [RegistryNext]_rvars PROVE CounterStep
  OBVIOUS
<1>1. CASE UNCHANGED rvars
  BY <1>1 DEF rvars, CounterStep
<1>2. CASE NextDay \/ Update
  BY <1>2 DEF NextDay, Update, CounterStep, Next
<1>3. ASSUME NEW c \in Clicks, NEW p \in Processes, ClickUpdate(c, p) PROVE CounterStep
  BY <1>3 DEF ClickUpdate, CounterStep
<1>4. ASSUME NEW c \in Clicks, RestartUpdated(c) PROVE CounterStep
  BY <1>4 DEF RestartUpdated, Stop, RequestsEnd, vars, CounterStep
<1>5. ASSUME NEW p \in Processes,
             \/ Bind(p) \/ Lock(p) \/ CreateTables(p) \/ MigrateAccounts(p) \/ RenameKeys(p)
             \/ CopyKeys(p) \/ MigrateRegions(p) \/ Commit(p) \/ Serve(p)
             \/ \E u \in Logins, d \in Domains : StartupImport(p, u, d)
      PROVE  CounterStep
  BY <1>5 DEF Bind, Lock, CreateTables, MigrateAccounts, RenameKeys, CopyKeys, MigrateRegions,
              Commit, Serve, StartupImport, StartFrame, CounterStep
<1>6. ASSUME NEW p \in Processes, Finish(p) \/ Stop(p) PROVE CounterStep
  BY <1>6, StopCounters DEF Finish, CounterStep, Next
<1>7. ASSUME NEW u \in Logins, NEW d \in Domains, Paste(u, d) PROVE CounterStep
  BY <1>7 DEF Paste, CounterStep
<1>8. ASSUME NEW w \in Writers, Scan(w) \/ Import(w) \/ PollLogin(w) \/ Write(w)
      PROVE  CounterStep
  BY <1>8 DEF Scan, Import, PollLogin, Look, Write, CounterStep
<1>9. ASSUME NEW t, Offer(t) \/ Expire(t) PROVE CounterStep
  BY <1>9 DEF Offer, Expire, CounterStep
<1>10. ASSUME NEW i \in Ids,
              DeleteAccount(i) \/ ClaimReads(i) \/ \E n \in Limits : EditAccount(i, n)
       PROVE  CounterStep
  BY <1>10 DEF DeleteAccount, ClaimReads, EditAccount, CounterStep
<1>11. CASE ClaimLands \/ ClaimFails
  BY <1>11 DEF ClaimLands, ClaimFails, CounterStep
<1>12. ASSUME NEW k \in Keys, DeleteKey(k) PROVE CounterStep
  BY <1>12 DEF DeleteKey, CounterStep
<1>13. ASSUME NEW k \in Keys, NEW n \in Limits, CreateKey(k, n) PROVE CounterStep
  <2>1. CASE n = limit[k]
    <3>1. limit' = limit
      BY <1>13, <2>1 DEF CreateKey, TypeOK
    <3> QED BY <1>13, <3>1 DEF CreateKey, CounterStep, vars
  <2>2. CASE n # limit[k]
    <3>1. ChangeLimit(k, n)
      BY <1>13, <2>2 DEF CreateKey, ChangeLimit
    <3> QED BY <3>1 DEF CounterStep, Next
  <2> QED BY <2>1, <2>2
<1>14. ASSUME NEW k \in Keys, NEW n \in Limits, EditKey(k, n) PROVE CounterStep
  BY <1>14 DEF EditKey, CounterStep, Next
<1>15. ASSUME NEW r \in Requests, NEW k \in Keys, Ask(r, k) PROVE CounterStep
  BY <1>15 DEF Ask, CounterStep, Next
<1>16. ASSUME NEW r \in Requests, Pass(r) PROVE CounterStep
  BY <1>16 DEF Pass, CounterStep, Next, RequestEnds
<1>17. ASSUME NEW r \in Requests, NEW i \in Ids \cup {0}, Charge(r, i) PROVE CounterStep
  BY <1>17 DEF Charge, CounterStep, Next
<1> QED
  BY <1>1, <1>2, <1>3, <1>4, <1>5, <1>6, <1>7, <1>8, <1>9, <1>10, <1>11, <1>12, <1>13, <1>14,
     <1>15, <1>16, <1>17 DEF RegistryNext, StartLogin, Discover

\* Requests that end leave the counters.
LEMMA CounterStepKeeps == Counters /\ CounterStep => Counters'
<1> SUFFICES ASSUME Counters, CounterStep PROVE Counters'
  OBVIOUS
<1>1. CASE [Next]_vars
  BY <1>1, CountersNext
<1>2. CASE RequestsEnd
  BY <1>2, IdleType DEF RequestsEnd, Counters, TypeOK, RequestRecords, NeverUnderCounted,
                        DatedExact, IdleRequest
<1>3. ASSUME NEW r \in Requests, RequestEnds(r) PROVE Counters'
  BY <1>3, IdleType, RequestStep DEF RequestEnds, Counters, TypeOK, IdleRequest
<1> QED BY <1>1, <1>2, <1>3 DEF CounterStep

----------------------------------------------------------------------------
(* The update button                                                       *)

\* Unless another click has pulled a newer release, what a click has pulled is
\* the code, and what it has installed belongs to it.
UpdateSound ==
    ~overlapped => \A c \in Clicks :
        /\ click[c].at = "ready" => installed = code
        /\ click[c].at = "pulled" => click[c].pulled = code
Updates == UpdateTypeOK /\ UpdateSound

ClickRecords == [at : {"none", "checked", "pulled", "ready"}, current : Versions,
                 pulled : Versions, process : Processes]
UpdateStep ==
    \/ UNCHANGED update \/ Release
    \/ \E p \in Processes : Load(p) \/ Forget(p)
    \/ \E c \in Clicks :
          \/ \E p \in Processes : CheckRelease(c, p)
          \/ Pull(c) \/ Install(c)

LEMMA NoClickType ==
    NoClick \in ClickRecords /\ NoClick.at = "none" /\ 0 \in Versions
<1>1. (CHOOSE p \in Processes : TRUE) \in Processes
  BY RegistryAssumption
<1> QED BY <1>1, SelfUpdateAssumption DEF NoClick, ClickRecords, Versions

LEMMA UpdatesInit == UpdateInit => Updates
BY NoClickType DEF UpdateInit, Updates, UpdateTypeOK, UpdateSound, ClickRecords

\* Every step is one of these for the update button.
LEMMA UpdateSteps == Updates /\ [RegistryNext]_rvars => UpdateStep
<1> SUFFICES ASSUME Updates, [RegistryNext]_rvars PROVE UpdateStep
  OBVIOUS
<1>1. CASE UNCHANGED rvars
  BY <1>1 DEF rvars, UpdateStep
<1>2. CASE NextDay \/ Update
  BY <1>2 DEF NextDay, Update, UpdateStep
<1>3. ASSUME NEW c \in Clicks, NEW p \in Processes, ClickUpdate(c, p) PROVE UpdateStep
  BY <1>3 DEF ClickUpdate, UpdateStep
<1>4. ASSUME NEW p \in Processes, Stop(p) \/ Bind(p) PROVE UpdateStep
  BY <1>4 DEF Stop, Bind, UpdateStep
<1>5. ASSUME NEW p \in Processes,
             \/ Lock(p) \/ CreateTables(p) \/ MigrateAccounts(p) \/ RenameKeys(p)
             \/ CopyKeys(p) \/ MigrateRegions(p) \/ Commit(p) \/ Finish(p) \/ Serve(p)
             \/ \E u \in Logins, d \in Domains : StartupImport(p, u, d)
      PROVE  UpdateStep
  BY <1>5 DEF Lock, CreateTables, MigrateAccounts, RenameKeys, CopyKeys, MigrateRegions,
              Commit, Finish, Serve, StartupImport, StartFrame, UpdateStep
<1>6. ASSUME NEW u \in Logins, NEW d \in Domains, Paste(u, d) PROVE UpdateStep
  BY <1>6 DEF Paste, UpdateStep
<1>7. ASSUME NEW w \in Writers, Scan(w) \/ Import(w) \/ PollLogin(w) \/ Write(w)
      PROVE  UpdateStep
  BY <1>7 DEF Scan, Import, PollLogin, Look, Write, UpdateStep
<1>8. ASSUME NEW t, Offer(t) \/ Expire(t) PROVE UpdateStep
  BY <1>8 DEF Offer, Expire, UpdateStep
<1>9. ASSUME NEW i \in Ids,
             DeleteAccount(i) \/ ClaimReads(i) \/ \E n \in Limits : EditAccount(i, n)
      PROVE  UpdateStep
  BY <1>9 DEF DeleteAccount, ClaimReads, EditAccount, UpdateStep
<1>10. CASE ClaimLands \/ ClaimFails
  BY <1>10 DEF ClaimLands, ClaimFails, UpdateStep
<1>11. ASSUME NEW k \in Keys, DeleteKey(k) \/ \E n \in Limits : CreateKey(k, n) \/ EditKey(k, n)
       PROVE  UpdateStep
  BY <1>11 DEF DeleteKey, CreateKey, EditKey, AccountFrame, UpdateStep
<1>12. ASSUME NEW r \in Requests,
              \/ Pass(r) \/ \E k \in Keys : Ask(r, k)
              \/ \E i \in Ids \cup {0} : Charge(r, i)
       PROVE  UpdateStep
  BY <1>12 DEF Pass, Ask, Charge, AccountFrame, UpdateStep
<1>13. ASSUME NEW c \in Clicks, RestartUpdated(c) PROVE UpdateStep
  <2>1. click[c].process \in Processes
    BY DEF Updates, UpdateTypeOK
  <2>2. Forget(click[c].process)
    BY <1>13 DEF RestartUpdated, Stop
  <2> QED BY <2>1, <2>2 DEF UpdateStep
<1> QED
  BY <1>1, <1>2, <1>3, <1>4, <1>5, <1>6, <1>7, <1>8, <1>9, <1>10, <1>11, <1>12, <1>13
     DEF RegistryNext, StartLogin, Discover

\* None of them restarts a release whose requirements are missing.
LEMMA UpdateStepKeeps == Updates /\ UpdateStep => Updates'
<1> SUFFICES ASSUME Updates, UpdateStep PROVE Updates'
  OBVIOUS
<1>0. /\ click \in [Clicks -> ClickRecords] /\ UpdateTypeOK /\ UpdateSound
      /\ NoClick \in ClickRecords /\ NoClick.at = "none"
      /\ released \in Versions /\ code \in Versions /\ installed \in Versions
  BY NoClickType DEF Updates, UpdateTypeOK, ClickRecords
<1>1. CASE UNCHANGED update
  BY <1>1 DEF update, Updates, UpdateTypeOK, UpdateSound
<1>2. CASE Release
  BY <1>0, <1>2, SelfUpdateAssumption DEF Release, Updates, UpdateTypeOK, UpdateSound, Versions
<1>3. ASSUME NEW p \in Processes, Load(p) PROVE Updates'
  BY <1>0, <1>3 DEF Load, Updates, UpdateTypeOK, UpdateSound
<1>4. ASSUME NEW p \in Processes, Forget(p) PROVE Updates'
  <2>1. click' \in [Clicks -> ClickRecords]
        /\ \A c \in Clicks : click'[c] = click[c] \/ click'[c] = NoClick
    BY <1>0, <1>4 DEF Forget
  <2>2. UNCHANGED <<released, code, installed, program, overlapped>>
    BY <1>4 DEF Forget
  <2> QED BY <1>0, <2>1, <2>2 DEF Updates, UpdateTypeOK, UpdateSound, ClickRecords
<1>5. ASSUME NEW c \in Clicks, NEW k \in ClickRecords, click' = [click EXCEPT ![c] = k],
             k.at \in {"none", "checked"},
             UNCHANGED <<released, code, installed, program, overlapped>>
      PROVE  Updates'
  <2>1. /\ click' \in [Clicks -> ClickRecords] /\ click'[c] = k
        /\ \A d \in Clicks : d # c => click'[d] = click[d]
    BY <1>0, <1>5
  <2> QED BY <1>0, <1>5, <2>1 DEF Updates, UpdateTypeOK, UpdateSound, ClickRecords
<1>6. ASSUME NEW c \in Clicks, NEW p \in Processes, CheckRelease(c, p) PROVE Updates'
  <2>1. PICK k : k = [NoClick EXCEPT !.at = "checked", !.current = program[p], !.process = p]
    OBVIOUS
  <2>2. k \in ClickRecords /\ k.at = "checked"
    BY <1>0, <2>1 DEF ClickRecords, UpdateTypeOK
  <2> QED BY <1>5, <1>6, <2>1, <2>2 DEF CheckRelease
<1>7. ASSUME NEW c \in Clicks, Pull(c) PROVE Updates'
  <2>1. CASE click' = [click EXCEPT ![c] = NoClick] /\ UNCHANGED <<code, overlapped>>
    BY <1>0, <1>5, <1>7, <2>1 DEF Pull
  <2>2. CASE /\ code' = released
             /\ click' = [click EXCEPT ![c] =
                             IF released = @.current THEN NoClick
                               ELSE [@ EXCEPT !.at = "pulled", !.pulled = released]]
             /\ overlapped' = (overlapped \/ (code' # code /\ \E d \in Clicks : InProgress(d)))
    <3>1. PICK k : k = IF released = click[c].current THEN NoClick
                       ELSE [click[c] EXCEPT !.at = "pulled", !.pulled = released]
      OBVIOUS
    <3>2. k \in ClickRecords /\ k.at \in {"none", "pulled"} /\ (k.at = "pulled" => k.pulled = released)
      BY <1>0, <3>1 DEF ClickRecords
    <3>3. /\ click' = [click EXCEPT ![c] = k] /\ click' \in [Clicks -> ClickRecords] /\ click'[c] = k
          /\ \A d \in Clicks : d # c => click'[d] = click[d]
      BY <1>0, <2>2, <3>1, <3>2
    <3>4. UNCHANGED <<released, installed, program>>
      BY <1>7 DEF Pull
    <3>5. UpdateTypeOK'
      BY <1>0, <2>2, <3>3, <3>4 DEF UpdateTypeOK, ClickRecords
    <3>6. UpdateSound'
      <4>1. SUFFICES ASSUME ~overlapped', NEW d \in Clicks
                     PROVE  /\ click'[d].at = "ready" => installed = code'
                            /\ click'[d].at = "pulled" => click'[d].pulled = code'
        BY <3>4 DEF UpdateSound
      <4>2. ~overlapped /\ (code' = code \/ ~InProgress(d))
        BY <2>2, <4>1
      <4> QED BY <1>0, <2>2, <3>2, <3>3, <4>1, <4>2 DEF UpdateSound, InProgress
    <3> QED BY <3>5, <3>6 DEF Updates
  <2> QED BY <1>7, <2>1, <2>2 DEF Pull
<1>8. ASSUME NEW c \in Clicks, Install(c) PROVE Updates'
  <2>1. CASE click' = [click EXCEPT ![c] = NoClick] /\ UNCHANGED installed
    BY <1>0, <1>5, <1>8, <2>1 DEF Install
  <2>2. CASE installed' = click[c].pulled /\ click' = [click EXCEPT ![c].at = "ready"]
    <3>1. PICK k : k = [click[c] EXCEPT !.at = "ready"]
      OBVIOUS
    <3>2. k \in ClickRecords /\ k.at = "ready" /\ click[c].pulled \in Versions
      BY <1>0, <3>1 DEF ClickRecords
    <3>3. /\ click' = [click EXCEPT ![c] = k] /\ click' \in [Clicks -> ClickRecords] /\ click'[c] = k
          /\ \A d \in Clicks : d # c => click'[d] = click[d]
      BY <1>0, <2>2, <3>1, <3>2
    <3>4. UNCHANGED <<released, code, program, overlapped>> /\ click[c].at = "pulled"
      BY <1>8 DEF Install
    <3>5. UpdateTypeOK'
      BY <1>0, <2>2, <3>2, <3>3, <3>4 DEF UpdateTypeOK, ClickRecords
    <3>6. UpdateSound'
      BY <1>0, <2>2, <3>2, <3>3, <3>4 DEF UpdateSound
    <3> QED BY <3>5, <3>6 DEF Updates
  <2> QED BY <1>8, <2>1, <2>2 DEF Install
<1> QED BY <1>1, <1>2, <1>3, <1>4, <1>6, <1>7, <1>8 DEF UpdateStep

----------------------------------------------------------------------------
(* The tables, as values                                                   *)

\* A set of numbers has a least one.
LEMMA Least ==
    ASSUME NEW S, S \subseteq Nat, S # {}
    PROVE  \E m \in S : \A n \in S : m <= n
<1>1. PICK below : below = [n \in Nat |-> S \cap (0..n)]
  OBVIOUS
<1>2. \A n \in S : below[n] \in FiniteSubsetsOf(Nat)
  <2> SUFFICES ASSUME NEW n \in S PROVE below[n] \in FiniteSubsetsOf(Nat)
    OBVIOUS
  <2>1. below[n] = S \cap (0..n) /\ IsFiniteSet(0..n)
    BY <1>1, FS_Interval
  <2>2. IsFiniteSet(below[n])
    BY <2>1, FS_Intersection
  <2> QED BY <2>1, <2>2 DEF FiniteSubsetsOf
<1>3. PICK T : T = {below[n] : n \in S}
  OBVIOUS
<1>4. PICK x \in T : \A y \in T : <<y, x>> \notin StrictSubsetOrdering(Nat)
  <2>1. T \subseteq FiniteSubsetsOf(Nat) /\ T # {}
    BY <1>2, <1>3
  <2> QED BY <2>1, FS_StrictSubsetOrderingWellFounded, WFMin
<1>5. PICK m \in S : x = below[m]
  BY <1>3
<1>6. ASSUME NEW n \in S, n < m PROVE FALSE
  <2>1. below[n] = S \cap (0..n) /\ below[m] = S \cap (0..m) /\ m \in Nat /\ n \in Nat
    BY <1>1
  <2>2. below[n] \subseteq below[m] /\ m \in below[m] /\ m \notin below[n]
    BY <1>6, <2>1
  <2>3. <<below[n], below[m]>> \in StrictSubsetOrdering(Nat)
    BY <2>1, <2>2 DEF StrictSubsetOrdering
  <2> QED BY <1>3, <1>4, <1>5, <2>3
<1> QED BY <1>5, <1>6

\* Only international accounts are in the international channel.
Regional(t) ==
    \A i \in DOMAIN t.rows : t.rows[i].channel = "workbuddy" \/ t.rows[i].domain = "intl"

\* The snapshot of an account that is not muddled promises pr.
Credits(t, pr, mu) ==
    \A i \in DOMAIN t.rows \ mu : t.rows[i].limit > 0 =>
        /\ pr[i] = Promise(t, i)
        /\ t.baseline => t.rows[i].baseline <= t.rows[i].spent

Sound(t, pr, mu) ==
    IsTable(t) /\ (t.unique => ~Clash(t.rows)) /\ Regional(t) /\ Credits(t, pr, mu)

\* What a table holds.
LEMMA TableHas ==
    ASSUME NEW t, IsTable(t)
    PROVE  /\ t.last \in 0..MaxRow /\ t.last \in Nat
           /\ t.baseline \in BOOLEAN /\ t.unique \in BOOLEAN /\ t.hashed \in BOOLEAN
           /\ t.keys \subseteq Keys /\ t.aside \subseteq Keys
           /\ DOMAIN t.rows \subseteq 1..t.last /\ DOMAIN t.rows \subseteq Ids
           /\ DOMAIN t.rows \subseteq Nat
           /\ t.rows \in [DOMAIN t.rows -> Rows]
           /\ \A i \in DOMAIN t.rows :
                 /\ t.rows[i] \in Rows
                 /\ t.rows[i].uid \in Logins /\ t.rows[i].channel \in Channels
                 /\ t.rows[i].domain \in Domains
                 /\ t.rows[i].limit \in Nat /\ t.rows[i].baseline \in Nat
                 /\ t.rows[i].spent \in Nat
<1>1. /\ t.last \in 0..MaxRow /\ t.keys \subseteq Keys /\ t.aside \subseteq Keys
      /\ t.baseline \in BOOLEAN /\ t.unique \in BOOLEAN /\ t.hashed \in BOOLEAN
  BY DEF IsTable
<1>2. t.last \in Nat /\ t.last <= MaxRow
  BY <1>1, RegistryAssumption
<1>3. DOMAIN t.rows \subseteq 1..t.last /\ t.rows \in [DOMAIN t.rows -> Rows]
  BY DEF IsTable
<1>4. DOMAIN t.rows \subseteq Ids /\ DOMAIN t.rows \subseteq Nat
  BY <1>2, <1>3, RegistryAssumption DEF Ids
<1>5. \A i \in DOMAIN t.rows : t.rows[i] \in Rows
  BY <1>3
<1> QED BY <1>1, <1>2, <1>3, <1>4, <1>5 DEF Rows

\* Other rows, in the same table.
LEMMA TableRows ==
    ASSUME NEW t, IsTable(t), NEW R, DOMAIN R \subseteq 1..t.last, R \in [DOMAIN R -> Rows],
           NEW b \in BOOLEAN, NEW u \in BOOLEAN
    PROVE  /\ IsTable([t EXCEPT !.rows = R])
           /\ [t EXCEPT !.rows = R] = [rows |-> R, last |-> t.last, keys |-> t.keys,
                  aside |-> t.aside, hashed |-> t.hashed, baseline |-> t.baseline,
                  unique |-> t.unique]
           /\ IsTable([t EXCEPT !.rows = R, !.baseline = b, !.unique = u])
           /\ [t EXCEPT !.rows = R, !.baseline = b, !.unique = u]
                 = [rows |-> R, last |-> t.last, keys |-> t.keys,
                    aside |-> t.aside, hashed |-> t.hashed, baseline |-> b, unique |-> u]
<1>1. t \in [rows : {t.rows}, last : 0..MaxRow, keys : SUBSET Keys, aside : SUBSET Keys,
             hashed : BOOLEAN, baseline : BOOLEAN, unique : BOOLEAN]
  BY DEF IsTable
<1>2. PICK r, l, ks, as, ha, ba, un :
        t = [rows |-> r, last |-> l, keys |-> ks, aside |-> as, hashed |-> ha,
             baseline |-> ba, unique |-> un]
  BY <1>1
<1>3. PICK x : x = [t EXCEPT !.rows = R]
  OBVIOUS
<1>4. PICK y : y = [t EXCEPT !.rows = R, !.baseline = b, !.unique = u]
  OBVIOUS
<1>5. /\ x = [rows |-> R, last |-> t.last, keys |-> t.keys, aside |-> t.aside,
             hashed |-> t.hashed, baseline |-> t.baseline, unique |-> t.unique]
      /\ y = [rows |-> R, last |-> t.last, keys |-> t.keys, aside |-> t.aside,
             hashed |-> t.hashed, baseline |-> b, unique |-> u]
  BY <1>2, <1>3, <1>4
<1>6. IsTable(x) /\ IsTable(y)
  BY <1>1, <1>5, TableHas DEF IsTable
<1> QED BY <1>3, <1>4, <1>5, <1>6

\* Other keys, in the same table.
WithKeys(t, K, A, h) ==
    [rows |-> t.rows, last |-> t.last, keys |-> K, aside |-> A, hashed |-> h,
     baseline |-> t.baseline, unique |-> t.unique]

\* The ways the keys of a table change.
KeysAside(t) == [t EXCEPT !.aside = t.keys, !.keys = {}]
KeysBack(t) == [t EXCEPT !.keys = t.aside, !.aside = {}, !.hashed = TRUE]
KeysSet(t, K) == [t EXCEPT !.keys = K]

LEMMA TableKeys ==
    ASSUME NEW t, IsTable(t)
    PROVE  /\ KeysAside(t) = WithKeys(t, {}, t.keys, t.hashed)
           /\ KeysBack(t) = WithKeys(t, t.aside, {}, TRUE)
           /\ \A K : KeysSet(t, K) = WithKeys(t, K, t.aside, t.hashed)
<1>1. t \in [rows : {t.rows}, last : 0..MaxRow, keys : SUBSET Keys, aside : SUBSET Keys,
             hashed : BOOLEAN, baseline : BOOLEAN, unique : BOOLEAN]
  BY DEF IsTable
<1>2. PICK r, l, ks, as, ha, ba, un :
        t = [rows |-> r, last |-> l, keys |-> ks, aside |-> as, hashed |-> ha,
             baseline |-> ba, unique |-> un]
  BY <1>1
<1>3. \A K, A, h : WithKeys(t, K, A, h) = [rows |-> r, last |-> l, keys |-> K, aside |-> A,
                                          hashed |-> h, baseline |-> ba, unique |-> un]
  BY <1>2 DEF WithKeys
<1>4. t.keys = ks /\ t.aside = as /\ t.hashed = ha
  BY <1>2
<1>5. KeysAside(t) = WithKeys(t, {}, t.keys, t.hashed)
  <2>1. PICK x : x = [t EXCEPT !.aside = ks, !.keys = {}]
    OBVIOUS
  <2>2. x = [rows |-> r, last |-> l, keys |-> {}, aside |-> ks, hashed |-> ha,
             baseline |-> ba, unique |-> un]
    BY <1>2, <2>1
  <2>3. KeysAside(t) = x
    BY <1>4, <2>1 DEF KeysAside
  <2>4. WithKeys(t, {}, t.keys, t.hashed) = x
    BY <1>3, <1>4, <2>2
  <2> QED BY <2>3, <2>4
<1>6. KeysBack(t) = WithKeys(t, t.aside, {}, TRUE)
  <2>1. PICK x : x = [t EXCEPT !.keys = as, !.aside = {}, !.hashed = TRUE]
    OBVIOUS
  <2>2. x = [rows |-> r, last |-> l, keys |-> as, aside |-> {}, hashed |-> TRUE,
             baseline |-> ba, unique |-> un]
    BY <1>2, <2>1
  <2>3. KeysBack(t) = x
    BY <1>4, <2>1 DEF KeysBack
  <2>4. WithKeys(t, t.aside, {}, TRUE) = x
    BY <1>3, <1>4, <2>2
  <2> QED BY <2>3, <2>4
<1>7. ASSUME NEW K PROVE KeysSet(t, K) = WithKeys(t, K, t.aside, t.hashed)
  <2>1. PICK x : x = [t EXCEPT !.keys = K]
    OBVIOUS
  <2>2. x = [rows |-> r, last |-> l, keys |-> K, aside |-> as, hashed |-> ha,
             baseline |-> ba, unique |-> un]
    BY <1>2, <2>1
  <2>3. KeysSet(t, K) = x
    BY <1>4, <2>1 DEF KeysSet
  <2>4. WithKeys(t, K, t.aside, t.hashed) = x
    BY <1>3, <1>4, <2>2
  <2> QED BY <2>3, <2>4
<1> QED BY <1>5, <1>6, <1>7

\* Rows that keep their logins bring no clash, nor a login of the wrong channel.
LEMMA SameLogins ==
    ASSUME NEW R, NEW Q, DOMAIN Q \subseteq DOMAIN R,
           \A i \in DOMAIN Q : /\ Q[i].uid = R[i].uid /\ Q[i].channel = R[i].channel
                               /\ Q[i].domain = R[i].domain
    PROVE  /\ ~Clash(R) => ~Clash(Q)
           /\ (\A i \in DOMAIN R : R[i].channel = "workbuddy" \/ R[i].domain = "intl")
                 => \A i \in DOMAIN Q : Q[i].channel = "workbuddy" \/ Q[i].domain = "intl"
BY DEF Clash, Twin

\* The draft of nobody.
LEMMA NoDraftSound ==
    ASSUME NEW pr, NEW mu
    PROVE  Sound(NoDraft, pr, mu)
<1>1. DOMAIN NoDraft.rows = {}
  BY DEF NoDraft
<1>2. IsTable(NoDraft)
  <2>1. NoDraft.rows = [x \in {} |-> x]
    BY DEF NoDraft
  <2>2. NoDraft.rows \in [{} -> Rows]
    BY <2>1
  <2>3. 0 \in 0..MaxRow /\ {} \in SUBSET Keys
    BY RegistryAssumption
  <2> QED BY <1>1, <2>2, <2>3 DEF IsTable, NoDraft
<1> QED BY <1>1, <1>2 DEF Sound, Clash, Regional, Credits

\* What add_account makes of the table, field by field.
Added(t, row) ==
    [t EXCEPT !.last = @ + 1,
              !.rows = [i \in DOMAIN @ \cup {t.last + 1} |-> IF i \in DOMAIN @ THEN @[i] ELSE row]]
AddedRows(t, row) ==
    [i \in DOMAIN t.rows \cup {t.last + 1} |-> IF i \in DOMAIN t.rows THEN t.rows[i] ELSE row]

LEMMA AddedRow ==
    ASSUME NEW t, IsTable(t), NEW row
    PROVE  Added(t, row)
           = [rows |-> AddedRows(t, row), last |-> t.last + 1, keys |-> t.keys,
              aside |-> t.aside, hashed |-> t.hashed, baseline |-> t.baseline,
              unique |-> t.unique]
<1>1. t \in [rows : {t.rows}, last : 0..MaxRow, keys : SUBSET Keys, aside : SUBSET Keys,
             hashed : BOOLEAN, baseline : BOOLEAN, unique : BOOLEAN]
  BY DEF IsTable
<1>2. PICK r, l, ks, as, ha, ba, un :
        t = [rows |-> r, last |-> l, keys |-> ks, aside |-> as, hashed |-> ha,
             baseline |-> ba, unique |-> un]
  BY <1>1
<1>3. PICK Q : Q = [i \in DOMAIN r \cup {l + 1} |-> IF i \in DOMAIN r THEN r[i] ELSE row]
  OBVIOUS
<1>4. PICK s : s = [t EXCEPT !.last = l + 1, !.rows = Q]
  OBVIOUS
<1>5. s = [rows |-> Q, last |-> l + 1, keys |-> ks, aside |-> as, hashed |-> ha,
           baseline |-> ba, unique |-> un]
  BY <1>2, <1>4
<1>6. t.rows = r /\ t.last = l
  BY <1>2
<1>7. Added(t, row) = s
  BY <1>2, <1>3, <1>4, <1>6 DEF Added
<1>8. AddedRows(t, row) = Q
  BY <1>3, <1>6 DEF AddedRows
<1> QED BY <1>2, <1>5, <1>7, <1>8

\* A login that is not in the table can be added to it.
LEMMA AddedSound ==
    ASSUME NEW t, NEW pr, NEW mu, Sound(t, pr, mu), NEW row \in Rows, row.limit = 0,
           row.channel = "workbuddy" \/ row.domain = "intl", t.last < MaxRow,
           \A i \in DOMAIN t.rows : ~(t.rows[i].uid = row.uid /\ t.rows[i].channel = row.channel),
           NEW Q, Q = AddedRows(t, row),
           NEW s, s = [rows |-> Q, last |-> t.last + 1, keys |-> t.keys, aside |-> t.aside,
                       hashed |-> t.hashed, baseline |-> t.baseline, unique |-> t.unique]
    PROVE  /\ Sound(s, pr, mu)
           /\ s.aside = t.aside /\ s.baseline = t.baseline /\ s.last = t.last + 1
           /\ \A i \in DOMAIN s.rows :
                 i <= t.last => i \in DOMAIN t.rows /\ s.rows[i] = t.rows[i]
<1>0. IsTable(t) /\ Regional(t) /\ Credits(t, pr, mu) /\ (t.unique => ~Clash(t.rows))
  BY DEF Sound
<1>1. PICK r, l : r = t.rows /\ l = t.last /\ l \in Nat
  BY <1>0, TableHas
<1>2. /\ s.rows = Q /\ s.last = l + 1 /\ s.unique = t.unique /\ s.baseline = t.baseline
      /\ s.aside = t.aside /\ s.keys = t.keys /\ s.hashed = t.hashed
  BY <1>1
<1>3. t.rows = r /\ t.last = l /\ l \in Nat
  BY <1>1
<1>4. /\ DOMAIN Q = DOMAIN r \cup {l + 1} /\ l + 1 \notin DOMAIN r /\ Q[l + 1] = row
      /\ \A i \in DOMAIN r : Q[i] = r[i]
      /\ DOMAIN r \subseteq 1..l /\ DOMAIN Q \subseteq 1..(l + 1)
  BY <1>0, <1>3, TableHas DEF AddedRows
<1>5. IsTable(s)
  <2>1. l + 1 \in 0..MaxRow
    BY <1>3, RegistryAssumption
  <2>2. Q \in [DOMAIN Q -> Rows]
    BY <1>0, <1>2, <1>3, <1>4, TableHas DEF AddedRows
  <2>3. s \in [rows : {s.rows}, last : 0..MaxRow, keys : SUBSET Keys, aside : SUBSET Keys,
             hashed : BOOLEAN, baseline : BOOLEAN, unique : BOOLEAN]
    BY <1>0, <1>2, <1>3, <2>1, TableHas
  <2> QED BY <1>2, <1>4, <2>2, <2>3 DEF IsTable
<1>6. s.unique => ~Clash(s.rows)
  <2>1. ASSUME s.unique, NEW i \in DOMAIN Q, NEW j \in DOMAIN Q, i # j, Twin(Q, i, j) PROVE FALSE
    <3>1. CASE i = l + 1
      BY <1>2, <1>3, <1>4, <2>1, <3>1 DEF Twin
    <3>2. CASE j = l + 1
      BY <1>2, <1>3, <1>4, <2>1, <3>2 DEF Twin
    <3>3. CASE i \in DOMAIN r /\ j \in DOMAIN r
      BY <1>0, <1>2, <1>3, <1>4, <2>1, <3>3 DEF Twin, Clash
    <3> QED BY <1>4, <3>1, <3>2, <3>3
  <2> QED BY <1>2, <1>3, <2>1 DEF Clash
<1>7. Regional(s)
  BY <1>0, <1>2, <1>3, <1>4 DEF Regional
<1>8. Credits(s, pr, mu)
  BY <1>0, <1>2, <1>3, <1>4 DEF Credits, Promise
<1>9. \A i \in DOMAIN s.rows : i <= t.last => i \in DOMAIN t.rows /\ s.rows[i] = t.rows[i]
  BY <1>2, <1>3, <1>4
<1> QED BY <1>2, <1>3, <1>5, <1>6, <1>7, <1>8, <1>9 DEF Sound

\* Rows with the logins they had, some of them gone, and sums that keep what
\* is promised.
LEMMA RowsSound ==
    ASSUME NEW t, NEW pr, NEW mu, NEW pn, NEW mn, Sound(t, pr, mu),
           NEW R, DOMAIN R \subseteq DOMAIN t.rows, R \in [DOMAIN R -> Rows],
           \A i \in DOMAIN R : /\ R[i].uid = t.rows[i].uid /\ R[i].channel = t.rows[i].channel
                               /\ R[i].domain = t.rows[i].domain,
           NEW s, s = [t EXCEPT !.rows = R], Credits(s, pn, mn)
    PROVE  /\ Sound(s, pn, mn)
           /\ s.rows = R /\ s.aside = t.aside /\ s.baseline = t.baseline /\ s.last = t.last
<1>1. IsTable(t) /\ Regional(t) /\ (t.unique => ~Clash(t.rows))
  BY DEF Sound
<1>2. DOMAIN R \subseteq 1..t.last
  BY <1>1, TableHas
<1>3. /\ IsTable(s)
      /\ s = [rows |-> R, last |-> t.last, keys |-> t.keys, aside |-> t.aside,
              hashed |-> t.hashed, baseline |-> t.baseline, unique |-> t.unique]
  BY <1>1, <1>2, TableRows
<1>4. s.rows = R /\ s.unique = t.unique /\ s.aside = t.aside /\ s.baseline = t.baseline
      /\ s.last = t.last
  BY <1>3
<1>5. s.unique => ~Clash(s.rows)
  <2>1. ~Clash(t.rows) => ~Clash(R)
    BY SameLogins
  <2> QED BY <1>1, <1>4, <2>1
<1>6. Regional(s)
  BY <1>1, <1>4, SameLogins DEF Regional
<1> QED BY <1>3, <1>4, <1>5, <1>6 DEF Sound

\* Rows with the sums they had, some under another channel, without a clash.
LEMMA MovedSound ==
    ASSUME NEW t, NEW pr, NEW mu, Sound(t, pr, mu),
           NEW R, DOMAIN R = DOMAIN t.rows, R \in [DOMAIN R -> Rows], ~Clash(R),
           \A i \in DOMAIN R :
              /\ R[i].limit = t.rows[i].limit /\ R[i].baseline = t.rows[i].baseline
              /\ R[i].spent = t.rows[i].spent
              /\ R[i].channel = "workbuddy" \/ R[i].domain = "intl",
           NEW s, s = [t EXCEPT !.rows = R]
    PROVE  /\ Sound(s, pr, mu)
           /\ s = [rows |-> R, last |-> t.last, keys |-> t.keys, aside |-> t.aside,
                   hashed |-> t.hashed, baseline |-> t.baseline, unique |-> t.unique]
<1>1. IsTable(t) /\ Credits(t, pr, mu)
  BY DEF Sound
<1>2. DOMAIN R \subseteq 1..t.last
  BY <1>1, TableHas
<1>3. /\ IsTable(s)
      /\ s = [rows |-> R, last |-> t.last, keys |-> t.keys, aside |-> t.aside,
              hashed |-> t.hashed, baseline |-> t.baseline, unique |-> t.unique]
  BY <1>1, <1>2, TableRows
<1>4. s.rows = R /\ s.baseline = t.baseline
  BY <1>3
<1>5. Regional(s) /\ ~Clash(s.rows)
  BY <1>4 DEF Regional
<1>6. Credits(s, pr, mu)
  BY <1>1, <1>4 DEF Credits, Promise
<1> QED BY <1>3, <1>5, <1>6 DEF Sound

\* Deduplication keeps the oldest row of every login, and no two rows of one.
LEMMA DedupedRows ==
    ASSUME NEW t, IsTable(t)
    PROVE  /\ DOMAIN Deduped(t.rows) \subseteq DOMAIN t.rows
           /\ \A i \in DOMAIN Deduped(t.rows) : Deduped(t.rows)[i] = t.rows[i]
           /\ ~Clash(Deduped(t.rows))
           /\ \A i \in DOMAIN t.rows : \E j \in DOMAIN Deduped(t.rows) :
                 j <= i /\ t.rows[j].uid = t.rows[i].uid
<1> DEFINE R == t.rows
           kept == {i \in DOMAIN R : \A j \in DOMAIN R : Twin(R, i, j) => i <= j}
<1>1. DOMAIN Deduped(R) = kept /\ \A i \in kept : Deduped(R)[i] = R[i]
  BY DEF Deduped
<1>2. DOMAIN R \subseteq Nat
  BY TableHas
<1>3. ASSUME NEW i \in kept, NEW j \in kept, Twin(R, i, j) PROVE i = j
  <2>1. Twin(R, j, i) /\ i \in Nat /\ j \in Nat
    BY <1>2, <1>3 DEF Twin
  <2> QED BY <1>3, <2>1
<1>4. ~Clash(Deduped(R))
  BY <1>1, <1>3 DEF Clash, Twin
<1>5. ASSUME NEW i \in DOMAIN R PROVE \E j \in kept : j <= i /\ R[j].uid = R[i].uid
  <2>1. PICK S : S = {j \in DOMAIN R : Twin(R, i, j)}
    OBVIOUS
  <2>2. i \in S /\ S \subseteq Nat
    BY <1>2, <1>5, <2>1 DEF Twin
  <2>3. PICK m \in S : \A n \in S : m <= n
    BY <2>2, Least
  <2>4. ASSUME NEW n \in DOMAIN R, Twin(R, m, n) PROVE m <= n
    BY <2>1, <2>3, <2>4 DEF Twin
  <2>5. m \in DOMAIN R /\ Twin(R, i, m)
    BY <2>1, <2>3
  <2>6. m \in kept /\ m <= i /\ R[m].uid = R[i].uid
    BY <2>2, <2>3, <2>4, <2>5 DEF Twin
  <2> QED BY <2>6
<1> QED BY <1>1, <1>4, <1>5

\* A limit without a baseline counts from what was spent until now.
LEMMA BackfillRow ==
    ASSUME NEW row \in Rows
    PROVE  /\ Backfill(row) \in Rows
           /\ Backfill(row) = [uid |-> row.uid, channel |-> row.channel, domain |-> row.domain,
                               limit |-> row.limit,
                               baseline |-> IF row.limit > 0 THEN row.spent ELSE 0,
                               spent |-> row.spent]
<1>1. PICK b : b = IF row.limit > 0 THEN row.spent ELSE 0
  OBVIOUS
<1>2. PICK x : x = [row EXCEPT !.baseline = b]
  OBVIOUS
<1>3. row.spent \in Nat /\ row.limit \in Nat /\ row.uid \in Logins /\ row.channel \in Channels
      /\ row.domain \in Domains
  BY DEF Rows
<1>4. b \in Nat
  BY <1>1, <1>3
<1>5. x = [uid |-> row.uid, channel |-> row.channel, domain |-> row.domain,
           limit |-> row.limit, baseline |-> b, spent |-> row.spent]
  BY <1>2 DEF Rows
<1>6. x \in Rows
  BY <1>3, <1>4, <1>5 DEF Rows
<1>7. Backfill(row) = x
  BY <1>1, <1>2 DEF Backfill
<1> QED BY <1>1, <1>5, <1>6, <1>7

\* The rows the account step of the migration leaves.
AccountRows(t) ==
    [i \in DOMAIN Deduped(t.rows) |->
       IF t.baseline THEN Deduped(t.rows)[i] ELSE Backfill(Deduped(t.rows)[i])]
AccountTable(t) == [t EXCEPT !.rows = AccountRows(t), !.baseline = TRUE, !.unique = TRUE]

\* The account step of the migration: what is promised stays promised, for a
\* limit that had no baseline counts from what was spent until then.
LEMMA MigratedSound ==
    ASSUME NEW t, NEW pr, NEW mu, Sound(t, pr, mu)
    PROVE  /\ Sound(AccountTable(t), pr, mu)
           /\ AccountTable(t)
                = [rows |-> AccountRows(t), last |-> t.last, keys |-> t.keys, aside |-> t.aside,
                   hashed |-> t.hashed, baseline |-> TRUE, unique |-> TRUE]
           /\ DOMAIN AccountRows(t) \subseteq DOMAIN t.rows
           /\ \A i \in DOMAIN AccountRows(t) :
                 /\ AccountRows(t)[i].uid = t.rows[i].uid
                 /\ AccountRows(t)[i].spent = t.rows[i].spent
           /\ \A i \in DOMAIN t.rows : \E j \in DOMAIN AccountRows(t) :
                 j <= i /\ AccountRows(t)[j].uid = t.rows[i].uid
<1>0. PICK R, s : R = AccountRows(t) /\ s = AccountTable(t)
  OBVIOUS
<1>1. IsTable(t) /\ Credits(t, pr, mu) /\ Regional(t)
  BY DEF Sound
<1>2. PICK D : D = Deduped(t.rows)
  OBVIOUS
<1>3. /\ DOMAIN D \subseteq DOMAIN t.rows /\ ~Clash(D)
      /\ \A i \in DOMAIN D : D[i] = t.rows[i]
      /\ \A i \in DOMAIN t.rows : \E j \in DOMAIN D : j <= i /\ t.rows[j].uid = t.rows[i].uid
  BY <1>1, <1>2, DedupedRows
<1>4. /\ DOMAIN R = DOMAIN D
      /\ \A i \in DOMAIN D : R[i] = IF t.baseline THEN D[i] ELSE Backfill(D[i])
  BY <1>0, <1>2 DEF AccountRows
<1>5. \A i \in DOMAIN D : D[i] \in Rows
  BY <1>1, <1>3, TableHas
<1>6. ASSUME NEW i \in DOMAIN D
      PROVE  /\ R[i] \in Rows /\ R[i].uid = D[i].uid /\ R[i].channel = D[i].channel
             /\ R[i].domain = D[i].domain /\ R[i].limit = D[i].limit /\ R[i].spent = D[i].spent
             /\ R[i].baseline = IF t.baseline THEN D[i].baseline
                                ELSE IF D[i].limit > 0 THEN D[i].spent ELSE 0
  <2>1. D[i] \in Rows
    BY <1>5
  <2>2. CASE t.baseline
    BY <1>4, <2>1, <2>2
  <2>3. CASE ~t.baseline
    <3>1. R[i] = Backfill(D[i])
      BY <1>4, <2>3
    <3> QED BY <2>1, <2>3, <3>1, BackfillRow
  <2> QED BY <2>2, <2>3
<1>7. DOMAIN R \subseteq 1..t.last /\ R \in [DOMAIN R -> Rows]
  <2>1. DOMAIN R \subseteq 1..t.last
    BY <1>1, <1>3, <1>4, TableHas
  <2>2. R = [i \in DOMAIN D |-> R[i]]
    BY <1>0, <1>2 DEF AccountRows
  <2>3. R \in [DOMAIN D -> Rows]
    BY <1>6, <2>2
  <2> QED BY <1>4, <2>1, <2>3
<1>8. /\ IsTable(s)
      /\ s = [rows |-> R, last |-> t.last, keys |-> t.keys, aside |-> t.aside,
              hashed |-> t.hashed, baseline |-> TRUE, unique |-> TRUE]
  BY <1>1, <1>7, TableRows, <1>0 DEF AccountTable
<1>9. s.rows = R /\ s.baseline = TRUE
  BY <1>8
<1>10. ~Clash(R)
  <2>1. ASSUME NEW i \in DOMAIN R
        PROVE  /\ R[i].uid = D[i].uid /\ R[i].channel = D[i].channel
               /\ R[i].domain = D[i].domain
    BY <1>4, <1>6
  <2>2. ~Clash(D) => ~Clash(R)
    BY <1>4, <2>1, SameLogins
  <2> QED BY <1>3, <2>2
<1>11. Regional(s)
  <2>1. SUFFICES ASSUME NEW i \in DOMAIN R
                 PROVE  R[i].channel = "workbuddy" \/ R[i].domain = "intl"
    BY <1>9 DEF Regional
  <2>2. /\ i \in DOMAIN t.rows /\ D[i] = t.rows[i]
        /\ R[i].channel = D[i].channel /\ R[i].domain = D[i].domain
    BY <1>3, <1>4, <1>6
  <2> QED BY <1>1, <2>2 DEF Regional
<1>12. Credits(s, pr, mu)
  <2>1. SUFFICES ASSUME NEW i \in DOMAIN R \ mu, R[i].limit > 0
                 PROVE  pr[i] = Promise(s, i) /\ R[i].baseline <= R[i].spent
    BY <1>9 DEF Credits
  <2>2. /\ D[i] = t.rows[i] /\ t.rows[i].limit > 0 /\ i \in DOMAIN t.rows \ mu
        /\ D[i].limit \in Nat /\ D[i].spent \in Nat /\ D[i].baseline \in Nat
    BY <1>3, <1>4, <1>5, <1>6, <2>1 DEF Rows
  <2>3. /\ pr[i] = Promise(t, i)
        /\ t.baseline => t.rows[i].baseline <= t.rows[i].spent
    BY <1>1, <2>2 DEF Credits
  <2> QED BY <1>4, <1>6, <1>9, <2>1, <2>2, <2>3 DEF Promise
<1>13. \A i \in DOMAIN t.rows : \E j \in DOMAIN R : j <= i /\ R[j].uid = t.rows[i].uid
  <2>1. SUFFICES ASSUME NEW i \in DOMAIN t.rows
                 PROVE  \E j \in DOMAIN R : j <= i /\ R[j].uid = t.rows[i].uid
    OBVIOUS
  <2>2. PICK j \in DOMAIN D : j <= i /\ t.rows[j].uid = t.rows[i].uid
    BY <1>3
  <2>3. j \in DOMAIN R /\ R[j].uid = D[j].uid /\ D[j] = t.rows[j]
    BY <1>3, <1>4, <1>6
  <2> QED BY <2>2, <2>3
<1>14. Sound(s, pr, mu)
  BY <1>8, <1>9, <1>10, <1>11, <1>12 DEF Sound
<1>15. /\ DOMAIN R \subseteq DOMAIN t.rows
       /\ \A i \in DOMAIN R : R[i].uid = t.rows[i].uid /\ R[i].spent = t.rows[i].spent
  <2>1. ASSUME NEW i \in DOMAIN R
        PROVE  /\ i \in DOMAIN t.rows /\ R[i].uid = D[i].uid /\ R[i].spent = D[i].spent
               /\ D[i] = t.rows[i]
    BY <1>3, <1>4, <1>6
  <2> QED BY <2>1
<1> QED BY <1>0, <1>8, <1>13, <1>14, <1>15

----------------------------------------------------------------------------
(* Starts, the tables and what is in memory                                *)

\* A start holds an open transaction, or has committed it; both hold the lock.
Opened == {"tables", "accounts", "renamed", "keys", "regions"}
Done == {"committed", "scanning", "up"}
Holding(p) == phase[p] \in Opened \cup Done \cup {"locked"}

OneHolds == \A p, q \in Processes : Holding(p) /\ Holding(q) => p = q
DraftOpen == (\A p \in Processes : phase[p] \notin Opened) => draft = NoDraft
Ready == (\E p \in Processes : phase[p] \in Done) => disk.baseline

\* t is what a start has made of the rows of s.
Descends(t, s) ==
    /\ t.last = s.last
    /\ DOMAIN t.rows \subseteq DOMAIN s.rows
    /\ \A i \in DOMAIN s.rows :
          \E j \in DOMAIN t.rows : j <= i /\ t.rows[j].uid = s.rows[i].uid
    /\ \A j \in DOMAIN t.rows : t.rows[j].spent = s.rows[j].spent

\* What the draft is, however far the start is that has it.
Lineage(ph) ==
    /\ ph = "tables" => draft = disk
    /\ Descends(draft, disk)
    /\ ph # "tables" => draft.baseline
    /\ IF ph = "renamed" /\ ~draft.hashed
         THEN draft.aside = disk.keys
         ELSE draft.keys = disk.keys /\ draft.aside = {}
    /\ ph = "regions" => \A i \in DOMAIN draft.rows :
                            draft.rows[i].channel = ChannelFor(draft.rows[i].domain)
Follows == \A p \in Processes : phase[p] \in Opened => Lineage(phase[p])

Histories == promised \in [Ids -> Int] /\ muddled \subseteq Ids
Tables ==
    /\ phase \in [Processes -> Phases] /\ Histories
    /\ disk.aside = {} /\ Sound(disk, promised, muddled) /\ Sound(draft, promised, muddled)
    /\ OneHolds /\ DraftOpen /\ Ready /\ Follows

\* What a login or a claim remembers is of the process that serves, and of a
\* row that is what it was, is gone, or was edited meanwhile.
Served == (claim # NoClaim \/ \E w \in Writers : writer[w] # NoWrite) => Serving
ClaimKnows ==
    claim # NoClaim =>
      /\ claim.id <= disk.last
      /\ claim.id \in DOMAIN disk.rows \ muddled => disk.rows[claim.id].limit = claim.limit
WriteRecords == [kind : Kinds, uid : Logins, domain : Domains, found : 0..MaxRow]
ClaimRecords == [id : 0..MaxRow, limit : Nat]
Memory ==
    /\ writer \in [Writers -> WriteRecords] /\ claim \in ClaimRecords
    /\ tickets \subseteq Channels \cup {"login"}
    /\ Served /\ ClaimKnows

\* Nothing is remembered at first.
LEMMA NothingTypes ==
    /\ NoWrite \in WriteRecords /\ NoClaim \in ClaimRecords
    /\ NoClaim.id = 0 /\ NoClaim.limit = 0
<1>1. (CHOOSE u \in Logins : TRUE) \in Logins
  BY RegistryAssumption
<1>2. 0 \in 0..MaxRow
  BY RegistryAssumption
<1> QED BY <1>1, <1>2 DEF NoWrite, NoClaim, WriteRecords, ClaimRecords, Kinds, Domains

LEMMA TablesInit == RegistryInit => Tables /\ Memory
<1> SUFFICES ASSUME RegistryInit PROVE Tables /\ Memory
  OBVIOUS
<1>0. /\ disk \in Stores /\ draft = NoDraft /\ phase = [p \in Processes |-> "off"]
      /\ writer = [w \in Writers |-> NoWrite] /\ tickets = {} /\ claim = NoClaim
      /\ promised = [i \in Ids |-> IF i \in DOMAIN disk.rows THEN Promise(disk, i) ELSE 0]
      /\ muddled = {}
  BY DEF RegistryInit
<1>1. /\ IsTable(disk) /\ disk.aside = {} /\ (disk.unique => ~Clash(disk.rows))
      /\ Regional(disk)
      /\ \A i \in DOMAIN disk.rows : disk.baseline => disk.rows[i].baseline <= disk.rows[i].spent
  BY <1>0, StoreAssumption DEF Regional
<1>2. /\ DOMAIN disk.rows \subseteq Ids
      /\ \A i \in DOMAIN disk.rows : Promise(disk, i) \in Int
  <2>1. ASSUME NEW i \in DOMAIN disk.rows PROVE Promise(disk, i) \in Int
    <3>1. disk.rows[i].limit \in Nat /\ disk.rows[i].baseline \in Nat /\ disk.rows[i].spent \in Nat
      BY <1>1, TableHas
    <3> QED BY <3>1 DEF Promise
  <2> QED BY <1>1, <2>1, TableHas
<1>3. Histories
  BY <1>0, <1>2 DEF Histories
<1>4. Sound(disk, promised, muddled)
  BY <1>0, <1>1, <1>2 DEF Sound, Credits
<1>5. Sound(draft, promised, muddled)
  BY <1>0, NoDraftSound
<1>6. phase \in [Processes -> Phases] /\ \A p \in Processes : ~Holding(p)
  BY <1>0 DEF Phases, Holding, Opened, Done
<1>7. OneHolds /\ DraftOpen /\ Ready /\ Follows
  BY <1>0, <1>6 DEF OneHolds, DraftOpen, Ready, Follows, Holding
<1>8. Memory
  BY <1>0, NothingTypes DEF Memory, Served, ClaimKnows
<1> QED BY <1>1, <1>3, <1>4, <1>5, <1>6, <1>7, <1>8 DEF Tables

\* While a process that has committed its start runs, no transaction is open.
LEMMA NothingOpen ==
    ASSUME Tables, NEW p \in Processes, phase[p] \in Done
    PROVE  draft = NoDraft /\ disk.baseline /\ \A q \in Processes : phase[q] \notin Opened
<1>1. \A q \in Processes : phase[q] \notin Opened
  <2>1. ASSUME NEW q \in Processes, phase[q] \in Opened PROVE FALSE
    <3>1. Holding(p) /\ Holding(q)
      BY <2>1 DEF Holding
    <3>2. p = q
      BY <3>1 DEF Tables, OneHolds
    <3> QED BY <2>1, <3>2 DEF Opened, Done
  <2> QED BY <2>1
<1> QED BY <1>1 DEF Tables, DraftOpen, Ready

LEMMA ServingDone == Serving => \E p \in Processes : phase[p] \in Done
BY DEF Serving, Done

\* A change of the committed tables, while nothing is open.
LEMMA DiskStep ==
    ASSUME Tables, NEW p \in Processes, phase[p] \in Done, UNCHANGED <<draft, phase>>,
           Sound(disk', promised', muddled'), Histories', disk'.aside = {},
           disk'.baseline = disk.baseline
    PROVE  Tables'
<1>1. draft = NoDraft /\ disk.baseline /\ \A q \in Processes : phase[q] \notin Opened
  BY NothingOpen
<1>2. Sound(draft', promised', muddled')
  BY <1>1, NoDraftSound
<1>3. OneHolds' /\ DraftOpen' /\ phase' \in [Processes -> Phases]
  BY DEF Tables, OneHolds, DraftOpen, Holding
<1>4. Ready' /\ Follows'
  BY <1>1 DEF Ready, Follows
<1> QED BY <1>2, <1>3, <1>4 DEF Tables, Sound

LEMMA TablesQuiet == Tables /\ UNCHANGED <<disk, draft, phase, promised, muddled>> => Tables'
BY DEF Tables, Histories, OneHolds, DraftOpen, Ready, Follows, Holding, Lineage, Sound, Credits,
       Descends, Regional

\* Memory after a step that starts no claim and may change rows.
LEMMA MemoryKept ==
    ASSUME Memory, Served', claim' \in {claim, NoClaim},
           writer' \in [Writers -> WriteRecords], tickets' \subseteq Channels \cup {"login"},
           claim' # NoClaim =>
              /\ disk.last <= disk'.last
              /\ \A i \in DOMAIN disk'.rows \ muddled' :
                    i = claim.id => /\ i \in DOMAIN disk.rows \ muddled
                                    /\ disk'.rows[i].limit = disk.rows[i].limit,
           disk.last \in Nat, disk'.last \in Nat
    PROVE  Memory'
<1>1. claim' \in ClaimRecords
  BY NothingTypes DEF Memory
<1>2. ClaimKnows'
  <2>1. SUFFICES ASSUME claim' # NoClaim
                 PROVE  /\ claim'.id <= disk'.last
                        /\ claim'.id \in DOMAIN disk'.rows \ muddled' =>
                              disk'.rows[claim'.id].limit = claim'.limit
    BY DEF ClaimKnows
  <2>2. claim' = claim /\ claim # NoClaim
    BY <2>1
  <2>3. claim.id <= disk.last /\ claim.id \in Int
    BY <2>2 DEF Memory, ClaimKnows, ClaimRecords
  <2>4. claim.id <= disk'.last
    BY <2>1, <2>3
  <2>5. ASSUME claim.id \in DOMAIN disk'.rows \ muddled'
        PROVE  disk'.rows[claim.id].limit = claim.limit
    BY <2>1, <2>2, <2>5 DEF Memory, ClaimKnows
  <2> QED BY <2>2, <2>4, <2>5
<1> QED BY <1>1, <1>2 DEF Memory

LEMMA MemoryQuiet ==
    Memory /\ UNCHANGED <<disk, phase, muddled, writer, claim>>
           /\ tickets' \subseteq Channels \cup {"login"} => Memory'
BY DEF Memory, Served, Serving, ClaimKnows

----------------------------------------------------------------------------
(* Every step keeps the tables sound: the starts                           *)

LEMMA Stepped ==
    ASSUME Tables, NEW p \in Processes, NEW x \in Phases, phase' = [phase EXCEPT ![p] = x]
    PROVE  /\ phase' \in [Processes -> Phases] /\ phase'[p] = x
           /\ \A q \in Processes : q # p => phase'[q] = phase[q]
BY DEF Tables

\* A process binds, takes the lock or gives it up; what it had open is gone.
LEMMA Waits ==
    ASSUME Tables, NEW p \in Processes, NEW x \in {"off", "bound", "locked", "refused"},
           phase' = [phase EXCEPT ![p] = x], UNCHANGED <<disk, promised, muddled>>,
           draft' = IF phase[p] \in Opened THEN NoDraft ELSE draft,
           x = "locked" => \A q \in Processes \ {p} : ~Holding(q)
    PROVE  Tables'
<1>0. /\ phase' \in [Processes -> Phases] /\ phase'[p] = x
      /\ \A q \in Processes : q # p => phase'[q] = phase[q]
  BY Stepped DEF Phases
<1>1. x \notin Opened /\ x \notin Done
  BY DEF Opened, Done
<1>2. OneHolds'
  <2>1. SUFFICES ASSUME NEW q \in Processes, NEW r \in Processes, Holding(q)', Holding(r)'
                 PROVE  q = r
    BY DEF OneHolds
  <2>2. \A s \in Processes : s # p /\ Holding(s)' => Holding(s)
    BY <1>0 DEF Holding
  <2>3. Holding(p)' => x = "locked"
    BY <1>0, <1>1 DEF Holding
  <2> QED BY <2>1, <2>2, <2>3 DEF Tables, OneHolds
<1>3. DraftOpen'
  <2>1. SUFFICES ASSUME \A q \in Processes : phase'[q] \notin Opened PROVE draft' = NoDraft
    BY DEF DraftOpen
  <2>2. CASE phase[p] \in Opened
    BY <2>2
  <2>3. CASE phase[p] \notin Opened
    BY <1>0, <2>1, <2>3 DEF Tables, DraftOpen
  <2> QED BY <2>2, <2>3
<1>4. Ready'
  BY <1>0, <1>1 DEF Tables, Ready
<1>5. Follows'
  <2>1. SUFFICES ASSUME NEW q \in Processes, phase'[q] \in Opened PROVE Lineage(phase[q])'
    BY DEF Follows
  <2>2. q # p /\ phase'[q] = phase[q] /\ phase[q] \in Opened
    BY <1>0, <1>1, <2>1
  <2>3. phase[p] \notin Opened
    BY <2>2 DEF Tables, OneHolds, Holding
  <2>4. Lineage(phase[q]) /\ draft' = draft
    BY <2>2, <2>3 DEF Tables, Follows
  <2> QED BY <2>2, <2>4 DEF Lineage, Descends
<1>6. Sound(draft', promised', muddled')
  BY NoDraftSound DEF Tables
<1> QED BY <1>0, <1>2, <1>3, <1>4, <1>5, <1>6 DEF Tables, Histories, Sound

\* A start goes on with its transaction.
LEMMA Opens ==
    ASSUME Tables, NEW p \in Processes, Holding(p), NEW x \in Opened,
           phase' = [phase EXCEPT ![p] = x], UNCHANGED <<disk, promised, muddled>>,
           Sound(draft', promised, muddled), Lineage(x)'
    PROVE  Tables'
<1>0. /\ phase' \in [Processes -> Phases] /\ phase'[p] = x
      /\ \A q \in Processes : q # p => phase'[q] = phase[q]
  BY Stepped DEF Phases, Opened
<1>1. x \notin Done
  BY DEF Opened, Done
<1>2. \A q \in Processes : Holding(q)' => q = p
  BY <1>0 DEF Tables, OneHolds, Holding
<1>3. OneHolds' /\ DraftOpen'
  BY <1>0, <1>2 DEF OneHolds, DraftOpen
<1>4. Ready'
  BY <1>0, <1>1 DEF Tables, Ready
<1>5. Follows'
  <2>1. SUFFICES ASSUME NEW q \in Processes, phase'[q] \in Opened PROVE Lineage(phase[q])'
    BY DEF Follows
  <2>2. q = p
    BY <1>2, <2>1 DEF Holding
  <2>3. phase'[q] = x
    BY <1>0, <2>2
  <2> QED BY <2>3 DEF Lineage
<1> QED BY <1>0, <1>3, <1>4, <1>5 DEF Tables, Histories, Sound

\* A committed start goes on to serve.
LEMMA GoesOn ==
    ASSUME Tables, NEW p \in Processes, phase[p] \in Done, NEW x \in Done,
           phase' = [phase EXCEPT ![p] = x], UNCHANGED <<disk, draft, promised, muddled>>
    PROVE  Tables'
<1>0. /\ phase' \in [Processes -> Phases] /\ phase'[p] = x
      /\ \A q \in Processes : q # p => phase'[q] = phase[q]
  BY Stepped DEF Phases, Done
<1>1. draft = NoDraft /\ disk.baseline /\ \A q \in Processes : phase[q] \notin Opened
  BY NothingOpen
<1>2. x \notin Opened
  BY DEF Opened, Done
<1>3. \A q \in Processes : Holding(q)' <=> Holding(q)
  BY <1>0 DEF Holding
<1>4. OneHolds' /\ DraftOpen' /\ Ready' /\ Follows'
  BY <1>0, <1>1, <1>2, <1>3 DEF Tables, OneHolds, DraftOpen, Ready, Follows
<1> QED BY <1>0, <1>4 DEF Tables, Histories, Sound

LEMMA BindTables == ASSUME Tables, NEW p \in Processes, Bind(p) PROVE Tables'
<1>1. /\ phase' = [phase EXCEPT ![p] = "bound"] /\ phase[p] \notin Opened
      /\ UNCHANGED <<disk, draft, promised, muddled>>
  BY DEF Bind, Idle, Opened
<1> QED BY <1>1, Waits

\* Whoever finds the lock free is alone.
LEMMA LockTables == ASSUME Tables, NEW p \in Processes, Lock(p) PROVE Tables'
<1>1. PICK x : x = IF LockTaken(p) THEN "off" ELSE "locked"
  OBVIOUS
<1>2. /\ phase' = [phase EXCEPT ![p] = x] /\ phase[p] \notin Opened
      /\ UNCHANGED <<disk, draft, promised, muddled>>
  BY <1>1 DEF Lock, Opened
<1>3. ASSUME x = "locked", NEW q \in Processes \ {p} PROVE ~Holding(q)
  BY <1>1, <1>3 DEF LockTaken, Idle, Holding, Opened, Done
<1>4. x \in {"off", "locked"}
  BY <1>1
<1> QED BY <1>2, <1>3, <1>4, Waits

LEMMA StopTables == ASSUME Tables, NEW p \in Processes, Stop(p) PROVE Tables'
<1>1. /\ phase' = [phase EXCEPT ![p] = "off"]
      /\ draft' = IF phase[p] \in Opened THEN NoDraft ELSE draft
      /\ UNCHANGED <<disk, promised, muddled>>
  BY DEF Stop, Opened
<1> QED BY <1>1, Waits

\* The transaction a start has open, and what it descends from.
LEMMA OpenDraft ==
    ASSUME Tables, NEW p \in Processes, phase[p] \in Opened
    PROVE  /\ Holding(p) /\ Lineage(phase[p])
           /\ Sound(draft, promised, muddled) /\ IsTable(draft) /\ IsTable(disk)
BY DEF Tables, Holding, Follows, Sound

LEMMA DescendsItself == ASSUME NEW t, IsTable(t) PROVE Descends(t, t)
<1>1. \A i \in DOMAIN t.rows : i <= i
  BY TableHas
<1> QED BY <1>1 DEF Descends

LEMMA CreateTablesKeeps == ASSUME Tables, NEW p \in Processes, CreateTables(p) PROVE Tables'
<1>1. /\ phase[p] = "locked" /\ phase' = [phase EXCEPT ![p] = "tables"]
      /\ draft' = disk /\ UNCHANGED <<disk, promised, muddled>>
  BY DEF CreateTables, Step, StartFrame
<1>2. Holding(p) /\ "tables" \in Opened
  BY <1>1 DEF Holding, Opened
<1>3. Descends(disk, disk)
  BY DescendsItself DEF Tables, Sound
<1>4. Lineage("tables")'
  BY <1>1, <1>3 DEF Lineage, Tables, Descends
<1> QED BY <1>1, <1>2, <1>4, Opens DEF Tables

LEMMA MigrateAccountsKeeps ==
    ASSUME Tables, NEW p \in Processes, MigrateAccounts(p) PROVE Tables'
<1>1. /\ phase[p] = "tables" /\ phase' = [phase EXCEPT ![p] = "accounts"]
      /\ UNCHANGED <<disk, promised, muddled>>
  BY DEF MigrateAccounts, Step, StartFrame
<1>2. Holding(p) /\ "accounts" \in Opened /\ Lineage("tables") /\ Sound(draft, promised, muddled)
  BY <1>1, OpenDraft DEF Opened
<1>3. draft = disk /\ draft.aside = {}
  BY <1>2 DEF Lineage
<1>4. PICK R : R = AccountRows(draft)
  OBVIOUS
<1>5. draft' = AccountTable(draft)
  BY DEF MigrateAccounts, AccountTable, AccountRows
<1>6. /\ Sound(draft', promised, muddled)
      /\ draft' = [rows |-> R, last |-> draft.last, keys |-> draft.keys,
                   aside |-> draft.aside, hashed |-> draft.hashed, baseline |-> TRUE,
                   unique |-> TRUE]
      /\ DOMAIN R \subseteq DOMAIN draft.rows
      /\ \A i \in DOMAIN R : R[i].uid = draft.rows[i].uid /\ R[i].spent = draft.rows[i].spent
      /\ \A i \in DOMAIN draft.rows : \E j \in DOMAIN R :
            j <= i /\ R[j].uid = draft.rows[i].uid
  BY <1>2, <1>4, <1>5, MigratedSound
<1>7. /\ draft'.rows = R /\ draft'.last = draft.last /\ draft'.keys = draft.keys
      /\ draft'.aside = draft.aside /\ draft'.baseline = TRUE
  BY <1>6
<1>8. Descends(draft', disk)
  BY <1>3, <1>6, <1>7 DEF Descends
<1>9. Lineage("accounts")'
  BY <1>1, <1>3, <1>7, <1>8 DEF Lineage, Descends
<1> QED BY <1>1, <1>2, <1>6, <1>9, Opens

\* The keys change place, and nothing else.
LEMMA WithKeysSound ==
    ASSUME NEW t, NEW pr, NEW mu, Sound(t, pr, mu), NEW K \in SUBSET Keys,
           NEW A \in SUBSET Keys, NEW h \in BOOLEAN, NEW s, s = WithKeys(t, K, A, h)
    PROVE  /\ Sound(s, pr, mu)
           /\ s.rows = t.rows /\ s.last = t.last /\ s.keys = K /\ s.aside = A
           /\ s.hashed = h /\ s.baseline = t.baseline
<1>1. s.rows = t.rows /\ s.last = t.last /\ s.keys = K /\ s.aside = A /\ s.hashed = h
      /\ s.baseline = t.baseline /\ s.unique = t.unique
  BY DEF WithKeys
<1>2. IsTable(s)
  <2>1. IsTable(t)
    BY DEF Sound
  <2>2. s \in [rows : {s.rows}, last : 0..MaxRow, keys : SUBSET Keys, aside : SUBSET Keys,
              hashed : BOOLEAN, baseline : BOOLEAN, unique : BOOLEAN]
    BY <1>1, <2>1, TableHas DEF WithKeys
  <2> QED BY <1>1, <2>1, <2>2 DEF IsTable
<1> QED BY <1>1, <1>2 DEF Sound, Regional, Credits, Promise

LEMMA KeysSound ==
    ASSUME NEW t, NEW pr, NEW mu, Sound(t, pr, mu)
    PROVE  /\ LET s == KeysAside(t)
              IN  /\ Sound(s, pr, mu) /\ s.rows = t.rows /\ s.last = t.last /\ s.keys = {}
                  /\ s.aside = t.keys /\ s.hashed = t.hashed /\ s.baseline = t.baseline
           /\ LET s == KeysBack(t)
              IN  /\ Sound(s, pr, mu) /\ s.rows = t.rows /\ s.last = t.last /\ s.keys = t.aside
                  /\ s.aside = {} /\ s.baseline = t.baseline
           /\ \A K \in SUBSET Keys :
                 LET s == KeysSet(t, K)
                 IN  /\ Sound(s, pr, mu) /\ s.rows = t.rows /\ s.last = t.last /\ s.keys = K
                     /\ s.aside = t.aside /\ s.hashed = t.hashed /\ s.baseline = t.baseline
<1>1. /\ IsTable(t) /\ t.keys \in SUBSET Keys /\ t.aside \in SUBSET Keys
      /\ t.hashed \in BOOLEAN /\ {} \in SUBSET Keys /\ TRUE \in BOOLEAN
  BY TableHas DEF Sound
<1>2. /\ KeysAside(t) = WithKeys(t, {}, t.keys, t.hashed)
      /\ KeysBack(t) = WithKeys(t, t.aside, {}, TRUE)
      /\ \A K : KeysSet(t, K) = WithKeys(t, K, t.aside, t.hashed)
  BY <1>1, TableKeys
<1>3. PICK s : s = KeysAside(t)
  OBVIOUS
<1>4. /\ Sound(s, pr, mu) /\ s.rows = t.rows /\ s.last = t.last /\ s.keys = {}
      /\ s.aside = t.keys /\ s.hashed = t.hashed /\ s.baseline = t.baseline
  BY <1>1, <1>2, <1>3, WithKeysSound
<1>5. PICK b : b = KeysBack(t)
  OBVIOUS
<1>6. /\ Sound(b, pr, mu) /\ b.rows = t.rows /\ b.last = t.last /\ b.keys = t.aside
      /\ b.aside = {} /\ b.baseline = t.baseline
  <2>0. PICK h \in BOOLEAN : h = TRUE
    OBVIOUS
  <2>1. b = WithKeys(t, t.aside, {}, h)
    BY <1>2, <1>5, <2>0
  <2> QED BY <1>1, <2>1, WithKeysSound
<1>7. ASSUME NEW K \in SUBSET Keys, NEW x, x = KeysSet(t, K)
      PROVE  /\ Sound(x, pr, mu) /\ x.rows = t.rows /\ x.last = t.last /\ x.keys = K
             /\ x.aside = t.aside /\ x.hashed = t.hashed /\ x.baseline = t.baseline
  BY <1>1, <1>2, <1>7, WithKeysSound
<1> QED BY <1>3, <1>4, <1>5, <1>6, <1>7

LEMMA RenameKeysKeeps == ASSUME Tables, NEW p \in Processes, RenameKeys(p) PROVE Tables'
<1>1. /\ phase[p] = "accounts" /\ phase' = [phase EXCEPT ![p] = "renamed"]
      /\ UNCHANGED <<disk, promised, muddled>>
  BY DEF RenameKeys, Step, StartFrame
<1>2. /\ Holding(p) /\ "renamed" \in Opened /\ Lineage("accounts")
      /\ Sound(draft, promised, muddled) /\ IsTable(draft)
  BY <1>1, OpenDraft DEF Opened
<1>3. /\ Descends(draft, disk) /\ draft.baseline /\ draft.keys = disk.keys /\ draft.aside = {}
      /\ draft.keys \in SUBSET Keys /\ {} \in SUBSET Keys /\ draft.hashed \in BOOLEAN
  BY <1>2, TableHas DEF Lineage
<1>4. CASE draft.hashed
  <2>1. draft' = draft
    BY <1>4 DEF RenameKeys
  <2>2. Lineage("renamed")'
    BY <1>1, <1>3, <1>4, <2>1 DEF Lineage, Descends
  <2> QED BY <1>1, <1>2, <2>1, <2>2, Opens
<1>5. CASE ~draft.hashed
  <2>1. draft' = KeysAside(draft)
    BY <1>5 DEF RenameKeys, KeysAside
  <2>3. /\ Sound(draft', promised, muddled)
        /\ draft'.rows = draft.rows /\ draft'.last = draft.last /\ draft'.aside = draft.keys
        /\ draft'.hashed = draft.hashed /\ draft'.baseline = draft.baseline
    BY <1>2, <2>1, KeysSound
  <2>4. Lineage("renamed")'
    BY <1>1, <1>3, <1>5, <2>3 DEF Lineage, Descends
  <2> QED BY <1>1, <1>2, <2>3, <2>4, Opens
<1> QED BY <1>4, <1>5

LEMMA CopyKeysKeeps == ASSUME Tables, NEW p \in Processes, CopyKeys(p) PROVE Tables'
<1>1. /\ phase[p] = "renamed" /\ phase' = [phase EXCEPT ![p] = "keys"]
      /\ UNCHANGED <<disk, promised, muddled>>
  BY DEF CopyKeys, Step, StartFrame
<1>2. /\ Holding(p) /\ "keys" \in Opened /\ Lineage("renamed")
      /\ Sound(draft, promised, muddled) /\ IsTable(draft)
  BY <1>1, OpenDraft DEF Opened
<1>3. /\ Descends(draft, disk) /\ draft.baseline
      /\ draft.aside \in SUBSET Keys /\ {} \in SUBSET Keys /\ TRUE \in BOOLEAN
  BY <1>2, TableHas DEF Lineage
<1>4. CASE draft.hashed
  <2>1. draft' = draft
    BY <1>4 DEF CopyKeys
  <2>2. Lineage("keys")'
    BY <1>1, <1>2, <1>4, <2>1 DEF Lineage, Descends
  <2> QED BY <1>1, <1>2, <2>1, <2>2, Opens
<1>5. CASE ~draft.hashed
  <2>1. draft' = KeysBack(draft)
    BY <1>5 DEF CopyKeys, KeysBack
  <2>3. /\ Sound(draft', promised, muddled)
        /\ draft'.rows = draft.rows /\ draft'.last = draft.last /\ draft'.keys = draft.aside
        /\ draft'.aside = {} /\ draft'.baseline = draft.baseline
    BY <1>2, <2>1, KeysSound
  <2>4. draft.aside = disk.keys
    BY <1>2, <1>5 DEF Lineage
  <2>5. Lineage("keys")'
    BY <1>1, <1>3, <2>3, <2>4 DEF Lineage, Descends
  <2> QED BY <1>1, <1>2, <2>3, <2>5, Opens
<1> QED BY <1>4, <1>5

\* What the region step makes of sound rows.
LEMMA MovedRows ==
    ASSUME NEW t, IsTable(t), Regional(t)
    PROVE  /\ DOMAIN Moved(t.rows) = DOMAIN t.rows
           /\ Moved(t.rows) \in [DOMAIN Moved(t.rows) -> Rows]
           /\ \A i \in DOMAIN t.rows :
                 /\ Moved(t.rows)[i].uid = t.rows[i].uid
                 /\ Moved(t.rows)[i].domain = t.rows[i].domain
                 /\ Moved(t.rows)[i].limit = t.rows[i].limit
                 /\ Moved(t.rows)[i].baseline = t.rows[i].baseline
                 /\ Moved(t.rows)[i].spent = t.rows[i].spent
                 /\ Moved(t.rows)[i].channel = ChannelFor(t.rows[i].domain)
                 /\ Moved(t.rows)[i].channel = "workbuddy" \/ t.rows[i].domain = "intl"
<1> DEFINE M == Moved(t.rows)
<1>1. /\ DOMAIN M = DOMAIN t.rows
      /\ \A i \in DOMAIN M :
            M[i] = [t.rows[i] EXCEPT !.channel = IF t.rows[i].domain = "intl"
                                                   THEN "workbuddy-i" ELSE @]
      /\ M = [i \in DOMAIN t.rows |-> M[i]]
  BY DEF Moved
<1>2. ASSUME NEW row \in Rows, NEW m, row.channel = "workbuddy" \/ row.domain = "intl",
             m = [row EXCEPT !.channel = IF row.domain = "intl" THEN "workbuddy-i" ELSE @]
      PROVE  /\ m \in Rows /\ m.uid = row.uid /\ m.domain = row.domain
             /\ m.limit = row.limit /\ m.baseline = row.baseline /\ m.spent = row.spent
             /\ m.channel = ChannelFor(row.domain)
             /\ m.channel = "workbuddy" \/ row.domain = "intl"
  <2>1. PICK c : c = IF row.domain = "intl" THEN "workbuddy-i" ELSE row.channel
    OBVIOUS
  <2>2. m = [row EXCEPT !.channel = c]
    BY <1>2, <2>1
  <2>3. row.domain \in Domains /\ row.channel \in Channels
    BY DEF Rows
  <2>4. c = ChannelFor(row.domain) /\ (c = "workbuddy" \/ row.domain = "intl")
    BY <1>2, <2>1, <2>3 DEF ChannelFor
  <2>5. c \in Channels
    BY <2>3, <2>4 DEF Channels
  <2>6. /\ m \in Rows /\ m.channel = c /\ m.uid = row.uid /\ m.domain = row.domain
        /\ m.limit = row.limit /\ m.baseline = row.baseline /\ m.spent = row.spent
    BY <2>2, <2>5 DEF Rows
  <2> QED BY <2>4, <2>6
<1>3. ASSUME NEW i \in DOMAIN t.rows
      PROVE  /\ M[i] \in Rows /\ M[i].uid = t.rows[i].uid /\ M[i].domain = t.rows[i].domain
             /\ M[i].limit = t.rows[i].limit /\ M[i].baseline = t.rows[i].baseline
             /\ M[i].spent = t.rows[i].spent
             /\ M[i].channel = ChannelFor(t.rows[i].domain)
             /\ M[i].channel = "workbuddy" \/ t.rows[i].domain = "intl"
  <2>1. t.rows[i] \in Rows /\ (t.rows[i].channel = "workbuddy" \/ t.rows[i].domain = "intl")
    BY TableHas DEF Regional
  <2>2. M[i] = [t.rows[i] EXCEPT !.channel = IF t.rows[i].domain = "intl"
                                               THEN "workbuddy-i" ELSE @]
    BY <1>1
  <2> HIDE DEF M
  <2> QED BY <1>2, <2>1, <2>2
<1>4. M \in [DOMAIN M -> Rows]
  <2> HIDE DEF M
  <2> QED BY <1>1, <1>3
<1> QED BY <1>1, <1>3, <1>4

LEMMA MigrateRegionsKeeps ==
    ASSUME Tables, NEW p \in Processes, MigrateRegions(p) PROVE Tables'
<1>1. phase[p] = "keys" /\ UNCHANGED <<disk, promised, muddled>>
  BY DEF MigrateRegions, StartFrame
<1>2. /\ Holding(p) /\ phase[p] \in Opened /\ "regions" \in Opened /\ Lineage("keys")
      /\ Sound(draft, promised, muddled) /\ IsTable(draft) /\ Regional(draft)
  BY <1>1, OpenDraft DEF Opened, Sound
<1>3. CASE Clash(Moved(draft.rows))
  <2>1. phase' = [phase EXCEPT ![p] = "refused"] /\ draft' = NoDraft
    BY <1>3 DEF MigrateRegions
  <2> QED BY <1>1, <1>2, <2>1, Waits
<1>4. CASE ~Clash(Moved(draft.rows))
  <2>1. PICK M : M = Moved(draft.rows)
    OBVIOUS
  <2>2. phase' = [phase EXCEPT ![p] = "regions"] /\ draft' = [draft EXCEPT !.rows = M]
    BY <1>4, <2>1 DEF MigrateRegions
  <2>3. /\ DOMAIN M = DOMAIN draft.rows /\ M \in [DOMAIN M -> Rows] /\ ~Clash(M)
        /\ \A i \in DOMAIN M :
              /\ M[i].uid = draft.rows[i].uid /\ M[i].domain = draft.rows[i].domain
              /\ M[i].limit = draft.rows[i].limit /\ M[i].baseline = draft.rows[i].baseline
              /\ M[i].spent = draft.rows[i].spent
              /\ M[i].channel = ChannelFor(M[i].domain)
              /\ M[i].channel = "workbuddy" \/ M[i].domain = "intl"
    <3>1. /\ DOMAIN M = DOMAIN draft.rows /\ M \in [DOMAIN M -> Rows]
          /\ \A i \in DOMAIN draft.rows :
                /\ M[i].uid = draft.rows[i].uid /\ M[i].domain = draft.rows[i].domain
                /\ M[i].limit = draft.rows[i].limit /\ M[i].baseline = draft.rows[i].baseline
                /\ M[i].spent = draft.rows[i].spent
                /\ M[i].channel = ChannelFor(draft.rows[i].domain)
                /\ M[i].channel = "workbuddy" \/ draft.rows[i].domain = "intl"
      BY <1>2, <2>1, MovedRows
    <3>2. ASSUME NEW i \in DOMAIN M
          PROVE  /\ M[i].channel = ChannelFor(M[i].domain)
                 /\ M[i].channel = "workbuddy" \/ M[i].domain = "intl"
      BY <3>1
    <3> QED BY <1>4, <2>1, <3>1, <3>2
  <2>4. /\ Sound(draft', promised, muddled)
        /\ draft' = [rows |-> M, last |-> draft.last, keys |-> draft.keys,
                     aside |-> draft.aside, hashed |-> draft.hashed,
                     baseline |-> draft.baseline, unique |-> draft.unique]
    BY <1>2, <2>2, <2>3, MovedSound
  <2>5. /\ draft'.rows = M /\ draft'.last = draft.last /\ draft'.keys = draft.keys
        /\ draft'.aside = draft.aside /\ draft'.baseline = draft.baseline
    BY <2>4
  <2>6. Descends(draft', disk)
    BY <1>2, <2>3, <2>5 DEF Lineage, Descends
  <2>7. Lineage("regions")'
    BY <1>1, <1>2, <2>3, <2>5, <2>6 DEF Lineage, Descends
  <2> QED BY <1>1, <1>2, <2>2, <2>4, <2>7, Opens
<1> QED BY <1>3, <1>4

LEMMA CommitKeeps == ASSUME Tables, NEW p \in Processes, Commit(p) PROVE Tables'
<1>1. /\ phase[p] = "regions" /\ phase' = [phase EXCEPT ![p] = "committed"]
      /\ disk' = draft /\ draft' = NoDraft /\ UNCHANGED <<promised, muddled>>
  BY DEF Commit, Step, StartFrame
<1>2. /\ Holding(p) /\ Lineage("regions") /\ Sound(draft, promised, muddled)
      /\ "committed" \in Phases /\ "committed" \notin Opened
  BY <1>1, OpenDraft DEF Opened, Phases
<1>3. /\ phase' \in [Processes -> Phases] /\ phase'[p] = "committed"
      /\ \A q \in Processes : q # p => phase'[q] = phase[q]
  BY <1>1, <1>2, Stepped
<1>4. \A q \in Processes : Holding(q)' => q = p
  BY <1>2, <1>3 DEF Tables, OneHolds, Holding
<1>5. \A q \in Processes : phase'[q] \notin Opened
  BY <1>2, <1>3, <1>4 DEF Holding
<1>6. OneHolds' /\ DraftOpen' /\ Follows'
  BY <1>1, <1>4, <1>5 DEF OneHolds, DraftOpen, Follows
<1>7. disk'.baseline /\ disk'.aside = {}
  BY <1>1, <1>2 DEF Lineage
<1>8. Sound(disk', promised', muddled') /\ Sound(draft', promised', muddled')
  BY <1>1, <1>2, NoDraftSound
<1> QED BY <1>1, <1>3, <1>6, <1>7, <1>8 DEF Tables, Histories, Ready, Sound

LEMMA FinishKeeps == ASSUME Tables, NEW p \in Processes, Finish(p) \/ Serve(p) PROVE Tables'
<1>1. CASE Finish(p)
  BY <1>1, GoesOn DEF Finish, Step, Done, Restart
<1>2. CASE Serve(p)
  BY <1>2, GoesOn DEF Serve, Step, Done
<1> QED BY <1>1, <1>2

----------------------------------------------------------------------------
(* Every step keeps the tables sound: accounts and keys                    *)

\* While the gateway serves.
LEMMA WhileServing ==
    ASSUME Tables, Serving
    PROVE  /\ disk.baseline /\ IsTable(disk) /\ Sound(disk, promised, muddled)
           /\ \E p \in Processes : phase[p] \in Done
BY ServingDone, NothingOpen DEF Tables, Sound

\* What memory needs to know of a change of the tables.
Remembers ==
    /\ disk.last \in Nat /\ disk'.last \in Nat /\ disk.last <= disk'.last
    /\ \A i \in DOMAIN disk'.rows \ muddled' :
          i <= disk.last => /\ i \in DOMAIN disk.rows \ muddled
                            /\ disk'.rows[i].limit = disk.rows[i].limit

\* The tables after a step on the accounts.
LEMMA ChangeKeeps ==
    ASSUME Tables, Serving, UNCHANGED <<draft, phase>>, Histories',
           Sound(disk', promised', muddled'), disk'.aside = disk.aside,
           disk'.baseline = disk.baseline
    PROVE  Tables'
<1>1. PICK p \in Processes : phase[p] \in Done
  BY WhileServing
<1> QED BY <1>1, DiskStep DEF Tables

\* One account with other sums that keep what is promised.
LEMMA RowKeeps ==
    ASSUME Tables, Serving, UNCHANGED <<draft, phase>>, Histories',
           NEW i \in DOMAIN disk.rows, NEW row \in Rows,
           row.uid = disk.rows[i].uid, row.channel = disk.rows[i].channel,
           row.domain = disk.rows[i].domain,
           disk' = [disk EXCEPT !.rows = [disk.rows EXCEPT ![i] = row]],
           \A j \in DOMAIN disk.rows \ muddled' :
              j # i => j \notin muddled /\ promised'[j] = promised[j],
           i \notin muddled' /\ row.limit > 0 =>
              promised'[i] = row.limit - (row.spent - row.baseline) /\ row.baseline <= row.spent
    PROVE  /\ Tables' /\ disk'.last = disk.last /\ DOMAIN disk'.rows = DOMAIN disk.rows
           /\ disk'.rows[i] = row
           /\ \A j \in DOMAIN disk.rows : j # i => disk'.rows[j] = disk.rows[j]
<1>0. PICK R, s : R = [disk.rows EXCEPT ![i] = row] /\ s = disk'
  OBVIOUS
<1>1. IsTable(disk) /\ Credits(disk, promised, muddled) /\ disk.baseline
      /\ Sound(disk, promised, muddled)
  BY WhileServing DEF Sound
<1>2. disk.rows \in [DOMAIN disk.rows -> Rows]
  BY <1>1, TableHas
<1>3. /\ DOMAIN R = DOMAIN disk.rows /\ R \in [DOMAIN R -> Rows]
      /\ R[i] = row /\ \A j \in DOMAIN R : j # i => R[j] = disk.rows[j]
  BY <1>0, <1>2
<1>4. s = [disk EXCEPT !.rows = R]
  BY <1>0
<1>5. /\ s.rows = R /\ s.baseline = disk.baseline /\ s.aside = disk.aside /\ s.last = disk.last
      /\ s.unique = disk.unique
  <2>1. DOMAIN R \subseteq 1..disk.last
    BY <1>1, <1>3, TableHas
  <2>2. s = [rows |-> R, last |-> disk.last, keys |-> disk.keys, aside |-> disk.aside,
             hashed |-> disk.hashed, baseline |-> disk.baseline, unique |-> disk.unique]
    BY <1>1, <1>3, <1>4, <2>1, TableRows
  <2> QED BY <2>2
<1>6. Credits(s, promised', muddled')
  <2>1. SUFFICES ASSUME NEW j \in DOMAIN R \ muddled', R[j].limit > 0
                 PROVE  promised'[j] = Promise(s, j) /\ R[j].baseline <= R[j].spent
    BY <1>5 DEF Credits
  <2>2. Promise(s, j) = R[j].limit - (R[j].spent - R[j].baseline)
    BY <1>1, <1>5 DEF Promise
  <2>3. CASE j = i
    BY <1>3, <2>1, <2>2, <2>3
  <2>4. CASE j # i
    <3>1. R[j] = disk.rows[j] /\ j \in DOMAIN disk.rows \ muddled /\ promised'[j] = promised[j]
      BY <1>3, <2>1, <2>4
    <3>2. promised[j] = Promise(disk, j) /\ disk.rows[j].baseline <= disk.rows[j].spent
      BY <1>1, <2>1, <3>1 DEF Credits
    <3> QED BY <1>1, <2>2, <3>1, <3>2 DEF Promise
  <2> QED BY <2>3, <2>4
<1>7. \A j \in DOMAIN R : /\ R[j].uid = disk.rows[j].uid /\ R[j].channel = disk.rows[j].channel
                          /\ R[j].domain = disk.rows[j].domain
  BY <1>3
<1>8. Sound(s, promised', muddled')
  <2>1. IsTable(s)
    BY <1>1, <1>3, <1>4, TableRows, TableHas
  <2>2. DOMAIN R \subseteq DOMAIN disk.rows
    BY <1>3
  <2>3. ~Clash(disk.rows) => ~Clash(R)
    BY <1>7, <2>2, SameLogins
  <2>4. Regional(disk) => Regional(s)
    BY <1>3, <1>5, <1>7 DEF Regional
  <2> QED BY <1>1, <1>5, <1>6, <2>1, <2>3, <2>4 DEF Sound
<1>9. Tables'
  BY <1>0, <1>5, <1>8, ChangeKeeps
<1> QED BY <1>0, <1>3, <1>5, <1>9

LEMMA DeleteAccountKeeps ==
    ASSUME Tables, NEW i \in Ids, DeleteAccount(i) PROVE Tables' /\ Remembers
<1>1. PICK R : R = [j \in DOMAIN disk.rows \ {i} |-> disk.rows[j]]
  OBVIOUS
<1>2. /\ Serving /\ UNCHANGED <<draft, phase, promised, muddled>>
      /\ disk' = [disk EXCEPT !.rows = R]
  BY <1>1 DEF DeleteAccount
<1>3. IsTable(disk) /\ disk.baseline /\ Sound(disk, promised, muddled)
  BY <1>2, WhileServing
<1>4. /\ DOMAIN R \subseteq DOMAIN disk.rows /\ R \in [DOMAIN R -> Rows]
      /\ \A j \in DOMAIN R : R[j] = disk.rows[j]
  BY <1>1, <1>3, TableHas
<1>5. /\ IsTable(disk')
      /\ disk' = [rows |-> R, last |-> disk.last, keys |-> disk.keys, aside |-> disk.aside,
                  hashed |-> disk.hashed, baseline |-> disk.baseline, unique |-> disk.unique]
  BY <1>2, <1>3, <1>4, TableRows, TableHas
<1>6. disk'.rows = R /\ disk'.last = disk.last /\ disk'.baseline = disk.baseline
      /\ disk'.aside = disk.aside /\ disk'.unique = disk.unique
  BY <1>5
<1>7. Credits(disk', promised, muddled)
  BY <1>3, <1>4, <1>6 DEF Sound, Credits, Promise
<1>8. (~Clash(disk.rows) => ~Clash(R)) /\ (Regional(disk) => Regional(disk'))
  BY <1>4, <1>6, SameLogins DEF Regional
<1>9. Sound(disk', promised, muddled)
  BY <1>3, <1>5, <1>6, <1>7, <1>8 DEF Sound
<1>10. Remembers
  BY <1>2, <1>3, <1>4, <1>6, TableHas DEF Remembers
<1> QED BY <1>2, <1>6, <1>9, <1>10, ChangeKeeps DEF Tables, Histories

\* The history of one account.
LEMMA PromisedAt ==
    ASSUME Histories, NEW i \in Ids, NEW n \in Int, promised' = [promised EXCEPT ![i] = n],
           muddled \subseteq muddled', muddled' \subseteq muddled \cup {i}
    PROVE  /\ Histories' /\ promised'[i] = n
           /\ \A j \in Ids \ muddled' : j # i => j \notin muddled /\ promised'[j] = promised[j]
BY DEF Histories

LEMMA EditAccountKeeps ==
    ASSUME Tables, NEW i \in Ids, NEW n \in Limits, EditAccount(i, n)
    PROVE  /\ Tables' /\ disk'.last = disk.last /\ DOMAIN disk'.rows = DOMAIN disk.rows
           /\ \A j \in DOMAIN disk.rows : j # i => disk'.rows[j] = disk.rows[j]
<1>1. PICK row : row = Snapshot(disk.rows[i], n)
  OBVIOUS
<1>2. /\ Serving /\ UNCHANGED <<draft, phase>> /\ i \in DOMAIN disk.rows
      /\ promised' = [promised EXCEPT ![i] = n]
      /\ muddled \subseteq muddled' /\ muddled' \subseteq muddled \cup {i}
  BY DEF EditAccount
<1>3. disk' = [disk EXCEPT !.rows = [disk.rows EXCEPT ![i] = row]]
  BY <1>1 DEF EditAccount
<1>4. /\ disk.rows[i] \in Rows /\ n \in Nat /\ n \in Int /\ DOMAIN disk.rows \subseteq Ids
  BY <1>2, WhileServing, QuotaAssumption, TableHas
<1>5. /\ row \in Rows /\ row.uid = disk.rows[i].uid /\ row.channel = disk.rows[i].channel
      /\ row.domain = disk.rows[i].domain /\ row.limit = n
      /\ row.baseline = row.spent /\ row.spent \in Nat
  BY <1>1, <1>4 DEF Snapshot, Rows
<1>6. /\ Histories' /\ promised'[i] = n
      /\ \A j \in Ids \ muddled' : j # i => j \notin muddled /\ promised'[j] = promised[j]
  BY <1>2, <1>4, PromisedAt DEF Tables
<1>7. \A j \in DOMAIN disk.rows \ muddled' :
         j # i => j \notin muddled /\ promised'[j] = promised[j]
  BY <1>4, <1>6
<1>8. promised'[i] = row.limit - (row.spent - row.baseline) /\ row.baseline <= row.spent
  BY <1>4, <1>5, <1>6
<1> QED BY <1>2, <1>3, <1>5, <1>6, <1>7, <1>8, RowKeeps

LEMMA ClaimLandsKeeps == ASSUME Tables, Memory, ClaimLands PROVE Tables'
<1>1. claim # NoClaim /\ Serving /\ UNCHANGED <<draft, phase, muddled>>
  BY DEF ClaimLands, Memory, Served
<1>2. CASE ~(claim.limit > 0 /\ claim.id \in DOMAIN disk.rows)
  <2>1. UNCHANGED <<disk, promised>>
    BY <1>2 DEF ClaimLands
  <2> QED BY <1>1, <2>1, TablesQuiet
<1>3. CASE claim.limit > 0 /\ claim.id \in DOMAIN disk.rows
  <2>1. PICK i : i = claim.id
    OBVIOUS
  <2>2. PICK row : row = [disk.rows[i] EXCEPT !.limit = claim.limit + 1]
    OBVIOUS
  <2>3. disk' = [disk EXCEPT !.rows = [disk.rows EXCEPT ![i] = row]]
    BY <1>3, <2>1, <2>2 DEF ClaimLands
  <2>4. /\ IsTable(disk) /\ disk.baseline /\ Sound(disk, promised, muddled)
        /\ i \in DOMAIN disk.rows /\ i \in Ids
        /\ disk.rows[i] \in Rows /\ DOMAIN disk.rows \subseteq Ids
        /\ claim.limit \in Nat
    BY <1>1, <1>3, <2>1, WhileServing, TableHas DEF Memory, ClaimRecords
  <2>5. /\ row \in Rows /\ row.uid = disk.rows[i].uid /\ row.channel = disk.rows[i].channel
        /\ row.domain = disk.rows[i].domain /\ row.limit = claim.limit + 1
        /\ row.spent = disk.rows[i].spent /\ row.baseline = disk.rows[i].baseline
        /\ row.spent \in Nat /\ row.baseline \in Nat
    BY <2>2, <2>4 DEF Rows
  <2>6. /\ promised[i] \in Int /\ promised[i] + 1 \in Int
        /\ promised' = [promised EXCEPT ![i] = promised[i] + 1]
    BY <1>3, <2>1, <2>4 DEF ClaimLands, Tables, Histories
  <2>7. /\ Histories' /\ promised'[i] = promised[i] + 1
        /\ \A j \in Ids \ muddled' : j # i => j \notin muddled /\ promised'[j] = promised[j]
    BY <1>1, <2>4, <2>6, PromisedAt DEF Tables
  <2>8. \A j \in DOMAIN disk.rows \ muddled' :
           j # i => j \notin muddled /\ promised'[j] = promised[j]
    BY <2>4, <2>7
  <2>9. ASSUME i \notin muddled'
        PROVE  /\ promised'[i] = row.limit - (row.spent - row.baseline)
               /\ row.baseline <= row.spent
    <3>1. i \in DOMAIN disk.rows \ muddled
      BY <1>1, <2>4, <2>9
    <3>2. disk.rows[i].limit = claim.limit
      BY <1>1, <2>1, <3>1 DEF Memory, ClaimKnows
    <3>3. /\ promised[i] = Promise(disk, i)
          /\ disk.rows[i].baseline <= disk.rows[i].spent
      BY <1>3, <2>4, <3>1, <3>2 DEF Sound, Credits
    <3> QED BY <2>4, <2>5, <2>7, <3>2, <3>3 DEF Promise
  <2> QED BY <1>1, <2>3, <2>4, <2>5, <2>7, <2>8, <2>9, RowKeeps
<1> QED BY <1>2, <1>3

LEMMA ChargeKeeps ==
    ASSUME Tables, NEW r \in Requests, NEW i \in Ids \cup {0}, Charge(r, i)
    PROVE  Tables' /\ Remembers
<1>1. Serving /\ UNCHANGED <<draft, phase, muddled>> /\ IsTable(disk)
  BY WhileServing DEF Charge, AccountFrame
<1>2. CASE i \notin DOMAIN disk.rows
  <2>1. UNCHANGED <<disk, promised>>
    BY <1>2 DEF Charge
  <2> QED BY <1>1, <2>1, TablesQuiet, TableHas DEF Remembers
<1>3. CASE i \in DOMAIN disk.rows
  <2>1. PICK row : row = [disk.rows[i] EXCEPT !.spent = @ + 1]
    OBVIOUS
  <2>2. disk' = [disk EXCEPT !.rows = [disk.rows EXCEPT ![i] = row]]
    BY <1>3, <2>1 DEF Charge
  <2>3. /\ disk.baseline /\ Sound(disk, promised, muddled) /\ i \in Ids
        /\ disk.rows[i] \in Rows /\ DOMAIN disk.rows \subseteq Ids /\ disk.last \in Nat
    BY <1>1, <1>3, WhileServing, TableHas
  <2>4. /\ row \in Rows /\ row.uid = disk.rows[i].uid /\ row.channel = disk.rows[i].channel
        /\ row.domain = disk.rows[i].domain /\ row.limit = disk.rows[i].limit
        /\ row.spent = disk.rows[i].spent + 1 /\ row.baseline = disk.rows[i].baseline
        /\ disk.rows[i].spent \in Nat /\ row.baseline \in Nat /\ row.limit \in Nat
    BY <2>1, <2>3 DEF Rows
  <2>5. /\ promised[i] \in Int /\ promised[i] - 1 \in Int
        /\ promised' = [promised EXCEPT ![i] = promised[i] - 1]
    BY <1>3, <2>3 DEF Charge, Tables, Histories
  <2>6. /\ Histories' /\ promised'[i] = promised[i] - 1
        /\ \A j \in Ids \ muddled' : j # i => j \notin muddled /\ promised'[j] = promised[j]
    BY <1>1, <2>3, <2>5, PromisedAt DEF Tables
  <2>7. \A j \in DOMAIN disk.rows \ muddled' :
           j # i => j \notin muddled /\ promised'[j] = promised[j]
    BY <2>3, <2>6
  <2>8. ASSUME i \notin muddled', row.limit > 0
        PROVE  /\ promised'[i] = row.limit - (row.spent - row.baseline)
               /\ row.baseline <= row.spent
    <3>1. i \in DOMAIN disk.rows \ muddled
      BY <1>1, <1>3, <2>8
    <3>2. /\ promised[i] = Promise(disk, i)
          /\ disk.rows[i].baseline <= disk.rows[i].spent
      BY <2>3, <2>4, <2>8, <3>1 DEF Sound, Credits
    <3> QED BY <2>3, <2>4, <2>6, <3>2 DEF Promise
  <2>9. /\ Tables' /\ disk'.last = disk.last /\ DOMAIN disk'.rows = DOMAIN disk.rows
        /\ disk'.rows[i] = row
        /\ \A j \in DOMAIN disk.rows : j # i => disk'.rows[j] = disk.rows[j]
    BY <1>1, <1>3, <2>2, <2>4, <2>6, <2>7, <2>8, RowKeeps
  <2>10. \A j \in DOMAIN disk.rows : disk'.rows[j].limit = disk.rows[j].limit
    BY <2>4, <2>9
  <2>11. Remembers
    BY <1>1, <2>3, <2>9, <2>10 DEF Remembers
  <2> QED BY <2>9, <2>11
<1> QED BY <1>2, <1>3

\* A login is added, or the index refuses it.
LEMMA AddKeeps ==
    ASSUME Tables, NEW p \in Processes, phase[p] \in Done,
           UNCHANGED <<draft, phase, promised, muddled>>, NEW row \in Rows, row.limit = 0,
           row.channel = "workbuddy" \/ row.domain = "intl", Add(row)
    PROVE  Tables' /\ Remembers
<1>1. Sound(disk, promised, muddled) /\ IsTable(disk) /\ disk.last \in Nat
  BY TableHas DEF Tables, Sound
<1>2. CASE disk' = disk
  BY <1>1, <1>2, TablesQuiet, TableHas DEF Remembers
<1>3. CASE disk' # disk
  <2>1. ~HasRow(row.uid, row.channel) /\ disk.last < MaxRow
    BY <1>3 DEF Add
  <2>2. \A i \in DOMAIN disk.rows :
           ~(disk.rows[i].uid = row.uid /\ disk.rows[i].channel = row.channel)
    BY <2>1 DEF HasRow
  <2>3. PICK Q : Q = AddedRows(disk, row)
    OBVIOUS
  <2>4. disk' = Added(disk, row)
    BY <2>1 DEF Add, Added
  <2>5. disk' = [rows |-> Q, last |-> disk.last + 1, keys |-> disk.keys, aside |-> disk.aside,
                 hashed |-> disk.hashed, baseline |-> disk.baseline, unique |-> disk.unique]
    BY <1>1, <2>3, <2>4, AddedRow
  <2>6. /\ Sound(disk', promised, muddled) /\ disk'.aside = disk.aside
        /\ disk'.baseline = disk.baseline /\ disk'.last = disk.last + 1
        /\ \A i \in DOMAIN disk'.rows :
              i <= disk.last => i \in DOMAIN disk.rows /\ disk'.rows[i] = disk.rows[i]
    BY <1>1, <2>1, <2>2, <2>3, <2>5, AddedSound
  <2>7. Remembers
    BY <1>1, <2>6 DEF Remembers
  <2>8. Tables'
    BY <2>6, DiskStep DEF Tables, Histories
  <2> QED BY <2>7, <2>8
<1> QED BY <1>2, <1>3

LEMMA RowType ==
    ASSUME NEW u \in Logins, NEW c \in Channels, NEW d \in Domains
    PROVE  /\ Row(u, c, d) \in Rows /\ Row(u, c, d).limit = 0
           /\ Row(u, c, d).channel = c /\ Row(u, c, d).domain = d
BY DEF Row, Rows

LEMMA ChannelTypes ==
    /\ "workbuddy" \in Channels /\ \A d \in Domains : ChannelFor(d) \in Channels
    /\ \A d \in Domains : ChannelFor(d) = "workbuddy" \/ d = "intl"
<1>1. "cn" \in Domains /\ ChannelFor("cn") = "workbuddy"
  BY DEF Domains, ChannelFor
<1>2. "workbuddy" \in Channels
  BY <1>1 DEF Channels
<1> QED BY <1>2 DEF Channels, ChannelFor

LEMMA PasteKeeps ==
    ASSUME Tables, NEW u \in Logins, NEW d \in Domains, Paste(u, d) PROVE Tables' /\ Remembers
<1>1. PICK p \in Processes : phase[p] \in Done
  BY WhileServing DEF Paste
<1>2. PICK row : row = Row(u, "workbuddy", d)
  OBVIOUS
<1>3. row \in Rows /\ row.limit = 0 /\ row.channel = "workbuddy"
  BY <1>2, RowType, ChannelTypes
<1>4. Add(row) /\ UNCHANGED <<draft, phase, promised, muddled>>
  BY <1>2 DEF Paste
<1> QED BY <1>1, <1>3, <1>4, AddKeeps

LEMMA StartupImportKeeps ==
    ASSUME Tables, NEW p \in Processes, NEW u \in Logins, NEW d \in Domains,
           StartupImport(p, u, d)
    PROVE  Tables' /\ Remembers
<1>1. phase[p] \in Done /\ UNCHANGED <<draft, phase, promised, muddled>> /\ IsTable(disk)
  BY DEF StartupImport, Done, Tables, Sound
<1>2. PICK row : row = Row(u, ChannelFor(d), d)
  OBVIOUS
<1>3. /\ row \in Rows /\ row.limit = 0
      /\ row.channel = "workbuddy" \/ row.domain = "intl"
  BY <1>2, RowType, ChannelTypes
<1>4. CASE Add(row)
  BY <1>1, <1>3, <1>4, AddKeeps
<1>5. CASE UNCHANGED disk
  BY <1>1, <1>5, TablesQuiet, TableHas DEF Remembers
<1> QED BY <1>2, <1>4, <1>5 DEF StartupImport

\* The write of a login, after whatever has happened since its look-up.
LEMMA PatchKeeps ==
    ASSUME Tables, Serving, UNCHANGED <<draft, phase, promised, muddled>>,
           NEW q \in WriteRecords, Patch(q)
    PROVE  Tables' /\ Remembers
<1> DEFINE R == [disk.rows EXCEPT ![q.found].channel = ChannelFor(q.domain),
                                  ![q.found].domain = q.domain]
<1>1. /\ Sound(disk, promised, muddled) /\ IsTable(disk) /\ disk.last \in Nat
      /\ disk.rows \in [DOMAIN disk.rows -> Rows] /\ Regional(disk)
      /\ \E p \in Processes : phase[p] \in Done
  BY WhileServing, TableHas DEF Sound
<1>2. CASE disk' = disk
  BY <1>1, <1>2, TablesQuiet, TableHas DEF Remembers
<1>3. CASE disk' # disk
  <2>1. /\ q.found \in DOMAIN disk.rows /\ ~Clash(R) /\ disk' = [disk EXCEPT !.rows = R]
    BY <1>3 DEF Patch
  <2>2. PICK f, d, c : f = q.found /\ d = q.domain /\ c = ChannelFor(q.domain)
    OBVIOUS
  <2>3. d \in Domains /\ c \in Channels /\ (c = "workbuddy" \/ d = "intl")
    BY <2>2, ChannelTypes DEF WriteRecords
  <2>4. PICK row : row = [disk.rows[f] EXCEPT !.channel = c, !.domain = d]
    OBVIOUS
  <2>5. disk.rows[f] \in Rows
    BY <1>1, <2>1, <2>2, TableHas
  <2>6. /\ row \in Rows /\ row.channel = c /\ row.domain = d
        /\ row.limit = disk.rows[f].limit /\ row.baseline = disk.rows[f].baseline
        /\ row.spent = disk.rows[f].spent
    BY <2>3, <2>4, <2>5 DEF Rows
  <2>7. PICK Q : Q = [disk.rows EXCEPT ![f] = row]
    OBVIOUS
  <2>8. R = Q
    BY <1>1, <2>1, <2>2, <2>4, <2>7
  <2>9. /\ DOMAIN Q = DOMAIN disk.rows /\ Q \in [DOMAIN Q -> Rows] /\ Q[f] = row
        /\ \A i \in DOMAIN disk.rows : i # f => Q[i] = disk.rows[i]
    BY <1>1, <2>1, <2>2, <2>6, <2>7
  <2>10. \A i \in DOMAIN Q :
            /\ Q[i].limit = disk.rows[i].limit /\ Q[i].baseline = disk.rows[i].baseline
            /\ Q[i].spent = disk.rows[i].spent
            /\ Q[i].channel = "workbuddy" \/ Q[i].domain = "intl"
    BY <1>1, <2>3, <2>6, <2>9 DEF Regional
  <2> HIDE DEF R
  <2>11. disk' = [disk EXCEPT !.rows = Q] /\ ~Clash(Q)
    BY <2>1, <2>8
  <2>12. /\ Sound(disk', promised, muddled)
         /\ disk' = [rows |-> Q, last |-> disk.last, keys |-> disk.keys,
                     aside |-> disk.aside, hashed |-> disk.hashed,
                     baseline |-> disk.baseline, unique |-> disk.unique]
    BY <1>1, <2>9, <2>10, <2>11, MovedSound
  <2>13. /\ disk'.rows = Q /\ disk'.last = disk.last /\ disk'.aside = disk.aside
         /\ disk'.baseline = disk.baseline
    BY <2>12
  <2>14. Remembers
    BY <1>1, <2>9, <2>10, <2>13 DEF Remembers
  <2>15. Tables'
    BY <2>12, <2>13, ChangeKeeps DEF Tables, Histories
  <2> QED BY <2>14, <2>15
<1> QED BY <1>2, <1>3

LEMMA WriteKeeps ==
    ASSUME Tables, Memory, NEW w \in Writers, Write(w) PROVE Tables' /\ Remembers
<1>1. PICK q \in WriteRecords : q = writer[w]
  BY DEF Memory
<1>2. q # NoWrite /\ Serving /\ UNCHANGED <<draft, phase, promised, muddled>>
  BY <1>1 DEF Write, Memory, Served
<1>3. CASE q.found # 0
  <2>1. Patch(q)
    BY <1>1, <1>3 DEF Write
  <2> QED BY <1>2, <2>1, PatchKeeps
<1>4. CASE q.found = 0
  <2>1. PICK c : c = IF q.kind = "import" THEN ChannelFor(q.domain) ELSE "workbuddy"
    OBVIOUS
  <2>2. PICK row : row = Row(q.uid, c, q.domain)
    OBVIOUS
  <2>3. /\ q.uid \in Logins /\ q.domain \in Domains /\ c \in Channels
        /\ c = "workbuddy" \/ q.domain = "intl"
    BY <2>1, ChannelTypes DEF WriteRecords
  <2>4. row \in Rows /\ row.limit = 0 /\ (row.channel = "workbuddy" \/ row.domain = "intl")
    BY <2>2, <2>3, RowType
  <2>5. Add(row)
    BY <1>1, <1>4, <2>1, <2>2 DEF Write
  <2>6. PICK p \in Processes : phase[p] \in Done
    BY <1>2, WhileServing
  <2> QED BY <1>2, <2>4, <2>5, <2>6, AddKeeps
<1> QED BY <1>3, <1>4

LEMMA KeyKeeps ==
    ASSUME Tables, NEW k \in Keys, DeleteKey(k) \/ \E n \in Limits : CreateKey(k, n)
    PROVE  Tables' /\ Remembers
<1>1. /\ Serving /\ UNCHANGED <<draft, phase, promised, muddled>>
      /\ Sound(disk, promised, muddled) /\ IsTable(disk)
  BY WhileServing DEF DeleteKey, CreateKey, AccountFrame
<1>2. PICK K \in SUBSET Keys : disk' = KeysSet(disk, K)
  <2>1. disk.keys \ {k} \in SUBSET Keys /\ disk.keys \cup {k} \in SUBSET Keys
    BY <1>1, TableHas
  <2>2. disk' = KeysSet(disk, disk.keys \ {k}) \/ disk' = KeysSet(disk, disk.keys \cup {k})
    BY DEF DeleteKey, CreateKey, KeysSet
  <2> QED BY <2>1, <2>2
<1>3. /\ Sound(disk', promised, muddled) /\ disk'.rows = disk.rows /\ disk'.last = disk.last
      /\ disk'.aside = disk.aside /\ disk'.baseline = disk.baseline
  BY <1>1, <1>2, KeysSound
<1>4. Remembers
  BY <1>1, <1>3, TableHas DEF Remembers
<1> QED BY <1>1, <1>3, <1>4, ChangeKeeps DEF Tables, Histories

----------------------------------------------------------------------------
(* Every step keeps what memory knows                                      *)

LEMMA ServedKept ==
    ASSUME Memory, Serving => Serving', claim' \in {claim, NoClaim},
           \A w \in Writers : writer'[w] \in {writer[w], NoWrite}
    PROVE  Served'
BY DEF Memory, Served

LEMMA MemoryRemembers ==
    ASSUME Memory, Served', claim' \in {claim, NoClaim},
           writer' \in [Writers -> WriteRecords], tickets' \subseteq Channels \cup {"login"},
           Remembers
    PROVE  Memory'
<1>1. /\ disk.last \in Nat /\ disk'.last \in Nat /\ disk.last <= disk'.last
      /\ \A i \in DOMAIN disk'.rows \ muddled' :
            i <= disk.last => /\ i \in DOMAIN disk.rows \ muddled
                              /\ disk'.rows[i].limit = disk.rows[i].limit
  BY DEF Remembers
<1>2. claim' # NoClaim => claim.id <= disk.last
  BY DEF Memory, ClaimKnows
<1> QED BY <1>1, <1>2, MemoryKept

\* A step that changes tables only.
LEMMA TablesOnly ==
    ASSUME Memory, Remembers, UNCHANGED <<phase, writer, tickets, claim>>
    PROVE  Memory'
<1>1. Served'
  BY DEF Memory, Served, Serving
<1> QED BY <1>1, MemoryRemembers DEF Memory

\* A step of a start that does not commit, or what follows it.
LEMMA StartOnly ==
    ASSUME Memory, Tables, NEW p \in Processes, NEW x \in Phases, phase[p] # "up",
           phase' = [phase EXCEPT ![p] = x], UNCHANGED <<disk, muddled, writer, tickets, claim>>
    PROVE  Memory'
<1>1. \A q \in Processes : q # p => phase'[q] = phase[q]
  BY Stepped
<1>2. Serving => Serving'
  BY <1>1 DEF Serving
<1>3. Served'
  BY <1>2 DEF Memory, Served
<1> QED BY <1>3 DEF Memory, ClaimKnows

LEMMA StartMemory ==
    ASSUME Tables, Memory, NEW p \in Processes,
           \/ Bind(p) \/ Lock(p) \/ CreateTables(p) \/ MigrateAccounts(p) \/ RenameKeys(p)
           \/ CopyKeys(p) \/ MigrateRegions(p) \/ Finish(p) \/ Serve(p)
    PROVE  Memory'
<1>1. phase[p] # "up" /\ UNCHANGED <<disk, muddled, writer, tickets, claim>>
  BY DEF Bind, Idle, Lock, CreateTables, MigrateAccounts, RenameKeys, CopyKeys,
         MigrateRegions, Finish, Serve, Step, StartFrame
<1>2. \E x \in Phases : phase' = [phase EXCEPT ![p] = x]
  <2>1. {"bound", "off", "locked", "tables", "accounts", "renamed", "keys", "refused",
         "regions", "scanning", "up"} \subseteq Phases
    BY DEF Phases
  <2>2. \E x \in {"bound", "off", "locked", "tables", "accounts", "renamed", "keys", "refused",
                  "regions", "scanning", "up"} : phase' = [phase EXCEPT ![p] = x]
    BY DEF Bind, Lock, CreateTables, MigrateAccounts, RenameKeys, CopyKeys,
           MigrateRegions, Finish, Serve, Step
  <2> QED BY <2>1, <2>2
<1> QED BY <1>1, <1>2, StartOnly

\* Nobody serves while a start commits: nothing is remembered of the old rows.
LEMMA CommitMemory == ASSUME Tables, Memory, NEW p \in Processes, Commit(p) PROVE Memory'
<1>1. phase[p] = "regions" /\ UNCHANGED <<writer, tickets, claim>>
  BY DEF Commit, Step, StartFrame
<1>2. ASSUME NEW q \in Processes, phase[q] = "up" PROVE FALSE
  BY <1>1, <1>2, NothingOpen DEF Done, Opened
<1>3. ~Serving
  BY <1>2 DEF Serving
<1>4. claim = NoClaim /\ \A w \in Writers : writer[w] = NoWrite
  BY <1>3 DEF Memory, Served
<1> QED BY <1>1, <1>4 DEF Memory, Served, ClaimKnows

LEMMA StopMemory == ASSUME Tables, Memory, NEW p \in Processes, Stop(p) PROVE Memory'
<1>1. phase' = [phase EXCEPT ![p] = "off"] /\ "off" \in Phases /\ UNCHANGED <<disk, muddled>>
  BY DEF Stop, Phases
<1>2. CASE phase[p] = "up"
  <2>1. writer' = [w \in Writers |-> NoWrite] /\ tickets' = {} /\ claim' = NoClaim
    BY <1>2 DEF Stop
  <2> QED BY <2>1, NothingTypes DEF Memory, Served, ClaimKnows
<1>3. CASE phase[p] # "up"
  <2>1. UNCHANGED <<writer, tickets, claim>>
    BY <1>3 DEF Stop
  <2> QED BY <1>1, <1>3, <2>1, StartOnly
<1> QED BY <1>2, <1>3

\* A look-up finds a row, or none.
LEMMA FirstType == ASSUME IsTable(disk), NEW u \in Logins PROVE First(u) \in 0..MaxRow
<1>0. DOMAIN disk.rows \subseteq Ids /\ DOMAIN disk.rows \subseteq Nat
  BY TableHas
<1>1. PICK here : here = {i \in Known(u) : disk.rows[i].channel = "workbuddy"}
  OBVIOUS
<1>2. PICK pool : pool = IF here # {} THEN here ELSE Known(u)
  OBVIOUS
<1>3. pool \subseteq DOMAIN disk.rows
  BY <1>1, <1>2 DEF Known
<1>4. First(u) = IF pool = {} THEN 0 ELSE CHOOSE i \in pool : \A j \in pool : i <= j
  BY <1>1, <1>2 DEF First
<1>5. CASE pool = {}
  BY <1>4, <1>5, RegistryAssumption
<1>6. CASE pool # {}
  <2>1. pool \subseteq Nat
    BY <1>0, <1>3
  <2>2. \E i \in pool : \A j \in pool : i <= j
    BY <1>6, <2>1, Least
  <2>3. First(u) \in pool
    BY <1>4, <1>6, <2>2
  <2>4. First(u) \in Ids
    BY <1>0, <1>3, <2>3
  <2> QED BY <2>4, RegistryAssumption DEF Ids
<1> QED BY <1>5, <1>6

LEMMA LookMemory ==
    ASSUME Tables, Memory, NEW w \in Writers, NEW kind \in Kinds, NEW login \in Seen,
           Look(w, kind, login)
    PROVE  Memory'
<1>1. PICK q : q = [kind |-> kind, uid |-> login.uid, domain |-> login.domain,
                    found |-> First(login.uid)]
  OBVIOUS
<1>2. /\ Serving /\ writer' = [writer EXCEPT ![w] = q]
      /\ UNCHANGED <<disk, phase, tickets, claim, muddled>>
  BY <1>1 DEF Look
<1>3. q \in WriteRecords
  <2>1. login.uid \in Logins /\ login.domain \in Domains
    BY DEF Seen
  <2>2. First(login.uid) \in 0..MaxRow
    BY <2>1, FirstType DEF Tables, Sound
  <2> QED BY <1>1, <2>1, <2>2 DEF WriteRecords
<1>4. writer' \in [Writers -> WriteRecords] /\ Serving'
  BY <1>2, <1>3 DEF Memory, Serving
<1> QED BY <1>2, <1>4 DEF Memory, Served, ClaimKnows

LEMMA ClaimMemory ==
    ASSUME Tables, Memory,
           ClaimLands \/ ClaimFails \/ \E i \in Ids : ClaimReads(i)
    PROVE  Memory'
<1>1. ASSUME ClaimLands \/ ClaimFails PROVE Memory'
  <2>1. claim' = NoClaim /\ UNCHANGED <<writer, tickets, phase>>
    BY <1>1 DEF ClaimLands, ClaimFails
  <2>2. Served'
    BY <2>1, ServedKept DEF Serving
  <2> QED BY <2>1, <2>2, NothingTypes DEF Memory, ClaimKnows
<1>2. ASSUME NEW i \in Ids, ClaimReads(i) PROVE Memory'
  <2>1. /\ Serving /\ i \in DOMAIN disk.rows
        /\ claim' = [id |-> i, limit |-> disk.rows[i].limit]
        /\ UNCHANGED <<disk, phase, writer, tickets, muddled>>
    BY <1>2 DEF ClaimReads
  <2>2. i \in 0..MaxRow /\ i <= disk.last /\ disk.rows[i].limit \in Nat
    BY <2>1, TableHas, RegistryAssumption DEF Tables, Sound, Ids
  <2>3. claim' \in ClaimRecords /\ claim'.id = i /\ claim'.limit = disk.rows[i].limit
    BY <2>1, <2>2 DEF ClaimRecords
  <2>4. Serving'
    BY <2>1 DEF Serving
  <2> QED BY <2>1, <2>2, <2>3, <2>4 DEF Memory, Served, ClaimKnows
<1> QED BY <1>1, <1>2

LEMMA WriteMemory ==
    ASSUME Tables, Memory, NEW w \in Writers, Write(w) PROVE Memory'
<1>1. /\ writer' = [writer EXCEPT ![w] = NoWrite] /\ UNCHANGED <<phase, claim>>
      /\ tickets' \in {tickets, tickets \ {"login"}}
  BY DEF Write
<1>2. /\ writer' \in [Writers -> WriteRecords]
      /\ \A v \in Writers : writer'[v] \in {writer[v], NoWrite}
  BY <1>1, NothingTypes DEF Memory
<1>3. Served'
  BY <1>1, <1>2, ServedKept DEF Serving
<1>4. Remembers
  BY WriteKeeps
<1>5. tickets' \subseteq Channels \cup {"login"}
  BY <1>1 DEF Memory
<1> QED BY <1>1, <1>2, <1>3, <1>4, <1>5, MemoryRemembers

\* An edit during a claim muddles the account.
LEMMA EditMemory ==
    ASSUME Tables, Memory, NEW i \in Ids, NEW n \in Limits, EditAccount(i, n) PROVE Memory'
<1>1. /\ UNCHANGED <<phase, writer, tickets, claim>>
      /\ muddled \subseteq muddled' /\ (claim.id = i => i \in muddled')
  BY DEF EditAccount
<1>2. /\ disk'.last = disk.last /\ DOMAIN disk'.rows = DOMAIN disk.rows
      /\ \A j \in DOMAIN disk.rows : j # i => disk'.rows[j] = disk.rows[j]
      /\ disk.last \in Nat
  BY EditAccountKeeps, TableHas DEF Tables, Sound
<1>3. Served'
  BY <1>1 DEF Memory, Served, Serving
<1>4. \A j \in DOMAIN disk'.rows \ muddled' :
         j = claim.id => /\ j \in DOMAIN disk.rows \ muddled
                         /\ disk'.rows[j].limit = disk.rows[j].limit
  BY <1>1, <1>2
<1> QED BY <1>1, <1>2, <1>3, <1>4, MemoryKept DEF Memory

----------------------------------------------------------------------------
(* The inductive invariant                                                 *)

IInv == Counters /\ Updates /\ Tables /\ Memory

LEMMA InitInv == RegistryInit => IInv
BY CountersInit, UpdatesInit, TablesInit DEF RegistryInit, IInv

LEMMA TablesStep == IInv /\ [RegistryNext]_rvars => Tables' /\ Memory'
<1> SUFFICES ASSUME IInv, [RegistryNext]_rvars PROVE Tables' /\ Memory'
  OBVIOUS
<1> Counters /\ Updates /\ Tables /\ Memory
  BY DEF IInv
<1>0. UNCHANGED <<disk, draft, phase, promised, muddled, writer, claim>>
      /\ tickets' \subseteq Channels \cup {"login"} => Tables' /\ Memory'
  BY TablesQuiet, MemoryQuiet
<1>1. CASE UNCHANGED rvars
  BY <1>0, <1>1 DEF rvars, Memory
<1>2. CASE NextDay \/ Update
  BY <1>0, <1>2 DEF NextDay, Update, Memory
<1>3. ASSUME NEW c \in Clicks, NEW p \in Processes, ClickUpdate(c, p) PROVE Tables' /\ Memory'
  BY <1>0, <1>3 DEF ClickUpdate, Memory
<1>4. ASSUME NEW p \in Processes, Stop(p) PROVE Tables' /\ Memory'
  BY <1>4, StopTables, StopMemory
<1>5. ASSUME NEW c \in Clicks, RestartUpdated(c) PROVE Tables' /\ Memory'
  <2>1. click[c].process \in Processes
    BY DEF Updates, UpdateTypeOK
  <2> QED BY <1>4, <1>5, <2>1 DEF RestartUpdated
<1>6. ASSUME NEW p \in Processes, Bind(p) \/ Lock(p) PROVE Tables' /\ Memory'
  BY <1>6, BindTables, LockTables, StartMemory
<1>7. ASSUME NEW p \in Processes,
             \/ CreateTables(p) \/ MigrateAccounts(p) \/ RenameKeys(p) \/ CopyKeys(p)
             \/ MigrateRegions(p) \/ Finish(p) \/ Serve(p)
      PROVE  Tables' /\ Memory'
  BY <1>7, CreateTablesKeeps, MigrateAccountsKeeps, RenameKeysKeeps, CopyKeysKeeps,
     MigrateRegionsKeeps, FinishKeeps, StartMemory
<1>8. ASSUME NEW p \in Processes, Commit(p) PROVE Tables' /\ Memory'
  BY <1>8, CommitKeeps, CommitMemory
<1>9. ASSUME NEW p \in Processes, NEW u \in Logins, NEW d \in Domains, StartupImport(p, u, d)
      PROVE  Tables' /\ Memory'
  BY <1>9, StartupImportKeeps, TablesOnly DEF StartupImport
<1>10. ASSUME NEW u \in Logins, NEW d \in Domains, Paste(u, d) PROVE Tables' /\ Memory'
  BY <1>10, PasteKeeps, TablesOnly DEF Paste
<1>11. ASSUME NEW w \in Writers, Scan(w) \/ Import(w) \/ PollLogin(w) PROVE Tables' /\ Memory'
  <2>1. PICK kind \in Kinds, login \in Seen : Look(w, kind, login)
    BY <1>11 DEF Scan, Import, PollLogin, Kinds
  <2>2. Tables'
    BY <2>1, TablesQuiet DEF Look
  <2> QED BY <2>1, <2>2, LookMemory
<1>12. ASSUME NEW w \in Writers, Write(w) PROVE Tables' /\ Memory'
  BY <1>12, WriteKeeps, WriteMemory
<1>13. ASSUME NEW t \in Channels \cup {"login"}, Offer(t) \/ Expire(t) PROVE Tables' /\ Memory'
  BY <1>0, <1>13 DEF Offer, Expire, Memory
<1>14. ASSUME NEW i \in Ids, DeleteAccount(i) PROVE Tables' /\ Memory'
  BY <1>14, DeleteAccountKeeps, TablesOnly DEF DeleteAccount
<1>15. ASSUME NEW i \in Ids, NEW n \in Limits, EditAccount(i, n) PROVE Tables' /\ Memory'
  BY <1>15, EditAccountKeeps, EditMemory
<1>16. ASSUME ClaimLands \/ ClaimFails \/ \E i \in Ids : ClaimReads(i) PROVE Tables' /\ Memory'
  <2>1. ClaimFails \/ (\E i \in Ids : ClaimReads(i)) => Tables'
    BY TablesQuiet DEF ClaimFails, ClaimReads
  <2> QED BY <1>16, <2>1, ClaimLandsKeeps, ClaimMemory
<1>17. ASSUME NEW k \in Keys, DeleteKey(k) \/ \E n \in Limits : CreateKey(k, n)
       PROVE  Tables' /\ Memory'
  <2>1. UNCHANGED <<phase, writer, tickets, claim>>
    BY <1>17 DEF DeleteKey, CreateKey, AccountFrame
  <2> QED BY <1>17, <2>1, KeyKeeps, TablesOnly
<1>18. ASSUME NEW k \in Keys, NEW n \in Limits, EditKey(k, n) PROVE Tables' /\ Memory'
  BY <1>0, <1>18 DEF EditKey, AccountFrame, Memory
<1>19. ASSUME NEW r \in Requests, Pass(r) \/ \E k \in Keys : Ask(r, k) PROVE Tables' /\ Memory'
  BY <1>0, <1>19 DEF Pass, Ask, AccountFrame, Memory
<1>20. ASSUME NEW r \in Requests, NEW i \in Ids \cup {0}, Charge(r, i) PROVE Tables' /\ Memory'
  BY <1>20, ChargeKeeps, TablesOnly DEF Charge, AccountFrame
<1>21. ASSUME NEW c \in Channels \cup {"login"} PROVE Offer(c) => Tables' /\ Memory'
  BY <1>13
<1> QED
  BY <1>1, <1>2, <1>3, <1>4, <1>5, <1>6, <1>7, <1>8, <1>9, <1>10, <1>11, <1>12, <1>13, <1>14,
     <1>15, <1>16, <1>17, <1>18, <1>19, <1>20, <1>21 DEF RegistryNext, StartLogin, Discover

LEMMA StepInv == IInv /\ [RegistryNext]_rvars => IInv'
<1> SUFFICES ASSUME IInv, [RegistryNext]_rvars PROVE IInv'
  OBVIOUS
<1>1. Counters'
  BY CounterSteps, CounterStepKeeps DEF IInv, Counters
<1>2. Updates'
  BY UpdateSteps, UpdateStepKeeps DEF IInv
<1> QED BY <1>1, <1>2, TablesStep DEF IInv

\* The invariant holds in every reachable state.
THEOREM RegistryHolds == RegistrySpec => []IInv
<1> QED BY InitInv, StepInv, PTL DEF RegistrySpec

LEMMA TablesAreSound == IInv => TablesSound
<1> SUFFICES ASSUME IInv PROVE TablesSound
  OBVIOUS
<1>1. /\ IsTable(disk) /\ IsTable(draft) /\ (disk.unique => ~Clash(disk.rows))
      /\ Credits(disk, promised, muddled) /\ disk.aside = {}
  BY DEF IInv, Tables, Sound
<1>2. RegistryTypeOK
  <2>1. TypeOK /\ UpdateTypeOK
    BY DEF IInv, Counters, Updates
  <2>2. /\ writer \in [Writers -> [kind : Kinds, uid : Logins, domain : Domains,
                                   found : 0..MaxRow]]
        /\ tickets \subseteq Channels \cup {"login"} /\ claim \in [id : 0..MaxRow, limit : Nat]
    BY DEF IInv, Memory, WriteRecords, ClaimRecords
  <2>3. /\ phase \in [Processes -> Phases] /\ promised \in [Ids -> Int] /\ muddled \subseteq Ids
    BY DEF IInv, Tables, Histories
  <2> QED BY <1>1, <2>1, <2>2, <2>3 DEF RegistryTypeOK
<1>3. CreditsAddUp
  <2>1. SUFFICES ASSUME disk.baseline, NEW i \in DOMAIN disk.rows \ muddled,
                        disk.rows[i].limit > 0
                 PROVE  Remaining(disk.rows[i]) = NonNeg(promised[i])
    BY DEF CreditsAddUp
  <2>2. /\ promised[i] = disk.rows[i].limit - (disk.rows[i].spent - disk.rows[i].baseline)
        /\ disk.rows[i].baseline <= disk.rows[i].spent
    BY <1>1, <2>1 DEF Credits, Promise
  <2>3. disk.rows[i].spent \in Nat /\ disk.rows[i].baseline \in Nat
    BY <1>1, <2>1, TableHas
  <2>4. NonNeg(disk.rows[i].spent - disk.rows[i].baseline)
          = disk.rows[i].spent - disk.rows[i].baseline
    BY <2>2, <2>3 DEF NonNeg
  <2> QED BY <2>2, <2>4 DEF Remaining
<1> QED BY <1>2, <1>3 DEF TablesSound

\* The tables fit together through every start, interrupted or not, every login
\* and every claim, and an account shows the credit its operator expects.
THEOREM TablesStaySound == RegistrySpec => []TablesSound
<1> QED BY TablesAreSound, RegistryHolds, PTL

\* The same counters, beside starts that end requests and keys that go.
THEOREM CountsSurviveStarts == RegistrySpec => []NeverUnderCounted
<1>1. IInv => NeverUnderCounted
  BY DEF IInv, Counters
<1> QED BY <1>1, RegistryHolds, PTL

\* The limit of a key, beside everything else that happens to it.
THEOREM LimitKeptInRegistry == RegistrySpec => LimitHonoured
<1> DEFINE Allowed == \A k \in Keys, d \in Days :
              counted'[k][d] > counted[k][d] =>
                 \E r \in Requests :
                    /\ request[r].at = "dated" /\ request'[r].at = "admitted"
                    /\ request[r].key = k /\ request[r].day = d
                    /\ request[r].limit = 0 \/ counted[k][d] < request[r].limit
<1>1. IInv /\ [RegistryNext]_rvars => [Allowed]_vars
  <2>1. SUFFICES ASSUME IInv, CounterStep, NEW k \in Keys, NEW d \in Days,
                        counted'[k][d] > counted[k][d]
                 PROVE  \E r \in Requests :
                           /\ request[r].at = "dated" /\ request'[r].at = "admitted"
                           /\ request[r].key = k /\ request[r].day = d
                           /\ request[r].limit = 0 \/ counted[k][d] < request[r].limit
    BY CounterSteps DEF IInv, Counters
  <2>2. counted[k][d] \in Nat
    BY <2>1 DEF IInv, Counters, TypeOK
  <2>3. [Next]_vars
    BY <2>1, <2>2 DEF CounterStep, RequestsEnd, RequestEnds
  <2> QED BY <2>1, <2>3, CountingStep DEF IInv
<1>2. LimitHonoured <=> [][Allowed]_vars
  BY DEF LimitHonoured
<1> HIDE DEF Allowed
<1> QED BY <1>1, <1>2, RegistryHolds, PTL DEF RegistrySpec

\* Only the commit of a start changes the committed tables while a transaction
\* is open: whoever else writes, writes for a process that serves.
LEMMA OpenSteps ==
    ASSUME IInv, [RegistryNext]_rvars, draft # NoDraft, disk' # disk
    PROVE  \E p \in Processes : Commit(p)
<1>0. Tables /\ Memory
  BY DEF IInv
<1>1. \A p \in Processes : phase[p] \notin Done
  BY <1>0, NothingOpen
<1>2. ~Serving
  BY <1>1 DEF Serving, Done
<1>3. claim = NoClaim /\ \A w \in Writers : writer[w] = NoWrite
  BY <1>0, <1>2 DEF Memory, Served
<1>4. ~UNCHANGED rvars /\ ~NextDay /\ ~Update
  BY DEF rvars, NextDay, Update
<1>5. \A c \in Clicks : ~RestartUpdated(c) /\ \A p \in Processes : ~ClickUpdate(c, p)
  BY DEF RestartUpdated, Stop, ClickUpdate
<1>6. \A p \in Processes :
         /\ ~Bind(p) /\ ~Lock(p) /\ ~Stop(p) /\ ~CreateTables(p) /\ ~MigrateAccounts(p)
         /\ ~RenameKeys(p) /\ ~CopyKeys(p) /\ ~MigrateRegions(p) /\ ~Finish(p) /\ ~Serve(p)
  BY DEF Bind, Lock, Stop, CreateTables, MigrateAccounts, RenameKeys, CopyKeys, MigrateRegions,
         Finish, Serve
<1>7. \A p \in Processes, u \in Logins, d \in Domains : ~StartupImport(p, u, d)
  BY <1>1 DEF StartupImport, Done
<1>8. \A u \in Logins, d \in Domains : ~Paste(u, d)
  BY <1>2 DEF Paste
<1>9. \A w \in Writers : ~Scan(w) /\ ~Import(w) /\ ~PollLogin(w) /\ ~Write(w)
  BY <1>2, <1>3 DEF Scan, Import, PollLogin, Look, Write
<1>10. \A t : ~Offer(t) /\ ~Expire(t)
  BY DEF Offer, Expire
<1>11. \A i \in Ids : ~DeleteAccount(i) /\ ~ClaimReads(i) /\ \A n \in Limits : ~EditAccount(i, n)
  BY <1>2 DEF DeleteAccount, ClaimReads, EditAccount
<1>12. ~ClaimLands /\ ~ClaimFails
  BY <1>3 DEF ClaimLands, ClaimFails
<1>13. \A k \in Keys : ~DeleteKey(k) /\ \A n \in Limits : ~CreateKey(k, n) /\ ~EditKey(k, n)
  BY <1>2 DEF DeleteKey, CreateKey, EditKey
<1>14. \A r \in Requests :
          /\ ~Pass(r) /\ \A k \in Keys : ~Ask(r, k)
          /\ \A i \in Ids \cup {0} : ~Charge(r, i)
  BY <1>2 DEF Pass, Ask, Charge
<1> QED
  BY <1>4, <1>5, <1>6, <1>7, <1>8, <1>9, <1>10, <1>11, <1>12, <1>13, <1>14
     DEF RegistryNext, StartLogin, Discover

\* A start loses no key and no login, and an update restarts what is installed.
THEOREM StartsStaySound == RegistrySpec => StartsAreSound
<1> DEFINE Whole ==
             draft # NoDraft /\ disk' # disk =>
               /\ disk'.keys = disk.keys
               /\ \A i \in DOMAIN disk.rows :
                    \E j \in DOMAIN disk'.rows :
                       /\ j <= i /\ disk'.rows[j].uid = disk.rows[i].uid
                       /\ disk'.rows[j].spent = disk.rows[j].spent
               /\ \A i \in DOMAIN disk'.rows :
                    disk'.rows[i].channel = ChannelFor(disk'.rows[i].domain)
           Fits == \A c \in Clicks : RestartUpdated(c) => overlapped \/ installed = code
<1>1. IInv /\ [RegistryNext]_rvars => [Whole]_rvars
  <2>1. SUFFICES ASSUME IInv, [RegistryNext]_rvars, draft # NoDraft, disk' # disk
                 PROVE  Whole
    OBVIOUS
  <2>2. PICK p \in Processes : Commit(p)
    BY <2>1, OpenSteps
  <2>3. phase[p] = "regions" /\ disk' = draft
    BY <2>2 DEF Commit, Step
  <2>4. Lineage("regions")
    BY <2>1, <2>3, OpenDraft DEF IInv, Opened
  <2> QED BY <2>3, <2>4 DEF Lineage, Descends
<1>2. IInv /\ [RegistryNext]_rvars => [Fits]_rvars
  BY DEF IInv, Updates, UpdateSound, RestartUpdated
<1>3. StartKeepsAll <=> [][Whole]_rvars
  BY DEF StartKeepsAll
<1>4. UpdateIsInstalled <=> [][Fits]_rvars
  BY DEF UpdateIsInstalled
<1> HIDE DEF Whole, Fits
<1> QED BY <1>1, <1>2, <1>3, <1>4, RegistryHolds, PTL DEF RegistrySpec, StartsAreSound
=============================================================================
