------------------------- MODULE ChannelChatProofs -------------------------
(***************************************************************************)
(* Proofs about ChannelChat, for every channel and every list of accounts, *)
(* whatever others do to them meanwhile.                                   *)
(***************************************************************************)
EXTENDS ChannelChat, FiniteSetTheorems, TLAPS

----------------------------------------------------------------------------
(* The inductive invariant                                                 *)

\* An attempt is under way.
Trying == {"readying", "sending", "posted", "renewing", "reading"}

\* Where a request is.
Stage ==
    /\ outcome = "none" <=> at # "done"
    /\ at \in Trying => account \in asked
    /\ at = "sweeping" => attempt < limit

\* Whom it has tried: traework alone takes an account back, to try it renewed.
Tries ==
    /\ channel # "traework" => tried = asked
    /\ at \in Trying \ {"renewing"} => account \in tried

\* What it sends is new; an account it may try again has a new token, or cools.
Tokens ==
    /\ NoTokenTwice
    /\ Accounts \ asked \subseteq fresh
    /\ at \in {"readying", "sending"} => account \in fresh
    /\ at # "done" =>
         \A a \in asked \ tried :
            a \in fresh \/ a \in cooling \/ (at = "renewing" /\ a = account)

\* The rows a picker has still to walk, and what pick_account gave it.
Walk ==
    /\ at = "sweeping" /\ channel \notin {"qwenwork", "traework"} => listed
    /\ at = "sweeping" /\ ChecksWhenReady => rows = {} /\ picked = None
    /\ at = "sweeping" => rows \cap tried = {}
    /\ at = "sweeping" /\ channel = "qoder" /\ pin # None => rows \subseteq {pin}
    /\ at = "sweeping" /\ picked # None => picked \notin tried /\ (pin # None => picked = pin)
    /\ PinnedStays

\* The attempts are paid from a budget for the accounts it counted.
Budget ==
    /\ attempt = Cardinality(tried) + (IF channel = "traework" THEN Cardinality(renewed) ELSE 0)
    /\ limit >= (IF channel = "traework" THEN 2 ELSE 1) * Cardinality(pooled)
    /\ usable \subseteq pooled

\* What stayed usable and was not asked can still be picked; pick_account gives
\* nothing only when there is no such account.
Skipping ==
    /\ at # "done" => \A a \in usable \ asked : Usable(a)
    /\ at = "sweeping" /\ picked = None => Mine \subseteq asked
    /\ NobodySkipped

\* What the client has came from the account in use, which is not left any more.
Speaks ==
    channel # "qoder" =>
      \/ sources = {}
      \/ /\ at \in {"reading", "done"} /\ sources = {account}
         /\ at = "reading" => streams

\* An attempt leaves at most one counted row.
Counted ==
    /\ at # "done" => counted <= attempt
    /\ at \in Trying => counted < attempt
    /\ at # "done" /\ channel \notin {"qoder", "traework"} =>
         \/ counted = 0
         \/ /\ at = "picking" /\ attempt = limit /\ counted = 1
            /\ ~(channel = "qwenwork" /\ streams)
    /\ CountedOnce

IInv ==
    /\ TypeOK /\ Stage /\ Tries /\ Tokens /\ Walk /\ Budget /\ Skipping /\ Speaks
    /\ Counted

\* The channel has finitely many accounts.
LEMMA AccountsFinite ==
    /\ IsFiniteSet(Accounts) /\ None \notin Accounts
    /\ \A S : S \subseteq Accounts => IsFiniteSet(S) /\ Cardinality(S) \in Nat
<1>1. Len(Order) \in Nat /\ DOMAIN Order = 1..Len(Order)
  BY ChannelAssumption
<1>2. IsFiniteSet(1..Len(Order))
  BY <1>1, FS_Interval
<1>3. Accounts = {Order[i] : i \in 1..Len(Order)}
  BY <1>1 DEF Accounts
<1>4. IsFiniteSet(Accounts)
  <2>1. Order \in [1..Len(Order) -> Accounts]
    BY <1>1, ChannelAssumption
  <2>2. Order \in Surjection(1..Len(Order), Accounts)
    BY <1>3, <2>1 DEF Surjection
  <2> QED BY <1>2, <2>2, FS_Surjection
<1> QED BY <1>4, FS_Subset, FS_CardinalityType, ChannelAssumption

\* One more account, or one less, is a set of one more or one less.
LEMMA OneMore ==
    ASSUME NEW S \in SUBSET Accounts, NEW a \in Accounts, a \notin S
    PROVE  Cardinality(S \cup {a}) = Cardinality(S) + 1
BY AccountsFinite, FS_AddElement

LEMMA OneLess ==
    ASSUME NEW S \in SUBSET Accounts, NEW a \in S
    PROVE  Cardinality(S \ {a}) = Cardinality(S) - 1
BY AccountsFinite, FS_RemoveElement

LEMMA NoMore ==
    ASSUME NEW S \in SUBSET Accounts, NEW T \in SUBSET S
    PROVE  Cardinality(T) <= Cardinality(S)
BY AccountsFinite, FS_Subset

----------------------------------------------------------------------------
(* The start                                                               *)

LEMMA InitInv == Init => IInv
<1> SUFFICES ASSUME Init PROVE IInv
  OBVIOUS
<1>1. pooled \subseteq Accounts /\ usable \subseteq pooled
  BY DEF Init, Pool, Usable
<1>2. PICK least \in Budgets : limit = AttemptLimit(channel, status, least)
  BY DEF Init
<1>3. Cardinality(pooled) \in Nat /\ least \in Nat
  BY <1>1, AccountsFinite, ChannelAssumption
<1>4. limit \in Nat /\ limit >= (IF channel = "traework" THEN 2 ELSE 1) * Cardinality(pooled)
  BY <1>2, <1>3 DEF Init, AttemptLimit
<1>5. Cardinality({}) = 0
  BY FS_EmptySet
<1>6. TypeOK
  <2>1. 0 \in 0..Changes /\ 0 \in 0..limit /\ 0 \in 0..limit + 1
    BY <1>4, ChannelAssumption
  <2>2. <<None, FALSE>> \in (Accounts \cup {None}) \X BOOLEAN
    OBVIOUS
  <2> QED BY <1>1, <1>4, <2>1, <2>2 DEF Init, TypeOK, Statuses
<1>7. Stage /\ Tries /\ Speaks
  BY DEF Init, Stage, Tries, Speaks, Trying
<1>8. Tokens /\ Walk
  BY DEF Init, Tokens, NoTokenTwice, Walk, PinnedStays
<1>9. Budget
  BY <1>1, <1>4, <1>5 DEF Init, Budget
<1>10. Skipping
  BY DEF Init, Skipping, NobodySkipped
<1>11. Counted
  BY DEF Init, Counted, CountedOnce, Trying
<1> QED BY <1>6, <1>7, <1>8, <1>9, <1>10, <1>11 DEF IInv

----------------------------------------------------------------------------
(* Picking an account                                                      *)

\* A request ends without an answer and without a new row.
LEMMA EndKeeps ==
    ASSUME IInv, at # "done", NEW how \in {"limited", "broken", "closed"}, End(how),
           UNCHANGED <<request, pool, loop, picking, last, record, past>>
    PROVE  IInv'
<1> USE DEF End, request, pool, loop, picking, record, past
<1>1. TypeOK'
  BY DEF IInv, TypeOK
<1>2. Stage' /\ Tries' /\ Tokens' /\ Walk'
  BY DEF IInv, Stage, Tries, Tokens, NoTokenTwice, Walk, PinnedStays, ChecksWhenReady, Trying
<1>3. Budget' /\ Skipping' /\ Speaks'
  BY DEF IInv, Budget, Skipping, NobodySkipped, Mine, Usable, Speaks
<1>4. Counted'
  BY DEF IInv, Counted, CountedOnce, Trying
<1> QED BY <1>1, <1>2, <1>3, <1>4 DEF IInv

\* An account that was not tried is put to use, with a token that was not sent.
LEMMA UseKeeps ==
    ASSUME IInv, NEW a \in Accounts \ tried, Use(a), at \in {"picking", "sweeping"}, attempt < limit,
           UNCHANGED <<request, cooling, changes, last, record, outcome, resent, sources, usable>>,
           \/ UNCHANGED <<status, lapsed, fresh>> /\ a \in fresh
           \/ Renewed(a),
           pin # None /\ channel \notin {"qwenwork", "traework"} => a = pin
    PROVE  IInv'
<1> USE DEF Use, request, record, Renewed
<1>0. attempt \in Nat /\ limit \in Nat /\ attempt' \in 0..limit /\ outcome = "none"
  BY DEF IInv, TypeOK, Stage
<1>1. TypeOK'
  <2>1. status' \in [Accounts -> Statuses] /\ lapsed' \subseteq Accounts /\ fresh' \subseteq Accounts
    BY DEF IInv, TypeOK, Statuses
  <2> QED BY <1>0, <2>1, AccountsFinite DEF IInv, TypeOK, ChecksWhenReady
<1>2. Stage' /\ Tries'
  BY DEF IInv, TypeOK, Stage, Tries, Trying, ChecksWhenReady
<1>3. Tokens'
  BY DEF IInv, TypeOK, Tokens, NoTokenTwice, ChecksWhenReady
<1>4. Walk'
  BY DEF IInv, Walk, PinnedStays, ChecksWhenReady
<1>5. Budget'
  <2>1. Cardinality(tried') = Cardinality(tried) + 1
    BY OneMore DEF IInv, TypeOK
  <2>2. channel = "traework" => renewed' = renewed
    OBVIOUS
  <2>3. /\ Cardinality(tried) \in Nat /\ Cardinality(renewed) \in Nat
    BY AccountsFinite DEF IInv, TypeOK
  <2> QED BY <2>1, <2>2, <2>3 DEF IInv, Budget
<1>6. Skipping' /\ Speaks'
  BY DEF IInv, TypeOK, Stage, Skipping, NobodySkipped, Usable, Speaks, ChecksWhenReady
<1>7. Counted'
  <2>1. counted \in Nat /\ counted <= attempt /\ counted < attempt'
    BY <1>0 DEF IInv, TypeOK, Counted, Stage
  <2>2. channel \notin {"qoder", "traework"} => counted = 0
    BY <1>0 DEF IInv, Counted, Stage
  <2> QED BY <1>0, <2>1, <2>2 DEF Counted, CountedOnce
<1> QED BY <1>1, <1>2, <1>3, <1>4, <1>5, <1>6, <1>7 DEF IInv

LEMMA PickReadyKeeps ==
    ASSUME IInv, NEW a \in Accounts, PickReady(a)
    PROVE  IInv'
<1>1. a \notin tried /\ a \in fresh /\ (pin # None => a = pin)
  BY DEF IInv, Tries, Tokens, PickReady, Eligible
<1> QED BY <1>1, UseKeeps DEF PickReady, pool, record

LEMMA SweepUseKeeps == IInv /\ SweepUse => IInv'
<1> SUFFICES ASSUME IInv, SweepUse PROVE IInv'
  OBVIOUS
<1>1. PICK a \in rows : /\ Use(a)
                        /\ IF channel = "qoder" /\ a \notin lapsed
                           THEN UNCHANGED <<status, lapsed, fresh>> ELSE Renewed(a)
  BY DEF SweepUse
<1>2. a \in Accounts /\ at = "sweeping" /\ attempt < limit
  BY DEF IInv, TypeOK, Stage, SweepUse
<1>3. channel \in {"qoder", "qwenwork", "traework"}
  BY <1>1, <1>2 DEF IInv, TypeOK, Walk, Channels, ChecksWhenReady
<1>4. a \notin tried /\ (channel = "qoder" /\ pin # None => a = pin)
  BY <1>1, <1>2 DEF IInv, Walk
<1>5. channel = "qoder" => a \in fresh
  BY <1>2, <1>4 DEF IInv, Tries, Tokens
<1> QED BY <1>1, <1>2, <1>3, <1>4, <1>5, UseKeeps DEF SweepUse, record

LEMMA SweepFallBackKeeps == IInv /\ SweepFallBack => IInv'
<1> SUFFICES ASSUME IInv, SweepFallBack PROVE IInv'
  OBVIOUS
<1>1. picked \in Accounts /\ picked \notin tried /\ (pin # None => picked = pin)
  BY DEF IInv, TypeOK, Walk, SweepFallBack
<1>2. picked \in fresh
  BY <1>1 DEF IInv, Tries, Tokens, SweepFallBack
<1>3. at = "sweeping" /\ attempt < limit
  BY DEF IInv, Stage, SweepFallBack
<1> QED BY <1>1, <1>2, <1>3, UseKeeps DEF SweepFallBack, record

\* Nobody is put to use yet: what to walk next.
LEMMA WalkKeeps ==
    ASSUME IInv, at \in {"picking", "sweeping"}, at' = "sweeping", attempt < limit,
           UNCHANGED <<request, pool, loop, last, record, outcome, past>>,
           TypeOK', Walk', picked' = None => Mine \subseteq asked
    PROVE  IInv'
<1> USE DEF request, pool, loop, record, past
<1>1. Stage' /\ Tries' /\ Tokens'
  BY DEF IInv, Stage, Tries, Tokens, NoTokenTwice, Trying
<1>2. Budget' /\ Speaks'
  BY DEF IInv, Budget, Speaks
<1>3. Skipping'
  BY DEF IInv, Stage, Skipping, NobodySkipped, Mine, Usable
<1>4. Counted'
  <2>1. attempt \in Nat /\ limit \in Nat /\ outcome = "none"
    BY DEF IInv, TypeOK, Stage
  <2>2. counted <= attempt /\ (channel \notin {"qoder", "traework"} => counted = 0)
    BY <2>1 DEF IInv, Counted
  <2> QED BY <2>1, <2>2 DEF Counted, CountedOnce, Trying
<1> QED BY <1>1, <1>2, <1>3, <1>4 DEF IInv

LEMMA PickLapsedKeeps ==
    ASSUME IInv, NEW a \in Accounts, PickLapsed(a)
    PROVE  IInv'
<1> USE DEF PickLapsed
<1>1. a # None /\ a \notin tried /\ (pin # None => a = pin)
  BY AccountsFinite DEF Eligible
<1>2. rows' \subseteq Accounts \ tried /\ (channel = "qoder" /\ pin # None => rows' \subseteq {pin})
  BY <1>1 DEF Listing
<1>3. TypeOK'
  BY <1>2 DEF IInv, TypeOK, request, pool, loop, record, past
<1>4. Walk'
  BY <1>1, <1>2 DEF IInv, Walk, PinnedStays, RenewsWhenPicking, ChecksWhenReady,
                    request, loop, past
<1> QED BY <1>1, <1>3, <1>4, WalkKeeps

LEMMA PickNothingKeeps == IInv /\ PickNothing => IInv'
<1> SUFFICES ASSUME IInv, PickNothing PROVE IInv'
  OBVIOUS
<1> USE DEF PickNothing
<1>1. rows' \subseteq Accounts \ tried /\ (channel = "qoder" /\ pin # None => rows' = {})
  BY DEF Listing
<1>2. TypeOK'
  BY <1>1 DEF IInv, TypeOK, request, pool, loop, record, past
<1>3. Walk'
  BY <1>1 DEF IInv, Walk, PinnedStays, RenewsWhenPicking, ChecksWhenReady,
              request, loop, past
<1>4. Mine \subseteq asked
  BY DEF IInv, TypeOK, Skipping, Mine, Usable, Eligible
<1> QED BY <1>2, <1>3, <1>4, WalkKeeps

LEMMA SweepFailKeeps == IInv /\ SweepFail => IInv'
<1> SUFFICES ASSUME IInv, SweepFail PROVE IInv'
  OBVIOUS
<1> USE DEF SweepFail
<1>1. rows' \subseteq rows /\ at' = "sweeping" /\ attempt < limit
  BY DEF IInv, Stage
<1>2. TypeOK'
  BY <1>1 DEF IInv, TypeOK, request, pool, loop, record, past
<1>3. Walk'
  BY <1>1 DEF IInv, Walk, PinnedStays, ChecksWhenReady, request, loop, past
<1> QED BY <1>1, <1>2, <1>3, WalkKeeps DEF IInv, Skipping

LEMMA SweepListKeeps == IInv /\ SweepList => IInv'
<1> SUFFICES ASSUME IInv, SweepList PROVE IInv'
  OBVIOUS
<1> USE DEF SweepList
<1>1. rows' \subseteq Accounts \ tried /\ attempt < limit
  BY DEF IInv, Stage, Listing
<1>2. TypeOK'
  BY <1>1 DEF IInv, TypeOK, request, pool, loop, record, past
<1>3. Walk'
  BY <1>1 DEF IInv, TypeOK, Walk, PinnedStays, ChecksWhenReady, request, loop, past
<1> QED BY <1>1, <1>2, <1>3, WalkKeeps DEF IInv, Skipping

\* A request that owns an account it has not asked has attempts left, or has
\* spent one on an account that its budget did not count.
LEMMA BudgetIsEnough ==
    ASSUME IInv, at # "done", attempt = limit, asked \subseteq pooled
    PROVE  Mine \subseteq asked
<1> SUFFICES ASSUME NEW u \in Mine \ asked PROVE FALSE
  OBVIOUS
<1>1. pooled \subseteq Accounts /\ u \in pooled /\ asked \subseteq pooled \ {u}
  BY DEF IInv, TypeOK, Budget, Mine
<1>2. tried \subseteq pooled \ {u} /\ renewed \subseteq pooled \ {u}
  BY <1>1 DEF IInv, TypeOK
<1>3. Cardinality(pooled \ {u}) = Cardinality(pooled) - 1
  BY <1>1, OneLess
<1>4. Cardinality(tried) <= Cardinality(pooled \ {u}) /\ Cardinality(renewed) <= Cardinality(pooled \ {u})
  BY <1>1, <1>2, NoMore
<1>5. /\ Cardinality(pooled) \in Nat /\ Cardinality(tried) \in Nat
      /\ Cardinality(renewed) \in Nat /\ limit \in Nat
  BY <1>1, <1>2, AccountsFinite DEF IInv, TypeOK
<1> QED BY <1>3, <1>4, <1>5 DEF IInv, Budget

\* A log row.
LEMMA RowTyped ==
    ASSUME NEW a \in Accounts \cup {None}, NEW success \in BOOLEAN, NEW counts \in BOOLEAN,
           row \in (Accounts \cup {None}) \X BOOLEAN,
           Row(a, success, counts) \/ UNCHANGED record
    PROVE  /\ row' \in (Accounts \cup {None}) \X BOOLEAN
           /\ counted' \in {counted, counted + 1}
BY DEF Row, record

LEMMA SurrenderKeeps ==
    ASSUME IInv, at \in {"picking", "sweeping"}, Surrender,
           \/ Mine \subseteq asked
           \/ attempt = limit /\ ~(asked \subseteq pooled)
           \/ channel \in {"qwenwork", "traework"} /\ picked # None
    PROVE  IInv'
<1> USE DEF Surrender, End, request, pool, loop, picking, record, past
<1>1. row' \in (Accounts \cup {None}) \X BOOLEAN /\ counted' \in {counted, counted + 1}
  BY RowTyped DEF IInv, TypeOK
<1>2. TypeOK'
  <2>1. counted \in Nat /\ attempt \in 0..limit /\ limit \in Nat /\ counted <= attempt
    BY DEF IInv, TypeOK, Counted
  <2> QED BY <1>1, <2>1 DEF IInv, TypeOK
<1>3. Stage' /\ Tries' /\ Tokens' /\ Walk'
  BY DEF IInv, Stage, Tries, Tokens, NoTokenTwice, Walk, PinnedStays, ChecksWhenReady, Trying
<1>4. Budget' /\ Speaks'
  BY DEF IInv, Budget, Speaks
<1>5. Skipping'
  BY DEF IInv, Skipping, NobodySkipped, Mine
<1>6. Counted'
  <2>1. channel \notin {"qoder", "traework"} =>
           counted = 0 \/ (counted = 1 /\ ~(channel = "qwenwork" /\ streams))
    BY DEF IInv, Counted
  <2>2. counted' = counted \/ (channel = "qwenwork" /\ streams /\ counted' = counted + 1)
    BY DEF Row
  <2>3. channel \notin {"qoder", "traework"} => counted' <= 1
    BY <2>1, <2>2
  <2> QED BY <2>3 DEF Counted, CountedOnce, Trying
<1> QED BY <1>2, <1>3, <1>4, <1>5, <1>6 DEF IInv

LEMMA PickKeeps == IInv /\ Pick => IInv'
<1> SUFFICES ASSUME IInv, Pick PROVE IInv'
  OBVIOUS
<1>1. ASSUME NEW a \in Accounts, PickReady(a) \/ PickLapsed(a) PROVE IInv'
  BY <1>1, PickReadyKeeps, PickLapsedKeeps
<1>2. CASE SweepBreak
  BY <1>2, EndKeeps DEF SweepBreak
<1>3. CASE SweepEnd
  <2>1. picked = None => Mine \subseteq asked
    BY <1>3 DEF IInv, Skipping, SweepEnd
  <2>2. picked # None => channel \in {"qwenwork", "traework"}
    BY <1>3 DEF IInv, TypeOK, Walk, ChecksWhenReady, Channels, SweepEnd
  <2> QED BY <1>3, <2>1, <2>2, SurrenderKeeps DEF SweepEnd
<1>4. CASE Exhausted
  <2>1. asked \subseteq pooled => Mine \subseteq asked
    BY <1>4, BudgetIsEnough DEF Exhausted
  <2>2. attempt = limit
    BY <1>4 DEF Exhausted
  <2> QED BY <1>4, <2>1, <2>2, SurrenderKeeps DEF Exhausted
<1> QED BY <1>1, <1>2, <1>3, <1>4, PickNothingKeeps, SweepUseKeeps, SweepFailKeeps,
           SweepListKeeps, SweepFallBackKeeps DEF Pick

----------------------------------------------------------------------------
(* An attempt that fails                                                   *)

\* The row of a failed attempt.
LEMMA FailureCounted ==
    ASSUME IInv, at \in Trying, NEW f \in Failures, Leave(f), LogFailure(f) \/ UNCHANGED record,
           UNCHANGED <<request, attempt>>
    PROVE  Counted' /\ counted' \in 0..limit' + 1 /\ row' \in (Accounts \cup {None}) \X BOOLEAN
<1> USE DEF request, record
<1>1. /\ counted \in Nat /\ attempt \in 0..limit /\ limit \in Nat /\ counted < attempt
      /\ outcome = "none" /\ account \in Accounts
      /\ channel \notin {"qoder", "traework"} => counted = 0
  BY DEF IInv, TypeOK, Stage, Counted, Trying
<1>2. /\ counted' \in {counted, counted + 1}
      /\ row' \in (Accounts \cup {None}) \X BOOLEAN
  <2>1. Counts(f) \in BOOLEAN
    BY DEF Counts, Final, Stops
  <2> QED BY <1>1, <2>1, RowTyped DEF IInv, TypeOK, LogFailure
<1>3. at' \in {"picking", "done"} /\ outcome' \in {"none", "refused"}
  BY <1>1 DEF Leave, End
<1>4. at' = "picking" /\ channel \notin {"qoder", "traework"} =>
        \/ counted' = 0
        \/ attempt = limit /\ counted' = 1 /\ ~(channel = "qwenwork" /\ streams)
  <2> SUFFICES ASSUME at' = "picking", channel \notin {"qoder", "traework"}, counted' # 0
               PROVE  attempt = limit /\ counted' = 1 /\ ~(channel = "qwenwork" /\ streams)
    OBVIOUS
  <2>1. ~Stops(f) /\ Logs(f) /\ Counts(f)
    BY <1>1 DEF LogFailure, Row, Leave, End
  <2>2. attempt = limit
    BY <2>1 DEF Counts, Final
  <2>3. ~(channel = "qwenwork" /\ streams)
    BY <2>1 DEF Logs
  <2> QED BY <1>1, <1>2, <2>2, <2>3
<1>5. counted' \in Nat /\ counted' <= attempt /\ (channel \notin {"qoder", "traework"} => counted' <= 1)
  BY <1>1, <1>2
<1>6. Counted'
  BY <1>1, <1>3, <1>4, <1>5 DEF Counted, CountedOnce, Trying
<1> QED BY <1>1, <1>2, <1>5, <1>6

\* What a failed attempt leaves: nothing was said, and an account that was taken
\* back has a new token or cools.
LEMMA FailKeeps ==
    ASSUME IInv, at \in Trying, NEW f \in Failures, Leave(f), LogFailure(f) \/ UNCHANGED record,
           UNCHANGED <<request, changes, attempt, tried, renewed, picking, resent, asked,
                       sources, usable>>,
           cooling' \in {cooling, cooling \cup {account}},
           \E s \in Statuses : status' \in {status, [status EXCEPT ![account] = s]},
           lapsed' \subseteq lapsed, fresh \subseteq fresh', fresh' \subseteq Accounts,
           sources = {} \/ channel = "qoder",
           at = "renewing" => account \in tried \/ account \in cooling' \/ account \in fresh'
    PROVE  IInv'
<1> USE DEF request, picking
<1>1. Counted' /\ counted' \in 0..limit' + 1 /\ row' \in (Accounts \cup {None}) \X BOOLEAN
  BY FailureCounted
<1>2. /\ at' \in {"picking", "done"} /\ outcome' \in {"none", "refused"}
      /\ outcome' = "none" <=> at' # "done"
      /\ last' = f /\ account' = None /\ account \in Accounts /\ account \in asked
  BY DEF IInv, Stage, TypeOK, Leave, End, Trying
<1>3. TypeOK'
  BY <1>1, <1>2 DEF IInv, TypeOK
<1>4. Stage' /\ Tries' /\ Walk'
  BY <1>2 DEF IInv, Stage, Tries, Walk, PinnedStays, Trying
<1>5. Tokens'
  BY <1>2 DEF IInv, Tokens, NoTokenTwice, Tries, Trying
<1>6. Budget' /\ Speaks'
  BY <1>2 DEF IInv, Budget, Speaks
<1>7. Skipping'
  BY <1>2 DEF IInv, TypeOK, Skipping, NobodySkipped, Usable, Trying
<1> QED BY <1>1, <1>3, <1>4, <1>5, <1>6, <1>7 DEF IInv

LEMMA ReadyFailsKeeps == IInv /\ ReadyFails => IInv'
<1> SUFFICES ASSUME IInv, ReadyFails PROVE IInv'
  OBVIOUS
<1>1. /\ at \in Trying /\ at # "renewing" /\ "network" \in Failures /\ "expired" \in Statuses
      /\ sources = {} \/ channel = "qoder"
  BY DEF IInv, Speaks, ReadyFails, Trying, Failures, Statuses
<1> QED BY <1>1, FailKeeps DEF IInv, TypeOK, ReadyFails, past

\* Marking a failure touches the account in use alone.
LEMMA MarkTouches ==
    ASSUME NEW f \in Failures, MarkFailure(f)
    PROVE  /\ cooling' \in {cooling, cooling \cup {account}}
           /\ \E s \in Statuses : status' \in {status, [status EXCEPT ![account] = s]}
BY DEF MarkFailure, Statuses

\* Before the first output.
LEMMA NothingSaid ==
    ASSUME IInv, at \in Trying, at = "reading" => channel = "traework" /\ ~streams
    PROVE  sources = {} \/ channel = "qoder"
BY DEF IInv, Speaks, Trying

LEMMA RefusedKeeps ==
    ASSUME IInv, NEW f \in Failures, Refused(f)
    PROVE  IInv'
<1>1. at \in Trying /\ at # "renewing" /\ (sources = {} \/ channel = "qoder")
  BY NothingSaid DEF Refused, Unanswered, Trying
<1> QED BY <1>1, MarkTouches, FailKeeps DEF IInv, TypeOK, Refused, Failed, past

LEMMA UnreachableKeeps == IInv /\ Unreachable => IInv'
<1> SUFFICES ASSUME IInv, Unreachable PROVE IInv'
  OBVIOUS
<1>1. /\ at \in Trying /\ at # "renewing" /\ "network" \in Failures
      /\ sources = {} \/ channel = "qoder"
  BY NothingSaid DEF Unreachable, Trying, Failures
<1> QED BY <1>1, MarkTouches, FailKeeps DEF IInv, TypeOK, Unreachable, Failed, past

LEMMA ResyncKeeps == IInv /\ Resync => IInv'
<1> SUFFICES ASSUME IInv, Resync PROVE IInv'
  OBVIOUS
<1>1. /\ at \in Trying /\ at # "renewing" /\ "auth" \in Failures /\ "active" \in Statuses
      /\ sources = {} \/ channel = "qoder"
  BY NothingSaid DEF Resync, Trying, Failures, Statuses
<1>2. lapsed' \subseteq lapsed /\ fresh \subseteq fresh' /\ fresh' \subseteq Accounts
  BY DEF IInv, TypeOK, Stage, Resync, Renewed, Trying
<1> QED BY <1>1, <1>2, FailKeeps DEF IInv, TypeOK, Resync, Renewed

LEMMA RenewalFailedKeeps == IInv /\ RenewalFailed => IInv'
<1> SUFFICES ASSUME IInv, RenewalFailed PROVE IInv'
  OBVIOUS
<1>1. /\ at \in Trying /\ "auth" \in Failures /\ channel = "qoder"
      /\ account \in tried
  BY DEF IInv, Stage, Tries, RenewalFailed, Trying, Failures
<1> QED BY <1>1, MarkTouches, FailKeeps DEF IInv, TypeOK, RenewalFailed, past

\* A failed renewal cools the account in every channel that takes it back.
LEMMA RenewedOrNotKeeps == IInv /\ RenewedOrNot => IInv'
<1> SUFFICES ASSUME IInv, RenewedOrNot PROVE IInv'
  OBVIOUS
<1>1. /\ at \in Trying /\ "auth" \in Failures
      /\ sources = {} \/ channel = "qoder"
  BY NothingSaid DEF RenewedOrNot, Trying, Failures
<1>2. lapsed' \subseteq lapsed /\ fresh \subseteq fresh' /\ fresh' \subseteq Accounts
  BY DEF IInv, TypeOK, Stage, RenewedOrNot, Trying
<1>3. account \in cooling'
  BY DEF IInv, TypeOK, RenewedOrNot, Failed, MarkFailure, Marks, Channels
<1> QED BY <1>1, <1>2, <1>3, MarkTouches, FailKeeps DEF RenewedOrNot, Failed

LEMMA BodyErrorKeeps == IInv /\ BodyError => IInv'
<1> SUFFICES ASSUME IInv, BodyError PROVE IInv'
  OBVIOUS
<1>1. at \in Trying /\ at # "renewing" /\ "inBand" \in Failures
  BY DEF BodyError, Trying, Failures
<1> QED BY <1>1, MarkTouches, FailKeeps DEF IInv, TypeOK, BodyError, Failed, past

LEMMA DisconnectKeeps == IInv /\ Disconnect => IInv'
<1> SUFFICES ASSUME IInv, Disconnect PROVE IInv'
  OBVIOUS
<1>1. at \in Trying /\ at = "reading" /\ "network" \in Failures
  BY DEF Disconnect, Trying, Failures
<1>2. CASE ~CutsShort
  <2>1. sources = {} \/ channel = "qoder"
    BY <1>1, <1>2 DEF IInv, Speaks, CutsShort, Started
  <2> QED BY <1>1, <1>2, <2>1, MarkTouches, FailKeeps DEF IInv, TypeOK, Disconnect, Failed, past
<1>3. CASE CutsShort
  <2> USE DEF Disconnect, End, request, picking, past
  <2>1. row' \in (Accounts \cup {None}) \X BOOLEAN /\ counted' \in {counted, counted + 1}
    BY <1>1, <1>3, RowTyped DEF IInv, TypeOK
  <2>2. /\ counted \in Nat /\ attempt \in 0..limit /\ limit \in Nat /\ counted < attempt
        /\ channel \notin {"qoder", "traework"} => counted = 0
    BY <1>1 DEF IInv, TypeOK, Counted
  <2>3. TypeOK'
    BY <1>1, <1>3, <2>1, <2>2 DEF IInv, TypeOK
  <2>4. Stage' /\ Tries' /\ Tokens' /\ Walk'
    BY <1>1, <1>3 DEF IInv, Stage, Tries, Tokens, NoTokenTwice, Walk, PinnedStays,
                      ChecksWhenReady, Trying
  <2>5. Budget' /\ Skipping' /\ Speaks'
    BY <1>1, <1>3 DEF IInv, Budget, Skipping, NobodySkipped, Mine, Speaks
  <2>6. Counted'
    BY <1>1, <1>3, <2>1, <2>2 DEF Counted, CountedOnce, Trying
  <2> QED BY <2>3, <2>4, <2>5, <2>6 DEF IInv
<1> QED BY <1>2, <1>3

----------------------------------------------------------------------------
(* An attempt that goes on                                                 *)

\* From one step of an attempt to the next: no row, no new account; the tokens
\* that are fresh and whom it has tried are the step's own matter.
LEMMA GoesOn ==
    ASSUME IInv, at \in Trying, at' \in Trying,
           UNCHANGED <<request, changes, attempt, account, picking, last, record, outcome,
                       asked, usable>>,
           TypeOK', Tries', Tokens', Speaks',
           Cardinality(tried') + Cardinality(renewed') = Cardinality(tried) + Cardinality(renewed)
             \/ (channel # "traework" /\ tried' = tried),
           \A a \in Accounts : Usable(a) => Usable(a)'
    PROVE  IInv'
<1> USE DEF request, picking, record
<1>1. Stage' /\ Walk'
  BY DEF IInv, Stage, Walk, PinnedStays, Trying
<1>2. Budget'
  <2>1. /\ Cardinality(tried) \in Nat /\ Cardinality(renewed) \in Nat
        /\ Cardinality(tried') \in Nat /\ Cardinality(renewed') \in Nat
    BY AccountsFinite DEF IInv, TypeOK
  <2>2. channel = "traework" => attempt = Cardinality(tried) + Cardinality(renewed)
    BY DEF IInv, Budget
  <2>3. channel # "traework" => tried = asked /\ tried' = asked
    BY DEF IInv, Tries
  <2> QED BY <2>1, <2>2, <2>3 DEF IInv, Budget
<1>3. Skipping'
  BY DEF IInv, TypeOK, Stage, Skipping, NobodySkipped, Trying
<1>4. Counted'
  BY DEF IInv, Stage, Counted, CountedOnce, Trying
<1> QED BY <1>1, <1>2, <1>3, <1>4 DEF IInv

LEMMA ReadyKeeps == IInv /\ (ReadyAsIs \/ ReadyRenewed) => IInv'
<1> SUFFICES ASSUME IInv, ReadyAsIs \/ ReadyRenewed PROVE IInv'
  OBVIOUS
<1> USE DEF ReadyAsIs, ReadyRenewed, Renewed, request, pool, loop, picking, record, past
<1>1. at \in Trying /\ at' \in Trying /\ account \in Accounts
  BY DEF IInv, TypeOK, Stage, Trying
<1>2. TypeOK'
  BY <1>1 DEF IInv, TypeOK, Statuses
<1>3. Tries' /\ Tokens'
  BY <1>1 DEF IInv, TypeOK, Tries, Tokens, NoTokenTwice, Trying
<1>4. Speaks'
  BY DEF IInv, Speaks
<1>5. \A a \in Accounts : Usable(a) => Usable(a)'
  BY DEF IInv, TypeOK, Usable
<1> QED BY <1>1, <1>2, <1>3, <1>4, <1>5, GoesOn

LEMMA SendKeeps == IInv /\ Send => IInv'
<1> SUFFICES ASSUME IInv, Send PROVE IInv'
  OBVIOUS
<1> USE DEF Send, request, pool, loop, picking, record, past
<1>1. at \in Trying /\ at' \in Trying /\ account \in Accounts /\ account \in tried
  BY DEF IInv, TypeOK, Stage, Tries, Trying
<1>2. TypeOK'
  BY <1>1 DEF IInv, TypeOK
<1>3. Tries' /\ Tokens'
  BY <1>1 DEF IInv, TypeOK, Tries, Tokens, NoTokenTwice, Trying
<1>4. Speaks'
  BY DEF IInv, Speaks
<1>5. \A a \in Accounts : Usable(a) => Usable(a)'
  BY DEF Usable
<1> QED BY <1>1, <1>2, <1>3, <1>4, <1>5, GoesOn

\* A login to be renewed: traework takes the account back, and notes that it has.
LEMMA UnauthorizedKeeps == IInv /\ Unauthorized => IInv'
<1> SUFFICES ASSUME IInv, Unauthorized PROVE IInv'
  OBVIOUS
<1> USE DEF Unauthorized, request, pool, picking, record, past
<1>1. /\ at \in Trying \ {"renewing"} /\ at' \in Trying /\ account \in asked
      /\ account \in tried /\ asked \subseteq Accounts
  BY DEF IInv, TypeOK, Stage, Tries, Trying, Unanswered
<1>2. TypeOK'
  <2>1. tried' \subseteq asked /\ renewed' \subseteq asked /\ account # None
    BY <1>1, AccountsFinite DEF IInv, TypeOK
  <2> QED BY <2>1 DEF IInv, TypeOK
<1>3. Tries' /\ Tokens'
  BY <1>1 DEF IInv, TypeOK, Tries, Tokens, NoTokenTwice, Trying
<1>4. Speaks'
  BY DEF IInv, Speaks, Unanswered
<1>5. channel = "traework" =>
        Cardinality(tried') + Cardinality(renewed') = Cardinality(tried) + Cardinality(renewed)
  <2> SUFFICES ASSUME channel = "traework"
               PROVE  Cardinality(tried') + Cardinality(renewed')
                        = Cardinality(tried) + Cardinality(renewed)
    OBVIOUS
  <2>1. account \notin renewed /\ renewed \in SUBSET Accounts /\ tried \in SUBSET Accounts
    BY DEF Renewable, IInv, TypeOK
  <2>2. Cardinality(tried') = Cardinality(tried) - 1
    BY <1>1, <2>1, OneLess
  <2>3. Cardinality(renewed') = Cardinality(renewed) + 1
    BY <1>1, <2>1, OneMore
  <2>4. Cardinality(tried) \in Nat /\ Cardinality(renewed) \in Nat
    BY <2>1, AccountsFinite
  <2> QED BY <2>2, <2>3, <2>4
<1>6. \A a \in Accounts : Usable(a) => Usable(a)'
  BY DEF Usable
<1> QED BY <1>1, <1>2, <1>3, <1>4, <1>5, <1>6, GoesOn

LEMMA RenewedResendKeeps == IInv /\ RenewedResend => IInv'
<1> SUFFICES ASSUME IInv, RenewedResend PROVE IInv'
  OBVIOUS
<1> USE DEF RenewedResend, Renewed, request, loop, picking, record
<1>1. at \in Trying /\ at' \in Trying /\ account \in Accounts /\ account \in asked
  BY DEF IInv, TypeOK, Stage, Trying
<1>2. TypeOK'
  BY <1>1 DEF IInv, TypeOK, Statuses
<1>3. Tries' /\ Tokens'
  BY <1>1 DEF IInv, TypeOK, Tries, Tokens, NoTokenTwice, Trying
<1>4. Speaks'
  BY DEF IInv, Speaks
<1>5. \A a \in Accounts : Usable(a) => Usable(a)'
  BY DEF IInv, TypeOK, Usable
<1> QED BY <1>1, <1>2, <1>3, <1>4, <1>5, GoesOn

LEMMA AcceptedKeeps == IInv /\ Accepted => IInv'
<1> SUFFICES ASSUME IInv, Accepted PROVE IInv'
  OBVIOUS
<1> USE DEF Accepted, request, loop, picking, record, past
<1>1. at \in Trying /\ at' \in Trying /\ account \in Accounts /\ account \in tried
  BY DEF IInv, TypeOK, Stage, Tries, Trying
<1>2. TypeOK'
  BY <1>1 DEF IInv, TypeOK
<1>3. Tries' /\ Tokens'
  BY <1>1 DEF IInv, TypeOK, Tries, Tokens, NoTokenTwice, Trying
<1>4. Speaks'
  BY DEF IInv, Speaks
<1>5. \A a \in Accounts : Usable(a) => Usable(a)'
  BY DEF Usable
<1> QED BY <1>1, <1>2, <1>3, <1>4, <1>5, GoesOn

LEMMA DeltaKeeps == IInv /\ Delta => IInv'
<1> SUFFICES ASSUME IInv, Delta PROVE IInv'
  OBVIOUS
<1> USE DEF Delta, request, pool, loop, picking, record
<1>1. at \in Trying /\ at' \in Trying /\ account \in asked
  BY DEF IInv, Stage, Trying
<1>2. TypeOK'
  BY <1>1 DEF IInv, TypeOK
<1>3. Tries' /\ Tokens'
  BY <1>1 DEF IInv, TypeOK, Tries, Tokens, NoTokenTwice, Trying
<1>4. Speaks'
  BY DEF IInv, Speaks, Forwards
<1>5. \A a \in Accounts : Usable(a) => Usable(a)'
  BY DEF Usable
<1> QED BY <1>1, <1>2, <1>3, <1>4, <1>5, GoesOn

----------------------------------------------------------------------------
(* The end of an answer                                                    *)

\* An answer ends: what was said came from the account in use, and the row that
\* is written is its only one that counts.
LEMMA AnswerEnds ==
    ASSUME IInv, at = "reading", NEW how \in {"ok", "cut", "refused"}, End(how),
           NEW success \in BOOLEAN, Row(account, success, TRUE),
           how = "ok" => success = TRUE,
           UNCHANGED <<request, status, lapsed, changes, loop, picking, fresh, resent, asked, usable>>,
           cooling' \subseteq cooling, last' \in Failures \cup {"none"},
           sources' \in {sources, sources \cup {account}}
    PROVE  IInv'
<1> USE DEF End, request, loop, picking
<1>1. account \in Accounts /\ account \in asked
  BY DEF IInv, TypeOK, Stage, Trying
<1>2. row' = <<account, success>> /\ counted' = counted + 1
  BY DEF Row
<1>3. row' \in (Accounts \cup {None}) \X BOOLEAN
  BY <1>1, <1>2
<1>4. /\ counted \in Nat /\ attempt \in 0..limit /\ limit \in Nat /\ counted < attempt
      /\ channel \notin {"qoder", "traework"} => counted = 0
  BY DEF IInv, TypeOK, Counted, Trying
<1>5. TypeOK'
  BY <1>1, <1>2, <1>3, <1>4 DEF IInv, TypeOK
<1>6. Stage' /\ Tries' /\ Tokens' /\ Walk'
  BY DEF IInv, Stage, Tries, Tokens, NoTokenTwice, Walk, PinnedStays, ChecksWhenReady, Trying
<1>7. Budget' /\ Skipping' /\ Speaks'
  BY DEF IInv, Budget, Skipping, NobodySkipped, Mine, Speaks
<1>8. Counted'
  <2>1. at' = "done" /\ account' = account /\ (outcome' = "ok" => row' = <<account, TRUE>>)
    BY <1>2
  <2>2. channel' \notin {"qoder", "traework"} => counted' = 1
    BY <1>2, <1>4
  <2>3. (outcome = "ok" => row = <<account, TRUE>>)'
    BY <2>1
  <2>4. (channel \notin {"qoder", "traework"} =>
            counted <= 1 /\ (outcome = "ok" => counted = 1))'
    BY <2>2
  <2>5. CountedOnce'
    BY <2>3, <2>4 DEF CountedOnce
  <2> QED BY <2>1, <2>5 DEF Counted, Trying
<1> QED BY <1>5, <1>6, <1>7, <1>8 DEF IInv

LEMMA CompleteKeeps == IInv /\ Complete => IInv'
<1> SUFFICES ASSUME IInv, Complete PROVE IInv'
  OBVIOUS
<1>1. last \in Failures \cup {"none"}
  BY DEF IInv, TypeOK
<1> QED BY <1>1, AnswerEnds DEF Complete, Whole

LEMMA ErrorBecomesTextKeeps == IInv /\ ErrorBecomesText => IInv'
<1> SUFFICES ASSUME IInv, ErrorBecomesText PROVE IInv'
  OBVIOUS
<1> QED BY AnswerEnds DEF ErrorBecomesText, Whole, Failures

LEMMA EnvelopeErrorKeeps == IInv /\ EnvelopeError => IInv'
<1> SUFFICES ASSUME IInv, EnvelopeError PROVE IInv'
  OBVIOUS
<1> QED BY AnswerEnds DEF EnvelopeError, pool, past, Failures

LEMMA CallKeeps == IInv /\ Call => IInv'
<1> SUFFICES ASSUME IInv, Call PROVE IInv'
  OBVIOUS
<1>1. CASE SlotRefused
  BY <1>1, EndKeeps DEF SlotRefused
<1>2. CASE RenewalBreaks
  BY <1>2, EndKeeps DEF RenewalBreaks
<1> QED BY <1>1, <1>2, ReadyKeeps, ReadyFailsKeeps, SendKeeps, RefusedKeeps, ResyncKeeps,
           UnauthorizedKeeps, RenewedResendKeeps, RenewalFailedKeeps, RenewedOrNotKeeps,
           UnreachableKeeps, AcceptedKeeps DEF Call

LEMMA ReadKeeps == IInv /\ Read => IInv'
BY DeltaKeeps, CompleteKeeps, EnvelopeErrorKeeps, BodyErrorKeeps, ErrorBecomesTextKeeps,
   DisconnectKeeps DEF Read

----------------------------------------------------------------------------
(* Everybody else                                                          *)

\* Others change accounts: an account this request owns and has not asked stays
\* usable or is owned no more.
LEMMA OthersKeep ==
    ASSUME IInv, Others,
           UNCHANGED <<request, at, loop, picking, last, record, outcome, fresh, resent, asked,
                       sources>>,
           status' \in [Accounts -> Statuses], lapsed' \subseteq Accounts, cooling' \subseteq Accounts,
           usable' \subseteq usable,
           \A a \in usable' \ asked : Usable(a)',
           cooling \cap asked \subseteq cooling'
    PROVE  IInv'
<1> USE DEF Others, request, loop, picking, record
<1>1. TypeOK'
  BY ChannelAssumption DEF IInv, TypeOK
<1>2. Stage' /\ Tries' /\ Tokens' /\ Walk'
  BY DEF IInv, Stage, Tries, Tokens, NoTokenTwice, Walk, PinnedStays, ChecksWhenReady, Trying
<1>3. Budget' /\ Speaks'
  BY DEF IInv, Budget, Speaks
<1>4. Skipping'
  BY DEF IInv, Stage, Skipping, NobodySkipped, Mine
<1>5. Counted'
  BY DEF IInv, Counted, CountedOnce, Trying
<1> QED BY <1>1, <1>2, <1>3, <1>4, <1>5 DEF IInv

LEMMA SurroundingsKeep == IInv /\ Surroundings => IInv'
<1> SUFFICES ASSUME IInv, NEW a \in Accounts,
                    StatusChanges(a) \/ CooldownChanges(a) \/ TokenLapses(a)
             PROVE  IInv'
  BY DEF Surroundings
<1>1. CASE StatusChanges(a)
  <2>1. status' \in [Accounts -> Statuses] /\ lapsed' \subseteq Accounts /\ cooling' \subseteq Accounts
    BY <1>1 DEF IInv, TypeOK, StatusChanges
  <2>2. usable' \subseteq usable /\ \A b \in usable' : Usable(b)'
    BY <1>1 DEF StatusChanges, StillUsable, Usable
  <2> QED BY <1>1, <2>1, <2>2, OthersKeep DEF StatusChanges
<1>2. CASE CooldownChanges(a)
  <2>1. status' \in [Accounts -> Statuses] /\ lapsed' \subseteq Accounts /\ cooling' \subseteq Accounts
    BY <1>2 DEF IInv, TypeOK, CooldownChanges
  <2>2. usable' \subseteq usable /\ \A b \in usable' : Usable(b)'
    BY <1>2 DEF CooldownChanges, StillUsable, Usable
  <2>3. cooling \cap asked \subseteq cooling'
    BY <1>2 DEF CooldownChanges
  <2> QED BY <1>2, <2>1, <2>2, <2>3, OthersKeep DEF CooldownChanges
<1>3. CASE TokenLapses(a)
  <2>1. status' \in [Accounts -> Statuses] /\ lapsed' \subseteq Accounts /\ cooling' \subseteq Accounts
    BY <1>3 DEF IInv, TypeOK, TokenLapses
  <2>2. usable' = usable /\ \A b \in usable' \ asked : Usable(b)'
    BY <1>3 DEF IInv, Skipping, TokenLapses, Others, Usable, past
  <2> QED BY <1>3, <2>1, <2>2, OthersKeep DEF TokenLapses, past
<1> QED BY <1>1, <1>2, <1>3

----------------------------------------------------------------------------
(* The theorems                                                            *)

LEMMA NextInv == IInv /\ [Next]_vars => IInv'
<1> SUFFICES ASSUME IInv, [Next]_vars PROVE IInv'
  OBVIOUS
<1>1. CASE Hangup \/ NameFails
  BY <1>1, EndKeeps DEF Hangup, NameFails
<1>2. CASE UNCHANGED vars
  <2> USE <1>2 DEF vars, request, pool, loop, picking, record, past
  <2>1. TypeOK'
    BY DEF IInv, TypeOK
  <2>2. Stage' /\ Tries' /\ Tokens' /\ Walk'
    BY DEF IInv, Stage, Tries, Tokens, NoTokenTwice, Walk, PinnedStays, ChecksWhenReady, Trying
  <2>3. Budget' /\ Skipping' /\ Speaks'
    BY DEF IInv, Budget, Skipping, NobodySkipped, Mine, Usable, Speaks
  <2>4. Counted'
    BY DEF IInv, Counted, CountedOnce, Trying
  <2> QED BY <2>1, <2>2, <2>3, <2>4 DEF IInv
<1> QED BY <1>1, <1>2, PickKeeps, CallKeeps, ReadKeeps, SurroundingsKeep DEF Next, Finished

THEOREM Inductive == Spec => []IInv
BY InitInv, NextInv, PTL DEF Spec

\* A request has one answer and the log counts it once: its output is one
\* account's, unless an unpinned qoder request went on after an error inside the
\* stream, and its one counted row names the account that answered.
THEOREM RequestHasOneAnswer == Spec => []OneAnswer
<1>1. IInv => OneAnswer
  <2> SUFFICES ASSUME IInv PROVE OneAnswer
    OBVIOUS
  <2>1. sources \in SUBSET Accounts
    BY DEF IInv, TypeOK
  <2>2. CASE \E a : sources \subseteq {a}
    <3>1. PICK a : sources \subseteq {a}
      BY <2>2
    <3>2. Cardinality({a}) = 1 /\ IsFiniteSet({a})
      BY FS_Singleton
    <3>3. Cardinality(sources) <= 1
      BY <3>1, <3>2, FS_Subset
    <3> QED BY <3>3 DEF IInv, Counted, OneAnswer, OneSource
  <2>3. CASE ~\E a : sources \subseteq {a}
    <3>1. channel = "qoder"
      BY <2>3 DEF IInv, Speaks
    <3>2. pin = None
      BY <2>3, <3>1 DEF IInv, TypeOK, Walk, PinnedStays
    <3> QED BY <3>1, <3>2 DEF IInv, Counted, OneAnswer, OneSource
  <2> QED BY <2>2, <2>3
<1> QED BY <1>1, Inductive, PTL

\* A request told that no account is left has asked every account it owned all
\* along, unless its budget went to accounts that came later or, in qwenwork and
\* traework, the picker gave up at a login it could not renew; a pinned hop of
\* the other three asks no sibling; and no token is sent twice.
THEOREM RequestAsksItsAccounts == Spec => []OwnAccounts
<1>1. IInv => OwnAccounts
  BY DEF IInv, Skipping, Walk, Tokens, OwnAccounts
<1> QED BY <1>1, Inductive, PTL
=============================================================================
