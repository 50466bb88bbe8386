-------------------------- MODULE DispatchProofs --------------------------
(***************************************************************************)
(* Proofs about Dispatch for every set of accounts and channels, every     *)
(* routing order without repetition and every limit on a provider's loop.  *)
(***************************************************************************)
EXTENDS Dispatch, SequenceTheorems, TLAPS

\* From the reservation on there is an account at the current hop.
Hopping == at \notin {"idle", "recovering", "reserving", "done"}
Serving == Hopping /\ at # "walking"
Engaged == Serving /\ at # "picking"

\* Where the request is tells what it has taken: nothing before the
\* reservation, one reservation and a queue from there on, an account once
\* the provider has picked one.  Without failover a provider that was stopped
\* picks again only in the guard's retry.
Progress ==
    /\ ~Hopping /\ at # "done" => reserved = 0 /\ attempts = <<>> /\ hop = 1
    /\ at = "reserving" => queue # <<>>
    /\ Hopping => reserved = 1 /\ hop \in DOMAIN queue
    /\ Serving /\ at # "failed" => calls # 0
    /\ Engaged /\ at # "failed" => account \in Accounts
    /\ at # "done" <=> outcome = "none"
    /\ sent => at \in {"streaming", "done"}
    /\ ~cross /\ verdict = "stop" =>
          Engaged \/ at = "done" \/ (at = "picking" /\ FirstOfRetry)

\* Attempt i was made at the current hop, by the first call of its provider.
FirstOfHop(i) == i = Len(attempts) /\ attempts[i].call = 1

\* With failover the hop's account is pinned and the only one its provider may
\* have tried; the earlier attempts were made at earlier hops, or by the first
\* call of this one.
Pinned ==
    cross =>
        /\ Serving => pin = queue[hop] /\ tried \subseteq {pin}
        /\ Engaged /\ at # "failed" => tried = {pin}
        /\ Serving /\ attempt > 0 => tried = {pin}
        /\ Serving => tried \subseteq Asked
        /\ Hopping =>
              \A i \in DOMAIN attempts : \E m \in DOMAIN queue :
                  /\ queue[m] = attempts[i].account
                  /\ \/ m < hop
                     \/ /\ m = hop /\ at # "walking"
                        /\ calls = 1 => tried # {} /\ FirstOfHop(i)
                        /\ calls = 2 /\ tried = {} => FirstOfHop(i)

\* With failover a queued account that is not cooling was tried at its hop.
Complete ==
    cross =>
        /\ usable \subseteq Queued /\ usable \cap cooling = {}
        /\ Hopping => \A m \in 1..(hop - 1) : queue[m] \in usable => queue[m] \in Asked
        /\ at = "failed" => (queue[hop] \in usable => queue[hop] \in Asked)

\* Without failover the provider owns the request and remembers whom it tried
\* in this call.
Unpinned ==
    ~cross =>
        /\ pin = None
        /\ at = "walking" => attempts = <<>>
        /\ Serving => \A i \in DOMAIN attempts :
              /\ attempts[i].call <= calls
              /\ attempts[i].call = calls => attempts[i].account \in tried
        /\ \A a \in Asked : ChannelOf[a] = ChannelOf[queue[1]]

IInv ==
    /\ HeldAndPaidOnce /\ AskedInTurn
    /\ Progress /\ Pinned /\ Complete /\ Unpinned

----------------------------------------------------------------------------
(* Within a hop, and at the end of the request                             *)

\* A step of the provider that neither picks an account nor leaves the hop.
LEMMA HopStep ==
    ASSUME IInv, TypeOK', SlotsReturned',
           Engaged, at # "failed",
           UNCHANGED <<cross, queue, hop, attempts, tried, pin, reserved, outcome, account, calls>>,
           Serving',
           usable' \subseteq usable, usable' \cap cooling' \subseteq usable \cap cooling,
           sent' => at' = "streaming",
           ~cross /\ verdict' = "stop" => at' # "picking"
    PROVE  IInv'
<1>1. Hopping' /\ Hopping /\ Serving /\ at' # "done" /\ at # "done"
  BY DEF Engaged, Serving, Hopping
<1>2. QuotaOnce'
  BY <1>1 DEF IInv, HeldAndPaidOnce, QuotaOnce, Progress, Queued
<1>3. AskedInTurn'
  <2>1. outcome' # "failed"
    BY <1>1 DEF IInv, Progress
  <2>2. WalkFollowsQueue' /\ LoopStaysInChannel'
    BY DEF IInv, AskedInTurn, WalkFollowsQueue, RetryOf, LoopStaysInChannel
  <2> QED BY <2>1, <2>2 DEF AskedInTurn, NobodySkipped, Asked
<1>4. Progress'
  BY <1>1 DEF IInv, Progress, Engaged
<1>5. Asked' = Asked /\ Queued' = Queued
  BY DEF Asked, Queued
<1>6. Pinned'
  BY <1>1, <1>5 DEF IInv, Pinned, FirstOfHop, Engaged, Serving
<1>7. Complete'
  <2> SUFFICES ASSUME cross PROVE Complete'
    BY DEF Complete
  <2>1. usable' \subseteq Queued' /\ usable' \cap cooling' = {}
    BY <1>5 DEF IInv, Complete
  <2>2. \A m \in 1..(hop' - 1) : queue'[m] \in usable' => queue'[m] \in Asked'
    BY <1>1, <1>5 DEF IInv, Complete
  <2>3. queue'[hop'] \in Asked'
    BY <1>1, <1>5 DEF IInv, Pinned
  <2> QED BY <2>1, <2>2, <2>3 DEF Complete
<1>8. Unpinned'
  BY <1>1, <1>5 DEF IInv, Unpinned, Serving
<1> QED BY <1>2, <1>3, <1>4, <1>6, <1>7, <1>8 DEF IInv, HeldAndPaidOnce

\* The request ends with an answer, a broken stream or a hangup.
LEMMA EndStep ==
    ASSUME IInv, TypeOK',
           at # "done", at' = "done", outcome' \in {"served", "broken", "gone"},
           open' = {}, pin' = None,
           UNCHANGED <<cross, queue, attempts>>,
           reserved' = reserved \/ (at = "reserving" /\ reserved' = reserved + 1),
           usable' \subseteq usable, usable' \cap cooling' \subseteq usable \cap cooling
    PROVE  IInv'
<1>1. SlotsReturned'
  BY DEF SlotsReturned
<1>2. QuotaOnce'
  BY DEF IInv, HeldAndPaidOnce, TypeOK, QuotaOnce, Progress, Hopping, Queued
<1>3. AskedInTurn'
  BY DEF IInv, AskedInTurn, WalkFollowsQueue, RetryOf, LoopStaysInChannel, NobodySkipped, Asked
<1>4. ~Hopping' /\ ~Serving' /\ ~Engaged'
  BY DEF Hopping, Serving, Engaged
<1>5. Progress' /\ Pinned'
  BY <1>4 DEF Progress, Pinned
<1>7. Unpinned'
  BY <1>4 DEF IInv, Unpinned, Asked
<1>6. Complete'
  <2>1. Queued' = Queued
    BY DEF Queued
  <2> QED BY <1>4, <2>1 DEF IInv, Complete
<1> QED BY <1>1, <1>2, <1>3, <1>5, <1>6, <1>7 DEF IInv, HeldAndPaidOnce

\* Blame cools an account down and takes it off the watched ones.
LEMMA BlamedTypes ==
    ASSUME TypeOK, NEW a \in Accounts, Blamed(a)
    PROVE  /\ status' \in [Accounts -> Statuses]
           /\ cooling' \subseteq Accounts /\ usable' \subseteq usable
           /\ usable' \cap cooling' \subseteq usable \cap cooling
BY DEF TypeOK, Blamed, Statuses

\* Praise only ends a cooldown.
LEMMA PraisedTypes ==
    ASSUME TypeOK, NEW a \in Accounts, Praised(a)
    PROVE  /\ status' \in [Accounts -> Statuses] /\ usable' = usable
           /\ cooling' \subseteq Accounts
           /\ usable' \cap cooling' \subseteq usable \cap cooling
BY DEF TypeOK, Praised

\* What the provider does with a picked account until the hop is over.
LEMMA SendInv == ASSUME IInv, Send PROVE IInv'
<1> USE DEF Engaged, Serving, Hopping
<1>1. TypeOK /\ SlotsReturned /\ Progress
  BY DEF IInv, HeldAndPaidOnce
<1>2. at \in {"headers", "slot", "posted", "peeked"} => account \in Accounts
  BY <1>1 DEF Progress
<1>3. ASSUME HeadersValid PROVE IInv'
  <2>1. TypeOK' /\ SlotsReturned'
    BY <1>1, <1>3 DEF HeadersValid, pool, request, guard, walk, loop, TypeOK, SlotsReturned, Points
  <2> QED BY <1>1, <1>3, <2>1, HopStep
          DEF HeadersValid, pool, request, guard, walk, loop, Progress
<1>4. ASSUME HeadersInvalid PROVE IInv'
  <2>1. Blamed(account) /\ account \in Accounts
    BY <1>2, <1>4 DEF HeadersInvalid
  <2>2. TypeOK' /\ SlotsReturned'
    BY <1>1, <1>4, <2>1, BlamedTypes
       DEF HeadersInvalid, request, guard, walk, TypeOK, SlotsReturned, Points
  <2> QED BY <1>1, <1>4, <2>1, <2>2, BlamedTypes, HopStep
          DEF HeadersInvalid, request, guard, walk, Progress
<1>5. ASSUME SlotGranted PROVE IInv'
  <2>1. TypeOK' /\ SlotsReturned'
    BY <1>1, <1>2, <1>5 DEF SlotGranted, pool, request, guard, walk, loop, TypeOK, SlotsReturned, Points
  <2> QED BY <1>1, <1>5, <2>1, HopStep
          DEF SlotGranted, pool, request, guard, walk, loop, Progress
<1>6. ASSUME SlotRefused PROVE IInv'
  <2>1. TypeOK' /\ SlotsReturned'
    BY <1>1, <1>6 DEF SlotRefused, pool, request, guard, walk, loop, TypeOK, SlotsReturned, Points
  <2> QED BY <1>1, <1>6, <2>1, HopStep
          DEF SlotRefused, pool, request, guard, walk, loop, Progress
<1>7. ASSUME UpstreamStops PROVE IInv'
  <2>1. /\ status' \in [Accounts -> Statuses] /\ cooling' \subseteq Accounts
        /\ usable' \subseteq usable /\ usable' \cap cooling' \subseteq usable \cap cooling
    BY <1>1, <1>2, <1>7, BlamedTypes DEF UpstreamStops, pool, TypeOK
  <2>2. TypeOK' /\ SlotsReturned'
    BY <1>1, <1>7, <2>1
       DEF UpstreamStops, Refused, MayReadRefused, request, guard, walk, loop, TypeOK, SlotsReturned, Points
  <2> QED BY <1>1, <1>7, <2>1, <2>2, HopStep
          DEF UpstreamStops, request, guard, walk, loop, Progress
<1>8. ASSUME UpstreamFails PROVE IInv'
  <2>1. Blamed(account) /\ account \in Accounts
    BY <1>2, <1>8 DEF UpstreamFails
  <2>4. refused' \in BOOLEAN
    BY <1>8, Zenon DEF UpstreamFails, MayReadRefused
  <2>2. attempt' \in Nat /\ open' \subseteq open
        /\ verdict' = "failure" /\ at' \in {"picking", "failed"}
        /\ (at' = "picking" => open' = {})
    BY <1>1, <1>8 DEF UpstreamFails, Refused, TypeOK
  <2>3. TypeOK' /\ SlotsReturned'
    BY <1>1, <1>8, <2>1, <2>2, <2>4, BlamedTypes
       DEF UpstreamFails, request, guard, walk, TypeOK, SlotsReturned, Points
  <2> QED BY <1>1, <1>8, <2>1, <2>2, <2>3, BlamedTypes, HopStep
          DEF UpstreamFails, request, guard, walk, Progress
<1>9. ASSUME Broken PROVE IInv'
  <2>1. TypeOK' /\ SlotsReturned'
    BY <1>1, <1>9 DEF Broken, pool, request, guard, walk, loop, TypeOK, SlotsReturned, Points
  <2> QED BY <1>1, <1>9, <2>1, HopStep
          DEF Broken, pool, request, guard, walk, loop, Progress
<1>10. ASSUME AnswerWhole PROVE IInv'
  <2>1. Praised(account) /\ account \in Accounts
    BY <1>2, <1>10 DEF AnswerWhole
  <2>2. TypeOK'
    BY <1>1, <1>10, <2>1, PraisedTypes DEF AnswerWhole, End, request, guard, walk, loop, TypeOK, Points
  <2> QED BY <1>10, <2>1, <2>2, <1>1, PraisedTypes, EndStep
          DEF AnswerWhole, End, request, guard, walk, loop
<1>11. ASSUME ToolStall PROVE IInv'
  <2>1. TypeOK' /\ SlotsReturned'
    BY <1>1, <1>11 DEF ToolStall, pool, request, guard, walk, TypeOK, SlotsReturned, Points
  <2> QED BY <1>1, <1>11, <2>1, HopStep DEF ToolStall, pool, request, guard, walk, Progress
<1>12. ASSUME StallFails \/ AnswerBuffered PROVE IInv'
  <2>1. Praised(account) /\ account \in Accounts
    BY <1>2, <1>12 DEF StallFails, AnswerBuffered
  <2>2. TypeOK' /\ SlotsReturned'
    BY <1>1, <1>12, <2>1, PraisedTypes
       DEF StallFails, AnswerBuffered, request, guard, walk, loop, TypeOK, SlotsReturned, Points
  <2> QED BY <1>1, <1>12, <2>1, <2>2, PraisedTypes, HopStep
          DEF StallFails, AnswerBuffered, request, guard, walk, loop, Progress
<1>13. ASSUME SendBuffered PROVE IInv'
  <2>1. TypeOK' /\ open = {}
    BY <1>1, <1>13
       DEF SendBuffered, End, pool, request, guard, walk, loop, TypeOK, SlotsReturned, Points
  <2> QED BY <1>13, <2>1, EndStep DEF SendBuffered, End, pool, request, guard, walk, loop
<1>14. ASSUME FirstChunk \/ StartSending PROVE IInv'
  <2>1. TypeOK' /\ SlotsReturned'
    BY <1>1, <1>14 DEF FirstChunk, StartSending, pool, request, guard, walk, loop, TypeOK,
                       SlotsReturned, Points
  <2> QED BY <1>1, <1>14, <2>1, HopStep
          DEF FirstChunk, StartSending, pool, request, guard, walk, loop, Progress
<1> QED BY <1>3, <1>4, <1>5, <1>6, <1>7, <1>8, <1>9, <1>10, <1>11, <1>12, <1>13, <1>14 DEF Send

\* A stream that was being sent ends, or the client goes.
LEMMA LeaveInv == ASSUME IInv, StreamEnds \/ StreamBreaks \/ Hangup PROVE IInv'
<1>1. TypeOK /\ Progress
  BY DEF IInv, HeldAndPaidOnce
<1>2. ASSUME StreamEnds \/ StreamBreaks PROVE IInv'
  <2>1. account \in Accounts /\ (Praised(account) \/ Blamed(account))
    BY <1>1, <1>2 DEF StreamEnds, StreamBreaks, Progress, Engaged, Serving, Hopping
  <2>2. /\ status' \in [Accounts -> Statuses] /\ cooling' \subseteq Accounts
        /\ usable' \subseteq usable /\ usable' \cap cooling' \subseteq usable \cap cooling
    BY <1>1, <2>1, PraisedTypes, BlamedTypes
  <2>3. TypeOK'
    BY <1>1, <1>2, <2>2 DEF StreamEnds, StreamBreaks, End, request, guard, walk, loop, TypeOK, Points
  <2> QED BY <1>2, <2>2, <2>3, EndStep DEF StreamEnds, StreamBreaks, End, request, guard, walk, loop
<1>3. ASSUME Hangup PROVE IInv'
  <2>1. reserved' = reserved \/ (at = "reserving" /\ reserved' = reserved + 1)
    BY <1>3 DEF Hangup
  <2>2. TypeOK'
    BY <1>1, <1>3, <2>1 DEF Hangup, End, pool, request, guard, loop, TypeOK, Points
  <2> QED BY <1>3, <2>1, <2>2, EndStep DEF Hangup, End, pool, request, guard, loop
<1> QED BY <1>2, <1>3

----------------------------------------------------------------------------
(* Before the first hop                                                    *)

\* Whatever the pool is, its queue is a sequence of accounts that do not cool
\* down.
LEMMA QueueTaken ==
    ASSUME Queue
    PROVE  /\ queue' \in Seq(Accounts)
           /\ usable' = Watched(queue')
           /\ \A i \in DOMAIN queue' : queue'[i] \in Accounts \ cooling
<1>1. PICK q \in Lists : AccountQueue(q) /\ queue' = q /\ usable' = Watched(q)
  BY DEF Queue
<1>2. q \in Seq(Accounts)
  BY <1>1 DEF Lists
<1>3. \A i \in DOMAIN q : q[i] \in Accounts \ cooling
  <2> SUFFICES ASSUME NEW i \in DOMAIN q PROVE q[i] \in Accounts \ cooling
    OBVIOUS
  <2>1. PICK m \in DOMAIN Order : q[i] = Order[m] /\ Usable(Order[m])
    BY <1>1 DEF AccountQueue
  <2>2. Order[m] \in Accounts
    BY DispatchAssumption
  <2> QED BY <2>1, <2>2 DEF Usable
<1> QED BY <1>1, <1>2, <1>3

\* A request that has tried no account has nothing to answer for.
LEMMA StartStep ==
    ASSUME IInv, TypeOK', ~Hopping, at # "done",
           at' \in {"recovering", "reserving", "walking", "done"},
           UNCHANGED <<cross, hop, pin, open, verdict, sent, attempts>>,
           at' # "done" <=> outcome' = "none",
           outcome' # "failed",
           at' \in {"reserving", "walking"} => queue' # <<>>,
           reserved' = IF at' = "walking" THEN 1 ELSE 0,
           cross => usable' \subseteq Queued' /\ usable' \cap cooling' = {}
    PROVE  IInv'
<1>1. /\ attempts = <<>> /\ hop = 1 /\ open = {} /\ ~sent
      /\ ~cross => verdict # "stop" /\ pin = None
  BY DEF IInv, Progress, Unpinned, HeldAndPaidOnce, SlotsReturned, Hopping, Serving, Engaged
<1>2. DOMAIN attempts' = {} /\ Asked' = {}
  BY <1>1 DEF Asked
<1>3. HeldAndPaidOnce'
  BY <1>1 DEF HeldAndPaidOnce, SlotsReturned, QuotaOnce
<1>4. AskedInTurn'
  BY <1>2 DEF AskedInTurn, WalkFollowsQueue, RetryOf, LoopStaysInChannel, NobodySkipped, Asked
<1>5. ~Serving' /\ ~Engaged' /\ (Hopping' <=> at' = "walking")
  BY DEF Hopping, Serving, Engaged
<1>6. at' = "walking" => hop' \in DOMAIN queue'
  <2>1. queue' \in Seq(Accounts)
    BY DEF TypeOK
  <2>2. queue' # <<>> => Len(queue') \in Nat /\ Len(queue') # 0 /\ DOMAIN queue' = 1..Len(queue')
    BY <2>1, EmptySeq, LenProperties
  <2> QED BY <1>1, <2>2
<1>7. Progress'
  BY <1>1, <1>5, <1>6 DEF Progress
<1>8. Pinned' /\ Unpinned'
  BY <1>1, <1>2, <1>5 DEF Pinned, Unpinned
<1>9. Complete'
  BY <1>1, <1>5 DEF Complete
<1> QED BY <1>3, <1>4, <1>7, <1>8, <1>9 DEF IInv

\* The request comes in, and its queue is taken once or twice.
LEMMA StartInv ==
    ASSUME IInv, Arrive \/ (\E c \in Channels : Recover(c)) \/ Requeue \/ Reserve
    PROVE  IInv'
<1>1. TypeOK /\ Progress /\ Complete
  BY DEF IInv, HeldAndPaidOnce
<1>3. ASSUME Arrive \/ Requeue PROVE IInv'
  <2>1. Queue /\ UNCHANGED <<cross, cooling>>
    BY <1>3 DEF Arrive, Requeue, pool, request, guard
  <2>2. /\ queue' \in Seq(Accounts) /\ usable' \subseteq Accounts
        /\ cross => usable' \subseteq Queued' /\ usable' \cap cooling' = {}
    BY <2>1, QueueTaken DEF Watched, Queued
  <2>3. TypeOK'
    BY <1>1, <1>3, <2>2 DEF Arrive, Requeue, End, pool, request, guard, loop, TypeOK, Points
  <2>4. ~Hopping /\ at # "done" /\ outcome = "none" /\ reserved = 0
    BY <1>1, <1>3 DEF Arrive, Requeue, Hopping, Progress
  <2> QED BY <1>3, <2>2, <2>3, <2>4, StartStep DEF Arrive, Requeue, End, pool, request, guard
<1>4. ASSUME NEW c \in Channels, Recover(c) PROVE IInv'
  <2>1. status' \in [Accounts -> Statuses] /\ swept' \subseteq Channels
    BY <1>1, <1>4 DEF Recover, TypeOK, Statuses
  <2>2. TypeOK'
    BY <1>1, <1>4, <2>1 DEF Recover, request, guard, loop, TypeOK
  <2>3. ~Hopping /\ at = "recovering" /\ outcome = "none" /\ reserved = 0
    BY <1>1, <1>4 DEF Recover, Hopping, Progress
  <2>4. cross' => usable' \subseteq Queued' /\ usable' \cap cooling' = {}
    BY <1>1, <1>4 DEF Recover, request, Complete, Queued
  <2> QED BY <1>4, <2>2, <2>3, <2>4, StartStep DEF Recover, request
<1>5. ASSUME Reserve PROVE IInv'
  <2>1. ~Hopping /\ at = "reserving" /\ outcome = "none" /\ reserved = 0 /\ queue # <<>>
    BY <1>1, <1>5 DEF Reserve, Hopping, Progress
  <2>2. TypeOK'
    BY <1>1, <1>5, <2>1 DEF Reserve, End, pool, request, guard, loop, TypeOK, Points
  <2>3. cross' => usable' \subseteq Queued' /\ usable' \cap cooling' = {}
    BY <1>1, <1>5 DEF Reserve, pool, request, Complete, Queued
  <2> QED BY <1>5, <2>1, <2>2, <2>3, StartStep DEF Reserve, End, pool, request, guard
<1> QED BY <1>3, <1>4, <1>5

----------------------------------------------------------------------------
(* From hop to hop                                                         *)

\* A hop begins with its account pinned and nobody tried; it may end there.
LEMMA StartHopInv == ASSUME IInv, StartHop PROVE IInv'
<1>1. /\ TypeOK /\ SlotsReturned /\ QuotaOnce /\ AskedInTurn
      /\ Progress /\ Pinned /\ Complete /\ Unpinned
  BY DEF IInv, HeldAndPaidOnce
<1>2. /\ at = "walking" /\ open = {} /\ tried' = {} /\ attempt' = 0
      /\ account' = None /\ again' = FALSE
      /\ pin' = (IF cross THEN queue[hop] ELSE None)
      /\ UNCHANGED <<cross, status, cooling, streams, queue, swept, reserved, hop, open,
                     refused, sent, outcome, attempts>>
      /\ \/ at' = "picking" /\ calls' = 1 /\ UNCHANGED <<verdict, usable>>
         \/ /\ at' = "failed" /\ verdict' = "local" /\ usable' = usable \ {queue[hop]}
            /\ UNCHANGED calls
  BY <1>1 DEF StartHop, FreshLoop, CallProvider, pool, request, walk, SlotsReturned
<1>3. Hopping /\ Hopping' /\ Serving' /\ ~Serving /\ ~Engaged
      /\ (Engaged' <=> at' = "failed")
  BY <1>2 DEF Hopping, Serving, Engaged
<1>4. hop \in DOMAIN queue /\ queue[hop] \in Accounts
  BY <1>1, <1>3, ElementOfSeq, LenProperties DEF Progress, TypeOK
<1>5. TypeOK'
  <2>1. pin' \in Accounts \cup {None}
    BY <1>2, <1>4
  <2> QED BY <1>1, <1>2, <2>1 DEF TypeOK, Points
<1>6. HeldAndPaidOnce'
  BY <1>1, <1>2, <1>5 DEF HeldAndPaidOnce, SlotsReturned, QuotaOnce, Queued
<1>7. AskedInTurn'
  BY <1>1, <1>2 DEF AskedInTurn, WalkFollowsQueue, RetryOf, LoopStaysInChannel,
                    NobodySkipped, Asked
<1>8. Progress'
  BY <1>1, <1>2, <1>3 DEF Progress
<1>9. Asked' = Asked /\ Queued' = Queued /\ usable' \subseteq usable
  BY <1>2 DEF Asked, Queued
<1>10. Pinned'
  BY <1>1, <1>2, <1>3 DEF Pinned
<1>11. Complete'
  BY <1>1, <1>2, <1>3, <1>9 DEF Complete
<1>12. Unpinned'
  BY <1>1, <1>2, <1>3, <1>9 DEF Unpinned, Asked
<1> QED BY <1>6, <1>7, <1>8, <1>10, <1>11, <1>12 DEF IInv

\* The guard calls the provider again: what was asked in this hop was asked by
\* the first call.
LEMMA RetryShorterInv == ASSUME IInv, RetryShorter PROVE IInv'
<1>1. /\ TypeOK /\ SlotsReturned /\ QuotaOnce /\ AskedInTurn
      /\ Progress /\ Pinned /\ Complete /\ Unpinned
  BY DEF IInv, HeldAndPaidOnce
<1>2. /\ at = "failed" /\ at' = "picking" /\ calls = 1 /\ calls' = 2 /\ refused
      /\ open' = {} /\ tried' = {} /\ attempt' = 0 /\ account' = None /\ again' = FALSE
      /\ UNCHANGED <<cross, status, cooling, streams, queue, swept, reserved, hop, pin,
                     verdict, refused, sent, outcome, attempts, usable>>
  BY DEF RetryShorter, CallProvider, FreshLoop, pool, request, walk
<1>3. Hopping /\ Serving /\ Engaged /\ Hopping' /\ Serving' /\ ~Engaged'
  BY <1>2 DEF Hopping, Serving, Engaged
<1>4. TypeOK'
  BY <1>1, <1>2 DEF TypeOK, Points
<1>5. Asked' = Asked /\ Queued' = Queued
  BY <1>2 DEF Asked, Queued
<1>6. HeldAndPaidOnce'
  BY <1>1, <1>2, <1>4, <1>5 DEF HeldAndPaidOnce, SlotsReturned, QuotaOnce
<1>7. AskedInTurn'
  BY <1>1, <1>2, <1>5 DEF AskedInTurn, WalkFollowsQueue, RetryOf, LoopStaysInChannel,
                          NobodySkipped, Progress
<1>8. \A i \in DOMAIN attempts : attempts[i].call \in {1, 2}
  <2> SUFFICES ASSUME NEW i \in DOMAIN attempts PROVE attempts[i].call \in {1, 2}
    OBVIOUS
  <2>1. attempts \in Seq(AttemptType)
    BY <1>1 DEF TypeOK
  <2>2. i \in 1..Len(attempts)
    BY <2>1, LenProperties
  <2>3. attempts[i] \in AttemptType
    BY <2>1, <2>2, ElementOfSeq
  <2> QED BY <2>3 DEF AttemptType
<1>9. ~cross => FirstOfRetry'
  BY <1>1, <1>2, <1>3, <1>8 DEF Unpinned, FirstOfRetry
<1>10. Progress'
  BY <1>1, <1>2, <1>3, <1>9 DEF Progress
<1>11. Pinned'
  BY <1>1, <1>2, <1>3 DEF Pinned, FirstOfHop
<1>12. Complete'
  BY <1>1, <1>2, <1>3, <1>5 DEF Complete
<1>13. Unpinned'
  BY <1>1, <1>2, <1>3, <1>5, <1>8 DEF Unpinned
<1> QED BY <1>6, <1>7, <1>10, <1>11, <1>12, <1>13 DEF IInv

\* A failed hop is left for the next account of the queue, or the request
\* fails at the end of the queue.
LEMMA NextHopInv == ASSUME IInv, NextHop PROVE IInv'
<1>1. /\ TypeOK /\ SlotsReturned /\ QuotaOnce /\ AskedInTurn
      /\ Progress /\ Pinned /\ Complete /\ Unpinned
  BY DEF IInv, HeldAndPaidOnce
<1>2. /\ at = "failed" /\ open' = {} /\ pin' = None /\ calls' = 0 /\ refused' = FALSE
      /\ UNCHANGED <<cross, status, cooling, streams, queue, swept, reserved, tried, attempt,
                     account, again, verdict, sent, attempts, usable>>
  BY DEF NextHop, pool, request, guard, loop
<1>3. Hopping /\ Serving /\ Engaged /\ ~sent /\ outcome = "none" /\ reserved = 1
  BY <1>1, <1>2 DEF Hopping, Serving, Engaged, Progress
<1>4. /\ queue \in Seq(Accounts) /\ Len(queue) \in Nat
      /\ DOMAIN queue = 1..Len(queue) /\ hop \in 1..Len(queue)
  BY <1>1, <1>3, LenProperties DEF TypeOK, Progress
<1>9. hop < Len(queue) \/ hop = Len(queue)
  <2>1. hop \in Int /\ hop <= Len(queue)
    BY <1>4
  <2>2. Len(queue) \in Int
    BY <1>4
  <2> QED BY <2>1, <2>2
<1>5. Asked' = Asked /\ Queued' = Queued
  BY <1>2 DEF Asked, Queued
<1>6. cross => \A m \in 1..hop : queue[m] \in usable => queue[m] \in Asked
  <2> SUFFICES ASSUME cross, NEW m \in 1..hop, queue[m] \in usable PROVE queue[m] \in Asked
    OBVIOUS
  <2>1. CASE m = hop
    BY <1>1, <1>2, <2>1 DEF Complete
  <2>2. CASE m # hop
    <3>1. m \in 1..(hop - 1)
      BY <1>4, <2>2
    <3> QED BY <1>1, <1>3, <3>1 DEF Complete
  <2> QED BY <2>1, <2>2
<1>7. CASE cross /\ hop < Len(queue)
  <2>1. hop' = hop + 1 /\ at' = "walking" /\ outcome' = outcome /\ hop' \in DOMAIN queue
    BY <1>4, <1>7 DEF NextHop
  <2>2. ~Serving' /\ ~Engaged' /\ Hopping'
    BY <2>1 DEF Serving, Engaged, Hopping
  <2>3. TypeOK'
    <3>1. hop' \in Nat \ {0}
      BY <1>1, <2>1 DEF TypeOK
    <3> QED BY <1>1, <1>2, <2>1, <3>1 DEF TypeOK, Points
  <2>4. HeldAndPaidOnce'
    BY <1>1, <1>2, <1>3, <1>5, <2>1, <2>3 DEF HeldAndPaidOnce, SlotsReturned, QuotaOnce
  <2>5. AskedInTurn'
    BY <1>1, <1>2, <2>1 DEF AskedInTurn, WalkFollowsQueue, RetryOf, LoopStaysInChannel, NobodySkipped, Asked
  <2>6. Progress'
    BY <1>2, <1>3, <1>7, <2>1, <2>2 DEF Progress
  <2>7. Pinned'
    <3> SUFFICES ASSUME NEW i \in DOMAIN attempts
                 PROVE  \E m \in DOMAIN queue : queue[m] = attempts[i].account /\ m < hop + 1
      BY <1>2, <1>4, <2>1, <2>2 DEF Pinned
    <3>1. PICK m \in DOMAIN queue : queue[m] = attempts[i].account /\ m <= hop
      BY <1>1, <1>3, <1>4, <1>7 DEF Pinned
    <3> QED BY <1>4, <3>1
  <2>8. Complete'
    <3>1. \A m \in 1..(hop' - 1) : queue[m] \in usable => queue[m] \in Asked
      BY <1>4, <1>6, <1>7, <2>1
    <3> QED BY <1>1, <1>2, <1>5, <1>7, <2>1, <3>1 DEF Complete
  <2>9. Unpinned'
    BY <1>2, <1>7 DEF Unpinned
  <2> QED BY <2>4, <2>5, <2>6, <2>7, <2>8, <2>9 DEF IInv
<1>8. CASE ~(cross /\ hop < Len(queue))
  <2>1. hop' = hop /\ at' = "done" /\ outcome' = "failed"
    BY <1>8 DEF NextHop, End
  <2>2. ~Serving' /\ ~Engaged' /\ ~Hopping'
    BY <2>1 DEF Serving, Engaged, Hopping
  <2>3. TypeOK'
    BY <1>1, <1>2, <2>1 DEF TypeOK, Points
  <2>4. HeldAndPaidOnce'
    BY <1>1, <1>2, <1>3, <1>5, <2>1, <2>3 DEF HeldAndPaidOnce, SlotsReturned, QuotaOnce
  <2>5. cross => usable \subseteq Asked
    <3> SUFFICES ASSUME cross, NEW a \in usable PROVE a \in Asked
      OBVIOUS
    <3>1. PICK m \in DOMAIN queue : a = queue[m]
      BY <1>1 DEF Complete, Queued
    <3>3. hop = Len(queue)
      BY <1>8, <1>9
    <3>4. m \in 1..hop
      BY <1>4, <3>1, <3>3
    <3> QED BY <1>6, <3>1, <3>4
  <2>6. AskedInTurn'
    BY <1>1, <1>2, <2>5 DEF AskedInTurn, WalkFollowsQueue, RetryOf, LoopStaysInChannel, NobodySkipped, Asked
  <2>7. Progress' /\ Pinned' /\ Unpinned'
    BY <1>1, <1>2, <1>5, <2>1, <2>2 DEF Progress, Pinned, Unpinned
  <2>8. Complete'
    BY <1>1, <1>2, <1>5, <2>1, <2>2 DEF Complete
  <2> QED BY <2>4, <2>6, <2>7, <2>8 DEF IInv
<1> QED BY <1>7, <1>8

----------------------------------------------------------------------------
(* Picking                                                                 *)

\* An account nobody tried in this hop is asked next.
LEMMA PickInv ==
    ASSUME IInv, NEW a \in Accounts, Pick(a) \/ PickRevived(a)
    PROVE  IInv'
<1>1. /\ TypeOK /\ SlotsReturned /\ QuotaOnce /\ AskedInTurn
      /\ Progress /\ Pinned /\ Complete /\ Unpinned
  BY DEF IInv, HeldAndPaidOnce
<1>2. /\ at = "picking" /\ at' = "headers" /\ open = {} /\ open' = {}
      /\ tried' = tried \cup {a} /\ account' = a
      /\ attempts' = Append(attempts, [account |-> a, call |-> calls])
      /\ UNCHANGED <<cross, streams, cooling, queue, swept, reserved, hop, pin, attempt,
                     again, verdict, sent, outcome, usable, calls, refused>>
  BY <1>1 DEF Pick, PickRevived, Picked, request, guard, walk, SlotsReturned
<1>3. Hopping /\ Serving /\ ~Engaged /\ Hopping' /\ Serving' /\ Engaged'
  BY <1>2 DEF Hopping, Serving, Engaged
<1>4. /\ queue \in Seq(Accounts) /\ Len(queue) \in Nat
      /\ DOMAIN queue = 1..Len(queue) /\ hop \in 1..Len(queue) /\ queue[hop] \in Accounts
  BY <1>1, <1>3, LenProperties, ElementOfSeq DEF TypeOK, Progress
<1>18. calls \in {1, 2}
  BY <1>1, <1>2, <1>3 DEF Progress, TypeOK
<1>5. /\ attempts \in Seq(AttemptType) /\ Len(attempts) \in Nat
      /\ DOMAIN attempts = 1..Len(attempts) /\ attempts' \in Seq(AttemptType)
      /\ DOMAIN attempts' = 1..(Len(attempts) + 1) /\ Len(attempts') = Len(attempts) + 1
      /\ \A i \in 1..Len(attempts) : attempts'[i] = attempts[i]
      /\ attempts'[Len(attempts) + 1] = [account |-> a, call |-> calls]
  <2>1. [account |-> a, call |-> calls] \in AttemptType
    BY <1>18 DEF AttemptType
  <2> QED BY <1>1, <1>2, <2>1, LenProperties, AppendProperties DEF TypeOK
<1>6. Asked' = Asked \cup {a} /\ Queued' = Queued
  <2>1. Queued' = Queued
    BY <1>2 DEF Queued
  <2>2. Asked' \subseteq Asked \cup {a}
    BY <1>5 DEF Asked
  <2>3. Asked \cup {a} \subseteq Asked'
    <3>1. Asked \subseteq Asked'
      BY <1>5 DEF Asked
    <3>2. a \in Asked'
      BY <1>5 DEF Asked
    <3> QED BY <3>1, <3>2
  <2> QED BY <2>1, <2>2, <2>3
<1>7. cross => a = pin /\ pin = queue[hop] /\ pin \notin tried /\ tried = {} /\ pin \notin cooling
  <2> SUFFICES ASSUME cross
               PROVE  a = pin /\ pin = queue[hop] /\ pin \notin tried /\ tried = {}
                      /\ pin \notin cooling
    OBVIOUS
  <2>1. pin = queue[hop] /\ tried \subseteq {pin}
    BY <1>1, <1>3 DEF Pinned
  <2>2. pin # None
    BY <2>1, <1>4, DispatchAssumption
  <2>3. a \in {pin} \ (tried \cup cooling)
    BY <2>2 DEF Pick, PickRevived, Candidates
  <2> QED BY <2>1, <2>3
<1>8. ~cross => a \notin tried /\ ChannelOf[a] = ChannelOf[queue[1]]
  BY <1>1 DEF Pick, PickRevived, Candidates, Unpinned
<1>9. TypeOK'
  <2>1. status' \in [Accounts -> Statuses]
    BY <1>1 DEF Pick, PickRevived, TypeOK, Statuses
  <2> QED BY <1>1, <1>2, <1>5, <2>1 DEF TypeOK, Points
<1>10. HeldAndPaidOnce'
  BY <1>1, <1>2, <1>3, <1>4, <1>6, <1>9
     DEF HeldAndPaidOnce, SlotsReturned, QuotaOnce, Progress, Queued
<1>11. WalkFollowsQueue'
  <2> SUFFICES ASSUME cross, NEW i \in DOMAIN attempts', NEW j \in DOMAIN attempts', i < j
               PROVE  \/ RetryOf(i, j)'
                      \/ \E m, n \in DOMAIN queue : /\ m < n
                                                    /\ queue[m] = attempts'[i].account
                                                    /\ queue[n] = attempts'[j].account
    BY <1>2 DEF WalkFollowsQueue
  <2>1. i \in DOMAIN attempts /\ attempts'[i] = attempts[i]
    BY <1>5
  <2>2. CASE j \in DOMAIN attempts
    BY <1>1, <1>5, <2>1, <2>2 DEF AskedInTurn, WalkFollowsQueue, RetryOf
  <2>3. CASE j = Len(attempts) + 1
    <3>1. PICK m \in DOMAIN queue :
             /\ queue[m] = attempts[i].account
             /\ m < hop \/ (m = hop /\ calls = 2 /\ FirstOfHop(i))
      BY <1>1, <1>3, <1>7, <1>18, <2>1 DEF Pinned
    <3>2. /\ attempts'[j].account = queue[hop] /\ attempts'[j].call = calls
          /\ hop \in DOMAIN queue
      BY <1>4, <1>5, <1>7, <2>3
    <3>3. CASE m < hop
      BY <2>1, <3>1, <3>2, <3>3
    <3>4. CASE m = hop /\ calls = 2 /\ FirstOfHop(i)
      BY <2>1, <2>3, <3>1, <3>2, <3>4 DEF RetryOf, FirstOfHop
    <3> QED BY <3>1, <3>3, <3>4
  <2> QED BY <1>5, <2>2, <2>3
<1>12. LoopStaysInChannel'
  <2> SUFFICES ASSUME ~cross, NEW i \in DOMAIN attempts', NEW j \in DOMAIN attempts'
               PROVE  /\ ChannelOf[attempts'[i].account] = ChannelOf[attempts'[j].account]
                      /\ attempts'[i] = attempts'[j] => i = j
                      /\ i < j => attempts'[i].call <= attempts'[j].call
    BY <1>2 DEF LoopStaysInChannel
  <2> DEFINE new == [account |-> a, call |-> calls]
  <2>1. \A k \in DOMAIN attempts :
           /\ attempts[k] # new /\ attempts[k].call <= calls
           /\ ChannelOf[attempts[k].account] = ChannelOf[a]
    <3> SUFFICES ASSUME NEW k \in DOMAIN attempts
                 PROVE  /\ attempts[k] # new /\ attempts[k].call <= calls
                        /\ ChannelOf[attempts[k].account] = ChannelOf[a]
      OBVIOUS
    <3>1. /\ attempts[k].call <= calls
          /\ attempts[k].call = calls => attempts[k].account \in tried
      BY <1>1, <1>3 DEF Unpinned
    <3>2. attempts[k] = new => attempts[k].call = calls /\ attempts[k].account = a
      OBVIOUS
    <3>3. attempts[k].account \in Asked
      BY DEF Asked
    <3>4. ChannelOf[attempts[k].account] = ChannelOf[queue[1]]
      BY <1>1, <3>3 DEF Unpinned
    <3> QED BY <1>8, <3>1, <3>2, <3>4
  <2>2. CASE i \in DOMAIN attempts /\ j \in DOMAIN attempts
    BY <1>1, <1>5, <2>2 DEF AskedInTurn, LoopStaysInChannel
  <2>3. CASE i \in DOMAIN attempts /\ j = Len(attempts) + 1
    BY <1>5, <2>1, <2>3
  <2>4. CASE i = Len(attempts) + 1 /\ j \in DOMAIN attempts
    BY <1>5, <2>1, <2>4
  <2>5. CASE i = Len(attempts) + 1 /\ j = Len(attempts) + 1
    BY <2>5
  <2> QED BY <1>5, <2>2, <2>3, <2>4, <2>5
<1>13. AskedInTurn'
  BY <1>1, <1>2, <1>11, <1>12 DEF AskedInTurn, NobodySkipped, Asked, Progress
<1>14. Progress'
  BY <1>1, <1>2, <1>3 DEF Progress
<1>15. Pinned'
  <2> SUFFICES ASSUME cross PROVE Pinned'
    BY <1>2 DEF Pinned
  <2>1. tried' = {pin'} /\ pin' = queue'[hop'] /\ tried' \subseteq Asked'
    BY <1>2, <1>6, <1>7
  <2>2. ASSUME NEW i \in DOMAIN attempts'
        PROVE  \E m \in DOMAIN queue :
                  /\ queue[m] = attempts'[i].account
                  /\ \/ m < hop
                     \/ m = hop /\ (calls = 1 => i = Len(attempts) + 1 /\ attempts'[i].call = 1)
    <3>1. CASE i \in DOMAIN attempts
      BY <1>1, <1>3, <1>5, <1>7, <3>1 DEF Pinned
    <3>2. CASE i = Len(attempts) + 1
      BY <1>4, <1>5, <1>7, <3>2
    <3> QED BY <1>5, <2>2, <3>1, <3>2
  <2> QED BY <1>2, <1>5, <2>1, <2>2 DEF Pinned, FirstOfHop
<1>16. Complete'
  BY <1>1, <1>2, <1>3, <1>6 DEF Complete
<1>17. Unpinned'
  <2> SUFFICES ASSUME ~cross PROVE Unpinned'
    BY <1>2 DEF Unpinned
  <2>1. ASSUME NEW i \in DOMAIN attempts'
        PROVE  /\ attempts'[i].call <= calls
               /\ attempts'[i].call = calls => attempts'[i].account \in tried'
    <3>1. CASE i \in DOMAIN attempts
      BY <1>1, <1>2, <1>3, <1>5, <3>1 DEF Unpinned
    <3>2. CASE i = Len(attempts) + 1
      BY <1>2, <1>5, <1>18, <3>2
    <3> QED BY <1>5, <2>1, <3>1, <3>2
  <2>2. \A b \in Asked' : ChannelOf[b] = ChannelOf[queue[1]]
    BY <1>1, <1>6, <1>8 DEF Unpinned
  <2> QED BY <1>1, <1>2, <1>3, <2>1, <2>2 DEF Unpinned
<1> QED BY <1>10, <1>13, <1>14, <1>15, <1>16, <1>17 DEF IInv

\* Nobody is left to pick: with failover the account of the hop was tried or
\* has cooled down.
LEMMA PickNothingInv == ASSUME IInv, PickNothing PROVE IInv'
<1>1. /\ TypeOK /\ SlotsReturned /\ QuotaOnce /\ AskedInTurn
      /\ Progress /\ Pinned /\ Complete /\ Unpinned
  BY DEF IInv, HeldAndPaidOnce
<1>2. /\ at = "picking" /\ at' = "failed" /\ open = {}
      /\ UNCHANGED <<cross, status, cooling, streams, queue, swept, reserved, hop, pin, tried,
                     attempt, account, again, open, verdict, sent, outcome, attempts, usable,
                     calls, refused>>
  BY <1>1 DEF PickNothing, pool, request, guard, walk, loop, SlotsReturned
<1>3. Hopping /\ Serving /\ ~Engaged /\ Hopping' /\ Serving' /\ Engaged'
  BY <1>2 DEF Hopping, Serving, Engaged
<1>4. TypeOK'
  BY <1>1, <1>2 DEF TypeOK, Points
<1>5. Asked' = Asked /\ Queued' = Queued
  BY <1>2 DEF Asked, Queued
<1>6. HeldAndPaidOnce'
  BY <1>1, <1>2, <1>4, <1>5 DEF HeldAndPaidOnce, SlotsReturned, QuotaOnce
<1>7. AskedInTurn'
  BY <1>1, <1>2 DEF AskedInTurn, WalkFollowsQueue, RetryOf, LoopStaysInChannel, NobodySkipped, Asked
<1>8. Progress' /\ Pinned' /\ Unpinned'
  <2>1. Progress'
    BY <1>1, <1>2, <1>3 DEF Progress
  <2>2. Pinned'
    BY <1>1, <1>2, <1>3, <1>5 DEF Pinned, FirstOfHop
  <2>3. Unpinned'
    BY <1>1, <1>2, <1>3, <1>5 DEF Unpinned
  <2> QED BY <2>1, <2>2, <2>3
<1>9. ASSUME cross, queue[hop] \in usable PROVE queue[hop] \in Asked
  <2>1. pin = queue[hop] /\ pin \notin cooling /\ tried \subseteq Asked
    BY <1>1, <1>3, <1>9 DEF Pinned, Complete
  <2>2. pin # None
    <3>1. queue[hop] \in Accounts
      BY <1>1, <1>3, ElementOfSeq, LenProperties DEF TypeOK, Progress
    <3> QED BY <2>1, <3>1, DispatchAssumption
  <2>3. CASE Candidates = {}
    BY <2>1, <2>2, <2>3 DEF Candidates
  <2>4. CASE attempt >= Cap
    <3>1. attempt > 0
      BY <1>1, <2>4, DispatchAssumption DEF TypeOK
    <3> QED BY <1>1, <1>3, <1>9, <2>1, <3>1 DEF Pinned
  <2> QED BY <2>3, <2>4 DEF PickNothing
<1>10. Complete'
  BY <1>1, <1>2, <1>3, <1>5, <1>9 DEF Complete
<1> QED BY <1>6, <1>7, <1>8, <1>10 DEF IInv

----------------------------------------------------------------------------
(* The surroundings, and the theorems                                      *)

\* A pool that changes under the request leaves it as it is.
LEMMA AsideStep ==
    ASSUME IInv, TypeOK',
           UNCHANGED <<request, guard, at, walk, pin, loop, open, verdict, sent, outcome,
                       attempts>>,
           usable' \subseteq usable, usable' \cap cooling' \subseteq usable \cap cooling
    PROVE  IInv'
<1> USE DEF request, guard, walk, loop, FirstOfHop, FirstOfRetry
<1>1. Asked' = Asked /\ Queued' = Queued /\ Hopping' = Hopping /\ Serving' = Serving
      /\ Engaged' = Engaged
  BY DEF Asked, Queued, Hopping, Serving, Engaged
<1>2. HeldAndPaidOnce'
  BY <1>1 DEF IInv, HeldAndPaidOnce, SlotsReturned, QuotaOnce
<1>3. AskedInTurn'
  BY DEF IInv, AskedInTurn, WalkFollowsQueue, RetryOf, LoopStaysInChannel, NobodySkipped, Asked
<1>4. Progress' /\ Pinned' /\ Unpinned'
  BY <1>1 DEF IInv, Progress, Pinned, Unpinned
<1>5. Complete'
  BY <1>1 DEF IInv, Complete
<1> QED BY <1>2, <1>3, <1>4, <1>5 DEF IInv

\* Accounts fail, recover and are switched on and off by others.
LEMMA SurroundingsInv == ASSUME IInv, Surroundings PROVE IInv'
<1>1. TypeOK
  BY DEF IInv, HeldAndPaidOnce
<1>2. ASSUME NEW a \in Accounts, CooldownChanges(a) PROVE IInv'
  <2>1. /\ cooling' \subseteq Accounts
        /\ usable' \subseteq usable /\ usable' \cap cooling' \subseteq usable \cap cooling
    BY <1>1, <1>2 DEF CooldownChanges, TypeOK
  <2>2. TypeOK'
    BY <1>1, <1>2, <2>1 DEF CooldownChanges, request, guard, walk, loop, TypeOK
  <2> QED BY <1>2, <2>1, <2>2, AsideStep DEF CooldownChanges
<1>3. ASSUME NEW a \in Accounts, NEW s \in Statuses, StatusChanges(a, s) PROVE IInv'
  <2>1. TypeOK'
    BY <1>1, <1>3 DEF StatusChanges, request, guard, walk, loop, TypeOK
  <2> QED BY <1>3, <2>1, AsideStep DEF StatusChanges
<1> QED BY <1>2, <1>3 DEF Surroundings

\* A request has done nothing before it comes in.
LEMMA InitInv == ASSUME Init PROVE IInv
<1>1. /\ at = "idle" /\ attempts = <<>> /\ DOMAIN attempts = {} /\ queue = <<>>
      /\ DOMAIN queue = {} /\ usable = {} /\ open = {} /\ reserved = 0 /\ hop = 1
      /\ pin = None /\ outcome = "none" /\ verdict = "none" /\ ~sent
  BY DEF Init
<1>2. TypeOK
  <2>1. queue \in Seq(Accounts) /\ attempts \in Seq(AttemptType)
    BY <1>1
  <2>2. reserved \in Nat /\ attempt \in Nat /\ hop \in Nat \ {0}
    BY DEF Init
  <2> QED BY <2>1, <2>2 DEF Init, TypeOK, Points
<1>3. HeldAndPaidOnce
  BY <1>1, <1>2 DEF HeldAndPaidOnce, SlotsReturned, QuotaOnce
<1>4. AskedInTurn
  BY <1>1 DEF AskedInTurn, WalkFollowsQueue, RetryOf, LoopStaysInChannel, NobodySkipped, Asked
<1>5. Progress /\ Pinned /\ Complete /\ Unpinned
  BY <1>1 DEF Progress, Pinned, Complete, Unpinned, Asked, Queued, Hopping, Serving, Engaged
<1> QED BY <1>3, <1>4, <1>5 DEF IInv

\* Every step keeps the invariant.
LEMMA NextInv == ASSUME IInv, [Next]_vars PROVE IInv'
<1>1. CASE UNCHANGED vars
  <2>1. TypeOK'
    BY <1>1 DEF vars, pool, request, guard, walk, loop, IInv, HeldAndPaidOnce, TypeOK
  <2> QED BY <1>1, <2>1, AsideStep DEF vars, pool
<1>2. CASE Serve
  BY <1>2, StartInv, StartHopInv, RetryShorterInv, NextHopInv, PickInv, PickNothingInv, SendInv DEF Serve
<1>3. CASE StreamEnds \/ StreamBreaks \/ Hangup
  BY <1>3, LeaveInv
<1>4. CASE Surroundings
  BY <1>4, SurroundingsInv
<1> QED BY <1>1, <1>2, <1>3, <1>4 DEF Next, Finished

\* The inductive invariant holds throughout.
THEOREM Invariant == Spec => []IInv
BY InitInv, NextInv, PTL DEF Spec

\* Whatever way a request takes through hops, refusals, stalls and hangups, it
\* holds at most the slot of the account it is served by, holds none while it
\* looks for another one or after its end, and is paid for once
\* (_walk_account_queue, ClosingStream, _reserve_client_quota).
THEOREM RequestHoldsAndPaysOnce == Spec => []HeldAndPaidOnce
<1>1. IInv => HeldAndPaidOnce
  BY DEF IInv
<1> QED BY Invariant, <1>1, PTL

\* The accounts are asked in the order of the queue, none twice but by the
\* context guard's one retry, which asks the account of the hop again at once; a
\* provider left to itself stays in its channel and asks none twice in a call;
\* and a request fails only after every account that was queued, never cooled
\* down and was not over its channel's budget was tried (account_queue,
\* pinned_for, pick_account_with_fallback, dispatch_with_context_policy).
THEOREM AccountsAreAskedInTurn == Spec => []AskedInTurn
<1>1. IInv => AskedInTurn
  BY DEF IInv
<1> QED BY Invariant, <1>1, PTL

\* After the first output no account is tried and no slot taken any more.  And
\* without failover a request asks nobody any more after a refusal that another
\* account cannot cure, but by the guard's one retry, in its first attempt and
\* only if the refusal was one of the context.
THEOREM OutputIsFinal == Spec => NoFurtherAccount
<1>1. ASSUME IInv, [Next]_vars
      PROVE  [/\ sent => attempts' = attempts /\ open' \subseteq open
              /\ verdict = "stop" /\ ~cross /\ ~FirstOfRetry => attempts' = attempts]_vars
  <2> SUFFICES ASSUME Next
               PROVE  /\ sent => attempts' = attempts /\ open' \subseteq open
                      /\ verdict = "stop" /\ ~cross /\ ~FirstOfRetry => attempts' = attempts
    BY <1>1
  <2>1. attempts' = attempts \/ at = "picking"
    BY DEF Next, Serve, Send, Arrive, Recover, Requeue, Reserve, StartHop, RetryShorter, NextHop, Pick,
           PickRevived, PickNothing, HeadersValid, HeadersInvalid, SlotGranted, SlotRefused,
           UpstreamStops, UpstreamFails, Broken, AnswerWhole, ToolStall, AnswerBuffered,
           SendBuffered, StallFails, FirstChunk, StartSending, StreamEnds, StreamBreaks,
           Hangup, Surroundings, StatusChanges, CooldownChanges, Finished, vars
  <2>2. open' \subseteq open \/ at = "slot"
    BY DEF Next, Serve, Send, Arrive, Recover, Requeue, Reserve, StartHop, RetryShorter, NextHop, Pick,
           PickRevived, PickNothing, Picked, HeadersValid, HeadersInvalid, SlotGranted,
           SlotRefused, UpstreamStops, UpstreamFails, Refused, Broken, AnswerWhole,
           ToolStall, AnswerBuffered, SendBuffered, StallFails, FirstChunk, StartSending,
           StreamEnds, StreamBreaks, Hangup, Surroundings, StatusChanges, CooldownChanges,
           Finished, vars
  <2>3. /\ sent => at \in {"streaming", "done"}
        /\ verdict = "stop" /\ ~cross /\ ~FirstOfRetry => at # "picking"
    BY <1>1 DEF IInv, Progress, Engaged
  <2> QED BY <2>1, <2>2, <2>3
<1> QED BY Invariant, <1>1, PTL DEF Spec, NoFurtherAccount
=============================================================================
