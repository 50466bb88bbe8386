------------------------------ MODULE Dispatch ------------------------------
(***************************************************************************)
(* One chat request from admission to its last byte: router.chat_after_name*)
(* builds the account queue, reserves the key's quota, and walks the queue *)
(* (router._walk_account_queue); inside a hop the WorkBuddy provider runs  *)
(* its own pick/refresh/send loop (proxy._json_chat_with_stall_retry and   *)
(* proxy._stream_upstream).  Between the two stands the context guard      *)
(* (context_budget.dispatch_with_context_policy): it may refuse a hop      *)
(* before the provider is called, and after a refusal of the context it    *)
(* calls the provider once more in the same hop, with a shorter request.   *)
(* What the guard does to the payload and to a stream is ContextRecovery.  *)
(*                                                                         *)
(* One request suffices: requests meet only in the status and the cooldown *)
(* of accounts and in the slots of rate_limiter, and those may change      *)
(* under this request at every await (actions of the surroundings).  To    *)
(* the request an inactive account, or one whose balance is known to be    *)
(* used up, is like an expired login whose renewal fails: there is one     *)
(* status, "expired", for all three.                                       *)
(***************************************************************************)
EXTENDS Integers, Sequences, FiniteSets

CONSTANTS
    Accounts,
    ChannelOf,      \* [Accounts -> channels]
    Order,          \* the routing order of all accounts that know the model
    Failover,       \* the values of BUDDY_CROSS_CHANNEL_FAILOVER to consider
    Cap,            \* _failover_cap()
    None            \* no account

ASSUME DispatchAssumption ==
    /\ Failover \subseteq BOOLEAN
    /\ Cap \in Nat \ {0}
    /\ Order \in Seq(Accounts)
    /\ \A i, j \in DOMAIN Order : Order[i] = Order[j] => i = j
    /\ None \notin Accounts

VARIABLES
    cross,      \* cross-channel failover is on
    status,     \* accounts.status
    cooling,    \* accounts account_is_cooling_down reports
    streams,    \* the client asked for a stream
    at,         \* where the request is
    queue,      \* account_queue, taken once
    swept,      \* channels whose expired accounts were given a refresh
    reserved,   \* daily reservations made for this request
    hop,        \* index of the hop in the queue
    pin,        \* auth_manager._pinned_account
    tried,      \* tried_ids of the provider's loop
    attempt,    \* its attempt counter
    account,    \* its current account
    again,      \* the second call after a tool stall is under way
    open,       \* accounts whose slot and upstream response are held
    verdict,    \* the last failure: none, stop, failure, local
    sent,       \* the client has received output
    outcome,    \* how the request ended
    calls,      \* calls of the provider in this hop
    refused,    \* the failure the provider reports reads as a refusal of the
                \*   context (is_context_rejection)
    attempts,   \* history: accounts the request was tried on, in order, with
                \*   the call of their hop
    usable      \* history: accounts queued, not cooling ever since and not over
                \*   their budget at their hop; kept where the walk is over the queue

request == <<cross, streams>>
pool == <<status, cooling>>
walk == <<queue, swept, reserved, hop>>
loop == <<tried, attempt, account, again>>
guard == <<calls, refused>>
vars == <<pool, request, at, walk, pin, loop, open, verdict, sent, outcome,
          attempts, usable, guard>>

Channels == {ChannelOf[a] : a \in Accounts}
Statuses == {"active", "expired"}
Points == {"idle", "recovering", "reserving", "walking", "picking", "headers",
           "slot", "posted", "failed", "peeked", "buffered", "streaming", "done"}

Usable(a) == status[a] = "active" /\ a \notin cooling

\* account_queue: who passes the gates, each once, in the one global order.
Lists == UNION {[1..n -> Accounts] : n \in 0..Len(Order)}
AccountQueue(q) ==
    /\ {q[i] : i \in DOMAIN q} = {Order[n] : n \in {m \in DOMAIN Order : Usable(Order[m])}}
    /\ \A i, j \in DOMAIN q :
          i < j => \E m, n \in DOMAIN Order : m < n /\ Order[m] = q[i] /\ Order[n] = q[j]
Queued == {queue[i] : i \in DOMAIN queue}
Watched(q) == IF cross THEN {q[i] : i \in DOMAIN q} ELSE {}

Init ==
    /\ cross \in Failover
    /\ status \in [Accounts -> Statuses]
    /\ cooling \in SUBSET Accounts
    /\ streams \in BOOLEAN
    /\ at = "idle"
    /\ queue = <<>> /\ swept = {} /\ reserved = 0 /\ hop = 1
    /\ pin = None
    /\ tried = {} /\ attempt = 0 /\ account = None /\ again = FALSE
    /\ open = {}
    /\ verdict = "none" /\ sent = FALSE /\ outcome = "none"
    /\ calls = 0 /\ refused = FALSE
    /\ attempts = <<>> /\ usable = {}

End(how) == at' = "done" /\ outcome' = how

----------------------------------------------------------------------------
(* router.chat_after_name                                                  *)

\* The queue is taken of the pool as it is now.
Queue == \E q \in Lists :
            AccountQueue(q) /\ queue' = q /\ usable' = Watched(q)

\* _request_queue: the queue as the pool is now, or first the recovery path.
Arrive ==
    /\ at = "idle"
    /\ Queue
    /\ at' = IF queue' = <<>> THEN "recovering" ELSE "reserving"
    /\ UNCHANGED <<pool, request, swept, reserved, hop, pin, loop, open, verdict,
                   sent, outcome, attempts, guard>>

\* The provider of one channel tries its expired accounts until one renews.
Recover(c) ==
    /\ at = "recovering" /\ c \notin swept
    /\ swept' = swept \cup {c}
    /\ \/ UNCHANGED status
       \/ \E a \in Accounts :
             /\ ChannelOf[a] = c /\ status[a] = "expired"
             /\ \A b \in Accounts : ChannelOf[b] = c => ~Usable(b)
             /\ status' = [status EXCEPT ![a] = "active"]
    /\ UNCHANGED <<cooling, request, at, queue, reserved, hop, pin, loop, open,
                   verdict, sent, outcome, attempts, usable, guard>>

\* Mutant: an empty pool is asked again until somebody turns up.
RequeueForever ==
    /\ at = "recovering" /\ swept = Channels
    /\ Queue
    /\ IF queue' = <<>> THEN swept' = {} /\ UNCHANGED at
       ELSE at' = "reserving" /\ UNCHANGED swept
    /\ UNCHANGED <<pool, request, reserved, hop, pin, loop, open, verdict,
                   sent, outcome, attempts, guard>>

\* Second and last look at the pool; still empty: 503, nothing counted.
Requeue ==
    /\ at = "recovering" /\ swept = Channels
    /\ Queue
    /\ IF queue' = <<>> THEN End("unavailable")
       ELSE at' = "reserving" /\ UNCHANGED outcome
    /\ UNCHANGED <<pool, request, swept, reserved, hop, pin, loop, open, verdict,
                   sent, attempts, guard>>

\* after_queue: the reservation, or 429.
Reserve ==
    /\ at = "reserving"
    /\ \/ reserved' = reserved + 1 /\ at' = "walking" /\ UNCHANGED outcome
       \/ End("overLimit") /\ UNCHANGED reserved
    /\ UNCHANGED <<pool, request, queue, swept, hop, pin, loop, open, verdict, sent,
                   attempts, usable, guard>>

\* The provider's loop has not begun.
FreshLoop == tried' = {} /\ attempt' = 0 /\ account' = None /\ again' = FALSE

\* The provider is called, for the nth time in this hop.
CallProvider(n) == at' = "picking" /\ calls' = n

\* A hop pins its account; without cross-channel failover the provider of the
\* first channel owns the request and picks freely.  A request that is over the
\* channel's budget even when trimmed (still_over) is refused on the spot, and
\* the provider is not called.
StartHop ==
    /\ at = "walking"
    /\ pin' = IF cross THEN queue[hop] ELSE None
    /\ FreshLoop
    /\ \/ CallProvider(1) /\ UNCHANGED <<verdict, usable>>
       \/ /\ at' = "failed" /\ verdict' = "local" /\ usable' = usable \ {queue[hop]}
          /\ UNCHANGED calls
    /\ UNCHANGED <<pool, request, walk, open, refused, sent, outcome, attempts>>

\* The guard's one retry: after a refusal of the context the provider is called
\* again with a shorter request, under the same pin and with the refused stream
\* closed.  (A request that cannot be shortened stays failed.)
RetryShorter ==
    /\ at = "failed" /\ refused /\ calls = 1
    /\ CallProvider(2) /\ FreshLoop
    /\ open' = {}
    /\ UNCHANGED <<pool, request, walk, pin, verdict, refused, sent, outcome, attempts,
                   usable>>

\* Mutant: the peeked stream of a failed hop is left open.
NextHopUnclosed ==
    /\ at = "failed"
    /\ pin' = None /\ calls' = 0 /\ refused' = FALSE
    /\ IF cross /\ hop < Len(queue)
       THEN hop' = hop + 1 /\ at' = "walking" /\ UNCHANGED outcome
       ELSE End("failed") /\ UNCHANGED hop
    /\ UNCHANGED <<pool, request, queue, swept, reserved, loop, open, verdict, sent,
                   attempts, usable>>

\* The result of a hop is an error, or a stream whose first event is one: its
\* upstream is closed before the next account is tried.
NextHop ==
    /\ at = "failed"
    /\ open' = {}
    /\ pin' = None /\ calls' = 0 /\ refused' = FALSE
    /\ IF cross /\ hop < Len(queue)
       THEN hop' = hop + 1 /\ at' = "walking" /\ UNCHANGED outcome
       ELSE End("failed") /\ UNCHANGED hop
    /\ UNCHANGED <<pool, request, queue, swept, reserved, loop, verdict, sent,
                   attempts, usable>>

----------------------------------------------------------------------------
(* The provider's loop.                                                    *)

\* Mutant: the pin is gone when the lazy provider looks for it.
CandidatesUnpinned ==
    {a \in Accounts : ChannelOf[a] = ChannelOf[queue[hop]] /\ Usable(a)} \ tried

\* pick_account_with_fallback: under a pin that account or nothing.
Candidates ==
    IF pin # None THEN {pin} \ (tried \cup cooling)
    ELSE {a \in Accounts : ChannelOf[a] = ChannelOf[queue[1]] /\ Usable(a)} \ tried

Picked(a) ==
    /\ tried' = tried \cup {a}
    /\ account' = a
    /\ attempts' = Append(attempts, [account |-> a, call |-> calls])
    /\ at' = "headers"
    /\ UNCHANGED <<cooling, request, walk, pin, attempt, again, open, verdict, sent,
                   outcome, usable, guard>>

Pick(a) ==
    /\ at = "picking" /\ attempt < Cap
    /\ a \in Candidates
    /\ Picked(a)
    /\ UNCHANGED status

\* A free provider with nothing active left renews an expired account.
PickRevived(a) ==
    /\ at = "picking" /\ attempt < Cap
    /\ pin = None /\ Candidates = {}
    /\ status[a] = "expired" /\ ChannelOf[a] = ChannelOf[queue[1]] /\ a \notin tried
    /\ status' = [status EXCEPT ![a] = "active"]
    /\ Picked(a)

PickNothing ==
    /\ at = "picking"
    /\ attempt >= Cap \/ Candidates = {}
    /\ at' = "failed"
    /\ UNCHANGED <<pool, request, walk, pin, loop, open, verdict, sent, outcome,
                   attempts, usable, guard>>

\* mark_account_failure: a cooldown, and for 401 and 403 the status.
Blamed(a) ==
    /\ cooling' = cooling \cup {a}
    /\ usable' = usable \ {a}
    /\ \/ UNCHANGED status
       \/ status' = [status EXCEPT ![a] = "expired"]

HeadersValid ==
    /\ at = "headers"
    /\ at' = "slot"
    /\ UNCHANGED <<pool, request, walk, pin, loop, open, verdict, sent, outcome,
                   attempts, usable, guard>>

\* get_valid_headers is None: marked with 401.  A stream takes that for its
\* last error, a collected answer keeps the one before.
HeadersInvalid ==
    /\ at = "headers"
    /\ Blamed(account) /\ status'[account] = "expired"
    /\ attempt' = attempt + 1 /\ verdict' = "failure"
    /\ refused' = (refused /\ ~streams)
    /\ at' = "picking"
    /\ UNCHANGED <<request, walk, pin, tried, account, again, open, sent, outcome,
                   attempts, calls>>

SlotGranted ==
    /\ at = "slot"
    /\ open' = open \cup {account}
    /\ at' = "posted"
    /\ UNCHANGED <<pool, request, walk, pin, loop, verdict, sent, outcome, attempts,
                   usable, guard>>

\* RateLimitError ends the provider's call; the router makes it a 429.
SlotRefused ==
    /\ at = "slot"
    /\ verdict' = "local" /\ refused' = FALSE
    /\ at' = "failed"
    /\ UNCHANGED <<pool, request, walk, pin, loop, open, sent, outcome, attempts,
                   usable, calls>>

\* A refusal becomes an error value, the slot already free; but a streaming
\* provider yields the refusal of a status line as an event from inside its
\* `async with`, the slot still held.
Refused ==
    \/ open' = {}
    \/ streams /\ UNCHANGED open

\* Whether a failure reads as a refusal of the context is up to the upstream's
\* code and wording (11115 is one; the words looked for occur in other messages
\* too); after the guard's retry it makes no difference.
MayReadRefused == refused' \in {FALSE, calls = 1}

\* 400 and its like: an account rule says stop and spares the account, or no
\* rule applies and the account is marked all the same.
UpstreamStops ==
    /\ at = "posted" /\ ~again
    /\ \/ verdict' = "stop" /\ UNCHANGED <<pool, usable>>
       \/ verdict' = "failure" /\ Blamed(account)
    /\ Refused /\ MayReadRefused
    /\ at' = "failed"
    /\ UNCHANGED <<request, walk, pin, loop, sent, outcome, attempts, calls>>

\* A retryable status, a disconnect or a stream that ends too early.
UpstreamFails ==
    /\ at = "posted" /\ ~again
    /\ verdict' = "failure" /\ MayReadRefused
    /\ Blamed(account)
    /\ IF attempt < Cap - 1
       THEN attempt' = attempt + 1 /\ at' = "picking" /\ open' = {}
       ELSE at' = "failed" /\ Refused /\ UNCHANGED attempt
    /\ UNCHANGED <<request, walk, pin, tried, account, again, sent, outcome, attempts,
                   calls>>

\* An exception nobody in the provider expects; the hop is broken, and the
\* guard passes it on.
Broken ==
    /\ at = "posted"
    /\ verdict' = "failure" /\ refused' = FALSE
    /\ open' = {}
    /\ at' = "failed"
    /\ UNCHANGED <<pool, request, walk, pin, loop, sent, outcome, attempts, usable,
                   calls>>

\* mark_account_success
Praised(a) == cooling' = cooling \ {a} /\ UNCHANGED <<status, usable>>

AnswerWhole ==
    /\ at = "posted" /\ ~streams
    /\ Praised(account)
    /\ open' = {} /\ pin' = None /\ sent' = TRUE
    /\ End("served")
    /\ UNCHANGED <<request, walk, loop, verdict, attempts, guard>>

\* The collected answer looks like a tool stall: the same account is called
\* once more, and whatever that call brings the request is answered.
ToolStall ==
    /\ at = "posted" /\ ~again
    /\ again' = TRUE
    /\ open' = {}
    /\ at' = "slot"
    /\ UNCHANGED <<pool, request, walk, pin, tried, attempt, account, verdict, sent,
                   outcome, attempts, usable, guard>>

\* A stream with a tool loop is collected first, and events from the finish
\* reason on are withheld: the answer is complete before its first event.
AnswerBuffered ==
    /\ at = "posted" /\ streams
    /\ Praised(account)
    /\ open' = {}
    /\ at' = "buffered"
    /\ UNCHANGED <<request, walk, pin, loop, verdict, sent, outcome, attempts, guard>>

SendBuffered ==
    /\ at = "buffered"
    /\ pin' = None /\ sent' = TRUE
    /\ End("served")
    /\ UNCHANGED <<pool, request, walk, loop, open, verdict, attempts, usable, guard>>

\* A tool stall in a stream nothing has been sent of is reported as an error
\* event although the account did well (TOOL_STALL_FAIL_STREAM).
StallFails ==
    /\ at = "posted" /\ streams /\ ~again
    /\ Praised(account)
    /\ open' = {} /\ verdict' = "failure" /\ refused' = FALSE
    /\ at' = "failed"
    /\ UNCHANGED <<request, walk, pin, loop, sent, outcome, attempts, calls>>

\* The first event is output: the router keeps the stream for the server.
FirstChunk ==
    /\ at = "posted" /\ streams /\ ~again
    /\ at' = "peeked"
    /\ UNCHANGED <<pool, request, walk, pin, loop, open, verdict, sent, outcome,
                   attempts, usable, guard>>

\* The server starts to send; _replay_chunks renews the pin for every chunk.
StartSending ==
    /\ at = "peeked"
    /\ at' = "streaming" /\ sent' = TRUE
    /\ UNCHANGED <<pool, request, walk, pin, loop, open, verdict, outcome, attempts,
                   usable, guard>>

StreamEnds ==
    /\ at = "streaming"
    /\ Praised(account)
    /\ open' = {} /\ pin' = None
    /\ End("served")
    /\ UNCHANGED <<request, walk, loop, verdict, sent, attempts, guard>>

\* Mutant: a stream that breaks is started again on another account.
StreamRestarts ==
    /\ at = "streaming"
    /\ Blamed(account)
    /\ verdict' = "failure"
    /\ open' = {}
    /\ at' = "picking"
    /\ UNCHANGED <<request, walk, pin, loop, sent, outcome, attempts, guard>>

\* Failure after output_started: an error event, no other account.
StreamBreaks ==
    /\ at = "streaming"
    /\ Blamed(account)
    /\ verdict' = "failure"
    /\ open' = {} /\ pin' = None
    /\ End("broken")
    /\ UNCHANGED <<request, walk, loop, sent, attempts, guard>>

----------------------------------------------------------------------------
\* The client hangs up or the server stops: the task is cancelled at its await
\* and the context managers unwind; a stream not yet started is closed by its
\* ClosingStream.  The thread that makes a reservation runs to its end.
Hangup ==
    /\ at \notin {"idle", "done"}
    /\ open' = {} /\ pin' = None
    /\ reserved' \in IF at = "reserving" THEN {reserved, reserved + 1} ELSE {reserved}
    /\ End("gone")
    /\ UNCHANGED <<pool, request, queue, swept, hop, loop, verdict, sent, attempts,
                   usable, guard>>

\* Other requests, refreshes, administrators and time.
StatusChanges(a, s) ==
    /\ at # "done"
    /\ status' = [status EXCEPT ![a] = s]
    /\ UNCHANGED <<cooling, request, at, walk, pin, loop, open, verdict, sent,
                   outcome, attempts, usable, guard>>

CooldownChanges(a) ==
    /\ at # "done"
    /\ cooling' = IF a \in cooling THEN cooling \ {a} ELSE cooling \cup {a}
    /\ usable' = usable \ {a}
    /\ UNCHANGED <<status, request, at, walk, pin, loop, open, verdict, sent, outcome,
                   attempts, guard>>

Send ==
    \/ HeadersValid \/ HeadersInvalid
    \/ SlotGranted \/ SlotRefused
    \/ UpstreamStops \/ UpstreamFails \/ Broken
    \/ AnswerWhole \/ ToolStall \/ StallFails
    \/ AnswerBuffered \/ SendBuffered \/ FirstChunk \/ StartSending

Serve ==
    \/ Arrive \/ Requeue \/ Reserve \/ StartHop \/ RetryShorter \/ NextHop
    \/ \E c \in Channels : Recover(c)
    \/ \E a \in Accounts : Pick(a) \/ PickRevived(a)
    \/ PickNothing
    \/ Send

Surroundings ==
    \E a \in Accounts : CooldownChanges(a) \/ \E s \in Statuses : StatusChanges(a, s)

\* The request is over; its outcome is not looked at again.
Finished == at = "done" /\ UNCHANGED vars

Next == Serve \/ StreamEnds \/ StreamBreaks \/ Hangup \/ Surroundings \/ Finished

Spec == Init /\ [][Next]_vars

\* Every await up to the first output returns: slots by EveryWaiterLeaves of
\* RateLimiter, renewals and upstream calls by their timeouts.  Nothing is
\* assumed of the length of a stream.
FairSpec == Spec /\ WF_vars(Serve)

----------------------------------------------------------------------------
AttemptType == [account : Accounts, call : {1, 2}]

\* Types of the variables.
TypeOK ==
    /\ cross \in Failover
    /\ status \in [Accounts -> Statuses]
    /\ cooling \subseteq Accounts /\ usable \subseteq Accounts
    /\ streams \in BOOLEAN /\ again \in BOOLEAN /\ sent \in BOOLEAN
    /\ at \in Points
    /\ queue \in Seq(Accounts)
    /\ attempts \in Seq(AttemptType)
    /\ calls \in {0, 1, 2} /\ refused \in BOOLEAN
    /\ swept \subseteq Channels
    /\ reserved \in Nat /\ attempt \in Nat /\ hop \in Nat \ {0}
    /\ pin \in Accounts \cup {None} /\ account \in Accounts \cup {None}
    /\ tried \subseteq Accounts /\ open \subseteq Accounts
    /\ verdict \in {"none", "stop", "failure", "local"}
    /\ outcome \in {"none", "served", "failed", "broken", "gone", "unavailable",
                    "overLimit"}

\* The request holds a slot only on the account it is being served by, never
\* on two, and none while it looks for another account or after its end,
\* whichever of the failures, the peek or a hangup ended the hop.
SlotsReturned ==
    /\ open \subseteq {account}
    /\ open # {} => at \in {"posted", "failed", "peeked", "streaming"}

\* One reservation per request, made after an account was found and before the
\* first account is spent, however many accounts and channels are tried.
QuotaOnce ==
    /\ reserved <= 1
    /\ attempts # <<>> => reserved = 1 /\ Queued # {}
    /\ outcome \in {"unavailable", "overLimit"} => reserved = 0

\* Whatever way it takes, a request holds one slot at a time and is paid for once.
HeldAndPaidOnce == TypeOK /\ SlotsReturned /\ QuotaOnce

\* The accounts the request was tried on.
Asked == {attempts[i].account : i \in DOMAIN attempts}

\* The attempts i and j are the first call of a hop and the guard's retry of it.
RetryOf(i, j) ==
    /\ j = i + 1 /\ attempts[j].account = attempts[i].account
    /\ attempts[i].call = 1 /\ attempts[j].call = 2

\* The walk is the queue: the accounts tried follow its order, and a provider
\* never drifts to an account the dispatcher did not choose.  None is tried
\* twice but by the context guard, which asks the account of a hop once more,
\* at once, after a refusal of the context.
WalkFollowsQueue ==
    cross =>
        \A i, j \in DOMAIN attempts :
            i < j => \/ RetryOf(i, j)
                     \/ \E m, n \in DOMAIN queue :
                           /\ m < n /\ queue[m] = attempts[i].account
                           /\ queue[n] = attempts[j].account

\* A provider left to itself stays in its channel and, in each of the at most
\* two calls, spends no account twice; the guard's call comes last.
LoopStaysInChannel ==
    ~cross =>
        \A i, j \in DOMAIN attempts :
            /\ ChannelOf[attempts[i].account] = ChannelOf[attempts[j].account]
            /\ attempts[i] = attempts[j] => i = j
            /\ i < j => attempts[i].call <= attempts[j].call

\* A request is given up only when every account that was queued and has not
\* cooled down since has been tried on it, save those whose hop the guard ended
\* because the request was over the budget of their channel.
NobodySkipped ==
    cross /\ outcome = "failed" => usable \subseteq Asked

\* Every account is asked in its turn, once for each call of the provider, and
\* none that may be asked is left out.
AskedInTurn == WalkFollowsQueue /\ LoopStaysInChannel /\ NobodySkipped

\* After a refusal that another account cannot cure the one thing left to try is
\* the guard's retry: its first account, and only if the context was refused.
FirstOfRetry ==
    /\ refused /\ calls = 2
    /\ \A i \in DOMAIN attempts : attempts[i].call = 1

\* No account is spent in vain: after the first output a stream is never replayed
\* on another account; and when changing the account is of no use, the loop of
\* the provider ends, and if cross-channel failover is off the request asks
\* nobody any more but by the guard's retry after a refusal of the context.
NoFurtherAccount ==
    [][/\ sent => attempts' = attempts /\ open' \subseteq open
       /\ verdict = "stop" /\ ~cross /\ ~FirstOfRetry => attempts' = attempts]_vars

\* Every request gets its first output, an error, or hangs up.
Answered == <>(sent \/ at = "done")
=============================================================================
