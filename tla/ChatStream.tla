----------------------------- MODULE ChatStream -----------------------------
(***************************************************************************)
(* The streaming loop of the WorkBuddy provider (proxy._stream_upstream):  *)
(* which upstream events reach the client and when, how the observer       *)
(* (_ChatStreamObserver) decides that an answer is whole, when another     *)
(* account may take over, and which log rows the attempts leave.           *)
(*                                                                         *)
(* A chunk carries one choice, or none (the usage at the end).  Its part   *)
(* is what it does to the observer: text (content or reasoning), "call" (a *)
(* tool call left incomplete), "args" (every tool call of the choice is    *)
(* now complete) or "clash" (the id or the name of a call changes).  Slots,*)
(* cooldowns and the account pool are in Dispatch: here the picker may     *)
(* return any account not tried yet, or none, and a slot may be refused.   *)
(***************************************************************************)
EXTENDS Integers, Sequences, FiniteSets

CONSTANTS
    Accounts,
    Choices,        \* expected_choice_indices
    Deltas,         \* [choice, part, finish] chunks an upstream may send
    Cap,            \* _failover_cap()
    MaxEvents,      \* bound: events read per attempt
    MaxWithheld,    \* _MAX_SSE_EVENT_BYTES, in terminal events
    StallFails,     \* TOOL_STALL_FAIL_STREAM
    None

Parts == {"nothing", "text", "call", "args", "clash"}
Reasons == {"stop", "tool_calls", "length"}     \* length also: content_filter
Statuses == {"200", "400", "401", "502", "503", "http"}     \* http: any other

ASSUME StreamAssumption ==
    /\ Cap \in Nat \ {0} /\ MaxEvents \in Nat /\ MaxWithheld \in Nat
    /\ StallFails \in BOOLEAN
    /\ Deltas \subseteq [choice : Choices \cup {None}, part : Parts,
                        finish : Reasons \cup {"no"}]
    /\ None \notin Accounts /\ None \notin Choices
    /\ None \notin [account : Accounts, status : Statuses]

VARIABLES
    at,         \* where the generator is
    account,    \* the account of this attempt, afterwards last_account
    tried,      \* tried_ids
    attempt,
    observer,   \* _ChatStreamObserver
    events,     \* events read in this attempt
    withheld,   \* pending_terminal_events
    out,        \* what the client has been sent
    retry,      \* pending_retry_log: the account and status, or None
    last,       \* last_status, and the account it came from
    rows,       \* rows of the request log
    health,     \* what this request last reported to auth_manager
    outcome,    \* how the generator ended
    accepted,   \* history: chunks of this attempt that observe_event returned
    posted      \* history: accounts that were sent the request

loop == <<account, tried, attempt>>
stream == <<observer, events, withheld, accepted>>
vars == <<at, loop, stream, out, retry, last, rows, health, outcome, posted>>

Points == {"picking", "headers", "posting", "reading", "flushing", "judging",
           "releasing", "terminal", "failing", "limited", "closing", "ended"}

NewObserver == [done |-> FALSE, saw |-> FALSE, bad |-> FALSE, error |-> FALSE,
                finish |-> [c \in Choices |-> "absent"],
                spoke |-> {}, call |-> [c \in Choices |-> "none"]]

Init ==
    /\ at = "picking"
    /\ account = None /\ tried = {} /\ attempt = 0
    /\ observer = NewObserver /\ events = 0 /\ withheld = <<>>
    /\ out = <<>> /\ retry = None
    /\ last = [account |-> None, status |-> "503"]
    /\ rows = <<>> /\ health = [a \in Accounts |-> "none"]
    /\ outcome = "none"
    /\ accepted = <<>> /\ posted = {}

----------------------------------------------------------------------------
(* _ChatStreamObserver                                                     *)

Closed(o, c) == o.finish[c] \in Reasons
Opened(o, c) == o.call[c] # "none"

\* The chunk breaks the protocol: a delta after its choice had finished, or a
\* call that changes its id or name.
Breaks(o, d) ==
    /\ d.choice # None
    /\ Closed(o, d.choice) \/ (d.part = "clash" /\ Opened(o, d.choice))

\* observe_event for a chunk that is let through.
Observed(o, d) ==
    IF d.choice = None THEN [o EXCEPT !.saw = TRUE] ELSE
    [o EXCEPT !.saw = TRUE,
              !.finish[d.choice] = IF d.finish = "no" THEN "open" ELSE d.finish,
              !.spoke = IF d.part = "text" THEN @ \cup {d.choice} ELSE @,
              !.call[d.choice] = CASE d.part \in {"call", "clash"} -> "open"
                                   [] d.part = "args" -> "whole"
                                   [] OTHER -> @]

\* The choice may not end as it did.
Unfinished(o, c) ==
    LET reason == o.finish[c]
    IN  \/ reason = "absent"
        \/ reason = "open" /\ ~Opened(o, c)
        \/ reason = "tool_calls" /\ ~Opened(o, c)
        \/ reason = "stop" /\ Opened(o, c)
        \/ reason # "length" /\ o.call[c] = "open"
        \/ reason # "length" /\ ~Opened(o, c) /\ c \notin o.spoke

EofError(o) == o.bad \/ o.error \/ ~o.saw \/ \E c \in Choices : Unfinished(o, c)

\* missing_finish_choices: tool calls that are complete but were not finished
\* get a finish of the gateway's own.
Missing(o) == {c \in Choices : o.finish[c] = "open"}

----------------------------------------------------------------------------
(* Picking an account                                                      *)

Row(a, status, counted) == [account |-> a, status |-> status, counted |-> counted]

\* Mutant: the row of the failed attempt is forgotten.
PickUnlogged(a) ==
    /\ at = "picking" /\ attempt < Cap /\ a \notin tried
    /\ account' = a /\ tried' = tried \cup {a}
    /\ retry' = None
    /\ at' = "headers"
    /\ UNCHANGED <<attempt, stream, out, last, rows, health, outcome, posted>>

\* The row of the attempt before is written once a successor is known.
Pick(a) ==
    /\ at = "picking" /\ attempt < Cap /\ a \notin tried
    /\ account' = a /\ tried' = tried \cup {a}
    /\ rows' = IF retry = None THEN rows
               ELSE Append(rows, Row(retry.account, retry.status, FALSE))
    /\ retry' = None
    /\ at' = "headers"
    /\ UNCHANGED <<attempt, stream, out, last, health, outcome, posted>>

\* The cap is reached or the pool has nobody left.
GiveUp ==
    /\ at = "picking"
    /\ LET final == IF retry = None THEN [account |-> account, status |-> last.status]
                                    ELSE retry
       IN  rows' = Append(rows, Row(final.account, final.status, TRUE))
    /\ at' = "failing"
    /\ UNCHANGED <<loop, stream, out, retry, last, health, outcome, posted>>

\* get_valid_headers gives nothing: the account is done with, without a row.
NoHeaders ==
    /\ at = "headers"
    /\ health' = [health EXCEPT ![account] = "failed"]
    /\ last' = [account |-> account, status |-> "401"]
    /\ attempt' = attempt + 1
    /\ at' = "picking"
    /\ UNCHANGED <<account, tried, stream, out, retry, rows, outcome, posted>>

\* A fresh observer and decoder, and the POST.
Post ==
    /\ at = "headers"
    /\ observer' = NewObserver /\ events' = 0 /\ withheld' = <<>> /\ accepted' = <<>>
    /\ posted' = posted \cup {account}
    /\ at' = "posting"
    /\ UNCHANGED <<loop, out, retry, last, rows, health, outcome>>

\* account_slot raises RateLimitError: the account's local queue is full, the
\* wait was too long, or the account cooled down meanwhile.  The loop catches
\* httpx.HTTPError only, so the generator ends here, without a row and without
\* a mark on the account.
SlotRefused ==
    /\ at = "headers"
    /\ at' = "limited"
    /\ UNCHANGED <<loop, stream, out, retry, last, rows, health, outcome, posted>>

----------------------------------------------------------------------------
(* Failures                                                                *)

\* The attempt failed with this status: either another account is tried, and
\* the row waits for it, or the row is final and the client is told.
FailWith(status, again) ==
    /\ last' = [account |-> account, status |-> status]
    /\ IF again
       THEN /\ retry' = [account |-> account, status |-> status]
            /\ attempt' = attempt + 1
            /\ at' = "picking"
            /\ UNCHANGED rows
       ELSE /\ rows' = Append(rows, Row(account, status, TRUE))
            /\ at' = "failing"
            /\ UNCHANGED <<retry, attempt>>
    /\ UNCHANGED <<account, tried, stream, out, outcome, posted>>

Blame == health' = [health EXCEPT ![account] = "failed"]
MoreAttempts == attempt < Cap - 1
Started == out # <<>>

\* Mutant: a failure after the first output moves on to another account.
MayRetryAlways == MoreAttempts

\* Failover before output only; a stream that has begun ends with an error.
MayRetry == ~Started /\ MoreAttempts

\* Not 200: the caller's own mistake stops the request and leaves the account
\* alone; an envelope or a retryable status moves on; any other status is final.
Refused ==
    /\ at = "posting"
    /\ \/ FailWith("400", FALSE) /\ UNCHANGED health
       \/ FailWith("http", MoreAttempts) /\ Blame
       \/ FailWith("http", FALSE) /\ Blame

Accept ==
    /\ at = "posting"
    /\ at' = "reading"
    /\ UNCHANGED <<loop, stream, out, retry, last, rows, health, outcome, posted>>

\* httpx.HTTPError while connecting, waiting for the answer or reading it.
Disconnect ==
    /\ at \in {"posting", "reading"}
    /\ FailWith("502", MayRetry) /\ Blame

----------------------------------------------------------------------------
(* Reading                                                                 *)

Chunk(a, d) == [kind |-> "chunk", account |-> a, delta |-> d]
Ends(d) == d.finish # "no"

\* Mutant: only the finishing events themselves are held back.
HeldLoosely(d) == Ends(d)

\* A finishing event, and everything that follows one, waits for the verdict.
Held(d) == withheld # <<>> \/ Ends(d)

\* One chunk that observe_event returns: passed on at once or held back, and
\* too much held back is an error.
Forward(d) ==
    LET o == Observed(observer, d)
    IN  /\ accepted' = Append(accepted, d)
        /\ IF Held(d)
           THEN /\ withheld' = Append(withheld, d)
                /\ observer' = [o EXCEPT !.bad = Len(withheld) >= MaxWithheld]
                /\ UNCHANGED out
           ELSE /\ out' = Append(out, Chunk(account, d))
                /\ observer' = o
                /\ UNCHANGED withheld

\* A chunk of the stream that the observer refuses.
Reject == /\ observer' = [observer EXCEPT !.bad = TRUE]
          /\ UNCHANGED <<withheld, accepted, out>>

\* One SSE event: a delta, an event that is no chunk, an error, [DONE].
Event ==
    \/ \E d \in Deltas : IF Breaks(observer, d) THEN Reject ELSE Forward(d)
    \/ Reject
    \/ /\ \E flag \in {"error", "done"} : observer' = [observer EXCEPT ![flag] = TRUE]
       /\ UNCHANGED <<withheld, accepted, out>>

Stopped(o) == o.done \/ o.bad \/ o.error

\* An event out of a body chunk; [DONE] and every error end the reading.
Read ==
    /\ at = "reading" /\ events < MaxEvents
    /\ Event
    /\ events' = events + 1
    /\ at' = IF Stopped(observer') THEN "judging" ELSE "reading"
    /\ UNCHANGED <<loop, retry, last, rows, health, outcome, posted>>

\* The body ends without [DONE].
Eof ==
    /\ at = "reading"
    /\ at' = "flushing"
    /\ UNCHANGED <<loop, stream, out, retry, last, rows, health, outcome, posted>>

\* decoder.finish: a last event without its blank line, or none.
Flush ==
    /\ at = "flushing"
    /\ \/ events < MaxEvents /\ Event /\ events' = events + 1
       \/ UNCHANGED <<stream, out>>
    /\ at' = "judging"
    /\ UNCHANGED <<loop, retry, last, rows, health, outcome, posted>>

----------------------------------------------------------------------------
(* The verdict on the attempt                                              *)

Incomplete ==
    /\ at = "judging" /\ EofError(observer)
    /\ FailWith("502", MayRetry) /\ Blame

\* A tool turn may have stalled only where a choice stopped without a call.
MayStall ==
    /\ \A c \in Choices : ~Opened(observer, c)
    /\ \E c \in Choices : observer.finish[c] = "stop"

\* The account is credited and the row is written before the finish is sent.
Whole ==
    /\ at = "judging" /\ ~EofError(observer)
    /\ health' = [health EXCEPT ![account] = "ok"]
    /\ rows' = Append(rows, Row(account, "200", TRUE))
    /\ \/ at' = "releasing"
       \/ StallFails /\ MayStall /\ at' = "failing"
    /\ UNCHANGED <<loop, stream, out, retry, last, outcome, posted>>

Release ==
    /\ at = "releasing"
    /\ IF withheld = <<>>
       THEN at' = "terminal" /\ UNCHANGED <<withheld, out>>
       ELSE /\ out' = Append(out, Chunk(account, Head(withheld)))
            /\ withheld' = Tail(withheld)
            /\ UNCHANGED at
    /\ UNCHANGED <<loop, observer, events, accepted, retry, last, rows, health,
                   outcome, posted>>

\* terminal_event, where a finish is missing.
Terminal ==
    /\ at = "terminal"
    /\ out' = IF Missing(observer) = {} THEN out
              ELSE Append(out, [kind |-> "terminal", account |-> account,
                                choices |-> Missing(observer)])
    /\ at' = "closing" /\ outcome' = "complete"
    /\ UNCHANGED <<loop, stream, retry, last, rows, health, posted>>

TellError ==
    /\ at = "failing"
    /\ out' = Append(out, [kind |-> "error"])
    /\ at' = "closing" /\ outcome' = "failed"
    /\ UNCHANGED <<loop, stream, retry, last, rows, health, posted>>

\* rate_limiter.guard_stream tells the client in the loop's stead.
TellLimit ==
    /\ at = "limited"
    /\ out' = Append(out, [kind |-> "error"])
    /\ at' = "closing" /\ outcome' = "limited"
    /\ UNCHANGED <<loop, stream, retry, last, rows, health, posted>>

SendDone ==
    /\ at = "closing"
    /\ out' = Append(out, [kind |-> "done"])
    /\ at' = "ended"
    /\ UNCHANGED <<loop, stream, retry, last, rows, health, outcome, posted>>

\* The client goes away: the generator is closed at the await it is in.
Hangup ==
    /\ at \notin {"closing", "ended"}
    /\ at' = "ended" /\ outcome' = "gone"
    /\ UNCHANGED <<loop, stream, out, retry, last, rows, health, posted>>

Next ==
    \/ \E a \in Accounts : Pick(a)
    \/ GiveUp \/ NoHeaders \/ SlotRefused \/ Post \/ Refused \/ Accept \/ Disconnect
    \/ Read \/ Eof \/ Flush \/ Incomplete \/ Whole
    \/ Release \/ Terminal \/ TellError \/ TellLimit \/ SendDone \/ Hangup

Spec == Init /\ [][Next]_vars

----------------------------------------------------------------------------
\* What a client may be sent.
Items == [kind : {"chunk"}, account : Accounts, delta : Deltas]
         \cup [kind : {"terminal"}, account : Accounts, choices : SUBSET Choices]
         \cup [kind : {"error", "done"}]

Observers == [done : BOOLEAN, saw : BOOLEAN, bad : BOOLEAN, error : BOOLEAN,
              finish : [Choices -> Reasons \cup {"absent", "open"}],
              spoke : SUBSET Choices, call : [Choices -> {"none", "open", "whole"}]]

\* Types of the variables.
TypeOK ==
    /\ at \in Points
    /\ account \in Accounts \cup {None} /\ tried \subseteq Accounts
    /\ attempt \in 0..Cap
    /\ observer \in Observers
    /\ events \in 0..MaxEvents
    /\ withheld \in Seq(Deltas) /\ accepted \in Seq(Deltas)
    /\ out \in Seq(Items)
    /\ rows \in Seq([account : Accounts \cup {None}, status : Statuses, counted : BOOLEAN])
    /\ retry \in [account : Accounts, status : Statuses] \cup {None}
    /\ last \in [account : Accounts \cup {None}, status : Statuses]
    /\ health \in [Accounts -> {"none", "ok", "failed"}]
    /\ outcome \in {"none", "complete", "failed", "limited", "gone"}
    /\ posted \subseteq tried

IsChunk(i) == out[i].kind = "chunk"
Finishes(c) ==
    {i \in DOMAIN out :
        \/ IsChunk(i) /\ out[i].delta.choice = c /\ Ends(out[i].delta)
        \/ out[i].kind = "terminal" /\ c \in out[i].choices}

\* Nothing is lost, repeated or overtaken on the way through: what the client
\* has and what is held back are together the chunks of the account, in the
\* order of the account, as long as no other account has been turned to.
InOrder ==
    at \in {"reading", "flushing", "judging", "releasing", "terminal"} =>
        /\ \A i \in DOMAIN out : IsChunk(i) /\ out[i].account = account
        /\ [i \in DOMAIN out |-> out[i].delta] \o withheld = accepted

\* A client that is told its answer is complete has exactly one finish for each
\* choice it asked for, and no choice goes on after its finish.
CompleteMeansFinished ==
    /\ outcome = "complete" => \A c \in Choices : Cardinality(Finishes(c)) = 1
    /\ \A c \in Choices : \A i \in Finishes(c), j \in DOMAIN out :
          j > i /\ IsChunk(j) => out[j].delta.choice # c

\* A finish reaches the client only when the account has been credited with a
\* whole answer and its row has been written: agents act on a finish at once,
\* so one that is followed by a failure could not be taken back.
FinishIsEarned ==
    \A c \in Choices : Finishes(c) # {} =>
        /\ health[account] = "ok"
        /\ rows # <<>> /\ rows[Len(rows)] = Row(account, "200", TRUE)
        /\ ~EofError(observer)

\* What the client has is one answer of one account, in order, and finished
\* exactly when it is told so.
AnswerIsWhole == TypeOK /\ InOrder /\ CompleteMeansFinished /\ FinishIsEarned

Counted == {i \in DOMAIN rows : rows[i].counted}

\* The request was given up for want of a slot.
Limited == at = "limited" \/ outcome = "limited"

\* However many accounts were asked, each that was sent the request has one row,
\* and the request counts once in the usage of its key; but one that is refused
\* by a local queue counts nowhere, the rows of the accounts asked before are
\* not counted either.
OneRowPerCall ==
    at \in {"releasing", "terminal", "failing", "limited", "closing"} =>
        /\ Cardinality(Counted) = IF Limited THEN 0 ELSE 1
        /\ \A a \in posted : Cardinality({i \in DOMAIN rows : rows[i].account = a}) = 1

\* The row that is counted shows the failure the client is told of.
ToldWhatIsLogged ==
    at = "failing" =>
        \/ rows[Len(rows)].status = "200"      \* a stalled tool turn, logged as such
        \/ \E i \in Counted : rows[i].account = last.account /\ rows[i].status = last.status

\* The log has one row for every account asked, counts one of them unless a local
\* queue refused the request, and shows in it what the client was told.
LogIsTrue == OneRowPerCall /\ ToldWhatIsLogged

Credited == account # None /\ health[account] = "ok"

\* What the client sees of the loop.
AnswerPhase ==
    CASE outcome = "limited" -> "failed"
      [] outcome \notin {"none", "limited"} -> outcome
      [] outcome = "none" /\ Credited -> "settled"
      [] outcome = "none" /\ ~Credited /\ Started -> "speaking"
      [] OTHER -> "silent"

AnswerWho == IF Credited \/ \E i \in DOMAIN out : IsChunk(i) THEN account ELSE None

\* The loop keeps the promise of ChatAnswer.
Answer == INSTANCE ChatAnswer WITH phase <- AnswerPhase, who <- AnswerWho
AnswerSpec == Answer!Spec
=============================================================================
