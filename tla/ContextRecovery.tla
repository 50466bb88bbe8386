-------------------------- MODULE ContextRecovery --------------------------
(***************************************************************************)
(* One hop of a chat request through context_budget.py: the prompt may be  *)
(* trimmed before it is sent, the answer of the provider is guarded until  *)
(* its first content, and an answer that turns out to be a refusal of the  *)
(* context is closed and asked for once more with a shorter prompt.        *)
(*                                                                         *)
(* A prompt is its old turns, which trimming may drop, and its newest one, *)
(* which it keeps; sizes are in one unit of tokens.  A call of the         *)
(* provider holds a slot of its account until its stream is closed.  The   *)
(* next chunk for the client of this layer is left in mail.                *)
(***************************************************************************)
EXTENDS Integers, Sequences, FiniteSets

CONSTANTS
    Prompts,        \* [old, newest] prompts a client may send
    Budgets,        \* input limits of the channel; 0: no trimming before sending
    Huge,           \* HUGE_PROMPT_TOKENS
    MaxBuffered     \* len(buffered) at which the guard gives up

ASSUME RecoveryAssumption ==
    /\ Prompts \subseteq [old : Nat, newest : Nat \ {0}] /\ Huge \in Nat
    /\ Budgets \subseteq Nat /\ MaxBuffered \in Nat \ {0}

VARIABLES
    at,         \* where dispatch_with_context_policy, later the guard, is
    prompt,     \* the payload of the current call
    calls,      \* calls of provider.chat_completions so far
    open,       \* calls whose slot is held
    buffered,   \* chunks the guard holds back
    mail,       \* the chunk handed to the client of this layer, or "none"
    reply,      \* what the hop returned: none, stream, json or an error
    read        \* history: chunks the guard read and handed over

hop == <<prompt, calls>>
recovery == <<at, hop, open, buffered, mail, reply, read>>

\* body: code 11133; page: an HTML page with status 502 or 503; lost: an HTML
\* page with another status; plain: everything else.
Errors == {"context", "body", "page", "lost", "plain"}
\* delta: an event with choices; piece: part of an event, or an empty one.
Chunks == {"delta", "piece", "done"} \cup Errors
\* What readable_error and _error_sse make of a refusal.
Readable == {"too_long", "html"}
Replies == {"none", "stream", "json"} \cup Errors \cup Readable
Points == {"sizing", "calling", "guarding", "flushing", "refused", "retrying",
           "relaying", "recovered", "ended"}

\* router.estimate_prompt_tokens
Size(p) == p.old + p.newest

\* trim_to_limit: the oldest turns go until the rest fits.
Trim(p, limit) ==
    IF limit = 0 \/ Size(p) <= limit THEN p
    ELSE [p EXCEPT !.old = IF limit > p.newest THEN limit - p.newest ELSE 0]

\* recovery_payload: half of the prompt, at least one unit.
Halved(p) == Trim(p, IF Size(p) \div 2 > 1 THEN Size(p) \div 2 ELSE 1)

\* is_context_rejection
Rejects(e, p) ==
    \/ e = "context"
    \/ e \in {"body", "page"} /\ Size(p) >= Huge

\* The error the client is told instead of the page itself.
Told(e) == IF e \in {"page", "lost"} THEN "html" ELSE e

\* _finalize: there is no second retry.
Final(e, p) == IF Rejects(e, p) THEN "too_long" ELSE Told(e)

NothingRead == [got |-> <<>>, gave |-> <<>>]

RecoveryInit ==
    /\ at = "sizing"
    /\ prompt \in Prompts /\ calls = 0 /\ open = {}
    /\ buffered = <<>> /\ mail = "none" /\ reply = "none"
    /\ read = NothingRead

----------------------------------------------------------------------------
(* Before the provider is called                                           *)

\* prepare_dispatch; a prompt whose newest turn alone is beyond the budget is
\* refused, but only if trimming took something away.
Prepare(budget) ==
    LET fitted == Trim(prompt, budget)
    IN  /\ at = "sizing"
        /\ prompt' = fitted
        /\ IF fitted # prompt /\ Size(fitted) > budget
           THEN at' = "ended" /\ reply' = "too_long"
           ELSE at' = "calling" /\ UNCHANGED reply
        /\ UNCHANGED <<calls, open, buffered, mail, read>>

\* The provider is called and holds a slot until it has answered.
Call ==
    /\ at = "calling" /\ calls = 0
    /\ calls' = 1 /\ open' = {1}
    /\ UNCHANGED <<at, prompt, buffered, mail, reply, read>>

\* _recover for an answer that is no stream: its slot is free again.
Answered(r) ==
    /\ at = "calling" /\ calls = 1
    /\ r \in Errors \cup {"json"}
    /\ open' = {}
    /\ IF r \in Errors /\ Rejects(r, prompt)
       THEN at' = "refused" /\ UNCHANGED reply
       ELSE at' = "ended" /\ reply' = IF r = "json" THEN r ELSE Told(r)
    /\ UNCHANGED <<hop, buffered, mail, read>>

\* _recover for a stream: it is wrapped in the guard and returned.
Streamed ==
    /\ at = "calling" /\ calls = 1
    /\ at' = "guarding" /\ reply' = "stream"
    /\ UNCHANGED <<hop, open, buffered, mail, read>>

----------------------------------------------------------------------------
(* The guard                                                               *)

\* Mutant: the rejected stream is left to the garbage collector.
GuardErrorUnclosed(e) ==
    /\ at = "guarding" /\ mail = "none" /\ e \in Errors
    /\ read' = [read EXCEPT !.got = Append(@, e)]
    /\ Rejects(e, prompt)
    /\ at' = "refused" /\ buffered' = <<>>
    /\ UNCHANGED <<hop, mail, reply, open>>

\* An error and nothing else so far: a refusal of the context closes the
\* stream, with its slot, before the retry; a page is told in words and ends
\* the stream; anything else is passed on with what was buffered.
GuardError(e) ==
    /\ at = "guarding" /\ mail = "none" /\ e \in Errors
    /\ IF Rejects(e, prompt)
       THEN /\ at' = "refused" /\ open' = {} /\ buffered' = <<>>
       ELSE /\ at' = "flushing" /\ UNCHANGED open
            /\ buffered' = IF Told(e) = "html" THEN <<"html">>
                           ELSE Append(buffered, e)
    /\ read' = [read EXCEPT !.got = Append(@, e)]
    /\ UNCHANGED <<hop, mail, reply>>

\* A chunk with content ends the guard; so does the fourth one without any.
GuardChunk(c) ==
    /\ at = "guarding" /\ mail = "none" /\ c \in {"delta", "piece", "done"}
    /\ buffered' = Append(buffered, c)
    /\ at' = IF c = "delta" \/ Len(buffered) + 1 >= MaxBuffered
             THEN "flushing" ELSE at
    /\ read' = [read EXCEPT !.got = Append(@, c)]
    /\ UNCHANGED <<hop, open, mail, reply>>

\* The first stream ends, or breaks, before any content: what was buffered is
\* all there is, and after an exception not even that.
GuardEnd(broken) ==
    /\ at = "guarding" /\ mail = "none"
    /\ open' = {}
    /\ at' = IF broken THEN "ended" ELSE "flushing"
    /\ buffered' = IF broken THEN <<>> ELSE buffered
    /\ mail' = IF broken THEN "broken" ELSE mail
    /\ UNCHANGED <<hop, reply, read>>

\* The buffered chunks go to the client one by one; then the stream is
\* relayed, except after a page, which ends it.
Flush ==
    /\ at = "flushing" /\ mail = "none"
    /\ IF buffered = <<>>
       THEN /\ at' = IF open = {} THEN "ended" ELSE "relaying"
            /\ mail' = IF open = {} THEN "end" ELSE mail
            /\ read' = NothingRead
            /\ UNCHANGED <<buffered, open>>
       ELSE /\ mail' = Head(buffered) /\ buffered' = Tail(buffered)
            /\ read' = [read EXCEPT !.gave = Append(@, Head(buffered))]
            /\ open' = IF Head(buffered) = "html" THEN {} ELSE open
            /\ UNCHANGED at
    /\ UNCHANGED <<hop, reply>>

\* A chunk of the stream behind the guard; errors are no longer looked at.
Relay(c) ==
    /\ at \in {"relaying", "recovered"} /\ mail = "none"
    /\ c \in {"delta", "piece", "done", "plain"}
    /\ mail' = c
    /\ UNCHANGED <<at, hop, open, buffered, reply, read>>

\* Mutant: an exception of the upstream is swallowed.
RelayEndSilent(broken) ==
    /\ at \in {"relaying", "recovered"} /\ mail = "none"
    /\ at' = "ended" /\ open' = {}
    /\ mail' = IF broken THEN mail ELSE "end"
    /\ UNCHANGED <<hop, buffered, reply, read>>

\* The stream ends, or an exception of the upstream comes through: the
\* wrapper closes what is below it.
RelayEnd(broken) ==
    /\ at \in {"relaying", "recovered"} /\ mail = "none"
    /\ at' = "ended" /\ open' = {}
    /\ mail' = IF broken THEN "broken" ELSE "end"
    /\ UNCHANGED <<hop, buffered, reply, read>>

----------------------------------------------------------------------------
(* The one retry                                                           *)

\* Mutant: the whole prompt is sent again.
RetryWhole ==
    /\ at = "refused"
    /\ at' = "retrying" /\ calls' = calls + 1 /\ open' = open \cup {2}
    /\ UNCHANGED <<prompt, buffered, mail, reply, read>>

\* _retry: nothing to drop means there is no retry.  The error reaches the
\* client as a frame if it is reading a stream already.
Retry ==
    /\ at = "refused"
    /\ IF Halved(prompt) = prompt
       THEN /\ at' = "ended"
            /\ IF reply = "stream" THEN mail' = "too_long" /\ UNCHANGED reply
               ELSE reply' = "too_long" /\ UNCHANGED mail
            /\ UNCHANGED <<prompt, calls, open>>
       ELSE /\ at' = "retrying"
            /\ prompt' = Halved(prompt)
            /\ calls' = calls + 1 /\ open' = open \cup {2}
            /\ UNCHANGED <<mail, reply>>
    /\ UNCHANGED <<buffered, read>>

\* The second answer is final.  A client that is reading a stream gets an
\* error frame for it, also for an answer in JSON.
Retried(r) ==
    /\ at = "retrying"
    /\ r \in Errors \cup {"json", "stream"}
    /\ LET final == IF r \in Errors THEN Final(r, prompt) ELSE r
       IN  \/ /\ r = "stream" /\ at' = "recovered"
              /\ reply' = "stream" /\ UNCHANGED <<open, mail>>
           \/ /\ r # "stream" /\ at' = "ended"
              /\ open' = open \ {2}
              /\ IF reply = "stream"
                 THEN mail' = (IF r = "json" THEN "plain" ELSE final) /\ UNCHANGED reply
                 ELSE reply' = final /\ UNCHANGED mail
    /\ UNCHANGED <<hop, buffered, read>>

\* The client of this layer closes it, also before its first chunk and in the
\* middle of a retry: every wrapper closes its iterator and its upstream.
Abandon ==
    /\ reply = "stream"
    /\ at' = "ended" /\ open' = {} /\ buffered' = <<>> /\ mail' = "none"
    /\ UNCHANGED <<hop, reply, read>>

\* Steps of the layer itself; the client takes the mail in another module.
RecoveryStep ==
    \/ Call \/ Streamed \/ Flush \/ Retry
    \/ \E b \in Budgets : Prepare(b)
    \/ \E r \in Errors \cup {"json"} : Answered(r)
    \/ \E e \in Errors : GuardError(e)
    \/ \E c \in {"delta", "piece", "done"} : GuardChunk(c)
    \/ \E c \in {"delta", "piece", "done", "plain"} : Relay(c)
    \/ \E b \in BOOLEAN : GuardEnd(b) \/ RelayEnd(b)
    \/ \E r \in Errors \cup {"json", "stream"} : Retried(r)

----------------------------------------------------------------------------

RecoveryTypeOK ==
    /\ at \in Points
    /\ prompt \in [old : Nat, newest : Nat \ {0}] /\ calls \in 0..2 /\ open \subseteq {1, 2}
    /\ \A i \in DOMAIN buffered : buffered[i] \in Chunks \cup Readable
    /\ mail \in Chunks \cup Readable \cup {"none", "end", "broken"}
    /\ reply \in Replies

\* The retry never runs while the refused call still holds its slot, and when
\* the hop is over no slot is held: an account limited to one request in
\* flight would otherwise wait for itself (context_budget.py, the comment in
\* _guard_stream_chunks).
OneSlotAtATime ==
    /\ Cardinality(open) <= 1
    /\ at = "ended" => open = {}

\* A refused prompt is asked for again at most once, and only with a shorter
\* prompt that keeps its newest turn.
RetriesShorter ==
    [][calls' > calls /\ calls > 0 =>
          /\ calls = 1
          /\ Size(prompt') < Size(prompt) /\ prompt'.newest = prompt.newest]_recovery

\* What the guard has handed over and still holds is what it read, in order,
\* or one error frame in its place, or nothing when the answer is asked for
\* again: a retry is never preceded by parts of the refused answer.
GuardKeepsOrder ==
    LET passed == read.gave \o buffered
    IN  at \in {"guarding", "flushing", "refused", "retrying", "recovered"} =>
            \/ passed = read.got /\ calls < 2
            \/ passed = <<"html">> \/ passed = <<>>
=============================================================================
