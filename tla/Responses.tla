----------------------------- MODULE Responses -----------------------------
(***************************************************************************)
(* The Responses bridge (responses.py): a chat completion stream becomes   *)
(* the events of a Responses stream.  A delta opens, extends and closes    *)
(* output items; at the end one terminal event says whether the response   *)
(* is completed, incomplete or failed.                                     *)
(*                                                                         *)
(* A chunk carries one choice with at most one tool call.  Its arguments   *)
(* come as the head of a JSON object, its tail, or the whole object;       *)
(* "copy" is a text equal to the reasoning of its choice.  What the events *)
(* tell a client that keeps to the protocol is folded into client.         *)
(***************************************************************************)
EXTENDS Integers, Sequences, FiniteSets

CONSTANTS
    Choices,
    Tools,          \* indices of tool calls
    Deltas,         \* [choice, reason, text, call, finish] an upstream may send
    Answers,        \* whole answers of an upstream that does not stream
    NoCall

Calls == [tool : Tools, named : BOOLEAN, args : {"no", "head", "tail", "object"}]
Texts == {"no", "text", "copy"}
Finishes == {"no", "stop", "length"}    \* length also: content_filter

ASSUME BridgeAssumption ==
    /\ NoCall \notin Calls
    /\ Deltas \subseteq [choice : Choices, reason : BOOLEAN, text : Texts,
                        call : Calls \cup {NoCall}, finish : Finishes]
    /\ \A a \in Answers : a \in Seq([reason : BOOLEAN, text : Texts, call : BOOLEAN,
                                    finish : Finishes])

VARIABLES
    phase,      \* waiting, streaming, ending, over, or gone with the client
    made,       \* output_items, the open reasoning and text of each choice, events due
    finished,   \* finished_choices; "unseen" for a choice not in seen_choices
    productive, \* productive_choices
    cut,        \* a part of an event waits in the buffer of the decoder
    outcome,    \* status of the response
    events,     \* bound: deltas consumed
    client      \* history: what the events sent so far have told the client

bridge == <<phase, made, finished, productive, cut, outcome, events, client>>

Kinds == {"reasoning", "text", "call"}

NothingMade == [items |-> <<>>, think |-> [c \in Choices |-> 0],
                say |-> [c \in Choices |-> 0], sent |-> <<>>]

NewClient == [step |-> "start", items |-> <<>>]

BridgeInit ==
    /\ phase = "waiting" /\ made = NothingMade
    /\ finished = [c \in Choices |-> "unseen"] /\ productive = {}
    /\ cut = FALSE /\ outcome = "none" /\ events = 0
    /\ client = NewClient

----------------------------------------------------------------------------
(* The events waiting to be sent                                           *)

Event(name, i) == [e |-> name, i |-> i, status |-> "none", kind |-> "none"]

Emit(m, name, i) == [m EXCEPT !.sent = Append(@, Event(name, i))]

\* The terminal event of a response.
Terminal(status) == [Event("terminal", 0) EXCEPT !.status = status]

\* What a client keeps of an event.
Heard(c, ev) ==
    CASE ev.e = "created" -> [c EXCEPT !.step = "created"]
      [] ev.e = "in_progress" -> [c EXCEPT !.step = "open"]
      [] ev.e = "added" -> [c EXCEPT !.items = Append(@,
            [kind |-> ev.kind, part |-> "none", pieces |-> 0, status |-> "open"])]
      [] ev.e = "part" -> [c EXCEPT !.items[ev.i].part = "open"]
      [] ev.e = "delta" -> [c EXCEPT !.items[ev.i].pieces = @ + 1]
      [] ev.e = "part_done" -> [c EXCEPT !.items[ev.i].part = "closed"]
      [] ev.e = "done" -> [c EXCEPT !.items[ev.i].status = ev.status]
      [] ev.e = "terminal" -> [c EXCEPT !.step = ev.status]

----------------------------------------------------------------------------
(* Items                                                                   *)

\* A new output item; its index is its place.
Open(m, kind, d) ==
    LET i == Len(m.items) + 1
        item == [kind |-> kind, choice |-> d.choice, pieces |-> 0,
                 tool |-> IF kind = "call" THEN d.call.tool ELSE NoCall,
                 named |-> FALSE, args |-> "none", status |-> "in_progress"]
        opened == [m EXCEPT !.items = Append(@, item),
                            !.sent = Append(@, [Event("added", i) EXCEPT !.kind = kind])]
    IN  IF kind = "call" THEN opened ELSE Emit(opened, "part", i)

\* close_item: the .done events of the item, once.  The arguments of a call
\* are only declared done when they are.
Close(m, i, status) ==
    IF i = 0 THEN m ELSE
    LET item == m.items[i]
        told == IF item.kind # "call" \/ status = "completed"
                THEN Emit(m, "part_done", i) ELSE m
    IN  IF item.status # "in_progress" THEN m
        ELSE [told EXCEPT !.items[i].status = status,
                          !.sent = Append(@, [Event("done", i) EXCEPT !.status = status])]

\* Mutant: the delta is sent but not added to the item.
ExtendUncounted(m, i) == Emit(m, "delta", i)

\* A delta event for item i.
Extend(m, i) == Emit([m EXCEPT !.items[i].pieces = @ + 1], "delta", i)

OpenTool(m, c) ==
    \E i \in DOMAIN m.items : /\ m.items[i].kind = "call" /\ m.items[i].choice = c
                              /\ m.items[i].status = "in_progress"

\* The reasoning of a choice comes before its answer and its tool calls.
OutOfOrder(m, d) == d.reason /\ (m.say[d.choice] # 0 \/ OpenTool(m, d.choice))

WithReason(m, d) ==
    IF ~d.reason THEN m
    ELSE IF m.think[d.choice] # 0 THEN Extend(m, m.think[d.choice])
    ELSE LET i == Len(m.items) + 1
         IN  Extend([Open(m, "reasoning", d) EXCEPT !.think[d.choice] = i], i)

\* Whether the content of the delta is new text; a copy of the reasoning is
\* dropped while the reasoning is open.
HasText(m, d) ==
    d.text = "text" \/ (d.text = "copy" /\ ~d.reason /\ m.think[d.choice] = 0)

\* The first text closes the reasoning.
WithText(m, d) ==
    IF ~HasText(m, d) THEN m
    ELSE IF m.say[d.choice] # 0 THEN Extend(m, m.say[d.choice])
    ELSE LET quiet == [Close(m, m.think[d.choice], "completed") EXCEPT !.think[d.choice] = 0]
             i == Len(m.items) + 1
         IN  Extend([Open(quiet, "text", d) EXCEPT !.say[d.choice] = i], i)

\* The item of the tool call of the delta, 0 for a new one.
CallItem(m, d) ==
    LET found == {i \in DOMAIN m.items : /\ m.items[i].kind = "call"
                                         /\ m.items[i].choice = d.choice
                                         /\ m.items[i].tool = d.call.tool}
    IN  IF found = {} THEN 0 ELSE CHOOSE i \in found : TRUE

\* What json.loads will make of the arguments received so far.
Joined(args, more) ==
    CASE more = "no" -> args
      [] args = "none" /\ more = "object" -> "whole"
      [] args = "none" /\ more = "head" -> "head"
      [] args = "head" /\ more = "tail" -> "whole"
      [] OTHER -> "broken"

\* A new call closes the reasoning and the text of its choice; they may be
\* opened again after it, the reasoning only if no call is open.
WithCall(m, d) ==
    IF d.call = NoCall THEN m ELSE
    LET old == CallItem(m, d)
        c == d.choice
        quiet == [Close(Close(m, m.think[c], "completed"), m.say[c], "completed")
                    EXCEPT !.think[c] = 0, !.say[c] = 0]
        base == IF old # 0 THEN m ELSE Open(quiet, "call", d)
        i == IF old # 0 THEN old ELSE Len(m.items) + 1
        named == [base EXCEPT !.items[i].named = @ \/ d.call.named,
                              !.items[i].args = Joined(@, d.call.args)]
    IN  IF d.call.args = "no" THEN named ELSE Extend(named, i)

----------------------------------------------------------------------------
(* The end of the stream                                                   *)

Reasons == {finished[c] : c \in Choices} \ {"unseen", "no"}
Seen == {c \in Choices : finished[c] # "unseen"}
Unfinished == {c \in Seen : finished[c] = "no"}
InvalidCall(m) ==
    \E i \in DOMAIN m.items : /\ m.items[i].kind = "call"
                              /\ ~m.items[i].named \/ m.items[i].args # "whole"

\* terminal_status; after [DONE] a stream in which no choice has a finish
\* reason counts as finished.
TerminalStatus(m, done, error) ==
    CASE error -> "failed"
      [] ~error /\ "length" \in Reasons -> "incomplete"
      [] ~error /\ "length" \notin Reasons ->
            IF \/ ~done /\ (Seen = {} \/ Unfinished # {})
               \/ done /\ Reasons # {} /\ Unfinished # {}
               \/ Seen = {} \/ m.items = <<>>
               \/ \E c \in Seen \ Unfinished : c \notin productive
               \/ InvalidCall(m)
            THEN "failed" ELSE "completed"

\* What follows the loop of _chat_stream_to_responses_stream: the status is
\* settled, then the open items are closed (EndItem), then it is told.
Finish(done, error) ==
    /\ phase' = "ending" /\ outcome' = TerminalStatus(made, done, error)
    /\ UNCHANGED made

----------------------------------------------------------------------------
(* Steps                                                                   *)

\* The next chunk is only asked for when every event has been taken.
Reading == phase = "streaming" /\ made.sent = <<>>

\* The hop has answered with a stream.
Start ==
    /\ phase = "waiting"
    /\ phase' = "streaming"
    /\ made' = Emit(Emit(made, "created", 0), "in_progress", 0)
    /\ UNCHANGED <<finished, productive, cut, outcome, events, client>>

\* One chunk with a choice; a delta out of order ends the stream.
Consume(d) ==
    /\ Reading /\ d \in Deltas
    /\ finished' = [finished EXCEPT ![d.choice] =
                        IF d.finish # "no" THEN d.finish
                        ELSE IF @ = "unseen" THEN "no" ELSE @]
    /\ events' = events + 1 /\ cut' = FALSE
    /\ IF OutOfOrder(made, d)
       THEN Finish(FALSE, TRUE) /\ UNCHANGED productive
       ELSE LET reasoned == WithReason(made, d)
            IN  /\ made' = WithCall(WithText(reasoned, d), d)
                /\ productive' = IF d.reason \/ d.call # NoCall \/ HasText(reasoned, d)
                                 THEN productive \cup {d.choice} ELSE productive
                /\ UNCHANGED <<phase, outcome>>
    /\ UNCHANGED client

\* A part of an event stays in the buffer.
Piece ==
    /\ Reading
    /\ cut' = TRUE
    /\ UNCHANGED <<phase, made, finished, productive, outcome, events, client>>

\* [DONE], the end of the data, or an error event, a malformed event or an
\* exception.  A part of an event left over at the end is malformed.
EndOfStream(how) ==
    /\ Reading /\ how \in {"done", "end", "error"}
    /\ Finish(how = "done", how = "error" \/ (how = "end" /\ cut))
    /\ UNCHANGED <<finished, productive, cut, events, client>>

\* One event reaches the client.
Send ==
    /\ phase \in {"streaming", "ending"} /\ made.sent # <<>>
    /\ client' = Heard(client, Head(made.sent))
    /\ made' = [made EXCEPT !.sent = Tail(@)]
    /\ phase' = IF Head(made.sent).e = "terminal" THEN "over" ELSE phase
    /\ UNCHANGED <<finished, productive, cut, outcome, events>>

OpenItems == {i \in DOMAIN made.items : made.items[i].status = "in_progress"}

\* Closing ends with "incomplete" whatever is open in a response that is not completed.
ClosedAs == IF outcome = "completed" THEN outcome ELSE "incomplete"

\* Mutant: only the items of calls are left to be closed.
EndItemOfCalls ==
    /\ phase = "ending" /\ made.sent = <<>>
    /\ LET left == {i \in OpenItems : made.items[i].kind = "call"}
       IN  \/ left = {} /\ made' = [made EXCEPT !.sent = <<Terminal(outcome)>>]
           \/ \E i \in left : (\A j \in left : i <= j) /\ made' = Close(made, i, ClosedAs)
    /\ UNCHANGED <<phase, finished, productive, cut, outcome, events, client>>

\* The items that are still open are closed in the order of their indices,
\* then the terminal event is due.
EndItem ==
    /\ phase = "ending" /\ made.sent = <<>>
    /\ \/ OpenItems = {} /\ made' = [made EXCEPT !.sent = <<Terminal(outcome)>>]
       \/ \E i \in OpenItems : (\A j \in OpenItems : i <= j) /\ made' = Close(made, i, ClosedAs)
    /\ UNCHANGED <<phase, finished, productive, cut, outcome, events, client>>

\* What a whole answer has to say, choice by choice: its reasoning, its text
\* unless that only repeats the reasoning, its calls.
Outputs(a) ==
    {o \in (DOMAIN a) \X Kinds :
        LET choice == a[o[1]]
        IN  \/ o[2] = "reasoning" /\ choice.reason
            \/ o[2] = "text" /\ choice.text # "no" /\ ~(choice.text = "copy" /\ choice.reason)
            \/ o[2] = "call" /\ choice.call}
Earlier(p, o) ==
    \/ p[1] < o[1]
    \/ p[1] = o[1] /\ p[2] # o[2] /\ (p[2] = "reasoning" \/ o[2] = "call")

\* Its items: the k-th output is the one with k - 1 before it.
Whole(a) ==
    [k \in 1..Cardinality(Outputs(a)) |->
        LET output == CHOOSE o \in Outputs(a) :
                          Cardinality({p \in Outputs(a) : Earlier(p, o)}) = k - 1
        IN  [kind |-> output[2], status |-> "completed"]]

\* chat_response_to_responses: every item of a whole answer is completed.
Convert(a) ==
    LET cutShort == \E i \in DOMAIN a : a[i].finish = "length"
    IN  /\ phase = "waiting" /\ a \in Answers
        /\ phase' = "over"
        /\ outcome' = (IF cutShort THEN "incomplete"
                       ELSE IF Outputs(a) = {} THEN "failed" ELSE "completed")
        /\ made' = [made EXCEPT !.items = Whole(a)]
        /\ UNCHANGED <<finished, productive, cut, events, client>>

\* proxy_responses hands an error of the hop on as it is.
Refuse ==
    /\ phase = "waiting"
    /\ phase' = "over" /\ outcome' = "error"
    /\ UNCHANGED <<made, finished, productive, cut, events, client>>

\* The client leaves: GeneratorExit passes the except clauses, and the
\* generator ends without a terminal event.
Leave ==
    /\ phase \in {"streaming", "ending"}
    /\ phase' = "gone"
    /\ UNCHANGED <<made, finished, productive, cut, outcome, events, client>>

----------------------------------------------------------------------------

BridgeTypeOK ==
    /\ phase \in {"waiting", "streaming", "ending", "over", "gone"}
    /\ finished \in [Choices -> Finishes \cup {"unseen"}]
    /\ productive \subseteq Seen
    /\ outcome \in {"none", "completed", "incomplete", "failed", "error"}
    /\ \A c \in Choices : /\ made.think[c] \in 0..Len(made.items)
                          /\ made.say[c] \in 0..Len(made.items)
    /\ cut \in BOOLEAN /\ events \in Nat

\* The events keep to the protocol: created and in_progress first, items
\* added at consecutive indices, deltas only between the opening and the
\* closing of a part, every item done once and with its part closed, and one
\* terminal event after everything else.
Protocol == INSTANCE ResponseEvents WITH
    step <- IF phase = "gone" THEN "left" ELSE client.step, items <- client.items
EventSpec == Protocol!Spec

\* When the terminal event has been sent the client has put together exactly
\* the output of the response: the same items, of the same length, with the
\* same status.
ClientHasAll ==
    client.step = outcome =>
        /\ Len(client.items) = Len(made.items)
        /\ \A i \in DOMAIN made.items :
              /\ client.items[i].kind = made.items[i].kind
              /\ client.items[i].pieces = made.items[i].pieces
              /\ client.items[i].status = made.items[i].status

\* A response that is completed has an item, and a streamed one no call that
\* a client could not execute.
CompletedIsUsable ==
    outcome = "completed" =>
        /\ made.items # <<>>
        /\ phase = "over" =>
              \A i \in DOMAIN made.items : made.items[i].status = "completed"
        /\ client.step # "start" =>
              \A i \in DOMAIN made.items : made.items[i].kind = "call" =>
                    made.items[i].named /\ made.items[i].args = "whole"

\* The reasoning of a choice is one item and comes before its answer and its
\* calls, and at most one of its texts and reasonings is open at a time,
\* whatever the deltas of other choices in between.
ReasoningFirst ==
    client.step # "start" =>
        \A i, j \in DOMAIN made.items :
            i < j /\ made.items[i].choice = made.items[j].choice =>
                /\ made.items[j].kind # "reasoning"
                /\ ~ \A k \in {i, j} : /\ made.items[k].kind # "call"
                                       /\ made.items[k].status = "in_progress"
=============================================================================
