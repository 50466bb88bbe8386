------------------------------- MODULE Bridge -------------------------------
(***************************************************************************)
(* A Responses request over one hop: Responses reads its chat stream from  *)
(* the guard of ContextRecovery, chunk by chunk, and closes it when it is  *)
(* done with it.  The wrappers in between (streaming.ClosingStream) hand   *)
(* every close down to the stream of the provider.                         *)
(***************************************************************************)
EXTENDS ContextRecovery, Responses

CONSTANT MaxEvents      \* bound: deltas in one answer

vars == <<recovery, bridge>>

Init == RecoveryInit /\ BridgeInit

\* proxy_responses gets the result of the hop.
TakeReply ==
    /\ phase = "waiting" /\ reply # "none"
    /\ IF reply = "stream" THEN Start
       ELSE IF reply = "json" THEN \E a \in Answers : Convert(a)
       ELSE Refuse
    /\ UNCHANGED recovery

\* The mailbox is emptied; the stream behind it stays as it is, or is closed
\* because the bridge has left its loop.
Taken == mail' = "none" /\ UNCHANGED <<at, hop, open, buffered, reply, read>>

TakenLast == Abandon

\* The bridge reads the next chunk.  A part of an event may turn out to be
\* the whole of a malformed one.
TakeChunk ==
    \/ mail = "delta" /\ Taken /\ (\E d \in Deltas : ~OutOfOrder(made, d) /\ Consume(d))
    \/ mail = "delta" /\ TakenLast /\ (\E d \in Deltas : OutOfOrder(made, d) /\ Consume(d))
    \/ mail = "piece" /\ Taken /\ Piece
    \/ mail = "piece" /\ TakenLast /\ EndOfStream("error")
    \/ mail = "done" /\ TakenLast /\ EndOfStream("done")
    \/ mail = "end" /\ TakenLast /\ EndOfStream("end")
    \/ mail \in Errors \cup Readable \cup {"broken"} /\ TakenLast /\ EndOfStream("error")

HangUp == Leave /\ Abandon

\* The layer below works while the bridge waits for the next chunk.
Below ==
    /\ IF reply = "stream" THEN Reading ELSE phase = "waiting"
    /\ RecoveryStep
    /\ mail' = "delta" => events < MaxEvents
    /\ UNCHANGED bridge

\* The bridge hands out events and closes the items at the end.
Speak == (Send \/ EndItem) /\ UNCHANGED recovery

Next == TakeReply \/ TakeChunk \/ HangUp \/ Below \/ Speak

\* The event loop runs what is ready.
Spec == Init /\ [][Next]_vars /\ WF_vars(TakeReply \/ TakeChunk \/ Speak)

\* An answer that is over below, however it ended, is over for the client: it
\* gets its terminal event or has left.
AnswerIsClosed == at = "ended" /\ reply # "none" ~> phase \in {"over", "gone"}

\* Behind a response that is over, or whose client has left, no stream of the
\* hop is open: its slot went back with the last event.
NothingLeftOpen == phase \in {"ending", "over", "gone"} => open = {} /\ mail = "none"

\* Above the guard nothing shows of its retry: the parts come in order and once,
\* one slot is held at a time, and all of them are given back.
GuardIsInvisible == RecoveryTypeOK /\ OneSlotAtATime /\ GuardKeepsOrder /\ NothingLeftOpen

\* A client that reads the events has put the whole response together, item by
\* item, and can act on it if it is told complete.
ResponseIsWhole == BridgeTypeOK /\ ClientHasAll /\ CompletedIsUsable /\ ReasoningFirst
=============================================================================
