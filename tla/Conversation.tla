---------------------------- MODULE Conversation ----------------------------
(***************************************************************************)
(* What happens to the history of a request on its way to the upstream:     *)
(* items of the Responses interface become chat messages, the oldest        *)
(* history is dropped until a limit is met, and each channel rearranges     *)
(* tool calls and their results the way its upstream wants them.            *)
(*                                                                         *)
(* A message is a record of its role, the ids of the calls it makes, the id *)
(* of the call it answers, its number in the request (0: the gateway wrote  *)
(* it), and the numbers of the prompts whose text was put in front of its   *)
(* own.  Roles are those of the code; "reasoning" and "aside" are items of  *)
(* the Responses interface that have no chat message.                       *)
(***************************************************************************)
EXTENDS Naturals, SequencesExt

CONSTANTS
    Ids,            \* ids of tool calls
    NoId            \* no call is answered

Roles == {"system", "user", "assistant", "tool", "reasoning", "aside"}

IsResult(x) == x.role = "tool"
IsSystem(x) == x.role = "system"
IsUser(x) == x.role = "user"
Unsystematic(s) == SelectSeq(s, LAMBDA x : ~IsSystem(x))
IsCarrier(x) == IsResult(x) \/ x.calls # {}
IsGluedToCalls(x) == IsCarrier(x)
IsGlued(x) == IsCarrier(x) \/ x.role = "reasoning"

----------------------------------------------------------------------------
(* Trimming.  A tool result weighs twice as much as any other message.     *)

Weight(s) == FoldLeft(LAMBDA w, x : w + (IF IsResult(x) THEN 2 ELSE 1), 0, s)

\* Adjacent tool calls, results and reasoning are one segment.
Segments(s) ==
    LET extend(segs, x) ==
            IF segs # <<>> /\ IsGlued(x) /\ IsGlued(Last(Last(segs)))
            THEN Append(Front(segs), Append(Last(segs), x))
            ELSE Append(segs, <<x>>)
    IN  FoldLeft(extend, <<>>, s)

\* The segment to drop: the oldest that is not a system prompt, the newest
\* apart, else the oldest.
Oldest(segs) ==
    SelectInSeq([i \in 1..(Len(segs) - 1) |->
                    \E j \in DOMAIN segs[i] : ~IsSystem(segs[i][j])],
                LAMBDA spoken : spoken)

Trimmed(s, limit) ==
    LET drop(segs, i) ==
            IF Weight(FlattenSeq(segs)) <= limit \/ Len(segs) = 1 THEN segs
            ELSE RemoveAt(segs, IF Oldest(segs) = 0 THEN 1 ELSE Oldest(segs))
    IN  FlattenSeq(FoldLeft(drop, Segments(s), Segments(s)))

----------------------------------------------------------------------------
(* Responses items to chat messages: adjacent calls are one turn.          *)

ToChat(s) ==
    LET add(out, x) ==
            IF x.role \in {"reasoning", "aside"} THEN out
            ELSE IF x.calls # {} /\ out # <<>> /\ Last(out).calls # {}
            THEN Append(Front(out), [Last(out) EXCEPT !.calls = @ \cup x.calls])
            ELSE Append(out, x)
    IN  FoldLeft(add, <<>>, s)

----------------------------------------------------------------------------
(* What the channels send                                                  *)

\* A turn is an assistant message that calls tools and all that follows it up
\* to the next one; what precedes the first is a turn without calls.
Turns(s) ==
    LET extend(turns, x) ==
            IF turns = <<>> \/ x.calls # {} THEN Append(turns, <<x>>)
            ELSE Append(Front(turns), Append(Last(turns), x))
    IN  FoldLeft(extend, <<>>, s)

AnswersCall(turn, x) == IsResult(x) /\ x.answers \in Head(turn).calls
Matches(turn) == SelectSeq(Tail(turn), LAMBDA x : AnswersCall(turn, x))
Between(turn) == SelectSeq(Tail(turn), LAMBDA x : ~AnswersCall(turn, x))

CalledIn(s) == UNION {s[i].calls : i \in DOMAIN s}
AnsweredIn(s) == {s[i].answers : i \in {j \in DOMAIN s : IsResult(s[j])}}

\* WorkBuddy: one system prompt, the gateway's own.  The client's are read by a
\* filter upstream, so their text moves in front of the first user message.
Prompts(s) == [i \in DOMAIN SelectSeq(s, IsSystem) |-> SelectSeq(s, IsSystem)[i].n]
Authored(role, prompts) ==
    [role |-> role, calls |-> {}, answers |-> NoId, n |-> 0, before |-> prompts]
Folded(s, prompts) ==
    LET first == SelectInSeq(s, IsUser)
    IN  IF first = 0 THEN <<Authored("user", prompts)>> \o s
        ELSE [s EXCEPT ![first].before = prompts]
Relocated(s) ==
    IF Prompts(s) = <<>> THEN s
    ELSE <<Authored("system", <<>>)>> \o Folded(Unsystematic(s), Prompts(s))
Led(s) ==
    IF s = <<>> \/ IsSystem(Head(s)) THEN s ELSE <<Authored("system", <<>>)>> \o s

\* Then results directly after their call, then only the calls and the
\* results that have each other.
Repacked(s) ==
    LET repack(turn) == <<Head(turn)>> \o Matches(turn) \o Between(turn)
    IN  FlattenSeq([i \in DOMAIN Turns(s) |-> repack(Turns(s)[i])])
WithoutOrphans(s) ==
    LET paired == CalledIn(s) \cap AnsweredIn(s)
        kept == SelectSeq(s, LAMBDA x : IsResult(x) => x.answers \in paired)
    IN  [i \in DOMAIN kept |-> [kept[i] EXCEPT !.calls = @ \cap paired]]

\* Qoder: the same turn by turn, and a result without its call is told as a
\* user's note.
Noted(s) ==
    [i \in DOMAIN s |->
        IF IsResult(s[i]) THEN [s[i] EXCEPT !.role = "user", !.answers = NoId] ELSE s[i]]
Answered(turn) ==
    [Head(turn) EXCEPT !.calls = @ \cap AnsweredIn(Matches(turn))]
QoderTurns(s) ==
    LET repair(turn) == Noted(<<Answered(turn)>>) \o Matches(turn) \o Noted(Between(turn))
    IN  FlattenSeq([i \in DOMAIN Turns(s) |-> repair(Turns(s)[i])])

\* TraeWork: no result of a call that is not in the history.
WithoutStrangers(s) ==
    SelectSeq(s, LAMBDA x : IsResult(x) => x.answers \in CalledIn(s))

\* QwenWork: the system prompts first, as one.
SystemFirst(s) ==
    IF Prompts(s) = <<>> THEN s
    ELSE <<Authored("system", Prompts(s))>> \o Unsystematic(s)

Outbound(kind, s) ==
    CASE kind = "workbuddy" -> WithoutOrphans(Repacked(Led(Relocated(s))))
      [] kind = "qoder" -> QoderTurns(s)
      [] kind = "traework" -> WithoutStrangers(s)
      [] kind = "qwenwork" -> SystemFirst(s)
      [] kind = "plain" -> s

\* A TraeWork request needs a user turn.
Postable(kind, s) == kind = "traework" => \E i \in DOMAIN s : IsUser(s[i])

----------------------------------------------------------------------------
(* What an upstream accepts, and what is to be expected of the above       *)

\* Every result follows its call with nothing but results between, and every
\* call has its result there.
Valid(s) ==
    LET follows(i, j) == /\ i < j /\ s[j].answers \in s[i].calls
                         /\ \A k \in (i + 1)..j : IsResult(s[k])
    IN  /\ \A j \in DOMAIN s : IsResult(s[j]) => \E i \in DOMAIN s : follows(i, j)
        /\ \A i \in DOMAIN s : \A id \in s[i].calls :
              \E j \in DOMAIN s : follows(i, j) /\ s[j].answers = id

\* Ids are used for one call each, and answered before the next turn or not at
\* all.
Orderly(s) ==
    /\ \A i, j \in DOMAIN s : i # j => s[i].calls \cap s[j].calls = {}
    /\ \A t \in DOMAIN Turns(s) :
          \A x \in ToSet(Turns(s)[t]) :
             IsResult(x) /\ x.answers \in CalledIn(s)
                => x.answers \in Head(Turns(s)[t]).calls

\* What a trim leaves of a history, said without a loop: the newest segment;
\* all system prompts unless nothing else is left to drop; what follows a
\* message that stayed; and no more is dropped than the limit asks for.
Numbers(s) == {s[i].n : i \in DOMAIN s}
FairTrim(s, limit, t) ==
    LET segs == Segments(s)
        dropped == {i \in DOMAIN segs : Numbers(segs[i]) \cap Numbers(t) = {}}
        spoken == {i \in 1..(Len(segs) - 1) : \E x \in ToSet(segs[i]) : ~IsSystem(x)}
        lastDropped == IF dropped \subseteq spoken THEN spoken \cap dropped
                       ELSE dropped \ spoken
        back == CHOOSE i \in lastDropped : \A j \in lastDropped : j <= i
        kept == DOMAIN segs \ dropped
        joined(K) == FlattenSeq([i \in DOMAIN segs |-> IF i \in K THEN segs[i] ELSE <<>>])
    IN  s # <<>> =>
        /\ t = joined(kept) /\ Len(segs) \in kept
        /\ \A i \in dropped \cap spoken : \A j \in spoken : j < i => j \in dropped
        /\ dropped \subseteq spoken \/ spoken \subseteq dropped
        /\ Weight(t) <= limit \/ kept = {Len(segs)}
        /\ dropped # {} => Weight(joined(kept \cup {back})) > limit
=============================================================================
