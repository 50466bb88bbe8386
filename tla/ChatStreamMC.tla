---------------------------- MODULE ChatStreamMC ----------------------------
(* Two accounts, up to two choices, the deltas that matter.                *)
EXTENDS ChatStream, TLC

CONSTANTS a1, a2, c1, c2

MCAccounts == {a1, a2}
MCChoices == {c1, c2}

\* c1 answers in text, c2 with a tool call or not at all.
MCDeltas ==
    [choice : {c1}, part : {"text", "nothing"}, finish : {"no", "stop", "length"}]
    \cup [choice : {c2}, part : {"call", "args", "clash"}, finish : {"no", "tool_calls"}]
    \cup {[choice |-> c2, part |-> "text", finish |-> "stop"],
          [choice |-> None, part |-> "nothing", finish |-> "no"]}
=============================================================================
