------------------------------ MODULE BridgeMC ------------------------------
(* Two choices, one of them with a tool call; three prompts.            *)
EXTENDS Bridge

CONSTANTS c1, c2, t1, t2

MCChoices == {c1, c2}
MCTools == {t1, t2}

Plain == [choice |-> c1, reason |-> FALSE, text |-> "no", call |-> NoCall, finish |-> "no"]
ToolCall(t, named, args) == [Plain EXCEPT !.call = [tool |-> t, named |-> named, args |-> args]]
MCDeltas ==
    {[Plain EXCEPT !.reason = TRUE, !.text = "copy"],
     [Plain EXCEPT !.text = "copy"], [Plain EXCEPT !.text = "text"],
     [Plain EXCEPT !.reason = TRUE, !.text = "text", !.finish = "stop"],
     [Plain EXCEPT !.finish = "stop"], [Plain EXCEPT !.finish = "length"],
     ToolCall(t1, FALSE, "head"), ToolCall(t1, TRUE, "tail"),
     [ToolCall(t1, TRUE, "object") EXCEPT !.finish = "stop"], ToolCall(t2, TRUE, "object"),
     [Plain EXCEPT !.choice = c2, !.text = "text", !.finish = "stop"]}

\* Nothing to drop; a newest turn beyond the budget; two turns to drop.
MCPrompts == {[old |-> 0, newest |-> 1], [old |-> 1, newest |-> 2], [old |-> 3, newest |-> 1]}

MCAnswers ==
    [{1} -> [reason : BOOLEAN, text : {"no", "text", "copy"}, call : BOOLEAN,
             finish : {"stop", "length"}]]
=============================================================================
