--------------------------- MODULE ResponseEvents ---------------------------
(***************************************************************************)
(* The event stream a client of the Responses protocol may rely on.  Items *)
(* are added one after the other; the reasoning and the text items have a  *)
(* part that is opened, extended and closed; a tool call is extended and   *)
(* its arguments are declared final.  Every item is done once, and one     *)
(* terminal event follows all items.                                       *)
(***************************************************************************)
EXTENDS Naturals, Sequences

VARIABLES
    step,       \* start, created, open, the status of the response, or left
    items       \* [kind, part, pieces, status] of the items added so far

vars == <<step, items>>

Statuses == {"completed", "incomplete"}

Init == step = "start" /\ items = <<>>

Create == step = "start" /\ step' = "created" /\ UNCHANGED items

Progress == step = "created" /\ step' = "open" /\ UNCHANGED items

Add(kind) ==
    /\ step = "open"
    /\ items' = Append(items, [kind |-> kind, part |-> "none", pieces |-> 0,
                               status |-> "open"])
    /\ UNCHANGED step

Live(i) == step = "open" /\ items[i].status = "open"

OpenPart(i) ==
    /\ Live(i) /\ items[i].kind # "call" /\ items[i].part = "none"
    /\ items' = [items EXCEPT ![i].part = "open"]
    /\ UNCHANGED step

\* Tool calls have no part of their own.
Growing(i) == items[i].part = IF items[i].kind = "call" THEN "none" ELSE "open"

Delta(i) ==
    /\ Live(i) /\ Growing(i)
    /\ items' = [items EXCEPT ![i].pieces = @ + 1]
    /\ UNCHANGED step

ClosePart(i) ==
    /\ Live(i) /\ Growing(i)
    /\ items' = [items EXCEPT ![i].part = "closed"]
    /\ UNCHANGED step

\* Only a tool call that is incomplete is done without its closing event.
Done(i, status) ==
    /\ Live(i)
    /\ \/ items[i].part = "closed"
       \/ items[i].kind = "call" /\ status = "incomplete"
    /\ items' = [items EXCEPT ![i].status = status]
    /\ UNCHANGED step

\* A completed response has completed items only.
End(status) ==
    /\ step = "open"
    /\ \A i \in DOMAIN items :
          /\ items[i].status # "open"
          /\ status = "completed" => items[i].status = "completed"
    /\ step' = status
    /\ UNCHANGED items

\* The client goes away.
Leave == step # "left" /\ step' = "left" /\ UNCHANGED items

Next ==
    \/ Create \/ Progress \/ Leave
    \/ \E kind \in {"reasoning", "text", "call"} : Add(kind)
    \/ \E i \in DOMAIN items :
          \/ OpenPart(i) \/ Delta(i) \/ ClosePart(i)
          \/ \E status \in Statuses : Done(i, status)
    \/ \E status \in {"completed", "incomplete", "failed"} : End(status)

Spec == Init /\ [][Next]_vars
=============================================================================
