------------------------------ MODULE RequestMC -----------------------------
(***************************************************************************)
(* Small instance of Request: three channels in service and one that is     *)
(* not, four accounts, three models.  Three families of starts: every kind  *)
(* of key, name, alias, mark and state of the accounts with one message;    *)
(* some of them while something changes; and many histories, in channels of *)
(* every kind, with and without limits.                                     *)
(***************************************************************************)
EXTENDS Request

CONSTANTS wb, qo, xx, off, auto, fast, deep, ca, cb

Owner == <<wb, wb, qo, xx>>
Aliases == [c \in Channels |-> [m \in Models |->
    CASE c = wb /\ m = auto -> fast
      [] c = qo /\ m = auto -> deep
      [] OTHER -> None]]
Static == [c \in Channels |->
    CASE c = wb -> {fast} [] c = qo -> {fast, deep} [] c = xx -> {deep} [] OTHER -> {}]

----------------------------------------------------------------------------
Empty == [c \in Channels |-> {}]
NoAlias == [c \in Channels |-> [m \in Models |-> None]]
Live(status, priority, weight, zero) ==
    [status |-> status, priority |-> priority, weight |-> weight, zero |-> zero]
Fresh == Live("active", 0, 1, FALSE)
Gone == Live("inactive", 0, 1, FALSE)
Lapsed == Live("expired", 0, 1, FALSE)
Drained == Live("active", 0, 1, TRUE)

Message(role, calls, answers) ==
    [role |-> role, calls |-> calls, answers |-> answers, n |-> 0, before |-> <<>>]
Say(role) == Message(role, {}, NoId)
Call(ids) == Message("assistant", ids, NoId)
Result(id) == Message("tool", {}, id)
Numbered(s) == [i \in DOMAIN s |-> [s[i] EXCEPT !.n = i]]

NoSticky == [c \in Channels |-> None]
AllFresh == [a \in Roster |-> Fresh]
MainKinds == [c \in Channels |->
    CASE c = wb -> "workbuddy" [] c = qo -> "qoder" [] OTHER -> "plain"]
OtherKinds == [MainKinds EXCEPT ![wb] = "traework", ![qo] = "qwenwork"]
Unbound == [channel |-> AnyChannel, allowed |-> {}]

\* One start: an unlimited key asks for auto with one message.
Single == [
    catalog |-> {Empty}, extras |-> {Empty}, marks |-> {Empty}, alias |-> {NoAlias},
    order |-> {<<wb, qo, xx>>}, row |-> {AllFresh}, cooling |-> {{}}, sticky |-> {NoSticky},
    kind |-> {MainKinds}, key |-> {Unbound}, name |-> {Bare(auto)}, cross |-> {TRUE},
    limited |-> {FALSE}, api |-> {"chat"}, items |-> {Numbered(<<Say("user")>>)},
    codex |-> {0}, budget |-> {0}, moves |-> {0}]

Rows == {AllFresh,
         [AllFresh EXCEPT ![1] = Drained, ![2] = Drained],
         <<Live("active", 0, 1, TRUE), Live("active", 0, 2, FALSE), Lapsed, Fresh>>,
         <<Fresh, Live("active", 1, 1, FALSE), Live("active", 1, 1, TRUE), Gone>>,
         <<Lapsed, Gone, Lapsed, Gone>>}
Keys == [channel : {AnyChannel, wb, qo, off},
         allowed : {{}, {Bare(fast)}, {Of(qo, deep)}}]
Mark == {Empty, [Empty EXCEPT ![wb] = {fast}], [Empty EXCEPT ![qo] = {fast, deep}]}
Remaps == {NoAlias, [NoAlias EXCEPT ![xx][fast] = deep, ![wb][deep] = fast]}
Stickies == {[NoSticky EXCEPT ![wb] = a] : a \in {None, 1, 2}}

Situations ==
    [Single EXCEPT !.key = Keys, !.name = Names, !.row = Rows, !.marks = Mark,
                   !.alias = Remaps, !.cross = BOOLEAN, !.sticky = Stickies]

Changing ==
    [Single EXCEPT
        !.key = {Unbound, [channel |-> qo, allowed |-> {Bare(fast), Of(qo, deep)}]},
        !.name = {Bare(auto), Bare(fast)},
        !.row = {[AllFresh EXCEPT ![1] = Drained], <<Lapsed, Gone, Lapsed, Gone>>},
        !.marks = {Empty, [Empty EXCEPT ![wb] = {fast}]},
        !.catalog = {Empty, [Empty EXCEPT ![wb] = {auto, fast}]},
        !.cross = BOOLEAN, !.limited = {TRUE}, !.moves = {1}]

----------------------------------------------------------------------------
Chats == {Say("system"), Say("user"), Say("assistant"), Call({ca}), Call({cb}),
          Call({ca, cb}), Result(ca), Result(cb)}
Items == (Chats \ {Call({ca, cb})}) \cup {Say("reasoning"), Say("aside")}
Blocks == {<<Say("system")>>, <<Say("user")>>,
           <<Call({ca}), Result(ca)>>, <<Call({cb}), Result(cb)>>,
           <<Call({ca}), Say("user"), Result(ca)>>, <<Call({ca}), Say("assistant")>>}
Upto(S, n) == UNION {[1..i -> S] : i \in 1..n}
Prompted == {<<Say("user")>> \o s : s \in Upto(Chats, 3)}
Joined == {FlattenSeq(s) : s \in Upto(Blocks, 3)}

Talk ==
    [Single EXCEPT !.kind = {MainKinds, OtherKinds}, !.name = {Bare(fast)},
                   !.alias = {[NoAlias EXCEPT ![xx][fast] = deep]},
                   !.row = {[AllFresh EXCEPT ![2] = Gone]}, !.budget = {0, 3}]
Thoughtful ==
    {<<Call({ca}), Say("reasoning"), Result(ca)>> \o s : s \in Upto(Items, 2)}
ChatTalk ==
    [Talk EXCEPT !.items = {Numbered(s) : s \in Upto(Chats, 3) \cup Prompted \cup Joined}]
ResponsesTalk ==
    [Talk EXCEPT !.items = {Numbered(s) : s \in Upto(Items, 3) \cup Joined \cup Thoughtful},
                 !.api = {"responses"}, !.codex = {0, 4}]

Cases == {Situations, Changing, ChatTalk, ResponsesTalk}
=============================================================================
