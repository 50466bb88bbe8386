---------------------------- MODULE RegistryMC ----------------------------
(***************************************************************************)
(* Small instances of Registry: a new database, one of an old version, and *)
(* one the gateway has served.                                             *)
(***************************************************************************)
EXTENDS Registry, TLC

CONSTANTS k1, r1, r2, u1, u2, p1, p2, w1, c1, c2

MCKeys == {k1}
MCRequests == {r1, r2}
MCLimits == {0, 2}
MCLogins == {u1, u2}
MCProcesses == {p1, p2}
MCPorts == [p \in {p1, p2} |-> IF p = p1 THEN 8787 ELSE 8788]
MCWriters == {w1}
MCClicks == {c1, c2}

\* Never started before.
NewStore == [rows |-> <<>>, last |-> 0, keys |-> {}, aside |-> {},
             hashed |-> TRUE, baseline |-> TRUE, unique |-> FALSE]

\* Plain keys, no baseline, one login twice.
OldStore ==
    LET old(u, d) == [Row(u, "workbuddy", d) EXCEPT !.limit = 2, !.spent = 1]
    IN  [rows |-> <<old(u1, "cn"), old(u1, "cn"), old(u2, "intl")>>, last |-> 3,
         keys |-> {k1}, aside |-> {}, hashed |-> FALSE, baseline |-> FALSE, unique |-> FALSE]

UsedStore == [rows |-> <<Row(u1, "workbuddy-i", "intl")>>, last |-> 1, keys |-> {k1},
              aside |-> {}, hashed |-> TRUE, baseline |-> TRUE, unique |-> TRUE]

MCStores == {NewStore, OldStore, UsedStore}
Scene(clients, operators, days, clicks) ==
    [clients |-> clients, operators |-> operators, days |-> days, clicks |-> clicks]

\* Busy clients; a little of both; busy operators; updates.
MCScenes == {Scene(3, 0, 2, 0), Scene(1, 2, 1, 0), Scene(0, 3, 0, 0), Scene(0, 0, 0, 3)}

Symmetric == Permutations(Requests) \cup Permutations(Clicks)
=============================================================================
