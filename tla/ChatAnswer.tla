----------------------------- MODULE ChatAnswer -----------------------------
(***************************************************************************)
(* What the client of a streamed chat completion is promised, whatever     *)
(* accounts the gateway tries behind the scenes: every delta comes from one*)
(* account, the stream either completes, and then that account has been    *)
(* credited with the answer, or fails, never both, and nothing follows.    *)
(***************************************************************************)
CONSTANTS
    Accounts,
    None        \* no account

VARIABLES
    phase,      \* silent, speaking, settled, complete, failed or gone
    who         \* the account whose output the client has, or None

vars == <<phase, who>>

Init == phase = "silent" /\ who = None

\* The first delta reaches the client; later ones change nothing here.
Speak(a) ==
    /\ phase = "silent"
    /\ phase' = "speaking" /\ who' = a

\* The answer is whole and its account is credited.
Settle(a) ==
    /\ phase \in {"silent", "speaking"} /\ who \in {None, a}
    /\ phase' = "settled" /\ who' = a

Complete == phase = "settled" /\ phase' = "complete" /\ UNCHANGED who

\* An error frame, also after the answer was settled (a stalled tool turn).
Fail ==
    /\ phase \in {"silent", "speaking", "settled"}
    /\ phase' = "failed" /\ UNCHANGED who

\* The client goes away.
Leave ==
    /\ phase \in {"silent", "speaking", "settled"}
    /\ phase' = "gone" /\ UNCHANGED who

Next == \/ \E a \in Accounts : Speak(a) \/ Settle(a)
        \/ Complete \/ Fail \/ Leave

Spec == Init /\ [][Next]_vars
=============================================================================
