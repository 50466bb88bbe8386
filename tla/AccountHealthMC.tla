-------------------------- MODULE AccountHealthMC --------------------------
(***************************************************************************)
(* Small instances of AccountHealth: bases, caps and the decay window are  *)
(* scaled down in the same order as in the code (plain < auth < cap < hint *)
(* cap, decay between the backoff cap and the hint cap).                   *)
(***************************************************************************)
EXTENDS AccountHealth

CONSTANTS a1, r1, r2, r3

MCOneAccount == {a1}
MCThreeRequests == {r1, r2, r3}

\* No hint, one below the cap and one far beyond it.
MCHints == {0, 2, 9}
=============================================================================
