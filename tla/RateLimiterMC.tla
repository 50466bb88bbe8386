--------------------------- MODULE RateLimiterMC ---------------------------
(***************************************************************************)
(* Small instance of RateLimiter.  The scaled-down limits keep the order   *)
(* MinTimeout < MaxTimeout and MaxInterval = IdleAfter of the code.        *)
(***************************************************************************)
EXTENDS RateLimiter

CONSTANTS a1, r1, r2, r3

MCOneAccount == {a1}
MCThreeRequests == {r1, r2, r3}

\* -1 is a rejected value, 5 one beyond every clamp.
MCIntervals == {-1, 5}
MCCaps == {-1, 1, 5}
MCTimeouts == {-1, 0}
=============================================================================
