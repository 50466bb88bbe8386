--------------------------- MODULE ChannelLoginMC ---------------------------
(***************************************************************************)
(* Small instance of ChannelLogin: two users who share the desktop client, *)
(* two renewals at once.                                                   *)
(***************************************************************************)
EXTENDS ChannelLogin, TLC

CONSTANTS u1, u2, t1, t2

Same == Permutations({t1, t2})
=============================================================================
