----------------------------- MODULE DispatchMC -----------------------------
(***************************************************************************)
(* Small instances of Dispatch: three accounts in two channels, the second *)
(* channel in the middle of the order.                                     *)
(***************************************************************************)
EXTENDS Dispatch, TLC

CONSTANTS a1, a2, a3, c1, c2

MCAccounts == {a1, a2, a3}
MCChannelOf == (a1 :> c1) @@ (a2 :> c2) @@ (a3 :> c1)
MCOrder == <<a1, a2, a3>>
=============================================================================
