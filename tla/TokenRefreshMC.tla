--------------------------- MODULE TokenRefreshMC ---------------------------
(***************************************************************************)
(* Small instance of TokenRefresh.                                         *)
(***************************************************************************)
EXTENDS TokenRefresh

CONSTANTS a1, t1, t2

MCOneAccount == {a1}
MCTwoTasks == {t1, t2}
=============================================================================
