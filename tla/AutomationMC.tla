---------------------------- MODULE AutomationMC ----------------------------
(***************************************************************************)
(* Small instance of Automation: a WorkBuddy account and one of another     *)
(* channel, one administrator, one reader.                                  *)
(***************************************************************************)
EXTENDS Automation

CONSTANTS wb, qo

Kind(a) == IF a = wb THEN "workbuddy" ELSE "other"
Queue == <<wb, qo>>
=============================================================================
