---------------------------- MODULE MCDecisionLog ----------------------------
(***************************************************************************)
(* Five lines are enough for two background appends, a final flush, and a   *)
(* line written during each.                                                *)
(***************************************************************************)
EXTENDS DecisionLog
=============================================================================
