---------------------------- MODULE MCActionTurn ----------------------------
(* Instances of ActionTurn for TLC. *)
EXTENDS ActionTurn

MCMessages ==
  {{"ticket", "create"}, {"ticket", "create", "feasible", "cancel"}, {"preview", "change"},
   {"ticket", "preview", "withhold"}, {"confirm"}}
=============================================================================
