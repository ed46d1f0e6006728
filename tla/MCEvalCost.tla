----------------------------- MODULE MCEvalCost -------------------------------
(* Instances of EvalCost for TLC. *)
EXTENDS EvalCost

\* The requests go through one wrapper, or one is a text and the others prompts
\* that its passages go to.
OneWrapper == {[q \in Request |-> x] : x \in Wrappers}
TextAndPrompt ==
  {[q \in Request |-> IF q = text THEN GuardedEmbedder ELSE RunAnswerCase] : text \in Request}
MCUses == OneWrapper \cup TextAndPrompt
=============================================================================
