---------------------------- MODULE MCExperiments -----------------------------
(***************************************************************************)
(* The work that is done between the conversations, side by side: the      *)
(* knowledge base and the five models of the experiments.  What they       *)
(* describe shares no state, so a behaviour is one of KnowledgeFlywheel,   *)
(* PaidCalls, EvalCost, DepthRun, AblationRun or CaseRuns, and the         *)
(* variables of the others rest.                                           *)
(***************************************************************************)
EXTENDS PaidCalls, MCEvalCost, DepthRun, AblationRun, CaseRuns,
        KnowledgeFlywheel, TLC

CONSTANTS c1, c2, t1, t2, s1, s2, i1, i2, w1, w2, mine

VARIABLE which

MCCaller == {c1, c2}
MCBill == {1, 3}
MCTarget == {t1, t2}
MCCase == {s1, s2}
MCItem == {i1, i2}
MCWorker == {w1, w2}
\* The same names again, so that the permutations serve for all.
MCRequest == MCItem
MCWorktree == MCWorker
MCSolution == MCItem
MCWriter == MCWorker
Alike == Permutations(MCItem) \cup Permutations(MCWorker)

Experiments == {"knowledge", "paid", "cost", "depth", "ablation", "cases"}
allVars == <<which, paidVars, costVars, depthVars, ablationVars, caseVars, knowledgeVars>>

Init ==
  /\ which \in Experiments
  /\ PaidInit /\ CostInit /\ DepthInit /\ AblationInit /\ CaseInit /\ KnowledgeInit
  /\ which # "paid" => door = GuardedInvoke
  /\ which # "cases" => runner = Ch15Run
  /\ which # "cost" => using = CHOOSE u \in OneWrapper : TRUE

PaidStep ==
  which = "paid" /\ PaidNext
  /\ UNCHANGED <<which, costVars, depthVars, ablationVars, caseVars, knowledgeVars>>
CostStep ==
  which = "cost" /\ CostNext
  /\ UNCHANGED <<which, paidVars, depthVars, ablationVars, caseVars, knowledgeVars>>
DepthStep ==
  which = "depth" /\ DepthNext
  /\ UNCHANGED <<which, paidVars, costVars, ablationVars, caseVars, knowledgeVars>>
AblationStep ==
  which = "ablation" /\ AblationNext
  /\ UNCHANGED <<which, paidVars, costVars, depthVars, caseVars, knowledgeVars>>
CaseStep ==
  which = "cases" /\ CaseNext
  /\ UNCHANGED <<which, paidVars, costVars, depthVars, ablationVars, knowledgeVars>>
KnowledgeStep ==
  which = "knowledge" /\ KnowledgeNext
  /\ UNCHANGED <<which, paidVars, costVars, depthVars, ablationVars, caseVars>>

Next == PaidStep \/ CostStep \/ DepthStep \/ AblationStep \/ CaseStep \/ KnowledgeStep

Spec == Init /\ [][Next]_allVars

=============================================================================
