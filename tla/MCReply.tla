------------------------------- MODULE MCReply --------------------------------
(***************************************************************************)
(* Seven parts of an answer that share no state, side by side: the graph    *)
(* that answers a turn, the answer plan that its last node may reply with,  *)
(* the verification of an agent's answer, the tools that a turn is shown    *)
(* and calls, what the agents may do to the pending preview and say of it,  *)
(* a call of the retrieval service, and the calibration of the gate that    *)
(* the service applies.  A behaviour is one of one part, and the variables  *)
(* of the others rest.                                                      *)
(***************************************************************************)
EXTENDS ChatGraph, MCAnswerPlan, MCRetrieval, EvidenceGate, AnswerVerification,
        ToolCalls, MCActionTurn

VARIABLE part

replyVars == <<part, graphVars, planVars, retrievalVars, gateVars, verifyVars,
              toolVars, actionVars>>

MCQuery == {"q", "s1", "s2"}
MCChunk == {"a", "b"}

MCFallback == [top1 |-> 2, effective |-> 2, count |-> 1, margin |-> 0, combined |-> 18]
KindNo == "hard" :> 1 @@ "missed" :> 2 @@ "ood" :> 3 @@ "positive" :> 4

\* An answer about the right order or another, its day, a version of the policy,
\* and a value, cited in this order or that; numbers are those of what is stated.
Numeral == "o1" :> 101 @@ "o2" :> 102 @@ "w1" :> 12 @@ "w2" :> 24 @@ "v1" :> 1 @@ "v2" :> 2
Numbers(words, days) == {Numeral[w] : w \in words \ {Nothing}} \cup {20 + d : d \in days}
Says(cites, orders, day, version, value) ==
  [cites |-> cites, orders |-> orders, day |-> day, version |-> version, value |-> value,
   numbers |-> Numbers(orders \cup {version, value}, {day} \ {NoDay}), corrects |-> day = 2]
MCSentence ==
  {Says(<<1>>, {"o1"}, 1, Nothing, Nothing), Says(<<1>>, {"o1"}, 2, Nothing, Nothing),
   Says(<<2>>, {"o2"}, NoDay, Nothing, Nothing), Says(<<>>, {}, NoDay, Nothing, Nothing),
   Says(<<1, 2>>, {}, NoDay, Nothing, "w1"), Says(<<2, 1>>, {}, NoDay, Nothing, "w1"),
   Says(<<1, 2>>, {"o1"}, 1, "v1", Nothing), Says(<<1, 2>>, {}, 1, "v2", Nothing),
   Says(<<1, 2>>, {}, 2, "v2", Nothing)}
States(orders, days, value, rules) ==
  [orders |-> orders, days |-> days, value |-> value, rules |-> rules,
   numbers |-> Numbers(orders \cup rules \cup {value}, days) \cup {ReturnDays(v) : v \in rules}]
NoFacts == States({}, {}, Nothing, {})
MCEvidence ==
  {[head |-> States({"o1"}, {1}, Nothing, {}), tail |-> NoFacts, rows |-> {[order |-> "o1", day |-> 1]}],
   [head |-> States({"o2"}, {2}, Nothing, {}), tail |-> NoFacts, rows |-> {[order |-> "o2", day |-> 2]}],
   [head |-> States({}, {}, "w2", {"v1"}), tail |-> States({}, {}, "w1", {}), rows |-> {}],
   [head |-> States({}, {}, "w1", {"v2"}), tail |-> NoFacts, rows |-> {}]}
NoQuestion == [orders |-> {}, days |-> {}]
MCAsked == {NoQuestion, [orders |-> {"o1"}, days |-> {}], [orders |-> {"o1"}, days |-> {2}]}

MCBuiltin == "ticket" :> "write"
Tool(name, access) == [name |-> name, access |-> access]
MCPlugins == << <<Tool("ship", "read"), Tool("ticket", "read")>> >>
MCDebug == <<Tool("ship", "read"), Tool("slow", "write")>>
MCServer == <<"s1", "s2">>
MCList == {{"ship"}, {"ticket", "slow"}}

\* One initial state of each part that rests; samples in the order of their kinds.
Init ==
  /\ part \in {"graph", "plan", "retrieval", "gate", "verify", "tools",
             "action"}
  /\ part # "graph" => setup = CHOOSE s \in Setups : TRUE
  /\ part # "retrieval" => slate = TRUE /\ library = [c \in ChunkId |-> "new"]
  /\ part # "gate" => samples = [c \in Case |-> CHOOSE s \in [scores : ScoreLists, kind : Kinds] : TRUE]
  /\ part # "verify" => mode = "off" /\ cited = <<>> /\ draft = <<>> /\ asked = NoQuestion
  /\ GraphInit /\ PlanInit /\ RetrievalInit /\ GateInit /\ VerifyInit /\ ToolInit
  /\ ActionInit
  /\ part # "tools" => audited
  /\ (part = "tools" /\ audited) \/ offers = [s \in Servers |-> {"ship"}]
  /\ part = "gate" =>
       \A c, d \in Case : c < d => KindNo[samples[c].kind] <= KindNo[samples[d].kind]

Graph ==
  /\ part = "graph" /\ GraphNext
  /\ UNCHANGED <<part, planVars, retrievalVars, gateVars, verifyVars, toolVars, actionVars>>
Plan ==
  /\ part = "plan" /\ PlanNext
  /\ UNCHANGED <<part, graphVars, retrievalVars, gateVars, verifyVars, toolVars, actionVars>>
Search ==
  /\ part = "retrieval" /\ RetrievalNext
  /\ UNCHANGED <<part, graphVars, planVars, gateVars, verifyVars, toolVars, actionVars>>
Fitting ==
  /\ part = "gate" /\ GateNext
  /\ UNCHANGED <<part, graphVars, planVars, retrievalVars, verifyVars, toolVars, actionVars>>
Verifying ==
  /\ part = "verify" /\ VerifyNext
  /\ UNCHANGED <<part, graphVars, planVars, retrievalVars, gateVars, toolVars, actionVars>>

Tools ==
  /\ part = "tools" /\ ToolNext
  /\ UNCHANGED <<part, graphVars, planVars, retrievalVars, gateVars, verifyVars,
                 actionVars>>
AgentsAct ==
  /\ part = "action" /\ ActionNext
  /\ UNCHANGED <<part, graphVars, planVars, retrievalVars, gateVars, verifyVars,
                 toolVars>>

Next == Graph \/ Plan \/ Search \/ Fitting \/ Verifying \/ Tools \/ AgentsAct

Spec == Init /\ [][Next]_replyVars

=============================================================================
