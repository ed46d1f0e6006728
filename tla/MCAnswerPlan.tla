----------------------------- MODULE MCAnswerPlan -----------------------------
(* Instance of AnswerPlan for TLC: two pieces of evidence, one with a condition,
   two entities and a scope, and claims of which some hold and the others break
   one rule each, or two.  One holds by its value and says something else. *)
EXTENDS AnswerPlan

Always == [version |-> "", from |-> 0, to |-> 9]
V1 == [version |-> "v1", from |-> 1, to |-> 2]
TwoYears == [number |-> 2, unit |-> "year"]
OneYear == [number |-> 1, unit |-> "year"]
Dry == [number |-> 0, unit |-> ""]
MCCandidate ==
  {[id |-> "e1", entities |-> {"x"}, values |-> {TwoYears}, conditions |-> {}, scope |-> Always],
   [id |-> "e2", entities |-> {"x", "y"}, values |-> {OneYear, Dry}, conditions |-> {"k"}, scope |-> V1]}
B(id, quote) == [id |-> id, quote |-> quote]
Plain == [evidence |-> <<B("e1", "exact")>>, entities |-> {"x"}, value |-> TwoYears,
          text |-> {TwoYears}, conditions |-> {}, version |-> "", date |-> 0]
MCClaim ==
  {Plain,
   [Plain EXCEPT !.evidence = <<B("e2", "exact")>>, !.value = NoValue, !.text = {Dry}, !.conditions = {"k"}],
   [Plain EXCEPT !.evidence = <<B("e2", "exact"), B("e1", "exact")>>, !.conditions = {"k"}, !.version = "v1", !.date = 2],
   [Plain EXCEPT !.evidence = <<B("e2", "exact")>>, !.conditions = {"k"}, !.version = "v2", !.date = 3],
   [Plain EXCEPT !.evidence = <<B("e2", "exact")>>, !.value = OneYear, !.text = {OneYear, Dry}],
   [Plain EXCEPT !.value = OneYear],
   [Plain EXCEPT !.text = {OneYear}],
   [Plain EXCEPT !.evidence = <<B("e1", "absent"), B("e3", "exact")>>],
   [Plain EXCEPT !.evidence = <<>>],
   [Plain EXCEPT !.value = NoValue, !.text = {Dry}],
   [Plain EXCEPT !.entities = {"y"}]}

MCFewClaims ==
  {c \in MCClaim : c.conditions = {"k"} /\ c.version = ""} \cup
  {Plain, [Plain EXCEPT !.value = NoValue, !.text = {Dry}]}

=============================================================================
