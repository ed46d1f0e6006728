------------------------------- MODULE AnswerPlan -------------------------------
(***************************************************************************)
(* The optional answer plan (app/answer_plan): a model writes a plan of    *)
(* claims bound to quotes of the numbered evidence, the plan is validated  *)
(* against the evidence, repaired at most once, validated again, and       *)
(* rendered as a reply with its citations.                                 *)
(*                                                                         *)
(* A quote is in the evidence it names, is not, or is most of it.  A value *)
(* is a number with a unit, or a statement, which has no unit; the values  *)
(* of an evidence are those its quotes state.  A claim has a text, with    *)
(* the values its parts state, and may have one value beside it: two       *)
(* fields that the model fills in.  Spans and wording are left out; so are *)
(* aliases of conditions, which count as the condition.                    *)
(***************************************************************************)
EXTENDS Integers, Sequences, FiniteSets, SequencesExt, Subsequences

CONSTANTS
  Candidate,      \* evidence: id, entities, values, conditions, scope
  Claim,          \* claims the model may write
  MaxClaims,      \* bound: claims of a plan
  MaxCorrections  \* repairs (1 in the source)

ASSUME PlanAssumption ==
  /\ MaxClaims \in Nat /\ MaxCorrections \in {0, 1}
  /\ \A c \in Claim : c.evidence \in Seq(ToSet(c.evidence))

VARIABLES
  at,           \* step of the pipeline
  plan,         \* the plan
  corrections,  \* repairs so far
  rendered,     \* the reply
  frame         \* the citations frame, as evidence by number

planVars == <<at, plan, corrections, rendered, frame>>

Absent == "absent"
NoValue == [number |-> 0, unit |-> Absent]
NoReply == [kind |-> Absent, lines |-> <<>>, rest |-> 0, limits |-> FALSE, used |-> <<>>]

Disposition == {"answer", "clarify", "limited_help", "refuse"}
Plans == [disposition : Disposition, claims : BoundedSeq(Claim, MaxClaims),
          question : BOOLEAN, limits : BOOLEAN]

-----------------------------------------------------------------------------
(* Validation. *)

ById(id) == CHOOSE c \in Candidate : c.id = id
Known(id) == \E c \in Candidate : c.id = id

\* The issue a binding gives rise to, or "".
BindingIssue(b) ==
  CASE ~Known(b.id) -> "evidence_id_missing"
    [] Known(b.id) /\ b.quote = "large" -> "quote_too_large"
    [] Known(b.id) /\ b.quote = Absent -> "quote_not_found"
    [] OTHER -> ""

Bindings(claim) == ToSet(claim.evidence)

\* Candidates of the bindings that hold.
BoundCandidates(claim) ==
  {ById(b.id) : b \in {d \in Bindings(claim) : BindingIssue(d) = ""}}

\* The entities of an evidence are those in its text (candidates_from_state_evidence).
SubjectIssues(claim) ==
  LET entities == UNION {c.entities : c \in BoundCandidates(claim)}
  IN  IF claim.entities = {} \/ claim.entities \subseteq entities THEN {}
      ELSE IF entities # {} THEN {"subject_conflict"} ELSE {"subject_not_in_evidence"}

Quantities(values) == {v \in values : v.unit # ""}

\* A claim's value, with its unit, has to be among those quoted; what its text
\* says is looked at only when there is no value, and one part of it is enough.
Anchored(claim, values) ==
  IF claim.value # NoValue THEN claim.value \in Quantities(values)
  ELSE claim.text \cap values # {}

\* The same number of something else, or another number of the same, is a conflict.
ValueIssues(claim) ==
  LET values == UNION {c.values : c \in BoundCandidates(claim)}
      close == {v \in Quantities(values) :
                  v.unit = claim.value.unit \/ v.number = claim.value.number}
  IN  CASE Anchored(claim, values) -> {}
        [] ~Anchored(claim, values) /\ claim.value # NoValue /\ close # {} ->
             {"number_unit_conflict"}
        [] OTHER -> {"claim_not_anchored"}

ConditionIssues(claim) ==
  IF \A c \in BoundCandidates(claim) : c.conditions \subseteq claim.conditions
  THEN {} ELSE {"condition_omitted"}

\* Dates are looked at only when the claim names a version.
PolicyIssues(claim) ==
  LET scopes == {c.scope : c \in BoundCandidates(claim)} IN
  IF claim.version = "" THEN {}
  ELSE (IF \E s \in scopes : s.version \notin {"", claim.version}
        THEN {"policy_version_conflict"} ELSE {})
       \cup
       (IF claim.date # 0 /\ \E s \in scopes : claim.date \notin s.from .. s.to
        THEN {"policy_date_conflict"} ELSE {})

Issues(claim) ==
  (IF claim.evidence = <<>> THEN {"evidence_missing"} ELSE {})
  \cup ({BindingIssue(b) : b \in Bindings(claim)} \ {""})
  \cup SubjectIssues(claim) \cup ValueIssues(claim)
  \cup ConditionIssues(claim) \cup PolicyIssues(claim)

ClaimStatus(claim) ==
  CASE Issues(claim) = {} -> "supported"
    [] Issues(claim) = {"claim_not_anchored"} -> "uncertain"
    [] OTHER -> "unsupported"

\* validate_answer_plan.
PlanStatus(p) ==
  LET statuses == {ClaimStatus(c) : c \in ToSet(p.claims)} IN
  CASE p.claims = <<>> -> IF p.disposition = "answer" THEN "uncertain" ELSE "pass"
    [] "unsupported" \in statuses -> "fail"
    [] "uncertain" \in statuses /\ "unsupported" \notin statuses -> "uncertain"
    [] OTHER -> "pass"

-----------------------------------------------------------------------------
(* Rendering. *)

Supported(p) == Only(p.claims, {c \in ToSet(p.claims) : ClaimStatus(c) = "supported"})

\* citation_numbers: evidence in the order of its first use, claim by claim.
AddUses(numbers, claim) ==
  LET added[n \in 0 .. Len(claim.evidence)] ==
        IF n = 0 THEN numbers
        ELSE IF claim.evidence[n].id \in ToSet(added[n - 1]) THEN added[n - 1]
        ELSE Append(added[n - 1], claim.evidence[n].id)
  IN  added[Len(claim.evidence)]

Used(claims) ==
  LET numbered[n \in 0 .. Len(claims)] ==
        IF n = 0 THEN <<>> ELSE AddUses(numbered[n - 1], claims[n])
  IN  numbered[Len(claims)]

\* The text of a claim, whatever its value, and the numbers behind it.
Line(claim, used) ==
  [claim |-> claim, says |-> claim.text,
   numbers |-> {CHOOSE n \in DOMAIN used : used[n] = b.id : b \in Bindings(claim)}]

\* A plan that did not pass: the line is written after the loop over the
\* supported claims, for the last of them.
LimitedHelp(p) ==
  LET some == Supported(p)
      used == Used(some)
  IN  IF some = <<>> THEN [NoReply EXCEPT !.kind = "counts"]
      ELSE [NoReply EXCEPT !.kind = "limited", !.used = used,
                           !.lines = <<Line(Last(some), used)>>,
                           !.rest = Len(p.claims) - Len(some)]

\* render_answer_plan; a plan that clarifies or refuses shows none of its claims.
Render(p) ==
  CASE PlanStatus(p) # "pass" -> LimitedHelp(p)
    [] PlanStatus(p) = "pass" /\ p.disposition = "clarify" -> [NoReply EXCEPT !.kind = "question"]
    [] PlanStatus(p) = "pass" /\ p.disposition = "limited_help" /\ p.question ->
         [NoReply EXCEPT !.kind = "question", !.limits = p.limits]
    [] PlanStatus(p) = "pass" /\ p.disposition = "refuse" ->
         [NoReply EXCEPT !.kind = "refusal", !.limits = p.limits]
    [] OTHER ->
         LET used == Used(p.claims) IN
         [NoReply EXCEPT !.kind = "answer", !.used = used, !.limits = p.limits,
                         !.lines = [i \in DOMAIN p.claims |-> Line(p.claims[i], used)]]

\* MUTATED: numbers in the order of the evidence, not of its use.
NumbersOfEvidence(reply) == SetToSeq(ToSet(reply.used))

\* render_with_candidates numbers the evidence anew, in the order it is used.
Citations(reply) == reply.used

-----------------------------------------------------------------------------
(* The pipeline. *)

PlanInit ==
  /\ at = "create"
  /\ plan = [disposition |-> "answer", claims |-> <<>>, question |-> FALSE, limits |-> FALSE]
  /\ corrections = 0
  /\ rendered = NoReply
  /\ frame = <<>>

Create ==
  /\ at = "create"
  /\ plan' \in Plans
  /\ at' = "validate"
  /\ UNCHANGED <<corrections, rendered, frame>>

Repair ==
  /\ at = "validate"
  /\ PlanStatus(plan) # "pass"
  /\ corrections < MaxCorrections
  /\ corrections' = corrections + 1
  /\ plan' \in Plans
  /\ UNCHANGED <<at, rendered, frame>>

RenderReply ==
  /\ at = "validate"
  /\ PlanStatus(plan) = "pass" \/ corrections = MaxCorrections
  /\ rendered' = Render(plan)
  /\ at' = "emit"
  /\ UNCHANGED <<plan, corrections, frame>>

\* The node sends the citations, if there are any, and then the text.
Emit ==
  /\ at = "emit"
  /\ frame' = Citations(rendered)
  /\ at' = "done"
  /\ UNCHANGED <<plan, corrections, rendered>>

PlanNext == Create \/ Repair \/ RenderReply \/ Emit

PlanSpec == PlanInit /\ [][PlanNext]_planVars

-----------------------------------------------------------------------------
(* Properties. *)

\* What was validated is in the evidence that a line's numbers lead to: each line
\* has a number, each number is of an evidence in the frame, these are the ones the
\* claim is bound to, its value stands in one of them or, if it has none, a part of
\* its text does, it speaks of nothing else than they do, and their conditions came
\* along (verification.py:89-281, renderer.py:30-63, :92-117, :132-150,
\* graph_node.py:92-106).
LinesAreInEvidence ==
  at = "done" =>
    \A i \in DOMAIN rendered.lines :
      LET line == rendered.lines[i]
          cited == {ById(frame[n]) : n \in line.numbers \cap DOMAIN frame}
      IN  /\ line.numbers # {} /\ line.numbers \subseteq DOMAIN frame
          /\ {c.id : c \in cited} = {b.id : b \in Bindings(line.claim)}
          /\ Anchored(line.claim, UNION {c.values : c \in cited})
          /\ line.claim.entities \subseteq UNION {c.entities : c \in cited}
          /\ UNION {c.conditions : c \in cited} \subseteq line.claim.conditions

\* "Deterministic validation rejects ... number/unit conflicts"
\* (2026-10-27-answer-plan-r3-design.md:18-20): a line does not say another number
\* of a unit than the evidence it cites.
NumbersAgree ==
  at = "done" =>
    \A i \in DOMAIN rendered.lines :
      LET quoted == Quantities(UNION {c.values : c \in {ById(frame[n]) :
                                        n \in rendered.lines[i].numbers}})
      IN  \A v \in Quantities(rendered.lines[i].says) :
            (\E q \in quoted : q.unit = v.unit) => v \in quoted

\* "The remaining N items lack evidence and were left out" (renderer.py:51-58):
\* the lines and the rest are the whole plan.
RestIsWhatIsMissing ==
  rendered.kind = "limited" => Len(rendered.lines) + rendered.rest = Len(plan.claims)

=============================================================================
