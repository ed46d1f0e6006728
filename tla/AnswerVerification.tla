-------------------------- MODULE AnswerVerification --------------------------
(***************************************************************************)
(* The last check of an agent's answer (app/answer_verifier.py, run by     *)
(* _finalize_answer of graph/agent.py): the answer is compared with the    *)
(* numbered evidence by rule, judged by a model or sentence by sentence by *)
(* the claim grounding (app/claim_grounding), revised at most once, and    *)
(* released or replaced by a refusal.                                      *)
(*                                                                         *)
(* A text is what it states: orders (a product's model is treated like     *)
(* one), days, numbers, a version of the policy and the value of an        *)
(* attribute; the wording is left out.  So are the overlap of texts, on which the rule of *)
(* quality v3.1 decides, and what models say: each may be anything.        *)
(***************************************************************************)
EXTENDS Integers, Sequences, FiniteSets, SequencesExt, Subsequences

CONSTANTS
  Sentence,     \* what the agent may say: cites, orders, day, numbers, version, value, corrects
  Evidence,     \* what may be cited: its first line and the rest, and orders' days in table rows
  Question,     \* what the user may ask: orders, days
  Boundary,     \* first day of the second version of the policy
  MaxSentences, MaxEvidence,  \* bounds: of an answer, of the citations
  MaxRevisions  \* answer_verification_max_revisions (0 or 1)

ASSUME VerificationAssumption ==
  /\ {MaxSentences, MaxEvidence} \subseteq Nat /\ MaxRevisions \in {0, 1}
  /\ Boundary \in Nat /\ \A s \in Sentence : s.day \in Nat

VARIABLES
  mode,       \* who judges: nobody ("off", "missing"), a "model", the "claims" adapter
  asked,      \* the question
  cited,      \* the citations so far, by number
  draft,      \* the answer at hand, as its sentences
  revisions,
  outcome     \* "drafted", "failed", "revised"; "released" or "refused"

verifyVars == <<mode, asked, cited, draft, revisions, outcome>>

NoDay == 0
Nothing == "nothing"   \* no version, no value

VerifyInit ==
  /\ mode \in {"off", "missing", "model", "claims"}
  /\ asked \in Question
  /\ cited \in BoundedSeq(Evidence, MaxEvidence)
  /\ draft \in BoundedSeq(Sentence, MaxSentences)
  /\ revisions = 0 /\ outcome = "drafted"

-----------------------------------------------------------------------------
(* What texts state.                                                       *)

DaysOf(s) == {s.day} \ {NoDay}

\* The texts of the citations: the first line and the rest.
Cited(s) == ToSet(s.cites) \cap DOMAIN cited
TextsOf(i) == {cited[i].head, cited[i].tail}
AllTexts == UNION {TextsOf(i) : i \in DOMAIN cited}
CitedTexts(s) == UNION {TextsOf(i) : i \in Cited(s)}

\* A number stands anywhere in what is cited, whatever it is there.
NumbersStand(s) == s.numbers \subseteq UNION {f.numbers : f \in CitedTexts(s)}

\* The digits of a version's window stand somewhere, also within a number or as the
\* number of a citation.
ReturnDays(v) == IF v = "v1" THEN 7 ELSE 15
Shows(n, w) == \E p \in {1, 10, 100, 1000} : (n \div p) % (IF w < 10 THEN 10 ELSE 100) = w
WindowStands(v) ==
  \E n \in DOMAIN cited \cup UNION {f.numbers : f \in AllTexts} : Shows(n, ReturnDays(v))

\* _order_dates: the day of an order is that of the first row that has it.
TableRows(o) == {i \in DOMAIN cited : \E r \in cited[i].rows : r.order = o}
KnownDays(o) ==
  IF TableRows(o) = {} THEN {}
  ELSE LET first == CHOOSE i \in TableRows(o) : \A j \in TableRows(o) : i <= j
       IN  {r.day : r \in {x \in cited[first].rows : x.order = o}}

AnswerOrders == UNION {draft[i].orders : i \in DOMAIN draft}
AnswerDays == UNION {DaysOf(draft[i]) : i \in DOMAIN draft}
AnswerVersions == {draft[i].version : i \in DOMAIN draft}

-----------------------------------------------------------------------------
(* The checks by rule.                                                     *)

\* A sentence: an unknown number is the only issue; else the days of its orders,
\* the orders and the numbers of what it cites.
SentenceFails(s) ==
  \/ ~(ToSet(s.cites) \subseteq DOMAIN cited)
  \/ \E o \in s.orders :
       \/ s.day # NoDay /\ KnownDays(o) # {} /\ s.day \notin KnownDays(o)
       \/ LET there == UNION {f.orders : f \in CitedTexts(s)}
          IN  there # {} /\ o \notin there
  \/ s.cites # <<>> /\ ~NumbersStand(s)

\* Versions of the policy against the days of the answer, and against the evidence.
PolicyFails ==
  \/ "v2" \in AnswerVersions /\ \E d \in AnswerDays : d < Boundary
  \/ "v1" \in AnswerVersions /\ \E d \in AnswerDays : d >= Boundary
  \/ \E v \in AnswerVersions \ {Nothing} : ~WindowStands(v)

\* Orders that the user did not name; there always is a question.
Introduces == ~(AnswerOrders \subseteq asked.orders)

\* A day of the user's that is not the order's must be corrected openly.
LeavesWrongDay ==
  \E o \in asked.orders :
    /\ KnownDays(o) # {} /\ asked.days # {} /\ KnownDays(o) \cap asked.days = {}
    /\ ~ /\ KnownDays(o) \subseteq AnswerDays /\ asked.days \subseteq AnswerDays
         /\ \E i \in DOMAIN draft : draft[i].corrects

HasIssue ==
  (\E i \in DOMAIN draft : SentenceFails(draft[i])) \/ PolicyFails
    \/ Introduces \/ LeavesWrongDay

-----------------------------------------------------------------------------
(* The claims adapter: it reads the first line of an evidence only.        *)

GroundingStatus == {"supported", "unsupported", "uncertain"}

Heads(s) == {cited[i].head : i \in Cited(s)}

\* The texts are joined as the sentence cites them: the first value is read.
FirstValue(s) ==
  LET given == Only(s.cites, {i \in DOMAIN cited : cited[i].head.value # Nothing})
  IN  IF given = <<>> THEN Nothing ELSE cited[given[1]].head.value

\* The versions that the evidence says are due on the sentence's day.
DueVersions(s) ==
  {v \in UNION {f.rules : f \in Heads(s)} : (v = "v2") <=> s.day >= Boundary}

\* deterministic_status: a conflict by rule, or agreement in the value.
ConflictsWith(s) ==
  LET orders == UNION {f.orders : f \in Heads(s)}
      days == UNION {f.days : f \in Heads(s)}
      due == DueVersions(s)
  IN  \/ s.orders # {} /\ orders # {} /\ s.orders \cap orders = {}
      \/ s.orders \cap orders # {} /\ s.day # NoDay /\ days # {} /\ s.day \notin days
      \/ s.day # NoDay /\ s.version # Nothing /\ due # {} /\ s.version \notin due
      \/ s.value # Nothing /\ FirstValue(s) \notin {Nothing, s.value}

Agrees(s) == s.value # Nothing /\ s.value = FirstValue(s)

\* _parse: what a model's answer about a claim amounts to.
Parsed(status, ids, codes) ==
  IF ids = "foreign" \/ (status # "uncertain" /\ ids = "none") \/ (status = "unsupported" /\ ~codes)
  THEN "uncertain" ELSE status

\* The rule of v3.1 decides; where it does not, a model is asked, and may fail.
Semantic ==
  {"supported", "unsupported"} \cup {"uncertain"} \cup
  {Parsed(status, ids, codes) : status \in GroundingStatus, ids \in {"none", "given", "foreign"},
                                codes \in BOOLEAN}

\* ClaimGrounder.ground
Ground(s) ==
  CASE Heads(s) = {} -> {"uncertain"}
    [] Heads(s) # {} /\ ConflictsWith(s) -> {"unsupported"}
    [] Heads(s) # {} /\ ~ConflictsWith(s) /\ Agrees(s) -> {"supported"}
    [] OTHER -> Semantic

\* The verdicts the adapter may give.
ByClaims ==
  (IF \E i \in DOMAIN draft : "unsupported" \in Ground(draft[i]) THEN {"fail"} ELSE {}) \cup
  (IF \A i \in DOMAIN draft : "supported" \in Ground(draft[i]) THEN {"pass"} ELSE {}) \cup
  (IF /\ \E i \in DOMAIN draft : "uncertain" \in Ground(draft[i])
      /\ \A i \in DOMAIN draft : Ground(draft[i]) # {"unsupported"}
   THEN {"uncertain"} ELSE {})

\* AnswerVerifier.verify
Verdicts ==
  CASE draft = <<>> -> {"uncertain"}
    [] draft # <<>> /\ HasIssue -> {"fail"}
    [] draft # <<>> /\ ~HasIssue /\ mode = "claims" -> ByClaims
    [] OTHER -> {"pass", "fail", "uncertain"}

-----------------------------------------------------------------------------
(* _finalize_answer.                                                       *)

\* Not asked for, or asked for and not there.
Unverified ==
  /\ outcome = "drafted" /\ mode \in {"off", "missing"}
  /\ outcome' = IF mode = "off" THEN "released" ELSE "refused"
  /\ UNCHANGED <<mode, asked, cited, draft, revisions>>

\* MUTATED: what has been revised is not checked again.
VerifyOnce ==
  /\ mode \in {"model", "claims"} /\ outcome \in {"drafted", "revised"}
  /\ \E verdict \in IF outcome = "revised" THEN {"pass"} ELSE Verdicts :
       outcome' = CASE verdict = "pass" -> "released"
                    [] verdict = "fail" /\ revisions < MaxRevisions -> "failed"
                    [] OTHER -> "refused"
  /\ UNCHANGED <<mode, asked, cited, draft, revisions>>

Verify ==
  /\ mode \in {"model", "claims"} /\ outcome \in {"drafted", "revised"}
  /\ \E verdict \in Verdicts :
       outcome' = CASE verdict = "pass" -> "released"
                    [] verdict = "fail" /\ revisions < MaxRevisions -> "failed"
                    [] OTHER -> "refused"
  /\ UNCHANGED <<mode, asked, cited, draft, revisions>>

\* The model may say anything, also nothing.
Revise ==
  /\ outcome = "failed"
  /\ draft' \in BoundedSeq(Sentence, MaxSentences)
  /\ revisions' = revisions + 1
  /\ outcome' = "revised"
  /\ UNCHANGED <<mode, asked, cited>>

\* The judge or the model raises.
VerificationRaises ==
  /\ mode \in {"model", "claims"} /\ outcome \in {"drafted", "failed", "revised"}
  /\ outcome' = "refused"
  /\ UNCHANGED <<mode, asked, cited, draft, revisions>>

VerifyNext == Unverified \/ Verify \/ Revise \/ VerificationRaises

VerifySpec == VerifyInit /\ [][VerifyNext]_verifyVars

-----------------------------------------------------------------------------
(* Properties.                                                             *)

\* A verified answer that the user sees, revised or not, cites what there is, is
\* about the orders that were asked for, has the days that the evidence has for
\* them, and names no version of the policy that is not due on its days or whose
\* window is nowhere in the evidence; and where claims are grounded, every sentence
\* of it cites something and gives no value but the one that comes first in what it
\* cites, in the order in which it does (answer_verifier.py:87-191,
\* claim_grounding/answer_adapter.py:32-95, contradictions.py:173-292).
ReleasedIsBacked ==
  outcome = "released" /\ mode \in {"model", "claims"} =>
    /\ draft # <<>>
    /\ AnswerOrders \subseteq asked.orders
    /\ "v1" \in AnswerVersions => \A d \in AnswerDays : d < Boundary
    /\ "v2" \in AnswerVersions => \A d \in AnswerDays : d >= Boundary
    /\ \A v \in AnswerVersions \ {Nothing} : WindowStands(v)
    /\ \A i \in DOMAIN draft :
         LET s == draft[i] IN
         /\ ToSet(s.cites) \subseteq DOMAIN cited
         /\ \A o \in s.orders : s.day # NoDay /\ KnownDays(o) # {} => s.day \in KnownDays(o)
         /\ mode = "claims" =>
              s.cites # <<>> /\ (s.value # Nothing => FirstValue(s) \in {Nothing, s.value})
=============================================================================
