------------------------- MODULE ControlledRetrieval -------------------------
(***************************************************************************)
(* The controlled retrieval loop (app/rag_loop.py) over the retrieval      *)
(* service (app/retrieval.py): a first retrieval that passes its gate is   *)
(* released at once; otherwise rounds of judging what has been merged,     *)
(* asking an analyzer what is missing and retrieving its sub-queries, each *)
(* call under a token budget and a time limit, until the evidence passes   *)
(* or the loop stops for one of ten reasons.                               *)
(*                                                                         *)
(* A chunk is a name.  What the judge, the score gate and the analyzer say *)
(* is open: they are a model's answers, or functions of scores that are    *)
(* left out.  A call that is late is one that hits call_timeout_s or for   *)
(* which no time is left.                                                  *)
(***************************************************************************)
EXTENDS Integers, FiniteSets

CONSTANTS
  Query,        \* normalized queries
  First,        \* the user's
  Chunk,        \* chunks that may be found
  MaxRounds,    \* max_rag_rounds, 1 for decompose_once
  MaxSubs,      \* rag_max_sub_queries
  TokenBudget,  \* rag_token_budget
  Input,        \* tokens of the input of a judge or analyzer call
  Reserve,      \* what is reserved for its output
  Extra         \* bound: what an answer may be longer than the reserve

ASSUME LoopAssumption ==
  /\ First \in Query
  /\ MaxRounds \in Nat \ {0}
  /\ {MaxSubs, TokenBudget, Input, Reserve, Extra} \subseteq Nat

VARIABLE rag    \* one run of the loop

NoRag == [pc |-> "idle", round |-> 0, asked |-> {}, subs |-> {}, fresh |-> FALSE,
          merged |-> {}, tokens |-> 0, verdict |-> "none", scored |-> FALSE,
          judged |-> {}, reuse |-> FALSE, stop |-> "none", passed |-> FALSE,
          rows |-> 0]

Verdict == {"yes", "no", "none"}
TimeStop == {"time_budget", "call_timeout"}

-----------------------------------------------------------------------------
(* The retrieval service. *)

\* The judge decides where it can be asked, the scores where it cannot.
LowConfidence(verdict, scored) == verdict = "no" \/ (verdict = "none" /\ ~scored)

\* Nothing found, no reranker, or ranked and gated.
RetrieveResults ==
  {[items |-> S, verdict |-> v, scored |-> s, low |-> LowConfidence(v, s)] :
     S \in SUBSET Chunk \ {{}}, v \in Verdict, s \in BOOLEAN}
  \cup {[items |-> S, verdict |-> "none", scored |-> FALSE, low |-> TRUE] :
          S \in SUBSET Chunk}

-----------------------------------------------------------------------------
(* The loop. *)

RagStart ==
  rag' = [NoRag EXCEPT !.pc = "first", !.asked = {First}]

\* _finish: passed, or the reason it stopped for.  row says whether this round
\* was written to the audit before.
Stopped(r, stop, row) ==
  [r EXCEPT !.pc = "done", !.stop = stop, !.rows = @ + row]

Released(r, stop) ==
  [r EXCEPT !.pc = "done", !.stop = stop, !.passed = TRUE, !.rows = @ + 1]

NextRound(r) ==
  IF r.round < MaxRounds THEN [r EXCEPT !.pc = "judge", !.round = @ + 1, !.rows = @ + 1]
  ELSE [r EXCEPT !.pc = "final", !.rows = @ + 1]

\* A low result is kept for diagnosis and never merged.
FirstRetrieve ==
  /\ rag.pc = "first"
  /\ \/ \E stop \in TimeStop \cup {"retrieval_error"} : rag' = Stopped(rag, stop, 1)
     \/ \E res \in RetrieveResults :
          LET low == [rag EXCEPT !.verdict = res.verdict]
              found == [low EXCEPT !.merged = res.items, !.judged = res.items,
                                   !.scored = res.scored]
          IN  \/ res.low /\ rag' = NextRound(low)
              \/ ~res.low /\ rag' = Released(found, "first_pass_sufficient")
              \* gap_trigger: the evidence lacks a fact that the question needs.
              \/ /\ ~res.low
                 /\ rag' = NextRound([found EXCEPT !.reuse = (res.verdict = "yes")])

\* require_tokens.
Affordable == rag.tokens + Input + Reserve <= TokenBudget

\* What a judge call may come to: none where there is no judge or no text.
JudgeResults ==
  {[verdict |-> "none", cost |-> 0], [verdict |-> "none", cost |-> Input]}
  \cup {[verdict |-> v, cost |-> Input + Reserve + e] : v \in {"yes", "no"}, e \in 0 .. Extra}

\* MUTATED: a judge that was heard decides alone, as in the retrieval service.
AdmittedByJudge(verdict, scored) == ~LowConfidence(verdict, scored)

\* admit: the score gate and the judge, or the score gate alone.
Admitted(verdict, scored) == scored /\ verdict # "no"

Judged(res, scored) ==
  [rag EXCEPT !.verdict = res.verdict, !.scored = scored, !.judged = rag.merged,
              !.tokens = @ + res.cost]

\* The stops inside admit: no tokens for the call, no time for it, or it is
\* late and its input is paid.
NotJudged(row) ==
  /\ rag.merged # {}
  /\ \/ ~Affordable /\ rag' = Stopped(rag, "token_budget", row)
     \/ \E stop \in TimeStop, cost \in {0, Input} :
          Affordable /\ rag' = Stopped([rag EXCEPT !.tokens = @ + cost], stop, row)

CanJudge(res) == res.cost > 0 => Affordable /\ rag.merged # {}

\* A pass of the first retrieval that a gap held up is not judged again, and
\* does not release.
ReuseVerdict ==
  /\ rag.pc = "judge"
  /\ rag.reuse
  /\ rag' = [rag EXCEPT !.pc = "analyze", !.reuse = FALSE]

JudgeRound ==
  /\ rag.pc = "judge"
  /\ ~rag.reuse
  /\ \/ NotJudged(0)
     \/ \E res \in JudgeResults, scored \in BOOLEAN :
          /\ CanJudge(res)
          /\ \/ /\ Admitted(res.verdict, scored)
                /\ rag' = Released(Judged(res, scored), "sufficient")
             \/ /\ ~Admitted(res.verdict, scored)
                /\ rag' = [Judged(res, scored) EXCEPT !.pc = "analyze"]

\* The analyzer's report; "search" stands for answer, decompose and a clarify
\* without a question.  Queries that were asked before are dropped.
Analyze ==
  /\ rag.pc = "analyze"
  /\ \/ rag' = Stopped(rag, "analyzer_error", 0)
     \/ ~Affordable /\ rag' = Stopped(rag, "token_budget", 0)
     \/ \E stop \in TimeStop \cup {"analyzer_error"}, cost \in {0, Input} :
          Affordable /\ rag' = Stopped([rag EXCEPT !.tokens = @ + cost], stop, 0)
     \/ \E e \in 0 .. Extra,
          action \in {"clarify_needed", "refuse_no_evidence", "escalate_conflict", "search"},
          raw \in SUBSET Query :
          LET told == [rag EXCEPT !.tokens = @ + Input + Reserve + e]
              subs == raw \ rag.asked
          IN  /\ Affordable
              /\ Cardinality(raw) <= MaxSubs
              /\ \/ action # "search" /\ raw = {} /\ rag' = Stopped(told, action, 0)
                 \/ /\ action = "search" /\ subs = {}
                    /\ rag' = Stopped(told, "no_new_queries", 0)
                 \/ /\ action = "search" /\ subs # {}
                    /\ rag' = [told EXCEPT !.pc = "fetch", !.subs = subs, !.fresh = FALSE,
                                           !.asked = @ \cup subs]

\* One sub-query after the other; one that fails or is low adds nothing.
FetchSub ==
  /\ rag.pc = "fetch"
  /\ \E q \in rag.subs :
       \/ \E stop \in TimeStop : rag' = Stopped(rag, stop, 1)
       \/ rag' = [rag EXCEPT !.subs = @ \ {q}]
       \/ \E res \in RetrieveResults :
            /\ ~res.low
            /\ rag' = [rag EXCEPT !.subs = @ \ {q}, !.merged = @ \cup res.items,
                                  !.fresh = @ \/ ~(res.items \subseteq rag.merged)]

EndRound ==
  /\ rag.pc = "fetch"
  /\ rag.subs = {}
  /\ \/ rag.fresh /\ rag' = NextRound(rag)
     \/ ~rag.fresh /\ rag' = Stopped(rag, "no_new_queries", 1)

FinalJudge ==
  /\ rag.pc = "final"
  /\ \/ NotJudged(1)
     \/ \E res \in JudgeResults, scored \in BOOLEAN :
          /\ CanJudge(res)
          /\ \/ /\ Admitted(res.verdict, scored)
                /\ rag' = Released(Judged(res, scored), "sufficient")
             \/ /\ ~Admitted(res.verdict, scored)
                /\ rag' = Stopped(Judged(res, scored), "rounds_exhausted", 1)

\* BudgetExceeded of a metered client, which the loop never swallows.
Raised ==
  /\ rag.pc \notin {"idle", "done", "raised"}
  /\ rag' = [rag EXCEPT !.pc = "raised"]

RagStep ==
  \/ FirstRetrieve \/ ReuseVerdict \/ JudgeRound \/ Analyze
  \/ FetchSub \/ EndRound \/ FinalJudge \/ Raised

RagInit == rag = NoRag
RagNext == (rag.pc = "idle" /\ RagStart) \/ RagStep
RagSpec == RagInit /\ [][RagNext]_rag /\ WF_rag(RagNext)

-----------------------------------------------------------------------------
(* Properties. *)

\* Type correctness.
RagTypeOK ==
  rag \in [pc : {"idle", "first", "judge", "analyze", "fetch", "final", "done", "raised"},
           round : 0 .. MaxRounds, asked : SUBSET Query, subs : SUBSET Query,
           fresh : BOOLEAN, merged : SUBSET Chunk, tokens : Nat, verdict : Verdict,
           scored : BOOLEAN, judged : SUBSET Chunk, reuse : BOOLEAN,
           stop : TimeStop \cup {"none", "retrieval_error", "first_pass_sufficient",
             "sufficient", "token_budget", "analyzer_error", "clarify_needed",
             "refuse_no_evidence", "escalate_conflict", "no_new_queries",
             "rounds_exhausted"},
           passed : BOOLEAN, rows : Nat]

\* Evidence is released only if the gate passed exactly what is released: all
\* that was merged since was judged again, no judge that was heard last said no,
\* and after the first retrieval the scores passed too, whether a judge was
\* heard or not (rag_loop.py:442-449, :487-503, :612-646).
GatedRelease ==
  rag.passed =>
    /\ rag.judged = rag.merged
    /\ ~LowConfidence(rag.verdict, rag.scored)
    /\ rag.round > 0 => rag.scored

=============================================================================
