-------------------------------- MODULE CaseRuns --------------------------------
(***************************************************************************)
(* The experiments that run a model over a list of cases and write a row   *)
(* for each: what they refuse at the start, which calls a row is charged   *)
(* with, and what is left when a process ends early.  A behaviour is about *)
(* one runner, chosen in the initial state.                                *)
(*                                                                         *)
(* A call is a position in the ledger all processes share; amounts and     *)
(* limits are in PaidCalls and EvalCost.  An item is a case with an arm.   *)
(***************************************************************************)
EXTENDS Integers, Sequences, FiniteSets

CONSTANTS
  Item,      \* a case with an arm
  Worker,    \* processes that may run at once
  MaxCalls,  \* bound: calls in the ledger
  MaxStarts  \* bound: runs that are started

ASSUME CaseAssumption == MaxCalls \in Nat /\ MaxStarts \in Nat

VARIABLES
  runner,    \* which of them
  ledger,    \* calls, each with its item, its run and its status
  halted,    \* the ledger's stop reason is set
  claimed,   \* the marker of the only run, or its directory, is there
  answered,  \* items in the journal or the exact cache
  files,     \* rows on disk
  worker,    \* processes
  started    \* runs started

caseVars == <<runner, ledger, halted, claimed, answered, files, worker, started>>

(***************************************************************************)
(* The runners.  settled: it does not start while a call is pending;       *)
(* alone: it holds the evaluation lock over its cases; claims: it may be   *)
(* started once; checks: it looks for pending calls after that; stops: a   *)
(* failed call stops the ledger; keeps: what a later run takes over;       *)
(* writes: the row, all rows so far, or all of them at the end; charges:   *)
(* a row with the calls the process counted itself, with those of its run  *)
(* in the ledger, or with all that the ledger has for the case.            *)
(***************************************************************************)
\* scripts/eval_multi_agent.py
PairedRun ==
  [settled |-> FALSE, alone |-> FALSE, claims |-> FALSE, checks |-> FALSE,
   stops |-> TRUE, keeps |-> "nothing", writes |-> "end", charges |-> "case"]

\* scripts/eval_adaptive_routing_r2.py: a scenario may raise after its calls.
AdaptiveRun == [PairedRun EXCEPT !.charges = "run"]

\* scripts/ch15_model_experiment.py: rows of earlier runs stay, and a case with
\* a row is not run again.
Ch15Run == [PairedRun EXCEPT !.settled = TRUE, !.keeps = "rows", !.writes = "rows"]

\* scripts/answer_plan_r3/runner.py, on the held-out split
PlanRun ==
  [PairedRun EXCEPT !.claims = TRUE, !.checks = TRUE, !.stops = FALSE,
                    !.writes = "row", !.charges = "own"]

\* scripts/eval_e2e_quality_r2.py
PaidRun ==
  [PairedRun EXCEPT !.checks = TRUE, !.stops = FALSE, !.keeps = "answers", !.writes = "row"]

\* scripts/typed_handoff_r2_eval.py: a directory that is there, or a ledger, is
\* refused.
LiveRun == [PairedRun EXCEPT !.claims = TRUE, !.stops = FALSE]

\* scripts/eval_claim_grounding_r2.py, resumed
ClaimRun == [PairedRun EXCEPT !.stops = FALSE, !.keeps = "answers"]

\* scripts/query_rewrite_ablation/runner.py, resumed
QueryRun == [ClaimRun EXCEPT !.settled = TRUE, !.charges = "own"]

\* scripts/eval_rag_quality.py: the answers checked again, and the gap trigger.
VerifyRun == QueryRun
TriggerRun == QueryRun

\* scripts/eval_ch11.py
LayeredRun == [QueryRun EXCEPT !.settled = FALSE, !.alone = TRUE]

Runners ==
  {Ch15Run, PairedRun, AdaptiveRun, PlanRun, PaidRun, LiveRun, ClaimRun, QueryRun,
   VerifyRun, TriggerRun, LayeredRun}

NoItem == "none"
Resting == [pc |-> "idle", run |-> 0, item |-> NoItem, own |-> {}, rows |-> {}]

CaseInit ==
  /\ runner \in Runners
  /\ ledger = <<>>
  /\ halted = FALSE
  /\ claimed = FALSE
  /\ answered = {}
  /\ files = {}
  /\ worker = [w \in Worker |-> Resting]
  /\ started = 0

Items(rows) == {r.item : r \in rows}
Unsettled == {c \in DOMAIN ledger : ledger[c].status = "pending"}
Is(w, pc) == worker[w].pc = pc
Moves(w, state) == worker' = [worker EXCEPT ![w] = state]

\* A stopped ledger, calls nobody settled, or another process in its cases.
Refuses ==
  \/ runner.stops /\ halted
  \/ runner.settled /\ Unsettled # {}
  \/ runner.alone /\ \E w \in Worker : worker[w].pc \in {"next", "item", "wait"}

Start(w) ==
  /\ Is(w, "idle")
  /\ started < MaxStarts
  /\ ~Refuses
  /\ started' = started + 1
  /\ Moves(w, [Resting EXCEPT
       !.pc = IF runner.claims THEN "claim" ELSE IF runner.checks THEN "check" ELSE "next",
       !.run = started',
       !.rows = IF runner.keeps = "rows" THEN files ELSE {}])
  /\ UNCHANGED <<runner, ledger, halted, claimed, answered, files>>

\* claim_heldout_once opens its marker with "x"; run_live makes its directory.
Claim(w) ==
  /\ Is(w, "claim")
  /\ claimed' = TRUE
  /\ Moves(w, IF claimed THEN Resting
              ELSE [worker[w] EXCEPT !.pc = IF runner.checks THEN "check" ELSE "next"])
  /\ UNCHANGED <<runner, ledger, halted, answered, files, started>>

\* assert_no_pending; the claim, or the directory of the attempt, stays.
Check(w) ==
  /\ Is(w, "check")
  /\ Moves(w, IF Unsettled = {} THEN [worker[w] EXCEPT !.pc = "next"] ELSE Resting)
  /\ UNCHANGED <<runner, ledger, halted, claimed, answered, files, started>>

\* Cases in turn; run_model_case skips those with a row and does not replay a
\* case with a call nobody settled.
BeginItem(w) ==
  /\ Is(w, "next")
  /\ \E i \in Item \ Items(worker[w].rows) :
       LET refused == runner.keeps = "rows" /\ \E c \in Unsettled : ledger[c].item = i IN
       Moves(w, IF refused THEN Resting
               ELSE [worker[w] EXCEPT !.pc = "item", !.item = i, !.own = {}])
  /\ UNCHANGED <<runner, ledger, halted, claimed, answered, files, started>>

Ask(w) ==
  /\ Is(w, "item")
  /\ Len(ledger) < MaxCalls
  /\ runner.stops => ~halted
  /\ runner.keeps = "answers" => worker[w].item \notin answered
  /\ ledger' = Append(ledger, [item |-> worker[w].item, run |-> worker[w].run,
                               status |-> "pending"])
  /\ Moves(w, [worker[w] EXCEPT !.pc = "wait", !.own = @ \cup {Len(ledger')}])
  /\ UNCHANGED <<runner, halted, claimed, answered, files, started>>

\* A call that fails stops a guarded ledger; the run that keeps rows writes those
\* it has and ends, the others give the case a row that says so (Finish), or try
\* again.
Return(w) ==
  /\ Is(w, "wait")
  /\ \E status \in {"done", "failed"}, c \in worker[w].own \cap Unsettled :
       /\ ledger' = [ledger EXCEPT ![c].status = status]
       /\ halted' = (halted \/ (runner.stops /\ status = "failed"))
       /\ answered' = IF runner.keeps = "answers" /\ status = "done"
                      THEN answered \cup {worker[w].item} ELSE answered
       /\ LET ends == runner.keeps = "rows" /\ status = "failed" IN
          /\ files' = IF ends THEN worker[w].rows ELSE files
          /\ Moves(w, IF ends THEN Resting ELSE [worker[w] EXCEPT !.pc = "item"])
  /\ UNCHANGED <<runner, claimed, started>>

CallsOf(i) == {c \in DOMAIN ledger : ledger[c].item = i}
OfRun(calls, run) == {c \in calls : ledger[c].run = run}

\* MUTATED: the adaptive runner takes the calls of earlier attempts, too.
EveryAttempt(w) == IF runner.charges = "own" THEN worker[w].own ELSE CallsOf(worker[w].item)

Charged(w) ==
  CASE runner.charges = "own" -> worker[w].own
    [] runner.charges = "run" -> OfRun(CallsOf(worker[w].item), worker[w].run)
    [] runner.charges = "case" -> CallsOf(worker[w].item)

\* Who makes the row: what ran the case or, when run_scenario raises, main,
\* which has no calls to put down and no cost.
Makers == {"case"} \cup (IF runner = AdaptiveRun THEN {"main"} ELSE {})

Finish(w) ==
  /\ Is(w, "item")
  /\ \E by \in Makers :
     LET row == [item |-> worker[w].item, run |-> worker[w].run, by |-> by,
                 calls |-> IF by = "main" THEN {} ELSE Charged(w)]
         rows == worker[w].rows \cup {row}
     IN  /\ files' = CASE runner.writes = "row" -> files \cup {row}
                       [] runner.writes = "rows" -> rows
                       [] runner.writes = "end" -> files
         /\ Moves(w, IF runner.keeps = "rows" /\ halted THEN Resting
                    ELSE [worker[w] EXCEPT !.pc = "next", !.item = NoItem, !.own = {}, !.rows = rows])
  /\ UNCHANGED <<runner, ledger, halted, claimed, answered, started>>

CompleteRun(w) ==
  /\ Is(w, "next")
  /\ Items(worker[w].rows) = Item
  /\ Moves(w, IF runner.writes = "end" THEN [worker[w] EXCEPT !.pc = "write"] ELSE Resting)
  /\ UNCHANGED <<runner, ledger, halted, claimed, answered, files, started>>

\* Rows of an earlier run are replaced.
WriteRows(w) ==
  /\ Is(w, "write")
  /\ files' = worker[w].rows
  /\ Moves(w, Resting)
  /\ UNCHANGED <<runner, ledger, halted, claimed, answered, started>>

\* A process ends where it is; its call stays pending.  _persist_outputs writes
\* the rows there are when an exception ends a case.
Ends(w) ==
  /\ ~Is(w, "idle")
  /\ Moves(w, Resting)
  /\ files' \in {files} \cup
       (IF runner.keeps = "rows" /\ worker[w].pc \in {"item", "wait"} THEN {worker[w].rows} ELSE {})
  /\ UNCHANGED <<runner, ledger, halted, claimed, answered, started>>

CaseNext ==
  \E w \in Worker :
    \/ Start(w) \/ Claim(w) \/ Check(w) \/ BeginItem(w) \/ Ask(w) \/ Return(w)
    \/ Finish(w) \/ CompleteRun(w) \/ WriteRows(w) \/ Ends(w)

CaseSpec == CaseInit /\ [][CaseNext]_caseVars

-----------------------------------------------------------------------------
(* Properties. *)

\* A row of the runners that report one attempt is charged with the calls that
\* its own run made for its case, failed ones included, and with no others,
\* whatever earlier and concurrent runs left in the ledger
\* (eval_adaptive_routing_r2.py:578-595, answer_plan_r3/runner.py:333, :371,
\* typed_handoff_r2_eval.py:759-763).  One kind of row is not charged at all: that
\* of a scenario of the adaptive runner which raised, whatever it had called
\* (eval_adaptive_routing_r2.py:1292-1320).
Accounted(r) ==
  \/ r.calls = OfRun(CallsOf(r.item), r.run)
  \/ runner = AdaptiveRun /\ r.by = "main" /\ r.calls = {}

RowCostsItsCalls ==
  runner.charges # "case" \/ runner = LiveRun =>
    \A r \in files \cup UNION {worker[w].rows : w \in Worker} : Accounted(r)

=============================================================================
