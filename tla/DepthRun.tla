------------------------------- MODULE DepthRun -------------------------------
(***************************************************************************)
(* The answer quality experiment (scripts/answer_quality_depth/runner.py): *)
(* for each target, a case and an arm, a model answers and a second call   *)
(* judges the answer.  Responses go to a journal, rows to results.jsonl,   *)
(* so that a run that dies is resumed; three tools work on a finished or   *)
(* broken run: one asks for the verdicts that are missing, in place, and   *)
(* two copy the rows to a new directory, judging all anew or generating    *)
(* anew what was cut off.                                                  *)
(*                                                                         *)
(* An answer is the number of the call that gave it, 0 for none; a verdict *)
(* is the answer it judged.  A process dies between two writes, or while   *)
(* it appends a line.  One process runs at a time.                         *)
(***************************************************************************)
EXTENDS Integers, Sequences, FiniteSets, SequencesExt

CONSTANTS
  Target,      \* pairs of a case and an arm
  MaxAnswers,  \* bound: calls that return an answer
  MaxFails     \* bound: processes that die

ASSUME DepthAssumption == MaxAnswers \in Nat /\ MaxFails \in Nat

VARIABLES
  dir,       \* the run's directory
  journal,   \* its responses.sqlite3
  copy,      \* the directory of a copying tool
  proc,      \* the process under way
  answers,   \* answers so far
  fails      \* processes that died

depthVars == <<dir, journal, copy, proc, answers, fails>>

None == "none"
NoRow == [answer |-> 0, cut |-> FALSE, verdict |-> 0, failed |-> FALSE]
NoDir == [state |-> None, results |-> <<>>, torn |-> FALSE, initial |-> <<>>,
          rescored |-> <<>>, summary |-> <<>>]
Idle == [pc |-> "idle", tool |-> None, rows |-> <<>>, todo |-> <<>>, row |-> NoRow]

DepthInit ==
  /\ dir = NoDir
  /\ journal = [answer |-> [t \in Target |-> NoRow], verdict |-> [t \in Target |-> 0]]
  /\ copy = NoDir
  /\ proc = Idle
  /\ answers = 0
  /\ fails = 0

Targets(rows) == {rows[i].target : i \in DOMAIN rows}
At(pc) == proc.pc = pc

-----------------------------------------------------------------------------
(* run_experiment. *)

\* The directory is made first; if the process ends before the state is written
\* it is refused ever after.
MakeDir ==
  /\ At("idle")
  /\ dir.state = None
  /\ dir' = [dir EXCEPT !.state = "bare"]
  /\ proc' = [Idle EXCEPT !.pc = "state", !.tool = "run"]
  /\ UNCHANGED <<journal, copy, answers, fails>>

WriteState ==
  /\ At("state")
  /\ dir' = [dir EXCEPT !.state = "running"]
  /\ proc' = [proc EXCEPT !.pc = "next"]
  /\ UNCHANGED <<journal, copy, answers, fails>>

\* A run of the same configuration goes on where the results end; a line that
\* was cut in two cannot be read.
Resume ==
  /\ At("idle")
  /\ dir.state = "running"
  /\ ~dir.torn
  /\ proc' = [Idle EXCEPT !.pc = "next", !.tool = "run", !.rows = dir.results]
  /\ UNCHANGED <<dir, journal, copy, answers, fails>>

\* completed_rows: a target that failed is complete, too.
Completed(rows) == Targets(rows)

\* The journal has the answer, or the model is asked.
Generate ==
  /\ At("next")
  /\ \E t \in Target \ Completed(proc.rows) :
       LET kept == journal.answer[t]
           row  == [target |-> t, answer |-> kept.answer, cut |-> kept.cut,
                    verdict |-> 0, failed |-> FALSE]
       IN
       \/ /\ row.answer # 0
          /\ proc' = [proc EXCEPT !.pc = "judge", !.row = row]
          /\ UNCHANGED answers
       \/ /\ row.answer = 0
          /\ answers < MaxAnswers
          /\ answers' = answers + 1
          /\ \E cut \in BOOLEAN :
               proc' = [proc EXCEPT !.pc = "keep",
                                    !.row = [row EXCEPT !.answer = answers', !.cut = cut]]
       \/ /\ row.answer = 0
          /\ proc' = [proc EXCEPT !.pc = "judge", !.row = [row EXCEPT !.failed = TRUE]]
          /\ UNCHANGED answers
  /\ UNCHANGED <<dir, journal, copy, fails>>

KeepAnswer ==
  /\ At("keep")
  /\ journal' = [journal EXCEPT !.answer[proc.row.target] =
                   [NoRow EXCEPT !.answer = proc.row.answer, !.cut = proc.row.cut]]
  /\ proc' = [proc EXCEPT !.pc = "judge"]
  /\ UNCHANGED <<dir, copy, answers, fails>>

\* A target whose generation failed is not judged.  A judge whose answer does
\* not parse is asked a second time in the same call.
Judge ==
  /\ At("judge")
  /\ LET t == proc.row.target IN
     \/ /\ proc.row.failed \/ journal.verdict[t] # 0
        /\ proc' = [proc EXCEPT !.pc = "append", !.row.verdict = journal.verdict[t]]
        /\ UNCHANGED journal
     \/ /\ ~proc.row.failed
        /\ journal.verdict[t] = 0
        /\ \/ /\ proc' = [proc EXCEPT !.pc = "append", !.row.verdict = proc.row.answer]
              /\ journal' = [journal EXCEPT !.verdict[t] = proc.row.answer]
           \/ /\ proc' = [proc EXCEPT !.pc = "append", !.row.failed = TRUE]
              /\ UNCHANGED journal
  /\ UNCHANGED <<dir, copy, answers, fails>>

AppendRow ==
  /\ At("append")
  /\ proc' = [proc EXCEPT !.pc = "next", !.rows = Append(@, proc.row), !.row = NoRow]
  /\ dir' = [dir EXCEPT !.results = Append(@, proc.row)]
  /\ UNCHANGED <<journal, copy, answers, fails>>

\* Rows, summary and state are written one after the other.
WriteResults ==
  /\ At("next")
  /\ Completed(proc.rows) = Target
  /\ dir' = [dir EXCEPT !.results = proc.rows]
  /\ proc' = [proc EXCEPT !.pc = "summary"]
  /\ UNCHANGED <<journal, copy, answers, fails>>

WriteSummary ==
  /\ At("summary")
  /\ dir' = [dir EXCEPT !.summary = proc.rows]
  /\ proc' = IF proc.tool = "run" THEN [proc EXCEPT !.pc = "complete"] ELSE Idle
  /\ UNCHANGED <<journal, copy, answers, fails>>

Complete ==
  /\ At("complete")
  /\ dir' = [dir EXCEPT !.state = "completed"]
  /\ proc' = Idle
  /\ UNCHANGED <<journal, copy, answers, fails>>

-----------------------------------------------------------------------------
(* Tools on a run that has results, complete or not. *)

HasRows == At("idle") /\ dir.results # <<>> /\ ~dir.torn

\* _rescore: scores are not modelled, the rows are copied.
Rescore ==
  /\ HasRows
  /\ dir' = [dir EXCEPT !.rescored = dir.results]
  /\ UNCHANGED <<journal, copy, proc, answers, fails>>

\* repair_judge_failures; the rows as they were are kept once.
StartRepair ==
  /\ HasRows
  /\ dir' = [dir EXCEPT !.initial = IF @ = <<>> THEN dir.results ELSE @]
  /\ proc' = [Idle EXCEPT !.pc = "row", !.tool = "repair", !.todo = dir.results]
  /\ UNCHANGED <<journal, copy, answers, fails>>

Lacks(row) == row.failed /\ row.answer # 0 /\ row.verdict = 0

RepairRow ==
  /\ At("row")
  /\ proc.tool = "repair"
  /\ proc.todo # <<>>
  /\ LET row == Head(proc.todo) IN
     \E repaired \in {row} \cup
          (IF Lacks(row) THEN {[row EXCEPT !.verdict = row.answer, !.failed = FALSE]} ELSE {}) :
       proc' = [proc EXCEPT !.todo = Tail(@), !.rows = Append(@, repaired)]
  /\ UNCHANGED <<dir, journal, copy, answers, fails>>

WriteRepaired ==
  /\ At("row")
  /\ proc.tool = "repair"
  /\ proc.todo = <<>>
  /\ dir' = [dir EXCEPT !.results = proc.rows]
  /\ proc' = [proc EXCEPT !.pc = "summary"]
  /\ UNCHANGED <<journal, copy, answers, fails>>

\* rejudge_existing and repair_generation_truncations: the directory must be new.
StartCopy ==
  /\ HasRows
  /\ copy.state = None
  /\ copy' = [copy EXCEPT !.state = "running"]
  /\ \E tool \in {"rejudge", "regenerate"} :
       LET kept == IF tool = "rejudge" THEN dir.initial ELSE dir.rescored
           rows == IF kept = <<>> THEN dir.results ELSE kept
       IN  proc' = [Idle EXCEPT !.pc = "row", !.tool = tool, !.todo = rows]
  /\ UNCHANGED <<dir, journal, answers, fails>>

CopyRow(row) ==
  /\ copy' = [copy EXCEPT !.results = Append(@, row)]
  /\ proc' = [proc EXCEPT !.todo = Tail(@), !.rows = Append(@, row)]

RejudgeRow ==
  /\ At("row")
  /\ proc.tool = "rejudge"
  /\ proc.todo # <<>>
  /\ LET row == Head(proc.todo) IN
     \/ CopyRow([row EXCEPT !.verdict = row.answer, !.failed = FALSE])
     \/ CopyRow([row EXCEPT !.verdict = 0, !.failed = TRUE])
  /\ UNCHANGED <<dir, journal, answers, fails>>

\* MUTATED: a new answer keeps the verdict of the old one.
KeepsVerdict(row, answer, cut) == [row EXCEPT !.answer = answer, !.cut = cut, !.failed = FALSE]

\* A new answer is judged; if that fails the tool ends (Dies).
Regenerated(row, answer, cut) ==
  [row EXCEPT !.answer = answer, !.cut = cut, !.verdict = answer, !.failed = FALSE]

\* Two tries, with and without thinking; the row is left as it is if both fail.
RegenerateRow ==
  /\ At("row")
  /\ proc.tool = "regenerate"
  /\ proc.todo # <<>>
  /\ LET row == Head(proc.todo) IN
     \/ ~row.cut /\ CopyRow(row) /\ UNCHANGED answers
     \/ row.cut /\ CopyRow([row EXCEPT !.failed = TRUE]) /\ UNCHANGED answers
     \/ /\ row.cut
        /\ answers < MaxAnswers
        /\ answers' = answers + 1
        /\ \E cut \in BOOLEAN : CopyRow(Regenerated(row, answers', cut))
  /\ UNCHANGED <<dir, journal, fails>>

\* The state file says completed after the summary.
FinishCopy ==
  /\ At("row")
  /\ proc.tool \in {"rejudge", "regenerate"}
  /\ proc.todo = <<>>
  /\ copy' = [copy EXCEPT !.summary = proc.rows, !.state = "completed"]
  /\ proc' = Idle
  /\ UNCHANGED <<dir, journal, answers, fails>>

\* A process ends where it is; a line it was appending may be left in part.
Dies ==
  /\ ~At("idle")
  /\ fails < MaxFails
  /\ fails' = fails + 1
  /\ proc' = Idle
  /\ \/ UNCHANGED dir
     \/ At("append") /\ dir' = [dir EXCEPT !.torn = TRUE]
  /\ UNCHANGED <<journal, copy, answers>>

RunExperiment ==
  \/ MakeDir \/ WriteState \/ Resume \/ Generate \/ KeepAnswer \/ Judge
  \/ AppendRow \/ WriteResults \/ WriteSummary \/ Complete

DepthTools ==
  \/ Rescore \/ StartRepair \/ RepairRow \/ WriteRepaired
  \/ StartCopy \/ RejudgeRow \/ RegenerateRow \/ FinishCopy

DepthNext == RunExperiment \/ DepthTools \/ Dies

DepthSpec == DepthInit /\ [][DepthNext]_depthVars

-----------------------------------------------------------------------------
(* Properties. *)

\* No row anywhere carries a verdict on another answer than its own, whichever
\* calls failed and whichever tools ran: the journal's key for a verdict does
\* not name the answer (runner.py:823-831), and a tool may replace either.
VerdictIsOfAnswer ==
  \A rows \in {dir.results, dir.initial, dir.rescored, dir.summary, copy.results} :
    \A i \in DOMAIN rows : rows[i].verdict \in {0, rows[i].answer}

\* A run that says completed has one row for each target and a summary of these
\* targets, however often it was resumed and repaired
\* (runner.py:724-727, :745, :768, :932-977).
CompletedIsWhole ==
  dir.state = "completed" =>
    /\ Len(dir.results) = Cardinality(Target)
    /\ Targets(dir.results) = Target
    /\ Targets(dir.summary) = Target

\* Both: what the files of a run say of its answers.
ResultsHold == VerdictIsOfAnswer /\ CompletedIsWhole

=============================================================================
