------------------------------ MODULE AblationRun ------------------------------
(***************************************************************************)
(* The ablation experiments (scripts/eval_rag_ablation.py): two            *)
(* experiments, each on a dev and on a frozen split.  A group of an        *)
(* experiment checkpoints its cases under a contract, the hash of the      *)
(* protocol, so that it is resumed under the same contract only; when it   *)
(* is complete, contract and traces are written and the checkpoint is      *)
(* removed, file by file.  A frozen split is run under the protocol that   *)
(* both experiments locked when they ran on dev.                           *)
(*                                                                         *)
(* One group stands for the groups of an experiment; a protocol is a       *)
(* number, 0 for a file that is not there.  A row is measured or not, and  *)
(* carries the protocol it was made under.                                 *)
(***************************************************************************)
EXTENDS Integers, FiniteSets

CONSTANTS
  Case,         \* cases of a split
  MaxProtocol,  \* bound: versions of code, prompts, data and settings
  MaxRuns       \* bound: processes that are started

ASSUME AblationAssumption ==
  IsFiniteSet(Case) /\ MaxProtocol \in Nat \ {0} /\ MaxRuns \in Nat

VARIABLES
  protocol,  \* that of the sources now
  group,     \* files of the group, for each experiment and split
  lock,      \* dev lock of each experiment
  job,       \* the process under way
  runs       \* processes that were started

ablationVars == <<protocol, group, lock, job, runs>>

Experiment == {"retrieval", "rag"}
Split == {"dev", "frozen"}
Group == Experiment \X Split
\* meta is checkpoint-contract.json; checked and traced say that the files are
\* there, which may be empty.
NoFiles == [meta |-> 0, checked |-> FALSE, checkpoint |-> {}, contract |-> 0,
            traced |-> FALSE, traces |-> {}, aggregate |-> 0]
NoJob == [pc |-> "none", g |-> <<"rag", "dev">>, rows |-> {}]

AblationInit ==
  /\ protocol = 1
  /\ group = [g \in Group |-> NoFiles]
  /\ lock = [e \in Experiment |-> 0]
  /\ job = NoJob
  /\ runs = 0

Of(g) == group[g]
Mine == group[job.g]
Cases(rows) == {r.c : r \in rows}
Measured(rows) == {r \in rows : r.measured}

\* Someone changes the code, a prompt, a threshold, or changes it back.
Edit ==
  /\ job.pc = "none"
  /\ \E p \in 1 .. MaxProtocol : p # protocol /\ protocol' = p
  /\ UNCHANGED <<group, lock, job, runs>>

\* check_phase_lock and check_cross_experiment_locks.
Unlocked(g) == g[2] = "dev" \/ \A e \in Experiment : lock[e] = protocol

\* A checkpoint of another contract is refused, before anything is changed.
Begin ==
  /\ job.pc = "none"
  /\ runs < MaxRuns
  /\ runs' = runs + 1
  /\ \E g \in Group :
       /\ Unlocked(g)
       /\ Of(g).meta \in {0, protocol}
       /\ group' = [group EXCEPT ![g].meta = protocol]
       /\ job' = [NoJob EXCEPT !.pc = "load", !.g = g]
  /\ UNCHANGED <<protocol, lock>>

\* _checkpoint_state: the checkpoint, or else what the group had completed under
\* this contract.  Rows that are not measured are dropped, to be tried again.
Load ==
  /\ job.pc = "load"
  /\ LET own == Mine.contract = protocol /\ Mine.traced
         saved == IF Mine.checked THEN Mine.checkpoint ELSE IF own THEN Mine.traces ELSE {}
         kept == Measured(saved)
     IN  /\ group' = IF Mine.checked \/ kept # saved
                     THEN [group EXCEPT ![job.g].checked = TRUE, ![job.g].checkpoint = kept]
                     ELSE group
         /\ job' = [job EXCEPT !.pc = "case", !.rows = kept]
  /\ UNCHANGED <<protocol, lock, runs>>

\* A case is run, or could not be measured: over the budget, or an error.
RunCase ==
  /\ job.pc = "case"
  /\ \E c \in Case \ Cases(job.rows), measured \in BOOLEAN :
       LET row == [c |-> c, measured |-> measured, protocol |-> protocol] IN
       /\ job' = [job EXCEPT !.rows = @ \cup {row}]
       /\ group' = [group EXCEPT ![job.g].checked = TRUE, ![job.g].checkpoint = @ \cup {row}]
  /\ UNCHANGED <<protocol, lock, runs>>

Writes(from, to, files) ==
  /\ job.pc = from
  /\ job' = [job EXCEPT !.pc = to]
  /\ group' = [group EXCEPT ![job.g] = files]
  /\ UNCHANGED <<protocol, lock, runs>>

\* _complete_group_checkpoint, four files one after the other.
WriteContract ==
  /\ Cases(job.rows) = Case
  /\ Writes("case", "traces", [Mine EXCEPT !.contract = protocol])

WriteTraces == Writes("traces", "unlink", [Mine EXCEPT !.traced = TRUE, !.traces = job.rows])

\* MUTATED: the contract of the checkpoint is removed before the checkpoint.
MetaFirst(files, step) ==
  IF step = 1 THEN [files EXCEPT !.meta = 0] ELSE [files EXCEPT !.checked = FALSE, !.checkpoint = {}]

\* The checkpoint is removed before its contract.
Unlinked(files, step) ==
  IF step = 1 THEN [files EXCEPT !.checked = FALSE, !.checkpoint = {}] ELSE [files EXCEPT !.meta = 0]

Unlink1 == Writes("unlink", "unlink2", Unlinked(Mine, 1))

Unlink2 == Writes("unlink2", "aggregate", Unlinked(Mine, 2))

\* The report of the experiment; on dev, then the lock.
Aggregate ==
  /\ Unlocked(job.g)
  /\ Writes("aggregate", IF job.g[2] = "dev" THEN "lock" ELSE "none",
            [Mine EXCEPT !.aggregate = protocol])

WriteLock ==
  /\ job.pc = "lock"
  /\ lock' = [lock EXCEPT ![job.g[1]] = protocol]
  /\ job' = NoJob
  /\ UNCHANGED <<protocol, group, runs>>

\* The process dies, or a call did not settle and the group is left for later.
Stop ==
  /\ job.pc # "none"
  /\ job' = NoJob
  /\ UNCHANGED <<protocol, group, lock, runs>>

AblationNext ==
  \/ Edit \/ Begin \/ Load \/ RunCase \/ WriteContract \/ WriteTraces
  \/ Unlink1 \/ Unlink2 \/ Aggregate \/ WriteLock \/ Stop

AblationSpec == AblationInit /\ [][AblationNext]_ablationVars

-----------------------------------------------------------------------------
(* Properties. *)

\* Whatever was edited, interrupted and resumed, a checkpoint holds rows of its
\* contract only, and a completed group has each case once, all made under the
\* contract beside it (eval_rag_ablation.py:434-513, :524-529).
RowsOfOneProtocol ==
  \A g \in Group :
    /\ \A r \in Of(g).checkpoint : r.protocol = Of(g).meta
    /\ Of(g).meta = 0 /\ Of(g).traced =>
         /\ Cardinality(Of(g).traces) = Cardinality(Case)
         /\ \A r \in Of(g).traces : r.protocol = Of(g).contract

=============================================================================
