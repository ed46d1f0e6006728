---------------------------- MODULE MultiAgentRun -----------------------------
(***************************************************************************)
(* One run of the multi-agent graph (app/multi_agent/runtime.py): a        *)
(* supervisor plans, tasks of the plan are executed in waves by agents     *)
(* that ask a model and call tools, failed tasks lead to one replan, and   *)
(* the supervisor writes the answer.  All of it shares one budget of       *)
(* steps, tokens and time, and retrieval agents share the results of their *)
(* tool calls (app/evidence_contracts/cache.py).                           *)
(*                                                                         *)
(* Tokens and time only grow, so what the code can tell of them is whether *)
(* the limit is passed; any text may pass the one, and the other may be    *)
(* passed at any time.  A step of this module runs from one await to the   *)
(* next, or is a part of such a stretch.  Handoffs in "raw" mode have no   *)
(* cache: they are the behaviours in which every result expires at once.   *)
(***************************************************************************)
EXTENDS Naturals, FiniteSets

CONSTANTS
  Id,             \* task ids, ordered by number
  ReadKey,        \* keys of tool calls: name and canonical arguments
  Intent,         \* what the message asks for; "off": contracts not enabled
  MaxTasks, MaxReplans, MaxSteps, MaxIterations,   \* MultiAgentLimits
  MaxRepairs      \* ActionContractPolicy

ASSUME RunAssumption ==
  /\ IsFiniteSet(Id) /\ Id \subseteq Nat \ {0}
  /\ Intent \subseteq {"off", "none", "cancel", "preview"}
  /\ {MaxTasks, MaxReplans, MaxSteps, MaxIterations, MaxRepairs} \subseteq Nat

VARIABLES
  node,      \* where the graph is; "planning" and the like: a model was asked
  plan,      \* the disposition, and the agent and dependencies of each task
  facts,     \* by whose task an id has facts
  errors,    \* kinds of the errors in the state
  replans,   \* replan_count
  intent,
  pending,   \* the tasks of the plan that execute_tasks has not collected
  task,      \* execute_one of each id
  cache,     \* the entry of each key
  budget     \* the _RunContext: steps taken, whether tokens and time are over

runVars == <<node, plan, facts, errors, replans, intent, pending, task, cache, budget>>

Agent == {"retrieval", "action"}
Error == {"planner", "replanner", "task", "contract", "cycle", "finalize"}

Plan == [disposition: {"execute", "reply"}, agent: [Id -> Agent \cup {"none"}],
         deps: [Id -> SUBSET Id]]
Refusal == [disposition |-> "reply", agent |-> [i \in Id |-> "none"],
            deps |-> [i \in Id |-> {}]]

\* "ask": about to claim a step; "more": after a tool call of the same response.
Task == [pc: {"off", "ask", "model", "call", "more", "tool", "wait", "done"},
         iteration: 0 .. MaxIterations, repairs: 0 .. MaxRepairs,
         key: SUBSET ReadKey,    \* of the read it carries out or waits for
         owner: Id \cup {0},     \* of the result it waits for
         got: {"none", "value", "error", "raised"},   \* that future's result
         facts: BOOLEAN, preview: BOOLEAN,
         outcome: {"none", "success", "failed", "contract"}]
NoTask == [pc |-> "off", iteration |-> 0, repairs |-> 0, key |-> {}, owner |-> 0,
           got |-> "none", facts |-> FALSE, preview |-> FALSE, outcome |-> "none"]

Entry == [state: {"none", "open", "kept"}, owner: Id \cup {0}]
NoEntry == [state |-> "none", owner |-> 0]

RunTypeOK ==
  /\ node \in {"plan", "planning", "replan", "replanning", "execute", "wave",
               "finalize", "finalizing", "ended"}
  /\ plan \in Plan
  /\ facts \in [Id -> Agent \cup {"none"}]
  /\ errors \subseteq Error
  /\ replans \in 0 .. MaxReplans
  /\ intent \in Intent
  /\ pending \subseteq Id
  /\ task \in [Id -> Task]
  /\ cache \in [ReadKey -> Entry]
  /\ budget \in [steps: 0 .. MaxSteps, over: BOOLEAN, late: BOOLEAN]

RunInit ==
  /\ node = "plan" /\ plan = Refusal
  /\ facts = [i \in Id |-> "none"]
  /\ errors = {} /\ replans = 0
  /\ intent \in Intent
  /\ pending = {}
  /\ task = [i \in Id |-> NoTask]
  /\ cache = [k \in ReadKey |-> NoEntry]
  /\ budget = [steps |-> 0, over |-> FALSE, late |-> FALSE]

-----------------------------------------------------------------------------
(* Plans and the budget.                                                   *)

TasksOf(p) == {i \in Id : p.agent[i] # "none"}
Completed == {i \in Id : facts[i] # "none"}

\* MUTATED: an action may be planned without a retrieval.
ValidAnyAction(p) ==
  LET ids == TasksOf(p) IN
  /\ \E place \in [ids -> 1 .. Cardinality(ids)] :
       \A i \in ids : \A j \in p.deps[i] : j \in ids /\ place[j] < place[i]
  /\ Cardinality(ids) <= MaxTasks

\* validate_dependencies: tasks depend on tasks before them in the list, and an
\* action on at least one retrieval.
Valid(p) ==
  LET ids == TasksOf(p) IN
  /\ Cardinality(ids) <= MaxTasks
  /\ \E place \in [ids -> 1 .. Cardinality(ids)] :
       \A i \in ids : \A j \in p.deps[i] : j \in ids /\ place[j] < place[i]
  /\ \A i \in ids : p.agent[i] = "action" =>
       \E j \in p.deps[i] : p.agent[j] = "retrieval"

Plans == {Refusal} \cup
  {p \in Plan : /\ p.disposition = "execute" /\ Valid(p)
                /\ \A i \in Id \ TasksOf(p) : p.deps[i] = {}}

\* _claim_step: the deadline and the steps.
MayClaim == ~budget.late /\ budget.steps < MaxSteps

\* The budget after a step was claimed, and after a text was counted that did or
\* did not pass the limit: then _count_tokens raises.
Claimed == [budget EXCEPT !.steps = @ + 1]
Counted == {[budget EXCEPT !.over = over] : over \in {budget.over, TRUE}}
ClaimedAndCounted == {[Claimed EXCEPT !.over = over] : over \in {budget.over, TRUE}}

-----------------------------------------------------------------------------
(* The supervisor.                                                         *)

\* A step and the request are claimed, and the model is asked.
SupervisorAsks ==
  /\ node \in {"plan", "replan", "finalize"} /\ MayClaim
  /\ node = "finalize" => plan.disposition = "execute" /\ intent # "cancel"
  /\ budget' \in {b \in ClaimedAndCounted : ~b.over}
  /\ node' = CASE node = "plan" -> "planning" [] node = "replan" -> "replanning"
               [] OTHER -> "finalizing"
  /\ UNCHANGED <<plan, facts, errors, replans, intent, pending, task, cache>>

\* The claim or the count raises before the model is asked, or the model times
\* out, raises or answers with something invalid or too long.
SupervisorRaises ==
  \/ /\ node \in {"plan", "replan", "finalize"}
     /\ node = "finalize" => plan.disposition = "execute" /\ intent # "cancel"
     /\ \/ ~MayClaim /\ UNCHANGED budget
        \/ MayClaim /\ budget' \in {b \in ClaimedAndCounted : b.over}
  \/ node \in {"planning", "replanning", "finalizing"} /\ budget' \in Counted

\* supervisor_plan and supervisor_replan with a plan.
Planned ==
  /\ node \in {"planning", "replanning"} /\ ~budget.over
  /\ plan' \in Plans
  /\ replans' = IF node = "replanning" THEN replans + 1 ELSE replans
  /\ node' = "execute"
  /\ UNCHANGED <<facts, errors, intent, pending, task, cache, budget>>

\* Their except blocks: a plan that refuses.
PlanFails ==
  /\ SupervisorRaises
  /\ \/ /\ node \in {"plan", "planning"}
        /\ errors' = {"planner"} /\ UNCHANGED replans
     \/ /\ node \in {"replan", "replanning"}
        /\ errors' = errors \cup {"replanner"} /\ replans' = replans + 1
  /\ plan' = Refusal /\ node' = "execute"
  /\ UNCHANGED <<facts, intent, pending, task, cache>>

\* supervisor_finalize: a reply that needs no model, the model's, or the excuse.
Finalize ==
  /\ \/ /\ node = "finalize"
        /\ plan.disposition = "reply" \/ intent = "cancel"
        /\ UNCHANGED <<errors, budget>>
     \/ node = "finalizing" /\ ~budget.over /\ UNCHANGED <<errors, budget>>
     \/ /\ node \in {"finalize", "finalizing"} /\ SupervisorRaises
        /\ errors' = errors \cup {"finalize"}
  /\ node' = "ended"
  /\ UNCHANGED <<plan, facts, replans, intent, pending, task, cache>>

-----------------------------------------------------------------------------
(* execute_tasks.                                                          *)

SkipExecution ==
  /\ node = "execute" /\ plan.disposition = "reply"
  /\ node' = "finalize"
  /\ UNCHANGED <<plan, facts, errors, replans, intent, pending, task, cache, budget>>

\* Tasks whose id has facts already, from the plan before, are left out.
StartExecution ==
  /\ node = "execute" /\ plan.disposition = "execute"
  /\ node' = "wave" /\ errors' = {}
  /\ pending' = TasksOf(plan) \ Completed
  /\ UNCHANGED <<plan, facts, replans, intent, task, cache, budget>>

Executing == {i \in Id : task[i].pc # "off"}
Ready == {i \in pending : plan.deps[i] \subseteq Completed}

\* All retrievals that are ready, or else one action.
Wave ==
  LET retrievals == {i \in Ready : plan.agent[i] = "retrieval"} IN
  IF retrievals # {} THEN retrievals ELSE {i \in Ready : \A j \in Ready : i <= j}

\* execute_one: an action that the message does not ask for is not run.
Begun(i) ==
  IF plan.agent[i] = "action" /\ intent \in {"none", "cancel"}
  THEN [NoTask EXCEPT !.pc = "done", !.outcome = "success"]
  ELSE [NoTask EXCEPT !.pc = "ask"]

StartWave ==
  /\ node = "wave" /\ Executing = {} /\ errors = {} /\ pending # {}
  /\ IF Ready = {}
     THEN errors' = {"cycle"} /\ UNCHANGED task
     ELSE /\ task' = [i \in Id |-> IF i \in Wave THEN Begun(i) ELSE NoTask]
          /\ UNCHANGED errors
  /\ UNCHANGED <<node, plan, facts, replans, intent, pending, cache, budget>>

EndedAs(outcome) == {i \in Executing : task[i].outcome = outcome}

\* MUTATED: a failed task is dropped without an error.
CollectSuccesses ==
  /\ node = "wave" /\ Executing # {}
  /\ \A i \in Executing : task[i].pc = "done"
  /\ facts' = [i \in Id |-> IF i \in EndedAs("success") THEN plan.agent[i] ELSE facts[i]]
  /\ pending' = pending \ Executing
  /\ task' = [i \in Id |-> NoTask]
  /\ UNCHANGED <<node, plan, errors, replans, intent, cache, budget>>

\* The wave is over: what succeeded is kept, also when something failed.
Collect ==
  /\ node = "wave" /\ Executing # {}
  /\ \A i \in Executing : task[i].pc = "done"
  /\ facts' = [i \in Id |-> IF i \in EndedAs("success") THEN plan.agent[i] ELSE facts[i]]
  /\ errors' = errors \cup (IF EndedAs("failed") # {} THEN {"task"} ELSE {})
                      \cup (IF EndedAs("contract") # {} THEN {"contract"} ELSE {})
  /\ pending' = pending \ Executing
  /\ task' = [i \in Id |-> NoTask]
  /\ UNCHANGED <<node, plan, replans, intent, cache, budget>>

\* needs_replan.
Replans == errors # {} /\ "contract" \notin errors /\ replans < MaxReplans

FinishExecution ==
  /\ node = "wave" /\ Executing = {} /\ (errors # {} \/ pending = {})
  /\ node' = IF Replans THEN "replan" ELSE "finalize"
  /\ UNCHANGED <<plan, facts, errors, replans, intent, pending, task, cache, budget>>

-----------------------------------------------------------------------------
(* run_task.                                                               *)

Ends(i, outcome) == [NoTask EXCEPT !.pc = "done", !.outcome = outcome]

\* The create_ticket contract holds for actions of a message that asks for one.
Contract(i) == plan.agent[i] = "action" /\ intent = "preview"

\* One repair, or the task fails for its contract.
Repaired(i, pc) ==
  IF task[i].repairs < MaxRepairs
  THEN [task[i] EXCEPT !.pc = pc, !.repairs = @ + 1]
  ELSE Ends(i, "contract")

Only(i, t) == task' = [task EXCEPT ![i] = t]

\* An iteration: a step and the request are claimed, and the model is asked.
Ask(i) ==
  /\ task[i].pc = "ask" /\ task[i].iteration < MaxIterations /\ MayClaim
  /\ budget' \in {b \in ClaimedAndCounted : ~b.over}
  /\ Only(i, [task[i] EXCEPT !.pc = "model", !.iteration = @ + 1])
  /\ UNCHANGED <<node, plan, facts, errors, replans, intent, pending, cache>>

\* The claim or the count raises; after the last iteration facts are enough.
AskRaises(i) ==
  /\ task[i].pc = "ask"
  /\ IF task[i].iteration = MaxIterations
     THEN /\ Only(i, Ends(i, IF task[i].facts THEN "success" ELSE "failed"))
          /\ UNCHANGED budget
     ELSE /\ Only(i, Ends(i, "failed"))
          /\ IF MayClaim THEN budget' \in {b \in ClaimedAndCounted : b.over}
                         ELSE UNCHANGED budget
  /\ UNCHANGED <<node, plan, facts, errors, replans, intent, pending, cache>>

\* The model times out or raises, or its answer passes the limit of tokens.
ModelRaises(i) ==
  /\ task[i].pc = "model"
  /\ budget' \in Counted
  /\ Only(i, Ends(i, "failed"))
  /\ UNCHANGED <<node, plan, facts, errors, replans, intent, pending, cache>>

\* An answer without tool calls ends the task, unless a preview is missing.
ModelConcludes(i) ==
  /\ task[i].pc = "model" /\ ~budget.over
  /\ IF Contract(i) /\ ~task[i].preview
     THEN \/ Only(i, Repaired(i, "ask")) /\ UNCHANGED budget
          \/ /\ task[i].repairs < MaxRepairs       \* counting the feedback raises
             /\ Only(i, Ends(i, "failed")) /\ budget' = [budget EXCEPT !.over = TRUE]
     ELSE Only(i, Ends(i, "success")) /\ UNCHANGED budget
  /\ UNCHANGED <<node, plan, facts, errors, replans, intent, pending, cache>>

ModelCalls(i) ==
  /\ task[i].pc = "model" /\ ~budget.over
  /\ Only(i, [task[i] EXCEPT !.pc = "call"])
  /\ UNCHANGED <<node, plan, facts, errors, replans, intent, pending, cache, budget>>

\* The response has no further tool call.
NextIteration(i) ==
  /\ task[i].pc = "more"
  /\ Only(i, [task[i] EXCEPT !.pc = "ask"])
  /\ UNCHANGED <<node, plan, facts, errors, replans, intent, pending, cache, budget>>

\* A call that is not carried out: a tool of another role, no time left, or, under
\* the contract, a second preview or arguments to be repaired.
CallRefused(i) ==
  /\ task[i].pc \in {"call", "more"}
  /\ \/ Only(i, Ends(i, "failed")) /\ UNCHANGED budget
     \/ Contract(i) /\ task[i].preview /\ Only(i, Ends(i, "contract")) /\ UNCHANGED budget
     \/ /\ Contract(i) /\ ~task[i].preview
        /\ \/ ~budget.over /\ Only(i, Repaired(i, "more")) /\ UNCHANGED budget
           \/ Only(i, Ends(i, "failed")) /\ budget' = [budget EXCEPT !.over = TRUE]
  /\ UNCHANGED <<node, plan, facts, errors, replans, intent, pending, cache>>

\* create_ticket is intercepted: its preview is the result.
CallWrite(i) ==
  /\ task[i].pc \in {"call", "more"} /\ plan.agent[i] = "action" /\ ~budget.late
  /\ Contract(i) => ~task[i].preview
  /\ Only(i, [task[i] EXCEPT !.pc = "tool"])
  /\ UNCHANGED <<node, plan, facts, errors, replans, intent, pending, cache, budget>>

-----------------------------------------------------------------------------
(* Results of tool calls.                                                  *)

\* The count of the result raises or passes, and what is made of an error's text.
After(i, got, over) ==
  LET t == [task[i] EXCEPT !.key = {}, !.owner = 0, !.got = "none"] IN
  IF got = "raised" \/ over THEN {Ends(i, "failed")}
  ELSE IF got = "error"
  THEN {IF Contract(i) THEN Repaired(i, "more") ELSE Ends(i, "failed")}
  ELSE {[t EXCEPT !.pc = "more", !.facts = some, !.preview = @ \/ plan.agent[i] = "action"]
          : some \in {t.facts, TRUE}}

\* A read whose key is open is waited for, one that is kept has its result, and
\* any other is carried out.
CallRead(i, k) ==
  /\ task[i].pc \in {"call", "more"} /\ plan.agent[i] = "retrieval" /\ ~budget.late
  /\ \/ /\ cache[k].state = "none"
        /\ Only(i, [task[i] EXCEPT !.pc = "tool", !.key = {k}])
        /\ cache' = [cache EXCEPT ![k] = [state |-> "open", owner |-> i]]
        /\ UNCHANGED budget
     \/ /\ cache[k].state = "open"
        /\ Only(i, [task[i] EXCEPT !.pc = "wait", !.key = {k}, !.owner = cache[k].owner])
        /\ UNCHANGED <<cache, budget>>
     \/ /\ cache[k].state = "kept"
        /\ budget' \in Counted
        /\ \E t \in After(i, "value", budget'.over) : Only(i, t)
        /\ UNCHANGED cache
  /\ UNCHANGED <<node, plan, facts, errors, replans, intent, pending>>

Waiting(i) == {j \in Id : task[j].pc = "wait" /\ task[j].owner = i /\ task[j].got = "none"}

\* MUTATED: an owner whose call raises leaves its future open.
ResolvedOnReturn(i, got) == IF got = "raised" THEN {} ELSE Waiting(i)

\* The tasks whose future the owner resolves.
Resolved(i, got) == Waiting(i)

\* The cache after it: only a value is kept, and nothing over a newer entry.
Stored(i, got) ==
  [k \in ReadKey |-> IF cache[k] # [state |-> "open", owner |-> i] THEN cache[k]
                 ELSE IF got = "value" THEN [state |-> "kept", owner |-> 0]
                 ELSE NoEntry]

\* The engine returns a result or an error's text, or the call times out.
ToolReturns(i) ==
  /\ task[i].pc = "tool"
  /\ \E got \in {"value", "error", "raised"} :
       /\ budget' \in IF got = "raised" THEN {budget} ELSE Counted
       /\ cache' = Stored(i, got)
       /\ \E t \in After(i, got, budget'.over) :
            task' = [j \in Id |-> IF j = i THEN t
                                  ELSE IF j \in Resolved(i, got)
                                  THEN [task[j] EXCEPT !.got = got]
                                  ELSE task[j]]
  /\ UNCHANGED <<node, plan, facts, errors, replans, intent, pending>>

WaitEnds(i) ==
  /\ task[i].pc = "wait" /\ task[i].got # "none"
  /\ budget' \in IF task[i].got = "raised" THEN {budget} ELSE Counted
  /\ \E t \in After(i, task[i].got, budget'.over) : Only(i, t)
  /\ UNCHANGED <<node, plan, facts, errors, replans, intent, pending, cache>>

-----------------------------------------------------------------------------
(* Time: an entry's ttl, which may be 0, and the deadline of the run.      *)

ExpireResult(k) ==
  /\ cache[k] # NoEntry
  /\ cache' = [cache EXCEPT ![k] = NoEntry]
  /\ UNCHANGED <<node, plan, facts, errors, replans, intent, pending, task, budget>>

DeadlinePasses ==
  /\ ~budget.late
  /\ budget' = [budget EXCEPT !.late = TRUE]
  /\ UNCHANGED <<node, plan, facts, errors, replans, intent, pending, task, cache>>

Supervise == SupervisorAsks \/ Planned \/ PlanFails \/ Finalize
Execute == SkipExecution \/ StartExecution \/ StartWave \/ Collect \/ FinishExecution
RunTask(i) ==
  \/ Ask(i) \/ AskRaises(i) \/ ModelRaises(i) \/ ModelConcludes(i) \/ ModelCalls(i)
  \/ NextIteration(i) \/ CallRefused(i) \/ CallWrite(i)
  \/ (\E k \in ReadKey : CallRead(i, k)) \/ ToolReturns(i) \/ WaitEnds(i)

RunNext == \/ Supervise \/ Execute \/ \E i \in Id : RunTask(i)
           \/ \E k \in ReadKey : ExpireResult(k)
           \/ DeadlinePasses

RunSpec == RunInit /\ [][RunNext]_runVars

\* Every coroutine is scheduled again, every await is bounded by a timeout, and
\* a response has finitely many tool calls.  Nothing is assumed of time itself.
FairRunSpec ==
  /\ RunSpec
  /\ WF_runVars(Supervise) /\ WF_runVars(Execute)
  /\ \A i \in Id : WF_runVars(RunTask(i)) /\ SF_runVars(NextIteration(i))

-----------------------------------------------------------------------------
(* Properties.                                                             *)

\* An action task runs only when the facts of a retrieval are there, whatever
\* failed before it and whichever plan it is of (models.py:49).
ActionAfterRetrieval ==
  \A i \in Id : task[i].pc \notin {"off", "done"} /\ plan.agent[i] = "action"
    => \E j \in Id : facts[j] = "retrieval"

\* A run that ends without errors after a plan was executed has facts for every
\* task of that plan: no failure is lost between waves, replans and the status;
\* and a valid plan never gets stuck on its dependencies, also not a second plan
\* that uses ids of the first one (runtime.py:735, 747).
StatusIsEarned ==
  /\ node = "ended" /\ errors = {} /\ plan.disposition = "execute"
       => TasksOf(plan) \subseteq Completed
  /\ "cycle" \notin errors

Asked(i) == task[i].pc # "model" /\ task'[i].pc = "model"
Thinking == {"planning", "replanning", "finalizing"}

\* No model is asked past the deadline, past the limit of tokens or without a
\* step of the limit, by whichever task or supervisor (runtime.py:150).
NoCallOverLimit ==
  [][(\E i \in Id : Asked(i)) \/ (node \notin Thinking /\ node' \in Thinking)
     => ~budget'.over /\ ~budget.late /\ budget'.steps = budget.steps + 1]_runVars

\* Every run comes to its answer: no task waits for a result for ever, no plan is
\* replanned for ever, and no failure stops the graph.
RunEnds == <>(node = "ended")
=============================================================================
