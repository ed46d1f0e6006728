------------------------ MODULE MultiAgentRunProofs --------------------------
(***************************************************************************)
(* Proofs about MultiAgentRun: for any numbers of tasks, replans, steps,   *)
(* iterations and repairs the limits hold, no action runs before a         *)
(* retrieval has succeeded, and a run without errors has done its plan.    *)
(* And about the typed ledger of such a run: for any claims, reads and     *)
(* times to live nobody is shown two claims of one fact.                   *)
(***************************************************************************)
EXTENDS MultiAgentRun, EvidenceLedger, FiniteSetTheorems, SequenceTheorems,
        WellFoundedInduction, TLAPS

Budget == [steps: 0 .. MaxSteps, over: BOOLEAN, late: BOOLEAN]

\* A second plan is asked for only while replans are left.
ReplanAllowed == node \in {"replan", "replanning"} => replans < MaxReplans

PlanIsValid == plan \in Plans

\* What execute_tasks has still to do has no facts, and only that is carried out.
PendingIsOpen == \A i \in pending : facts[i] = "none"
ExecutingIsPending == \A i \in Id : task[i].pc # "off" => node = "wave" /\ i \in pending

\* An action that is carried out or has facts was preceded by a retrieval.
FollowsRetrieval ==
  \A i \in Id : facts[i] = "action" \/ (task[i].pc # "off" /\ plan.agent[i] = "action")
    => \E j \in Id : facts[j] = "retrieval"

RunInv ==
  /\ RunTypeOK
  /\ ReplanAllowed
  /\ PlanIsValid
  /\ PendingIsOpen
  /\ ExecutingIsPending
  /\ FollowsRetrieval

-----------------------------------------------------------------------------
(* What the operators of the module return.                                *)

\* A task that has come to its end says how.
HasOutcome(t) == t.pc = "done" => t.outcome # "none"

LEMMA NoTaskType == NoTask \in Task
  BY RunAssumption DEF NoTask, Task

LEMMA EndsType ==
  ASSUME NEW i \in Id, NEW outcome \in {"success", "failed", "contract"}
  PROVE  /\ Ends(i, outcome) \in Task /\ Ends(i, outcome).pc = "done"
         /\ Ends(i, outcome).outcome = outcome
  BY NoTaskType DEF Ends, NoTask, Task

LEMMA RepairedType ==
  ASSUME RunTypeOK, NEW i \in Id, NEW pc \in {"ask", "more"}
  PROVE  /\ Repaired(i, pc) \in Task /\ Repaired(i, pc).pc \in {pc, "done"}
         /\ HasOutcome(Repaired(i, pc))
<1>1. task[i] \in Task
  BY DEF RunTypeOK
<1>2. CASE task[i].repairs < MaxRepairs
  <2>1. task[i].repairs + 1 \in 0 .. MaxRepairs
    BY <1>1, <1>2, RunAssumption DEF Task
  <2>2. Repaired(i, pc) = [task[i] EXCEPT !.pc = pc, !.repairs = @ + 1]
    BY <1>2 DEF Repaired
  <2> QED
    BY <1>1, <2>1, <2>2 DEF Task, HasOutcome
<1>3. CASE ~(task[i].repairs < MaxRepairs)
  BY <1>3, EndsType DEF Repaired, HasOutcome
<1> QED
  BY <1>2, <1>3

LEMMA AfterType ==
  ASSUME RunTypeOK, NEW i \in Id, NEW got \in {"value", "error", "raised"},
         NEW over \in BOOLEAN, NEW t \in After(i, got, over)
  PROVE  t \in Task /\ t.pc \in {"done", "more"} /\ HasOutcome(t)
<1>1. task[i] \in Task
  BY DEF RunTypeOK
<1>2. CASE got = "raised" \/ over
  BY <1>2, EndsType DEF After, HasOutcome
<1>3. CASE got = "error" /\ ~over
  <2>1. t = Repaired(i, "more") \/ t = Ends(i, "failed")
    BY <1>3 DEF After
  <2> QED
    BY <2>1, EndsType, RepairedType DEF HasOutcome
<1>4. CASE got = "value" /\ ~over
  <2>1. PICK some \in BOOLEAN :
          t = [[task[i] EXCEPT !.key = {}, !.owner = 0, !.got = "none"]
                 EXCEPT !.pc = "more", !.facts = some,
                        !.preview = @ \/ plan.agent[i] = "action"]
    BY <1>1, <1>4, Zenon DEF After, Task
  <2> QED
    BY <1>1, <2>1 DEF Task, HasOutcome
<1> QED
  BY <1>2, <1>3, <1>4

\* One more text counted on a budget.
LEMMA OverType ==
  ASSUME NEW b \in Budget, NEW over \in BOOLEAN
  PROVE  /\ [b EXCEPT !.over = over] \in Budget
         /\ [b EXCEPT !.over = over].steps = b.steps
  BY DEF Budget

LEMMA CountedType ==
  ASSUME RunTypeOK
  PROVE  Counted \subseteq Budget
<1>1. budget \in Budget /\ budget.over \in BOOLEAN
  BY DEF RunTypeOK, Budget
<1> SUFFICES ASSUME NEW over \in {budget.over, TRUE}
             PROVE  [budget EXCEPT !.over = over] \in Budget
  BY DEF Counted
<1>2. over \in BOOLEAN
  BY <1>1
<1> QED
  BY <1>1, <1>2, OverType

LEMMA ClaimedType ==
  ASSUME RunTypeOK, MayClaim
  PROVE  \A b \in ClaimedAndCounted :
           b \in Budget /\ b.steps = budget.steps + 1 /\ ~budget.late
<1>1. budget \in Budget /\ budget.over \in BOOLEAN
  BY DEF RunTypeOK, Budget
<1>2. budget.steps + 1 \in 0 .. MaxSteps
  BY <1>1, RunAssumption DEF MayClaim, Budget
<1>3. Claimed \in Budget /\ Claimed.steps = budget.steps + 1
  BY <1>1, <1>2 DEF Claimed, Budget
<1> SUFFICES ASSUME NEW over \in {budget.over, TRUE}
             PROVE  /\ [Claimed EXCEPT !.over = over] \in Budget
                    /\ [Claimed EXCEPT !.over = over].steps = budget.steps + 1
                    /\ ~budget.late
  BY DEF ClaimedAndCounted
<1>4. over \in BOOLEAN
  BY <1>1
<1> QED
  BY <1>3, <1>4, OverType DEF MayClaim

-----------------------------------------------------------------------------
(* The steps of a task.                                                    *)

\* What a step of a task leaves alone, and that it starts no other task.
WithinTask ==
  /\ task' \in [Id -> Task]
  /\ \A j \in Id : task'[j].pc # "off" => task[j].pc # "off"
  /\ \A j \in Id : HasOutcome(task[j]) => HasOutcome(task'[j])
  /\ cache' \in [ReadKey -> Entry]
  /\ budget' \in Budget
  /\ UNCHANGED <<node, plan, facts, errors, replans, intent, pending>>

\* A model is asked within the limits.
AsksWithin ==
  (\E j \in Id : Asked(j))
    => ~budget'.over /\ ~budget.late /\ budget'.steps = budget.steps + 1

\* A step that changes one task's record only, and does not ask a model.
LEMMA OnlyIsWithin ==
  ASSUME RunTypeOK, NEW i \in Id, task[i].pc # "off",
         NEW t \in Task, t.pc # "model", HasOutcome(t), Only(i, t),
         cache' \in [ReadKey -> Entry], budget' \in Budget,
         UNCHANGED <<node, plan, facts, errors, replans, intent, pending>>
  PROVE  WithinTask /\ AsksWithin
  BY DEF RunTypeOK, WithinTask, AsksWithin, Asked, Only

LEMMA TypesAtHand ==
  ASSUME RunTypeOK
  PROVE  /\ budget \in Budget /\ cache \in [ReadKey -> Entry]
         /\ task \in [Id -> Task]
         /\ [budget EXCEPT !.over = TRUE] \in Budget
<1>1. budget \in Budget
  BY DEF RunTypeOK, Budget
<1> QED
  BY <1>1, OverType DEF RunTypeOK

LEMMA RunTaskIsWithin ==
  ASSUME RunTypeOK, NEW i \in Id, RunTask(i)
  PROVE  WithinTask /\ AsksWithin
<1> USE TypesAtHand
<1>1. CASE Ask(i)
  <2>1. /\ MayClaim /\ task[i].pc = "ask" /\ task[i].iteration < MaxIterations
        /\ budget' \in ClaimedAndCounted /\ ~budget'.over
        /\ task' = [task EXCEPT ![i] = [task[i] EXCEPT !.pc = "model", !.iteration = @ + 1]]
        /\ UNCHANGED <<node, plan, facts, errors, replans, intent, pending, cache>>
    BY <1>1 DEF Ask, Only
  <2>2. task[i].iteration + 1 \in 0 .. MaxIterations
    BY <2>1, RunAssumption DEF Task
  <2>3. [task[i] EXCEPT !.pc = "model", !.iteration = @ + 1] \in Task
    BY <2>2, ZenonT(30) DEF Task
  <2>4. budget' \in Budget /\ budget'.steps = budget.steps + 1 /\ ~budget.late
    BY <2>1, ClaimedType
  <2>5. WithinTask
    BY <2>1, <2>3, <2>4 DEF WithinTask, HasOutcome
  <2> QED
    BY <2>1, <2>4, <2>5 DEF AsksWithin
<1>2. CASE AskRaises(i)
  <2>1. PICK outcome \in {"success", "failed"} : Only(i, Ends(i, outcome))
    BY <1>2 DEF AskRaises
  <2>2. budget' \in Budget
    BY <1>2, ClaimedType DEF AskRaises
  <2> QED
    BY <1>2, <2>1, <2>2, EndsType, OnlyIsWithin DEF AskRaises, HasOutcome
<1>3. CASE ModelRaises(i)
  BY <1>3, CountedType, EndsType, OnlyIsWithin DEF ModelRaises, HasOutcome
<1>4. CASE ModelConcludes(i)
  <2>1. /\ task[i].pc = "model"
        /\ budget' \in {budget, [budget EXCEPT !.over = TRUE]}
        /\ UNCHANGED <<node, plan, facts, errors, replans, intent, pending, cache>>
    BY <1>4 DEF ModelConcludes
  <2>2. \/ Only(i, Repaired(i, "ask"))
        \/ \E outcome \in {"success", "failed"} : Only(i, Ends(i, outcome))
    BY <1>4 DEF ModelConcludes
  <2> QED
    BY <2>1, <2>2, EndsType, RepairedType, OnlyIsWithin DEF HasOutcome
<1>5. CASE ModelCalls(i)
  <2>1. [task[i] EXCEPT !.pc = "call"] \in Task
    BY DEF Task
  <2>2. /\ [task[i] EXCEPT !.pc = "call"].pc = "call"
        /\ HasOutcome([task[i] EXCEPT !.pc = "call"])
    BY DEF Task, HasOutcome
  <2> QED
    BY <1>5, <2>1, <2>2, OnlyIsWithin DEF ModelCalls
<1>6. CASE NextIteration(i)
  <2>1. [task[i] EXCEPT !.pc = "ask"] \in Task
    BY DEF Task
  <2>2. /\ [task[i] EXCEPT !.pc = "ask"].pc = "ask"
        /\ HasOutcome([task[i] EXCEPT !.pc = "ask"])
    BY DEF Task, HasOutcome
  <2> QED
    BY <1>6, <2>1, <2>2, OnlyIsWithin DEF NextIteration
<1>7. CASE CallRefused(i)
  <2>1. /\ task[i].pc # "off"
        /\ budget' \in {budget, [budget EXCEPT !.over = TRUE]}
        /\ UNCHANGED <<node, plan, facts, errors, replans, intent, pending, cache>>
    BY <1>7 DEF CallRefused
  <2>2. \/ Only(i, Repaired(i, "more"))
        \/ \E outcome \in {"failed", "contract"} : Only(i, Ends(i, outcome))
    BY <1>7 DEF CallRefused
  <2> QED
    BY <2>1, <2>2, EndsType, RepairedType, OnlyIsWithin DEF HasOutcome
<1>8. CASE CallWrite(i)
  <2>1. [task[i] EXCEPT !.pc = "tool"] \in Task
    BY DEF Task
  <2>2. /\ [task[i] EXCEPT !.pc = "tool"].pc = "tool"
        /\ HasOutcome([task[i] EXCEPT !.pc = "tool"])
    BY DEF Task, HasOutcome
  <2> QED
    BY <1>8, <2>1, <2>2, OnlyIsWithin DEF CallWrite
<1>9. ASSUME NEW k \in ReadKey, CallRead(i, k)
      PROVE  WithinTask /\ AsksWithin
  <2>1. /\ task[i].pc # "off"
        /\ UNCHANGED <<node, plan, facts, errors, replans, intent, pending>>
    BY <1>9 DEF CallRead
  <2>2. CASE /\ Only(i, [task[i] EXCEPT !.pc = "tool", !.key = {k}])
             /\ cache' = [cache EXCEPT ![k] = [state |-> "open", owner |-> i]]
             /\ UNCHANGED budget
    <3>1. [task[i] EXCEPT !.pc = "tool", !.key = {k}] \in Task
      BY ZenonT(30) DEF Task
    <3>2. /\ [task[i] EXCEPT !.pc = "tool", !.key = {k}].pc = "tool"
          /\ HasOutcome([task[i] EXCEPT !.pc = "tool", !.key = {k}])
      BY DEF Task, HasOutcome
    <3>3. cache' \in [ReadKey -> Entry]
      BY <2>2 DEF Entry
    <3> QED
      BY <2>1, <2>2, <3>1, <3>2, <3>3, OnlyIsWithin
  <2>3. CASE /\ Only(i, [task[i] EXCEPT !.pc = "wait", !.key = {k}, !.owner = cache[k].owner])
             /\ UNCHANGED <<cache, budget>>
    <3>1. cache[k].owner \in Id \cup {0}
      BY DEF Entry
    <3>2. [task[i] EXCEPT !.pc = "wait", !.key = {k}, !.owner = cache[k].owner] \in Task
      BY <3>1, ZenonT(30) DEF Task
    <3>3. /\ [task[i] EXCEPT !.pc = "wait", !.key = {k}, !.owner = cache[k].owner].pc = "wait"
          /\ HasOutcome([task[i] EXCEPT !.pc = "wait", !.key = {k}, !.owner = cache[k].owner])
      BY DEF Task, HasOutcome
    <3> QED
      BY <2>1, <2>3, <3>2, <3>3, OnlyIsWithin
  <2>4. CASE /\ budget' \in Counted
             /\ \E t \in After(i, "value", budget'.over) : Only(i, t)
             /\ UNCHANGED cache
    <3>1. budget' \in Budget /\ budget'.over \in BOOLEAN
      BY <2>4, CountedType DEF Budget
    <3>2. PICK t \in After(i, "value", budget'.over) : Only(i, t)
      BY <2>4
    <3>3. t \in Task /\ t.pc # "model" /\ HasOutcome(t)
      BY <3>1, AfterType
    <3> QED
      BY <2>1, <2>4, <3>1, <3>2, <3>3, OnlyIsWithin
  <2> QED
    BY <1>9, <2>2, <2>3, <2>4 DEF CallRead
<1>10. CASE ToolReturns(i)
  <2>1. PICK got \in {"value", "error", "raised"} :
          /\ budget' \in IF got = "raised" THEN {budget} ELSE Counted
          /\ cache' = Stored(i, got)
          /\ \E t \in After(i, got, budget'.over) :
               task' = [j \in Id |-> IF j = i THEN t
                                     ELSE IF j \in Resolved(i, got)
                                     THEN [task[j] EXCEPT !.got = got]
                                     ELSE task[j]]
    BY <1>10 DEF ToolReturns
  <2>2. budget' \in Budget /\ budget'.over \in BOOLEAN
    BY <2>1, CountedType DEF Budget
  <2>3. PICK t \in After(i, got, budget'.over) :
          task' = [j \in Id |-> IF j = i THEN t
                                ELSE IF j \in Resolved(i, got)
                                THEN [task[j] EXCEPT !.got = got]
                                ELSE task[j]]
    BY <2>1
  <2>4. t \in Task /\ t.pc \in {"done", "more"} /\ HasOutcome(t)
    BY <2>2, AfterType
  <2>5. \A j \in Id : /\ [task[j] EXCEPT !.got = got] \in Task
                      /\ [task[j] EXCEPT !.got = got].pc = task[j].pc
                      /\ [task[j] EXCEPT !.got = got].outcome = task[j].outcome
    BY DEF Task
  <2>6. /\ task' \in [Id -> Task]
        /\ \A j \in Id : HasOutcome(task[j]) => HasOutcome(task'[j])
        /\ \A j \in Id \ {i} : task'[j].pc = task[j].pc
        /\ task'[i].pc \in {"done", "more"}
    BY <2>3, <2>4, <2>5 DEF HasOutcome
  <2>7. cache' \in [ReadKey -> Entry]
    BY <2>1 DEF Stored, Entry, NoEntry
  <2> QED
    BY <1>10, <2>2, <2>6, <2>7 DEF ToolReturns, WithinTask, AsksWithin, Asked
<1>11. CASE WaitEnds(i)
  <2>1. task[i].got \in {"value", "error", "raised"}
    BY <1>11 DEF WaitEnds, Task
  <2>2. budget' \in Budget /\ budget'.over \in BOOLEAN
    BY <1>11, CountedType DEF WaitEnds, Budget
  <2>3. PICK t \in After(i, task[i].got, budget'.over) : Only(i, t)
    BY <1>11 DEF WaitEnds
  <2>4. t \in Task /\ t.pc # "model" /\ HasOutcome(t)
    BY <2>1, <2>2, AfterType
  <2> QED
    BY <1>11, <2>2, <2>3, <2>4, OnlyIsWithin DEF WaitEnds
<1> QED
  BY <1>1, <1>2, <1>3, <1>4, <1>5, <1>6, <1>7, <1>8, <1>9, <1>10, <1>11 DEF RunTask

-----------------------------------------------------------------------------
(* Plans.                                                                  *)

LEMMA RefusalIsPlan == Refusal \in Plan /\ Refusal \in Plans
  BY DEF Refusal, Plan, Agent, Plans

LEMMA PlansAreTyped == Plans \subseteq Plan
  BY RefusalIsPlan DEF Plans

\* An action of a valid plan depends on a retrieval of that plan.
LEMMA ActionDepends ==
  ASSUME NEW p \in Plans, NEW i \in Id, p.agent[i] = "action"
  PROVE  \E j \in p.deps[i] : j \in Id /\ p.agent[j] = "retrieval"
<1>1. CASE p = Refusal
  BY <1>1 DEF Refusal
<1>2. CASE p # Refusal
  <2>1. p \in Plan /\ Valid(p)
    BY <1>2 DEF Plans
  <2>2. p.deps[i] \subseteq Id
    BY <2>1 DEF Plan
  <2>3. i \in TasksOf(p)
    BY DEF TasksOf
  <2> QED
    BY <2>1, <2>2, <2>3 DEF Valid
<1> QED
  BY <1>1, <1>2

-----------------------------------------------------------------------------
(* The steps preserve RunInv.                                              *)

LEMMA RunInvInit == RunInit => RunInv
<1> SUFFICES ASSUME RunInit PROVE RunInv
  OBVIOUS
<1>1. RunTypeOK
  <2>1. budget \in [steps: 0 .. MaxSteps, over: BOOLEAN, late: BOOLEAN]
    BY RunAssumption DEF RunInit
  <2>2. replans \in 0 .. MaxReplans
    BY RunAssumption DEF RunInit
  <2>3. task \in [Id -> Task] /\ cache \in [ReadKey -> Entry]
    BY NoTaskType DEF RunInit, NoEntry, Entry
  <2> QED
    BY <2>1, <2>2, <2>3, RefusalIsPlan DEF RunInit, RunTypeOK
<1>2. \A i \in Id : task[i].pc = "off" /\ facts[i] = "none"
  BY DEF RunInit, NoTask
<1> QED
  BY <1>1, <1>2, RefusalIsPlan
     DEF RunInit, RunInv, ReplanAllowed, PlanIsValid, PendingIsOpen,
         ExecutingIsPending, FollowsRetrieval

\* A step of the supervisor, outside of waves.
LEMMA SuperviseKeeps ==
  ASSUME RunInv, Supervise
  PROVE  RunInv'
<1> USE DEF RunInv
<1>1. ASSUME node # "wave", node' # "wave", UNCHANGED <<facts, pending, task>>,
             ReplanAllowed', PlanIsValid', RunTypeOK'
      PROVE  RunInv'
  <2>1. \A i \in Id : task[i].pc = "off"
    BY <1>1 DEF ExecutingIsPending
  <2> QED
    BY <1>1, <2>1 DEF PendingIsOpen, ExecutingIsPending, FollowsRetrieval
<1>2. CASE SupervisorAsks
  <2>1. budget' \in Budget
    BY <1>2, ClaimedType DEF SupervisorAsks
  <2>2. /\ node \in {"plan", "replan", "finalize"}
        /\ node' \in {"planning", "replanning", "finalizing"}
        /\ node' = "replanning" => node = "replan"
        /\ UNCHANGED <<plan, facts, errors, replans, intent, pending, task, cache>>
    BY <1>2 DEF SupervisorAsks
  <2>3. RunTypeOK'
    BY <2>1, <2>2 DEF RunTypeOK, Budget
  <2> QED
    BY <1>1, <2>2, <2>3 DEF ReplanAllowed, PlanIsValid
<1>3. CASE Planned
  <2>1. /\ node \in {"planning", "replanning"} /\ node' = "execute"
        /\ plan' \in Plans
        /\ replans' = IF node = "replanning" THEN replans + 1 ELSE replans
        /\ UNCHANGED <<facts, errors, intent, pending, task, cache, budget>>
    BY <1>3 DEF Planned
  <2>2. replans' \in 0 .. MaxReplans
    BY <2>1, RunAssumption DEF ReplanAllowed, RunTypeOK
  <2>3. RunTypeOK'
    BY <2>1, <2>2, PlansAreTyped DEF RunTypeOK
  <2> QED
    BY <1>1, <2>1, <2>3 DEF ReplanAllowed, PlanIsValid
<1>4. SupervisorRaises => budget' \in Budget
  BY CountedType, ClaimedType DEF SupervisorRaises, RunTypeOK, Budget
<1>5. CASE PlanFails
  <2>1. /\ node \in {"plan", "planning", "replan", "replanning"} /\ node' = "execute"
        /\ plan' = Refusal
        /\ errors' \in {{"planner"}, errors \cup {"replanner"}}
        /\ replans' = IF node \in {"replan", "replanning"} THEN replans + 1 ELSE replans
        /\ UNCHANGED <<facts, intent, pending, task, cache>>
    BY <1>5 DEF PlanFails
  <2>2. replans' \in 0 .. MaxReplans
    BY <2>1, RunAssumption DEF ReplanAllowed, RunTypeOK
  <2>3. budget' \in Budget
    BY <1>4, <1>5 DEF PlanFails
  <2>4. RunTypeOK'
    BY <2>1, <2>2, <2>3, RefusalIsPlan DEF RunTypeOK, Budget, Error
  <2> QED
    BY <1>1, <2>1, <2>4, RefusalIsPlan DEF ReplanAllowed, PlanIsValid
<1>6. CASE Finalize
  <2>1. /\ node \in {"finalize", "finalizing"} /\ node' = "ended"
        /\ errors' \in {errors, errors \cup {"finalize"}}
        /\ UNCHANGED <<plan, facts, replans, intent, pending, task, cache>>
    BY <1>6 DEF Finalize
  <2>2. budget' \in Budget
    BY <1>4, <1>6, TypesAtHand DEF Finalize
  <2>3. RunTypeOK'
    BY <2>1, <2>2 DEF RunTypeOK, Budget, Error
  <2> QED
    BY <1>1, <2>1, <2>3 DEF ReplanAllowed, PlanIsValid
<1> QED
  BY <1>2, <1>3, <1>5, <1>6 DEF Supervise

\* The tasks of a wave are ready, and an action among them has its retrieval.
LEMMA StartWaveKeeps ==
  ASSUME RunInv, StartWave
  PROVE  RunInv'
<1> USE DEF RunInv
<1>1. /\ node = "wave"
      /\ UNCHANGED <<node, plan, facts, replans, intent, pending, cache, budget>>
      /\ \A i \in Id : task[i].pc = "off"
  BY DEF StartWave, Executing
<1>2. CASE Ready = {}
  <2>1. errors' = {"cycle"} /\ task' = task
    BY <1>2 DEF StartWave
  <2>2. RunTypeOK'
    BY <1>1, <2>1 DEF RunTypeOK, Error
  <2> QED
    BY <1>1, <2>1, <2>2
       DEF ReplanAllowed, PlanIsValid, PendingIsOpen, ExecutingIsPending, FollowsRetrieval
<1>3. CASE Ready # {}
  <2>1. task' = [i \in Id |-> IF i \in Wave THEN Begun(i) ELSE NoTask] /\ errors' = errors
    BY <1>3 DEF StartWave
  <2>2. \A i \in Id : Begun(i) \in Task
    BY NoTaskType DEF Begun, NoTask, Task
  <2>3. RunTypeOK'
    BY <1>1, <2>1, <2>2, NoTaskType DEF RunTypeOK
  <2>4. Wave \subseteq Ready
    BY DEF Wave
  <2>5. \A i \in Id : task'[i].pc # "off" => i \in Ready
    BY <2>1, <2>4 DEF NoTask
  <2>6. ExecutingIsPending'
    BY <1>1, <2>5 DEF ExecutingIsPending, Ready
  <2>7. ASSUME NEW i \in Id, task'[i].pc # "off", plan.agent[i] = "action"
        PROVE  \E j \in Id : facts[j] = "retrieval"
    <3>1. plan.deps[i] \subseteq Completed
      BY <2>5, <2>7 DEF Ready
    <3>2. PICK j \in plan.deps[i] : j \in Id /\ plan.agent[j] = "retrieval"
      BY <2>7, ActionDepends DEF PlanIsValid
    <3>3. facts[j] \in {"retrieval", "action"}
      BY <3>1, <3>2 DEF Completed, RunTypeOK, Agent
    <3> QED
      BY <3>2, <3>3 DEF FollowsRetrieval
  <2>8. FollowsRetrieval'
    BY <1>1, <2>7 DEF FollowsRetrieval
  <2> QED
    BY <1>1, <2>3, <2>6, <2>8 DEF ReplanAllowed, PlanIsValid, PendingIsOpen
<1> QED
  BY <1>2, <1>3

\* What is collected was pending, so the facts of a retrieval stay.
LEMMA CollectKeeps ==
  ASSUME RunInv, Collect
  PROVE  RunInv'
<1> USE DEF RunInv
<1>1. /\ node = "wave"
      /\ facts' = [i \in Id |-> IF i \in EndedAs("success") THEN plan.agent[i] ELSE facts[i]]
      /\ pending' = pending \ Executing
      /\ task' = [i \in Id |-> NoTask]
      /\ UNCHANGED <<node, plan, replans, intent, cache, budget>>
  BY DEF Collect
<1>2. errors' \subseteq Error
  BY DEF Collect, RunTypeOK, Error
<1>3. facts' \in [Id -> Agent \cup {"none"}]
  BY <1>1 DEF RunTypeOK, Plan
<1>4. RunTypeOK'
  BY <1>1, <1>2, <1>3, NoTaskType DEF RunTypeOK
<1>5. EndedAs("success") \subseteq Executing
  BY DEF EndedAs
<1>6. PendingIsOpen'
  BY <1>1, <1>5 DEF PendingIsOpen, RunTypeOK
<1>7. ExecutingIsPending'
  BY <1>1 DEF ExecutingIsPending, NoTask
<1>8. \A j \in Id : facts[j] = "retrieval" => facts'[j] = "retrieval"
  BY <1>1, <1>5 DEF Executing, ExecutingIsPending, PendingIsOpen
<1>9. ASSUME NEW i \in Id, facts'[i] = "action"
      PROVE  \E j \in Id : facts[j] = "retrieval"
  <2>1. facts[i] = "action" \/ (task[i].pc # "off" /\ plan.agent[i] = "action")
    BY <1>1, <1>5, <1>9 DEF Executing
  <2> QED
    BY <2>1 DEF FollowsRetrieval
<1>10. FollowsRetrieval'
  BY <1>1, <1>8, <1>9 DEF FollowsRetrieval, NoTask
<1> QED
  BY <1>1, <1>4, <1>6, <1>7, <1>10 DEF ReplanAllowed, PlanIsValid

LEMMA ExecuteKeeps ==
  ASSUME RunInv, Execute
  PROVE  RunInv'
<1> USE DEF RunInv
<1>1. CASE SkipExecution
  <2>1. RunTypeOK'
    BY <1>1 DEF SkipExecution, RunTypeOK
  <2> QED
    BY <1>1, <2>1 DEF SkipExecution, ReplanAllowed, PlanIsValid, PendingIsOpen,
                      ExecutingIsPending, FollowsRetrieval
<1>2. CASE StartExecution
  <2>1. RunTypeOK'
    BY <1>2 DEF StartExecution, RunTypeOK, TasksOf
  <2>2. \A i \in Id : task[i].pc = "off"
    BY <1>2 DEF StartExecution, ExecutingIsPending
  <2>3. PendingIsOpen'
    BY <1>2 DEF StartExecution, PendingIsOpen, TasksOf, Completed
  <2> QED
    BY <1>2, <2>1, <2>2, <2>3 DEF StartExecution, ReplanAllowed, PlanIsValid,
                                  ExecutingIsPending, FollowsRetrieval
<1>3. CASE FinishExecution
  <2>1. RunTypeOK'
    BY <1>3 DEF FinishExecution, RunTypeOK
  <2>2. \A i \in Id : task[i].pc = "off"
    BY <1>3 DEF FinishExecution, Executing
  <2>3. ReplanAllowed'
    BY <1>3 DEF FinishExecution, ReplanAllowed, Replans
  <2> QED
    BY <1>3, <2>1, <2>2, <2>3 DEF FinishExecution, PlanIsValid, PendingIsOpen,
                                  ExecutingIsPending, FollowsRetrieval
<1> QED
  BY <1>1, <1>2, <1>3, StartWaveKeeps, CollectKeeps DEF Execute

LEMMA RunTaskKeeps ==
  ASSUME RunInv, NEW i \in Id, RunTask(i)
  PROVE  RunInv'
<1> USE DEF RunInv
<1>1. WithinTask
  BY RunTaskIsWithin
<1>2. RunTypeOK'
  BY <1>1 DEF WithinTask, RunTypeOK, Budget
<1> QED
  BY <1>1, <1>2 DEF WithinTask, ReplanAllowed, PlanIsValid, PendingIsOpen,
                    ExecutingIsPending, FollowsRetrieval

\* Entries expire and time passes.
LEMMA TimeKeeps ==
  ASSUME RunInv, DeadlinePasses \/ \E k \in ReadKey : ExpireResult(k)
  PROVE  RunInv'
<1> USE DEF RunInv
<1>1. /\ UNCHANGED <<node, plan, facts, errors, replans, intent, pending, task>>
      /\ cache' \in [ReadKey -> Entry] /\ budget' \in Budget
  <2>1. CASE DeadlinePasses
    BY <2>1 DEF DeadlinePasses, RunTypeOK, Budget
  <2>2. CASE \E k \in ReadKey : ExpireResult(k)
    BY <2>2 DEF ExpireResult, RunTypeOK, Budget, Entry, NoEntry
  <2> QED
    BY <2>1, <2>2
<1>2. RunTypeOK'
  BY <1>1 DEF RunTypeOK, Budget
<1> QED
  BY <1>1, <1>2 DEF ReplanAllowed, PlanIsValid, PendingIsOpen,
                    ExecutingIsPending, FollowsRetrieval

LEMMA RunInvNext == RunInv /\ [RunNext]_runVars => RunInv'
<1> SUFFICES ASSUME RunInv, [RunNext]_runVars PROVE RunInv'
  OBVIOUS
<1>1. CASE RunNext
  BY <1>1, SuperviseKeeps, ExecuteKeeps, RunTaskKeeps, TimeKeeps DEF RunNext
<1>2. CASE UNCHANGED runVars
  BY <1>2 DEF runVars, RunInv, RunTypeOK, ReplanAllowed, PlanIsValid, PendingIsOpen,
              ExecutingIsPending, FollowsRetrieval
<1> QED
  BY <1>1, <1>2

LEMMA RunInvAlways == RunSpec => []RunInv
<1>1. RunInit => RunInv
  BY RunInvInit
<1>2. RunInv /\ [RunNext]_runVars => RunInv'
  BY RunInvNext
<1> QED
  BY <1>1, <1>2, PTL DEF RunSpec

-----------------------------------------------------------------------------
(* What a run without errors has done.                                     *)

DoneHasOutcome == \A i \in Id : HasOutcome(task[i])

\* While execute_tasks works, its plan has tasks, and without an error each of them
\* is done or still to do.
WaveIsPlanned ==
  node = "wave" => /\ pending \subseteq TasksOf(plan)
                   /\ errors = {} => TasksOf(plan) \subseteq Completed \cup pending

\* After it, without an error all of them are done; a plan that failed has none.
RestIsDone ==
  node \in {"finalize", "finalizing", "ended"} /\ errors = {} /\ plan.disposition = "execute"
    => TasksOf(plan) \subseteq Completed

NoCycle == "cycle" \notin errors

EarnedInv == DoneHasOutcome /\ WaveIsPlanned /\ RestIsDone /\ NoCycle

-----------------------------------------------------------------------------
(* A valid plan never gets stuck on its dependencies.                      *)

\* A set with 0 and the successor of each of its numbers has all of them.
LEMMA SuccessorsFill ==
  ASSUME NEW S, 0 \in S, \A n \in Nat : n \in S => n + 1 \in S
  PROVE  Nat \subseteq S
<1> DEFINE Missed == {n \in Nat : n \notin S}
           Upto(n) == 0 .. n
           T == {Upto(n) : n \in Missed}
           R == StrictSubsetOrdering(Nat)
<1> SUFFICES ASSUME Missed # {} PROVE FALSE
  OBVIOUS
<1>1. T \subseteq FiniteSubsetsOf(Nat) /\ T # {}
  <2>1. \A n \in Nat : Upto(n) \in SUBSET Nat /\ IsFiniteSet(Upto(n))
    BY FS_Interval
  <2> QED
    BY <2>1 DEF FiniteSubsetsOf
<1>2. IsWellFoundedOn(R, FiniteSubsetsOf(Nat))
  BY FS_StrictSubsetOrderingWellFounded
<1>3. PICK x \in T : \A y \in T : ~(<<y, x>> \in R)
  <2> HIDE DEF T, R
  <2> QED
    BY <1>1, <1>2, WFMin
<1>4. PICK n \in Missed : x = Upto(n)
  OBVIOUS
<1>5. n \in Nat \ {0} /\ n - 1 \in Nat
  BY <1>4
<1>6. <<Upto(n - 1), x>> \in R
  BY <1>4, <1>5 DEF StrictSubsetOrdering
<1>7. n - 1 \in S
  BY <1>3, <1>5, <1>6
<1> QED
  BY <1>4, <1>5, <1>7

\* Of things that have numbers, one has the lowest.
LEMMA LowestExists ==
  ASSUME NEW X, NEW place \in [X -> Nat], NEW P, P \subseteq X, P # {}
  PROVE  \E i \in P : \A j \in P : place[i] <= place[j]
<1> SUFFICES ASSUME \A i \in P : \E j \in P : place[j] < place[i]
             PROVE  FALSE
  OBVIOUS
<1> DEFINE Unreached == {n \in Nat : \A i \in P : place[i] > n}
<1>1. 0 \in Unreached
  <2>1. \A i \in P : place[i] # 0
    OBVIOUS
  <2> QED
    BY <2>1
<1>2. ASSUME NEW n \in Nat, n \in Unreached
      PROVE  n + 1 \in Unreached
  <2>1. \A i \in P : place[i] > n /\ place[i] \in Nat
    BY <1>2
  <2>2. ASSUME NEW i \in P PROVE place[i] > n + 1
    <3>1. PICK j \in P : place[j] < place[i]
      OBVIOUS
    <3> QED
      BY <2>1, <3>1
  <2> QED
    BY <2>2
<1>3. Nat \subseteq Unreached
  <2> HIDE DEF Unreached
  <2> QED
    BY <1>1, <1>2, SuccessorsFill
<1>4. PICK i \in P : TRUE
  OBVIOUS
<1>5. place[i] \in Nat
  OBVIOUS
<1> QED
  BY <1>3, <1>5

\* If what is done or to do makes up the plan, something to do is ready.
LEMMA SomethingIsReady ==
  ASSUME RunTypeOK, PlanIsValid, pending # {}, pending \subseteq TasksOf(plan),
         TasksOf(plan) \subseteq Completed \cup pending
  PROVE  Ready # {}
<1> DEFINE ids == TasksOf(plan)
<1>1. plan # Refusal
  BY DEF TasksOf, Refusal
<1>2. Valid(plan)
  BY <1>1 DEF PlanIsValid, Plans
<1>3. PICK place \in [ids -> 1 .. Cardinality(ids)] :
        \A i \in ids : \A j \in plan.deps[i] : j \in ids /\ place[j] < place[i]
  BY <1>2 DEF Valid
<1>4. IsFiniteSet(ids)
  <2>1. ids \subseteq Id
    BY DEF TasksOf
  <2> QED
    BY <2>1, FS_Subset, RunAssumption
<1>5. Cardinality(ids) \in Nat
  BY <1>4, FS_CardinalityType
<1>6. place \in [ids -> Nat]
  BY <1>3, <1>5
<1>7. PICK i \in pending : \A j \in pending : place[i] <= place[j]
  <2> HIDE DEF ids
  <2>1. pending \subseteq ids
    BY DEF ids
  <2> QED
    BY <1>6, <2>1, LowestExists
<1>8. ASSUME NEW j \in plan.deps[i]
      PROVE  j \in Completed
  <2>1. i \in ids /\ j \in ids /\ place[j] < place[i]
    BY <1>3
  <2>2. place[i] \in Nat /\ place[j] \in Nat
    BY <1>6, <2>1
  <2>3. j \notin pending
    BY <1>7, <2>1, <2>2
  <2> QED
    BY <2>1, <2>3
<1> QED
  BY <1>7, <1>8 DEF Ready

-----------------------------------------------------------------------------
(* The steps preserve EarnedInv.                                           *)

LEMMA EarnedInit == RunInit => EarnedInv
  BY DEF RunInit, EarnedInv, DoneHasOutcome, HasOutcome, NoTask, WaveIsPlanned,
         RestIsDone, NoCycle

\* Plans are made outside of waves, and a plan that failed refuses.
LEMMA EarnedSupervise ==
  ASSUME RunInv, EarnedInv, Supervise
  PROVE  EarnedInv'
<1> USE DEF EarnedInv
<1>1. CASE SupervisorAsks
  BY <1>1 DEF SupervisorAsks, DoneHasOutcome, WaveIsPlanned, RestIsDone, NoCycle, Completed
<1>2. CASE Planned
  BY <1>2 DEF Planned, DoneHasOutcome, WaveIsPlanned, RestIsDone, NoCycle
<1>3. CASE PlanFails
  BY <1>3 DEF PlanFails, DoneHasOutcome, WaveIsPlanned, RestIsDone, NoCycle
<1>4. CASE Finalize
  BY <1>4 DEF Finalize, DoneHasOutcome, WaveIsPlanned, RestIsDone, NoCycle, Completed
<1> QED
  BY <1>1, <1>2, <1>3, <1>4 DEF Supervise

LEMMA EarnedStartWave ==
  ASSUME RunInv, EarnedInv, StartWave
  PROVE  EarnedInv'
<1> USE DEF EarnedInv
<1>1. /\ node = "wave" /\ errors = {} /\ pending # {}
      /\ UNCHANGED <<node, plan, facts, replans, intent, pending, cache, budget>>
  BY DEF StartWave
<1>2. Ready # {}
  BY <1>1, SomethingIsReady DEF RunInv, WaveIsPlanned
<1>3. task' = [i \in Id |-> IF i \in Wave THEN Begun(i) ELSE NoTask] /\ errors' = errors
  BY <1>2 DEF StartWave
<1>4. \A i \in Id : HasOutcome(Begun(i)) /\ HasOutcome(NoTask)
  BY DEF HasOutcome, Begun, NoTask
<1>5. DoneHasOutcome'
  BY <1>3, <1>4 DEF DoneHasOutcome
<1> QED
  BY <1>1, <1>3, <1>5 DEF WaveIsPlanned, RestIsDone, NoCycle, Completed

\* Without an error every task of the wave has succeeded.
LEMMA EarnedCollect ==
  ASSUME RunInv, EarnedInv, Collect
  PROVE  EarnedInv'
<1> USE DEF RunInv, EarnedInv
<1>1. /\ node = "wave" /\ node' = node /\ plan' = plan
      /\ \A i \in Executing : task[i].pc = "done"
      /\ facts' = [i \in Id |-> IF i \in EndedAs("success") THEN plan.agent[i] ELSE facts[i]]
      /\ errors' = errors \cup (IF EndedAs("failed") # {} THEN {"task"} ELSE {})
                          \cup (IF EndedAs("contract") # {} THEN {"contract"} ELSE {})
      /\ pending' = pending \ Executing
      /\ task' = [i \in Id |-> NoTask]
  BY DEF Collect
<1>2. \A i \in Executing : /\ i \in Id /\ i \in TasksOf(plan)
                           /\ task[i].outcome \in {"success", "failed", "contract"}
  <2>1. \A i \in Id : task[i].outcome \in {"none", "success", "failed", "contract"}
    BY DEF RunTypeOK, Task
  <2> QED
    BY <1>1, <2>1 DEF Executing, ExecutingIsPending, WaveIsPlanned, DoneHasOutcome, HasOutcome
<1>3. Completed \subseteq Completed'
  BY <1>1, <1>2 DEF Completed, EndedAs, TasksOf
<1>4. errors' = {} => errors = {} /\ Executing \subseteq Completed'
  <2>1. errors' = {} => errors = {} /\ Executing \subseteq EndedAs("success")
    BY <1>1, <1>2 DEF EndedAs
  <2>2. EndedAs("success") \subseteq Completed'
    BY <1>1, <1>2 DEF Completed, EndedAs, TasksOf
  <2> QED
    BY <2>1, <2>2
<1>5. WaveIsPlanned'
  BY <1>1, <1>3, <1>4 DEF WaveIsPlanned, TasksOf
<1>6. DoneHasOutcome'
  BY <1>1 DEF DoneHasOutcome, HasOutcome, NoTask
<1>7. NoCycle'
  BY <1>1 DEF NoCycle
<1> QED
  BY <1>1, <1>5, <1>6, <1>7 DEF RestIsDone

LEMMA EarnedExecute ==
  ASSUME RunInv, EarnedInv, Execute
  PROVE  EarnedInv'
<1> USE DEF EarnedInv
<1>1. CASE SkipExecution
  BY <1>1 DEF SkipExecution, DoneHasOutcome, WaveIsPlanned, RestIsDone, NoCycle
<1>2. CASE StartExecution
  BY <1>2 DEF StartExecution, DoneHasOutcome, WaveIsPlanned, RestIsDone, NoCycle,
              TasksOf, Completed
<1>3. CASE FinishExecution
  <2>1. /\ node = "wave" /\ node' \in {"replan", "finalize"}
        /\ errors # {} \/ pending = {}
        /\ UNCHANGED <<plan, facts, errors, replans, intent, pending, task, cache, budget>>
    BY <1>3 DEF FinishExecution
  <2>2. errors = {} => TasksOf(plan) \subseteq Completed
    BY <2>1 DEF WaveIsPlanned
  <2> QED
    BY <2>1, <2>2 DEF DoneHasOutcome, WaveIsPlanned, RestIsDone, NoCycle, TasksOf, Completed
<1> QED
  BY <1>1, <1>2, <1>3, EarnedStartWave, EarnedCollect DEF Execute

LEMMA EarnedNext == RunInv /\ EarnedInv /\ [RunNext]_runVars => EarnedInv'
<1> SUFFICES ASSUME RunInv, EarnedInv, [RunNext]_runVars PROVE EarnedInv'
  OBVIOUS
<1> USE DEF EarnedInv
<1>1. ASSUME NEW i \in Id, RunTask(i) PROVE EarnedInv'
  <2>1. WithinTask
    BY <1>1, RunTaskIsWithin DEF RunInv
  <2> QED
    BY <2>1 DEF WithinTask, DoneHasOutcome, WaveIsPlanned, RestIsDone, NoCycle,
                TasksOf, Completed
<1>2. CASE \/ DeadlinePasses \/ (\E k \in ReadKey : ExpireResult(k)) \/ UNCHANGED runVars
  BY <1>2 DEF DeadlinePasses, ExpireResult, runVars, DoneHasOutcome, WaveIsPlanned,
              RestIsDone, NoCycle, TasksOf, Completed
<1> QED
  BY <1>1, <1>2, EarnedSupervise, EarnedExecute DEF RunNext

-----------------------------------------------------------------------------
(* The theorems.                                                           *)

\* Types, and with them the limits of replans, steps, iterations and repairs.
THEOREM MultiTypeOK == RunSpec => []RunTypeOK
<1>1. RunInv => RunTypeOK
  BY DEF RunInv
<1> QED
  BY <1>1, RunInvAlways, PTL

\* No action task runs before a retrieval has succeeded.
THEOREM MultiActionAfterRetrieval == RunSpec => []ActionAfterRetrieval
<1>1. RunInv => ActionAfterRetrieval
  BY DEF RunInv, FollowsRetrieval, ActionAfterRetrieval
<1> QED
  BY <1>1, RunInvAlways, PTL

\* A run that ends without errors has facts for every task of the plan it executed,
\* and no plan gets stuck on its dependencies.
THEOREM MultiStatusIsEarned == RunSpec => []StatusIsEarned
<1>1. RunInit => EarnedInv
  BY EarnedInit
<1>2. RunInv /\ EarnedInv /\ [RunNext]_runVars => EarnedInv'
  BY EarnedNext
<1>3. EarnedInv => StatusIsEarned
  BY DEF EarnedInv, RestIsDone, NoCycle, StatusIsEarned
<1> QED
  BY <1>1, <1>2, <1>3, RunInvAlways, PTL DEF RunSpec

\* A step that asks a model stays within the limits.
LEMMA StepAsksWithin ==
  ASSUME RunInv, [RunNext]_runVars,
         (\E i \in Id : Asked(i)) \/ (node \notin Thinking /\ node' \in Thinking)
  PROVE  ~budget'.over /\ ~budget.late /\ budget'.steps = budget.steps + 1
<1> USE DEF RunInv
<1>1. ASSUME NEW i \in Id, RunTask(i) PROVE AsksWithin /\ node' = node
  BY <1>1, RunTaskIsWithin DEF WithinTask
<1>2. CASE SupervisorAsks
  BY <1>2, ClaimedType DEF SupervisorAsks, Asked
<1>3. CASE Planned \/ PlanFails \/ Finalize \/ SkipExecution \/ StartExecution
             \/ FinishExecution \/ DeadlinePasses \/ (\E k \in ReadKey : ExpireResult(k))
             \/ UNCHANGED runVars
  BY <1>3 DEF Planned, PlanFails, Finalize, SkipExecution, StartExecution,
              FinishExecution, DeadlinePasses, ExpireResult, runVars, Asked, Thinking
<1>4. CASE StartWave
  <2>1. node' = node
    BY <1>4 DEF StartWave
  <2>2. \A i \in Id : task' = task \/ task'[i] = Begun(i) \/ task'[i] = NoTask
    BY <1>4, Zenon DEF StartWave
  <2>3. \A i \in Id : Begun(i).pc # "model" /\ NoTask.pc # "model"
    BY DEF Begun, NoTask
  <2> QED
    BY <2>1, <2>2, <2>3 DEF Asked, Thinking
<1>5. CASE Collect
  BY <1>5 DEF Collect, NoTask, Asked, Thinking
<1> QED
  BY <1>1, <1>2, <1>3, <1>4, <1>5 DEF RunNext, Supervise, Execute, AsksWithin, Thinking

\* No model is asked past the deadline, past the tokens or without a step.
THEOREM MultiNoCallOverLimit == RunSpec => NoCallOverLimit
<1>1. RunInv /\ [RunNext]_runVars =>
        [(\E i \in Id : Asked(i)) \/ (node \notin Thinking /\ node' \in Thinking)
          => ~budget'.over /\ ~budget.late /\ budget'.steps = budget.steps + 1]_runVars
  BY StepAsksWithin
<1> QED
  BY <1>1, RunInvAlways, PTL DEF RunSpec, NoCallOverLimit

-----------------------------------------------------------------------------
(* The ledger of a typed run.                                              *)

IsList(s) == s \in Seq(ToSet(s))

LEMMA ListOf ==
  ASSUME NEW k \in Nat, NEW E, NEW s \in [1 .. k -> E]
  PROVE  IsList(s) /\ Len(s) = k
<1>1. DOMAIN s = 1 .. k /\ s \in [1 .. k -> ToSet(s)]
  BY DEF ToSet
<1>2. s \in Seq(ToSet(s))
  BY <1>1
<1> QED BY <1>1, <1>2 DEF IsList

LEMMA BoundedIsList ==
  ASSUME NEW E, NEW n \in Nat, NEW s \in BoundedSeq(E, n) PROVE IsList(s)
<1>1. PICK m \in 0 .. n : s \in [1 .. m -> E]
  BY DEF BoundedSeq, SeqOf
<1> QED BY <1>1, ListOf

ClaimFields == {"task", "call", "no", "read", "tool", "predicate", "passage", "subjects",
                "scope", "version", "seq", "from", "until", "asOf", "certain", "by"}

\* A claim has a number, and one of an order a time that is over two ttls after
\* its value was read.
IsClaim(c) ==
  /\ DOMAIN c = ClaimFields /\ c.seq \in Nat
  /\ c.tool = "order" => /\ c.until \in Nat /\ c.read \in Int
                         /\ c.until <= c.read + 2 * Ttl

\* One claim of a fact is standing, and the numbers are bounded.
LedgerHolds(ledger) ==
  /\ \A c \in ledger : IsClaim(c)
  /\ \E b \in Nat : \A c \in ledger : c.seq <= b
  /\ \A c, d \in ledger :
       c.by = NotSuperseded /\ d.by = NotSuperseded /\ FactKey(c) = FactKey(d) => c = d

\* A new claim's number is above those of its fact.
LEMMA NumberIsAbove ==
  ASSUME NEW ledger, LedgerHolds(ledger), NEW c, IsClaim(c)
  PROVE  /\ Number(ledger, c) \in Nat
         /\ \A d \in Rivals(ledger, c) : d.seq < Number(ledger, c)
<1>1. PICK last : last = {d.seq : d \in Rivals(ledger, c)}
  OBVIOUS
<1>2. PICK b \in Nat : \A d \in ledger : d.seq <= b
  BY DEF LedgerHolds
<1>3. \A s \in last : s \in Nat /\ s <= b
  BY <1>1, <1>2 DEF LedgerHolds, IsClaim, Rivals
<1>4. PICK n \in Nat : n = c.seq
  BY DEF IsClaim
<1>5. PICK over : over = {n} \cup {s + 1 : s \in last}
  OBVIOUS
<1>6. \E m \in over : m >= n /\ \A s \in last : m > s
  <2>1. CASE \A s \in last : n > s
    BY <1>4, <1>5, <2>1
  <2>2. CASE \E s \in last : ~(n > s)
    <3>1. PICK place : place = [s \in last |-> b - s]
      OBVIOUS
    <3>2. place \in [last -> Nat] /\ last # {}
      <4>1. \A s \in last : b - s \in Nat
        BY <1>2, <1>3
      <4> QED BY <2>2, <3>1, <4>1
    <3>3. PICK m \in last : \A s \in last : place[m] <= place[s]
      BY <3>2, LowestExists
    <3>4. ASSUME NEW s \in last PROVE s <= m
      BY <1>2, <1>3, <3>1, <3>3
    <3>5. m + 1 \in over /\ m \in Nat
      BY <1>3, <1>5
    <3>6. m + 1 >= n
      BY <1>3, <1>4, <2>2, <3>4, <3>5
    <3>7. \A s \in last : m + 1 > s
      BY <1>3, <3>4, <3>5
    <3> QED BY <3>5, <3>6, <3>7
  <2> QED BY <2>1, <2>2
<1>7. PICK m : m = Number(ledger, c)
  OBVIOUS
<1>8. m = CHOOSE x \in over : x >= n /\ \A s \in last : x > s
  BY <1>1, <1>4, <1>5, <1>7 DEF Number
<1>9. m \in over /\ m >= n /\ \A s \in last : m > s
  BY <1>6, <1>8
<1>10. m \in Nat
  BY <1>3, <1>5, <1>9
<1>11. ASSUME NEW d \in Rivals(ledger, c) PROVE d.seq < m
  <2>1. d.seq \in last
    BY <1>1
  <2> QED BY <1>3, <1>9, <1>10, <2>1
<1> QED BY <1>7, <1>10, <1>11

LEMMA BoundGrows ==
  ASSUME NEW ledger, NEW more, LedgerHolds(ledger), NEW n \in Nat,
         \A x \in more : x.seq = n \/ \E y \in ledger : x.seq = y.seq
  PROVE  \E b \in Nat : \A x \in more : x.seq <= b
<1>1. PICK b \in Nat : \A d \in ledger : d.seq <= b
  BY DEF LedgerHolds
<1>2. \A d \in ledger : d.seq \in Nat
  BY DEF LedgerHolds, IsClaim
<1>3. \A x \in more : x.seq <= n + b
  BY <1>1, <1>2
<1> QED BY <1>1, <1>3

LEMMA AddClaimHolds ==
  ASSUME NEW ledger, LedgerHolds(ledger), NEW c, IsClaim(c)
  PROVE  LedgerHolds(AddClaim(ledger, c))
<1>1. PICK n \in Nat : n = Number(ledger, c)
  BY NumberIsAbove
<1>2. \A d \in Rivals(ledger, c) : d.seq < n
  BY <1>1, NumberIsAbove
<1>3. PICK new : new = [c EXCEPT !.seq = n]
  OBVIOUS
<1>4. /\ DOMAIN new = ClaimFields /\ new.seq = n /\ new.tool = c.tool /\ new.until = c.until
      /\ new.read = c.read /\ new.subjects = c.subjects /\ new.predicate = c.predicate
      /\ new.scope = c.scope /\ new.version = c.version
  BY <1>3 DEF IsClaim, ClaimFields
<1>5. IsClaim(new) /\ FactKey(new) = FactKey(c)
  BY <1>4 DEF IsClaim, FactKey
<1>6. PICK old : old = {d \in Rivals(ledger, c) : d.by = NotSuperseded /\ d.seq < n}
  OBVIOUS
<1>7. ASSUME NEW d \in ledger, FactKey(d) = FactKey(c), d.by = NotSuperseded PROVE d \in old
  BY <1>2, <1>6, <1>7 DEF Rivals
<1>8. PICK more : more = AddClaim(ledger, c)
  OBVIOUS
<1>9. CASE \E d \in ledger : ClaimId(d) = ClaimId(c)
  <2>1. more = ledger
    BY <1>8, <1>9 DEF AddClaim
  <2> QED BY <1>8, <2>1
<1>10. CASE old = {} /\ ~\E d \in ledger : ClaimId(d) = ClaimId(c)
  <2>1. more = ledger \cup {new}
    BY <1>1, <1>3, <1>4, <1>6, <1>8, <1>10 DEF AddClaim
  <2>2. \A x \in more : IsClaim(x)
    BY <1>5, <2>1 DEF LedgerHolds
  <2>3. \E b \in Nat : \A x \in more : x.seq <= b
    BY <1>4, <2>1, BoundGrows, ZenonT(30)
  <2>4. ASSUME NEW x \in more, NEW y \in more, x.by = NotSuperseded, y.by = NotSuperseded,
               FactKey(x) = FactKey(y)
        PROVE  x = y
    <3>1. \A z \in ledger : z.by = NotSuperseded => FactKey(z) # FactKey(new)
      BY <1>5, <1>7, <1>10
    <3> QED BY <2>1, <2>4, <3>1 DEF LedgerHolds
  <2> QED BY <1>8, <2>2, <2>3, <2>4 DEF LedgerHolds
<1>11. CASE old # {} /\ ~\E d \in ledger : ClaimId(d) = ClaimId(c)
  <2>1. PICK first : first = CHOOSE d \in old : TRUE
    OBVIOUS
  <2>2. first \in old /\ first \in ledger /\ first.by = NotSuperseded /\ FactKey(first) = FactKey(c)
    BY <1>6, <1>11, <2>1 DEF Rivals
  <2>3. PICK id : id = ClaimId(c)
    OBVIOUS
  <2>4. id # NotSuperseded
    BY <2>3 DEF ClaimId, NotSuperseded
  <2>5. PICK gone : gone = [first EXCEPT !.by = id]
    OBVIOUS
  <2>6. /\ DOMAIN gone = ClaimFields /\ gone.seq = first.seq /\ gone.tool = first.tool
        /\ gone.until = first.until /\ gone.read = first.read /\ gone.by = id
    BY <2>2, <2>5 DEF LedgerHolds, IsClaim, ClaimFields
  <2>7. IsClaim(gone)
    BY <2>2, <2>6 DEF LedgerHolds, IsClaim
  <2>8. more = (ledger \ {first}) \cup {new, gone}
    BY <1>1, <1>3, <1>4, <1>6, <1>8, <1>11, <2>1, <2>3, <2>5 DEF AddClaim
  <2>9. \A x \in more : IsClaim(x)
    BY <1>5, <2>7, <2>8 DEF LedgerHolds
  <2>10. \E b \in Nat : \A x \in more : x.seq <= b
    <3>1. \A x \in more : x.seq = n \/ \E y \in ledger : x.seq = y.seq
      BY <1>4, <2>2, <2>6, <2>8
    <3> QED BY <3>1, BoundGrows
  <2>11. ASSUME NEW x \in more, NEW y \in more, x.by = NotSuperseded, y.by = NotSuperseded,
                FactKey(x) = FactKey(y)
         PROVE  x = y
    <3>1. \A z \in ledger \ {first} : z.by = NotSuperseded => FactKey(z) # FactKey(new)
      BY <1>5, <1>7, <2>2 DEF LedgerHolds
    <3>2. x # gone /\ y # gone
      BY <2>4, <2>6, <2>11
    <3> QED BY <2>8, <2>11, <3>1, <3>2 DEF LedgerHolds
  <2> QED BY <1>8, <2>9, <2>10, <2>11 DEF LedgerHolds
<1> QED BY <1>9, <1>10, <1>11

\* f is the ledger after each of the first n claims.
Adding(f, n, new) ==
  /\ f = [m \in 0 .. n |-> f[m]]
  /\ f[0] = claims
  /\ \A m \in 1 .. n : f[m] = AddClaim(f[m - 1], new[m])

LEMMA AddingExists ==
  ASSUME NEW new, NEW N \in Nat PROVE \E f : Adding(f, N, new)
<1> DEFINE S == {n \in Nat : \E f : Adding(f, n, new)}
<1>1. 0 \in S
  <2>1. PICK f : f = [m \in 0 .. 0 |-> claims]
    OBVIOUS
  <2>2. f[0] = claims /\ f = [m \in 0 .. 0 |-> f[m]]
    BY <2>1
  <2>3. \A m \in 1 .. 0 : FALSE
    OBVIOUS
  <2>4. Adding(f, 0, new)
    BY <2>2, <2>3 DEF Adding
  <2> QED BY <2>4
<1>2. ASSUME NEW n \in Nat, n \in S PROVE n + 1 \in S
  <2>1. PICK f : Adding(f, n, new)
    BY <1>2
  <2>2. PICK d : d = AddClaim(f[n], new[n + 1])
    OBVIOUS
  <2>3. PICK g : g = [m \in 0 .. n + 1 |-> IF m = n + 1 THEN d ELSE f[m]]
    OBVIOUS
  <2>4. \A m \in 0 .. n : m \in 0 .. n + 1 /\ m # n + 1 /\ g[m] = f[m]
    BY <2>3
  <2>5. g[0] = claims /\ g[n + 1] = d
    BY <2>1, <2>3, <2>4 DEF Adding
  <2>6. g = [m \in 0 .. n + 1 |-> g[m]]
    BY <2>3
  <2>7. ASSUME NEW m \in 1 .. n + 1 PROVE g[m] = AddClaim(g[m - 1], new[m])
    <3>1. CASE m = n + 1
      <4>1. m - 1 = n /\ g[n] = f[n] /\ g[m] = d
        BY <2>4, <2>5, <3>1
      <4> QED BY <2>2, <3>1, <4>1
    <3>2. CASE m # n + 1
      <4>1. m \in 1 .. n /\ m \in 0 .. n /\ m - 1 \in 0 .. n
        BY <3>2
      <4>2. g[m] = f[m] /\ g[m - 1] = f[m - 1]
        BY <2>4, <4>1
      <4> QED BY <2>1, <4>1, <4>2 DEF Adding
    <3> QED BY <3>1, <3>2
  <2>8. Adding(g, n + 1, new)
    BY <2>5, <2>6, <2>7 DEF Adding
  <2> QED BY <2>8
<1>3. Nat \subseteq S
  <2> HIDE DEF S
  <2> QED BY <1>1, <1>2, SuccessorsFill
<1> QED BY <1>3

LEMMA AddManyHolds ==
  ASSUME LedgerHolds(claims), NEW new, IsList(new), \A i \in 1 .. Len(new) : IsClaim(new[i])
  PROVE  LedgerHolds(AddMany(new))
<1> DEFINE Def(f) == [n \in 0 .. Len(new) |->
                        IF n = 0 THEN claims ELSE AddClaim(f[n - 1], new[n])]
           ledger == CHOOSE f : f = Def(f)
<1>1. AddMany(new) = ledger[Len(new)]
  BY DEF AddMany
<1>2. PICK N \in Nat : N = Len(new)
  BY DEF IsList
<1>3. PICK f : Adding(f, N, new)
  BY AddingExists
<1>4. f = Def(f)
  <2>1. f = [n \in 0 .. N |-> f[n]] /\ f[0] = claims
    BY <1>3 DEF Adding
  <2>2. ASSUME NEW n \in 0 .. N
        PROVE  f[n] = IF n = 0 THEN claims ELSE AddClaim(f[n - 1], new[n])
    <3>1. n # 0 => n \in 1 .. N
      OBVIOUS
    <3> QED BY <1>3, <3>1 DEF Adding
  <2> QED BY <1>2, <2>1, <2>2
<1>5. ledger = Def(ledger)
  BY <1>4
<1> HIDE DEF ledger
<1>6. ledger[0] = claims
  BY <1>2, <1>5
<1>7. ASSUME NEW n \in 1 .. N PROVE ledger[n] = AddClaim(ledger[n - 1], new[n])
  <2>1. n \in 0 .. Len(new) /\ n # 0
    BY <1>2
  <2> QED BY <1>5, <2>1
<1> HIDE DEF Def
<1> DEFINE T == {n \in Nat : n <= N => LedgerHolds(ledger[n])}
<1>8. 0 \in T
  BY <1>6
<1>9. ASSUME NEW n \in Nat, n \in T PROVE n + 1 \in T
  <2> SUFFICES ASSUME n + 1 <= N PROVE LedgerHolds(ledger[n + 1])
    OBVIOUS
  <2>1. n <= N /\ n + 1 \in 1 .. N /\ (n + 1) - 1 = n
    OBVIOUS
  <2>2. PICK l, c : l = ledger[n] /\ c = new[n + 1]
    OBVIOUS
  <2>3. LedgerHolds(l) /\ IsClaim(c)
    BY <1>2, <1>9, <2>1, <2>2
  <2>4. ledger[n + 1] = AddClaim(l, c)
    BY <1>7, <2>1, <2>2
  <2>5. LedgerHolds(AddClaim(l, c))
    BY <2>3, AddClaimHolds
  <2> QED BY <2>4, <2>5
<1>10. Nat \subseteq T
  <2> HIDE DEF T
  <2> QED BY <1>8, <1>9, SuccessorsFill
<1>11. LedgerHolds(ledger[N])
  BY <1>10
<1> QED BY <1>1, <1>2, <1>11

LEMMA OneIsList ==
  ASSUME NEW c, IsClaim(c)
  PROVE  IsList(<<c>>) /\ \A i \in 1 .. Len(<<c>>) : IsClaim(<<c>>[i])
<1>1. PICK s : s = <<c>>
  OBVIOUS
<1>2. s \in [1 .. 1 -> {c}] /\ s[1] = c
  BY <1>1
<1>3. IsList(s) /\ Len(s) = 1
  BY <1>2, ListOf
<1>4. \A i \in 1 .. 1 : i = 1
  OBVIOUS
<1> QED BY <1>1, <1>2, <1>3, <1>4

LEMMA ManyAreList ==
  ASSUME NEW k \in Nat, NEW s, s = [i \in 1 .. k |-> s[i]], \A i \in 1 .. k : IsClaim(s[i])
  PROVE  IsList(s) /\ \A i \in 1 .. Len(s) : IsClaim(s[i])
<1>1. PICK E : E = {s[i] : i \in 1 .. k}
  OBVIOUS
<1>2. s \in [1 .. k -> E]
  BY <1>1
<1>3. IsList(s) /\ Len(s) = k
  BY <1>2, ListOf
<1> QED BY <1>3

LEMMA BareClaim ==
  ASSUME NEW t, NEW call, NEW read
  PROVE  /\ DOMAIN Claim(t, call, read) = ClaimFields
         /\ Claim(t, call, read).tool = "search" /\ Claim(t, call, read).seq = 1
         /\ Claim(t, call, read).read = read
BY DEF Claim, ClaimFields

LEMMA PassagesAreClaims ==
  ASSUME NEW t, NEW call, NEW read, NEW found, IsList(found), NEW new,
         new = OfPassages(t, call, read, found)
  PROVE  IsList(new) /\ \A i \in 1 .. Len(new) : IsClaim(new[i])
<1>1. PICK c : /\ c = Claim(t, call, read)
               /\ DOMAIN c = ClaimFields /\ c.tool = "search" /\ c.seq = 1
  BY BareClaim
<1>2. CASE found = <<>>
  <2>1. PICK d : d = [c EXCEPT !.certain = FALSE]
    OBVIOUS
  <2>2. DOMAIN d = ClaimFields /\ d.tool = "search" /\ d.seq = 1
    BY <1>1, <2>1 DEF ClaimFields
  <2>3. IsClaim(d)
    BY <2>2 DEF IsClaim
  <2>4. new = <<d>>
    BY <1>1, <1>2, <2>1 DEF OfPassages
  <2> QED BY <2>3, <2>4, OneIsList
<1>3. CASE found # <<>>
  <2>1. PICK k \in Nat : k = Len(found) /\ DOMAIN found = 1 .. k
    BY DEF IsList
  <2> DEFINE OfOne(i) ==
        [c EXCEPT
           !.predicate = "policy_content", !.passage = found[i].id,
           !.subjects = IF found[i].subjects = {} THEN {"global_policy"} ELSE found[i].subjects,
           !.scope = found[i].scope, !.version = found[i].version, !.seq = i,
           !.from = EndOf(found[i].from), !.until = EndOf(found[i].until),
           !.asOf = EndOf(found[i].asOf)]
  <2>2. new = [i \in 1 .. k |-> OfOne(i)]
    BY <1>1, <1>3, <2>1 DEF OfPassages
  <2>3. ASSUME NEW i \in 1 .. k PROVE IsClaim(OfOne(i))
    <3>1. PICK d : d = OfOne(i)
      OBVIOUS
    <3>2. DOMAIN d = ClaimFields /\ d.tool = "search" /\ d.seq = i
      BY <1>1, <3>1 DEF ClaimFields
    <3>3. IsClaim(d)
      BY <3>2 DEF IsClaim
    <3> HIDE DEF OfOne
    <3> QED BY <3>1, <3>3
  <2> HIDE DEF OfOne
  <2>4. new = [i \in 1 .. k |-> new[i]] /\ \A i \in 1 .. k : IsClaim(new[i])
    BY <2>2, <2>3
  <2> QED BY <2>1, <2>4, ManyAreList
<1> QED BY <1>2, <1>3

LEMMA FieldsAreClaims ==
  ASSUME TypedAssumption, now \in Nat,
         NEW t, NEW call, NEW read \in Int, now <= read + Ttl, NEW order,
         NEW some, IsList(some), NEW new, new = OfOrder(t, call, read, order, some)
  PROVE  IsList(new) /\ \A i \in 1 .. Len(new) : IsClaim(new[i])
<1>1. PICK bare : /\ bare = Claim(t, call, read)
                  /\ DOMAIN bare = ClaimFields /\ bare.seq = 1 /\ bare.read = read
  BY BareClaim
<1>2. Ttl \in Nat
  BY DEF TypedAssumption
<1>3. PICK until \in Nat : until = now + Ttl /\ until <= read + 2 * Ttl
  BY <1>2
<1>4. PICK c : c = [bare EXCEPT !.tool = "order", !.subjects = {order}, !.until = until]
  OBVIOUS
<1>5. DOMAIN c = ClaimFields /\ c.seq = 1 /\ c.read = read /\ c.until = until
  BY <1>1, <1>4 DEF ClaimFields
<1>6. CASE some = <<>>
  <2>1. PICK d : d = [c EXCEPT !.certain = FALSE]
    OBVIOUS
  <2>2. DOMAIN d = ClaimFields /\ d.seq = 1 /\ d.read = read /\ d.until = until
    BY <1>5, <2>1 DEF ClaimFields
  <2>3. IsClaim(d)
    BY <1>3, <2>2 DEF IsClaim
  <2>4. new = <<d>>
    BY <1>1, <1>3, <1>4, <1>6, <2>1 DEF OfOrder
  <2> QED BY <2>3, <2>4, OneIsList
<1>7. CASE some # <<>>
  <2>1. PICK k \in Nat : k = Len(some) /\ DOMAIN some = 1 .. k
    BY DEF IsList
  <2> DEFINE OfOne(i) == [c EXCEPT !.predicate = some[i], !.seq = i]
  <2>2. new = [i \in 1 .. k |-> OfOne(i)]
    BY <1>1, <1>3, <1>4, <1>7, <2>1 DEF OfOrder
  <2>3. ASSUME NEW i \in 1 .. k PROVE IsClaim(OfOne(i))
    <3>1. PICK d : d = OfOne(i)
      OBVIOUS
    <3>2. DOMAIN d = ClaimFields /\ d.seq = i /\ d.read = read /\ d.until = until
      BY <1>5, <3>1 DEF ClaimFields
    <3>3. IsClaim(d)
      BY <1>3, <3>2 DEF IsClaim
    <3> HIDE DEF OfOne
    <3> QED BY <3>1, <3>3
  <2> HIDE DEF OfOne
  <2>4. new = [i \in 1 .. k |-> new[i]] /\ \A i \in 1 .. k : IsClaim(new[i])
    BY <2>2, <2>3
  <2> QED BY <2>1, <2>4, ManyAreList, ZenonT(30)
<1> QED BY <1>6, <1>7

\* What the cache has was read, and its results are sequences.
KeptHolds(k) == k.read \in Int /\ IsList(k.result)

TypedInv ==
  /\ now \in Nat
  /\ DOMAIN kept = Thing \cup {"search"} /\ \A k \in DOMAIN kept : KeptHolds(kept[k])
  /\ LedgerHolds(claims)
  /\ ShownIsCurrent

LEMMA TypedInitially == LedgerInit => TypedInv
<1> SUFFICES ASSUME LedgerInit PROVE TypedInv
  OBVIOUS
<1>1. PICK none : none = <<>>
  OBVIOUS
<1>2. none \in [1 .. 0 -> {}]
  BY <1>1
<1>3. IsList(none)
  BY <1>2, ListOf
<1>4. KeptHolds(NothingRead)
  BY <1>1, <1>3 DEF KeptHolds, NothingRead, NotGiven
<1>5. LedgerHolds({})
  BY DEF LedgerHolds
<1>6. ShownIsCurrent
  BY DEF LedgerInit, ShownIsCurrent, NothingShown
<1> QED BY <1>4, <1>5, <1>6 DEF LedgerInit, TypedInv

LEMMA NothingIsCurrent ==
  ASSUME shown' = NothingShown PROVE ShownIsCurrent'
BY DEF ShownIsCurrent, NothingShown

\* Active claims of a ledger are of different facts and of this time.
LEMMA ActiveIsCurrent ==
  ASSUME TypedAssumption, TypedInv, NEW who, NEW S, S \subseteq claims, \A c \in S : IsActive(c),
         shown' = [for |-> who, at |-> now, claims |-> S]
  PROVE  ShownIsCurrent'
<1>1. PICK s : s = shown' /\ s.at = now /\ s.claims = S
  OBVIOUS
<1>2. ASSUME NEW c \in S, NEW d \in S, FactKey(c) = FactKey(d) PROVE c = d
  BY <1>2 DEF TypedInv, LedgerHolds, IsActive
<1>3. ASSUME NEW c \in S, c.tool = "order" PROVE now <= c.read + 2 * Ttl
  <2>1. c.until \in Nat /\ c.read \in Int /\ c.until <= c.read + 2 * Ttl
    BY <1>3 DEF TypedInv, LedgerHolds, IsClaim
  <2>2. c.until # NotGiven
    BY <2>1 DEF NotGiven
  <2>3. now <= c.until
    BY <2>2 DEF IsActive
  <2>4. Ttl \in Nat /\ now \in Nat
    BY DEF TypedAssumption, TypedInv
  <2> QED BY <2>1, <2>3, <2>4
<1> QED BY <1>1, <1>2, <1>3 DEF ShownIsCurrent, FactKey

\* A result is the cache's, younger than its ttl, or is read now.
LEMMA CachedHolds ==
  ASSUME TypedAssumption, TypedInv, NEW k \in DOMAIN kept, NEW result, IsList(result)
  PROVE  /\ KeptHolds(Cached(k, result))
         /\ now <= Cached(k, result).read + Ttl
<1>1. now \in Nat /\ Ttl \in Nat /\ KeptHolds(kept[k])
  BY DEF TypedAssumption, TypedInv
<1>2. CASE kept[k].read # NotGiven /\ now - kept[k].read < Ttl
  <2>1. Cached(k, result) = kept[k]
    BY <1>2 DEF Cached
  <2> QED BY <1>1, <1>2, <2>1 DEF KeptHolds
<1>3. CASE ~(kept[k].read # NotGiven /\ now - kept[k].read < Ttl)
  <2>1. PICK got : got = Cached(k, result) /\ got = [read |-> now, result |-> result]
    BY <1>3 DEF Cached
  <2>2. got.read = now /\ got.result = result
    BY <2>1
  <2> QED BY <1>1, <2>1, <2>2 DEF KeptHolds
<1> QED BY <1>2, <1>3

LEMMA KeptStays ==
  ASSUME TypedInv, NEW k \in DOMAIN kept, NEW got, KeptHolds(got),
         kept' = [kept EXCEPT ![k] = got]
  PROVE  DOMAIN kept' = Thing \cup {"search"} /\ \A j \in DOMAIN kept' : KeptHolds(kept'[j])
BY DEF TypedInv

LEMMA ReadOrderKeeps ==
  ASSUME TypedAssumption, TypedInv, NEW t, ReadOrder(t) PROVE TypedInv'
<1>1. PICK o, some, call, got :
        /\ o \in Thing /\ some \in Payloads /\ call \in Calls(t)
        /\ got = Cached(o, some)
        /\ kept' = [kept EXCEPT ![o] = got]
        /\ claims' = AddMany(OfOrder(t, call, got.read, o, got.result))
  BY DEF ReadOrder
<1>2. IsList(some)
  <2>1. PICK n \in Nat : n = Len(Fields)
    BY DEF TypedAssumption
  <2>2. some \in BoundedSeq(ToSet(Fields), n)
    BY <1>1, <2>1 DEF Payloads
  <2> QED BY <2>2, BoundedIsList
<1>3. o \in DOMAIN kept /\ now \in Nat /\ LedgerHolds(claims)
  BY <1>1 DEF TypedInv
<1>4. KeptHolds(got) /\ now <= got.read + Ttl
  BY <1>1, <1>2, <1>3, CachedHolds
<1>5. PICK new : new = OfOrder(t, call, got.read, o, got.result)
  OBVIOUS
<1>6. IsList(new) /\ \A i \in 1 .. Len(new) : IsClaim(new[i])
  BY <1>3, <1>4, <1>5, FieldsAreClaims DEF KeptHolds
<1>7. LedgerHolds(claims')
  <2>1. LedgerHolds(AddMany(new))
    BY <1>3, <1>6, AddManyHolds
  <2> QED BY <1>1, <1>5, <2>1
<1>8. DOMAIN kept' = Thing \cup {"search"} /\ \A j \in DOMAIN kept' : KeptHolds(kept'[j])
  BY <1>1, <1>3, <1>4, KeptStays
<1>9. ShownIsCurrent' /\ now' = now
  BY NothingIsCurrent DEF ReadOrder
<1> QED BY <1>3, <1>7, <1>8, <1>9 DEF TypedInv, LedgerHolds, FactKey, KeptHolds

LEMMA ReadPolicyKeeps ==
  ASSUME TypedAssumption, TypedInv, NEW t, ReadPolicy(t) PROVE TypedInv'
<1>1. PICK found, call, got :
        /\ found \in Found /\ call \in Calls(t)
        /\ got = Cached("search", found)
        /\ kept' = [kept EXCEPT !["search"] = got]
        /\ claims' = AddMany(OfPassages(t, call, got.read, got.result))
  BY DEF ReadPolicy
<1>2. IsList(found)
  <2>1. MaxPassages \in Nat
    BY DEF TypedAssumption
  <2> QED BY <1>1, <2>1, BoundedIsList DEF Found
<1>3. "search" \in DOMAIN kept /\ now \in Nat /\ LedgerHolds(claims)
  BY DEF TypedInv
<1>4. KeptHolds(got)
  BY <1>1, <1>2, <1>3, CachedHolds
<1>5. PICK new : new = OfPassages(t, call, got.read, got.result)
  OBVIOUS
<1>6. IsList(new) /\ \A i \in 1 .. Len(new) : IsClaim(new[i])
  BY <1>4, <1>5, PassagesAreClaims DEF KeptHolds
<1>7. LedgerHolds(claims')
  <2>1. LedgerHolds(AddMany(new))
    BY <1>3, <1>6, AddManyHolds
  <2> QED BY <1>1, <1>5, <2>1
<1>8. DOMAIN kept' = Thing \cup {"search"} /\ \A j \in DOMAIN kept' : KeptHolds(kept'[j])
  BY <1>1, <1>3, <1>4, KeptStays
<1>9. ShownIsCurrent' /\ now' = now
  BY NothingIsCurrent DEF ReadPolicy
<1> QED BY <1>3, <1>7, <1>8, <1>9 DEF TypedInv, LedgerHolds, FactKey, KeptHolds

LEMMA TypedNext ==
  ASSUME TypedAssumption, TypedInv, [LedgerNext]_claimVars PROVE TypedInv'
<1>1. ASSUME NEW t \in TypedTask, StartTask(t) PROVE TypedInv'
  <2>1. Project(t) \subseteq claims /\ \A c \in Project(t) : IsActive(c)
    BY DEF Project
  <2>2. ShownIsCurrent'
    BY <1>1, <2>1, ActiveIsCurrent DEF StartTask
  <2> QED BY <1>1, <2>2 DEF StartTask, TypedInv
<1>2. ASSUME NEW t \in TypedTask, FinishTask(t) PROVE TypedInv'
  BY <1>2, NothingIsCurrent DEF FinishTask, TypedInv
<1>3. CASE Conclude
  <2>1. ProjectSupervisor \subseteq claims /\ \A c \in ProjectSupervisor : IsActive(c)
    BY DEF ProjectSupervisor
  <2>2. ShownIsCurrent'
    BY <1>3, <2>1, ActiveIsCurrent DEF Conclude
  <2> QED BY <1>3, <2>2 DEF Conclude, TypedInv
<1>4. CASE Tick
  BY <1>4, NothingIsCurrent DEF Tick, TypedInv
<1>5. CASE UNCHANGED claimVars
  BY <1>5 DEF claimVars, TypedInv, ShownIsCurrent
<1> QED BY <1>1, <1>2, <1>3, <1>4, <1>5, ReadOrderKeeps, ReadPolicyKeeps DEF LedgerNext

\* Nobody is shown two claims of one fact, whichever tasks read it and in which
\* order, nor a field of an order that was read longer than two ttls ago
\* (ledger.py:47-78).
THEOREM ShownStaysCurrent ==
  ASSUME TypedAssumption PROVE LedgerSpec => []ShownIsCurrent
<1>1. TypedInv /\ [LedgerNext]_claimVars => TypedInv'
  BY TypedNext
<1>2. TypedInv => ShownIsCurrent
  BY DEF TypedInv
<1> QED BY <1>1, <1>2, TypedInitially, PTL DEF LedgerSpec

=============================================================================
