------------------------------ MODULE ActionTurn ------------------------------
(***************************************************************************)
(* What a message to the agents may do to the pending ticket preview of its *)
(* conversation, and what the reply may say of it: the intent that is read  *)
(* from the message, the contract of the action agent                       *)
(* (app/action_contracts/checker.py, app/multi_agent/runtime.py) and the    *)
(* guard of the reply.  Runs of one conversation share the ledger with the  *)
(* confirmations and cancellations of the client, which the module          *)
(* TicketConfirmation has in full.                                          *)
(*                                                                         *)
(* Of a message it is told which kinds of words it has, of what a model     *)
(* writes whether it says that a preview or a ticket has been made.         *)
(***************************************************************************)
EXTENDS Naturals

CONSTANTS
  AgentRun,       \* runs of the agents for the conversation
  Messages,       \* what they are asked, as sets of words
  MaxIterations,  \* max_agent_iterations
  MaxRepairs,     \* ActionContractPolicy.max_repairs
  MaxActs,        \* tasks of a plan for the action agent; a plan has three, one a retrieval
  MaxReplans      \* max_replans

Words == {"feasible", "cancel", "withhold", "confirm", "ticket", "create", "preview", "change"}

ASSUME ActionAssumption ==
  /\ Messages \subseteq SUBSET Words
  /\ {MaxIterations, MaxRepairs, MaxActs, MaxReplans} \subseteq Nat

VARIABLES
  made,      \* previews that have been made
  awaiting,  \* the preview that awaits its confirmation; 0 if there is none
  agent      \* the runs

actionVars == <<made, awaiting, agent>>

NoAgent == [pc |-> "idle", words |-> {}, intent |-> "unread", since |-> 0, until |-> 0,
            replans |-> 0, disposition |-> "none", tasks |-> 0, own |-> FALSE, steps |-> 0,
            repairs |-> 0, noted |-> FALSE, told |-> FALSE, artifacts |-> {}, all |-> {},
            reply |-> "none"]

ActionInit ==
  /\ made = 0
  /\ awaiting = 0
  /\ agent = [r \in AgentRun |-> NoAgent]

-----------------------------------------------------------------------------
(* infer_action_intent. *)

AsksTicket(words, pending) ==
  \/ {"ticket", "create"} \subseteq words
  \/ pending /\ {"preview", "change"} \subseteq words
  \/ ~pending /\ {"ticket", "preview"} \subseteq words

Withdraws(words, pending) == "cancel" \in words \/ (pending /\ "withhold" \in words)

Infer(words, pending) ==
  IF "feasible" \in words THEN "none"
  ELSE IF Withdraws(words, pending) THEN "cancel"
  ELSE IF pending /\ words = {"confirm"} THEN "confirm"
  ELSE IF AsksTicket(words, pending) THEN "preview"
  ELSE "none"

-----------------------------------------------------------------------------
(* Planning. *)

ReadMessage(r) ==
  /\ agent[r].pc = "idle"
  /\ \E words \in Messages :
       agent' = [agent EXCEPT ![r] = [NoAgent EXCEPT !.pc = "plan", !.words = words]]
  /\ UNCHANGED <<made, awaiting>>

\* Plans for tasks, some of which are the action agent's, and plans for none.
TaskPlans ==
  {p \in [disposition : {"execute", "clarify", "refuse", "handoff"}, acts : 0 .. MaxActs] :
     p.acts # 0 => p.disposition = "execute"}

Planned(req, p) ==
  [req EXCEPT !.pc = IF p.disposition = "execute" THEN "start" ELSE "final",
              !.disposition = p.disposition, !.tasks = p.acts]

\* MUTATED: a preview is cancelled where the plan has a task for it.
CancelsInTask(r, p) ==
  LET intent == Infer(agent[r].words, awaiting # 0)
      cancels == intent = "cancel" /\ p.acts # 0
      req == [agent[r] EXCEPT !.intent = intent, !.since = made, !.noted = cancels /\ awaiting = 0,
                              !.artifacts = IF cancels THEN {"cancelled"} ELSE {},
                              !.all = IF cancels THEN {"cancelled"} ELSE {}]
  IN  /\ agent' = [agent EXCEPT ![r] = Planned(req, p)]
      /\ awaiting' = IF cancels THEN 0 ELSE awaiting

\* supervisor_plan: the intent is read when the plan is there, and a message
\* that cancels does so whatever the plan is.  The planner refuses where it fails.
ReadIntent(r, p) ==
  LET intent == Infer(agent[r].words, awaiting # 0)
      cancels == intent = "cancel"
      req == [agent[r] EXCEPT !.intent = intent, !.since = made, !.noted = cancels /\ awaiting = 0,
                              !.artifacts = IF cancels THEN {"cancelled"} ELSE {},
                              !.all = IF cancels THEN {"cancelled"} ELSE {}]
  IN  /\ agent' = [agent EXCEPT ![r] = Planned(req, p)]
      /\ awaiting' = IF cancels THEN 0 ELSE awaiting

PlanTasks(r) ==
  /\ agent[r].pc = "plan"
  /\ \E p \in TaskPlans : ReadIntent(r, p)
  /\ UNCHANGED made

\* supervisor_replan: the intent stays.
ReplanTasks(r) ==
  /\ agent[r].pc = "replan"
  /\ \E p \in TaskPlans :
       agent' = [agent EXCEPT ![r] = Planned([agent[r] EXCEPT !.replans = @ + 1], p)]
  /\ UNCHANGED <<made, awaiting>>

-----------------------------------------------------------------------------
(* Execution. *)

\* execute_tasks begins with no artifacts but those of a cancellation, and cancels
\* what is pending by then if none has been noted.
Executes(r) ==
  /\ agent[r].pc = "start"
  /\ LET req == agent[r]
         cancels == req.intent = "cancel" /\ ~req.noted
     IN  /\ agent' = [agent EXCEPT ![r] =
               [req EXCEPT !.pc = "others",
                           !.noted = @ \/ (cancels /\ awaiting = 0),
                           !.told = req.noted \/ (cancels /\ awaiting = 0),
                           !.artifacts = IF req.intent = "cancel" THEN {"cancelled"} ELSE {},
                           !.all = IF cancels THEN @ \cup {"cancelled"} ELSE @]]
         /\ awaiting' = IF cancels THEN 0 ELSE awaiting
  /\ UNCHANGED made

\* execute_one, for a task of the action agent: it is asked only when a preview is
\* wanted, and a cancellation that this execution has not been told of is repeated.
ActionTask(r) ==
  /\ agent[r].pc = "others"
  /\ agent[r].tasks # 0
  /\ LET req == [agent[r] EXCEPT !.tasks = @ - 1]
         cancels == req.intent = "cancel" /\ ~req.told
     IN  /\ awaiting' = IF cancels THEN 0 ELSE awaiting
         /\ agent' = [agent EXCEPT ![r] =
               CASE req.intent = "preview" -> [req EXCEPT !.pc = "act"]
                 [] req.intent = "cancel" ->
                      [req EXCEPT !.told = @ \/ (cancels /\ awaiting = 0)]
                 [] OTHER -> [req EXCEPT !.artifacts = @ \cup {"cancelled"},
                                         !.all = @ \cup {"cancelled"}]]
  /\ UNCHANGED made

\* A task ends, and run_task forgets what it counted.
Leaves(r, pc) ==
  agent' = [agent EXCEPT ![r] = [@ EXCEPT !.pc = pc, !.own = FALSE, !.steps = 0, !.repairs = 0]]

\* Any error but one of the contract is planned for once more.
Fails(r) == Leaves(r, IF agent[r].replans < MaxReplans THEN "replan" ELSE "final")

\* The tasks of the other agents, and the end of the execution.
Others(r) ==
  /\ agent[r].pc = "others"
  /\ \/ agent[r].tasks = 0 /\ agent' = [agent EXCEPT ![r].pc = "final"]
     \/ Fails(r)
  /\ UNCHANGED <<made, awaiting>>

\* Feedback to the model, once; then an artifact that says what is missing.
Repairs(r) ==
  IF agent[r].repairs < MaxRepairs
  THEN agent' = [agent EXCEPT ![r].repairs = @ + 1, ![r].steps = @ + 1]
  ELSE agent' = [agent EXCEPT ![r].pc = "final", ![r].artifacts = @ \cup {"failed"},
                              ![r].all = @ \cup {"failed"}]

Acting(r) == agent[r].pc = "act" /\ agent[r].steps < MaxIterations

\* The model ends its task.
Concludes(r) ==
  /\ Acting(r)
  /\ IF agent[r].own THEN Leaves(r, "others") ELSE Repairs(r)
  /\ UNCHANGED <<made, awaiting>>

\* Arguments that prepare_arguments refuses.  Only create_ticket is open to the
\* agent; other calls are in Raises.
CallsBadly(r) ==
  /\ Acting(r)
  /\ Repairs(r)
  /\ UNCHANGED <<made, awaiting>>

\* A call that the tool, or its schema, answers with an error.
CallIsRefused(r) ==
  /\ Acting(r)
  /\ Repairs(r)
  /\ UNCHANGED <<made, awaiting>>

\* In the same answer or in a later one.
CallsTwice(r) ==
  /\ agent[r].pc = "act"
  /\ agent[r].own
  /\ agent' = [agent EXCEPT ![r].pc = "final", ![r].artifacts = @ \cup {"failed"},
                            ![r].all = @ \cup {"failed"}]
  /\ UNCHANGED <<made, awaiting>>

\* create_ticket is intercepted, and put_pending supersedes what was pending.
Previews(r) ==
  /\ Acting(r)
  /\ ~agent[r].own
  /\ made' = made + 1
  /\ awaiting' = made + 1
  /\ LET events == {"awaiting"} \cup IF awaiting = 0 THEN {} ELSE {"cancelled"} IN
       agent' = [agent EXCEPT ![r].own = TRUE, ![r].steps = @ + 1, ![r].until = made + 1,
                              ![r].artifacts = @ \cup events, ![r].all = @ \cup events]

\* A timeout, a limit, a tool that the role may not use.
Raises(r) ==
  /\ agent[r].pc = "act"
  /\ Fails(r)
  /\ UNCHANGED <<made, awaiting>>

\* What the tool said of a preview is a fact, and with facts the task is done.
OutOfIterations(r) ==
  /\ agent[r].pc = "act"
  /\ agent[r].steps = MaxIterations
  /\ \/ agent[r].own /\ Leaves(r, "others")
     \/ ~agent[r].own /\ Fails(r)
  /\ UNCHANGED <<made, awaiting>>

-----------------------------------------------------------------------------
(* The reply. *)

\* guard_final_reply.  No artifact of a run is ever a confirmed one.
Guarded(intent, artifacts, says) ==
  CASE intent = "preview" /\ "awaiting" \notin artifacts /\ "failed" \in artifacts -> "not made"
    [] intent = "preview" /\ "awaiting" \in artifacts /\ says = "created"  -> "waiting"
    [] intent = "cancel"                                                   -> "cancelled"
    [] intent = "confirm"                                                  -> "not confirmed"
    [] intent = "none" /\ says \in {"previewed", "created"}                -> "not asked for"
    [] OTHER                                                               -> says

\* What a model may say has been done.
Claims == {"plain", "previewed", "created"}

\* finalize: what a planner says in place of tasks is not guarded.
Finalize(r) ==
  /\ agent[r].pc = "final"
  /\ LET req == agent[r]
         seen == IF req.artifacts = {} THEN req.all ELSE req.artifacts
     IN  \E reply \in
           IF req.intent = "cancel" THEN {"cancelled"}
           ELSE IF req.disposition # "execute" THEN Claims
           ELSE {Guarded(req.intent, seen, says) : says \in Claims} \cup {"sorry"} :
         agent' = [agent EXCEPT ![r] =
           [NoAgent EXCEPT !.pc = "done", !.words = req.words, !.intent = req.intent,
                           !.since = req.since, !.until = req.until,
                           !.disposition = req.disposition, !.reply = reply]]
  /\ UNCHANGED <<made, awaiting>>

\* The client confirms or cancels with the buttons.
ClientSettles ==
  /\ awaiting # 0
  /\ awaiting' = 0
  /\ UNCHANGED <<made, agent>>

ActionNext ==
  \/ ClientSettles
  \/ \E r \in AgentRun :
       \/ ReadMessage(r) \/ PlanTasks(r) \/ ReplanTasks(r) \/ Executes(r) \/ ActionTask(r)
       \/ Others(r) \/ Concludes(r) \/ CallsBadly(r) \/ CallIsRefused(r) \/ CallsTwice(r) \/ Previews(r)
       \/ Raises(r) \/ OutOfIterations(r) \/ Finalize(r)

ActionSpec == ActionInit /\ [][ActionNext]_actionVars

-----------------------------------------------------------------------------
(* Properties. *)

\* A message that cancels leaves none of the previews pending that were there
\* when it was read, whatever is planned for it, and whichever runs replace the
\* pending preview meanwhile (runtime.py:965-975).
CancelHolds ==
  \A r \in AgentRun :
    agent[r].intent = "cancel" => awaiting = 0 \/ awaiting > agent[r].since

\* dev-notes/action-contract-r3.md:40-42: only an artifact decides whether an
\* action succeeded; the guard never leaves a reply to a message that wants a
\* preview its claim that one has been made when none was.
SuccessHasArtifact ==
  \A r \in AgentRun :
    agent[r].intent = "preview" /\ agent[r].disposition = "execute" /\ agent[r].reply = "previewed"
      => agent[r].until # 0

=============================================================================
