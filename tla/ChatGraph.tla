------------------------------ MODULE ChatGraph ------------------------------
(***************************************************************************)
(* The graph that answers a message (app/graph): resolve and classify it,  *)
(* then retrieve, run the refund flow, hand it to the agent or reply with  *)
(* a fixed text, and log.  The graph runs once for each turn of a thread   *)
(* over a state the checkpointer keeps; the controlled retrieval loop is   *)
(* one of its nodes, step by step.                                         *)
(*                                                                         *)
(* A text is what matters of it: "answer", "refusal" (it starts with the   *)
(* refusal marker), "clarify", "fixed", a "bit" said before a tool call,   *)
(* or "none" .  Data carries the number of the turn that fetched it.           *)
(***************************************************************************)
EXTENDS ControlledRetrieval, Sequences

CONSTANTS
  MaxTurns,       \* bound: turns of the thread
  MaxAgentSteps   \* max_agent_steps

ASSUME GraphAssumption == MaxTurns \in Nat /\ MaxAgentSteps \in Nat

VARIABLES
  setup,      \* how the graph was built: the route, the verifier, the plan node
  turnNo,     \* the turn under way, or the last one
  node,       \* the node that runs next
  st,         \* ChatState in the checkpoint
  thread,     \* its messages
  stored,     \* rows of the messages table
  pool        \* turns in the low confidence pool

graphVars == <<setup, turnNo, node, st, thread, stored, pool, rag>>

Setups == [loop : BOOLEAN, verify : BOOLEAN, plan : BOOLEAN]

\* MUTATED: the fields of the refund flow are left as they are.
KeepsRefundFlow(old) ==
  [evidence |-> 0, low |-> FALSE, passed |-> FALSE, order |-> old.order,
   refund |-> old.refund, steps |-> 0, reply |-> "none"]

\* initial_state: every field that a node may leave behind is reset.
InitialState(old) ==
  [evidence |-> 0, low |-> FALSE, passed |-> FALSE, order |-> 0, refund |-> FALSE,
   steps |-> 0, reply |-> "none"]

GraphInit ==
  /\ setup \in Setups
  /\ turnNo = 0
  /\ node = "end"
  /\ st = [evidence |-> 0, low |-> FALSE, passed |-> FALSE, order |-> 0,
           refund |-> FALSE, steps |-> 0, reply |-> "none"]
  /\ thread = <<>>
  /\ stored = <<>>
  /\ pool = {}
  /\ rag = NoRag

Say(text) == thread' = Append(thread, [turn |-> turnNo, who |-> "assistant", text |-> text])

\* A node that only moves on; and one that replies and goes to log.
Moves(from, to) ==
  /\ node = from
  /\ node' = to
  /\ UNCHANGED <<setup, turnNo, thread, stored, pool, rag>>

Replies(from, text) ==
  /\ node = from
  /\ node' = "log"
  /\ st' = [st EXCEPT !.reply = text]
  /\ Say(text)

-----------------------------------------------------------------------------
(* A turn begins, and the entry nodes. *)

StartTurn ==
  /\ node \in {"end", "failed"}
  /\ turnNo < MaxTurns
  /\ turnNo' = turnNo + 1
  /\ node' = "resolve"
  /\ st' = InitialState(st)
  /\ thread' = Append(thread, [turn |-> turnNo', who |-> "user", text |-> "question"])
  /\ rag' = NoRag
  /\ UNCHANGED <<setup, stored, pool>>

\* A message that resumes the order selector goes to the refund flow at once.
Resolve ==
  /\ \E to \in {"intent", "prepare_order"} : Moves("resolve", to)
  /\ UNCHANGED st

Retrieves == IF setup.loop THEN "agentic_retrieve" ELSE "retrieve"

\* route, for every intent the classifier may give.
Intent ==
  /\ \E to \in {Retrieves, "agent", "complaint", "chitchat", "prepare_order"} :
       Moves("intent", to)
  /\ UNCHANGED st

FixedReply ==
  /\ \E from \in {"complaint", "chitchat"} : Replies(from, "fixed")
  /\ UNCHANGED <<setup, turnNo, stored, pool, rag>>

-----------------------------------------------------------------------------
(* Knowledge: retrieve, gate, fallback, or the controlled loop. *)

Answers == IF setup.plan THEN "answer_plan" ELSE "agent"

Retrieve ==
  /\ Moves("retrieve", "gate")
  /\ \E res \in RetrieveResults :
       st' = [st EXCEPT !.low = res.low, !.evidence = IF res.low THEN 0 ELSE turnNo]

\* The question goes to the pool before the fallback; the turn fails if it
\* cannot be written.
Gate ==
  /\ node = "gate"
  /\ st' = [st EXCEPT !.passed = ~st.low]
  /\ \/ st.low /\ node' = "fallback" /\ pool' = pool \cup {turnNo}
     \/ ~st.low /\ node' = Answers /\ UNCHANGED pool
  /\ UNCHANGED <<setup, turnNo, thread, stored, rag>>

Fallback ==
  /\ Replies("fallback", "refusal")
  /\ UNCHANGED <<setup, turnNo, stored, pool, rag>>

AgenticStart ==
  /\ node = "agentic_retrieve"
  /\ rag.pc = "idle"
  /\ RagStart
  /\ UNCHANGED <<setup, turnNo, node, st, thread, stored, pool>>

\* The loop runs in a thread of its own; the node waits, and what the loop holds
\* is gone when the node has its result.
AgenticStep ==
  /\ node = "agentic_retrieve"
  /\ RagStep
  /\ UNCHANGED <<setup, turnNo, node, st, thread, stored, pool>>

AgenticPassed ==
  /\ node = "agentic_retrieve"
  /\ rag.pc = "done"
  /\ rag.passed
  /\ node' = Answers
  /\ st' = [st EXCEPT !.passed = TRUE, !.evidence = turnNo]
  /\ rag' = NoRag
  /\ UNCHANGED <<setup, turnNo, thread, stored, pool>>

AgenticClarifies ==
  /\ rag.pc = "done"
  /\ rag.stop = "clarify_needed"
  /\ Replies("agentic_retrieve", "clarify")
  /\ rag' = NoRag
  /\ UNCHANGED <<setup, turnNo, stored, pool>>

\* Here a pool that cannot be written is only logged.
AgenticRefuses ==
  /\ rag.pc = "done"
  /\ ~rag.passed
  /\ rag.stop # "clarify_needed"
  /\ node = "agentic_retrieve"
  /\ node' = "log"
  /\ st' = [st EXCEPT !.reply = "refusal", !.low = TRUE]
  /\ Say("refusal")
  /\ pool' \in {pool, pool \cup {turnNo}}
  /\ rag' = NoRag
  /\ UNCHANGED <<setup, turnNo, stored>>

-----------------------------------------------------------------------------
(* The refund flow. *)

PrepareOrder ==
  /\ \E to \in {"fetch_order", "ask_order"} : Moves("prepare_order", to)
  /\ st' = [st EXCEPT !.refund = TRUE]

\* The selector goes to the client; nothing is said.
AskOrder == Moves("ask_order", "log") /\ UNCHANGED st

FetchOrder == Moves("fetch_order", "expand") /\ st' = [st EXCEPT !.order = turnNo]

Expand == Moves("expand", "policy_retrieve") /\ UNCHANGED st

\* Each expanded query is retrieved by itself; one that fails or is low adds
\* nothing.
PolicyRetrieve ==
  /\ node = "policy_retrieve"
  /\ \/ /\ node' = "agent"
        /\ st' = [st EXCEPT !.evidence = turnNo]
        /\ UNCHANGED pool
     \/ /\ node' = "fallback"
        /\ st' = [st EXCEPT !.low = TRUE]
        /\ pool' \in {pool, pool \cup {turnNo}}
  /\ UNCHANGED <<setup, turnNo, thread, stored, rag>>

-----------------------------------------------------------------------------
(* The agent, and the answer plan in its place. *)

AnswerPlan ==
  /\ Replies("answer_plan", "answer")
  /\ UNCHANGED <<setup, turnNo, stored, pool, rag>>

\* The model asks for tools; what it says besides is kept.  A search that is
\* low puts the question into the pool.
AgentStep ==
  /\ node = "agent"
  /\ st.steps < MaxAgentSteps
  /\ st' = [st EXCEPT !.steps = @ + 1]
  /\ \E text \in {"none", "bit"} : Say(text)
  /\ pool' \in {pool, pool \cup {turnNo}}
  /\ UNCHANGED <<setup, turnNo, node, stored, rag>>

\* _finalize_answer: the verifier lets a text stand, has it revised, or puts a
\* refusal in its place.
Finals(text) == IF setup.verify THEN {text, "answer", "refusal"} ELSE {text}

AgentConverges ==
  /\ st.steps < MaxAgentSteps
  /\ \E text \in {"none", "answer", "refusal"} :
       \E final \in Finals(text) : Replies("agent", final)
  /\ UNCHANGED <<setup, turnNo, stored, pool, rag>>

\* Where the texts of this turn are among the messages, and the last of them.
Texts == {i \in DOMAIN thread :
            thread[i].turn = turnNo /\ thread[i].who = "assistant" /\ thread[i].text # "none"}
LastText == thread[CHOOSE i \in Texts : \A j \in Texts : j <= i]

\* A text that is already among the messages is not said again.
SaysFinal(candidate, final) == Texts = {} \/ final # candidate

\* Steps or tokens are used up: the last text stands for the answer.
AgentCutOff ==
  /\ node = "agent"
  /\ st.steps > 0
  /\ node' = "log"
  /\ LET candidate == IF Texts = {} THEN "fixed" ELSE LastText.text IN
       \E final \in Finals(candidate) :
         /\ st' = [st EXCEPT !.reply = final]
         /\ IF SaysFinal(candidate, final) THEN Say(final) ELSE UNCHANGED thread
  /\ UNCHANGED <<setup, turnNo, stored, pool, rag>>

-----------------------------------------------------------------------------
(* Logging. *)

\* _turn_rows: the question of this turn and the last text said after it.
TurnRows ==
  <<[turn |-> turnNo, who |-> "user", text |-> "question"]>> \o
  (IF Texts = {} THEN <<>> ELSE <<LastText>>)

LogRows ==
  /\ node = "log"
  /\ stored' = stored \o TurnRows
  /\ node' = IF st.reply = "refusal" THEN "log_refusal" ELSE "end"
  /\ UNCHANGED <<setup, turnNo, st, thread, pool, rag>>

\* MUTATED: what the low confidence of a retrieval explains was captured there.
CapturesSelfCheckOnly ==
  /\ node = "log_refusal"
  /\ pool' = IF st.low THEN pool ELSE pool \cup {turnNo}
  /\ node' = "end"
  /\ UNCHANGED <<setup, turnNo, st, thread, stored, rag>>

\* After the rows, in a call of its own.
LogRefusal ==
  /\ node = "log_refusal"
  /\ pool' = pool \cup {turnNo}
  /\ node' = "end"
  /\ UNCHANGED <<setup, turnNo, st, thread, stored, rag>>

\* A call raises, the run is cancelled or takes longer than max_run_seconds:
\* the checkpoint stays as the last node left it.
TurnFails ==
  /\ node \notin {"end", "failed"}
  /\ node' = "failed"
  /\ rag' = NoRag
  /\ UNCHANGED <<setup, turnNo, st, thread, stored, pool>>

GraphStep ==
  \/ Resolve \/ Intent \/ FixedReply
  \/ Retrieve \/ Gate \/ Fallback
  \/ AgenticStart \/ AgenticStep \/ AgenticPassed \/ AgenticClarifies \/ AgenticRefuses
  \/ PrepareOrder \/ AskOrder \/ FetchOrder \/ Expand \/ PolicyRetrieve
  \/ AnswerPlan \/ AgentStep \/ AgentConverges \/ AgentCutOff
  \/ LogRows \/ LogRefusal

GraphNext == StartTurn \/ GraphStep \/ TurnFails

GraphSpec == GraphInit /\ [][GraphNext]_graphVars

-----------------------------------------------------------------------------
(* Properties. *)

\* Type correctness.
GraphTypeOK ==
  /\ setup \in Setups
  /\ turnNo \in 0 .. MaxTurns
  /\ st \in [evidence : 0 .. turnNo, low : BOOLEAN, passed : BOOLEAN, order : 0 .. turnNo,
             refund : BOOLEAN, steps : 0 .. MaxAgentSteps,
             reply : {"none", "answer", "refusal", "clarify", "fixed", "bit"}]

\* An answer is made from what its own turn fetched: evidence and order that an
\* earlier turn, ended or failed anywhere, left in the checkpoint are not used,
\* and an answer is not narrowed to an order unless this turn took the refund
\* flow (builder.py:192-224, agent.py:105-116).
StateIsOfThisTurn ==
  node \in {"agent", "answer_plan"} =>
    /\ st.evidence \in {0, turnNo}
    /\ st.order \in {0, turnNo}
    /\ st.refund => st.order = turnNo

\* A turn that ended with a refusal is in the low confidence pool, by whichever
\* way the refusal came about and whichever write of it failed before
\* (knowledge.py:76-87, refund.py:140-149, agentic.py:116-136, logging_node.py:49-55).
RefusalIsCaptured == st.reply = "refusal" => turnNo \in pool

\* The row that a turn leaves for the next turns' history is the reply that was
\* given, and it is the only assistant row of the turn (logging_node.py:22-43).
ReplyIsStored ==
  st.reply # "none" =>
    \E i \in DOMAIN stored :
      /\ stored[i] = [turn |-> turnNo, who |-> "assistant", text |-> st.reply]
      /\ \A j \in DOMAIN stored \ {i} : stored[j].turn # turnNo \/ stored[j].who = "user"

\* A turn that has come to its end has left both.
EndedTurnIsKept == node = "end" => RefusalIsCaptured /\ ReplyIsStored

=============================================================================
