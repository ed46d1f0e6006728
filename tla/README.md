# A verification of ShopHelper

ShopHelper is a customer-service assistant for a shop: a FastAPI application
that runs a LangGraph graph of language-model calls, retrieval and tools for
each message of a conversation, with a second, multi-agent graph beside it, a
knowledge base that grows from conversations, and paid experiments that measure
all of it. This directory holds TLA+ specifications of the parts that keep state
while several things happen at once or may stop half-way: durable runs and their
leases, the events that clients stream, tickets and their previews, the layers of a
conversation, the retrieval loop and the gates of its evidence, the tool registry,
the agents, the knowledge base, the budgets and files of the experiments. They are
checked on small instances with TLC, and most of their safety properties are
proved for all instances with TLAPS.

Paths below are relative to the application, e.g. `app/execution/store.py`.

- [1 The system](#1-the-system)
- [2 Modules](#2-modules)
- [3 What the runs check](#3-what-the-runs-check)
- [4 What is proved](#4-what-is-proved)
- [5 Disagreements between the code and what is said of it](#5-disagreements)
- [6 Limits](#6-limits)
- [7 Plan](#7-plan)

## 1 The system

### How a message is answered

`POST /api/chat` (`app/routers/chat.py`) reserves a *run* in the database
(`app/execution/store.py`): a row of `chat_runs` and the conversation's row of
`chat_session_leases`. It persists the first event, starts a background task
(`app/execution/service.py`) and answers with a stream that polls the run's
events from the database. The task loads the conversation's layers
(`prepare_turn`, `app/context.py`), brings the tool registry in line with the MCP
servers (`app/tools/mcp_client.py`), invokes the graph (`app/graph/`), lets a
pump persist the frames the graph emits, renews the lease in a heartbeat, and
finishes the run. Any worker process can serve the stream, answer a status poll
or resume an interrupted run, and any of them recovers a lease that expired.

The graph classifies the message and retrieves evidence, once or in a controlled
loop of rounds (`app/rag_loop.py`), behind a judge or a gate of calibrated scores
(`app/retrieval.py`); or it takes the refund flow, or hands the message to an agent
that calls tools. The agent's answer may be planned (`app/answer_plan/`) and is
verified against the numbered evidence (`app/answer_verifier.py`,
`app/claim_grounding/`). Tools go through a wrapper
(`app/execution/tool_engine.py`) that records each attempt before it is carried out,
so that a crash in the middle of a write is noticed. Tickets are not written by the
graph: it produces a preview, and the user confirms it at
`POST /api/tickets/confirm` (`app/routers/tickets.py`), a second path with an
idempotency key of its own. After an answer the turn is appended to the conversation
(`app/graph/logging_node.py`, `app/store.py`), old messages are summarised in the
background (`app/summarizer.py`), and a question that was refused goes to a pool that
operators review (`app/flywheel.py`).

Complex requests go to a multi-agent graph (`app/multi_agent/`), at an endpoint of its own
or routed there by rules and a judge (`app/adaptive_routing/`). Its agents
share a budget and a cache of tool results, hand claims to each other through a
ledger (`app/evidence_contracts/`), and may make or cancel previews of tickets
under a contract (`app/action_contracts/`).

### Components

| Component | State | Operations | What is hard | What makes it correct |
|---|---|---|---|---|
| **Durable execution store** `app/execution/{store,models,locks}.py` | `chat_runs`, `chat_session_leases`, `chat_run_events`, `chat_tool_attempts` | `reserve_run`, `resume_run`, `recover_expired_lease`, `renew_lease`, `mark_running`, `append_event`, `start_/finish_tool_attempt`, `finish_run` | workers interleave at transactions; `resume_run` reads the lease unlocked; leases expire at any point; two operations are not fenced | a session has one holder, an unfinished run; no run restarts after a write; event numbers have no gaps; ended runs stay closed |
| **Chat execution** `app/routers/chat.py`, `app/execution/{service,tool_engine,context}.py` | tasks, pump, heartbeat, frame queue, `_tasks` | post, resume, cancel, poll; the body of `_execute_chat_run` and its error paths; tool attempts; shutdown | cancellation at any await; database calls in flight that still commit; crash, dead heartbeat, failing calls; a task that outlives its lease | the log says how the run ended; writes are recorded, never repeated, never reported as plain failures; sessions become free |
| **Event streams** `app/routers/chat.py` | a cursor per connection | read events, read status, recover, last read, reconnect | three transactions per round, others write in between | complete when it returns; returns when the run ended |
| **Ticket confirmation** `app/routers/tickets.py`, `app/tickets.py`, `app/action_contracts/{store,models}.py` | table `tickets`; in memory: the ledger of previews and the pending preview of each conversation | create by button, confirm, cancel, preview, supersede; find / insert / find again | the engine's timeout leaves the write's thread running; the ledger is read before an await; restarts lose the ledger, not the tickets | one ticket per key, told to its owner, in step with the ledger |
| **Conversation layers** `app/context.py`, `app/summarizer.py`, `app/store.py` | `messages`, the anchors `layer1_from` and `summary_upto_id`, `conversation_summaries`, `_inflight` | `prepare_turn`, cascade, trimming, `maybe_trigger`, `_run`, append of a round | anchors are read before a model call and written after it; overlapping tasks; budgets near zero | every old message is in one summary segment; what is shown fits |
| **Chat graph** `app/graph/` | the checkpointed state of a thread, the turn's rows, the pool | intent, knowledge, refund and agent nodes, logging | a turn that fails anywhere leaves its state to the next one | a turn answers from what it fetched, and leaves its reply once |
| **Controlled retrieval loop** `app/rag_loop.py`, `app/rag_steps.py` | rounds, tokens, time, evidence so far | retrieve, judge, gate, analyse, sub-queries, stop | budgets and time limits decide together with verdicts on sets that have grown since | released evidence has passed, as it is |
| **Retrieval and evidence** `app/{retrieval,rerank,evidence,evidence_slate}.py`, `scripts/gen_evidence_signals.py` | the file of thresholds | scope, ranking, slate, gate, reads of rows; calibration | rows are read three times while builds replace them; rounded signals against exact scores | nothing out of scope is shown; facets keep their places; no hard negative passes |
| **Retrieval caches** `app/retrieval_cache.py` | `_entries`, `_inflight`, flights | `begin`, `finish`, `fail`, `embed`, `rerank` | threads share flights; expiry and eviction meet look-ups; provider errors with several flights open | one provider call per key; no flight is lost; nobody waits for ever |
| **Claim grounding, answer plans** `app/claim_grounding/`, `app/answer_plan/`, `app/answer_verifier.py` | a plan or an answer through repair and revision | validate, repair, render; compare, judge, revise | a repaired text is judged with what was found in the first | what is said is in the evidence it cites |
| **Tool engine, registry, MCP** `app/tools/` | registry, servers' lists, audit | start, `sync_mcp_tools`, `execute` with validation, retries and timeout | synchronisations of several turns overlap with calls; names clash; a timeout does not stop a thread; a cancelled call skips the audit | writes only when confirmed, once, on record when the call comes back; own tools stay the application's own |
| **Multi-agent run** `app/multi_agent/` | plan, waves of tasks, facts, step, token and time budgets, `_runs` | plan, execute wave, replan, finalize; `run_task` | parallel tasks claim one budget; a replan reuses ids; failures and timeouts within a wave | limits hold over all phases; actions follow retrievals; a success is earned; the run ends |
| **Tool result cache, evidence ledger** `app/evidence_contracts/` | futures of a run's reads, claims | `execute`, `add_many`, `project` | the owner of a future fails while others wait for it; results of different ages are of one fact | nobody is shown two claims of one fact, or an old one |
| **Action contract checks** `app/action_contracts/checker.py` | none of its own | intent, repair, guard of the reply | several runs share the pending preview | a cancelling message cancels; a reply claims only what was done |
| **Adaptive routing** `app/adaptive_routing/`, `app/multi_agent/api.py` | decisions; rounds of the conversation | assess, dispatch, record | failures half-way, runs cut off and resumed, beside the other ways into a conversation | one executor per request; a reply stays with its question |
| **Flywheel and review** `app/flywheel.py`, `app/round_capture.py`, `app/routers/{review_queue,feedback}.py` | `review_queue` | capture, approve, reject, retry of the index | two operators, and a crash between row and vector | what is approved is what the knowledge base says, once |
| **Knowledge base, vector store** `app/kb.py`, `app/vector_store.py`, `scripts/{build_kb,mine_qa}.py` | knowledge rows, vectors, marks | replace, delete, `vectorize_pending`, mining | two stores without a transaction, several processes | a marked row has its vector; a pair is mined once |
| **Experiment budgets** `app/{claim_grounding,answer_plan}/budget.py`, `scripts/*budget*`, `scripts/ch15_paid_guard.py`, `scripts/eval_cost.py` | SQLite ledgers, journals of calls | reserve, settle, release, replay | concurrent calls and processes, retries, a crash between call and settlement | spending within the limit; nothing counted below its bill, or paid twice through a journal |
| **Evaluation and scripts** `scripts/` | results, journals, states and locks of a run | run, resume, repair, rejudge, copy | runs die between two files and are resumed, edited, continued elsewhere | rows are of their protocol and their answers; a row costs its own calls |
| **Administration** `app/admin_*.py`, `app/routers/admin.py` | accounts, signed sessions, audit | login, edit | — | — |
| **Orders, products, facts** `app/{orders,products}.py`, `app/business_facts/` | none (sample data) | look-ups | — | — |
| **Topics, usage, observability** | counters, traces | record, list | — | — |
| **Wiring**; **acceptance scripts, seeds, data**; **user interface** | settings, clients; one page | start, shutdown | — | — |

The last four rows are not modelled. `PROJECT.json` gives the status of every
component with what is left out of it, and lists the hazards of the code at their
lines with the properties that cover them.

### How they interact

The store is shared by chat execution and streams through the database only.
Chat execution calls `prepare_turn`, whose exclusion per conversation it
provides: the lease keeps two turns of one conversation apart. The multi-agent
endpoint appends its round without that lease. The ticket path shares nothing with a
run but the tool engine: the ledger of previews is fed by the multi-agent runtime and
read by the ticket endpoints. The graph's state outlives a turn in its checkpoints; what
a turn leaves in the tables is a round of messages and perhaps a question in the pool.
The knowledge base is written by approvals, builds and mining and read by every
retrieval, in several short transactions on both sides. The retrieval caches are
called from threads (`asyncio.to_thread`) of any request. The experiments call the
same retrieval and models as the service and share ledgers among processes.

## 2 Modules

```
 RunLifecycle            what the run tables promise                     (abstract)
      ^  refined by, proved
 ExecutionStore          every transaction, called by anyone        <- ExecutionStoreProofs
      ^  extended by           ^  extended by                              ^ extended by
 ChatExecution  the callers    EventStream  the readers             <- ChatExecutionProofs
      |  both refine ExecutionStore and through it RunLifecycle, proved -----'

 MultiAgentRun;   EvidenceLedger                                    <- MultiAgentRunProofs
 ControlledRetrieval     the loop
      ^  extended by
 ChatGraph   the graph around it;   AnswerVerification;   AnswerPlan
 ConversationLayers;   Retrieval;   EvidenceGate                    <- ReplyProofs
 ActionTurn;   ToolCalls;   AdaptiveRouting;   TicketConfirmation   <- ToolsProofs
 KnowledgeFlywheel;   RetrievalCache                                <- KnowledgeProofs
 PaidCalls;   EvalCost                                              <- PaidCallsProofs
 DepthRun;   AblationRun;   CaseRuns                                <- ExperimentRunsProofs
 Subsequences   what a filter leaves of a list; used by Retrieval and AnswerPlan
```

`MC<Module>` extends a module for TLC and gives its constants values and symmetry.
Four of them, `MCTurn`, `MCReply`, `MCExperiments` and `MCWaiting`, put modules that share
no state side by side: a variable chosen in the initial state says which part a behaviour
is one of, and the variables of the others rest. An operator under a comment `MUTATED` is
a faulty variant of the operator that follows it; nothing uses it, and `PROJECT.json`
names the property that detects the fault.

### ExecutionStore and RunLifecycle

One action per transaction of `ExecutionStore`. `run`, `lease`, `events` and
`call` are the four tables (rows as records, absent rows as a null record);
`resuming` holds a worker's open `resume_run`. A worker is its `owner_token`.

- *Atomicity.* A worker's write transactions exclude one another
  (`locks.py`), and those of several workers are serialised by the rows they
  lock. `resume_run` reads the lease row without locking it, so it is two steps:
  `ResumeBegin` with what it saw, `ResumeCommit` with what its flush really
  writes (an INSERT that fails when the row exists, an UPDATE of the columns it
  saw change, which fails when the row is gone).
- *Time* is whether a lease has expired. `Expire` may happen to any live lease
  at any time: no property depends on the length of a lease.
- *Fencing* (`Fenced`) is the check of `append_event` and `finish_run`.
  `renew_lease` and `mark_running` ask for less, `start_tool_attempt` and
  `finish_tool_attempt` for nothing, as in the code.
- The specification lets any worker call any transaction with any argument. It
  is the environment of the streams, and `ChatExecution` is proved to be one
  such set of callers.

`RunLifecycle` is what a client relies on: phases of a run and the holder of
each session, with five steps (start, take over, end, restart, taint).
`RunPhase` and the INSTANCE in `ExecutionStore` are the refinement mapping: an
interrupted run is *restartable* while its `write_state` is `none`, and *unsafe*
afterwards.

### ChatExecution and EventStream

The request handlers (`Post`, `Launch`, `Resume`, `Resumed`, `Poll`, `Cancel`),
the task (`Begin` to `ErrFinish`, one action between two awaits that touch
shared state), its pump and heartbeat, the tool wrapper, and `Crash`. The
attempt number identifies a task. Any database call may raise: the error path is
always a possible alternative. `Cancel` is `task.cancel()` and follows asyncio:
a task not yet started, or within its except blocks, just ends; a body enters
its except block; the database call it awaited runs in a thread and still
happens later (`Late`). The done-callback pops the run from `_tasks` whichever
attempt the entry names (`Over`).

The graph is an environment here: it emits frames (`Emit`), may call one tool in each
attempt, of any kind and at any time (`ToolCheck`), and returns or raises. `"write"` stands for a tool
that carries out a confirmed write under a run. The wrapper supports it
(`tool_engine.py`), though today's graph confirms tickets outside of runs.

A stream's round is three steps, as in `_persisted_event_stream`: events after
the cursor, the status, recovery of an expired lease; a terminal status leads to
one last read. Any other caller of the store may act between any two of them. A
client reconnects with any cursor it was given.

### TicketConfirmation

`request` is the handler (it awaits the engine), `write` the thread of
`create_ticket_idempotent` with its three steps find, insert, find again.
`Timeout` answers the client without stopping the thread. `Insert` draws a
ticket number at random: the primary key and the unique `confirm_key` can both
refuse it. `artifact` and `pending` are the ledger; `Restart` clears them and
what was under way, not the tickets. The module describes
`multi_agent_action_contracts_enabled = True`; with the setting off (the
default) there are neither previews nor cancels in the ledger and what is left
is `Submit` and `Confirm` with keys the ledger does not know.

### ConversationLayers

One conversation, with message ids 1, 2, … and two anchors. Operators translate
`app/context.py`: `Cascade` is `cascade_layer1` (langchain's `trim_messages`
with `start_on="human"`, or the last round), `Kept` and `Layered` are
`build_layered`. A text is its number of tokens. The store's coroutines never
suspend, so a turn's `prepare_turn` and a task's `_run` up to the model call are
synchronous sections of a worker's event loop (`Free`). `Done` is the `finally`
of a task and `Callback` its done-callback, a later step of the loop: both
discard the conversation from `_inflight`.

### ChatGraph and ControlledRetrieval

`node` is the node of `build_graph` that runs next, `st` the fields of the state that
outlive it in the checkpoint; data carries the number of the turn that fetched it, which
is what `StateIsOfThisTurn` tells apart. `InitialState` is what a turn resets
(`initial_state`) and what it keeps. `setup` is how the graph was built: with the loop,
the verifier or the plan node, or without. A turn may fail at any node (`TurnFails`) and
leaves the state as it is. `LogRows` and `LogRefusal` are `log_node`, which writes the
rows of the turn and then captures a refusal.

`ControlledRetrieval` is `run` of `rag_loop.py`, one action per call and the
conditions around it: `rag` is the loop's local state. What judge, scores and analyser
say is any answer, a call may be late or fail, and tokens are counted against their
budget before each call (`Affordable`). The loop runs as a node of the graph, step by
step (`AgenticStep`).

### Retrieval and EvidenceGate

A `query_faq` call from the question to what is shown: scope by order, version and date,
candidates from vectors and words in any order, removal of what contradicts the scope,
rerank, slate, judge or gate, rows. The strategy is `hybrid_rerank`, the one that every
node and tool passes (`builtin.py:99`, `knowledge.py:19`). `Edit` is what builds do to rows
and vectors in between. `EvidenceGate` is that gate with its numbers: `Passed` over scores in units of
1/`One`, and the calibration that searches thresholds on signals rounded to `Grid`, with
its splits, its candidates and its order of preference, and a service that loads the file.

### AnswerPlan and AnswerVerification

`AnswerPlan` has the operators of `verification.py` on a claim (bindings, subjects,
values, conditions, policy), the status of a plan, the one repair, the renderer with its
three kinds of replies, and the citations frame. A claim has a value, which is validated,
and apart from it what its text says, which a line shows. `AnswerVerification` has the checks by
rule, the judge or the sentence-wise claims that come after them, and the one revision,
whose text goes through the same checks. A question may be about several orders and days.
A sentence cites in an order, and the claims adapter reads the first value of what it
cites in that order (`FirstValue`).

### RetrievalCache

`begin` under the lock is `Hit`, `Join` or `Lead`; `Finish` and `Fail` resolve a
flight under the lock, `Signal` sets its event afterwards; `Wait` is
`event.wait()`. A list of texts is a set of keys, looked up in any order. An
entry may expire at any time.

### MultiAgentRun

`node` is where the graph of `build_multi_agent_graph` is; `"planning"`,
`"replanning"` and `"finalizing"` mean that the model was asked. `task[i]` is the
`run_task` coroutine of a task of the current wave: it asks for a step (`"ask"`),
waits for its model, goes through the tool calls of the response (`"call"`,
`"more"`), waits for a tool or for another task's result. `budget` is the
`_RunContext` that all of them share. Tokens and time are whether the limit is
passed: any counted text may pass the one, and `DeadlinePasses` the other, so
every failure path is possible at every count and every claim. The planner may
answer with any valid plan (`Valid` is `validate_dependencies`), the replanner
too, with any reuse of ids; `facts` remembers by what kind of task an id got its
facts. `cache` is the `ToolResultCache`: an entry is open with its owner or kept;
a waiter holds on to the owner's future even when the entry has expired and is
somebody else's. An error's text and a raised timeout resolve the future and
leave nothing behind.

### EvidenceLedger and ActionTurn

What `MultiAgentRun` leaves out of its tasks. `EvidenceLedger` has the claims that
`claims_from_tool_result` makes of a result, `AddMany` with the numbers and the
superseding of its lifecycle keys, validity by time and day, and the two projections. A
step that shows claims to somebody keeps in `shown` what was shown. `ActionTurn` has the
intent read from a message (`Infer`), the three places that carry out a cancellation, the
contract of the action agent with its repairs and its previews, and `Guarded`, the guard of
the reply. Runs of one conversation share `awaiting`. The planner's node cancels
(`ReadIntent`); the executor cancels what is pending by then, since the first cancel
of a preview is not of the kind that it looks for (`Executes`, `runtime.py:724-734`); and
a task of the action agent may do so again (`ActionTask`, `:761-787`). A plan has
up to `MaxActs` such tasks.

### ToolCalls

`booted` counts the steps of the start: built-in tools, each plugin, the debug tools. Of a
name the registry has the access, `"read"` or `"write"` (`Own`), if the tool is the application's, and
otherwise the server.
`turn` is a turn's synchronisation (`Discover` asks one server after the other,
`ApplyList` registers and unregisters by the list it got, then `EndSync`), and its call:
unregistered, refused by the schema, intercepted because it is an unconfirmed write,
executed with `Retries` for reads and none for writes, each ending with its audit row, if the
table can be written. `CancelCall` ends a call in flight by its task's cancellation, which
`engine.py` lets pass: the tool may have run, and there is no audit row.

### AdaptiveRouting

`RuleArm` is the decision by rules on a question and what is known of the conversation,
from the rows of the store or the history the client sent; a judge decides the rest. A
request then goes through the chat executor, under the lease, or the agents,
which take none; either may fail. The rows of `dialogue` know their request, the executor
and its attempt. A run of the chat stores the question alone, when there is no text of the assistant
(`StoreQuestion`), or the whole turn (`StoreTurn`); each in one transaction. It may lose its
lease (`Lapse`) and be resumed (`Resume`), and then appends again, also beside an attempt
that is still at work. The agents append both rows or none.

### KnowledgeFlywheel

Approvals in their three ways through the unique key of a review (`ApproveAgain`,
`ApproveFirst`, `ApproveReread` after a refused insert), the index, the build's
replacement of a document's rows and deletion of their vectors, and mining with its
staging rows: `work` is what each request or script has in hand between two of its
transactions. `Abandon` is its death anywhere.

### PaidCalls and EvalCost

`PaidCalls` has the thirteen wrappers over seven ledgers as records of how they differ
(`Doors`), and one set of actions: look in the cache, reserve, call, settle an answer or
a failure, retry, put. A row has what was reserved, paid and what the provider will ask
for. `EvalCost` is the older accounting of runs that have a journal, with four files per
worktree: the attempt, the result, the amount and the exact cache are written one after
the other, and a process may fall in between.

### DepthRun, AblationRun and CaseRuns

The runs over cases. `DepthRun` has one run's directory, its journal, and the tools that
continue, repair, rejudge or copy it; rows carry the number of the call that
answered. `AblationRun` has the groups, checkpoints and protocol locks of two experiments.
`CaseRuns` has eleven runners as records of what they refuse, keep and charge. A row is made
by the run of its case or, when a scenario of the adaptive runner raises, by the loop
around it, which puts down no calls (`Makers`).

## 3 What the runs check

All counts are distinct states; a run takes up to four minutes with two workers.

| Run | Instance | Shows |
|---|---|---|
| `turn` 2,280,866 | *store:* 3 runs of 1 session, 2 workers with overlapping resumes; *layers:* 1 worker, 3 summary tasks, 4 messages of 1 or 2 tokens; *tickets:* 2 requests, 2 conversations, 2 keys, 2 contents, 2 numbers; *routing:* 2 requests, 2 attempts, 1 resume; *claims:* 3 tasks, 2 calls | `LeaseNamesActiveRun`, `LeaseLostOnlyToResume`; `SegmentsTile`, `TurnFits`; `OneTicketPerKey`, `AnswerIsOwnTicket`; `RequestIsRouted`; `ShownIsCurrent` |
| `chat_tools` 327,791 | 2 workers, 1 run, 1 confirmed write, crashes | `EffectIsRecorded`, `WritesAreFinal` |
| `chat_liveness` 200,209 | 1 run, 2 workers that resume it from each other, 1 frame | `EndedRunSaysSo`, `EndedRunIsClosed`, `SessionIsFreed` |
| `waiting` 236,322 | *stream:* 1 run, 2 workers, 1 tool call, 1 stream, 2 events; *agents:* 3 ids, plans of up to 2 tasks, 1 replan, 5 steps, 2 iterations, 1 repair, 1 key | `ReturnedStreamIsComplete`, `StreamEnds`, the refinement of `RunLifecycle` with late tool records; `ActionAfterRetrieval`, `StatusIsEarned`, `RunEnds` |
| `caches` 292,018 | 2 threads, 2 keys, capacity 1, 2 calls each | `SingleFlight`, `CallsReturn` |
| `experiments` 1,347,418 | see `Experiments.cfg`: one part for each of `PaidCalls`, `DepthRun`, `EvalCost`, `AblationRun`, `CaseRuns`, `KnowledgeFlywheel` | `WithinLimit`, `BillIsCovered`; `ResultsHold`; `LedgerHolds`; `RowsOfOneProtocol`; `RowCostsItsCalls`; `ApprovalHolds`, `DoneIsSearchable`, `MinedOnce` |
| `reply` 2,584,186 | see `Reply.cfg`: the graph with its loop for 2 turns, plans of 2 claims, 1 search of 3 chunks, calibrations on 3 samples, answers of 2 sentences, the registry with 2 turns, 1 plugin and 2 servers that claim the same names, 2 runs of agents with 1 action task, 1 repair and 1 replan | `GatedRelease`, `StateIsOfThisTurn`, `EndedTurnIsKept`; `LinesAreInEvidence`; `ShownIsInScope`, `FacetsSurvive`; `HardNegativesStayOut`; `ReleasedIsBacked`; `WritesAreGuarded`; `CancelHolds` |
| `knowledge_pairs`, `plan_rest`, `plan_conflict`, `typed_ledger`, `action_reply` | — | the disagreements of section 5 |

The properties, in words (each is stated with its code in its module):

- **Store.** A lease names an unfinished run of its own conversation
  (`LeaseNamesActiveRun`); an unfinished run loses its lease only to a resume
  (`LeaseLostOnlyToResume`); ended runs are closed (`EndedRunIsClosed`).
- **Execution.** Whoever replays the log of an ended run learns how it ended
  (`EndedRunSaysSo`); a write that took place is in `write_state`
  (`EffectIsRecorded`), keeps its run from starting again and is not reported as a
  failure that may be retried (`WritesAreFinal`); no attempt keeps a session for ever
  (`SessionIsFreed`).
- **Streams.** Complete when returned on a finished run, and returned when the
  run ended. An interrupted run is left out of `ReturnedStreamIsComplete`: it
  may be resumed between the status and the last read.
- **Tickets.** One ticket per key (`OneTicketPerKey`); an answer names the
  client's own ticket (`AnswerIsOwnTicket`).
- **Layers.** Segments follow each other without gap or overlap up to the anchor
  (`SegmentsTile`); what the model sees fits the window unless the last round alone does
  not, and starts with a user's message (`TurnFits`).
- **Loop and graph.** What is released has passed, all of it, and no judge that was heard
  last said no (`GatedRelease`); an answer is made from what its own turn fetched
  (`StateIsOfThisTurn`); an ended turn has its reply as its one assistant row, and its
  question in the pool if it was refused (`EndedTurnIsKept`).
- **Evidence.** No shown row contradicts the question's scope (`ShownIsInScope`); facets
  that can be filled are (`FacetsSurvive`); no hard negative of the calibration passes the
  gate of a service that loads it (`HardNegativesStayOut`).
- **Answers.** What was validated of a line of a planned reply, its value or else part of its
  text, is in the evidence it leads to (`LinesAreInEvidence`); a verified answer cites what
  there is, is about the orders asked for and has the evidence's days for them, names neither
  version on a day that the other is due nor one whose window the evidence lacks, and gives
  the value that comes first in the order in which it cites (`ReleasedIsBacked`).
- **Agents.** An action runs only after a retrieval succeeded, through failures and
  replans (`ActionAfterRetrieval`); a run without errors has facts for every task
  of its plan and no valid plan is stuck on its dependencies (`StatusIsEarned`); every
  run comes to its answer (`RunEnds`); nobody is shown two claims of one fact, or an order's
  field read too long ago (`ShownIsCurrent`); a cancelling message leaves no preview of
  its time pending (`CancelHolds`).
- **Tools and routing.** The application's tools stay its own, built-in, a plugin's or for
  debugging; a write is executed on a confirmation and at most once, cancelled or not; a call
  that comes back to its turn has its one audit row (`WritesAreGuarded`). All that is stored
  of a request is of the executor it was routed to, once for each attempt, and each reply
  right behind the question of its own attempt; only a question about two orders goes to
  the agents (`RequestIsRouted`).
- **Caches.** One provider call per key and none while an answer is kept; calls that wait
  for each other return.
- **Knowledge.** What an operator approved is in one chunk (`ApprovalHolds`); a chunk marked
  done is in the vector store (`DoneIsSearchable`); a pair is mined once (`MinedOnce`).
- **Experiments.** Reserved and paid together stay under the cap (`WithinLimit`); a
  call is never counted below its bill (`BillIsCovered`); nothing that goes through a
  journal is paid twice (`LedgerHolds`); a verdict is of its answer and a completed run is whole
  (`ResultsHold`); a group is of one protocol (`RowsOfOneProtocol`); a row is charged
  with its calls and no others, but for the row of an adaptive scenario that raised, which
  is charged with none (`RowCostsItsCalls`).

### Why the bounds are enough

Each configuration says at its top what its bounds let happen. `MaxAttempt = 2` lets an
old and a new attempt meet, which is what fencing is about; a third one adds no new pair.
Two workers show every crossing of an old and a new owner. `MaxEvents` bounds what
executors append; `interrupted` and `resumed` events are not bounded by it, and a refused
append is a database error, one of the cases those runs are about. Three runs in `turn`
give a resume two rivals: an expired holder and a new reservation. Two requests with
equal or different keys, contents and conversations show every race on the unique key;
two conversations make a ticket of somebody else possible. Capacity 1 with two keys
evicts at every insertion. Four messages are two rounds or more, enough for a non-empty
summary, middle and latest layer; three summary tasks allow two in flight with one
finishing. `MaxSteps = 5` is enough for a plan, a task, a replan, a task and the answer,
and is reached in the middle of a wave, a repair or a second plan of any longer run. Two
tasks on one key show every order of owner, waiter, error and expiry; a third id lets the
second plan mix ids with and without facts.

Two turns of the graph are one that leaves something behind and one that finds it; a loop of
two rounds that can pay for two calls and not for a third has every stop. Three samples
tie, and a second calibration may find nothing. Two sentences can contradict each
other, one of them revised; two evidences are cited in both orders and give different first
values, and a version of the policy is named on its day, on another, and beside a
sentence about another. With one action task a preview can be pending at each of the
three cancels; `action_reply` has two, and the theorem any number. Two requests with one
resume show a late append of a first attempt before, between and after what the others
store. Two registered servers and a plugin that claim one name, with one change of what
they offer, show a stale list being applied. An estimate of 2 under a
cap of 4 admits two calls at a time, and bills lie below and above it. Two worktrees
share one ledger; a second and a third process take over what the first left. Two
protocols tell a resumed group from an edited one.

`CHECK_DEADLOCK FALSE` is set everywhere because the models stop at the bounds
(no attempts, requests or calls left); that nothing waits for ever in between is
what the four liveness properties say.

### Fairness

- `chat_liveness`: weak fairness of a task's own steps (database calls return or
  raise; the graph is bounded by `max_run_seconds`), of `Launch` and of an open
  resume, and of the expiry of a lease that no heartbeat renews; strong fairness
  of `Poll`, which waits for the worker's write lock and gets it. Polling is what
  the client does while it waits: the server has no sweeper, so without any
  client a lease stays in the table. Nothing is assumed of heartbeats, cancels,
  crashes and new requests. One worker always stays up.
- `waiting`, streams: the server runs a stream's loop (strong fairness, for the lock
  again), an open resume ends, and a client stays connected in the end.
- `waiting`, agents: every coroutine is scheduled again and every await of a model or
  a tool ends, because `asyncio.wait_for` bounds it (weak fairness of the
  supervisor, of the executor and of each task); a response has finitely many tool
  calls (strong fairness of `NextIteration`). A waiter has no timeout of its own
  in the code and none in the model. Nothing is assumed of deadlines or expiry.
- `caches`: a thread goes on, and a provider call ends one way or the other:
  both clients have timeouts.

## 4 What is proved

Every safety property that a passing run checks is also a theorem: TLC shows it on a
small instance, TLAPS for all values of the constants that satisfy the modules'
assumptions. Those are named in each module (`StoreAssumption`, …) and say what the code
makes true: null values are none of the ids, limits and amounts are numbers, a
capacity is positive, executors append neither `interrupted` nor `resumed`, no MCP server
is called `builtin`, the rules of facets and the evidence of a claim are sequences. That a
set is finite is assumed of what a plan, a file or a table lists: tasks, conversations,
orders, cases, chunks. `SegmentsFollow` has one hypothesis more, that there is one
process: with two a message can be summarised twice (section 5).

| Theorem | States | Argument |
|---|---|---|
| `StoreTypeOK`, `StoreLeaseNamesActiveRun` | `StoreSpec => []…` | `StoreInv` is inductive |
| `StoreEventsGapless` | events of a run are numbered without gaps | relative to `StoreInv`; every step appends one numbered event and counts it, or touches neither |
| `StoreOneRunPerRequest` | one `client_request_id` makes one run | relative to `StoreInv`; a key is written only by a reservation that looked for it |
| `StoreEndedRunIsClosed` | the action property | by cases of what a step does to one run |
| `StoreLeaseLostOnlyToResume` | `StoreSpec => LeaseLostOnlyToResume` | by cases of what a transaction does to one lease row |
| `StoreLifecycle` | `ExecutionStore` implements `RunLifecycle` | each transaction maps to a step of the lifecycle or to a stutter |
| `StreamsCallTheStore`, `StreamLifecycle` | `EventStream` implements `ExecutionStore` and `RunLifecycle` | readers leave the tables alone |
| `StreamsAreComplete` | `StreamSpec => []…` | `StreamInv`, with what the store's steps keep of what a reader knows |
| `ChatCallsTheStore`, `ChatLifecycle` | `ChatExecution` implements `ExecutionStore` and `RunLifecycle` | each step of a request, a task, a heartbeat or a crash is a transaction of the store or leaves its tables alone |
| `ChatTypeCorrect`, `EffectsAreRecorded`, `EndedRunsSaySo`, `WritesStayFinal` | `ChatSpec => …` | `ChatInv` is inductive |
| `TicketOnePerKey`, `TicketAnswerIsOwn`, `TicketConfirmedHasTicket`, `TicketAwaitingIsPending`, `TicketSettledIsFinal` | the ticket properties | `TicketInv` is inductive |
| `CacheSingleFlight`, `CacheNoLostFlight` | the cache properties | `CacheInv` is inductive |
| `MultiTypeOK`, `MultiActionAfterRetrieval` | `RunSpec => []…` | `RunInv` is inductive |
| `MultiStatusIsEarned` | `[]StatusIsEarned` | `EarnedInv`, relative to `RunInv`; the lowest place of what is left to do can run |
| `MultiNoCallOverLimit` | no model is asked past the deadline, past the tokens or without a step | relative to `RunInv`, by cases of what a step does to the tasks |
| `ShownStaysCurrent` | `LedgerSpec => []ShownIsCurrent` | `TypedInv`; one claim of a fact is standing after any list of new ones |
| `TurnsFit`, `SegmentsFollow` | `LayersSpec => []…` | `LayersInv`, and `Tiled` on top of it |
| `ShownStaysInScope`, `SlateKeepsFacets` | `RetrievalSpec => []…` | `SearchInv`; what a selection keeps, and that the slate fills its facets first |
| `CalibratedGateHolds` | `GateSpec => []HardNegativesStayOut` | the grid's thresholds are compared with what they let pass |
| `LoopTypeCorrect`, `LoopGatedRelease` | `RagSpec => []…` | `LoopInv` is inductive |
| `GraphTypeCorrect`, `GraphGatedRelease`, `GraphStateIsOfThisTurn`, `GraphEndedTurnIsKept` | `GraphSpec => []…` | `GraphInv` is inductive; a step of the loop inside the graph is one of the loop |
| `VerifiedIsBacked` | `VerifySpec => []ReleasedIsBacked` | `DraftInv`; a release is of the draft that the last checks saw |
| `LinesStayInEvidence` | `PlanSpec => []LinesAreInEvidence` | `PlanInv`; the numbers of a line, through the recursion that hands them out |
| `CancellationHolds` | `ActionSpec => []CancelHolds` | `ActionInv`: previews are numbered, and a message's own come later |
| `WritesStayGuarded` | `ToolSpec => []WritesAreGuarded` | `ToolInv`: what the registry may hold, and what a call has behind it at each point |
| `EachRequestIsRouted` | `RoutingSpec => []RequestIsRouted` | `RoutingInv`: what a request on its way has decided, and which of its attempts have stored their turn |
| `PaidTypeCorrect`, `BillsAreCovered`, `OneCallOutstanding`, `StoppedForGood`, `RowsSettleOnce` | the ledgers | `PaidInv`: a call and its row agree |
| `LedgersStayWithinLimit` | `[]WithinLimit` | relative to `PaidInv`; running totals are monotonic in the amounts |
| `LedgersHold` | `CostSpec => []LedgerHolds` | `CostInv` |
| `ResultsAlwaysHold`, `RowsAgree`, `RowsCostTheirCalls` | a depth run, an ablation, the case runners | `DepthInv`, `AblationInv`, `CaseInv` |
| `ApprovalsHold`, `DoneIsIndexed`, `PairsAreMinedOnce` | `KnowledgeSpec => []…` | `KnowledgeInv` is inductive |

**StoreInv** is `TypeOK`, `LeaseNamesActiveRun`, `RowsWhole` (a run that was never
reserved has an empty row, any other a conversation) and `OpenResume` (the run of an
open resume is still the interrupted one without a write that it read and locked,
and no other resume is open on it). Without `OpenResume` a commit could restart a
run that had become unsafe in between, and `LeaseNamesActiveRun` would not be
inductive: the row that the commit overwrites was read in an earlier step.

**ChatInv** adds to `StoreInv` what is true of each task (`GoodTasks`): what it has logged
and what it has written by the time it stands where it stands, and of the call in flight that
outlives it, since a late `finish_run` may end the run with an event that was
logged long before. `WholeTx` says that no resume is half open but those of `Resume`, and
`TablesOK` what `_tasks` and the queues hold. What a task knows never becomes untrue,
because a log only grows and a write once begun stays on record; so most of the proof
is that other tasks' steps keep it, said once for a constant task (`TaskShape`,
`GoodTask`) and then for all.

**StreamInv** says what a reader of events may rely on after its transaction: the
finished status it saw is still the run's, and if it returned on one, its cursor is
the length of the log. It holds since an ended run's log is closed to all but a
resume, and a resume takes interrupted runs only.

**TicketInv** adds to the properties what is true of a write in flight:
`WriteHasCall` (its request was accepted), `WriteIsOwnTicket` (what it is about to
return is its own ticket) and `WaitingMatchesPreview` (an accepted confirmation
has the conversation and the content of the preview of its key, if the ledger
knows it). The last one is what makes `Mark` right although the ledger is read
before the await and written after it: the preview may have been cancelled, but
it cannot have become another one, since its key is fresh.

**CacheInv** relates a flight to its leader: `LeaderHolds` and `LedIsInflight`
(a call leads a key exactly while its own flight is the key's), `InflightNotKept`
(no answer is kept while a flight is open), `LandedHasOutcome`, `CallShape` (a call
that waits leads nothing: it landed its own flights first) and `WaitedFor`, which
says in an inductive form that no flight is lost.

**RunInv** (of `MultiAgentRunProofs`) has the types, and with them the limits.
`ReplanAllowed` keeps the count of replans within its limit at the moment a
replan is asked for. `FollowsRetrieval` says of every action that is carried out
*or has facts* that some retrieval has facts: an action's dependency has facts,
but by `models.py` and the reuse of ids these may be another action's, which was
preceded by a retrieval in turn. `PendingIsOpen` and `ExecutingIsPending` make
sure that the facts of that retrieval are not overwritten: what a wave collects had
none. **EarnedInv** adds that what a wave leaves is done or failed (`DoneHasOutcome`,
`RestIsDone`), that a wave is of the plan (`WaveIsPlanned`), and that the plan's order is one
(`NoCycle`): a set of tasks without one that can run would have a task below each of its
tasks, and so infinitely many places.

**LoopInv** says of a round how its verdict belongs to what is merged: `fresh` evidence
has not been judged. **GraphInv** adds to it where the fields of the state come from
(`FieldsAreFresh`, `OnRefundWay`, `RefundHasOrder`) and how messages, rows and the reply of
a turn follow each other (`MessagesArePast`, `RowsArePast`, `ReplyIsLast`, `ReplyIsKept`):
a turn that failed leaves messages behind, and the turn after it must not take them for
its own.

**LayersInv** says that summaries are numbered from 1 without a gap (`Numbered`), that
the rows after an anchor start with a user's message (`StartsRound`), and which anchors a
turn and a task have read. `TurnFits` then is arithmetic on the recursive
`Total`. **Tiled** adds, for one process, that a task holding the next free number
knows where the last summary ends (`KnowsEnd`): the insert of a task that does not is
turned away by the unique number.

**SearchInv** follows one call through recall, scope, texts, rank and judgement.
`FacetsSurvive` needs the length of a selection, since the slate puts a chunk of each
facet first and fills up with the rest; it rests on lemmas about `Only` (what a
filtered sequence contains, and how long it is). **PlanInv** has every line of a reply
backed by the evidence at its numbers (`RenderedHolds`), which holds of `Render`
for every plan. **TypedInv** has one standing claim of each fact in a ledger (`LedgerHolds`), and
bounds how old a field of an order can be by the time it was read.

**PaidInv** relates a call to the row it reserved (`RowLinks`), at every point at which
it may stop. `WithinLimit` then needs that replacing an amount by a smaller one lowers every
running total, and appending one adds to the last.

**CostInv** says of each worktree that a request which was paid is in the journal, or the
process is about to put it there, or it ended and left its attempt pending; and that
nothing is booked beyond the limits.

**DepthInv** has the verdict of a journal belong to its answer (`JournalHolds`) and what a
process knows of the directory at each of its writes (`ProcHolds`); a repair that stopped
half-way has the rows of the results in their order (`Repairs`). **AblationInv** says of
a group's files, whatever process comes next, that a checkpoint is of the protocol in the
metadata and that traces of an older contract are hidden by one (`FilesAgree`). **CaseInv**
numbers the runs and says that a run asks for one item after the other (`TakesInTurn`), so
that the calls of an item are not counted to another.

**KnowledgeInv** says of rows that each review and conversation has at most one
(`OneRowOfReview`, `OneRowOfTalk`), and of each writer what it has in hand: the ids
it indexes are live or on their way out (`Indexes`), the row an approval is about
(`Approves`), and that what the miner holds is not in the knowledge base yet (`Mines`).

Some of the model's operators are recursive functions: a filter, the running totals, the
places of a slate, the numbers that a plan's lines are given, the claims a ledger
adds one by one. What they compute is not
claimed by an induction theorem, which the provers cannot instantiate: lemmas show
that such a function exists (`TotalsExist`, `AddingExists`, `RecursionExists`) from
the fact that a non-empty set of numbers has a least one, and then argue on the function.

Only model-checked: the liveness properties (`SessionIsFreed`, `StreamEnds`,
`CallsReturn`, `RunEnds`), since fairness and ENABLED are out of the prover's reach. The
type invariants of the modules whose theorems state them are proved and not run again.

## 5 Disagreements

Each of these is a run that TLC finds violated.

1. **An item is shown with another's text** (`knowledge_pairs`, `EvidenceIsPaired`).
   `query_faq`, `retrieve_node` and `agentic_retrieve_node` zip ranked items with rows read
   later; `get_chunks` leaves out rows that a rebuild has deleted, and every later
   item is paired with its successor's row. `refund.py` joins by id and is not affected.
2. **A limited reply shows one supported claim** (`plan_rest`, `RestIsWhatIsMissing`).
   `lines.append` stands after the loop over the supported claims (`renderer.py:38-48`),
   and the reply says that only the unsupported ones were left out.
3. **A line says another number than its evidence** (`plan_conflict`, `NumbersAgree`).
   `verification.py:165-205` checks the value of a claim and then not its text, and
   `renderer.py:46` and `:111` print the text; the design rejects number and unit conflicts
   (`2026-10-27-answer-plan-r3-design.md:18-20`).
4. **Passages of one search supersede each other** (`typed_ledger`, `SupersededByLater`).
   Passages without order, scope and version are of one lifecycle key, so that an agent is
   shown the last of them, which is the weakest.
5. **A preview is claimed that was not made** (`action_reply`, `SuccessHasArtifact`). The
   guard of the reply looks at artifacts; a plan without a task for the action agent has none.

Seen while reading, and not a run:

- *Store and execution.* A resume over the expired lease of another run leaves that
  run without a lease and does not mark it interrupted. When a lease expires under a
  running task and the same process resumes the run, both tasks pass the fence. The
  done-callback of an older attempt removes the entry of a newer one, so that
  `POST …/cancel` answers 409 for a task that runs (`service.py:30`). A turn without text of the
  assistant leaves its question alone in the conversation (`logging_node.py:33-44`), and a run
  that stored its turn and is resumed stores it again (`chat.py:337-381`).
- *Tickets.* A preview cancelled, or superseded, while its confirmation is being written
  may get its ticket all the same, since the ledger is read before the await.
- *Layers.* With two worker processes `next_seq` is read in a transaction after that
  of the anchors, and a message can be summarised twice; `_inflight` can miss a task in flight.
- *Agents.* `execute_tasks` leaves out a task whose id has facts: a second plan may use an
  id of the first for another task. `project_supervisor` shows claims of failed tasks,
  though the typed handoff's design (line 50) says completed ones. A parallel task's claim
  of a fact supersedes the one a dependent task would be shown. A cached result is observed
  at the time of the call, so a field may be two TTLs old. `claim_id` has no value: a
  repeated call id drops the newer observation. A preview that a first execution made
  is denied when a replan's agent then fails its contract. The executor's second cancel
  withdraws whatever is pending by then, also a newer preview of another run
  (`runtime.py:724-734`).
- *Routing.* The route may be decided on a history that the client sent, which neither
  executor reads; the agents take no lease of the conversation.
- *Tools.* A list fetched by an older synchronisation unregisters a tool that a newer one
  added, where `mcp_client.py:4` says that it is there after the next one; a tool
  taken off meanwhile is "not registered", without an audit row. `execute` never raises and ends
  with a row (`engine.py:65`), unless its task is cancelled, by the client or by the
  timeout around it (`runtime.py:551-560`): then a tool may have run without one.
- *Evidence.* `evidence_slate.py` promises the rerank's order, but facets come first, so
  `[1]` need not be the strongest evidence (`builtin.py:115`), and the gate's margin is of the
  reordered list. A positive that passed on rounded signals may be blocked on scores.
- *Verification.* One sentence without a citation makes the claims adapter uncertain and the
  answer refused; of an evidence the adapter sees the first line only.
- *Knowledge.* A crash between replacing rows and deleting vectors leaves vectors
  (`build_kb.py:145`); items kept are lost after a crash behind `kept`; an approval that
  lost answers `approved: True`; a row approved and then rejected is still served;
  concurrent captures lose counts or duplicate a review (`flywheel.py:78`).
- *Caches.* `list(vector)` stands outside the `try` (`retrieval_cache.py:259`): an embedding that
  is no list leaves the remaining flights open, and who waits for them waits for ever.
- *Experiments.* A replayed journal entry returns before its attempt is closed
  (`eval_cost.py:464`), so that the worktree cannot resume although each attempt is to be
  recorded once (`eval_rag_ablation.py:207`); an answer over the limit is closed as failed
  though it was paid; r2 settles failed and partial calls at 0; the adaptive wrapper clears the
  hard stop that another call has set; a torn last line makes a depth run
  unresumable; a rescored report keeps the hash of the protocol before
  (`eval_rag_ablation.py:1050-1055`); paired rows, and claim rows that retry, cost what
  earlier attempts did; a refused run burns its claim. When a scenario of the adaptive
  runner raises after calls, its row has no calls and no cost
  (`eval_adaptive_routing_r2.py:1292-1320`).

## 6 Limits

- **Store.** Lengths of leases and clock differences between workers; a commit
  whose acknowledgement is lost (the caller's error path is modelled, and a
  retry by a client with its `client_request_id`).
- **Chat execution.** At most one database call of a cancelled task is in flight, and an
  attempt calls one tool. A tool acts while its task is in the graph; a delegate's thread
  that outlives a cancelled task and writes later is left out.
  `hydrated_threads` and checkpoints are per process (`chat.py:146`); the graph's module
  has one process.
- **Streams.** The text of frames; the connection's buffering.
- **Tickets.** Preview keys that the single-agent graph issues are unknown to the
  ledger and are covered as keys of a button. Other write tools at the confirm
  endpoint: only a debug tool is registered. One process: the ledger is in memory.
- **Layers.** One conversation and one worker in the run; turns do not overlap,
  which the lease provides. Ids are 1, 2, … instead of a global sequence. Tool
  rows, found only in old data, and the rounding of token estimates are left out.
- **Graph, loop, evidence.** What models say is any answer of the kinds that matter; texts,
  ranks and latencies are left out. Fusion is any order of the candidates. Search strategies
  other than `hybrid_rerank`, which only scripts pass, are left out.
- **Answers.** Spans, wording and aliases of conditions; the overlap of texts, which
  decides in quality v3.1; a product's model is treated like an order; blank questions.
- **Agents.** One run; values of claims; what `api.py` appends after the run.
  Child timeouts are the possibility of a timeout at any await. A request that is
  cancelled as a whole cancels all of its tasks and leaves nothing to wait for. In
  `ActionTurn` a model's answer has one tool call.
- **Tools.** Arguments, schemas and results. The code keeps `source` and `mcp_server`
  apart (`mcp_client.py:62`), the model has one name for both.
- **Routing.** What an attempt does besides storing its turn is in `ChatExecution`.
- **Knowledge.** Similarity, so deduplication may go either way; a capture is a new review;
  row locks of `FOR UPDATE`; one miner at a time; ids are never reused. The replacement of a
  document's rows is one step, though its SELECT and its DELETE are two statements.
- **Caches.** Values, statistics and the order within a list of texts; an embedding that is
  no list (section 5). A flight
  is told apart by its key and call, so one call leads a key once.
- **Experiments.** Prices and rounding: an amount is a number of units. One group stands for
  those of an ablation; `_rescore_existing` is left out. Calls that a timeout has
  abandoned and that run on with the tracker are not modelled. `EvalCost` is about calls
  with a journal: the runs of chapter 11 (`eval_ch11.py:225-240`), and query rewriting's
  embedder and reranker, have neither journal nor attempts, and after a crash they pay
  again.
- Components marked `not_modelled` in `PROJECT.json`: request handlers over one row
  each, look-ups in fixed data, counters, wiring, acceptance scripts and the page.

## 7 Plan

1. The repairs of the violated properties as specifications of their own: a join by id
   with `EvidenceIsPaired`, a renderer that writes every supported claim with
   `RestIsWhatIsMissing`, each proved to keep the theorems of section 4.
2. The slate keeps the rank's order among the chunks that no facet placed.
3. What the liveness properties rest on, as invariants: a lease that is not renewed
   expires (`SessionIsFreed`), a thread that waits has a leader that is not itself
   waiting (`CallsReturn`), and a measure of what a run has left to do (`RunEnds`).
