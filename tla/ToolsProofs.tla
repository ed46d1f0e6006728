---------------------------- MODULE ToolsProofs -----------------------------
(***************************************************************************)
(* Proofs about what a turn calls.                                         *)
(*                                                                         *)
(* ActionTurn, ToolCalls, AdaptiveRouting: for any number of runs, turns,  *)
(* servers and requests a cancellation holds, a write is executed on a     *)
(* confirmation, once, and on record, and a request is answered where it   *)
(* was routed.                                                             *)
(*                                                                         *)
(* TicketConfirmation: for any sets of requests, conversations, contents,  *)
(* keys and numbers a confirmation makes one ticket.                       *)
(***************************************************************************)
EXTENDS ActionTurn, ToolCalls, AdaptiveRouting, TicketConfirmation, FiniteSetTheorems,
        TLAPS

-----------------------------------------------------------------------------
(* Agents and the pending preview.                                         *)

Artifacts == {"awaiting", "cancelled", "failed"}
AgentPc == {"idle", "plan", "replan", "start", "act", "others", "final", "done"}
Intents == {"unread", "none", "cancel", "confirm", "preview"}
Dispositions == {"none", "execute", "clarify", "refuse", "handoff"}
Replied == {"none", "plain", "previewed", "created", "not made", "waiting", "cancelled",
            "not confirmed", "not asked for", "sorry"}
Agent == [pc : AgentPc, words : SUBSET Words, intent : Intents, since : Nat, until : Nat,
          replans : Nat, disposition : Dispositions, tasks : Nat, own : BOOLEAN, steps : Nat,
          repairs : Nat, noted : BOOLEAN, told : BOOLEAN, artifacts : SUBSET Artifacts,
          all : SUBSET Artifacts, reply : Replied]

ActionTypeInv ==
  /\ made \in Nat /\ awaiting \in 0 .. made
  /\ agent \in [AgentRun -> Agent]

\* What a run remembers of the previews is of its past.
SinceIsPast == \A r \in AgentRun : agent[r].since <= made

ActionInv == ActionTypeInv /\ SinceIsPast /\ CancelHolds

LEMMA AgentType ==
  ASSUME ActionInv, NEW r \in AgentRun
  PROVE  /\ agent \in [AgentRun -> Agent] /\ agent[r] \in Agent /\ made + 1 \in Nat
         /\ agent[r].steps + 1 \in Nat /\ agent[r].repairs + 1 \in Nat
         /\ agent[r].replans + 1 \in Nat
<1>1. agent \in [AgentRun -> Agent] /\ agent[r] \in Agent /\ made \in Nat
  BY DEF ActionInv, ActionTypeInv
<1> QED
  BY <1>1 DEF Agent

\* A step of a run that leaves alone what it read of the message, and makes no
\* preview; it may cancel the one that is pending.
LEMMA QuietRunHolds ==
  ASSUME ActionInv, NEW r \in AgentRun, NEW rec \in Agent,
         agent' = [agent EXCEPT ![r] = rec],
         \/ rec.intent = agent[r].intent /\ rec.since = agent[r].since
         \/ rec.intent = "unread" /\ rec.since = 0,
         made' = made, awaiting' \in {awaiting, 0}
  PROVE  ActionInv'
  BY DEF ActionInv, ActionTypeInv, SinceIsPast, CancelHolds

LEMMA NoAgentType == NoAgent \in Agent
  BY DEF NoAgent, Agent, AgentPc, Intents, Dispositions, Replied

LEMMA PlannedType ==
  ASSUME NEW req \in Agent, NEW p \in TaskPlans
  PROVE  /\ Planned(req, p) \in Agent
         /\ Planned(req, p).intent = req.intent
         /\ Planned(req, p).since = req.since
<1> DEFINE pc == IF p.disposition = "execute" THEN "start" ELSE "final"
<1>1. p.disposition \in Dispositions /\ p.acts \in Nat /\ pc \in AgentPc
  BY ActionAssumption DEF TaskPlans, Dispositions, AgentPc
<1>2. Planned(req, p) = [req EXCEPT !.pc = pc, !.disposition = p.disposition, !.tasks = p.acts]
  BY DEF Planned
<1> HIDE DEF pc
<1> QED
  BY <1>1, <1>2 DEF Agent

LEMMA InferType ==
  ASSUME NEW words, NEW waits
  PROVE  Infer(words, waits) \in Intents
  BY DEF Infer, Intents

LEMMA PlanTasksHolds == ASSUME ActionInv, NEW r \in AgentRun, PlanTasks(r) PROVE ActionInv'
<1> DEFINE intent == Infer(agent[r].words, awaiting # 0)
           events == IF intent = "cancel" THEN {"cancelled"} ELSE {}
           noted == intent = "cancel" /\ awaiting = 0
           req == [agent[r] EXCEPT !.intent = intent, !.since = made, !.noted = noted,
                                   !.artifacts = events, !.all = events]
<1>1. PICK p \in TaskPlans :
        /\ agent' = [agent EXCEPT ![r] = Planned(req, p)]
        /\ awaiting' = IF intent = "cancel" THEN 0 ELSE awaiting
  BY DEF PlanTasks, ReadIntent
<1>2. agent[r] \in Agent /\ made \in Nat
  BY DEF ActionInv, ActionTypeInv
<1>3. req \in Agent /\ req.intent = intent /\ req.since = made
  <2>1. intent \in Intents /\ events \in SUBSET Artifacts /\ noted \in BOOLEAN
    BY InferType DEF Artifacts
  <2> HIDE DEF intent, events, noted
  <2> QED
    BY <1>2, <2>1 DEF Agent
<1> DEFINE rec == Planned(req, p)
<1>4. rec \in Agent /\ rec.intent = intent /\ rec.since = made
  BY <1>3, PlannedType
<1>5. agent' = [agent EXCEPT ![r] = rec] /\ made' = made
  BY <1>1 DEF PlanTasks
<1> HIDE DEF rec, intent
<1> QED
  BY <1>1, <1>4, <1>5 DEF ActionInv, ActionTypeInv, SinceIsPast, CancelHolds

LEMMA ExecutesHolds == ASSUME ActionInv, NEW r \in AgentRun, Executes(r) PROVE ActionInv'
<1> DEFINE req == agent[r]
           cancels == req.intent = "cancel" /\ ~req.noted
           noted == req.noted \/ (cancels /\ awaiting = 0)
           kept == IF req.intent = "cancel" THEN {"cancelled"} ELSE {}
           all == IF cancels THEN req.all \cup {"cancelled"} ELSE req.all
           rec == [req EXCEPT !.pc = "others", !.noted = noted, !.told = noted,
                              !.artifacts = kept, !.all = all]
<1>1. req \in Agent /\ agent \in [AgentRun -> Agent]
  BY AgentType
<1>2. /\ agent' = [agent EXCEPT ![r] = rec] /\ made' = made
      /\ awaiting' = IF cancels THEN 0 ELSE awaiting
  BY DEF Executes
<1>3. noted \in BOOLEAN /\ kept \in SUBSET Artifacts /\ all \in SUBSET Artifacts
  BY <1>1 DEF Agent, Artifacts
<1> HIDE DEF noted, kept, all
<1>4. rec \in Agent /\ rec.intent = req.intent /\ rec.since = req.since
  BY <1>1, <1>3 DEF Agent, AgentPc
<1> HIDE DEF rec
<1> QED
  BY <1>2, <1>4, QuietRunHolds

LEMMA ActionTaskHolds == ASSUME ActionInv, NEW r \in AgentRun, ActionTask(r) PROVE ActionInv'
<1> DEFINE req == [agent[r] EXCEPT !.tasks = @ - 1]
           cancels == req.intent = "cancel" /\ ~req.told
           told == req.told \/ (cancels /\ awaiting = 0)
           Keeps(rec) == rec \in Agent /\ rec.intent = agent[r].intent /\ rec.since = agent[r].since
           rec == CASE req.intent = "preview" -> [req EXCEPT !.pc = "act"]
                    [] req.intent = "cancel" -> [req EXCEPT !.told = told]
                    [] OTHER -> [req EXCEPT !.artifacts = @ \cup {"cancelled"},
                                            !.all = @ \cup {"cancelled"}]
<1>1. agent[r] \in Agent /\ agent \in [AgentRun -> Agent] /\ agent[r].tasks # 0
  BY AgentType DEF ActionTask
<1>2. Keeps(req)
  BY <1>1 DEF Agent
<1>3. /\ agent' = [agent EXCEPT ![r] = rec] /\ made' = made
      /\ awaiting' = IF cancels THEN 0 ELSE awaiting
  BY DEF ActionTask
<1>4. Keeps([req EXCEPT !.pc = "act"])
  BY <1>2 DEF Agent, AgentPc
<1>5. Keeps([req EXCEPT !.told = told])
  BY <1>2 DEF Agent
<1>6. Keeps([req EXCEPT !.artifacts = @ \cup {"cancelled"}, !.all = @ \cup {"cancelled"}])
  BY <1>2 DEF Agent, Artifacts
<1> HIDE DEF req, told
<1>7. Keeps(rec)
  BY <1>4, <1>5, <1>6
<1> HIDE DEF rec
<1> QED
  BY <1>3, <1>7, QuietRunHolds

LEMMA LeavesType ==
  ASSUME ActionInv, NEW r \in AgentRun, NEW pc \in AgentPc, Leaves(r, pc)
  PROVE  \E rec \in Agent : /\ agent' = [agent EXCEPT ![r] = rec]
                            /\ rec.intent = agent[r].intent /\ rec.since = agent[r].since
<1> DEFINE rec == [agent[r] EXCEPT !.pc = pc, !.own = FALSE, !.steps = 0, !.repairs = 0]
<1>1. agent[r] \in Agent /\ agent \in [AgentRun -> Agent]
  BY AgentType
<1>2. rec \in Agent /\ rec.intent = agent[r].intent /\ rec.since = agent[r].since
  BY <1>1 DEF Agent
<1> QED
  BY <1>1, <1>2 DEF Leaves

LEMMA RepairsType ==
  ASSUME ActionInv, NEW r \in AgentRun, Repairs(r)
  PROVE  \E rec \in Agent : /\ agent' = [agent EXCEPT ![r] = rec]
                            /\ rec.intent = agent[r].intent /\ rec.since = agent[r].since
<1>1. /\ agent[r] \in Agent /\ agent[r].steps + 1 \in Nat /\ agent[r].repairs + 1 \in Nat
      /\ agent \in [AgentRun -> Agent]
  BY AgentType
<1>2. CASE agent[r].repairs < MaxRepairs
  <2> DEFINE rec == [agent[r] EXCEPT !.repairs = @ + 1, !.steps = @ + 1]
  <2>1. agent' = [agent EXCEPT ![r] = rec]
    BY <1>1, <1>2 DEF Repairs
  <2>2. rec \in Agent /\ rec.intent = agent[r].intent /\ rec.since = agent[r].since
    BY <1>1 DEF Agent
  <2> QED
    BY <2>1, <2>2
<1>3. CASE ~(agent[r].repairs < MaxRepairs)
  <2> DEFINE rec == [agent[r] EXCEPT !.pc = "final", !.artifacts = @ \cup {"failed"},
                                     !.all = @ \cup {"failed"}]
  <2>1. agent' = [agent EXCEPT ![r] = rec]
    BY <1>1, <1>3 DEF Repairs
  <2>2. rec \in Agent /\ rec.intent = agent[r].intent /\ rec.since = agent[r].since
    BY <1>1 DEF Agent, Artifacts, AgentPc
  <2> QED
    BY <2>1, <2>2
<1> QED
  BY <1>2, <1>3

LEMMA PreviewsHolds == ASSUME ActionInv, NEW r \in AgentRun, Previews(r) PROVE ActionInv'
<1> DEFINE events == {"awaiting"} \cup IF awaiting = 0 THEN {} ELSE {"cancelled"}
           rec == [agent[r] EXCEPT !.own = TRUE, !.steps = @ + 1, !.until = made + 1,
                                   !.artifacts = @ \cup events, !.all = @ \cup events]
<1>1. /\ agent[r] \in Agent /\ agent[r].steps + 1 \in Nat /\ made + 1 \in Nat
      /\ agent \in [AgentRun -> Agent] /\ events \in SUBSET Artifacts
  BY AgentType DEF Artifacts
<1>2. agent' = [agent EXCEPT ![r] = rec] /\ made' = made + 1 /\ awaiting' = made + 1
  BY <1>1 DEF Previews
<1> HIDE DEF events
<1>3. rec \in Agent /\ rec.intent = agent[r].intent /\ rec.since = agent[r].since
  BY <1>1 DEF Agent
<1> HIDE DEF rec
<1>4. ActionTypeInv'
  BY <1>1, <1>2, <1>3 DEF ActionTypeInv, ActionInv
<1>5. \A s \in AgentRun : agent'[s].since = agent[s].since /\ agent[s].since \in 0 .. made
  BY <1>1, <1>2, <1>3 DEF ActionInv, ActionTypeInv, SinceIsPast, Agent
<1> QED
  BY <1>1, <1>2, <1>4, <1>5 DEF ActionInv, SinceIsPast, CancelHolds, ActionTypeInv

LEMMA OtherStepsHold ==
  ASSUME ActionInv, NEW r \in AgentRun,
         ReadMessage(r) \/ ReplanTasks(r) \/ Others(r) \/ Concludes(r) \/ CallsBadly(r)
           \/ CallIsRefused(r) \/ CallsTwice(r) \/ Raises(r) \/ OutOfIterations(r) \/ Finalize(r)
  PROVE  ActionInv'
<1>1. agent[r] \in Agent /\ agent \in [AgentRun -> Agent] /\ agent[r].replans + 1 \in Nat
  BY AgentType
<1>2. UNCHANGED <<made, awaiting>>
  BY DEF ReadMessage, ReplanTasks, Others, Concludes, CallsBadly, CallIsRefused, CallsTwice,
     Raises, OutOfIterations, Finalize
<1> DEFINE Keeps(rec) == /\ agent' = [agent EXCEPT ![r] = rec]
                         /\ rec.intent = agent[r].intent /\ rec.since = agent[r].since
<1>3. ASSUME NEW pc \in AgentPc, agent' = [agent EXCEPT ![r].pc = pc]
      PROVE  ActionInv'
  <2> DEFINE rec == [agent[r] EXCEPT !.pc = pc]
  <2>1. Keeps(rec) /\ rec \in Agent
    BY <1>1, <1>3 DEF Agent
  <2> QED
    BY <1>2, <2>1, QuietRunHolds
<1>4. CASE ReadMessage(r)
  <2>1. PICK words \in Messages : agent' = [agent EXCEPT ![r] = [NoAgent EXCEPT !.pc = "plan", !.words = words]]
    BY <1>4 DEF ReadMessage
  <2> DEFINE rec == [NoAgent EXCEPT !.pc = "plan", !.words = words]
  <2>2. rec \in Agent /\ rec.intent = "unread" /\ rec.since = 0
    BY NoAgentType, ActionAssumption DEF Agent, NoAgent, AgentPc
  <2> QED
    BY <1>2, <2>1, <2>2, QuietRunHolds
<1>5. CASE ReplanTasks(r)
  <2> DEFINE told == [agent[r] EXCEPT !.replans = @ + 1]
  <2>1. PICK p \in TaskPlans : agent' = [agent EXCEPT ![r] = Planned(told, p)]
    BY <1>1, <1>5 DEF ReplanTasks
  <2>2. told \in Agent /\ told.intent = agent[r].intent /\ told.since = agent[r].since
    BY <1>1 DEF Agent
  <2> HIDE DEF told
  <2> QED
    BY <1>2, <2>1, <2>2, PlannedType, QuietRunHolds
<1>3a. ASSUME NEW pc \in AgentPc, Leaves(r, pc)
       PROVE  ActionInv'
  BY <1>2, <1>3a, LeavesType, QuietRunHolds
<1>6. CASE Others(r) \/ Raises(r)
  BY <1>3, <1>6, <1>3a DEF Others, Raises, Fails, AgentPc
<1>7. CASE Concludes(r) \/ CallsBadly(r) \/ CallIsRefused(r)
  <2>1. CASE Repairs(r)
    BY <1>2, <2>1, RepairsType, QuietRunHolds
  <2> QED
    BY <1>7, <1>3a, <2>1 DEF Concludes, CallsBadly, CallIsRefused, AgentPc
<1>8. CASE CallsTwice(r)
  <2> DEFINE rec == [agent[r] EXCEPT !.pc = "final", !.artifacts = @ \cup {"failed"},
                                     !.all = @ \cup {"failed"}]
  <2>1. Keeps(rec) /\ rec \in Agent
    BY <1>1, <1>8 DEF CallsTwice, Agent, Artifacts, AgentPc
  <2> QED
    BY <1>2, <2>1, QuietRunHolds
<1>9. CASE OutOfIterations(r)
  BY <1>9, <1>3a DEF OutOfIterations, Fails, AgentPc
<1>10. CASE Finalize(r)
  <2> DEFINE req == agent[r]
             seen == IF req.artifacts = {} THEN req.all ELSE req.artifacts
             replies == IF req.intent = "cancel" THEN {"cancelled"}
                        ELSE IF req.disposition # "execute" THEN Claims
                        ELSE {Guarded(req.intent, seen, says) : says \in Claims} \cup {"sorry"}
             Ended(reply) == [NoAgent EXCEPT !.pc = "done", !.words = req.words, !.intent = req.intent,
                           !.since = req.since, !.until = req.until,
                           !.disposition = req.disposition, !.reply = reply]
  <2>1. PICK reply \in replies : agent' = [agent EXCEPT ![r] = Ended(reply)]
    BY <1>10 DEF Finalize
  <2>2. reply \in Replied
    BY DEF Claims, Guarded, Replied
  <2> HIDE DEF replies
  <2>3. Ended(reply) \in Agent /\ Ended(reply).intent = req.intent /\ Ended(reply).since = req.since
    BY <1>1, <2>2, NoAgentType, ZenonT(40) DEF Agent, NoAgent, AgentPc
  <2> QED
    BY <1>2, <2>1, <2>3, QuietRunHolds
<1> QED
  BY <1>4, <1>5, <1>6, <1>7, <1>8, <1>9, <1>10

\* A message that cancels leaves none of the previews pending that were there when
\* it was read, for any number of runs, messages, repairs and plans
\* (runtime.py:965-975).
THEOREM CancellationHolds == ActionSpec => []CancelHolds
<1>1. ActionInit => ActionInv
  BY NoAgentType DEF ActionInit, ActionInv, ActionTypeInv, SinceIsPast, CancelHolds, NoAgent
<1>2. ActionInv /\ [ActionNext]_actionVars => ActionInv'
  <2> SUFFICES ASSUME ActionInv, [ActionNext]_actionVars PROVE ActionInv'
    OBVIOUS
  <2>1. CASE ClientSettles
    BY <2>1 DEF ClientSettles, ActionInv, ActionTypeInv, SinceIsPast, CancelHolds
  <2>2. CASE UNCHANGED actionVars
    BY <2>2 DEF actionVars, ActionInv, ActionTypeInv, SinceIsPast, CancelHolds
  <2> QED
    BY <2>1, <2>2, PlanTasksHolds, ExecutesHolds, ActionTaskHolds, PreviewsHolds, OtherStepsHold
       DEF ActionNext
<1>3. ActionInv => CancelHolds
  BY DEF ActionInv
<1> QED
  BY <1>1, <1>2, <1>3, PTL DEF ActionSpec

-----------------------------------------------------------------------------
(* The registry, and the calls of its tools.                               *)

CallPc == {"idle", "discover", "apply", "bind", "execute", "run", "done", "cancelled"}
Tool == Own \cup Servers \cup {NoTool}
Outcomes == {"refused", "failed", "denied", "succeeded", "timeout"}
TurnRecord == [pc : CallPc, left : Seq(Servers), list : SUBSET Name, whole : BOOLEAN,
               name : Name \cup {NoTool}, shown : Tool, held : Tool,
               confirmed : BOOLEAN, attempt : Nat, ran : Nat, rows : Seq(Outcomes)]

RegistryInv ==
  /\ registry \in [Name -> Tool]
  /\ booted \in Int
  /\ offers \in [Servers -> List]
  /\ \A n \in DOMAIN Builtin : registry[n] = Builtin[n]

\* How far a call has come: a tool runs only once the engine has accepted it, a
\* write only on a confirmation and in its first attempt, and the row is written
\* when the call comes back.
CallIsSound(c) ==
  /\ c.shown \in Own => c.name \in Name
  /\ c.pc = "execute" => c.name \in Name
  /\ c.pc = "apply" => c.left # <<>>
  /\ c.pc \notin {"run", "done", "cancelled"} =>
       c.ran = 0 /\ c.attempt = 0 /\ c.held = NoTool
  /\ c.held # NoTool /\ c.shown \in Own => c.held = c.shown
  /\ c.pc # "done" => c.rows = <<>>
  /\ c.pc = "run" =>
       /\ c.ran = c.attempt /\ c.held # NoTool
       /\ c.held = "write" => c.confirmed /\ c.attempt = 0
  /\ c.ran > 0 => c.held # NoTool
  /\ c.held = "write" => c.ran <= 1 /\ (c.ran = 1 => c.confirmed)
  /\ c.pc = "done" /\ audited /\ c.ran > 0 =>
       Len(c.rows) = 1 /\ c.rows[1] \in {"succeeded", "failed", "timeout"}

\* What was shown as the application's own tool is still registered as it was.
ShownStays ==
  \A t \in Turn : turn[t].shown \in Own => registry[turn[t].name] = turn[t].shown

CallsInv ==
  /\ turn \in [Turn -> TurnRecord]
  /\ \A t \in Turn : CallIsSound(turn[t])

ToolInv == RegistryInv /\ CallsInv /\ ShownStays

LEMMA OwnIsNoServer == \A s \in Servers \cup {NoTool} : s \notin Own
  BY ToolAssumption DEF Servers, NoTool, Own

LEMMA NoTurnIsSound == NoTurn \in TurnRecord /\ CallIsSound(NoTurn)
  BY OwnIsNoServer DEF NoTurn, TurnRecord, CallPc, CallIsSound, Tool, NoTool

\* A step of one turn.
LEMMA CallKeeps ==
  ASSUME CallsInv, NEW t \in Turn, NEW c \in TurnRecord, CallIsSound(c),
         turn' = [turn EXCEPT ![t] = c], UNCHANGED audited
  PROVE  CallsInv'
  BY DEF CallsInv, CallIsSound

\* No step takes a name from the application: names that are free are registered,
\* and a server takes out its own.
OwnStays == \A n \in Name : registry[n] \in Own => registry'[n] = registry[n]

LEMMA ElementType == ASSUME NEW S, NEW s \in Seq(S), NEW i \in 1 .. Len(s) PROVE s[i] \in S
  OBVIOUS

LEMMA AddKeeps ==
  ASSUME RegistryInv, NEW tools \in Seq([name : Name, access : Own]), NEW k \in 0 .. Len(tools),
         Free(tools, k), registry' = Add(tools, k)
  PROVE  registry' \in [Name -> Tool] /\ OwnStays
<1>1. ASSUME NEW n \in Name PROVE registry'[n] \in Tool /\ (registry[n] \in Own => registry'[n] = registry[n])
  <2>1. CASE \E i \in 1 .. k : tools[i].name = n
    <3> DEFINE first == CHOOSE i \in 1 .. k : tools[i].name = n
    <3>1. first \in 1 .. k /\ tools[first].name = n
      BY <2>1
    <3>2. registry'[n] = tools[first].access
      BY <2>1 DEF Add
    <3> HIDE DEF first
    <3>3. registry[n] = NoTool
      BY <3>1 DEF Free
    <3>4. tools[first].access \in Own
      <4>1. first \in 1 .. Len(tools)
        BY <3>1
      <4>2. tools[first] \in [name : Name, access : Own]
        BY <4>1, ElementType
      <4> QED
        BY <4>2
    <3> QED
      BY <3>2, <3>3, <3>4, OwnIsNoServer DEF Tool
  <2>2. CASE ~\E i \in 1 .. k : tools[i].name = n
    BY <2>2 DEF Add, RegistryInv
  <2> QED
    BY <2>1, <2>2
<1> QED
  BY <1>1 DEF Add, OwnStays

LEMMA SyncedKeeps ==
  ASSUME RegistryInv, NEW list, NEW server \in Servers, registry' = Synced(list, server)
  PROVE  registry' \in [Name -> Tool] /\ OwnStays
<1>1. server \notin Own /\ NoTool \notin Own /\ server \in Tool /\ NoTool \in Tool
  BY OwnIsNoServer DEF Tool
<1> QED
  BY <1>1 DEF RegistryInv, Synced, OwnStays

\* What a step does to the registry.
LEMMA RegistryStep == ASSUME ToolInv, ToolNext PROVE RegistryInv' /\ OwnStays
<1>1. ASSUME registry' \in [Name -> Tool], OwnStays, booted' \in Int, offers' \in [Servers -> List]
      PROVE  RegistryInv' /\ OwnStays
  BY <1>1, ToolAssumption DEF ToolInv, RegistryInv, OwnStays
<1>2. CASE LoadPlugin
  <2>1. booted \in Int /\ booted + 1 \in DOMAIN Plugins
    BY <1>2 DEF LoadPlugin, ToolInv, RegistryInv
  <2>2. Plugins[booted + 1] \in Seq([name : Name, access : Own])
    BY <2>1, ToolAssumption DEF Range
  <2>3. PICK k \in 0 .. Len(Plugins[booted + 1]) :
          /\ Free(Plugins[booted + 1], k) /\ registry' = Add(Plugins[booted + 1], k)
    BY <1>2 DEF LoadPlugin
  <2>4. registry' \in [Name -> Tool] /\ OwnStays
    BY <2>2, <2>3, AddKeeps DEF ToolInv
  <2>5. booted' \in Int /\ offers' \in [Servers -> List]
    BY <1>2, <2>1 DEF LoadPlugin, ToolInv, RegistryInv
  <2> QED
    BY <1>1, <2>4, <2>5
<1>3. CASE RegisterDebug
  <2>1. Debug \in Seq([name : Name, access : Own])
    BY ToolAssumption
  <2>4. booted' \in Int /\ offers' \in [Servers -> List]
    <3>1. booted \in Int /\ offers \in [Servers -> List]
      BY DEF ToolInv, RegistryInv
    <3>2. booted' \in {booted + 1, -1} /\ UNCHANGED offers
      BY <1>3 DEF RegisterDebug
    <3> QED
      BY <3>1, <3>2
  <2>2. CASE UNCHANGED registry
    BY <1>1, <2>2, <2>4 DEF ToolInv, RegistryInv, OwnStays
  <2>3. CASE \E k \in 0 .. Len(Debug) : Free(Debug, k) /\ registry' = Add(Debug, k)
    BY <1>1, <2>1, <2>3, <2>4, AddKeeps DEF ToolInv
  <2> QED
    BY <1>3, <2>2, <2>3 DEF RegisterDebug
<1>4. CASE ServerChanges
  BY <1>1, <1>4 DEF ServerChanges, ToolInv, RegistryInv, OwnStays
<1>5. ASSUME NEW t \in Turn, ApplyList(t) PROVE RegistryInv' /\ OwnStays
  <2>1. Head(turn[t].left) \in Servers
    <3>1. turn[t] \in TurnRecord /\ CallIsSound(turn[t])
      BY DEF ToolInv, CallsInv
    <3> QED
      BY <1>5, <3>1 DEF ApplyList, TurnAt, TurnRecord, CallIsSound
  <2> QED
    BY <1>1, <1>5, <2>1, SyncedKeeps DEF ApplyList, ToolInv, RegistryInv
<1>6. CASE UNCHANGED <<registry, booted, offers>>
  BY <1>1, <1>6 DEF ToolInv, RegistryInv, OwnStays
<1>7. \A t \in Turn : Sync(t) \/ Execute(t) => ApplyList(t) \/ UNCHANGED <<registry, booted, offers>>
  BY DEF Sync, SkipSync, StartSync, Discover, EndSync, Execute, CallTool, ConfirmTool,
     Unregistered, BadArguments, Intercept, StartTool, Succeed, Break, Lose, CancelCall, Again
<1> QED
  BY <1>2, <1>3, <1>4, <1>5, <1>6, <1>7 DEF ToolNext, TtlEnds

\* The record of a call that ended with a row.
Closed(c, row) == [c EXCEPT !.pc = "done", !.rows = IF audited THEN Append(@, row) ELSE @]

LEMMA ClosedType ==
  ASSUME NEW c \in TurnRecord, NEW row \in Outcomes, c.rows = <<>>
  PROVE  /\ Closed(c, row) \in TurnRecord /\ Closed(c, row).pc = "done"
         /\ Closed(c, row).name = c.name /\ Closed(c, row).ran = c.ran
         /\ Closed(c, row).confirmed = c.confirmed /\ Closed(c, row).attempt = c.attempt
         /\ Closed(c, row).shown = c.shown /\ Closed(c, row).held = c.held
         /\ audited => Closed(c, row).rows = <<row>>
<1>1. Append(c.rows, row) \in Seq(Outcomes) /\ Append(c.rows, row) = <<row>>
  BY DEF TurnRecord
<1> DEFINE rows == IF audited THEN Append(c.rows, row) ELSE c.rows
<1>2. rows \in Seq(Outcomes) /\ (audited => rows = <<row>>)
  BY <1>1 DEF TurnRecord
<1>3. Closed(c, row) = [c EXCEPT !.pc = "done", !.rows = rows]
  BY DEF Closed
<1> HIDE DEF rows
<1> QED
  BY <1>2, <1>3 DEF TurnRecord, CallPc

LEMMA SyncKeepsCalls == ASSUME ToolInv, NEW t \in Turn, Sync(t) PROVE CallsInv'
<1>1. /\ turn[t] \in TurnRecord /\ CallIsSound(turn[t]) /\ turn \in [Turn -> TurnRecord]
      /\ offers \in [Servers -> List] /\ UNCHANGED audited
  BY DEF ToolInv, RegistryInv, CallsInv, Sync, SkipSync, StartSync, Discover, ApplyList, EndSync
<1>2. CASE SkipSync(t) \/ EndSync(t)
  <2> DEFINE c == [turn[t] EXCEPT !.pc = "bind"]
  <2>1. turn' = [turn EXCEPT ![t] = c]
    BY <1>1, <1>2 DEF SkipSync, EndSync
  <2>2. c \in TurnRecord /\ CallIsSound(c)
    BY <1>1, <1>2 DEF SkipSync, EndSync, TurnAt, TurnRecord, CallPc, CallIsSound
  <2> QED
    BY <1>1, <2>1, <2>2, CallKeeps DEF ToolInv
<1>3. CASE StartSync(t)
  <2> DEFINE c == [NoTurn EXCEPT !.pc = "discover", !.left = Server]
  <2>1. turn' = [turn EXCEPT ![t] = c]
    BY <1>3 DEF StartSync
  <2>2. c \in TurnRecord /\ CallIsSound(c)
    BY NoTurnIsSound, ToolAssumption DEF NoTurn, TurnRecord, CallPc, CallIsSound, Servers
  <2> QED
    BY <1>1, <2>1, <2>2, CallKeeps DEF ToolInv
<1>4. CASE Discover(t) /\ turn' = [turn EXCEPT ![t].pc = "apply", ![t].list = offers[Head(turn[t].left)]]
  <2> DEFINE list == offers[Head(turn[t].left)]
             c == [turn[t] EXCEPT !.pc = "apply", !.list = list]
  <2>1. turn[t].left \in Seq(Servers) /\ turn[t].left # <<>>
    BY <1>1, <1>4 DEF Discover, TurnRecord
  <2>2. list \in SUBSET Name
    BY <1>1, <2>1, ToolAssumption
  <2>3. turn' = [turn EXCEPT ![t] = c]
    BY <1>1, <1>4
  <2> HIDE DEF list
  <2>4. c \in TurnRecord
    BY <1>1, <2>2 DEF TurnRecord, CallPc
  <2>5. CallIsSound(c)
    BY <1>1, <1>4, <2>1 DEF Discover, TurnAt, TurnRecord, CallIsSound
  <2> QED
    BY <1>1, <2>3, <2>4, <2>5, CallKeeps DEF ToolInv
<1>5. CASE Discover(t) /\ turn' = [turn EXCEPT ![t].left = Tail(@), ![t].whole = FALSE]
  <2> DEFINE left == Tail(turn[t].left)
             c == [turn[t] EXCEPT !.left = left, !.whole = FALSE]
  <2>1. left \in Seq(Servers)
    BY <1>1, <1>5 DEF Discover, TurnRecord
  <2>2. turn' = [turn EXCEPT ![t] = c]
    BY <1>1, <1>5
  <2> HIDE DEF left
  <2>3. c \in TurnRecord /\ CallIsSound(c)
    BY <1>1, <1>5, <2>1 DEF Discover, TurnAt, TurnRecord, CallIsSound
  <2> QED
    BY <1>1, <2>2, <2>3, CallKeeps DEF ToolInv
<1>6. CASE ApplyList(t)
  <2> DEFINE left == Tail(turn[t].left)
             c == [turn[t] EXCEPT !.pc = "discover", !.left = left, !.list = {}]
  <2>1. left \in Seq(Servers)
    BY <1>1, <1>6 DEF ApplyList, TurnAt, TurnRecord, CallIsSound
  <2>2. turn' = [turn EXCEPT ![t] = c]
    BY <1>1, <1>6 DEF ApplyList
  <2> HIDE DEF left
  <2>3. c \in TurnRecord /\ CallIsSound(c)
    BY <1>1, <1>6, <2>1 DEF ApplyList, TurnAt, TurnRecord, CallPc, CallIsSound
  <2> QED
    BY <1>1, <2>2, <2>3, CallKeeps DEF ToolInv
<1> QED
  BY <1>2, <1>3, <1>4, <1>5, <1>6 DEF Sync, Discover

\* A call that ends without having run its tool, and one that ends after it.
LEMMA ClosesKeeps ==
  ASSUME ToolInv, NEW t \in Turn, turn[t].pc = "execute", NEW row \in Outcomes,
         turn' = Closes(t, row), UNCHANGED audited
  PROVE  CallsInv'
<1>1. /\ turn[t] \in TurnRecord /\ CallIsSound(turn[t]) /\ turn \in [Turn -> TurnRecord]
  BY DEF ToolInv, CallsInv
<1>2. turn[t].rows = <<>> /\ turn[t].ran = 0 /\ turn[t].held = NoTool /\ turn[t].name \in Name
  BY <1>1 DEF CallIsSound
<1> DEFINE c == Closed(turn[t], row)
<1>3. turn' = [turn EXCEPT ![t] = c]
  BY <1>1 DEF Closes, Closed
<1>4. /\ c \in TurnRecord /\ c.pc = "done" /\ c.ran = 0 /\ c.held = NoTool
      /\ c.shown = turn[t].shown /\ c.name \in Name
  BY <1>1, <1>2, ClosedType
<1> HIDE DEF c
<1>5. CallIsSound(c)
  BY <1>1, <1>4 DEF CallIsSound, NoTool
<1> QED
  BY <1>3, <1>4, <1>5, CallKeeps DEF ToolInv

LEMMA RanKeeps ==
  ASSUME ToolInv, NEW t \in Turn, turn[t].pc = "run",
         NEW row \in {"succeeded", "failed", "timeout"},
         turn' = [Closes(t, row) EXCEPT ![t].ran = @ + 1], UNCHANGED audited
  PROVE  CallsInv'
<1>1. /\ turn[t] \in TurnRecord /\ CallIsSound(turn[t]) /\ turn \in [Turn -> TurnRecord]
  BY DEF ToolInv, CallsInv
<1>2. /\ turn[t].rows = <<>> /\ turn[t].ran \in Nat /\ row \in Outcomes
      /\ turn[t].held = "write" => turn[t].ran = 0 /\ turn[t].confirmed
      /\ turn[t].held # NoTool
  BY <1>1 DEF CallIsSound, TurnRecord, Outcomes
<1> DEFINE d == Closed(turn[t], row)
           c == [d EXCEPT !.ran = @ + 1]
<1>3. /\ d \in TurnRecord /\ d.pc = "done" /\ d.name = turn[t].name /\ d.ran = turn[t].ran
      /\ d.confirmed = turn[t].confirmed /\ (audited => d.rows = <<row>>)
      /\ d.shown = turn[t].shown /\ d.held = turn[t].held
  BY <1>1, <1>2, ClosedType
<1>4. turn' = [turn EXCEPT ![t] = c]
  BY <1>1 DEF Closes, Closed
<1> HIDE DEF d
<1>5. /\ c \in TurnRecord /\ c.pc = "done" /\ c.name = turn[t].name /\ c.ran = turn[t].ran + 1
      /\ c.confirmed = turn[t].confirmed /\ (audited => c.rows = <<row>>)
      /\ c.shown = turn[t].shown /\ c.held = turn[t].held
  <2> DEFINE total == d.ran + 1
  <2>1. total \in Nat /\ total = turn[t].ran + 1 /\ c = [d EXCEPT !.ran = total]
    BY <1>2, <1>3
  <2> HIDE DEF total
  <2> QED
    BY <1>3, <2>1 DEF TurnRecord
<1> HIDE DEF c
<1>6. c.held = "write" => c.ran <= 1 /\ c.confirmed
  BY <1>2, <1>5
<1>7. audited => Len(c.rows) = 1 /\ c.rows[1] \in {"succeeded", "failed", "timeout"}
  BY <1>5
<1>8. CallIsSound(c)
  BY <1>1, <1>2, <1>5, <1>6, <1>7 DEF CallIsSound
<1> QED
  BY <1>4, <1>5, <1>8, CallKeeps DEF ToolInv

LEMMA ExecuteKeepsCalls == ASSUME ToolInv, NEW t \in Turn, Execute(t) PROVE CallsInv'
<1>1. /\ turn[t] \in TurnRecord /\ CallIsSound(turn[t]) /\ turn \in [Turn -> TurnRecord]
      /\ UNCHANGED audited
  BY DEF ToolInv, CallsInv, Execute, CallTool, ConfirmTool, Unregistered, BadArguments, Intercept,
     StartTool, Succeed, Break, Lose, CancelCall, Again
<1>2. ASSUME NEW c \in TurnRecord, CallIsSound(c), turn' = [turn EXCEPT ![t] = c]
      PROVE  CallsInv'
  BY <1>1, <1>2, CallKeeps DEF ToolInv
<1>3. CASE CallTool(t) \/ ConfirmTool(t)
  <2>1. PICK n \in Registered, yes \in BOOLEAN :
          turn' = [turn EXCEPT ![t] = [NoTurn EXCEPT !.pc = "execute", !.name = n,
                                                     !.shown = registry[n], !.confirmed = yes]]
    <3>1. CASE CallTool(t)
      <4>1. NoTurn.confirmed = FALSE
        BY DEF NoTurn
      <4>2. PICK n \in Registered :
              turn' = [turn EXCEPT ![t] = [NoTurn EXCEPT !.pc = "execute", !.name = n,
                                                         !.shown = registry[n]]]
        BY <3>1 DEF CallTool
      <4>3. [NoTurn EXCEPT !.pc = "execute", !.name = n, !.shown = registry[n]]
              = [NoTurn EXCEPT !.pc = "execute", !.name = n, !.shown = registry[n],
                               !.confirmed = FALSE]
        BY <4>1 DEF NoTurn
      <4> QED
        BY <4>2, <4>3
    <3>2. CASE ConfirmTool(t)
      BY <3>2 DEF ConfirmTool
    <3> QED
      BY <1>3, <3>1, <3>2
  <2>2. n \in Name /\ registry[n] \in Tool
    BY DEF Registered, ToolInv, RegistryInv
  <2> DEFINE c == [NoTurn EXCEPT !.pc = "execute", !.name = n, !.shown = registry[n],
                                 !.confirmed = yes]
  <2>3. c \in TurnRecord /\ CallIsSound(c)
    BY <2>2, NoTurnIsSound, ZenonT(40) DEF NoTurn, TurnRecord, CallPc, CallIsSound, Tool
  <2> QED
    BY <1>2, <2>1, <2>3
<1>5. CASE Unregistered(t)
  <2> DEFINE c == [turn[t] EXCEPT !.pc = "done"]
  <2>1. turn' = [turn EXCEPT ![t] = c]
    BY <1>1, <1>5 DEF Unregistered
  <2>2. /\ c \in TurnRecord /\ c.pc = "done" /\ c.ran = 0 /\ c.held = NoTool
        /\ c.shown = turn[t].shown /\ c.name = turn[t].name
    BY <1>1, <1>5 DEF Unregistered, TurnAt, TurnRecord, CallPc, CallIsSound
  <2> HIDE DEF c
  <2>3. CallIsSound(c)
    BY <1>1, <2>2 DEF CallIsSound, NoTool
  <2> QED
    BY <1>2, <2>1, <2>2, <2>3
<1>6. CASE BadArguments(t) \/ Intercept(t)
  BY <1>1, <1>6, ClosesKeeps DEF BadArguments, Intercept, TurnAt, Outcomes
<1>7. CASE StartTool(t)
  <2> DEFINE tool == registry[turn[t].name]
             c == [turn[t] EXCEPT !.pc = "run", !.held = tool]
  <2>1. turn' = [turn EXCEPT ![t] = c] /\ turn[t].pc = "execute" /\ turn[t].name \in Name
    BY <1>1, <1>7 DEF StartTool, TurnAt, Registered
  <2>2. /\ tool \in Tool /\ tool # NoTool /\ (tool = "write" => turn[t].confirmed)
        /\ turn[t].shown \in Own => tool = turn[t].shown
    BY <1>7, <2>1 DEF StartTool, Registered, Intercepted, ToolInv, RegistryInv, ShownStays
  <2> HIDE DEF tool
  <2>3. /\ c \in TurnRecord /\ c.pc = "run" /\ c.held = tool /\ c.ran = 0 /\ c.attempt = 0
        /\ c.rows = <<>> /\ c.confirmed = turn[t].confirmed /\ c.shown = turn[t].shown
        /\ c.name = turn[t].name
    BY <1>1, <2>1, <2>2 DEF TurnRecord, CallPc, CallIsSound
  <2> HIDE DEF c
  <2>4. CallIsSound(c)
    BY <2>1, <2>2, <2>3 DEF CallIsSound
  <2> QED
    BY <1>2, <2>1, <2>3, <2>4
<1>8. CASE Succeed(t) \/ Break(t)
  BY <1>1, <1>8, RanKeeps DEF Succeed, Break, TurnAt
<1>9. CASE Lose(t)
  <2>1. turn[t].pc = "run"
    BY <1>9 DEF Lose, TurnAt
  <2>2. CASE /\ turn[t].attempt < RetriesOf(t)
             /\ turn' = [turn EXCEPT ![t].attempt = @ + 1, ![t].ran = @ + 1]
    <3> DEFINE c == [turn[t] EXCEPT !.attempt = @ + 1, !.ran = @ + 1]
    <3>1. turn' = [turn EXCEPT ![t] = c]
      BY <1>1, <2>2
    <3>2. turn[t].attempt + 1 \in Nat /\ turn[t].ran + 1 \in Nat
      BY <1>1 DEF TurnRecord
    <3>3. turn[t].held # "write" /\ turn[t].held # NoTool
      BY <1>1, <2>1, <2>2 DEF RetriesOf, TurnRecord, CallIsSound
    <3>4. /\ c \in TurnRecord /\ c.pc = "run" /\ c.rows = <<>> /\ c.ran = c.attempt
          /\ c.name = turn[t].name /\ c.held = turn[t].held /\ c.shown = turn[t].shown
      BY <1>1, <2>1, <3>2 DEF TurnRecord, CallIsSound
    <3> HIDE DEF c
    <3>5. CallIsSound(c)
      BY <1>1, <3>3, <3>4 DEF CallIsSound
    <3> QED
      BY <1>2, <3>1, <3>4, <3>5
  <2>3. CASE \E row \in {"timeout", "failed"} : turn' = [Closes(t, row) EXCEPT ![t].ran = @ + 1]
    BY <1>1, <2>1, <2>3, RanKeeps
  <2> QED
    BY <1>9, <2>2, <2>3 DEF Lose
<1>10. CASE Again(t)
  <2> DEFINE c == [NoTurn EXCEPT !.pc = "bind"]
  <2>1. c \in TurnRecord /\ CallIsSound(c)
    BY NoTurnIsSound DEF NoTurn, TurnRecord, CallPc, CallIsSound
  <2> QED
    BY <1>2, <1>10, <2>1, NoTurnIsSound DEF Again
<1>3a. CASE CancelCall(t)
  <2>1. PICK more \in {0, 1} : turn' = [turn EXCEPT ![t].pc = "cancelled", ![t].ran = @ + more]
    BY <1>3a DEF CancelCall
  <2> DEFINE total == turn[t].ran + more
             c == [turn[t] EXCEPT !.pc = "cancelled", !.ran = total]
  <2>2. turn' = [turn EXCEPT ![t] = c] /\ turn[t].pc = "run"
    BY <1>1, <1>3a, <2>1 DEF CancelCall, TurnAt
  <2>3. /\ total \in Nat /\ turn[t].held # NoTool /\ turn[t].rows = <<>>
        /\ turn[t].held = "write" => total <= 1 /\ turn[t].confirmed
    BY <1>1, <2>2 DEF TurnRecord, CallIsSound
  <2> HIDE DEF total
  <2>4. /\ c \in TurnRecord /\ c.pc = "cancelled" /\ c.ran = total /\ c.held = turn[t].held
        /\ c.rows = <<>> /\ c.confirmed = turn[t].confirmed /\ c.shown = turn[t].shown
        /\ c.name = turn[t].name
    BY <1>1, <2>3 DEF TurnRecord, CallPc
  <2> HIDE DEF c
  <2>5. CallIsSound(c)
    BY <1>1, <2>3, <2>4 DEF CallIsSound
  <2> QED
    BY <1>2, <2>2, <2>4, <2>5
<1> QED
  BY <1>3, <1>5, <1>6, <1>7, <1>8, <1>9, <1>10, <1>3a DEF Execute

\* A call is of what was registered when it was made, and stays so.
LEMMA StepKeepsShown == ASSUME ToolInv, ToolNext PROVE ShownStays'
<1>1. OwnStays /\ turn \in [Turn -> TurnRecord] /\ registry \in [Name -> Tool]
  BY RegistryStep DEF ToolInv, CallsInv, RegistryInv
<1>2. \A t \in Turn : CallIsSound(turn[t])
  BY DEF ToolInv, CallsInv
<1>3. ASSUME NEW t \in Turn, turn'[t].shown = turn[t].shown, turn'[t].name = turn[t].name,
             turn'[t].shown \in Own
      PROVE  registry'[turn'[t].name] = turn'[t].shown
  <2>1. turn[t].name \in Name /\ registry[turn[t].name] = turn[t].shown
    BY <1>2, <1>3 DEF CallIsSound, ToolInv, ShownStays
  <2> QED
    BY <1>1, <1>3, <2>1 DEF OwnStays
<1>4. ASSUME NEW t \in Turn, Sync(t) \/ Execute(t), NEW q \in Turn, turn'[q].shown \in Own
      PROVE  registry'[turn'[q].name] = turn'[q].shown
  <2>1. CASE q # t
    <3>1. turn'[q] = turn[q]
      BY <1>1, <1>4, <2>1 DEF Sync, SkipSync, StartSync, Discover, ApplyList, EndSync, Execute,
         CallTool, ConfirmTool, Unregistered, BadArguments, Intercept, StartTool, Succeed, Break,
         Lose, CancelCall, Again, Closes
    <3> QED
      BY <1>3, <1>4, <3>1
  <2>2. CASE q = t
    <3>1. CASE CallTool(t) \/ ConfirmTool(t)
      <4>1. PICK n \in Registered : turn'[t].name = n /\ turn'[t].shown = registry[n]
        BY <1>1, <3>1 DEF CallTool, ConfirmTool, NoTurn
      <4>2. n \in Name /\ UNCHANGED registry
        BY <3>1 DEF Registered, CallTool, ConfirmTool
      <4> QED
        BY <2>2, <4>1, <4>2
    <3>2. CASE StartSync(t) \/ Again(t)
      <4>1. \E c : turn' = [turn EXCEPT ![t] = c] /\ c.shown = NoTool
        <5>1. ASSUME StartSync(t) PROVE [NoTurn EXCEPT !.pc = "discover", !.left = Server].shown = NoTool
          BY DEF NoTurn
        <5>2. NoTurn.shown = NoTool /\ [NoTurn EXCEPT !.pc = "bind"].shown = NoTool
          BY DEF NoTurn
        <5> QED
          BY <3>2, <5>1, <5>2 DEF StartSync, Again
      <4>4. turn'[t].shown = NoTool
        BY <1>1, <4>1
      <4> QED
        BY <1>4, <2>2, <4>4, OwnIsNoServer
    <3>3. CASE \/ SkipSync(t) \/ Discover(t) \/ ApplyList(t) \/ EndSync(t) \/ Unregistered(t)
               \/ StartTool(t) \/ CancelCall(t)
      <4>1. turn'[t].shown = turn[t].shown /\ turn'[t].name = turn[t].name
        BY <1>1, <3>3 DEF SkipSync, Discover, ApplyList, EndSync, Unregistered, StartTool,
           CancelCall, TurnRecord
      <4> QED
        BY <1>3, <1>4, <2>2, <4>1
    <3>4. CASE BadArguments(t) \/ Intercept(t) \/ Succeed(t) \/ Break(t) \/ Lose(t)
      <4>1. turn'[t].shown = turn[t].shown /\ turn'[t].name = turn[t].name
        BY <1>1, <3>4 DEF BadArguments, Intercept, Succeed, Break, Lose, Closes, TurnRecord
      <4> QED
        BY <1>3, <1>4, <2>2, <4>1
    <3> QED
      BY <1>4, <3>1, <3>2, <3>3, <3>4 DEF Sync, Execute
  <2> QED
    BY <2>1, <2>2
<1>5. CASE LoadPlugin \/ RegisterDebug \/ TtlEnds \/ ServerChanges
  <2>1. UNCHANGED turn
    BY <1>5 DEF LoadPlugin, RegisterDebug, TtlEnds, ServerChanges
  <2> QED
    BY <1>3, <2>1 DEF ShownStays
<1> QED
  BY <1>4, <1>5 DEF ToolNext, ShownStays

LEMMA ToolInvIsInductive == ASSUME ToolInv, [ToolNext]_toolVars PROVE ToolInv'
<1>1. CASE LoadPlugin \/ RegisterDebug \/ TtlEnds \/ ServerChanges
  <2>1. UNCHANGED <<turn, audited>>
    BY <1>1 DEF LoadPlugin, RegisterDebug, TtlEnds, ServerChanges
  <2>2. CallsInv'
    BY <2>1 DEF ToolInv, CallsInv, CallIsSound
  <2> QED
    BY <1>1, <2>2, RegistryStep, StepKeepsShown DEF ToolNext, ToolInv
<1>2. CASE \E t \in Turn : Sync(t) \/ Execute(t)
  BY <1>2, RegistryStep, StepKeepsShown, SyncKeepsCalls, ExecuteKeepsCalls DEF ToolNext, ToolInv
<1>3. CASE UNCHANGED toolVars
  BY <1>3 DEF toolVars, ToolInv, RegistryInv, CallsInv, CallIsSound, ShownStays
<1> QED
  BY <1>1, <1>2, <1>3 DEF ToolNext

\* The application's own tools stay its own whatever the servers call theirs, from
\* the moment a call is made, a write is executed on a confirmation and once,
\* cancelled or not, and what came back to its turn is on record, for any turns,
\* tools, plugins, servers and retries (mcp_client.py:54-70, engine.py:93-156).
THEOREM WritesStayGuarded == ToolSpec => []WritesAreGuarded
<1>1. ToolInit => ToolInv
  <2> SUFFICES ASSUME ToolInit PROVE ToolInv
    OBVIOUS
  <2>1. RegistryInv
    BY ToolAssumption DEF ToolInit, RegistryInv, Tool
  <2>2. CallsInv
    BY NoTurnIsSound DEF ToolInit, CallsInv
  <2>3. ShownStays
    BY OwnIsNoServer DEF ToolInit, ShownStays, NoTurn
  <2> QED
    BY <2>1, <2>2, <2>3 DEF ToolInv
<1>2. ToolInv => WritesAreGuarded
  <2> SUFFICES ASSUME ToolInv PROVE WritesAreGuarded
    OBVIOUS
  <2>1. \A t \in Turn : turn[t] \in TurnRecord /\ CallIsSound(turn[t])
    BY DEF ToolInv, CallsInv
  <2>2. WritesRunOnce
    BY <2>1 DEF WritesRunOnce, CallIsSound, TurnRecord, Own
  <2>3. CallIsAudited
    BY <2>1 DEF CallIsAudited, CallIsSound
  <2>4. OwnToolsStay
    BY DEF ToolInv, RegistryInv, ShownStays, OwnToolsStay
  <2> QED
    BY <2>2, <2>3, <2>4 DEF WritesAreGuarded
<1> QED
  BY <1>1, <1>2, ToolInvIsInductive, PTL DEF ToolSpec

-----------------------------------------------------------------------------
(* The ways into a conversation.                                           *)

OldRow == UNION {Range(rows) : rows \in Earlier}
NewRow == [of : Inquiry, part : {"question", "reply"}, by : {"run", "graph"},
           attempt : Nat, names : SUBSET OrderId]
Rows == OldRow \cup NewRow
RequestPc == {"idle", "judge", "reserve", "run", "interrupted", "graph", "done"}
RequestRecord == [pc : RequestPc, way : {"none", "chat", "multi", "adaptive"},
                  question : Question \cup {NoQuestion}, given : SUBSET OrderId,
                  routed : SUBSET OrderId, arm : {"none", "single", "multi"},
                  seen : SUBSET OrderId, error : {"none", "failed", "refused", "lost"},
                  attempt : Nat, alive : SUBSET Nat, logged : SUBSET Nat]

RoutingTypeInv ==
  /\ dialogue \in Seq(Rows)
  /\ inquiry \in [Inquiry -> RequestRecord]

\* Two orders are behind every decision for the agents: those of the question and
\* those that the conversation names, now or when the executor read it.
TwoOrders(req, known) ==
  req.way = "adaptive" /\ req.given = {} => Cardinality(req.question.names \cup known) >= 2

JudgedOnTwo == \A r \in Inquiry : inquiry[r].pc = "judge" => TwoOrders(inquiry[r], NamedIn(dialogue))

\* What a request has begun and stored agrees with how far it is.
RequestIsSound(req) ==
  /\ req.arm = "multi" => TwoOrders(req, req.seen)
  /\ req.pc \in {"reserve", "run", "interrupted"} => req.arm = "single"
  /\ req.pc = "graph" => req.arm = "multi"
  /\ req.pc \in {"idle", "judge", "reserve", "graph"} => req.attempt = 0
  /\ \A a \in req.alive \cup req.logged : a \in 1 .. req.attempt
  /\ \A a \in req.alive : req.arm = "single"
  /\ req.pc = "done" =>
       /\ req.error = "none" => req.logged # {}
       /\ req.error = "refused" => req.attempt = 0
       /\ req.error = "failed" /\ req.arm # "single" => req.attempt = 0

Executor(arm) == IF arm = "single" THEN "run" ELSE "graph"

\* The rows of a request are those of the attempts that have stored their turn.
RowsAreLogged ==
  \A r \in Inquiry :
    /\ \A i \in RowsOf(r) :
         dialogue[i].by = Executor(inquiry[r].arm) /\ dialogue[i].attempt \in inquiry[r].logged
    /\ \A a \in inquiry[r].logged : RowsOf(r) # {}

StoredOncePer ==
  \A r \in Inquiry : \A i, j \in RowsOf(r) :
    dialogue[i].part = dialogue[j].part /\ dialogue[i].attempt = dialogue[j].attempt => i = j

RoutingInv ==
  /\ RoutingTypeInv
  /\ JudgedOnTwo
  /\ \A r \in Inquiry : RequestIsSound(inquiry[r])
  /\ RowsAreLogged
  /\ StoredOncePer
  /\ RepliesFollow

LEMMA RowsHaveOrders ==
  ASSUME NEW row \in Rows PROVE row.names \subseteq OrderId
<1>1. ASSUME NEW rows \in Earlier, row \in Range(rows)
      PROVE  row.names \subseteq OrderId
  BY <1>1, RoutingAssumption DEF Range
<1>2. CASE row \in NewRow
  BY <1>2 DEF NewRow
<1>3. CASE row \in OldRow
  <2>1. PICK rows \in Earlier : row \in Range(rows)
    BY <1>3 DEF OldRow
  <2> QED
    BY <1>1, <2>1
<1> QED
  BY <1>2, <1>3 DEF Rows

LEMMA NamedType ==
  ASSUME NEW rows \in Seq(Rows) PROVE NamedIn(rows) \in SUBSET OrderId
<1>1. \A row \in Range(rows) : row \in Rows
  BY DEF Range
<1> QED
  BY <1>1, RowsHaveOrders DEF NamedIn

LEMMA LastOfIsNamed ==
  ASSUME NEW rows \in Seq(Rows), NEW n \in Nat
  PROVE  NamedIn(LastOf(rows, n)) \subseteq NamedIn(rows)
<1> DEFINE from == Max({1, Len(rows) - n + 1})
<1>1. from \in {1, Len(rows) - n + 1} /\ from >= 1 /\ from \in Nat
  <2> DEFINE m == Len(rows) - n + 1
  <2>1. m \in Int /\ (1 >= m \/ m >= 1)
    OBVIOUS
  <2> HIDE DEF m
  <2>2. \E x \in {1, m} : \A y \in {1, m} : x >= y
    BY <2>1
  <2>3. Max({1, m}) \in {1, m} /\ \A y \in {1, m} : Max({1, m}) >= y
    BY <2>2 DEF Max
  <2> QED
    BY <2>1, <2>3 DEF m
<1> HIDE DEF from
<1>2. ASSUME NEW i \in DOMAIN SubSeq(rows, from, Len(rows))
      PROVE  \E k \in DOMAIN rows : rows[k] = SubSeq(rows, from, Len(rows))[i]
  <2>1. from + i - 1 \in DOMAIN rows /\ SubSeq(rows, from, Len(rows))[i] = rows[from + i - 1]
    BY <1>1
  <2> QED
    BY <2>1
<1>3. Range(LastOf(rows, n)) \subseteq Range(rows)
  BY <1>2 DEF LastOf, from, Range
<1> QED
  BY <1>3 DEF NamedIn

LEMMA CountGrows ==
  ASSUME NEW N \in SUBSET OrderId, NEW K \in SUBSET OrderId, NEW L \in SUBSET OrderId,
         K \subseteq L, Cardinality(N \cup K) >= 2
  PROVE  Cardinality(N \cup L) >= 2
<1>1. IsFiniteSet(N \cup L) /\ N \cup K \subseteq N \cup L
  BY FS_Subset, RoutingAssumption
<1>2. Cardinality(N \cup K) <= Cardinality(N \cup L) /\ IsFiniteSet(N \cup K)
  BY <1>1, FS_Subset
<1>3. Cardinality(N \cup K) \in Nat /\ Cardinality(N \cup L) \in Nat
  BY <1>1, <1>2, FS_CardinalityType
<1> QED
  BY <1>2, <1>3

LEMMA NoRequestIsSound == NoRequest \in RequestRecord /\ RequestIsSound(NoRequest)
  BY DEF NoRequest, RequestRecord, RequestPc, RequestIsSound

\* A request moves without anything being said.
LEMMA RequestKeeps ==
  ASSUME RoutingInv, NEW r \in Inquiry, NEW req \in RequestRecord, RequestIsSound(req),
         inquiry' = [inquiry EXCEPT ![r] = req], UNCHANGED dialogue,
         req.pc = "judge" => TwoOrders(req, NamedIn(dialogue)),
         req.logged = inquiry[r].logged, req.logged # {} => req.arm = inquiry[r].arm
  PROVE  RoutingInv'
<1>1. inquiry \in [Inquiry -> RequestRecord] /\ inquiry' \in [Inquiry -> RequestRecord]
  BY DEF RoutingInv, RoutingTypeInv
<1>2. inquiry'[r] = req /\ \A q \in Inquiry \ {r} : inquiry'[q] = inquiry[q]
  BY <1>1
<1>3. RoutingTypeInv' /\ \A q \in Inquiry : RequestIsSound(inquiry'[q])
  BY <1>1, <1>2 DEF RoutingInv, RoutingTypeInv
<1>4. JudgedOnTwo'
  BY <1>2 DEF RoutingInv, JudgedOnTwo, TwoOrders, NamedIn
<1>5. \A q \in Inquiry : RowsOf(q)' = RowsOf(q)
  BY DEF RowsOf
<1>6. \A q \in Inquiry : inquiry'[q].logged = inquiry[q].logged
  BY <1>1, <1>2
<1>7. \A q \in Inquiry : inquiry[q].logged # {} => inquiry'[q].arm = inquiry[q].arm
  BY <1>1, <1>2
<1>8. RowsAreLogged'
  BY <1>5, <1>6, <1>7 DEF RoutingInv, RowsAreLogged
<1>9. StoredOncePer' /\ RepliesFollow'
  BY <1>5 DEF RoutingInv, StoredOncePer, RepliesFollow
<1> QED
  BY <1>3, <1>4, <1>8, <1>9 DEF RoutingInv, RequestIsSound, TwoOrders

\* What is stored comes last, and the rows before it stay where they are.
LEMMA StoredRows ==
  ASSUME RoutingTypeInv, NEW r \in Inquiry, NEW by \in {"run", "graph"}, NEW a \in Nat,
         StoreQuestion(r, by, a) \/ StoreTurn(r, by, a)
  PROVE  LET n == Len(dialogue)
             m == Len(dialogue')
         IN  /\ dialogue' \in Seq(Rows) /\ n \in Nat /\ m \in {n + 1, n + 2}
             /\ DOMAIN dialogue = 1 .. n /\ DOMAIN dialogue' = 1 .. m
             /\ \A i \in 1 .. n : dialogue'[i] = dialogue[i]
             /\ \A i \in (n + 1) .. m :
                  dialogue'[i].of = r /\ dialogue'[i].by = by /\ dialogue'[i].attempt = a
             /\ dialogue'[n + 1].part = "question"
             /\ m = n + 2 => dialogue'[n + 2].part = "reply"
             /\ StoreTurn(r, by, a) => m = n + 2
<1> DEFINE n == Len(dialogue)
           asks == QuestionOf(r, by, a)
<1>1. inquiry[r].question.names \in SUBSET OrderId
  <2>1. inquiry[r].question \in Question \cup {NoQuestion}
    BY DEF RoutingTypeInv, RequestRecord
  <2> QED
    BY <2>1, RoutingAssumption DEF NoQuestion
<1>2. /\ asks \in Rows /\ asks.of = r /\ asks.by = by /\ asks.attempt = a
      /\ asks.part = "question"
  BY <1>1 DEF QuestionOf, Rows, NewRow
<1>3. dialogue \in Seq(Rows) /\ n \in Nat /\ DOMAIN dialogue = 1 .. n
  BY DEF RoutingTypeInv
<1>4. CASE StoreTurn(r, by, a)
  <2>1. PICK named \in Naming : dialogue' = dialogue \o <<asks, ReplyOf(r, by, a, named)>>
    BY <1>4 DEF StoreTurn
  <2> DEFINE says == ReplyOf(r, by, a, named)
  <2>2. /\ says \in Rows /\ says.of = r /\ says.by = by /\ says.attempt = a
        /\ says.part = "reply"
    BY RoutingAssumption DEF ReplyOf, Rows, NewRow
  <2> HIDE DEF asks, says
  <2>3. /\ dialogue' \in Seq(Rows) /\ Len(dialogue') = n + 2 /\ DOMAIN dialogue' = 1 .. (n + 2)
        /\ dialogue'[n + 1] = asks /\ dialogue'[n + 2] = says
        /\ \A i \in 1 .. n : dialogue'[i] = dialogue[i]
    BY <1>2, <1>3, <2>1, <2>2 DEF says
  <2>4. \A i \in (n + 1) .. (n + 2) : i = n + 1 \/ i = n + 2
    BY <1>3
  <2> QED
    BY <1>2, <1>3, <2>2, <2>3, <2>4
<1>5. CASE ~StoreTurn(r, by, a)
  <2>1. dialogue' = Append(dialogue, asks)
    BY <1>5 DEF StoreQuestion
  <2> HIDE DEF asks
  <2>2. /\ dialogue' \in Seq(Rows) /\ Len(dialogue') = n + 1 /\ DOMAIN dialogue' = 1 .. (n + 1)
        /\ dialogue'[n + 1] = asks /\ \A i \in 1 .. n : dialogue'[i] = dialogue[i]
    BY <1>2, <1>3, <2>1
  <2>3. \A i \in (n + 1) .. (n + 1) : i = n + 1
    BY <1>3
  <2> QED
    BY <1>2, <1>3, <1>5, <2>2, <2>3
<1> QED
  BY <1>4, <1>5

\* An attempt stores its turn: the question alone only in a run.
LEMMA StoreKeeps ==
  ASSUME RoutingInv, NEW r \in Inquiry, NEW a \in Nat, a \notin inquiry[r].logged,
         NEW by \in {"run", "graph"}, by = Executor(inquiry[r].arm),
         StoreTurn(r, by, a) \/ (by = "run" /\ StoreQuestion(r, by, a)),
         NEW req \in RequestRecord, RequestIsSound(req), req.pc # "judge",
         inquiry' = [inquiry EXCEPT ![r] = req],
         req.logged = inquiry[r].logged \cup {a}, req.arm = inquiry[r].arm
  PROVE  RoutingInv'
<1> DEFINE n == Len(dialogue)
           m == Len(dialogue')
<1>1. /\ inquiry \in [Inquiry -> RequestRecord] /\ inquiry' \in [Inquiry -> RequestRecord]
      /\ RoutingTypeInv /\ dialogue \in Seq(Rows)
  BY DEF RoutingInv, RoutingTypeInv
<1>2. inquiry'[r] = req /\ \A q \in Inquiry \ {r} : inquiry'[q] = inquiry[q]
  BY <1>1
<1>3. /\ dialogue' \in Seq(Rows) /\ n \in Nat /\ m \in {n + 1, n + 2}
      /\ DOMAIN dialogue = 1 .. n /\ DOMAIN dialogue' = 1 .. m
      /\ \A i \in 1 .. n : dialogue'[i] = dialogue[i]
      /\ \A i \in (n + 1) .. m :
           dialogue'[i].of = r /\ dialogue'[i].by = by /\ dialogue'[i].attempt = a
      /\ dialogue'[n + 1].part = "question"
      /\ m = n + 2 => dialogue'[n + 2].part = "reply"
      /\ StoreTurn(r, by, a) => m = n + 2
  BY <1>1, StoredRows
<1> HIDE DEF n, m
<1>4. \A q \in Inquiry \ {r} : RowsOf(q)' = RowsOf(q) /\ RowsOf(q) \subseteq 1 .. n
  BY <1>3 DEF RowsOf
<1>5. RowsOf(r)' = RowsOf(r) \cup (n + 1) .. m /\ RowsOf(r) \subseteq 1 .. n
  BY <1>3 DEF RowsOf
<1>6. RoutingTypeInv' /\ \A q \in Inquiry : RequestIsSound(inquiry'[q])
  BY <1>1, <1>2, <1>3 DEF RoutingInv, RoutingTypeInv
<1>7. JudgedOnTwo'
  <2>1. NamedIn(dialogue) \subseteq NamedIn(dialogue')
    BY <1>3 DEF NamedIn, Range
  <2>2. ASSUME NEW q \in Inquiry, inquiry'[q].pc = "judge"
        PROVE  TwoOrders(inquiry'[q], NamedIn(dialogue'))
    <3>1. inquiry'[q] = inquiry[q] /\ inquiry[q].pc = "judge"
      BY <1>2, <2>2
    <3>2. inquiry[q] \in RequestRecord /\ TwoOrders(inquiry[q], NamedIn(dialogue))
      BY <1>1, <3>1 DEF RoutingInv, JudgedOnTwo
    <3>3. /\ inquiry[q].question.names \in SUBSET OrderId
          /\ NamedIn(dialogue) \in SUBSET OrderId /\ NamedIn(dialogue') \in SUBSET OrderId
      <4>1. inquiry[q].question \in Question \cup {NoQuestion}
        BY <3>2 DEF RequestRecord
      <4> QED
        BY <1>1, <1>3, <4>1, NamedType, RoutingAssumption DEF NoQuestion
    <3> QED
      BY <2>1, <3>1, <3>2, <3>3, CountGrows DEF TwoOrders
  <2> QED
    BY <2>2 DEF JudgedOnTwo, TwoOrders, NamedIn
<1>8. RowsAreLogged'
  <2>1. ASSUME NEW q \in Inquiry \ {r}
        PROVE  /\ \A i \in RowsOf(q)' : /\ dialogue'[i].by = Executor(inquiry'[q].arm)
                                        /\ dialogue'[i].attempt \in inquiry'[q].logged
               /\ \A b \in inquiry'[q].logged : RowsOf(q)' # {}
    BY <1>2, <1>3, <1>4 DEF RoutingInv, RowsAreLogged
  <2>2. \A i \in RowsOf(r) : /\ dialogue'[i].by = Executor(req.arm)
                             /\ dialogue'[i].attempt \in req.logged
    BY <1>3, <1>5 DEF RoutingInv, RowsAreLogged
  <2>3. \A i \in (n + 1) .. m : /\ dialogue'[i].by = Executor(req.arm)
                                /\ dialogue'[i].attempt \in req.logged
    BY <1>3
  <2>4. RowsOf(r)' # {}
    BY <1>3, <1>5
  <2> QED
    BY <1>2, <1>5, <2>1, <2>2, <2>3, <2>4 DEF RowsAreLogged
<1>9. StoredOncePer'
  <2>1. ASSUME NEW q \in Inquiry \ {r}, NEW i \in RowsOf(q)', NEW j \in RowsOf(q)',
               dialogue'[i].part = dialogue'[j].part,
               dialogue'[i].attempt = dialogue'[j].attempt
        PROVE  i = j
    BY <1>3, <1>4, <2>1 DEF RoutingInv, StoredOncePer
  <2>2. ASSUME NEW i \in RowsOf(r)', NEW j \in RowsOf(r)',
               dialogue'[i].part = dialogue'[j].part,
               dialogue'[i].attempt = dialogue'[j].attempt
        PROVE  i = j
    <3>1. \A k \in RowsOf(r) : dialogue'[k] = dialogue[k] /\ dialogue[k].attempt # a
      BY <1>3, <1>5 DEF RoutingInv, RowsAreLogged
    <3>2. CASE i \in RowsOf(r) /\ j \in RowsOf(r)
      BY <2>2, <3>1, <3>2 DEF RoutingInv, StoredOncePer
    <3>3. CASE i \in (n + 1) .. m /\ j \in (n + 1) .. m
      <4>1. (i = n + 1 \/ (i = n + 2 /\ m = n + 2)) /\ (j = n + 1 \/ (j = n + 2 /\ m = n + 2))
        BY <1>3, <3>3
      <4> QED
        BY <1>3, <2>2, <4>1
    <3>4. CASE (i \in RowsOf(r)) # (j \in RowsOf(r))
      BY <1>3, <1>5, <2>2, <3>1, <3>4
    <3> QED
      BY <1>5, <3>2, <3>3, <3>4
  <2> QED
    BY <2>1, <2>2 DEF StoredOncePer
<1>10. RepliesFollow'
  <2>1. ASSUME NEW q \in Inquiry, NEW i \in RowsOf(q)
        PROVE  /\ dialogue'[i].part = "reply" => i > 1 /\ Together(dialogue'[i - 1], dialogue'[i])
               /\ dialogue'[i].part = "question" /\ dialogue'[i].by = "graph" =>
                    i < m /\ Together(dialogue'[i], dialogue'[i + 1])
    <3>1. i \in 1 .. n /\ dialogue'[i] = dialogue[i]
      BY <1>3, <1>4, <1>5
    <3>2. i > 1 => dialogue'[i - 1] = dialogue[i - 1]
      BY <1>3, <3>1
    <3>3. i < n => dialogue'[i + 1] = dialogue[i + 1]
      BY <1>3, <3>1
    <3>4. i < n => i < m
      BY <1>3, <3>1
    <3> QED
      BY <3>1, <3>2, <3>3, <3>4 DEF RoutingInv, RepliesFollow, n
  <2>2. ASSUME NEW i \in (n + 1) .. m
        PROVE  /\ dialogue'[i].part = "reply" => i > 1 /\ Together(dialogue'[i - 1], dialogue'[i])
               /\ dialogue'[i].part = "question" /\ dialogue'[i].by = "graph" =>
                    i < m /\ Together(dialogue'[i], dialogue'[i + 1])
    <3>1. CASE m = n + 2
      <4>1. /\ n + 1 \in (n + 1) .. m /\ n + 2 \in (n + 1) .. m /\ i \in {n + 1, n + 2}
            /\ (n + 1) + 1 = n + 2 /\ (n + 2) - 1 = n + 1 /\ n + 2 > 1 /\ n + 1 < m
        BY <1>3, <3>1
      <4>2. Together(dialogue'[n + 1], dialogue'[n + 2])
        BY <1>3, <3>1, <4>1 DEF Together
      <4> QED
        BY <1>3, <3>1, <4>1, <4>2
    <3>2. CASE m # n + 2
      <4>1. i = n + 1 /\ by = "run" /\ n + 1 \in (n + 1) .. m
        BY <1>3, <3>2
      <4> QED
        BY <1>3, <4>1
    <3> QED
      BY <3>1, <3>2
  <2> QED
    BY <1>4, <1>5, <2>1, <2>2 DEF RepliesFollow, m
<1> QED
  BY <1>6, <1>7, <1>8, <1>9, <1>10 DEF RoutingInv, RequestIsSound, TwoOrders

\* What the executors are started with.
LEMMA StartedIsSound ==
  ASSUME RoutingTypeInv, NEW req \in RequestRecord, RequestIsSound(req), req.attempt = 0,
         NEW arm \in {"single", "multi"}, arm = "multi" => TwoOrders(req, NamedIn(dialogue))
  PROVE  /\ Started(req, arm) \in RequestRecord /\ RequestIsSound(Started(req, arm))
         /\ Started(req, arm).pc \notin {"judge", "done"}
         /\ Started(req, arm).logged = {} /\ req.logged = {}
<1>1. NamedIn(dialogue) \in SUBSET OrderId
  BY NamedType DEF RoutingTypeInv
<1> DEFINE pc == IF arm = "single" THEN "reserve" ELSE "graph"
           started == Started(req, arm)
<1>2. /\ pc \in RequestPc /\ pc \in {"reserve", "graph"} /\ (pc = "graph" <=> arm = "multi")
      /\ arm = "multi" \/ arm = "single"
  BY DEF RequestPc
<1>3. started = [req EXCEPT !.arm = arm, !.seen = NamedIn(dialogue), !.pc = pc]
  BY DEF Started
<1> HIDE DEF pc, started
<1>4. /\ started \in RequestRecord /\ started.pc = pc /\ started.arm = arm
      /\ started.seen = NamedIn(dialogue) /\ started.way = req.way
      /\ started.given = req.given /\ started.question = req.question
      /\ started.attempt = req.attempt /\ started.alive = req.alive
      /\ started.logged = req.logged
  BY <1>1, <1>2, <1>3 DEF RequestRecord
<1>5. req.alive = {} /\ req.logged = {}
  BY DEF RequestIsSound
<1>6. RequestIsSound(started)
  BY <1>2, <1>4, <1>5 DEF RequestIsSound, TwoOrders
<1> QED
  BY <1>2, <1>4, <1>5, <1>6 DEF started

LEMMA AskKeeps == ASSUME RoutingInv, NEW r \in Inquiry, Ask(r) PROVE RoutingInv'
<1>1. /\ inquiry[r].pc = "idle" /\ UNCHANGED dialogue /\ RoutingTypeInv
      /\ dialogue \in Seq(Rows) /\ inquiry[r].logged = {}
  <2>1. inquiry[r] \in RequestRecord /\ RequestIsSound(inquiry[r])
    BY DEF RoutingInv, RoutingTypeInv
  <2> QED
    BY <2>1 DEF Ask, RoutingInv, RoutingTypeInv, RequestIsSound
<1> DEFINE Asked(way, q) == [NoRequest EXCEPT !.way = way, !.question = q]
<1>2. ASSUME NEW req \in RequestRecord, RequestIsSound(req), req.attempt = 0,
             NEW arm \in {"single", "multi"}, arm = "multi" => TwoOrders(req, NamedIn(dialogue)),
             inquiry' = [inquiry EXCEPT ![r] = Started(req, arm)]
      PROVE  RoutingInv'
  <2>1. /\ Started(req, arm) \in RequestRecord /\ RequestIsSound(Started(req, arm))
        /\ Started(req, arm).pc # "judge" /\ Started(req, arm).logged = {}
    BY <1>1, <1>2, StartedIsSound
  <2> QED
    BY <1>1, <1>2, <2>1, RequestKeeps
<1>3. ASSUME NEW q \in Question, NEW way \in {"chat", "multi"},
             NEW arm \in {"single", "multi"},
             inquiry' = [inquiry EXCEPT ![r] = Started(Asked(way, q), arm)]
      PROVE  RoutingInv'
  <2>1. /\ Asked(way, q) \in RequestRecord /\ Asked(way, q).way # "adaptive"
        /\ RequestIsSound(Asked(way, q)) /\ Asked(way, q).attempt = 0
    BY NoRequestIsSound DEF NoRequest, RequestRecord, RequestIsSound
  <2> HIDE DEF Asked
  <2> QED
    BY <1>2, <1>3, <2>1 DEF TwoOrders
<1>4. ASSUME NEW q \in Question, NEW given \in Naming, AskAdaptive(r, q, given)
      PROVE  RoutingInv'
  <2> DEFINE routed == IF dialogue = <<>> THEN given ELSE NamedIn(LastOf(dialogue, Visible))
             told == IF dialogue = <<>> THEN given ELSE {}
             req == [NoRequest EXCEPT !.way = "adaptive", !.question = q, !.routed = routed,
                                      !.given = told]
             waiting == [req EXCEPT !.pc = "judge"]
  <2>1. inquiry' = [inquiry EXCEPT ![r] =
          IF judged /\ NeedsJudge(q, routed) THEN waiting ELSE Started(req, RuleArm(q, routed))]
    BY <1>4 DEF AskAdaptive
  <2>2. /\ routed \in SUBSET OrderId /\ told \in SUBSET OrderId
        /\ told = {} => routed \subseteq NamedIn(dialogue)
    BY <1>1, LastOfIsNamed, NamedType, RoutingAssumption
  <2> HIDE DEF routed, told
  <2>3. /\ req \in RequestRecord /\ req.question = q /\ req.given = told
        /\ req.pc = "idle" /\ req.arm = "none" /\ req.attempt = 0
        /\ req.alive = {} /\ req.logged = {}
    BY <2>2, NoRequestIsSound DEF NoRequest, RequestRecord
  <2> HIDE DEF req
  <2>4. Entities(q, routed) >= 2 => TwoOrders(req, NamedIn(dialogue))
    <3>1. q.names \in SUBSET OrderId /\ NamedIn(dialogue) \in SUBSET OrderId
      BY <1>1, NamedType, RoutingAssumption
    <3> QED
      BY <2>2, <2>3, <3>1, CountGrows DEF Entities, TwoOrders
  <2>5. CASE judged /\ NeedsJudge(q, routed)
    <3>1. TwoOrders(req, NamedIn(dialogue))
      BY <2>4, <2>5 DEF NeedsJudge
    <3>2. /\ waiting \in RequestRecord /\ waiting.pc = "judge" /\ waiting.arm = "none"
          /\ waiting.way = req.way /\ waiting.given = req.given
          /\ waiting.question = req.question /\ waiting.attempt = 0
          /\ waiting.alive = {} /\ waiting.logged = {}
      BY <2>3 DEF RequestRecord, RequestPc
    <3> HIDE DEF waiting
    <3>3. RequestIsSound(waiting) /\ TwoOrders(waiting, NamedIn(dialogue))
      BY <3>1, <3>2 DEF RequestIsSound, TwoOrders
    <3> QED
      BY <1>1, <2>1, <2>5, <3>2, <3>3, RequestKeeps
  <2>6. CASE ~(judged /\ NeedsJudge(q, routed))
    <3>1. /\ RuleArm(q, routed) \in {"single", "multi"}
          /\ RuleArm(q, routed) = "multi" => Entities(q, routed) >= 2
      BY DEF RuleArm
    <3>2. RequestIsSound(req)
      BY <2>3 DEF RequestIsSound
    <3> QED
      BY <1>2, <2>1, <2>3, <2>4, <2>6, <3>1, <3>2
  <2> QED
    BY <2>5, <2>6
<1> QED
  BY <1>3, <1>4 DEF Ask, AskChat, AskMulti

LEMMA JudgeKeeps == ASSUME RoutingInv, NEW r \in Inquiry, Judge(r) PROVE RoutingInv'
<1>1. /\ inquiry[r].pc = "judge" /\ UNCHANGED dialogue /\ RoutingTypeInv
      /\ inquiry[r] \in RequestRecord /\ RequestIsSound(inquiry[r])
  BY DEF Judge, RoutingInv, RoutingTypeInv
<1>2. TwoOrders(inquiry[r], NamedIn(dialogue)) /\ inquiry[r].attempt = 0
  BY <1>1 DEF RoutingInv, JudgedOnTwo, RequestIsSound
<1>3. PICK arm \in {"single", "multi"} : inquiry' = [inquiry EXCEPT ![r] = Started(inquiry[r], arm)]
  BY DEF Judge, RuleArm
<1>4. /\ Started(inquiry[r], arm) \in RequestRecord /\ RequestIsSound(Started(inquiry[r], arm))
      /\ Started(inquiry[r], arm).pc # "judge"
      /\ Started(inquiry[r], arm).logged = {} /\ inquiry[r].logged = {}
  BY <1>1, <1>2, StartedIsSound
<1> QED
  BY <1>1, <1>3, <1>4, RequestKeeps

\* An attempt is begun: the first, or a further one.
LEMMA BegunKeeps ==
  ASSUME RoutingInv, NEW r \in Inquiry, inquiry[r].pc \in {"reserve", "interrupted"},
         inquiry' = [inquiry EXCEPT ![r] = Begun(@)], UNCHANGED dialogue
  PROVE  RoutingInv'
<1>1. /\ inquiry \in [Inquiry -> RequestRecord] /\ inquiry[r] \in RequestRecord
      /\ RequestIsSound(inquiry[r])
  BY DEF RoutingInv, RoutingTypeInv
<1> DEFINE req == Begun(inquiry[r])
           k == inquiry[r].attempt + 1
<1>2. inquiry' = [inquiry EXCEPT ![r] = req] /\ k \in Nat
  BY <1>1 DEF RequestRecord
<1>3. req = [inquiry[r] EXCEPT !.pc = "run", !.attempt = k, !.alive = inquiry[r].alive \cup {k}]
  BY <1>1 DEF Begun, RequestRecord
<1> HIDE DEF req
<1>4. /\ req \in RequestRecord /\ req.pc = "run" /\ req.attempt = k
      /\ req.alive = inquiry[r].alive \cup {k} /\ req.logged = inquiry[r].logged
      /\ req.arm = inquiry[r].arm /\ inquiry[r].arm = "single"
  BY <1>1, <1>2, <1>3 DEF RequestRecord, RequestPc, RequestIsSound
<1>5. \A a \in req.alive \cup req.logged : a \in 1 .. req.attempt
  <2>1. inquiry[r].attempt \in Nat /\ k = inquiry[r].attempt + 1
    BY <1>1 DEF RequestRecord
  <2>2. \A a \in inquiry[r].alive \cup inquiry[r].logged : a \in 1 .. inquiry[r].attempt
    BY <1>1 DEF RequestIsSound
  <2>3. \A a \in 1 .. inquiry[r].attempt : a \in 1 .. k
    BY <2>1
  <2>4. k \in 1 .. k
    BY <2>1
  <2> QED
    BY <1>4, <2>2, <2>3, <2>4
<1>6. RequestIsSound(req)
  BY <1>4, <1>5 DEF RequestIsSound
<1> QED
  BY <1>2, <1>4, <1>6, RequestKeeps

\* A run or a request moves, or ends, and nothing is begun or stored by it.
LEMMA MoveKeeps ==
  ASSUME RoutingInv, NEW r \in Inquiry, NEW pc \in {"done", "interrupted"},
         NEW error \in {"none", "failed", "refused"}, NEW alive \in SUBSET inquiry[r].alive,
         inquiry' = [inquiry EXCEPT ![r].pc = pc, ![r].error = error, ![r].alive = alive],
         UNCHANGED dialogue,
         pc = "interrupted" => inquiry[r].pc = "run",
         pc = "done" /\ error = "none" => inquiry[r].logged # {},
         pc = "done" /\ error = "refused" => inquiry[r].attempt = 0,
         pc = "done" /\ error = "failed" => inquiry[r].arm = "single" \/ inquiry[r].attempt = 0
  PROVE  RoutingInv'
<1>1. /\ inquiry \in [Inquiry -> RequestRecord] /\ inquiry[r] \in RequestRecord
      /\ RequestIsSound(inquiry[r])
  BY DEF RoutingInv, RoutingTypeInv
<1> DEFINE req == [inquiry[r] EXCEPT !.pc = pc, !.error = error, !.alive = alive]
<1>2. inquiry' = [inquiry EXCEPT ![r] = req]
  BY <1>1
<1>3. /\ req \in RequestRecord /\ req.pc = pc /\ req.error = error /\ req.alive = alive
      /\ req.attempt = inquiry[r].attempt /\ req.logged = inquiry[r].logged
      /\ req.arm = inquiry[r].arm /\ req.way = inquiry[r].way /\ req.given = inquiry[r].given
      /\ req.question = inquiry[r].question /\ req.seen = inquiry[r].seen
  BY <1>1 DEF RequestRecord, RequestPc
<1> HIDE DEF req
<1>4. RequestIsSound(req)
  BY <1>1, <1>3 DEF RequestIsSound, TwoOrders
<1> QED
  BY <1>2, <1>3, <1>4, RequestKeeps

\* One step of a request that has been asked, without what it stores.
LEMMA StepKeeps ==
  ASSUME RoutingInv, NEW r \in Inquiry,
         JudgeFails(r) \/ Reserve(r) \/ Lapse(r) \/ Resume(r) \/ EndRun(r)
  PROVE  RoutingInv'
<1>1. /\ inquiry \in [Inquiry -> RequestRecord] /\ inquiry[r] \in RequestRecord
      /\ RequestIsSound(inquiry[r])
  BY DEF RoutingInv, RoutingTypeInv
<1>2. ASSUME NEW error \in {"failed", "refused"}, Ends(r, error), UNCHANGED dialogue,
             inquiry[r].attempt = 0
      PROVE  RoutingInv'
  <2>1. inquiry' = [inquiry EXCEPT ![r].pc = "done", ![r].error = error,
                                   ![r].alive = inquiry[r].alive]
    BY <1>1, <1>2 DEF Ends, RequestRecord
  <2> QED
    BY <1>2, <2>1, MoveKeeps
<1>3. CASE JudgeFails(r) \/ Reserve(r)
  <2>1. inquiry[r].pc \in {"judge", "reserve"} /\ inquiry[r].attempt = 0
    BY <1>1, <1>3 DEF JudgeFails, Reserve, RequestIsSound
  <2> QED
    BY <1>2, <1>3, <2>1, BegunKeeps DEF JudgeFails, Reserve
<1>4. CASE Lapse(r)
  <2>1. inquiry[r].error \in {"none", "failed", "refused", "lost"}
    BY <1>1 DEF RequestRecord
  <2> DEFINE req == [inquiry[r] EXCEPT !.pc = "interrupted"]
  <2>2. inquiry' = [inquiry EXCEPT ![r] = req] /\ inquiry[r].pc = "run" /\ UNCHANGED dialogue
    BY <1>1, <1>4 DEF Lapse
  <2>3. /\ req \in RequestRecord /\ req.pc = "interrupted" /\ req.alive = inquiry[r].alive
        /\ req.attempt = inquiry[r].attempt /\ req.logged = inquiry[r].logged
        /\ req.arm = inquiry[r].arm /\ inquiry[r].arm = "single"
    BY <1>1, <2>2 DEF RequestRecord, RequestPc, RequestIsSound
  <2> HIDE DEF req
  <2>4. RequestIsSound(req)
    BY <1>1, <2>3 DEF RequestIsSound
  <2> QED
    BY <2>2, <2>3, <2>4, RequestKeeps
<1>5. CASE Resume(r)
  BY <1>5, BegunKeeps DEF Resume
<1>6. CASE EndRun(r)
  <2>1. PICK a \in inquiry[r].alive, pc \in {"done", "interrupted"}, error \in {"none", "failed"} :
          /\ pc = "done" /\ error = "none" => a \in inquiry[r].logged
          /\ inquiry' = [inquiry EXCEPT ![r].pc = pc, ![r].error = error, ![r].alive = @ \ {a}]
    BY <1>6 DEF EndRun
  <2> DEFINE rest == inquiry[r].alive \ {a}
  <2>2. inquiry' = [inquiry EXCEPT ![r].pc = pc, ![r].error = error, ![r].alive = rest]
    BY <1>1, <2>1 DEF RequestRecord
  <2>3. rest \in SUBSET inquiry[r].alive
    OBVIOUS
  <2> HIDE DEF rest
  <2>4. /\ inquiry[r].pc = "run" /\ inquiry[r].arm = "single" /\ UNCHANGED dialogue
        /\ pc = "done" /\ error = "none" => inquiry[r].logged # {}
        /\ pc = "done" /\ error = "refused" => inquiry[r].attempt = 0
    BY <1>1, <1>6, <2>1 DEF EndRun, RequestIsSound
  <2> QED
    BY <2>2, <2>3, <2>4, MoveKeeps
<1> QED
  BY <1>3, <1>4, <1>5, <1>6

LEMMA LogKeeps == ASSUME RoutingInv, NEW r \in Inquiry, LogTurn(r) PROVE RoutingInv'
<1>1. /\ inquiry \in [Inquiry -> RequestRecord] /\ inquiry[r] \in RequestRecord
      /\ RequestIsSound(inquiry[r])
  BY DEF RoutingInv, RoutingTypeInv
<1>2. PICK a \in inquiry[r].alive \ inquiry[r].logged :
        /\ StoreQuestion(r, "run", a) \/ StoreTurn(r, "run", a)
        /\ inquiry' = [inquiry EXCEPT ![r].logged = @ \cup {a}]
  BY DEF LogTurn
<1> DEFINE req == [inquiry[r] EXCEPT !.logged = inquiry[r].logged \cup {a}]
<1>3. inquiry' = [inquiry EXCEPT ![r] = req]
  BY <1>1, <1>2 DEF RequestRecord
<1>4. a \in Nat /\ a \in 1 .. inquiry[r].attempt /\ inquiry[r].arm = "single"
  BY <1>1, <1>2 DEF RequestIsSound, RequestRecord
<1>5. /\ req \in RequestRecord /\ req.pc = inquiry[r].pc /\ req.error = inquiry[r].error
      /\ req.alive = inquiry[r].alive /\ req.attempt = inquiry[r].attempt
      /\ req.logged = inquiry[r].logged \cup {a} /\ req.arm = inquiry[r].arm
  BY <1>1, <1>4 DEF RequestRecord
<1> HIDE DEF req
<1>6. inquiry[r].attempt # 0
  BY <1>1, <1>4 DEF RequestRecord
<1>7. RequestIsSound(req) /\ req.pc # "judge"
  BY <1>1, <1>4, <1>5, <1>6 DEF RequestIsSound
<1>8. Executor(inquiry[r].arm) = "run"
  BY <1>4 DEF Executor
<1> QED
  BY <1>2, <1>3, <1>4, <1>5, <1>7, <1>8, StoreKeeps

LEMMA GraphKeeps == ASSUME RoutingInv, NEW r \in Inquiry, EndGraph(r) PROVE RoutingInv'
<1>1. /\ inquiry \in [Inquiry -> RequestRecord] /\ inquiry[r] \in RequestRecord
      /\ RequestIsSound(inquiry[r]) /\ inquiry[r].pc = "graph"
  BY DEF RoutingInv, RoutingTypeInv, EndGraph
<1>2. /\ inquiry[r].attempt = 0 /\ inquiry[r].alive = {} /\ inquiry[r].logged = {}
      /\ inquiry[r].arm = "multi"
  BY <1>1 DEF RequestIsSound
<1>3. ASSUME NEW error \in {"none", "lost"}, StoreTurn(r, "graph", 1),
             inquiry' = [inquiry EXCEPT ![r].pc = "done", ![r].error = error,
                                        ![r].attempt = 1, ![r].logged = {1}]
      PROVE  RoutingInv'
  <2> DEFINE one == {1}
             req == [inquiry[r] EXCEPT !.pc = "done", !.error = error, !.attempt = 1,
                                       !.logged = one]
  <2>1. inquiry' = [inquiry EXCEPT ![r] = req]
    BY <1>1, <1>3
  <2>2. one = {1} /\ one \in SUBSET Nat /\ 1 \in Nat
    OBVIOUS
  <2> HIDE DEF one
  <2>3. /\ req \in RequestRecord /\ req.pc = "done" /\ req.error = error /\ req.attempt = 1
        /\ req.alive = {} /\ req.logged = one
        /\ req.arm = inquiry[r].arm /\ req.way = inquiry[r].way /\ req.given = inquiry[r].given
        /\ req.question = inquiry[r].question /\ req.seen = inquiry[r].seen
    BY <1>1, <1>2, <2>2 DEF RequestRecord, RequestPc
  <2> HIDE DEF req
  <2>4. RequestIsSound(req)
    BY <1>1, <1>2, <2>2, <2>3 DEF RequestIsSound, TwoOrders
  <2>5. /\ Executor(inquiry[r].arm) = "graph" /\ 1 \notin inquiry[r].logged
        /\ req.logged = inquiry[r].logged \cup {1} /\ req.pc # "judge"
    BY <1>2, <2>2, <2>3 DEF Executor
  <2> QED
    BY <1>3, <2>1, <2>2, <2>3, <2>4, <2>5, StoreKeeps
<1>4. ASSUME Ends(r, "failed"), UNCHANGED dialogue PROVE RoutingInv'
  <2>1. inquiry' = [inquiry EXCEPT ![r].pc = "done", ![r].error = "failed",
                                   ![r].alive = inquiry[r].alive]
    BY <1>1, <1>4 DEF Ends, RequestRecord
  <2> QED
    BY <1>2, <1>4, <2>1, MoveKeeps
<1> QED
  BY <1>3, <1>4 DEF EndGraph

LEMMA RoutingInvIsInductive ==
  ASSUME RoutingInv, [RoutingNext]_routingVars PROVE RoutingInv'
<1>1. CASE UNCHANGED routingVars
  <2>1. UNCHANGED <<dialogue, inquiry>>
    BY <1>1 DEF routingVars
  <2>2. \A r \in Inquiry : RowsOf(r)' = RowsOf(r)
    BY <2>1 DEF RowsOf
  <2>3. RoutingTypeInv' /\ JudgedOnTwo'
    BY <2>1 DEF RoutingInv, RoutingTypeInv, JudgedOnTwo, TwoOrders, NamedIn
  <2>4. RowsAreLogged' /\ StoredOncePer' /\ RepliesFollow'
    BY <2>1, <2>2 DEF RoutingInv, RowsAreLogged, StoredOncePer, RepliesFollow
  <2> QED
    BY <2>1, <2>3, <2>4 DEF RoutingInv, RequestIsSound, TwoOrders
<1>2. CASE RoutingNext
  BY <1>2, AskKeeps, JudgeKeeps, StepKeeps, LogKeeps, GraphKeeps DEF RoutingNext
<1> QED
  BY <1>1, <1>2

\* However many requests come by the three ways in, and however often a run loses its
\* lease and is resumed, all that is stored of a request is of the executor it was
\* routed to, a reply stands right after the question of its own attempt, an attempt
\* stores its turn once, who is told of an answer finds it stored, and only a
\* question about two orders goes to the agents (dispatcher.py:106, policy.py:61-95,
\* application.py:120-130, logging_node.py:33-44).
THEOREM EachRequestIsRouted == RoutingSpec => []RequestIsRouted
<1>1. RoutingInit => RoutingInv
  <2> SUFFICES ASSUME RoutingInit PROVE RoutingInv
    OBVIOUS
  <2>1. dialogue \in Seq(Rows)
    <3>1. dialogue \in Seq(Range(dialogue)) /\ Range(dialogue) \subseteq Rows
      BY RoutingAssumption DEF RoutingInit, Rows, OldRow
    <3> QED
      BY <3>1
  <2>2. \A r \in Inquiry : RowsOf(r) = {}
    BY RoutingAssumption DEF RoutingInit, RowsOf
  <2>3. \A r \in Inquiry : inquiry[r] = NoRequest /\ inquiry[r].pc = "idle" /\ inquiry[r].logged = {}
    BY DEF RoutingInit, NoRequest
  <2>4. inquiry \in [Inquiry -> RequestRecord]
    BY NoRequestIsSound DEF RoutingInit
  <2>5. RowsAreLogged /\ StoredOncePer /\ RepliesFollow /\ JudgedOnTwo
    BY <2>2, <2>3 DEF RowsAreLogged, StoredOncePer, RepliesFollow, JudgedOnTwo
  <2> QED
    BY <2>1, <2>3, <2>4, <2>5, NoRequestIsSound DEF RoutingInv, RoutingTypeInv
<1>2. RoutingInv => RequestIsRouted
  <2> SUFFICES ASSUME RoutingInv PROVE RequestIsRouted
    OBVIOUS
  <2>1. \A r \in Inquiry : inquiry[r] \in RequestRecord /\ RequestIsSound(inquiry[r])
    BY DEF RoutingInv, RoutingTypeInv
  <2>2. StoredOnce
    BY <2>1 DEF RoutingInv, RowsAreLogged, StoredOncePer, StoredOnce, RequestIsSound
  <2>3. AnsweredByOne
    <3>1. ASSUME NEW r \in Inquiry, inquiry[r].attempt = 0 PROVE RowsOf(r) = {}
      <4>1. inquiry[r].logged = {}
        BY <2>1, <3>1 DEF RequestIsSound
      <4> QED
        BY <4>1 DEF RoutingInv, RowsAreLogged
    <3>2. ASSUME NEW r \in Inquiry, inquiry[r].logged # {} PROVE RowsOf(r) # {}
      BY <3>2 DEF RoutingInv, RowsAreLogged
    <3> QED
      BY <2>1, <3>1, <3>2 DEF RoutingInv, RowsAreLogged, AnsweredByOne, RequestIsSound, Executor
  <2>4. RoutedOnTwoOrders
    BY <2>1 DEF RequestIsSound, TwoOrders, RoutedOnTwoOrders
  <2> QED
    BY <2>2, <2>3, <2>4 DEF RoutingInv, RequestIsRouted
<1> QED
  BY <1>1, <1>2, RoutingInvIsInductive, PTL DEF RoutingSpec

-----------------------------------------------------------------------------
(* Ticket confirmation.                                                    *)

-----------------------------------------------------------------------------
(* The inductive invariant.                                                *)

\* A ticket that request q may be told of.
Made(q, no) ==
  \E t \in tickets :
    /\ t.no = no /\ t.key = request[q].key
    /\ t.conv = request[q].conv /\ t.content = request[q].content

\* A write under way belongs to a request that was accepted.
WriteHasCall ==
  \A q \in Request :
    /\ request[q].pc = "idle" => write[q] = NoWrite
    /\ request[q].pc # "idle" => request[q].conv \in Chat /\ request[q].content \in Content

\* What a write returns is the request's own ticket, and so is what it answers.
WriteIsOwnTicket ==
  \A q \in Request : write[q].result = "created" => Made(q, write[q].no)

\* A confirmation that waits says what the preview with its key says: it was
\* compared with it when it came, and a preview with its key cannot come later.
WaitingMatchesPreview ==
  \A q \in Request :
    /\ request[q].pc = "waiting" /\ request[q].way = "confirm"
    /\ request[q].key # NoKey /\ artifact[request[q].key].state # "unknown"
    => /\ artifact[request[q].key].conv = request[q].conv
       /\ artifact[request[q].key].content = request[q].content

\* The pending preview of a conversation is its own and awaits confirmation, and
\* a preview that awaits confirmation is the pending one of its conversation.
PendingAwaits ==
  /\ \A c \in Chat : pending[c] # NoKey =>
       artifact[pending[c]].state = "awaiting" /\ artifact[pending[c]].conv = c
  /\ \A k \in ConfirmKey : artifact[k].state = "awaiting" =>
       artifact[k].conv \in Chat /\ pending[artifact[k].conv] = k

TicketInv ==
  /\ TicketTypeOK /\ WriteHasCall /\ OneTicketPerKey
  /\ WriteIsOwnTicket /\ AnswerIsOwnTicket
  /\ WaitingMatchesPreview /\ PendingAwaits /\ ConfirmedHasTicket

-----------------------------------------------------------------------------
(* The steps of a write.                                                   *)

\* Whatever the thread does next keeps the invariant, if it only adds rows, keeps
\* the keys unique and returns a ticket of its own request.
LEMMA WriteStep ==
  ASSUME TicketInv, NEW q \in Request, NEW w \in Write,
         write[q].pc # "off", write' = [write EXCEPT ![q] = w],
         UNCHANGED <<ledgerVars, request>>,
         tickets \subseteq tickets', tickets' \subseteq Row, OneTicketPerKey',
         w.result = "created" => Made(q, w.no)'
  PROVE  TicketInv'
<1>1. TicketTypeOK'
  BY DEF TicketInv, TicketTypeOK, ledgerVars
<1>2. WriteHasCall'
  BY DEF TicketInv, TicketTypeOK, WriteHasCall, NoWrite
<1>3. WriteIsOwnTicket'
  <2> SUFFICES ASSUME NEW p \in Request, (write[p].result = "created")'
               PROVE  Made(p, write[p].no)'
    BY DEF WriteIsOwnTicket
  <2>1. CASE p = q
    <3>1. write'[p] = w
      BY <2>1 DEF TicketInv, TicketTypeOK
    <3> QED BY <2>1, <3>1 DEF Made
  <2>2. CASE p # q
    <3>1. write'[p] = write[p]
      BY <2>2 DEF TicketInv, TicketTypeOK
    <3>2. Made(p, write[p].no)
      BY <3>1 DEF TicketInv, WriteIsOwnTicket
    <3> QED BY <3>1, <3>2 DEF Made
  <2> QED BY <2>1, <2>2
<1>4. AnswerIsOwnTicket'
  BY DEF TicketInv, AnswerIsOwnTicket
<1>5. WaitingMatchesPreview'
  BY DEF TicketInv, WaitingMatchesPreview, ledgerVars
<1>6. PendingAwaits'
  BY DEF TicketInv, PendingAwaits, ledgerVars
<1>7. ConfirmedHasTicket'
  BY DEF TicketInv, ConfirmedHasTicket, ledgerVars
<1> QED BY <1>1, <1>2, <1>3, <1>4, <1>5, <1>6, <1>7 DEF TicketInv

\* A look-up returns, and adds no row.
LEMMA ReturnStep ==
  ASSUME TicketInv, NEW q \in Request, write[q].pc # "off",
         NEW result \in {"created", "conflict", "failed"},
         NEW no \in TicketNo \cup {NoKey},
         Returned(q, result, no), UNCHANGED <<tickets, ledgerVars, request>>,
         result = "created" => Made(q, no)
  PROVE  TicketInv'
<1> DEFINE w == [pc |-> "returned", result |-> result, no |-> no]
<1>1. w \in Write
  BY DEF Write
<1>2. write' = [write EXCEPT ![q] = w]
  BY DEF Returned
<1>3. tickets \subseteq tickets' /\ tickets' \subseteq Row
  BY DEF TicketInv, TicketTypeOK
<1>4. OneTicketPerKey'
  BY DEF TicketInv, OneTicketPerKey
<1>5. w.result = "created" => Made(q, w.no)'
  BY DEF Made
<1> HIDE DEF w
<1> QED BY <1>1, <1>2, <1>3, <1>4, <1>5, WriteStep

\* _admit answers with the ticket only when it is the request's own.
LEMMA AdmitStep ==
  ASSUME TicketInv, NEW q \in Request, write[q].pc # "off",
         NEW t \in WithKey(request[q].key), Admit(q, t),
         UNCHANGED <<tickets, ledgerVars, request>>
  PROVE  TicketInv'
<1>1. t \in tickets /\ t.key = request[q].key /\ t.no \in TicketNo
  BY DEF TicketInv, TicketTypeOK, WithKey, Row
<1>2. CASE t.conv = request[q].conv /\ t.content = request[q].content
  <2>1. Returned(q, "created", t.no) /\ Made(q, t.no)
    BY <1>1, <1>2 DEF Admit, Made
  <2> QED BY <1>1, <2>1, ReturnStep
<1>3. CASE ~(t.conv = request[q].conv /\ t.content = request[q].content)
  <2>1. Returned(q, "conflict", NoKey)
    BY <1>3 DEF Admit
  <2> QED BY <2>1, ReturnStep
<1> QED BY <1>2, <1>3

\* The thread goes on to its next statement.
LEMMA GoOnStep ==
  ASSUME TicketInv, NEW q \in Request, write[q].pc # "off",
         NEW pc \in {"insert", "refind"},
         write' = [write EXCEPT ![q].pc = pc],
         UNCHANGED <<tickets, ledgerVars, request>>
  PROVE  TicketInv'
<1>1. [write[q] EXCEPT !.pc = pc] \in Write
  BY DEF TicketInv, TicketTypeOK, Write
<1>2. PICK w \in Write : w = [write[q] EXCEPT !.pc = pc]
  BY <1>1
<1>3. write' = [write EXCEPT ![q] = w]
  BY <1>2
<1>4. tickets \subseteq tickets' /\ tickets' \subseteq Row /\ OneTicketPerKey'
  BY DEF TicketInv, TicketTypeOK, OneTicketPerKey
<1>5. w.result = write[q].result /\ w.no = write[q].no
  BY <1>2 DEF TicketInv, TicketTypeOK, Write
<1>6. w.result = "created" => Made(q, w.no)'
  BY <1>5 DEF TicketInv, WriteIsOwnTicket, Made
<1> QED BY <1>3, <1>4, <1>6, WriteStep

LEMMA FindStep ==
  ASSUME TicketInv, NEW q \in Request, Find(q)
  PROVE  TicketInv'
<1>1. write[q].pc # "off" /\ UNCHANGED <<tickets, ledgerVars, request>>
  BY DEF Find
<1>2. ASSUME NEW t \in WithKey(request[q].key), Admit(q, t) PROVE TicketInv'
  BY <1>1, <1>2, AdmitStep
<1>3. CASE write' = [write EXCEPT ![q].pc = "insert"]
  BY <1>1, <1>3, GoOnStep
<1>4. CASE Returned(q, "failed", NoKey)
  BY <1>1, <1>4, ReturnStep
<1> QED BY <1>2, <1>3, <1>4 DEF Find

LEMMA RefindStep ==
  ASSUME TicketInv, NEW q \in Request, Refind(q)
  PROVE  TicketInv'
<1>1. write[q].pc # "off" /\ UNCHANGED <<tickets, ledgerVars, request>>
  BY DEF Refind
<1>2. ASSUME NEW t \in WithKey(request[q].key), Admit(q, t) PROVE TicketInv'
  BY <1>1, <1>2, AdmitStep
<1>3. CASE Returned(q, "failed", NoKey)
  BY <1>1, <1>3, ReturnStep
<1> QED BY <1>2, <1>3 DEF Refind

\* The insert: the two constraints of the table keep the keys unique.
LEMMA InsertStep ==
  ASSUME TicketInv, NEW q \in Request, Insert(q)
  PROVE  TicketInv'
<1>1. write[q].pc = "insert" /\ UNCHANGED <<ledgerVars, request>>
  BY DEF Insert
<1>2. CASE UNCHANGED tickets /\ Returned(q, "failed", NoKey)
  BY <1>1, <1>2, ReturnStep
<1>3. ASSUME NEW n \in TicketNo,
             LET row == [no |-> n, key |-> request[q].key, conv |-> request[q].conv,
                         content |-> request[q].content]
             IN IF (\A t \in tickets : t.no # n) /\ WithKey(row.key) = {}
                THEN tickets' = tickets \cup {row} /\ Returned(q, "created", n)
                ELSE /\ UNCHANGED tickets
                     /\ IF row.key = NoKey THEN Returned(q, "failed", NoKey)
                        ELSE write' = [write EXCEPT ![q].pc = "refind"]
      PROVE  TicketInv'
  <2> DEFINE row == [no |-> n, key |-> request[q].key, conv |-> request[q].conv,
                     content |-> request[q].content]
             w == [pc |-> "returned", result |-> "created", no |-> n]
  <2>1. request[q] \in Handler /\ request[q].pc # "idle"
    BY <1>1 DEF TicketInv, TicketTypeOK, WriteHasCall, NoWrite
  <2>2. row \in Row
    BY <2>1 DEF TicketInv, WriteHasCall, Row, Handler
  <2>3. CASE (\A t \in tickets : t.no # n) /\ WithKey(row.key) = {}
    <3>1. tickets' = tickets \cup {row} /\ write' = [write EXCEPT ![q] = w]
      BY <1>3, <2>3 DEF Returned
    <3>2. w \in Write
      BY DEF Write
    <3>3. tickets \subseteq tickets' /\ tickets' \subseteq Row
      BY <2>2, <3>1 DEF TicketInv, TicketTypeOK
    <3>4. OneTicketPerKey'
      BY <2>3, <3>1 DEF TicketInv, OneTicketPerKey, WithKey
    <3>5. w.result = "created" => Made(q, w.no)'
      <4>1. PICK t \in tickets' : t = row
        BY <3>1
      <4>2. /\ t.no = n /\ t.key = request'[q].key
            /\ t.conv = request'[q].conv /\ t.content = request'[q].content
        BY <1>1, <4>1
      <4> QED BY <4>1, <4>2 DEF Made
    <3> HIDE DEF w, row
    <3> QED BY <1>1, <3>1, <3>2, <3>3, <3>4, <3>5, WriteStep
  <2>4. CASE ~((\A t \in tickets : t.no # n) /\ WithKey(row.key) = {})
    <3>1. UNCHANGED tickets
      BY <1>3, <2>4
    <3>2. \/ Returned(q, "failed", NoKey)
          \/ write' = [write EXCEPT ![q].pc = "refind"]
      BY <1>3, <2>4
    <3> QED BY <1>1, <3>1, <3>2, ReturnStep, GoOnStep
  <2> QED BY <2>3, <2>4
<1> QED BY <1>2, <1>3 DEF Insert

-----------------------------------------------------------------------------
(* The steps of the handlers.                                              *)

\* A request that comes in and is handed to a thread.
LEMMA AcceptStep ==
  ASSUME TicketInv, NEW q \in Request, request[q].pc = "idle",
         NEW k \in ConfirmKey \cup {NoKey}, NEW c \in Chat, NEW d \in Content,
         NEW way \in {"button", "confirm"},
         Accept(q, way, k, c, d),
         way = "confirm" => ~Refused(k, c, d),
         UNCHANGED <<tickets, ledgerVars>>
  PROVE  TicketInv'
<1> DEFINE call == Body("waiting", way, k, c, d, "none")
<1>1. /\ call \in Handler /\ call.pc = "waiting" /\ call.answer = "none"
      /\ call.way = way /\ call.key = k /\ call.conv = c /\ call.content = d
      /\ request' = [request EXCEPT ![q] = call]
      /\ write' = [write EXCEPT ![q].pc = "find"]
  BY DEF Accept, Handler, Body
<1> HIDE DEF call
<1>2. TicketTypeOK'
  BY <1>1 DEF TicketInv, TicketTypeOK, Write, ledgerVars
<1>3. WriteHasCall'
  BY <1>1 DEF TicketInv, TicketTypeOK, WriteHasCall
<1>4. OneTicketPerKey'
  BY DEF TicketInv, OneTicketPerKey
<1>5. write[q].result # "created"
  BY DEF TicketInv, WriteHasCall, NoWrite
<1>6. WriteIsOwnTicket'
  BY <1>1, <1>5 DEF TicketInv, TicketTypeOK, WriteIsOwnTicket, Made, Write
<1>7. AnswerIsOwnTicket'
  BY <1>1 DEF TicketInv, TicketTypeOK, AnswerIsOwnTicket
<1>8. WaitingMatchesPreview'
  BY <1>1 DEF TicketInv, TicketTypeOK, WaitingMatchesPreview, Refused, ledgerVars
<1>9. PendingAwaits' /\ ConfirmedHasTicket'
  BY DEF TicketInv, PendingAwaits, ConfirmedHasTicket, ledgerVars
<1> QED BY <1>2, <1>3, <1>4, <1>6, <1>7, <1>8, <1>9 DEF TicketInv

LEMMA SubmitStep ==
  ASSUME TicketInv, NEW q \in Request, NEW k \in ConfirmKey \cup {NoKey},
         NEW c \in Chat, NEW d \in Content, Submit(q, k, c, d)
  PROVE  TicketInv'
<1>1. /\ request[q].pc = "idle" /\ UNCHANGED <<tickets, ledgerVars>>
      /\ Accept(q, "button", k, c, d)
  BY DEF Submit
<1> QED BY <1>1, AcceptStep

LEMMA ConfirmStep ==
  ASSUME TicketInv, NEW q \in Request, NEW k \in ConfirmKey \cup {NoKey},
         NEW c \in Chat, NEW d \in Content, Confirm(q, k, c, d)
  PROVE  TicketInv'
<1>1. request[q].pc = "idle" /\ UNCHANGED <<tickets, ledgerVars>>
  BY DEF Confirm
<1>2. CASE ~Refused(k, c, d)
  <2>1. Accept(q, "confirm", k, c, d)
    BY <1>2 DEF Confirm
  <2> QED BY <1>1, <1>2, <2>1, AcceptStep
<1>3. CASE Refused(k, c, d)
  <2> DEFINE call == Body("answered", "confirm", k, c, d, "conflict")
  <2>2. /\ call \in Handler /\ call.pc = "answered" /\ call.answer = "conflict"
        /\ call.conv \in Chat /\ call.content \in Content
        /\ request' = [request EXCEPT ![q] = call] /\ UNCHANGED write
    BY <1>3 DEF Confirm, Handler, Body
  <2> HIDE DEF call
  <2>3. TicketTypeOK'
    BY <1>1, <2>2 DEF TicketInv, TicketTypeOK, ledgerVars
  <2>4. WriteHasCall'
    BY <2>2 DEF TicketInv, TicketTypeOK, WriteHasCall
  <2>5. OneTicketPerKey'
    BY <1>1 DEF TicketInv, OneTicketPerKey
  <2>6. WriteIsOwnTicket'
    BY <1>1, <2>2 DEF TicketInv, TicketTypeOK, WriteHasCall, WriteIsOwnTicket, Made, NoWrite
  <2>7. AnswerIsOwnTicket'
    BY <1>1, <2>2 DEF TicketInv, TicketTypeOK, AnswerIsOwnTicket
  <2>8. WaitingMatchesPreview'
    BY <1>1, <2>2 DEF TicketInv, TicketTypeOK, WaitingMatchesPreview, ledgerVars
  <2>9. PendingAwaits' /\ ConfirmedHasTicket'
    BY <1>1 DEF TicketInv, PendingAwaits, ConfirmedHasTicket, ledgerVars
  <2> QED BY <2>3, <2>4, <2>5, <2>6, <2>7, <2>8, <2>9 DEF TicketInv
<1> QED BY <1>2, <1>3

LEMMA TimeoutStep ==
  ASSUME TicketInv, NEW q \in Request, Timeout(q)
  PROVE  TicketInv'
<1>1. /\ request[q].pc = "waiting" /\ UNCHANGED <<tickets, ledgerVars>>
      /\ request' = [request EXCEPT ![q].pc = "answered", ![q].answer = "failed"]
      /\ \/ UNCHANGED write
         \/ write' = [write EXCEPT ![q] = NoWrite]
  BY DEF Timeout
<1>2. NoWrite \in Write
  BY DEF NoWrite, Write
<1>3. TicketTypeOK'
  <2>1. [request[q] EXCEPT !.pc = "answered", !.answer = "failed"] \in Handler
    BY DEF TicketInv, TicketTypeOK, Handler
  <2>2. request' \in [Request -> Handler]
    BY <1>1, <2>1 DEF TicketInv, TicketTypeOK
  <2> QED BY <1>1, <1>2, <2>2 DEF TicketInv, TicketTypeOK, ledgerVars
<1>4. WriteHasCall'
  BY <1>1 DEF TicketInv, TicketTypeOK, WriteHasCall, Handler
<1>5. OneTicketPerKey'
  BY <1>1 DEF TicketInv, OneTicketPerKey
<1>6. WriteIsOwnTicket'
  BY <1>1 DEF TicketInv, TicketTypeOK, WriteIsOwnTicket, Made, NoWrite, Handler
<1>7. AnswerIsOwnTicket'
  BY <1>1 DEF TicketInv, TicketTypeOK, AnswerIsOwnTicket, Handler
<1>8. WaitingMatchesPreview'
  BY <1>1 DEF TicketInv, TicketTypeOK, WaitingMatchesPreview, ledgerVars, Handler
<1>9. PendingAwaits' /\ ConfirmedHasTicket'
  BY <1>1 DEF TicketInv, PendingAwaits, ConfirmedHasTicket, ledgerVars
<1> QED BY <1>3, <1>4, <1>5, <1>6, <1>7, <1>8, <1>9 DEF TicketInv

\* The answer: the preview that mark_confirmed finds pending is the one that the
\* request was compared with.
LEMMA AnswerStep ==
  ASSUME TicketInv, NEW q \in Request, Answer(q)
  PROVE  TicketInv'
<1> DEFINE k == request[q].key
           c == request[q].conv
<1>1. /\ request[q].pc = "waiting" /\ UNCHANGED <<tickets, write>>
      /\ request' = [request EXCEPT ![q].pc = "answered",
                                    ![q].answer = write[q].result, ![q].no = write[q].no]
  BY DEF Answer
<1>2. /\ request[q] \in Handler /\ write[q] \in Write
      /\ c \in Chat /\ request[q].content \in Content
  BY <1>1 DEF TicketInv, TicketTypeOK, WriteHasCall
<1>3. request' \in [Request -> Handler]
  BY <1>1, <1>2 DEF TicketInv, TicketTypeOK, Handler, Write
<1>4. OneTicketPerKey'
  BY <1>1 DEF TicketInv, OneTicketPerKey
<1>5. WriteHasCall'
  BY <1>1, <1>2 DEF TicketInv, TicketTypeOK, WriteHasCall, Handler
<1>6. WriteIsOwnTicket'
  BY <1>1 DEF TicketInv, TicketTypeOK, WriteIsOwnTicket, Made, Handler
<1>7. AnswerIsOwnTicket'
  BY <1>1, <1>2 DEF TicketInv, TicketTypeOK, AnswerIsOwnTicket, WriteIsOwnTicket, Made, Handler
<1>8. CASE UNCHANGED ledgerVars
  <2>1. TicketTypeOK' /\ PendingAwaits' /\ ConfirmedHasTicket'
    BY <1>1, <1>3, <1>8 DEF TicketInv, TicketTypeOK, PendingAwaits, ConfirmedHasTicket, ledgerVars
  <2>2. WaitingMatchesPreview'
    BY <1>1, <1>8 DEF TicketInv, TicketTypeOK, WaitingMatchesPreview, ledgerVars, Handler
  <2> QED BY <1>4, <1>5, <1>6, <1>7, <2>1, <2>2 DEF TicketInv
<1>9. CASE ~UNCHANGED ledgerVars
  <2>1. /\ write[q].result = "created" /\ request[q].way = "confirm" /\ k \in ConfirmKey
        /\ pending[c] = k
        /\ artifact' = [artifact EXCEPT ![k].state = "confirmed", ![k].no = write[q].no]
        /\ pending' = [pending EXCEPT ![c] = NoKey]
    BY <1>2, <1>9 DEF Answer, Mark, Handler
  <2>2. /\ artifact[k] \in Artifact /\ artifact[k].state = "awaiting"
        /\ artifact[k].conv = c
    BY <1>2, <2>1, TicketAssumption DEF TicketInv, TicketTypeOK, PendingAwaits
  <2>3. artifact[k].content = request[q].content
    BY <1>1, <2>1, <2>2, TicketAssumption DEF TicketInv, WaitingMatchesPreview
  <2>4. TicketTypeOK'
    BY <1>1, <1>2, <1>3, <2>1, <2>2 DEF TicketInv, TicketTypeOK, Artifact, Write
  <2>5. /\ artifact'[k].state = "confirmed" /\ artifact'[k].no = write[q].no
        /\ artifact'[k].conv = c /\ artifact'[k].content = request[q].content
        /\ \A j \in ConfirmKey : j # k => artifact'[j] = artifact[j]
    BY <2>1, <2>2, <2>3 DEF TicketInv, TicketTypeOK, Artifact
  <2>6. PendingAwaits'
    <3>1. ASSUME NEW e \in Chat, pending'[e] # NoKey
          PROVE  artifact'[pending'[e]].state = "awaiting" /\ artifact'[pending'[e]].conv = e
      <4>1. e # c /\ pending'[e] = pending[e] /\ pending[e] \in ConfirmKey
        BY <1>2, <2>1, <3>1 DEF TicketInv, TicketTypeOK
      <4>2. artifact[pending[e]].state = "awaiting" /\ artifact[pending[e]].conv = e
        BY <3>1, <4>1 DEF TicketInv, PendingAwaits
      <4>3. pending[e] # k
        BY <2>2, <4>1, <4>2
      <4> QED BY <2>5, <4>1, <4>2, <4>3
    <3>2. ASSUME NEW j \in ConfirmKey, artifact'[j].state = "awaiting"
          PROVE  artifact'[j].conv \in Chat /\ pending'[artifact'[j].conv] = j
      <4>1. j # k /\ artifact'[j] = artifact[j]
        BY <2>5, <3>2
      <4>2. artifact[j].conv \in Chat /\ pending[artifact[j].conv] = j
        BY <3>2, <4>1 DEF TicketInv, PendingAwaits
      <4> QED BY <1>2, <2>1, <4>1, <4>2 DEF TicketInv, TicketTypeOK
    <3> QED BY <3>1, <3>2 DEF PendingAwaits
  <2>7. ConfirmedHasTicket'
    <3>1. Made(q, write[q].no)
      BY <2>1 DEF TicketInv, WriteIsOwnTicket
    <3> QED BY <1>1, <2>5, <3>1 DEF TicketInv, ConfirmedHasTicket, Made
  <2>8. WaitingMatchesPreview'
    <3> SUFFICES ASSUME NEW p \in Request,
                        request'[p].pc = "waiting", request'[p].way = "confirm",
                        request'[p].key # NoKey, artifact'[request'[p].key].state # "unknown"
                 PROVE  /\ artifact'[request'[p].key].conv = request'[p].conv
                        /\ artifact'[request'[p].key].content = request'[p].content
      BY DEF WaitingMatchesPreview
    <3>1. p # q /\ request'[p] = request[p] /\ request[p].key \in ConfirmKey
      BY <1>1, <1>2 DEF TicketInv, TicketTypeOK, Handler
    <3>2. artifact[request[p].key].state # "unknown"
      BY <2>2, <2>5, <3>1
    <3>3. /\ artifact[request[p].key].conv = request[p].conv
          /\ artifact[request[p].key].content = request[p].content
      BY <3>1, <3>2 DEF TicketInv, WaitingMatchesPreview
    <3> QED BY <2>2, <2>3, <2>5, <3>1, <3>3
  <2> QED BY <1>4, <1>5, <1>6, <1>7, <2>4, <2>6, <2>7, <2>8 DEF TicketInv
<1> QED BY <1>8, <1>9

-----------------------------------------------------------------------------
(* The steps of the ledger.                                                *)

\* Cancelling the pending preview touches only an awaiting artifact.
LEMMA CancelledArtifacts ==
  ASSUME TicketInv, NEW c \in Chat
  PROVE  /\ Cancelled(c) \in [ConfirmKey -> Artifact]
         /\ \A k \in ConfirmKey :
              /\ k = pending[c] => Cancelled(c)[k].state = "cancelled"
              /\ k # pending[c] => Cancelled(c)[k] = artifact[k]
              /\ Cancelled(c)[k].conv = artifact[k].conv
              /\ Cancelled(c)[k].content = artifact[k].content
              /\ Cancelled(c)[k].state = "unknown" <=> artifact[k].state = "unknown"
<1>1. CASE pending[c] = NoKey
  BY <1>1, TicketAssumption DEF TicketInv, TicketTypeOK, Cancelled
<1>2. CASE pending[c] # NoKey
  <2>1. pending[c] \in ConfirmKey /\ artifact[pending[c]].state = "awaiting"
    BY <1>2 DEF TicketInv, TicketTypeOK, PendingAwaits
  <2>2. \A k \in ConfirmKey : artifact[k] \in Artifact
    BY DEF TicketInv, TicketTypeOK
  <2>3. Cancelled(c) = [artifact EXCEPT ![pending[c]].state = "cancelled"]
    BY <1>2 DEF Cancelled
  <2> QED BY <2>1, <2>2, <2>3 DEF TicketInv, TicketTypeOK, Artifact
<1> QED BY <1>1, <1>2

LEMMA CancelStep ==
  ASSUME TicketInv, NEW c \in Chat, Cancel(c)
  PROVE  TicketInv'
<1>1. /\ artifact' = Cancelled(c) /\ pending' = [pending EXCEPT ![c] = NoKey]
      /\ UNCHANGED <<tickets, request, write>>
  BY DEF Cancel
<1>2. /\ artifact' \in [ConfirmKey -> Artifact]
      /\ \A k \in ConfirmKey :
           /\ k = pending[c] => artifact'[k].state = "cancelled"
           /\ k # pending[c] => artifact'[k] = artifact[k]
           /\ artifact'[k].conv = artifact[k].conv
           /\ artifact'[k].content = artifact[k].content
           /\ artifact'[k].state = "unknown" <=> artifact[k].state = "unknown"
  BY <1>1, CancelledArtifacts
<1>3. TicketTypeOK'
  BY <1>1, <1>2 DEF TicketInv, TicketTypeOK
<1>4. WriteHasCall' /\ OneTicketPerKey' /\ WriteIsOwnTicket' /\ AnswerIsOwnTicket'
  BY <1>1 DEF TicketInv, WriteHasCall, OneTicketPerKey, WriteIsOwnTicket, AnswerIsOwnTicket, Made
<1>5. WaitingMatchesPreview'
  <2>1. \A q \in Request : request[q].key # NoKey => request[q].key \in ConfirmKey
    BY DEF TicketInv, TicketTypeOK, Handler
  <2> QED BY <1>1, <1>2, <2>1 DEF TicketInv, WaitingMatchesPreview
<1>6. PendingAwaits'
  <2>1. ASSUME NEW e \in Chat, pending'[e] # NoKey
        PROVE  artifact'[pending'[e]].state = "awaiting" /\ artifact'[pending'[e]].conv = e
    <3>1. e # c /\ pending'[e] = pending[e] /\ pending[e] \in ConfirmKey
      BY <1>1, <2>1 DEF TicketInv, TicketTypeOK
    <3>2. artifact[pending[e]].state = "awaiting" /\ artifact[pending[e]].conv = e
      BY <2>1, <3>1 DEF TicketInv, PendingAwaits
    <3>3. pending[c] # NoKey => artifact[pending[c]].conv = c
      BY DEF TicketInv, PendingAwaits
    <3>4. pending[e] # pending[c]
      BY <3>1, <3>2, <3>3, TicketAssumption
    <3> QED BY <1>2, <3>1, <3>2, <3>4
  <2>2. ASSUME NEW k \in ConfirmKey, artifact'[k].state = "awaiting"
        PROVE  artifact'[k].conv \in Chat /\ pending'[artifact'[k].conv] = k
    <3>1. k # pending[c] /\ artifact'[k] = artifact[k]
      BY <1>2, <2>2
    <3>2. artifact[k].conv \in Chat /\ pending[artifact[k].conv] = k
      BY <2>2, <3>1 DEF TicketInv, PendingAwaits
    <3> QED BY <1>1, <3>1, <3>2 DEF TicketInv, TicketTypeOK
  <2> QED BY <2>1, <2>2 DEF PendingAwaits
<1>7. ConfirmedHasTicket'
  BY <1>1, <1>2 DEF TicketInv, ConfirmedHasTicket
<1> QED BY <1>3, <1>4, <1>5, <1>6, <1>7 DEF TicketInv

LEMMA PreviewStep ==
  ASSUME TicketInv, NEW k \in ConfirmKey, NEW c \in Chat, NEW d \in Content, Preview(k, c, d)
  PROVE  TicketInv'
<1> DEFINE a == [state |-> "awaiting", conv |-> c, content |-> d, no |-> NoKey]
<1>1. /\ artifact' = [Cancelled(c) EXCEPT ![k] = a]
      /\ pending' = [pending EXCEPT ![c] = k]
      /\ UNCHANGED <<tickets, request, write>>
  BY DEF Preview, PutPending
<1>2. /\ artifact[k].state = "unknown"
      /\ \A q \in Request : request[q].key # k
  BY DEF Preview, Fresh
<1>3. a \in Artifact
  BY DEF Artifact
<1>4. /\ artifact' \in [ConfirmKey -> Artifact]
      /\ artifact'[k] = a
      /\ \A j \in ConfirmKey \ {k} :
           /\ j = pending[c] => artifact'[j].state = "cancelled"
           /\ j # pending[c] => artifact'[j] = artifact[j]
           /\ artifact'[j].conv = artifact[j].conv
           /\ artifact'[j].content = artifact[j].content
           /\ artifact'[j].state = "unknown" <=> artifact[j].state = "unknown"
  BY <1>1, <1>3, CancelledArtifacts
<1>5. \A e \in Chat : pending[e] # k
  BY <1>2, TicketAssumption DEF TicketInv, PendingAwaits
<1>6. TicketTypeOK'
  BY <1>1, <1>4 DEF TicketInv, TicketTypeOK
<1>7. WriteHasCall' /\ OneTicketPerKey' /\ WriteIsOwnTicket' /\ AnswerIsOwnTicket'
  BY <1>1 DEF TicketInv, WriteHasCall, OneTicketPerKey, WriteIsOwnTicket, AnswerIsOwnTicket, Made
<1>8. WaitingMatchesPreview'
  <2>1. \A q \in Request : request[q].key # NoKey => request[q].key \in ConfirmKey \ {k}
    BY <1>2 DEF TicketInv, TicketTypeOK, Handler
  <2> QED BY <1>1, <1>4, <2>1 DEF TicketInv, WaitingMatchesPreview
<1>9. PendingAwaits'
  <2>1. ASSUME NEW e \in Chat, pending'[e] # NoKey
        PROVE  artifact'[pending'[e]].state = "awaiting" /\ artifact'[pending'[e]].conv = e
    <3>1. CASE e = c
      BY <1>1, <1>4, <3>1 DEF TicketInv, TicketTypeOK
    <3>2. CASE e # c
      <4>1. pending'[e] = pending[e] /\ pending[e] \in ConfirmKey \ {k}
        BY <1>1, <1>5, <2>1, <3>2 DEF TicketInv, TicketTypeOK
      <4>2. artifact[pending[e]].state = "awaiting" /\ artifact[pending[e]].conv = e
        BY <2>1, <4>1 DEF TicketInv, PendingAwaits
      <4>3. pending[c] # NoKey => artifact[pending[c]].conv = c
        BY DEF TicketInv, PendingAwaits
      <4>4. pending[e] # pending[c]
        BY <3>2, <4>1, <4>2, <4>3, TicketAssumption
      <4> QED BY <1>4, <4>1, <4>2, <4>4
    <3> QED BY <3>1, <3>2
  <2>2. ASSUME NEW j \in ConfirmKey, artifact'[j].state = "awaiting"
        PROVE  artifact'[j].conv \in Chat /\ pending'[artifact'[j].conv] = j
    <3>1. CASE j = k
      BY <1>1, <1>4, <3>1 DEF TicketInv, TicketTypeOK
    <3>2. CASE j # k
      <4>1. j # pending[c] /\ artifact'[j] = artifact[j]
        BY <1>4, <2>2, <3>2
      <4>2. artifact[j].conv \in Chat /\ pending[artifact[j].conv] = j
        BY <2>2, <4>1 DEF TicketInv, PendingAwaits
      <4> QED BY <1>1, <4>1, <4>2 DEF TicketInv, TicketTypeOK
    <3> QED BY <3>1, <3>2
  <2> QED BY <2>1, <2>2 DEF PendingAwaits
<1>10. ConfirmedHasTicket'
  BY <1>1, <1>4 DEF TicketInv, ConfirmedHasTicket
<1> QED BY <1>6, <1>7, <1>8, <1>9, <1>10 DEF TicketInv

LEMMA RestartStep ==
  ASSUME TicketInv, Restart
  PROVE  TicketInv'
<1>1. /\ UNCHANGED tickets
      /\ \A k \in ConfirmKey : artifact'[k] = Unknown
      /\ \A c \in Chat : pending'[c] = NoKey
      /\ \A q \in Request : write'[q] = NoWrite
      /\ \A q \in Request : request'[q] = IF request[q].pc = "waiting"
                                        THEN [request[q] EXCEPT !.pc = "lost"]
                                        ELSE request[q]
  BY DEF Restart
<1>2. \A q \in Request : /\ request[q] \in Handler /\ request'[q] \in Handler
                         /\ request'[q].pc # "waiting"
                         /\ request'[q].pc = "idle" <=> request[q].pc = "idle"
                         /\ request'[q].key = request[q].key
                         /\ request'[q].conv = request[q].conv
                         /\ request'[q].content = request[q].content
                         /\ request'[q].answer = request[q].answer
                         /\ request'[q].no = request[q].no
  <2> SUFFICES ASSUME NEW q \in Request
               PROVE  /\ request[q] \in Handler /\ request'[q] \in Handler
                      /\ request'[q].pc # "waiting"
                      /\ request'[q].pc = "idle" <=> request[q].pc = "idle"
                      /\ request'[q].key = request[q].key
                      /\ request'[q].conv = request[q].conv
                      /\ request'[q].content = request[q].content
                      /\ request'[q].answer = request[q].answer
                      /\ request'[q].no = request[q].no
    OBVIOUS
  <2>1. request[q] \in Handler
    BY DEF TicketInv, TicketTypeOK
  <2>2. CASE request[q].pc = "waiting"
    <3>1. request'[q] = [request[q] EXCEPT !.pc = "lost"]
      BY <1>1, <2>2
    <3> QED BY <2>1, <2>2, <3>1 DEF Handler
  <2>3. CASE request[q].pc # "waiting"
    BY <1>1, <2>1, <2>3 DEF Handler
  <2> QED BY <2>2, <2>3
<1>3. TicketTypeOK'
  <2>1. NoWrite \in Write /\ Unknown \in Artifact
    BY DEF NoWrite, Write, Unknown, Artifact
  <2> QED BY <1>1, <1>2, <2>1 DEF TicketInv, TicketTypeOK, Restart
<1>4. WriteHasCall'
  BY <1>1, <1>2 DEF TicketInv, WriteHasCall
<1>5. OneTicketPerKey'
  BY <1>1 DEF TicketInv, OneTicketPerKey
<1>6. WriteIsOwnTicket'
  BY <1>1 DEF WriteIsOwnTicket, NoWrite
<1>7. AnswerIsOwnTicket'
  BY <1>1, <1>2 DEF TicketInv, AnswerIsOwnTicket
<1>8. WaitingMatchesPreview'
  BY <1>2 DEF WaitingMatchesPreview
<1>9. PendingAwaits' /\ ConfirmedHasTicket'
  BY <1>1 DEF PendingAwaits, ConfirmedHasTicket, Unknown
<1> QED BY <1>3, <1>4, <1>5, <1>6, <1>7, <1>8, <1>9 DEF TicketInv

-----------------------------------------------------------------------------
(* The theorems.                                                           *)

\* The invariant holds in every reachable state, whatever requests, timeouts,
\* previews, cancels and restarts come in which order.
THEOREM TicketInvariant == TicketSpec => []TicketInv
<1>1. TicketInit => TicketInv
  BY DEF TicketInit, TicketInv, TicketTypeOK, WriteHasCall, OneTicketPerKey,
         WriteIsOwnTicket, AnswerIsOwnTicket, WaitingMatchesPreview, PendingAwaits,
         ConfirmedHasTicket, Unknown, NoHandler, NoWrite, Artifact, Handler, Write
<1>2. TicketInv /\ [TicketNext]_ticketVars => TicketInv'
  <2> SUFFICES ASSUME TicketInv, [TicketNext]_ticketVars PROVE TicketInv'
    OBVIOUS
  <2>1. ASSUME NEW q \in Request,
               NEW k \in ConfirmKey \cup {NoKey}, NEW c \in Chat, NEW d \in Content,
               Submit(q, k, c, d) \/ Confirm(q, k, c, d)
        PROVE  TicketInv'
    BY <2>1, SubmitStep, ConfirmStep
  <2>2. ASSUME NEW q \in Request,
               Find(q) \/ Insert(q) \/ Refind(q) \/ Timeout(q) \/ Answer(q)
        PROVE  TicketInv'
    BY <2>2, FindStep, InsertStep, RefindStep, TimeoutStep, AnswerStep
  <2>3. ASSUME NEW k \in ConfirmKey, NEW c \in Chat, NEW d \in Content, Preview(k, c, d)
        PROVE  TicketInv'
    BY <2>3, PreviewStep
  <2>4. ASSUME NEW c \in Chat, Cancel(c) PROVE TicketInv'
    BY <2>4, CancelStep
  <2>5. CASE Restart
    BY <2>5, RestartStep
  <2>6. CASE UNCHANGED ticketVars
    BY <2>6 DEF TicketInv, TicketTypeOK, WriteHasCall, OneTicketPerKey, Made,
         WriteIsOwnTicket, AnswerIsOwnTicket, WaitingMatchesPreview, PendingAwaits,
         ConfirmedHasTicket, ticketVars, ledgerVars
  <2> QED BY <2>1, <2>2, <2>3, <2>4, <2>5, <2>6 DEF TicketNext
<1> QED BY <1>1, <1>2, PTL DEF TicketSpec

\* One confirmation key makes at most one ticket.
THEOREM TicketOnePerKey == TicketSpec => []OneTicketPerKey
<1>1. TicketInv => OneTicketPerKey
  BY DEF TicketInv
<1> QED BY <1>1, TicketInvariant, PTL

\* A client is told only of a ticket of its own conversation and content.
THEOREM TicketAnswerIsOwn == TicketSpec => []AnswerIsOwnTicket
<1>1. TicketInv => AnswerIsOwnTicket
  BY DEF TicketInv
<1> QED BY <1>1, TicketInvariant, PTL

\* A confirmed preview names a ticket that says what the preview said.
THEOREM TicketConfirmedHasTicket == TicketSpec => []ConfirmedHasTicket
<1>1. TicketInv => ConfirmedHasTicket
  BY DEF TicketInv
<1> QED BY <1>1, TicketInvariant, PTL

\* A conversation has at most one preview that awaits its confirmation.
THEOREM TicketAwaitingIsPending == TicketSpec => []AwaitingIsPending
<1>1. TicketInv => AwaitingIsPending
  BY TicketAssumption DEF TicketInv, TicketTypeOK, PendingAwaits, AwaitingIsPending
<1> QED BY <1>1, TicketInvariant, PTL

\* A preview that was confirmed or cancelled is never confirmed or cancelled
\* again: both happen to the pending preview only, which awaits its confirmation.
THEOREM TicketSettledIsFinal == TicketSpec => SettledIsFinal
<1>1. ASSUME TicketInv, TicketNext, NEW j \in ConfirmKey,
             artifact[j].state \in {"confirmed", "cancelled"}
      PROVE  artifact'[j].state \in {artifact[j].state, "unknown"}
  <2>1. \A c \in Chat : pending[c] # j
    BY <1>1, TicketAssumption DEF TicketInv, PendingAwaits
  <2>2. CASE UNCHANGED artifact
    BY <2>2
  <2>3. ASSUME NEW q \in Request, Answer(q), ~UNCHANGED artifact
        PROVE  artifact'[j] = artifact[j]
    <3>1. PICK k \in ConfirmKey : /\ pending[request[q].conv] = k
                           /\ artifact' = [artifact EXCEPT ![k].state = "confirmed",
                                                          ![k].no = write[q].no]
      BY <1>1, <2>3 DEF Answer, Mark, ledgerVars, TicketInv, TicketTypeOK, Handler
    <3>2. request[q].conv \in Chat
      BY <1>1, <2>3 DEF Answer, TicketInv, WriteHasCall
    <3> QED BY <1>1, <2>1, <3>1, <3>2 DEF TicketInv, TicketTypeOK
  <2>4. ASSUME NEW k \in ConfirmKey, NEW c \in Chat, NEW d \in Content, Preview(k, c, d)
        PROVE  artifact'[j] = artifact[j]
    <3>1. k # j /\ artifact'[j] = Cancelled(c)[j]
      BY <1>1, <2>4, CancelledArtifacts DEF Preview, Fresh, PutPending
    <3> QED BY <1>1, <2>1, <3>1, CancelledArtifacts
  <2>5. ASSUME NEW c \in Chat, Cancel(c) PROVE artifact'[j] = artifact[j]
    BY <1>1, <2>1, <2>5, CancelledArtifacts DEF Cancel
  <2>6. CASE Restart
    BY <2>6 DEF Restart, Unknown
  <2> QED BY <1>1, <2>2, <2>3, <2>4, <2>5, <2>6, ZenonT(30)
          DEF TicketNext, Submit, Confirm, Find, Insert, Refind, Timeout, ledgerVars
<1>2. TicketInv /\ [TicketNext]_ticketVars
        => [\A k \in ConfirmKey : artifact[k].state \in {"confirmed", "cancelled"} =>
              artifact'[k].state \in {artifact[k].state, "unknown"}]_ticketVars
  BY <1>1
<1> QED BY <1>2, TicketInvariant, PTL DEF TicketSpec, SettledIsFinal

=============================================================================
