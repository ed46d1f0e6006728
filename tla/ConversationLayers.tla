------------------------- MODULE ConversationLayers --------------------------
(***************************************************************************)
(* The three layers of a conversation's history: a summary of the oldest   *)
(* messages, a middle layer that is shown shortened, and the latest        *)
(* messages as they are (app/context.py, app/store.py, prepare_turn of     *)
(* app/routers/chat.py), with the background summaries of                  *)
(* app/summarizer.py.                                                      *)
(*                                                                         *)
(* One conversation; its message ids are 1, 2, ...  Two anchors bound the  *)
(* layers: ids up to summaryUpto are in the summary, those up to           *)
(* layer1From in the middle layer.  0 stands for an anchor that is NULL,   *)
(* as in split_layers.  A text is its number of tokens.                    *)
(*                                                                         *)
(* The store's coroutines never suspend: a worker's event loop runs a turn *)
(* or a summary task from one await to the next without a break, and what  *)
(* can come between two of its transactions is another worker.             *)
(***************************************************************************)
EXTENDS Integers, Sequences, FiniteSets, FiniteSetsExt

CONSTANTS
  Worker,
  Task,          \* bound: summary tasks that exist at a time
  MaxMessages,   \* bound: messages of the conversation
  Sizes,         \* tokens of a message
  Layer1Budget, Layer2Budget, Sliding, HeadTokens, SummaryTokens,
  NoWorker

ASSUME LayersAssumption ==
  /\ NoWorker \notin Worker
  /\ MaxMessages \in Nat
  /\ Sizes \subseteq Nat
  /\ {Layer1Budget, Layer2Budget, Sliding, HeadTokens, SummaryTokens} \subseteq Nat

VARIABLES
  messages,      \* table messages: role and tokens of each id
  layer1From, summaryUpto,   \* the anchors of the conversation's row
  segments,      \* table conversation_summaries
  turn,          \* the turn under way, under the lease of the conversation
  inflight,      \* the workers whose SummaryService has the conversation in _inflight
  task           \* the summary tasks of all workers

layersVars == <<messages, layer1From, summaryUpto, segments, turn, inflight, task>>

Id == 0..MaxMessages
Message == [role: {"user", "assistant"}, tokens: Sizes]
Segment == [seq: Nat, from: Id, upto: Id]
Turn == [pc: {"none", "read", "graph"}, worker: Worker \cup {NoWorker},
         upto: Id, from: Id,     \* the anchors read
         summary: Nat, layer2: Nat, layer1: Nat]  \* tokens shown to the model
SummaryTask == [pc: {"off", "new", "read", "model", "done"},
                worker: Worker \cup {NoWorker}, limit: Id, upto: Id, seq: Nat]

NoTurn == [pc |-> "none", worker |-> NoWorker, upto |-> 0, from |-> 0,
           summary |-> 0, layer2 |-> 0, layer1 |-> 0]
NoTask == [pc |-> "off", worker |-> NoWorker, limit |-> 0, upto |-> 0, seq |-> 0]

LayersTypeOK ==
  /\ messages \in Seq(Message) /\ Len(messages) <= MaxMessages
  /\ layer1From \in Id /\ summaryUpto \in Id
  /\ segments \subseteq Segment
  /\ turn \in Turn
  /\ inflight \subseteq Worker
  /\ task \in [Task -> SummaryTask]

LayersInit ==
  /\ messages = <<>>
  /\ layer1From = 0 /\ summaryUpto = 0
  /\ segments = {}
  /\ turn = NoTurn
  /\ inflight = {}
  /\ task = [k \in Task |-> NoTask]

(***************************************************************************)
(* app/context.py                                                          *)
(***************************************************************************)
Lesser(a, b) == IF a < b THEN a ELSE b
Less(a, b) == IF a > b THEN a - b ELSE 0

\* The sum of a sequence of numbers.
Total(amounts) ==
  LET total[n \in 0 .. Len(amounts)] ==
        IF n = 0 THEN 0 ELSE total[n - 1] + amounts[n]
  IN total[Len(amounts)]

Tokens(rows) == Total([i \in DOMAIN rows |-> rows[i].tokens])

\* split_layers: the rows after an anchor, and those between two.
After(rows, anchor) == SubSeq(rows, anchor + 1, Len(rows))
Between(rows, upto, from) == SubSeq(rows, upto + 1, from)

\* The middle layer shows the whole of a user's text and the head of an answer.
Shown(m) == IF m.role = "user" THEN m.tokens ELSE Lesser(m.tokens, HeadTokens + 1)
Layer2Tokens(rows) == Total([i \in DOMAIN rows |-> Shown(rows[i])])

\* MUTATED: cuts within a round, as trim_messages does without start_on.
CascadeAnyRow(rows, anchor) ==
  LET fit == {i \in anchor + 1 .. Len(rows) :
                Tokens(SubSeq(rows, i, Len(rows))) <= Layer1Budget}
  IN IF Tokens(After(rows, anchor)) <= Layer1Budget THEN anchor
     ELSE Min(fit \cup {Len(rows)}) - 1

\* cascade_layer1: when the latest layer is over its budget it is cut back to
\* the longest suffix within it that starts with a user's message (langchain's
\* trim_messages), or to the last round if none is.
Cascade(rows, anchor) ==
  LET rounds == {i \in anchor + 1 .. Len(rows) : rows[i].role = "user"}
      fit == {i \in rounds : Tokens(SubSeq(rows, i, Len(rows))) <= Layer1Budget}
  IN IF Tokens(After(rows, anchor)) <= Layer1Budget THEN anchor
     ELSE IF fit # {} THEN Min(fit) - 1 ELSE Max(rounds) - 1

\* build_layered: the middle layer gives way from its oldest end, and the
\* summary gets what is left.  The anchors stay.
Kept(rows, budget) ==
  LET fit == {i \in DOMAIN rows : Layer2Tokens(SubSeq(rows, i, Len(rows))) <= budget}
  IN SubSeq(rows, Min(fit \cup {Len(rows) + 1}), Len(rows))

Layered(layer1, layer2, summary) ==
  LET l1 == Tokens(layer1)
      l2 == Layer2Tokens(Kept(layer2, Less(Sliding, l1)))
  IN [layer1 |-> l1, layer2 |-> l2,
      summary |-> Lesser(summary, Less(Less(Sliding, l1), l2))]

(***************************************************************************)
(* A worker's event loop                                                   *)
(***************************************************************************)
\* The worker is between two awaits of nobody.
Free(w) ==
  /\ ~ (turn.pc = "read" /\ turn.worker = w)
  /\ \A k \in Task : ~ (task[k].pc = "read" /\ task[k].worker = w)

\* prepare_turn: the rows and the anchors are read ...
BeginTurn(w) ==
  /\ turn.pc = "none"
  /\ Free(w)
  /\ turn' = [NoTurn EXCEPT !.pc = "read", !.worker = w,
                            !.upto = summaryUpto, !.from = layer1From,
                            !.summary = SummaryTokens * Cardinality(segments)]
  /\ UNCHANGED <<messages, layer1From, summaryUpto, segments, inflight, task>>

\* maybe_trigger: a task with the anchor of the turn as its limit, unless one
\* of this worker is in flight.
Trigger(w, limit) ==
  IF w \in inflight
    THEN UNCHANGED <<inflight, task>>
    ELSE /\ inflight' = inflight \cup {w}
         /\ \E k \in Task :
              /\ task[k].pc = "off"
              /\ task' = [task EXCEPT ![k] = [NoTask EXCEPT !.pc = "new",
                                                !.worker = w, !.limit = limit]]

\* ... and the latest layer is cut back, a summary is started when the middle
\* layer is over its budget, and the model's view is built.
PrepareTurn ==
  /\ turn.pc = "read"
  /\ LET from == Cascade(messages, turn.from)
         layer2 == Between(messages, turn.upto, from)
         view == Layered(After(messages, from), layer2, turn.summary) IN
     /\ layer1From' = IF from # turn.from THEN from ELSE layer1From
     /\ IF Layer2Tokens(layer2) > Layer2Budget
          THEN Trigger(turn.worker, from)
          ELSE UNCHANGED <<inflight, task>>
     /\ turn' = [turn EXCEPT !.pc = "graph", !.from = from, !.layer1 = view.layer1,
                             !.layer2 = view.layer2, !.summary = view.summary]
  /\ UNCHANGED <<messages, summaryUpto, segments>>

\* log_node appends the user's message and the last text of the assistant, if
\* there is one; a turn that fails appends nothing.
EndTurn ==
  /\ turn.pc = "graph" /\ Free(turn.worker)
  /\ turn' = NoTurn
  /\ \/ UNCHANGED messages
     \/ \E u, a \in Sizes : \E round \in {<<[role |-> "user", tokens |-> u]>>,
                                          <<[role |-> "user", tokens |-> u],
                                            [role |-> "assistant", tokens |-> a]>>} :
          /\ Len(messages) + Len(round) <= MaxMessages
          /\ messages' = messages \o round
  /\ UNCHANGED <<layer1From, summaryUpto, segments, inflight, task>>

\* _run: reads the anchors, ends if there is nothing after summary_upto ...
Done(k) ==
  /\ task' = [task EXCEPT ![k].pc = "done"]
  /\ inflight' = inflight \ {task[k].worker}

ReadAnchors(k) ==
  /\ task[k].pc = "new" /\ Free(task[k].worker)
  /\ IF summaryUpto < task[k].limit
       THEN /\ task' = [task EXCEPT ![k].pc = "read", ![k].upto = summaryUpto]
            /\ UNCHANGED inflight
       ELSE Done(k)
  /\ UNCHANGED <<messages, layer1From, summaryUpto, segments, turn>>

\* ... takes the next number (next_seq), and asks the model.
NextSeq == Max({s.seq : s \in segments} \cup {0}) + 1

ReadSeq(k) ==
  /\ task[k].pc = "read"
  /\ task' = [task EXCEPT ![k].pc = "model", ![k].seq = NextSeq]
  /\ UNCHANGED <<messages, layer1From, summaryUpto, segments, turn, inflight>>

\* The model fails or answers nothing.
ModelFails(k) ==
  /\ task[k].pc = "model" /\ Free(task[k].worker)
  /\ Done(k)
  /\ UNCHANGED <<messages, layer1From, summaryUpto, segments, turn>>

\* MUTATED: the anchor is moved in a transaction of its own, that is lost.
AppendSummaryOnly(k) ==
  /\ task[k].pc = "model" /\ Free(task[k].worker)
  /\ segments' = segments \cup
       {[seq |-> NextSeq, from |-> task[k].upto + 1, upto |-> task[k].limit]}
  /\ Done(k)
  /\ UNCHANGED <<messages, layer1From, summaryUpto, turn>>

\* append_summary: one transaction, refused by uk_conv_seq if the number is
\* taken.  The finally of _run follows in the same step of the loop.
AppendSummary(k) ==
  /\ task[k].pc = "model" /\ Free(task[k].worker)
  /\ IF \E s \in segments : s.seq = task[k].seq
       THEN UNCHANGED <<segments, summaryUpto>>
       ELSE /\ segments' = segments \cup
                 {[seq |-> task[k].seq, from |-> task[k].upto + 1, upto |-> task[k].limit]}
            /\ summaryUpto' = task[k].limit
  /\ Done(k)
  /\ UNCHANGED <<messages, layer1From, turn>>

\* The done-callback discards the conversation once more, in a later step.
Callback(k) ==
  /\ task[k].pc = "done" /\ Free(task[k].worker)
  /\ inflight' = inflight \ {task[k].worker}
  /\ task' = [task EXCEPT ![k] = NoTask]
  /\ UNCHANGED <<messages, layer1From, summaryUpto, segments, turn>>

\* A process ends: its tasks end with it, its turn when the lease is recovered.
Crash(w) ==
  /\ inflight' = inflight \ {w}
  /\ task' = [k \in Task |-> IF task[k].worker = w THEN NoTask ELSE task[k]]
  /\ turn' = IF turn.worker = w THEN NoTurn ELSE turn
  /\ inflight' # inflight \/ task' # task \/ turn' # turn
  /\ UNCHANGED <<messages, layer1From, summaryUpto, segments>>

LayersNext ==
  \/ \E w \in Worker : BeginTurn(w) \/ Crash(w)
  \/ PrepareTurn
  \/ EndTurn
  \/ \E k \in Task : ReadAnchors(k) \/ ReadSeq(k) \/ ModelFails(k)
                       \/ AppendSummary(k) \/ Callback(k)

LayersSpec == LayersInit /\ [][LayersNext]_layersVars

(***************************************************************************)
(* Properties                                                              *)
(***************************************************************************)
\* The segments are numbered from 1 and follow each other without a gap or an
\* overlap up to the anchor: a message is summarised once, and none is behind
\* the anchor without being in a segment (models.py ConversationSummary).
SegmentsTile ==
  /\ {s.seq : s \in segments} = 1 .. Cardinality(segments)
  /\ \A s \in segments :
       s.from = IF s.seq = 1 THEN 1
                ELSE (CHOOSE r \in segments : r.seq = s.seq - 1).upto + 1
  /\ \A s \in segments : s.from <= s.upto
  /\ summaryUpto = IF segments = {} THEN 0
                   ELSE (CHOOSE s \in segments : s.seq = Cardinality(segments)).upto

\* What a turn shows its model fits the window, unless the last round alone
\* does not; and the latest layer starts with a user's message.
TurnFits ==
  turn.pc = "graph" =>
    LET latest == After(messages, turn.from)
        rounds == {i \in DOMAIN latest : latest[i].role = "user"} IN
    /\ latest # <<>> => latest[1].role = "user"
    /\ turn.layer1 <= Layer1Budget \/ Cardinality(rounds) = 1
    /\ turn.summary + turn.layer2 + turn.layer1 <= Sliding \/ turn.layer1 > Sliding
=============================================================================
