--------------------------- MODULE AdaptiveRouting ----------------------------
(***************************************************************************)
(* Requests of one conversation through its three ways in: the chat         *)
(* endpoint, which runs under the lease of the conversation; the            *)
(* multi-agent endpoint (app/multi_agent/api.py), which takes no lease; and *)
(* adaptive routing (app/adaptive_routing/), which decides by rules, and in *)
(* one band by a judge, which of the two executors answers.                 *)
(*                                                                         *)
(* Of a question it is told which orders it names, whether it compares,     *)
(* whether it asks what can be done with an order and whether it corrects   *)
(* an earlier one.  What happens inside a run is left to the modules        *)
(* ChatExecution and MultiAgentRun; here a run of the chat may lose its      *)
(* lease, be resumed as another attempt and so be at work twice, and each    *)
(* attempt stores the turn it comes to (store.append is not fenced).         *)
(***************************************************************************)
EXTENDS Integers, Sequences, FiniteSets, SequencesExt, FiniteSetsExt

CONSTANTS
  Inquiry,     \* requests
  OrderId,     \* orders
  Question,    \* what a request may ask
  Earlier,     \* what the conversation may begin with
  Naming,      \* the orders that a reply, or a history given by the client, may name
  Visible,     \* rows of the history that the router is given
  MaxAttempts, \* bound: how often a run is begun
  MaxResumed   \* bound: requests whose run is resumed

ASSUME RoutingAssumption ==
  /\ Question \subseteq [names: SUBSET OrderId, compares: BOOLEAN, acts: BOOLEAN,
                         corrects: BOOLEAN]
  /\ IsFiniteSet(OrderId) /\ Naming \subseteq SUBSET OrderId
  /\ \A rows \in Earlier :
       /\ rows \in Seq(Range(rows))
       /\ \A i \in DOMAIN rows : rows[i].of \notin Inquiry /\ rows[i].names \subseteq OrderId
  /\ Visible \in Nat /\ MaxAttempts \in Nat \ {0} /\ MaxResumed \in Nat

VARIABLES
  dialogue,  \* the rows of the conversation
  holder,    \* who holds the lease of the conversation, "none" if it is free
  judged,    \* the router has a judge
  inquiry    \* each request

routingVars == <<dialogue, holder, judged, inquiry>>

NoQuestion == [names |-> {}, compares |-> FALSE, acts |-> FALSE, corrects |-> FALSE]

NoRequest == [pc |-> "idle", way |-> "none", question |-> NoQuestion, given |-> {},
              routed |-> {}, arm |-> "none", seen |-> {}, error |-> "none",
              attempt |-> 0,   \* attempts begun
              alive |-> {},    \* those whose task is at work
              logged |-> {}]   \* those that have stored their turn

RoutingInit ==
  /\ dialogue \in Earlier
  /\ holder = "none"
  /\ judged \in BOOLEAN
  /\ inquiry = [r \in Inquiry |-> NoRequest]

-----------------------------------------------------------------------------
(* The rules: extract_routing_features and AdaptiveRouter. *)

\* The orders that a row names.
NamedIn(rows) == UNION {row.names : row \in Range(rows)}

LastOf(s, n) == SubSeq(s, Max({1, Len(s) - n + 1}), Len(s))

Entities(q, routed) == Cardinality(q.names \cup routed)

\* cross_order_comparison and revision_with_order_dependency; all else is single.
RuleArm(q, routed) ==
  IF Entities(q, routed) >= 2 /\ (q.compares \/ (q.corrects /\ q.acts))
  THEN "multi" ELSE "single"

NeedsJudge(q, routed) ==
  Entities(q, routed) >= 2 /\ q.acts /\ ~q.compares /\ ~q.corrects

-----------------------------------------------------------------------------
(* The three ways in. *)

\* Both executors read the history of the conversation when they begin.
Started(req, arm) ==
  [req EXCEPT !.arm = arm, !.seen = NamedIn(dialogue),
              !.pc = IF arm = "single" THEN "reserve" ELSE "graph"]

AskChat(r, q) ==
  inquiry' = [inquiry EXCEPT ![r] =
    Started([NoRequest EXCEPT !.way = "chat", !.question = q], "single")]

AskMulti(r, q) ==
  inquiry' = [inquiry EXCEPT ![r] =
    Started([NoRequest EXCEPT !.way = "multi", !.question = q], "multi")]

\* respond: the history that the client gives counts for the decision if the
\* conversation has none.
AskAdaptive(r, q, given) ==
  LET routed == IF dialogue = <<>> THEN given ELSE NamedIn(LastOf(dialogue, Visible))
      req == [NoRequest EXCEPT !.way = "adaptive", !.question = q, !.routed = routed,
                               !.given = IF dialogue = <<>> THEN given ELSE {}]
  IN  inquiry' = [inquiry EXCEPT ![r] =
        IF judged /\ NeedsJudge(q, routed) THEN [req EXCEPT !.pc = "judge"]
        ELSE Started(req, RuleArm(q, routed))]

Ask(r) ==
  /\ inquiry[r].pc = "idle"
  /\ \E q \in Question :
       \/ AskChat(r, q)
       \/ AskMulti(r, q)
       \/ \E given \in Naming : AskAdaptive(r, q, given)
  /\ UNCHANGED <<dialogue, holder, judged>>

\* Below the threshold the rules decide.
Judge(r) ==
  /\ inquiry[r].pc = "judge"
  /\ \E signal \in {"single", "multi", "unsure"} :
       LET rule == RuleArm(inquiry[r].question, inquiry[r].routed) IN
         inquiry' = [inquiry EXCEPT ![r] = Started(@, IF signal = "unsure" THEN rule ELSE signal)]
  /\ UNCHANGED <<dialogue, holder, judged>>

Ends(r, error) == inquiry' = [inquiry EXCEPT ![r].pc = "done", ![r].error = error]

\* The judge raises: nothing is executed.
JudgeFails(r) ==
  /\ inquiry[r].pc = "judge"
  /\ Ends(r, "failed")
  /\ UNCHANGED <<dialogue, holder, judged>>

-----------------------------------------------------------------------------
(* The executors. *)

\* A task is created for a further attempt.
Begun(req) == [req EXCEPT !.pc = "run", !.attempt = @ + 1, !.alive = @ \cup {req.attempt + 1}]

\* MUTATED: a run that is refused is left to the other executor.
FallsBack(r) ==
  /\ inquiry[r].pc = "reserve"
  /\ \/ holder = "none" /\ holder' = r /\ inquiry' = [inquiry EXCEPT ![r] = Begun(@)]
     \/ holder # "none" /\ UNCHANGED holder
        /\ inquiry' = [inquiry EXCEPT ![r].pc = "graph", ![r].error = "refused"]
  /\ UNCHANGED <<dialogue, judged>>

\* reserve_run; a conversation that is being answered refuses.  One that takes an
\* expired lease is a Lapse and this.
Reserve(r) ==
  /\ inquiry[r].pc = "reserve"
  /\ \/ holder = "none" /\ holder' = r /\ inquiry' = [inquiry EXCEPT ![r] = Begun(@)]
     \/ holder # "none" /\ UNCHANGED holder /\ Ends(r, "refused")
  /\ UNCHANGED <<dialogue, judged>>

\* recover_expired_lease.  The tasks of the run live on.
Lapse(r) ==
  /\ inquiry[r].pc = "run" /\ holder = r
  /\ holder' = "none"
  /\ inquiry' = [inquiry EXCEPT ![r].pc = "interrupted"]
  /\ UNCHANGED <<dialogue, judged>>

\* resume_run: begins from the question again, also under a lease that another run
\* has let expire; that run is not told.
Resume(r) ==
  /\ inquiry[r].pc = "interrupted" /\ inquiry[r].attempt < MaxAttempts
  /\ Cardinality({q \in Inquiry : inquiry[q].attempt > 1} \cup {r}) <= MaxResumed
  /\ holder' = r
  /\ inquiry' = [inquiry EXCEPT ![r] = Begun(@)]
  /\ UNCHANGED <<dialogue, judged>>

\* The rows of a turn: whose they are, the executor and its attempt.  A reply may
\* name orders that nobody named before.
QuestionOf(r, by, a) ==
  [of |-> r, part |-> "question", by |-> by, attempt |-> a, names |-> inquiry[r].question.names]
ReplyOf(r, by, a, named) ==
  [of |-> r, part |-> "reply", by |-> by, attempt |-> a, names |-> named]

\* store.append, in one transaction: the question alone, or with its reply.
StoreQuestion(r, by, a) == dialogue' = Append(dialogue, QuestionOf(r, by, a))
StoreTurn(r, by, a) ==
  \E named \in Naming :
    dialogue' = dialogue \o <<QuestionOf(r, by, a), ReplyOf(r, by, a, named)>>

\* The log node of an attempt, whoever holds the lease by now; a turn without any
\* text of the assistant is stored as the question alone.
LogTurn(r) ==
  \E a \in inquiry[r].alive \ inquiry[r].logged :
    /\ StoreQuestion(r, "run", a) \/ StoreTurn(r, "run", a)
    /\ inquiry' = [inquiry EXCEPT ![r].logged = @ \cup {a}]
    /\ UNCHANGED <<holder, judged>>

\* A task of the run ends it: completed, if its turn is stored, failed or cancelled,
\* or interrupted.  An earlier attempt of the same process passes the fence too.  A
\* task that stops with its process, or that the fence refuses, takes no more steps.
EndRun(r) ==
  /\ inquiry[r].pc = "run"
  /\ holder' = IF holder = r THEN "none" ELSE holder
  /\ \E a \in inquiry[r].alive, pc \in {"done", "interrupted"}, error \in {"none", "failed"} :
       /\ pc = "done" /\ error = "none" => a \in inquiry[r].logged
       /\ pc = "interrupted" => error = "none"
       /\ inquiry' = [inquiry EXCEPT ![r].pc = pc, ![r].error = error, ![r].alive = @ \ {a}]
  /\ UNCHANGED <<dialogue, judged>>

\* The graph of agents, or the lack of its runtime.  The process may stop when the
\* turn is stored, before the client is told.
EndGraph(r) ==
  /\ inquiry[r].pc = "graph"
  /\ \/ /\ StoreTurn(r, "graph", 1)
        /\ \E error \in {"none", "lost"} :
             inquiry' = [inquiry EXCEPT ![r].pc = "done", ![r].error = error,
                                        ![r].attempt = 1, ![r].logged = {1}]
     \/ UNCHANGED dialogue /\ Ends(r, "failed")
  /\ UNCHANGED <<holder, judged>>

RoutingNext ==
  \E r \in Inquiry :
    \/ Ask(r) \/ Judge(r) \/ JudgeFails(r) \/ Reserve(r) \/ Lapse(r) \/ Resume(r)
    \/ LogTurn(r) \/ EndRun(r) \/ EndGraph(r)

RoutingSpec == RoutingInit /\ [][RoutingNext]_routingVars

-----------------------------------------------------------------------------
(* Properties. *)

RowsOf(r) == {i \in DOMAIN dialogue : dialogue[i].of = r}

\* Two rows of one turn.
Together(question, reply) ==
  /\ question.part = "question" /\ reply.part = "reply"
  /\ question.of = reply.of /\ question.by = reply.by /\ question.attempt = reply.attempt

\* A reply stands right after the question of its own attempt, although three ways
\* in and the attempts of one run append beside each other; only a run of the chat
\* leaves a question alone.
RepliesFollow ==
  \A r \in Inquiry : \A i \in RowsOf(r) :
    /\ dialogue[i].part = "reply" => i > 1 /\ Together(dialogue[i - 1], dialogue[i])
    /\ dialogue[i].part = "question" /\ dialogue[i].by = "graph" =>
         i < Len(dialogue) /\ Together(dialogue[i], dialogue[i + 1])

\* A question is stored at most once by an attempt that was begun, so more than
\* once only if its run was resumed.
StoredOnce ==
  \A r \in Inquiry : \A i, j \in RowsOf(r) :
    /\ dialogue[i].attempt \in 1 .. inquiry[r].attempt
    /\ (/\ dialogue[i].part = dialogue[j].part
        /\ dialogue[i].attempt = dialogue[j].attempt) => i = j

\* dispatcher.py:106: all that is stored of a request is of the executor that it was
\* routed to; one that is told of an answer has it in the conversation, and one that
\* is refused, or that the agents fail at, leaves nothing there.
AnsweredByOne ==
  \A r \in Inquiry :
    /\ \A i \in RowsOf(r) : dialogue[i].by = IF inquiry[r].arm = "single" THEN "run" ELSE "graph"
    /\ inquiry[r].pc = "done" =>
         /\ inquiry[r].error = "none" => RowsOf(r) # {}
         /\ inquiry[r].error = "refused" => RowsOf(r) = {}
         /\ inquiry[r].error = "failed" /\ inquiry[r].arm # "single" => RowsOf(r) = {}

\* Only a question about two orders is routed to the agents, and the agents are
\* told of both: by the question, or by the history as they read it after the
\* judge has answered (policy.py:61-95, application.py:120-130).  Where the client
\* gave the history this does not hold: neither executor is shown that.
RoutedOnTwoOrders ==
  \A r \in Inquiry :
    inquiry[r].way = "adaptive" /\ inquiry[r].arm = "multi" /\ inquiry[r].given = {} =>
      Cardinality(inquiry[r].question.names \cup inquiry[r].seen) >= 2

\* What the router promises of a request: that it goes where it belongs, and is
\* answered there and nowhere else, in turns that are never torn apart or mixed
\* (application.py:120-130, dispatcher.py:106, logging_node.py:33-44).
RequestIsRouted == RepliesFollow /\ StoredOnce /\ AnsweredByOne /\ RoutedOnTwoOrders

=============================================================================
