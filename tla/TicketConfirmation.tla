------------------------- MODULE TicketConfirmation --------------------------
(***************************************************************************)
(* Creating a ticket: the endpoints of app/routers/tickets.py, the write   *)
(* of app/tickets.py with its idempotency key, the tool engine's timeout   *)
(* around it, and the ledger of previews that await a confirmation         *)
(* (app/action_contracts/store.py), fed by the multi-agent runtime.        *)
(*                                                                         *)
(* The write runs in a thread of its own: the engine stops waiting for it  *)
(* after timeout_seconds, but does not stop it.  The ledger is in memory   *)
(* and read and written only by the event loop, between awaits; tickets    *)
(* are rows of the database.  What a ticket says (description and type)    *)
(* is one element of Content.                                              *)
(***************************************************************************)
EXTENDS Naturals, FiniteSets

CONSTANTS
  Request,     \* the requests of clients, retries included
  Chat,        \* conversations
  Content,     \* what a ticket says
  ConfirmKey,  \* confirmation keys: of a preview, a button or a form
  TicketNo,    \* the numbers new_ticket_no draws from
  NoKey        \* no key, or no preview

ASSUME TicketAssumption == NoKey \notin Chat \cup Content \cup ConfirmKey \cup TicketNo

VARIABLES
  tickets,     \* table tickets
  artifact,    \* the newest ledger event of each key (latest_for_confirm_key)
  pending,     \* ActionSessionLedger._pending: the key, of each conversation
  request,     \* the handlers of the requests
  write        \* the thread that carries out a request's write

ledgerVars == <<artifact, pending>>
ticketVars == <<tickets, artifact, pending, request, write>>

Row == [no: TicketNo, key: ConfirmKey \cup {NoKey}, conv: Chat, content: Content]

Artifact == [state: {"unknown", "awaiting", "confirmed", "cancelled"},
             conv: Chat \cup {NoKey}, content: Content \cup {NoKey},
             no: TicketNo \cup {NoKey}]

Unknown == [state |-> "unknown", conv |-> NoKey, content |-> NoKey, no |-> NoKey]

Handler == [pc: {"idle", "waiting", "answered", "lost"},
            way: {"button", "confirm"},
            key: ConfirmKey \cup {NoKey}, conv: Chat \cup {NoKey}, content: Content \cup {NoKey},
            answer: {"none", "created", "conflict", "failed"}, no: TicketNo \cup {NoKey}]

NoHandler == [pc |-> "idle", way |-> "button", key |-> NoKey, conv |-> NoKey,
              content |-> NoKey, answer |-> "none", no |-> NoKey]

Write == [pc: {"off", "find", "insert", "refind", "returned"},
          result: {"none", "created", "conflict", "failed"}, no: TicketNo \cup {NoKey}]

NoWrite == [pc |-> "off", result |-> "none", no |-> NoKey]

TicketTypeOK ==
  /\ tickets \subseteq Row
  /\ artifact \in [ConfirmKey -> Artifact]
  /\ pending \in [Chat -> ConfirmKey \cup {NoKey}]
  /\ request \in [Request -> Handler]
  /\ write \in [Request -> Write]

-----------------------------------------------------------------------------
(* The write: create_ticket_idempotent.                                    *)

\* find_by_key.
WithKey(k) == {t \in tickets : t.key = k /\ k # NoKey}

Returned(q, result, no) ==
  write' = [write EXCEPT ![q] = [pc |-> "returned", result |-> result, no |-> no]]

\* MUTATED: a key that is already used always counts as a replay.
AdmitAny(q, t) == Returned(q, "created", t.no)

\* _admit: the same submission is answered with its ticket, any other refused.
Admit(q, t) ==
  IF t.conv = request[q].conv /\ t.content = request[q].content
  THEN Returned(q, "created", t.no)
  ELSE Returned(q, "conflict", NoKey)

\* The look-up before the insert.
Find(q) ==
  /\ write[q].pc = "find"
  /\ \/ \E t \in WithKey(request[q].key) : Admit(q, t)
     \/ /\ WithKey(request[q].key) = {}
        /\ write' = [write EXCEPT ![q].pc = "insert"]
     \/ Returned(q, "failed", NoKey)
  /\ UNCHANGED <<tickets, ledgerVars, request>>

\* MUTATED: the table has no unique constraint on the key.
InsertUnlessNumberTaken(q) ==
  /\ write[q].pc = "insert"
  /\ \E n \in TicketNo :
       LET row == [no |-> n, key |-> request[q].key, conv |-> request[q].conv,
                   content |-> request[q].content]
       IN /\ \A t \in tickets : t.no # n
          /\ tickets' = tickets \cup {row} /\ Returned(q, "created", n)
  /\ UNCHANGED <<ledgerVars, request>>

\* The insert, with a number that new_ticket_no draws at random.  The primary key
\* and the unique confirm_key refuse it if either is taken; then a request with
\* a key looks the key up once more and one without a key fails.
Insert(q) ==
  /\ write[q].pc = "insert"
  /\ \/ \E n \in TicketNo :
          LET row == [no |-> n, key |-> request[q].key, conv |-> request[q].conv,
                      content |-> request[q].content]
          IN IF (\A t \in tickets : t.no # n) /\ WithKey(row.key) = {}
             THEN tickets' = tickets \cup {row} /\ Returned(q, "created", n)
             ELSE /\ UNCHANGED tickets
                  /\ IF row.key = NoKey THEN Returned(q, "failed", NoKey)
                     ELSE write' = [write EXCEPT ![q].pc = "refind"]
     \/ UNCHANGED tickets /\ Returned(q, "failed", NoKey)
  /\ UNCHANGED <<ledgerVars, request>>

\* The look-up after the constraint refused the insert.
Refind(q) ==
  /\ write[q].pc = "refind"
  /\ \/ \E t \in WithKey(request[q].key) : Admit(q, t)
     \/ Returned(q, "failed", NoKey)
  /\ UNCHANGED <<tickets, ledgerVars, request>>

-----------------------------------------------------------------------------
(* The requests.                                                           *)

Body(pc, way, k, c, d, answer) ==
  [pc |-> pc, way |-> way, key |-> k, conv |-> c, content |-> d,
   answer |-> answer, no |-> NoKey]

\* ToolEngine.execute hands the write to a thread.
Accept(q, way, k, c, d) ==
  /\ request' = [request EXCEPT ![q] = Body("waiting", way, k, c, d, "none")]
  /\ write' = [write EXCEPT ![q].pc = "find"]

\* POST /api/tickets: the click is the confirmation, with a key of the page's own.
Submit(q, k, c, d) ==
  /\ request[q].pc = "idle"
  /\ k # NoKey => artifact[k].state = "unknown"
  /\ Accept(q, "button", k, c, d)
  /\ UNCHANGED <<tickets, ledgerVars>>

\* POST /api/tickets/confirm: a key the ledger knows must belong to this
\* conversation and this content, and its preview must not be cancelled.
Refused(k, c, d) ==
  /\ k # NoKey /\ artifact[k].state # "unknown"
  /\ artifact[k].conv # c \/ artifact[k].content # d \/ artifact[k].state = "cancelled"

Confirm(q, k, c, d) ==
  /\ request[q].pc = "idle"
  /\ IF Refused(k, c, d)
     THEN /\ request' = [request EXCEPT ![q] =
                           Body("answered", "confirm", k, c, d, "conflict")]
          /\ UNCHANGED write
     ELSE Accept(q, "confirm", k, c, d)
  /\ UNCHANGED <<tickets, ledgerVars>>

\* The engine gives up waiting: the answer is 502, and the thread goes on unless
\* it has not started yet.
Timeout(q) ==
  /\ request[q].pc = "waiting" /\ write[q].pc # "returned"
  /\ request' = [request EXCEPT ![q].pc = "answered", ![q].answer = "failed"]
  /\ \/ UNCHANGED write
     \/ write[q].pc = "find" /\ write' = [write EXCEPT ![q] = NoWrite]
  /\ UNCHANGED <<tickets, ledgerVars>>

\* mark_confirmed, when the preview is still the pending one.
Mark(q, k, no) ==
  IF pending[request[q].conv] = k
  THEN /\ artifact' = [artifact EXCEPT ![k].state = "confirmed", ![k].no = no]
       /\ pending' = [pending EXCEPT ![request[q].conv] = NoKey]
  ELSE UNCHANGED ledgerVars

\* The write has returned in time and the handler answers.
Answer(q) ==
  /\ request[q].pc = "waiting" /\ write[q].pc = "returned"
  /\ request' = [request EXCEPT ![q].pc = "answered", ![q].answer = write[q].result,
                                ![q].no = write[q].no]
  /\ IF write[q].result = "created" /\ request[q].way = "confirm" /\ request[q].key # NoKey
     THEN Mark(q, request[q].key, write[q].no)
     ELSE UNCHANGED ledgerVars
  /\ UNCHANGED <<tickets, write>>

-----------------------------------------------------------------------------
(* The ledger.                                                             *)

\* The ledger once the pending preview of the conversation is cancelled.
Cancelled(c) ==
  IF pending[c] = NoKey THEN artifact
  ELSE [artifact EXCEPT ![pending[c]].state = "cancelled"]

\* put_pending: the revised preview supersedes the one before it.
PutPending(k, c, d) ==
  /\ artifact' = [Cancelled(c) EXCEPT ![k] = [state |-> "awaiting", conv |-> c,
                                              content |-> d, no |-> NoKey]]
  /\ pending' = [pending EXCEPT ![c] = k]

\* A key that uuid4 has just drawn.
Fresh(k) ==
  /\ artifact[k].state = "unknown" /\ \A t \in tickets : t.key # k
  /\ \A q \in Request : request[q].key # k

\* The action agent's call of create_ticket is intercepted.
Preview(k, c, d) ==
  /\ Fresh(k) /\ PutPending(k, c, d)
  /\ UNCHANGED <<tickets, request, write>>

\* POST /api/tickets/cancel, or a message that the runtime takes for a cancel.
Cancel(c) ==
  /\ artifact' = Cancelled(c)
  /\ pending' = [pending EXCEPT ![c] = NoKey]
  /\ UNCHANGED <<tickets, request, write>>

\* The process restarts: the ledger and all that was under way are gone.
Restart ==
  /\ artifact' = [k \in ConfirmKey |-> Unknown]
  /\ pending' = [c \in Chat |-> NoKey]
  /\ request' = [q \in Request |->
                   IF request[q].pc = "waiting" THEN [request[q] EXCEPT !.pc = "lost"]
                   ELSE request[q]]
  /\ write' = [q \in Request |-> NoWrite]
  /\ UNCHANGED tickets

-----------------------------------------------------------------------------
TicketInit ==
  /\ tickets = {}
  /\ artifact = [k \in ConfirmKey |-> Unknown]
  /\ pending = [c \in Chat |-> NoKey]
  /\ request = [q \in Request |-> NoHandler]
  /\ write = [q \in Request |-> NoWrite]

TicketNext ==
  \/ \E q \in Request :
       \/ \E k \in ConfirmKey \cup {NoKey}, c \in Chat, d \in Content :
            Submit(q, k, c, d) \/ Confirm(q, k, c, d)
       \/ Find(q) \/ Insert(q) \/ Refind(q) \/ Timeout(q) \/ Answer(q)
  \/ \E k \in ConfirmKey, c \in Chat, d \in Content : Preview(k, c, d)
  \/ \E c \in Chat : Cancel(c)
  \/ Restart

TicketSpec == TicketInit /\ [][TicketNext]_ticketVars

-----------------------------------------------------------------------------
(* Properties.                                                             *)

\* One confirmation makes at most one ticket, however often it is sent, from
\* wherever, before and after a restart, and whichever of the two look-ups and
\* the insert of concurrent requests come first.
OneTicketPerKey ==
  \A s, t \in tickets : s.key = t.key /\ s.key # NoKey => s = t

\* A client that is told of a ticket is told of its own: a ticket of this
\* conversation that says what the client asked for.
AnswerIsOwnTicket ==
  \A q \in Request : request[q].answer = "created" =>
    \E t \in tickets :
      /\ t.no = request[q].no /\ t.key = request[q].key
      /\ t.conv = request[q].conv /\ t.content = request[q].content

\* The ledger and the table agree on confirmed previews: the ticket that the
\* artifact names was created with its key and says what the preview said.
ConfirmedHasTicket ==
  \A k \in ConfirmKey : artifact[k].state = "confirmed" =>
    \E t \in tickets :
      /\ t.no = artifact[k].no /\ t.key = k
      /\ t.conv = artifact[k].conv /\ t.content = artifact[k].content

\* A conversation has at most one preview that can still be confirmed as such:
\* an artifact awaits its confirmation exactly while it is the pending one.
AwaitingIsPending ==
  \A k \in ConfirmKey : artifact[k].state = "awaiting" <=>
    \E c \in Chat : pending[c] = k /\ artifact[k].conv = c

\* A preview recorded as confirmed or cancelled stays so until a restart.
SettledIsFinal ==
  [][\A k \in ConfirmKey : artifact[k].state \in {"confirmed", "cancelled"} =>
       artifact'[k].state \in {artifact[k].state, "unknown"}]_ticketVars

=============================================================================
