------------------------------ MODULE ToolCalls ------------------------------
(***************************************************************************)
(* The tool registry and those who use it (app/tools/): the application     *)
(* registers its own tools and its plugins' when it starts; before a turn   *)
(* is answered the tools of the MCP servers are discovered and the registry *)
(* is brought in line with them; the turn's model is shown the registered   *)
(* tools and the engine executes what it calls by name.  Turns share the    *)
(* registry and one event loop: they take turns at every await.             *)
(*                                                                         *)
(* Arguments, schemas and results are left out; a schema may accept or      *)
(* refuse a call, or be broken itself.  MCP tools are read tools; a tool of *)
(* the application is a read or a write, as it was registered.              *)
(***************************************************************************)
EXTENDS Integers, Sequences, FiniteSets, SequencesExt

CONSTANTS
  Turn,        \* turns and confirmations that may be under way together
  Name,        \* names of tools
  Builtin,     \* the built-in tools, by name: "read" or "write"
  Plugins,     \* what each plugin registers, in the order of the file names
  Debug,       \* the debug tools, in the order in which they are registered
  Server,      \* MCP servers, in the order of the settings
  List,        \* lists of tools that a server may offer
  Retries,     \* tool_retry_attempts
  MaxChanges   \* bound: changes of what the servers offer

\* How a tool of the application is registered.
Own == {"read", "write"}

ASSUME ToolAssumption ==
  /\ DOMAIN Builtin \subseteq Name /\ \A n \in DOMAIN Builtin : Builtin[n] \in Own
  /\ {Debug} \cup Range(Plugins) \subseteq Seq([name : Name, access : Own])
  /\ Server \in Seq(Range(Server)) /\ (Own \cup {"none"}) \cap Range(Server) = {}
  /\ List \subseteq SUBSET Name
  /\ {Retries, MaxChanges} \subseteq Nat

VARIABLES
  registry,  \* the tool of each name: its access, or the server that it is of
  booted,    \* steps of the start; -1 when it failed
  offers,    \* what each server lists
  changes,   \* changes of it so far
  synced,    \* the TTL of the last complete discovery is running
  audited,   \* the audit table can be written
  turn

toolVars == <<registry, booted, offers, changes, synced, audited, turn>>

Servers == Range(Server)
NoTool == "none"
Registered == {n \in Name : registry[n] # NoTool}

NoTurn == [pc |-> "idle", left |-> <<>>, list |-> {}, whole |-> TRUE, name |-> NoTool,
           shown |-> NoTool,   \* what was registered when the call was made
           held |-> NoTool,    \* the record that the engine executes
           confirmed |-> FALSE, attempt |-> 0, ran |-> 0, rows |-> <<>>]

ToolInit ==
  /\ registry = [n \in Name |-> IF n \in DOMAIN Builtin THEN Builtin[n] ELSE NoTool]
  /\ booted = 0
  /\ offers \in [Servers -> List]
  /\ changes = 0
  /\ synced = FALSE
  /\ audited \in BOOLEAN
  /\ turn = [t \in Turn |-> NoTurn]

-----------------------------------------------------------------------------
(* Start: register_builtin, then load_plugins, then register_debug. *)

\* The first k of the tools have names of their own that nobody has taken.
Free(tools, k) ==
  \A i \in 1 .. k : registry[tools[i].name] = NoTool
                   /\ \A j \in 1 .. i - 1 : tools[j].name # tools[i].name

\* They are registered one after the other, each with its access.
Add(tools, k) ==
  [n \in Name |-> IF \E i \in 1 .. k : tools[i].name = n
                 THEN tools[CHOOSE i \in 1 .. k : tools[i].name = n].access
                 ELSE registry[n]]

\* A name that is taken raises, and so may the plugin itself: what it has registered
\* by then stays, and the start goes on without the rest.
LoadPlugin ==
  /\ booted \in 0 .. Len(Plugins) - 1
  /\ booted' = booted + 1
  /\ LET tools == Plugins[booted + 1] IN
       \E k \in 0 .. Len(tools) : Free(tools, k) /\ registry' = Add(tools, k)
  /\ UNCHANGED <<offers, changes, synced, audited, turn>>

\* Only where TOOLS_DEBUG is set; nothing catches a name that is taken.
RegisterDebug ==
  /\ booted = Len(Plugins)
  /\ \/ UNCHANGED registry /\ booted' = booted + 1
     \/ \E k \in 0 .. Len(Debug) :
          /\ Free(Debug, k) /\ (k < Len(Debug) => ~Free(Debug, k + 1))
          /\ registry' = Add(Debug, k)
          /\ booted' = IF k = Len(Debug) THEN booted + 1 ELSE -1
  /\ UNCHANGED <<offers, changes, synced, audited, turn>>

Ready == booted = Len(Plugins) + 1

-----------------------------------------------------------------------------
(* McpService.sync. *)

TurnAt(t, pc) == Ready /\ turn[t].pc = pc

SkipSync(t) ==
  /\ TurnAt(t, "idle")
  /\ synced
  /\ turn' = [turn EXCEPT ![t].pc = "bind"]
  /\ UNCHANGED <<registry, booted, offers, changes, synced, audited>>

StartSync(t) ==
  /\ TurnAt(t, "idle")
  /\ ~synced
  /\ turn' = [turn EXCEPT ![t] = [NoTurn EXCEPT !.pc = "discover", !.left = Server]]
  /\ UNCHANGED <<registry, booted, offers, changes, synced, audited>>

\* The list is what the server offered when it was asked.  After three tries
\* the server is passed over and keeps the tools that are registered.
Discover(t) ==
  /\ TurnAt(t, "discover")
  /\ turn[t].left # <<>>
  /\ \/ turn' = [turn EXCEPT ![t].pc = "apply", ![t].list = offers[Head(turn[t].left)]]
     \/ turn' = [turn EXCEPT ![t].left = Tail(@), ![t].whole = FALSE]
  /\ UNCHANGED <<registry, booted, offers, changes, synced, audited>>

\* MUTATED: every tool that the server does not list is taken out.
TakesOutOthers(list, server) ==
  [n \in Name |-> CASE n \in list /\ registry[n] = NoTool -> server
                    [] n \notin list -> NoTool
                    [] OTHER -> registry[n]]

\* A name that is taken stays with whoever has it.
Synced(list, server) ==
  [n \in Name |-> CASE n \in list /\ registry[n] = NoTool -> server
                    [] n \notin list /\ registry[n] = server -> NoTool
                    [] OTHER -> registry[n]]

ApplyList(t) ==
  /\ TurnAt(t, "apply")
  /\ registry' = Synced(turn[t].list, Head(turn[t].left))
  /\ turn' = [turn EXCEPT ![t].pc = "discover", ![t].left = Tail(@), ![t].list = {}]
  /\ UNCHANGED <<booted, offers, changes, synced, audited>>

\* The TTL runs from here, if every server answered.
EndSync(t) ==
  /\ TurnAt(t, "discover")
  /\ turn[t].left = <<>>
  /\ synced' = (synced \/ turn[t].whole)
  /\ turn' = [turn EXCEPT ![t].pc = "bind"]
  /\ UNCHANGED <<registry, booted, offers, changes, audited>>

TtlEnds ==
  /\ synced
  /\ synced' = FALSE
  /\ UNCHANGED <<registry, booted, offers, changes, audited, turn>>

\* A server is restarted with other tools.
ServerChanges ==
  /\ changes < MaxChanges
  /\ changes' = changes + 1
  /\ \E s \in Servers, N \in List :
       N # offers[s] /\ offers' = [offers EXCEPT ![s] = N]
  /\ UNCHANGED <<registry, booted, synced, audited, turn>>

-----------------------------------------------------------------------------
(* ToolEngine.execute. *)

\* bind_tools: the model calls one of the tools that it is shown.
CallTool(t) ==
  /\ TurnAt(t, "bind")
  /\ \E n \in Registered :
       turn' = [turn EXCEPT ![t] = [NoTurn EXCEPT !.pc = "execute", !.name = n,
                                                  !.shown = registry[n]]]
  /\ UNCHANGED <<registry, booted, offers, changes, synced, audited>>

\* confirm_ticket, a request of its own: any tool that is registered as a write.
ConfirmTool(t) ==
  /\ TurnAt(t, "idle")
  /\ \E n \in Registered :
       /\ registry[n] = "write"
       /\ turn' = [turn EXCEPT ![t] = [NoTurn EXCEPT !.pc = "execute", !.name = n,
                                                     !.shown = registry[n],
                                                     !.confirmed = TRUE]]
  /\ UNCHANGED <<registry, booted, offers, changes, synced, audited>>

\* The call ends with a row in the audit, unless the audit fails.
Closes(t, row) ==
  [turn EXCEPT ![t].pc = "done", ![t].rows = IF audited THEN Append(@, row) ELSE @]

Unregistered(t) ==
  /\ TurnAt(t, "execute")
  /\ turn[t].name \notin Registered
  /\ turn' = [turn EXCEPT ![t].pc = "done"]
  /\ UNCHANGED <<registry, booted, offers, changes, synced, audited>>

\* Arguments that the schema refuses, or a schema that is none: the first is
\* audited where it happens, the second by whoever catches everything.
BadArguments(t) ==
  /\ TurnAt(t, "execute")
  /\ turn[t].name \in Registered
  /\ \E row \in {"refused", "failed"} : turn' = Closes(t, row)
  /\ UNCHANGED <<registry, booted, offers, changes, synced, audited>>

Intercepted(t) == registry[turn[t].name] = "write" /\ ~turn[t].confirmed

Intercept(t) ==
  /\ TurnAt(t, "execute")
  /\ turn[t].name \in Registered
  /\ Intercepted(t)
  /\ turn' = Closes(t, "denied")
  /\ UNCHANGED <<registry, booted, offers, changes, synced, audited>>

\* The engine holds the record from here on.
StartTool(t) ==
  /\ TurnAt(t, "execute")
  /\ turn[t].name \in Registered
  /\ ~Intercepted(t)
  /\ turn' = [turn EXCEPT ![t].pc = "run", ![t].held = registry[turn[t].name]]
  /\ UNCHANGED <<registry, booted, offers, changes, synced, audited>>

RetriesOf(t) == IF turn[t].held = "write" THEN 0 ELSE Retries

Succeed(t) ==
  /\ TurnAt(t, "run")
  /\ turn' = [Closes(t, "succeeded") EXCEPT ![t].ran = @ + 1]
  /\ UNCHANGED <<registry, booted, offers, changes, synced, audited>>

\* A failure of the tool itself is not tried again.
Break(t) ==
  /\ TurnAt(t, "run")
  /\ turn' = [Closes(t, "failed") EXCEPT ![t].ran = @ + 1]
  /\ UNCHANGED <<registry, booted, offers, changes, synced, audited>>

\* A timeout or a lost connection: the tool may have done its work.
Lose(t) ==
  /\ TurnAt(t, "run")
  /\ \/ /\ turn[t].attempt < RetriesOf(t)
        /\ turn' = [turn EXCEPT ![t].attempt = @ + 1, ![t].ran = @ + 1]
     \/ /\ turn[t].attempt = RetriesOf(t)
        /\ \E row \in {"timeout", "failed"} :
             turn' = [Closes(t, row) EXCEPT ![t].ran = @ + 1]
  /\ UNCHANGED <<registry, booted, offers, changes, synced, audited>>

\* The turn is cancelled at its await, or an agent's own limit ends the call: that is
\* no Exception, so that no row is written, whether the tool does its work or not.
CancelCall(t) ==
  /\ TurnAt(t, "run")
  /\ \E more \in {0, 1} :
       turn' = [turn EXCEPT ![t].pc = "cancelled", ![t].ran = @ + more]
  /\ UNCHANGED <<registry, booted, offers, changes, synced, audited>>

\* The model calls another tool, or the turn is over.
Again(t) ==
  /\ TurnAt(t, "done") \/ TurnAt(t, "cancelled")
  /\ \/ ~turn[t].confirmed /\ turn' = [turn EXCEPT ![t] = [NoTurn EXCEPT !.pc = "bind"]]
     \/ turn' = [turn EXCEPT ![t] = NoTurn]
  /\ UNCHANGED <<registry, booted, offers, changes, synced, audited>>

Execute(t) ==
  \/ CallTool(t) \/ ConfirmTool(t) \/ Unregistered(t) \/ BadArguments(t) \/ Intercept(t)
  \/ StartTool(t) \/ Succeed(t) \/ Break(t) \/ Lose(t) \/ CancelCall(t) \/ Again(t)

Sync(t) == SkipSync(t) \/ StartSync(t) \/ Discover(t) \/ ApplyList(t) \/ EndSync(t)

ToolNext ==
  \/ LoadPlugin \/ RegisterDebug \/ TtlEnds \/ ServerChanges
  \/ \E t \in Turn : Sync(t) \/ Execute(t)

ToolSpec == ToolInit /\ [][ToolNext]_toolVars

-----------------------------------------------------------------------------
(* Properties. *)

\* The application's own tools stay its own, whatever the servers call theirs
\* and in whatever order their lists are applied: a call of one of them, a debug
\* tool or a plugin's as well, never comes to mean a tool of a server, which needs
\* no confirmation (mcp_client.py:54-70, base.py:59-68).
OwnToolsStay ==
  /\ \A n \in DOMAIN Builtin : registry[n] = Builtin[n]
  /\ \A t \in Turn : turn[t].shown \in Own => registry[turn[t].name] = turn[t].shown

\* What the model was shown as a write is executed as one, only on a confirmation
\* and at most once, since a write that timed out, or was cancelled, may have
\* happened (engine.py:26, 111-156).
WritesRunOnce ==
  \A t \in Turn :
    /\ turn[t].shown = "write" /\ turn[t].ran > 0 => turn[t].held = "write"
    /\ turn[t].held = "write" => turn[t].ran <= 1 /\ (turn[t].ran = 1 => turn[t].confirmed)

\* A call that comes back to its turn and reached a tool leaves exactly one row, and
\* the row says so: it is never one of a call that was held back (engine.py:93-152).
\* A call that is cancelled does not come back, and leaves none.
CallIsAudited ==
  \A t \in Turn : turn[t].pc = "done" /\ audited /\ turn[t].ran > 0 =>
    Len(turn[t].rows) = 1 /\ turn[t].rows[1] \in {"succeeded", "failed", "timeout"}

\* All three: a write stays a write, is executed on a confirmation, once, and what
\* came back from it is on record.
WritesAreGuarded == OwnToolsStay /\ WritesRunOnce /\ CallIsAudited

=============================================================================
