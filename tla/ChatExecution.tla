--------------------------- MODULE ChatExecution ----------------------------
(***************************************************************************)
(* The callers of ExecutionStore: the /api/chat endpoints                  *)
(* (app/routers/chat.py), the background task that executes one attempt of *)
(* a run with its event pump and its heartbeat, the tool engine's wrapper  *)
(* (app/execution/tool_engine.py) and the table of running tasks           *)
(* (app/execution/service.py), on several worker processes that may crash. *)
(*                                                                         *)
(* The attempt number identifies a task: reserve_run makes attempt 1 and   *)
(* each resume_run the next one.  A database call that raises, LeaseLost   *)
(* or any other error, takes the caller's error path: a failing            *)
(* alternative is always possible, a succeeding one when the fence allows. *)
(***************************************************************************)
EXTENDS ExecutionStore

CONSTANTS
  ToolKind,    \* what the graph calls: "read", "preview" (intercepted), "write"
  MaxFrames    \* bound on the frames one attempt puts in its queue

ASSUME ChatAssumption ==
  /\ {"session", "token", "done", "error"} \subseteq AppendType
  /\ ToolKind \subseteq {"read", "preview", "write"}
  /\ MaxFrames \in Nat

VARIABLES
  up,          \* the workers that have not crashed
  task,        \* the executing task of each run and attempt
  tracked      \* ExecutionService._tasks of each worker: an attempt, or 0

memVars  == <<up, task, tracked>>
chatVars == <<storeVars, memVars>>

Attempt == 1 .. MaxAttempt

\* Where a task stands.  "session": the request still has to persist the session
\* event; "created": the event loop has not started the task; then the body of
\* _execute_chat_run and, from "errdrain" on, its except blocks.
Pc == {"none", "session", "created", "graph", "drain", "done", "finish",
       "errdrain", "errevent", "errstatus", "errfinish", "over"}

NoCallId == "no call"

Task == [pc: Pc, worker: Owner \cup {None},
         hb: {"off", "on", "lost", "dead"},      \* the heartbeat
         pump: {"off", "on", "dead"},            \* persist_frames
         left: 0 .. MaxFrames,                   \* frames still to be emitted
         queue: 0 .. MaxFrames,                  \* frames not yet persisted
         tool: {"idle", "checked", "started", "over"},
         kind: ToolKind \cup {"none"}, call: Call \cup {NoCallId},
         effect: BOOLEAN,                        \* a confirmed write took place
         ending: {"completed", "failed", "cancelled", "interrupted"},
         late: {"none", "token", "done", "error", "finish"},
         lateEnd: {"completed", "failed", "cancelled", "interrupted"}]

NoTask == [pc |-> "none", worker |-> None, hb |-> "off", pump |-> "off",
           left |-> MaxFrames, queue |-> 0, tool |-> "idle", kind |-> "none",
           call |-> NoCallId, effect |-> FALSE, ending |-> "completed",
           late |-> "none", lateEnd |-> "completed"]

ChatTypeOK ==
  /\ TypeOK
  /\ up \subseteq Owner
  /\ task \in [Run -> [Attempt -> Task]]
  /\ tracked \in [Owner -> [Run -> 0 .. MaxAttempt]]

-----------------------------------------------------------------------------
(* Task helpers.                                                           *)

Executing == {"graph", "drain", "done", "finish"}
Handling  == {"errdrain", "errevent", "errstatus", "errfinish"}

At(r, a, pc) == task[r][a].pc = pc /\ task[r][a].worker \in up

\* The task goes on to another record; the tables of tasks do not change.
Goto(r, a, t) == task' = [task EXCEPT ![r][a] = t] /\ UNCHANGED <<up, tracked>>

\* What remains of a task that has ended: what it did, and a call in flight.
Gone(t) == [NoTask EXCEPT !.pc = "over", !.worker = t.worker,
                          !.effect = t.effect, !.late = t.late,
                          !.lateEnd = t.lateEnd]

\* The task ends.  Its done-callback pops the run, whichever attempt is there.
Over(r, a, t) ==
  /\ task' = [task EXCEPT ![r][a] = Gone(t)]
  /\ tracked' = [tracked EXCEPT ![t.worker][r] = 0]
  /\ UNCHANGED up

\* Entry of an except block: the heartbeat is cancelled, the queue drained.
Raised(t, why) == [t EXCEPT !.pc = "errdrain", !.hb = "off", !.ending = why]

-----------------------------------------------------------------------------
(* Requests.                                                               *)

\* POST /api/chat that reserves a new run.
Post(o, r, c, k) ==
  /\ o \in up
  /\ ReserveFree(o, r, c, k) \/ ReserveExpired(o, r, c, k)
  /\ Goto(r, 1, [NoTask EXCEPT !.pc = "session", !.worker = o])

\* The session event is persisted, then the task is created and tracked.
Launch(r) ==
  LET t == task[r][1] IN
  /\ At(r, 1, "session")
  /\ AppendEvent(t.worker, r, "session")
  /\ task' = [task EXCEPT ![r][1].pc = "created"]
  /\ tracked' = [tracked EXCEPT ![t.worker][r] = 1]
  /\ UNCHANGED up

\* Persisting it raises: the request fails and no task is created.
LaunchFails(r) ==
  /\ At(r, 1, "session")
  /\ Goto(r, 1, Gone(task[r][1]))
  /\ UNCHANGED storeVars

\* POST .../resume: resume_run, after the handler has read a resumable status.
Resume(o, r) == o \in up /\ ResumeBegin(o, r) /\ UNCHANGED memVars

\* resume_run commits and the handler creates and tracks the next attempt's task.
Resumed(o) ==
  LET r == resuming[o].run
      a == run[r].attempt + 1
  IN /\ o \in up
     /\ ResumeCommit(o)
     /\ task' = [task EXCEPT ![r][a] = [NoTask EXCEPT !.pc = "created",
                                                      !.worker = o]]
     /\ tracked' = [tracked EXCEPT ![o][r] = a]
     /\ UNCHANGED up

ResumeFails(o) == o \in up /\ ResumeRollback(o) /\ UNCHANGED memVars

\* A status poll, an event stream or a resume finds a run of the session
\* unfinished and recovers the lease if it has expired.
Poll(o, c) ==
  /\ o \in up
  /\ \E r \in Run : run[r].conv = c /\ run[r].status \in Active
  /\ RecoverExpired(o, c)
  /\ UNCHANGED memVars

\* task.cancel() by POST .../cancel or by shutdown().  The endpoint refuses a
\* write it has read as begun, but only before an await; shutdown never looks.
\* A task not yet started, or already handling an error, just ends.  A database
\* call in flight is not undone: it may still happen later (at most one a task).
InFlight(t) ==
  CASE t.pc \in {"drain", "errdrain"} /\ t.queue > 0 /\ t.pump = "on" -> "token"
    [] t.pc = "done"                    -> "done"
    [] t.pc = "errevent"                -> "error"
    [] t.pc \in {"finish", "errfinish"} -> "finish"
    [] OTHER                            -> "none"

\* What the tool wrapper does when the call it awaits is cancelled or raises.
LeaveTool(r, t) ==
  \/ UNCHANGED storeVars
  \/ /\ t.pc = "graph" /\ t.tool = "started" /\ t.kind = "write"
     /\ FinishToolAttempt(t.worker, r, t.call, "unknown")

CancelBody(r, a) ==
  LET t == task[r][a] IN
  /\ t.pc \in Executing
  /\ LeaveTool(r, t)
  /\ Goto(r, a, [Raised(t, "cancelled") EXCEPT
                   !.late = InFlight(t),
                   !.lateEnd = "completed",
                   !.pump = IF t.pc = "drain" THEN "dead" ELSE @,
                   !.tool = "over"])

CancelOther(r, a) ==
  LET t == task[r][a] IN
  /\ t.pc \in Handling \cup {"created"}
  /\ Over(r, a, [t EXCEPT !.late = InFlight(t), !.lateEnd = IF t.pc = "errfinish" THEN t.ending
                                          ELSE "completed"])
  /\ UNCHANGED storeVars

Cancel(o, r) ==
  LET a == tracked[o][r] IN
  /\ o \in up /\ a # 0
  /\ task[r][a].tool # "checked" /\ task[r][a].late = "none"
  /\ CancelBody(r, a) \/ CancelOther(r, a)

\* The worker process dies, its memory and its open transaction with it.
Crash(o) ==
  /\ o \in up /\ up # {o}
  /\ up' = up \ {o}
  /\ task' = [r \in Run |-> [a \in Attempt |->
                IF task[r][a].worker = o
                THEN Gone([task[r][a] EXCEPT !.late = "none",
                                             !.lateEnd = "completed"])
                ELSE task[r][a]]]
  /\ tracked' = [tracked EXCEPT ![o] = [r \in Run |-> 0]]
  /\ resuming' = [resuming EXCEPT ![o] = NoTx]
  /\ UNCHANGED <<run, lease, events, call>>

-----------------------------------------------------------------------------
(* The executing task.                                                     *)

\* The event loop starts the task: pump, heartbeat, mark_running.
Begin(r, a) ==
  LET t == task[r][a] IN
  /\ At(r, a, "created")
  /\ \/ /\ MarkRunning(t.worker, r)
        /\ Goto(r, a, [t EXCEPT !.pc = "graph", !.hb = "on", !.pump = "on"])
     \/ /\ UNCHANGED storeVars
        /\ Goto(r, a, Raised([t EXCEPT !.pump = "on"], "failed"))

\* renew_lease: the loop renews every lease/3 s, learns that the row is gone and
\* sets lease_lost, or dies of a database error that nobody sees.
Heartbeat(r, a) ==
  LET t == task[r][a] IN
  /\ t.hb = "on" /\ t.worker \in up
  /\ \/ RenewLease(t.worker, r) /\ UNCHANGED memVars
     \/ /\ Unlocked(t.worker) /\ ~LeaseRowOf(t.worker, r)
        /\ Goto(r, a, [t EXCEPT !.hb = "lost"])
        /\ UNCHANGED storeVars
     \/ Goto(r, a, [t EXCEPT !.hb = "dead"]) /\ UNCHANGED storeVars

\* A node of the graph puts a frame in the queue.
Emit(r, a) ==
  LET t == task[r][a] IN
  /\ At(r, a, "graph") /\ t.tool # "checked" /\ t.left > 0
  /\ Goto(r, a, [t EXCEPT !.left = @ - 1, !.queue = @ + 1])
  /\ UNCHANGED storeVars

\* persist_frames takes a frame from the queue: it is persisted or the pump dies.
Pump(r, a) ==
  LET t == task[r][a] IN
  /\ t.pump = "on" /\ t.worker \in up /\ t.queue > 0
  /\ \/ /\ AppendEvent(t.worker, r, "token")
        /\ Goto(r, a, [t EXCEPT !.queue = @ - 1])
     \/ Goto(r, a, [t EXCEPT !.pump = "dead"]) /\ UNCHANGED storeVars

\* ExecutionToolEngine.execute up to the attempt row.  The lease is looked at
\* first; other threads and workers may act before the row is written.
ToolCheck(r, a) ==
  LET t == task[r][a] IN
  /\ At(r, a, "graph") /\ t.tool = "idle"
  /\ LeaseOwnedBy(t.worker, r)
  /\ \E kind \in ToolKind, k \in Call :
       Goto(r, a, [t EXCEPT !.tool = "checked", !.kind = kind, !.call = k])
  /\ UNCHANGED storeVars

\* MUTATED: a confirmed write goes on when its attempt cannot be recorded.
ToolStartsRegardless(r, a) ==
  LET t == task[r][a] IN
  /\ At(r, a, "graph") /\ t.tool = "checked"
  /\ \/ StartToolAttempt(t.worker, r, t.call,
                         IF t.kind = "read" THEN "read" ELSE "write",
                         t.kind = "write")
     \/ UNCHANGED storeVars
  /\ Goto(r, a, [t EXCEPT !.tool = "started"])

\* start_tool_attempt; when it raises, only a confirmed write is refused.
ToolStart(r, a) ==
  LET t == task[r][a] IN
  /\ At(r, a, "graph") /\ t.tool = "checked"
  /\ \/ /\ StartToolAttempt(t.worker, r, t.call,
                            IF t.kind = "read" THEN "read" ELSE "write",
                            t.kind = "write")
        /\ Goto(r, a, [t EXCEPT !.tool = "started"])
     \/ /\ Goto(r, a, [t EXCEPT !.tool = IF t.kind = "write" THEN "over"
                                        ELSE "started"])
        /\ UNCHANGED storeVars

\* The delegate carries out a confirmed write.
ToolActs(r, a) ==
  LET t == task[r][a] IN
  /\ At(r, a, "graph") /\ t.tool = "started" /\ t.kind = "write" /\ ~t.effect
  /\ Goto(r, a, [t EXCEPT !.effect = TRUE])
  /\ UNCHANGED storeVars

\* The delegate returns and finish_tool_attempt records it, or fails to.  A text
\* of error, such as that of a timeout, does not say that nothing was written.
ToolReturns(r, a) ==
  LET t == task[r][a] IN
  /\ At(r, a, "graph") /\ t.tool = "started"
  /\ \/ \E outcome \in (IF t.kind = "preview" THEN {"intercepted"}
                        ELSE IF t.kind = "write" /\ ~t.effect THEN {"failed"}
                        ELSE {"succeeded", "failed"}) :
          FinishToolAttempt(t.worker, r, t.call, outcome)
     \/ UNCHANGED storeVars
  /\ Goto(r, a, [t EXCEPT !.tool = "over"])

\* ainvoke returns; a lost lease is noticed only here.
GraphReturns(r, a) ==
  LET t == task[r][a] IN
  /\ At(r, a, "graph") /\ t.tool \in {"idle", "over"}
  /\ Goto(r, a, IF t.hb = "lost" THEN Raised(t, "failed")
                ELSE [t EXCEPT !.pc = "drain"])
  /\ UNCHANGED storeVars

\* ainvoke raises or exceeds max_run_seconds, possibly inside a tool call.
GraphRaises(r, a) ==
  LET t == task[r][a] IN
  /\ At(r, a, "graph") /\ t.tool # "checked"
  /\ LeaveTool(r, t)
  /\ Goto(r, a, [Raised(t, "failed") EXCEPT !.tool = "over"])

\* The queue is closed and the pump awaited; its exception is raised here.
Drain(r, a) ==
  LET t == task[r][a] IN
  /\ At(r, a, "drain")
  /\ \/ t.pump = "on" /\ t.queue = 0 /\ Goto(r, a, [t EXCEPT !.pc = "done"])
     \/ t.pump = "dead" /\ Goto(r, a, Raised(t, "failed"))
  /\ UNCHANGED storeVars

\* MUTATED: an error of persist_event is swallowed.
PersistDoneOrNot(r, a) ==
  LET t == task[r][a] IN
  /\ At(r, a, "done")
  /\ AppendEvent(t.worker, r, "done") \/ UNCHANGED storeVars
  /\ Goto(r, a, [t EXCEPT !.pc = "finish"])

\* The done event is persisted.
PersistDone(r, a) ==
  LET t == task[r][a] IN
  /\ At(r, a, "done")
  /\ \/ /\ AppendEvent(t.worker, r, "done")
        /\ Goto(r, a, [t EXCEPT !.pc = "finish"])
     \/ Goto(r, a, Raised(t, "failed")) /\ UNCHANGED storeVars

\* The run is finished as completed.
Complete(r, a) ==
  LET t == task[r][a] IN
  /\ At(r, a, "finish")
  /\ \/ FinishRun(t.worker, r, "completed") /\ Over(r, a, t)
     \/ Goto(r, a, Raised(t, "failed")) /\ UNCHANGED storeVars

\* The except blocks: wait for the pump, whatever came of it,
ErrDrain(r, a) ==
  LET t == task[r][a] IN
  /\ At(r, a, "errdrain")
  /\ t.queue = 0 \/ t.pump # "on"
  /\ Goto(r, a, [t EXCEPT !.pc = "errevent"])
  /\ UNCHANGED storeVars

\* persist the error event; if that raises, the run is left as it is,
ErrEvent(r, a) ==
  LET t == task[r][a] IN
  /\ At(r, a, "errevent")
  /\ \/ /\ AppendEvent(t.worker, r, "error")
        /\ Goto(r, a, [t EXCEPT !.pc = "errstatus"])
     \/ Over(r, a, t) /\ UNCHANGED storeVars

\* read write_state to choose the status: anything unknown is "interrupted",
ErrStatus(r, a) ==
  LET t == task[r][a] IN
  /\ At(r, a, "errstatus")
  /\ \E ending \in {"interrupted", IF run[r].write # "none" THEN "interrupted"
                                   ELSE t.ending} :
       Goto(r, a, [t EXCEPT !.pc = "errfinish", !.ending = ending])
  /\ UNCHANGED storeVars

\* and finish the run with it.
ErrFinish(r, a) ==
  LET t == task[r][a] IN
  /\ At(r, a, "errfinish")
  /\ \/ FinishRun(t.worker, r, t.ending) /\ Over(r, a, t)
     \/ Over(r, a, t) /\ UNCHANGED storeVars

\* A database call that was in flight when its task was cancelled.
Late(r, a) ==
  LET t == task[r][a] IN
  /\ t.late # "none" /\ t.worker \in up
  /\ \/ t.late = "finish" /\ FinishRun(t.worker, r, t.lateEnd)
     \/ t.late # "finish" /\ AppendEvent(t.worker, r, t.late)
     \/ UNCHANGED storeVars
  /\ Goto(r, a, [t EXCEPT !.late = "none", !.lateEnd = "completed"])

-----------------------------------------------------------------------------
ChatInit ==
  /\ StoreInit
  /\ up = Owner
  /\ task = [r \in Run |-> [a \in Attempt |-> NoTask]]
  /\ tracked = [o \in Owner |-> [r \in Run |-> 0]]

\* The steps that a running task and its helpers take by themselves.
TaskStep(r, a) ==
  \/ Begin(r, a) \/ Pump(r, a)
  \/ ToolStart(r, a) \/ ToolReturns(r, a)
  \/ GraphReturns(r, a) \/ GraphRaises(r, a)
  \/ Drain(r, a) \/ PersistDone(r, a) \/ Complete(r, a)
  \/ ErrDrain(r, a) \/ ErrEvent(r, a) \/ ErrStatus(r, a) \/ ErrFinish(r, a)

RequestStep(o) ==
  \/ \E r \in Run, c \in Conv, k \in Key \cup {None} : Post(o, r, c, k)
  \/ \E r \in Run : Resume(o, r) \/ Cancel(o, r)
  \/ Resumed(o) \/ ResumeFails(o)
  \/ \E c \in Conv : Poll(o, c)

ChatNext ==
  \/ \E o \in Owner : RequestStep(o) \/ Crash(o)
  \/ \E r \in Run : Launch(r) \/ LaunchFails(r)
  \/ \E r \in Run, a \in Attempt :
       \/ TaskStep(r, a) \/ Heartbeat(r, a) \/ Emit(r, a)
       \/ ToolCheck(r, a) \/ ToolActs(r, a) \/ Late(r, a)
  \/ \E c \in Conv : Expire(c) /\ UNCHANGED memVars

ChatSpec == ChatInit /\ [][ChatNext]_chatVars

-----------------------------------------------------------------------------
(* Properties.                                                             *)

\* A client that replays the log of an ended run learns how it ended: "done" is
\* persisted before "completed", "error" before "failed" and "cancelled", and
\* "interrupted" comes with one of its events, whatever cancellations, failing
\* and late database calls and older attempts come between.
EndedRunSaysSo ==
  \A r \in Run :
    LET Says(t) == \E i \in 1 .. Len(events[r]) : events[r][i].type = t IN
    /\ run[r].status = "completed" => Says("done")
    /\ run[r].status \in {"failed", "cancelled"} => Says("error")
    /\ run[r].status = "interrupted" => Says("interrupted") \/ Says("error")

\* A confirmed write that took place is on record in write_state, even when the
\* attempt row could not be written, the worker died or the run was taken over.
EffectIsRecorded ==
  \A r \in Run, a \in Attempt : task[r][a].effect => run[r].write # "none"

\* No attempt of a run begins after an earlier one carried out a confirmed write.
NoAttemptAfterEffect ==
  [][\A r \in Run :
       run'[r].attempt > run[r].attempt
         => \A a \in Attempt : ~task[r][a].effect]_chatVars

\* A task that reports its run failed or cancelled, itself or by a database call
\* still in flight when it was cancelled, carried out no confirmed write: the
\* client may send the request again.
FailedWithoutEffect ==
  [][\A r \in Run, a \in Attempt :
       task[r][a].effect /\ task'[r][a] # task[r][a] /\ run[r].status \in Active
         => run'[r].status \notin {"failed", "cancelled"}]_chatVars

\* Both: what a confirmed write has done is neither done again nor denied.
WritesAreFinal == NoAttemptAfterEffect /\ FailedWithoutEffect

-----------------------------------------------------------------------------
(* Fairness: a task goes on until it ends, since its database calls return  *)
(* or raise and max_run_seconds bounds the graph; a request handler and an  *)
(* open transaction go on too; a lease that no heartbeat renews expires;    *)
(* and a client that waits keeps polling.  A poll blocks for the write lock *)
(* and gets it in the end, hence the strong fairness.  New requests, tool   *)
(* calls, cancellations and crashes may happen or not.                      *)

ExpireUnattended(c) ==
  /\ \A r \in Run, a \in Attempt :
       ~(lease[c].run = r /\ task[r][a].worker = lease[c].owner
                         /\ task[r][a].hb = "on")
  /\ Expire(c) /\ UNCHANGED memVars

Fairness ==
  /\ \A r \in Run, a \in Attempt : WF_chatVars(TaskStep(r, a))
  /\ \A r \in Run : WF_chatVars(Launch(r) \/ LaunchFails(r))
  /\ \A o \in Owner : WF_chatVars(Resumed(o) \/ ResumeFails(o))
  /\ \A c \in Conv : /\ WF_chatVars(ExpireUnattended(c))
                     /\ SF_chatVars(\E o \in Owner : Poll(o, c))

FairChatSpec == ChatSpec /\ Fairness

\* No attempt keeps its session for ever: after crashes, dead heartbeats and
\* failed database calls the lease is given up or taken from it in the end, and
\* the run is not left waiting for it.
SessionIsFreed ==
  \A c \in Conv, r \in Run, n \in Attempt :
    lease[c].run = r /\ run[r].attempt = n
      ~> lease[c].run # r \/ run[r].attempt # n

=============================================================================
