--------------------------- MODULE ExecutionStore ---------------------------
(***************************************************************************)
(* The durable tables of the chat executor and the transactions on them    *)
(* (app/execution/store.py, app/execution/models.py).  Any worker process  *)
(* may call any transaction at any time with any argument: the program's   *)
(* own callers are in ChatExecution, which is one such set of callers.     *)
(*                                                                         *)
(* A worker is identified by its owner_token, one uuid per process         *)
(* (app/execution/service.py:26).  Its transactions exclude one another    *)
(* (app/execution/locks.py).  Those of different workers are serialised by *)
(* the row locks they take, except resume_run, which reads the lease row   *)
(* without locking it: that one is two steps, ResumeBegin and ResumeCommit.*)
(* (_mark_lease_owner_interrupted reads the run unlocked too, but under    *)
(* the lease's lock: what overlaps it commits before, after or not at all.)*)
(*                                                                         *)
(* Operators marked MUTATED are faulty variants of the one that follows;   *)
(* they show which faults the properties detect, and nothing uses them.    *)
(* Time is abstracted to whether a lease has expired: Expire may happen to *)
(* any live lease, and a renewal makes an expired one live again.          *)
(***************************************************************************)
EXTENDS Naturals, Sequences

CONSTANTS
  Run,         \* run ids (uuid4)
  Conv,        \* conversation ids
  Owner,       \* owner tokens of worker processes
  Key,         \* client_request_id values
  Call,        \* tool_call_id values
  None,        \* SQL NULL, and the absent row
  AppendType,  \* types of the events that executors append
  MaxAttempt,  \* bound on chat_runs.attempt
  MaxEvents    \* bound on the events an executor appends to one run

ASSUME StoreAssumption ==
  /\ None \notin Run \cup Conv \cup Owner \cup Key
  /\ MaxAttempt \in Nat \ {0}
  /\ MaxEvents \in Nat
  /\ {"interrupted", "resumed"} \cap AppendType = {}

VARIABLES
  run,         \* chat_runs
  lease,       \* chat_session_leases, keyed by conversation
  events,      \* chat_run_events of each run, in id order
  call,        \* chat_tool_attempts, unique by run and tool_call_id
  resuming     \* the open resume_run transaction of each worker

storeVars == <<run, lease, events, call, resuming>>

-----------------------------------------------------------------------------
(* Rows.                                                                   *)

Active      == {"queued", "running"}
Ended       == {"completed", "failed", "cancelled", "interrupted"}
WriteState  == {"none", "started", "succeeded", "unknown"}
CallOutcome == {"succeeded", "failed", "intercepted", "unknown"}
EventType   == AppendType \cup {"interrupted", "resumed"}

RunRow == [conv: Conv \cup {None}, key: Key \cup {None},
           status: Active \cup Ended \cup {"absent"}, write: WriteState,
           owner: Owner \cup {None}, attempt: 0 .. MaxAttempt, seq: Nat]

LeaseRow == [run: Run \cup {None}, owner: Owner \cup {None}, live: BOOLEAN]

EventRow == [seq: Nat, type: EventType]

CallRow == [access: {"read", "write"},
            status: CallOutcome \cup {"absent", "started"}]

ResumeTx == [run: Run \cup {None}, seen: LeaseRow]

NoRow   == [conv |-> None, key |-> None, status |-> "absent", write |-> "none",
            owner |-> None, attempt |-> 0, seq |-> 0]
NoLease == [run |-> None, owner |-> None, live |-> FALSE]
NoCall  == [access |-> "read", status |-> "absent"]
NoTx    == [run |-> None, seen |-> NoLease]

TypeOK ==
  /\ run \in [Run -> RunRow]
  /\ lease \in [Conv -> LeaseRow]
  /\ events \in [Run -> Seq(EventRow)]
  /\ call \in [Run -> [Call -> CallRow]]
  /\ resuming \in [Owner -> ResumeTx]

-----------------------------------------------------------------------------
(* Locks and fencing.                                                      *)

\* The worker's write lock is free: it has no resume_run transaction open.
Unlocked(o) == resuming[o].run = None

\* No open resume_run transaction has read run r FOR UPDATE.
RowFree(r) == \A o \in Owner : resuming[o].run # r

\* A lease row names both the run and the caller, expired or not.
LeaseRowOf(o, r) == \E c \in Conv : lease[c].run = r /\ lease[c].owner = o

\* lease_owned_by: such a row, not expired.
LeaseOwnedBy(o, r) ==
  \E c \in Conv : lease[c].run = r /\ lease[c].owner = o /\ lease[c].live

\* MUTATED: the lease row is not looked at.
FencedByOwner(o, r) == run[r].owner = o

\* The check of append_event and finish_run; they raise LeaseLost otherwise.
Fenced(o, r) == run[r].owner = o /\ LeaseOwnedBy(o, r)

\* _find_by_client_request: the run this key already made, if any.
Reserved(c, k) ==
  \E r \in Run : k # None /\ run[r].conv = c /\ run[r].key = k

\* MUTATED: a begun write does not matter.
ResumableByStatus(r) == run[r].status = "interrupted"

\* The checks of resume_run on the run: ResumeConflict or UnsafeResume otherwise.
Resumable(r) == run[r].status = "interrupted" /\ run[r].write = "none"

\* resume_run's SessionBusy: the lease row read is another run's and not expired.
BusyFor(r, seen) == seen.run \notin {None, r} /\ seen.live

\* MUTATED: finish_run leaves the lease row.
NothingReleased(r) == lease

\* The lease table without the rows of run r.
Released(r) == [c \in Conv |-> IF lease[c].run = r THEN NoLease ELSE lease[c]]

-----------------------------------------------------------------------------
(* _mark_lease_owner_interrupted: the three tables after run r, whose      *)
(* lease expired, has been marked interrupted.  Ended runs are left alone. *)

\* MUTATED: the run of the expired lease stays as it is.
NotInterrupted(r) == run

InterruptRun(r) ==
  IF run[r].status \in Active
  THEN [run EXCEPT ![r].status = "interrupted",
                   ![r].write = IF @ = "started" THEN "unknown" ELSE @,
                   ![r].seq = @ + 1]
  ELSE run

InterruptCalls(r) ==
  IF run[r].status \in Active /\ run[r].write = "started"
  THEN [call EXCEPT ![r] =
          [k \in Call |-> IF call[r][k].status = "started"
                          THEN [call[r][k] EXCEPT !.status = "unknown"]
                          ELSE call[r][k]]]
  ELSE call

InterruptEvents(r) ==
  IF run[r].status \in Active
  THEN [events EXCEPT ![r] =
          Append(@, [seq |-> run[r].seq + 1, type |-> "interrupted"])]
  ELSE events

-----------------------------------------------------------------------------
(* Transactions.                                                           *)

NewRow(o, c, k) ==
  [conv |-> c, key |-> k, status |-> "queued", write |-> "none",
   owner |-> o, attempt |-> 1, seq |-> 0]

\* reserve_run, the session has no lease row.
ReserveFree(o, r, c, k) ==
  /\ Unlocked(o)
  /\ run[r].status = "absent"
  /\ ~Reserved(c, k)
  /\ lease[c] = NoLease
  /\ run' = [run EXCEPT ![r] = NewRow(o, c, k)]
  /\ lease' = [lease EXCEPT ![c] = [run |-> r, owner |-> o, live |-> TRUE]]
  /\ UNCHANGED <<events, call, resuming>>

\* reserve_run, the session's lease has expired: its run is interrupted first.
ReserveExpired(o, r, c, k) ==
  LET old == lease[c].run IN
  /\ Unlocked(o)
  /\ run[r].status = "absent"
  /\ ~Reserved(c, k)
  /\ old # None /\ ~lease[c].live
  /\ run' = [InterruptRun(old) EXCEPT ![r] = NewRow(o, c, k)]
  /\ call' = InterruptCalls(old)
  /\ events' = InterruptEvents(old)
  /\ lease' = [lease EXCEPT ![c] = [run |-> r, owner |-> o, live |-> TRUE]]
  /\ UNCHANGED resuming

\* MUTATED: the lease row is not deleted.
RecoverKeepsLease(o, c) ==
  LET old == lease[c].run IN
  /\ Unlocked(o)
  /\ old # None /\ ~lease[c].live
  /\ run' = InterruptRun(old)
  /\ call' = InterruptCalls(old)
  /\ events' = InterruptEvents(old)
  /\ UNCHANGED <<lease, resuming>>

\* recover_expired_lease.
RecoverExpired(o, c) ==
  LET old == lease[c].run IN
  /\ Unlocked(o)
  /\ old # None /\ ~lease[c].live
  /\ run' = InterruptRun(old)
  /\ call' = InterruptCalls(old)
  /\ events' = InterruptEvents(old)
  /\ lease' = [lease EXCEPT ![c] = NoLease]
  /\ UNCHANGED resuming

\* resume_run up to its writes: the run row is locked, the lease row only read.
ResumeBegin(o, r) ==
  /\ Unlocked(o) /\ RowFree(r)
  /\ Resumable(r)
  /\ run[r].attempt < MaxAttempt
  /\ LET seen == lease[run[r].conv] IN
       /\ ~BusyFor(r, seen)
       /\ resuming' = [resuming EXCEPT ![o] = [run |-> r, seen |-> seen]]
  /\ UNCHANGED <<run, lease, events, call>>

\* The flush fails when the row it inserts exists, or the one it updates is gone.
ResumeFlushes(o) ==
  LET tx == resuming[o] IN
  (tx.seen.run = None) <=> (lease[run[tx.run].conv].run = None)

\* resume_run's flush and commit.  The UPDATE of a row already read sends the
\* columns that the session saw change: the owner only if it was another one.
ResumeCommit(o) ==
  LET tx == resuming[o]
      r  == tx.run
      c  == run[r].conv
  IN /\ r # None
     /\ ResumeFlushes(o)
     /\ lease' = [lease EXCEPT ![c] =
                    [run |-> r, live |-> TRUE,
                     owner |-> IF tx.seen.owner = o THEN @.owner ELSE o]]
     /\ run' = [run EXCEPT ![r].status = "queued",
                           ![r].attempt = @ + 1,
                           ![r].owner = o,
                           ![r].seq = @ + 1]
     /\ events' = [events EXCEPT ![r] =
                     Append(@, [seq |-> run[r].seq + 1, type |-> "resumed"])]
     /\ resuming' = [resuming EXCEPT ![o] = NoTx]
     /\ UNCHANGED call

\* The transaction is rolled back: flush error, lost connection or crash.
ResumeRollback(o) ==
  /\ resuming[o].run # None
  /\ resuming' = [resuming EXCEPT ![o] = NoTx]
  /\ UNCHANGED <<run, lease, events, call>>

\* renew_lease: it asks for the row, not for the row to be unexpired.
RenewLease(o, r) ==
  /\ Unlocked(o)
  /\ LeaseRowOf(o, r)
  /\ lease' = [c \in Conv |->
                 IF lease[c].run = r /\ lease[c].owner = o
                 THEN [lease[c] EXCEPT !.live = TRUE] ELSE lease[c]]
  /\ UNCHANGED <<run, events, call, resuming>>

\* mark_running: neither the expiry nor the run's status is looked at.
MarkRunning(o, r) ==
  /\ Unlocked(o) /\ RowFree(r)
  /\ LeaseRowOf(o, r) /\ run[r].owner = o
  /\ run' = [run EXCEPT ![r].status = "running"]
  /\ UNCHANGED <<lease, events, call, resuming>>

\* append_event.
AppendEvent(o, r, t) ==
  /\ Unlocked(o) /\ RowFree(r)
  /\ Fenced(o, r)
  /\ Len(events[r]) < MaxEvents
  /\ run' = [run EXCEPT ![r].seq = @ + 1]
  /\ events' = [events EXCEPT ![r] =
                  Append(@, [seq |-> run[r].seq + 1, type |-> t])]
  /\ UNCHANGED <<lease, call, resuming>>

\* start_tool_attempt: no fencing.  A second row of the same id is refused.
StartToolAttempt(o, r, k, access, executes) ==
  /\ Unlocked(o) /\ RowFree(r)
  /\ run[r].status # "absent"
  /\ call[r][k].status = "absent"
  /\ call' = [call EXCEPT ![r][k] = [access |-> access, status |-> "started"]]
  /\ run' = IF access = "write" /\ executes
            THEN [run EXCEPT ![r].write = "started"] ELSE run
  /\ UNCHANGED <<lease, events, resuming>>

\* finish_tool_attempt: no fencing.
FinishToolAttempt(o, r, k, outcome) ==
  /\ Unlocked(o)
  /\ call[r][k].status # "absent"
  /\ call' = [call EXCEPT ![r][k].status = outcome]
  /\ run' = IF call[r][k].access = "write" /\ run[r].write = "started"
            THEN [run EXCEPT ![r].write = IF outcome = "succeeded"
                                          THEN "succeeded" ELSE "unknown"]
            ELSE run
  /\ UNCHANGED <<lease, events, resuming>>

\* finish_run.
FinishRun(o, r, status) ==
  /\ Unlocked(o) /\ RowFree(r)
  /\ Fenced(o, r)
  /\ run' = [run EXCEPT ![r].status = status]
  /\ lease' = Released(r)
  /\ UNCHANGED <<events, call, resuming>>

\* The clock passes lease_expires_at.
Expire(c) ==
  /\ lease[c].live
  /\ lease' = [lease EXCEPT ![c].live = FALSE]
  /\ UNCHANGED <<run, events, call, resuming>>

-----------------------------------------------------------------------------
StoreInit ==
  /\ run = [r \in Run |-> NoRow]
  /\ lease = [c \in Conv |-> NoLease]
  /\ events = [r \in Run |-> <<>>]
  /\ call = [r \in Run |-> [k \in Call |-> NoCall]]
  /\ resuming = [o \in Owner |-> NoTx]

StoreStep(o) ==
  \/ \E c \in Conv : RecoverExpired(o, c)
  \/ ResumeCommit(o)
  \/ ResumeRollback(o)
  \/ \E r \in Run :
       \/ \E c \in Conv, k \in Key \cup {None} :
            ReserveFree(o, r, c, k) \/ ReserveExpired(o, r, c, k)
       \/ ResumeBegin(o, r)
       \/ RenewLease(o, r)
       \/ MarkRunning(o, r)
       \/ \E t \in AppendType : AppendEvent(o, r, t)
       \/ \E k \in Call, access \in {"read", "write"}, executes \in BOOLEAN :
            StartToolAttempt(o, r, k, access, executes)
       \/ \E k \in Call, outcome \in CallOutcome :
            FinishToolAttempt(o, r, k, outcome)
       \/ \E status \in Ended : FinishRun(o, r, status)

StoreNext == (\E o \in Owner : StoreStep(o)) \/ (\E c \in Conv : Expire(c))

StoreSpec == StoreInit /\ [][StoreNext]_storeVars

-----------------------------------------------------------------------------
(* Properties.                                                             *)

\* A lease row always names a queued or running run of its own conversation,
\* so two sessions never share a run and an ended run never blocks a session
\* (reserve_run, resume_run, recover_expired_lease and finish_run together).
LeaseNamesActiveRun ==
  \A c \in Conv : lease[c].run # None =>
    run[lease[c].run].status \in Active /\ run[lease[c].run].conv = c

\* The events of a run are numbered 1, 2, 3... in the order of their ids, which
\* an SSE client resumes by, and last_event_seq counts them, whichever of the
\* four transactions that number an event wrote them.
EventsGapless ==
  \A r \in Run :
    /\ Len(events[r]) = run[r].seq
    /\ \A i \in 1 .. Len(events[r]) : events[r][i].seq = i

\* One client_request_id makes at most one run in a conversation, after any
\* takeovers and resumes.
OneRunPerRequest ==
  \A r, q \in Run :
    run[r].key # None /\ run[r].key = run[q].key /\ run[r].conv = run[q].conv
      => r = q

\* The run and session life cycle of RunLifecycle: finished runs stay finished,
\* a run with a write begun is never started again, and sessions change hands
\* only together with the runs that hold them.
RunPhase(r) ==
  CASE run[r].status = "absent" -> "absent"
    [] run[r].status \in Active -> "active"
    [] run[r].status = "interrupted" ->
         IF run[r].write = "none" THEN "restartable" ELSE "unsafe"
    [] OTHER -> "final"

Lifecycle == INSTANCE RunLifecycle
  WITH phase <- [r \in Run |-> RunPhase(r)],
       holder <- [c \in Conv |-> lease[c].run]

LifecycleSpec == Lifecycle!Spec

\* An active run loses its lease row without ending only to a resume of another
\* run of the session: no reservation, recovery or finish leaves it behind.
LeaseLostOnlyToResume ==
  [][\A r \in Run :
       LET c == run[r].conv IN
       run[r].status \in Active /\ lease[c].run = r /\ lease'[c].run # r
         => \/ run'[r].status \in Ended
            \/ \E q \in Run : /\ run[q].status = "interrupted"
                             /\ run'[q].attempt = run[q].attempt + 1
                             /\ lease'[c].run = q]_storeVars

\* The log and the status of an ended run are closed until it is resumed: no
\* pump, no late call, no task of a worker that lost the session and no older
\* attempt changes them.
EndedRunIsClosed ==
  [][\A r \in Run :
       run[r].status \in Ended /\ run'[r].attempt = run[r].attempt
         => events'[r] = events[r] /\ run'[r].status = run[r].status]_storeVars

=============================================================================
