------------------------ MODULE ExecutionStoreProofs ------------------------
(***************************************************************************)
(* Proofs about ExecutionStore, for any sets of runs, conversations,       *)
(* workers, keys and calls, any bounds and any callers: its invariants,    *)
(* the numbering of events, and that it implements RunLifecycle; and about *)
(* EventStream, for any number of readers: what they are sent is whole.    *)
(***************************************************************************)
EXTENDS EventStream, SequenceTheorems, TLAPS

-----------------------------------------------------------------------------
(* The inductive invariant.                                                *)

\* An open resume_run transaction pins its run: the run stays interrupted with
\* no write begun, and no other transaction is open on it.
OpenResume ==
  \A o \in Owner : resuming[o].run # None =>
    LET r == resuming[o].run IN
    /\ Resumable(r)
    /\ run[r].attempt < MaxAttempt
    /\ \A p \in Owner : resuming[p].run = r => p = o

\* A run that was never reserved has an empty row, any other a conversation.
RowsWhole ==
  \A r \in Run : IF run[r].status = "absent" THEN run[r] = NoRow
                                             ELSE run[r].conv \in Conv

StoreInv == TypeOK /\ OpenResume /\ RowsWhole /\ LeaseNamesActiveRun

-----------------------------------------------------------------------------
(* Type correctness of the helpers.                                        *)

LEMMA RunRowStatus ==
  ASSUME NEW row \in RunRow, NEW s \in Active \cup Ended
  PROVE  [row EXCEPT !.status = s] \in RunRow
BY DEF RunRow

LEMMA RunRowInterrupted ==
  ASSUME NEW row \in RunRow, NEW s \in Active \cup Ended, NEW w \in WriteState,
         NEW n \in Nat
  PROVE  [row EXCEPT !.status = s, !.write = w, !.seq = n] \in RunRow
BY DEF RunRow

LEMMA RunRowRestart ==
  ASSUME NEW row \in RunRow, NEW s \in Active \cup Ended, NEW n \in Nat,
         NEW a \in 0 .. MaxAttempt, NEW o \in Owner
  PROVE  [row EXCEPT !.status = s, !.attempt = a, !.owner = o, !.seq = n] \in RunRow
BY DEF RunRow

LEMMA CallRowUpdate ==
  ASSUME NEW row \in CallRow, NEW s \in CallOutcome
  PROVE  [row EXCEPT !.status = s] \in CallRow
BY DEF CallRow

LEMMA InterruptType ==
  ASSUME TypeOK, NEW r \in Run
  PROVE  /\ InterruptRun(r) \in [Run -> RunRow]
         /\ InterruptCalls(r) \in [Run -> [Call -> CallRow]]
         /\ InterruptEvents(r) \in [Run -> Seq(EventRow)]
<1>1. InterruptRun(r) \in [Run -> RunRow]
  <2> DEFINE w == IF run[r].write = "started" THEN "unknown" ELSE run[r].write
             row == [run[r] EXCEPT !.status = "interrupted", !.write = w,
                                   !.seq = run[r].seq + 1]
  <2>1. /\ run[r] \in RunRow
        /\ "interrupted" \in Active \cup Ended
        /\ w \in WriteState
        /\ run[r].seq + 1 \in Nat
    BY DEF TypeOK, RunRow, Ended, WriteState
  <2>2. row \in RunRow
    BY <2>1, RunRowInterrupted
  <2>3. InterruptRun(r) = IF run[r].status \in Active
                          THEN [run EXCEPT ![r] = row] ELSE run
    BY <2>1 DEF TypeOK, RunRow, InterruptRun
  <2> QED BY <2>2, <2>3 DEF TypeOK
<1>2. InterruptCalls(r) \in [Run -> [Call -> CallRow]]
  <2>1. \A k \in Call : [call[r][k] EXCEPT !.status = "unknown"] \in CallRow
    BY DEF TypeOK, CallRow, CallOutcome
  <2>2. [k \in Call |-> IF call[r][k].status = "started"
                        THEN [call[r][k] EXCEPT !.status = "unknown"]
                        ELSE call[r][k]] \in [Call -> CallRow]
    BY <2>1 DEF TypeOK
  <2> QED BY <2>2 DEF TypeOK, InterruptCalls
<1>3. InterruptEvents(r) \in [Run -> Seq(EventRow)]
  <2>1. [seq |-> run[r].seq + 1, type |-> "interrupted"] \in EventRow
    BY DEF TypeOK, RunRow, EventRow, EventType
  <2>2. Append(events[r], [seq |-> run[r].seq + 1, type |-> "interrupted"])
          \in Seq(EventRow)
    BY <2>1, AppendProperties DEF TypeOK
  <2> QED BY <2>2 DEF TypeOK, InterruptEvents
<1> QED BY <1>1, <1>2, <1>3

LEMMA NewRowType ==
  ASSUME NEW o \in Owner, NEW c \in Conv, NEW k \in Key \cup {None}
  PROVE  NewRow(o, c, k) \in RunRow
BY StoreAssumption DEF NewRow, RunRow, Active, Ended, WriteState

-----------------------------------------------------------------------------
(* Every transaction keeps the types.                                      *)

LEMMA InitTypeOK == StoreInit => TypeOK
<1> SUFFICES ASSUME StoreInit PROVE TypeOK
  OBVIOUS
<1>1. NoRow \in RunRow /\ NoLease \in LeaseRow /\ NoCall \in CallRow
  BY StoreAssumption
  DEF NoRow, RunRow, NoLease, LeaseRow, NoCall, CallRow, WriteState, Active, Ended
<1>2. NoTx \in ResumeTx
  BY <1>1 DEF NoTx, ResumeTx
<1>3. <<>> \in Seq(EventRow)
  OBVIOUS
<1> QED BY <1>1, <1>2, <1>3 DEF StoreInit, TypeOK

LEMMA StepTypeOK ==
  ASSUME TypeOK, OpenResume, RowsWhole, StoreNext
  PROVE  TypeOK'
<1> USE DEF TypeOK
<1>0. /\ NoLease \in LeaseRow
      /\ NoTx \in ResumeTx
      /\ \A r \in Run, o \in Owner :
           [run |-> r, owner |-> o, live |-> TRUE] \in LeaseRow
  BY DEF NoLease, LeaseRow, NoTx, ResumeTx
<1>1. ASSUME NEW o \in Owner, NEW r \in Run, NEW c \in Conv,
             NEW k \in Key \cup {None}, ReserveFree(o, r, c, k)
      PROVE  TypeOK'
  BY <1>0, <1>1, NewRowType DEF ReserveFree
<1>2. ASSUME NEW o \in Owner, NEW r \in Run, NEW c \in Conv,
             NEW k \in Key \cup {None}, ReserveExpired(o, r, c, k)
      PROVE  TypeOK'
  <2>1. lease[c].run \in Run
    BY <1>2 DEF ReserveExpired, LeaseRow
  <2> QED BY <1>0, <1>2, <2>1, NewRowType, InterruptType DEF ReserveExpired
<1>3. ASSUME NEW o \in Owner, NEW c \in Conv, RecoverExpired(o, c)
      PROVE  TypeOK'
  <2>1. lease[c].run \in Run
    BY <1>3 DEF RecoverExpired, LeaseRow
  <2> QED BY <1>0, <1>3, <2>1, InterruptType DEF RecoverExpired
<1>4. ASSUME NEW o \in Owner, NEW r \in Run, ResumeBegin(o, r)
      PROVE  TypeOK'
  <2>1. run[r].conv \in Conv
    BY <1>4 DEF ResumeBegin, Resumable, RowsWhole
  <2>2. [run |-> r, seen |-> lease[run[r].conv]] \in ResumeTx
    BY <2>1 DEF ResumeTx
  <2> QED BY <1>4, <2>2 DEF ResumeBegin
<1>5. ASSUME NEW o \in Owner, ResumeCommit(o)
      PROVE  TypeOK'
  <2> DEFINE r == resuming[o].run
             c == run[r].conv
             e == [seq |-> run[r].seq + 1, type |-> "resumed"]
  <2>1. r \in Run /\ run[r].attempt + 1 \in 0 .. MaxAttempt /\ c \in Conv
    <3>1. r \in Run
      BY <1>5 DEF ResumeCommit, ResumeTx
    <3>2. run[r].attempt < MaxAttempt /\ run[r].attempt \in 0 .. MaxAttempt
      BY <1>5, <3>1 DEF ResumeCommit, OpenResume, RunRow
    <3>3. c \in Conv
      BY <1>5, <3>1 DEF ResumeCommit, OpenResume, Resumable, RowsWhole
    <3> QED BY <3>1, <3>2, <3>3, StoreAssumption
  <2>2. run' \in [Run -> RunRow]
    <3>1. [run[r] EXCEPT !.status = "queued", !.attempt = run[r].attempt + 1,
                         !.owner = o, !.seq = run[r].seq + 1] \in RunRow
      <4>1. run[r] \in RunRow /\ "queued" \in Active \cup Ended /\ run[r].seq + 1 \in Nat
        BY <2>1 DEF RunRow, Active
      <4> QED BY <2>1, <4>1, RunRowRestart
    <3>2. run' = [run EXCEPT ![r] =
                   [run[r] EXCEPT !.status = "queued",
                                  !.attempt = run[r].attempt + 1,
                                  !.owner = o, !.seq = run[r].seq + 1]]
      BY <1>5, <2>1 DEF ResumeCommit
    <3> QED BY <2>1, <3>1, <3>2
  <2>3. lease' \in [Conv -> LeaseRow]
    BY <1>5, <2>1 DEF ResumeCommit, LeaseRow
  <2>4. events' \in [Run -> Seq(EventRow)]
    <3>1. e \in EventRow
      BY <2>1 DEF EventRow, EventType, RunRow
    <3>2. Append(events[r], e) \in Seq(EventRow)
      BY <2>1, <3>1, AppendProperties
    <3> QED BY <1>5, <3>2 DEF ResumeCommit
  <2> QED BY <1>0, <1>5, <2>2, <2>3, <2>4 DEF ResumeCommit
<1>6. ASSUME NEW o \in Owner, ResumeRollback(o)
      PROVE  TypeOK'
  BY <1>0, <1>6 DEF ResumeRollback
<1>7. ASSUME NEW o \in Owner, NEW r \in Run, RenewLease(o, r)
      PROVE  TypeOK'
  BY <1>7 DEF RenewLease, LeaseRow
<1>8. ASSUME NEW o \in Owner, NEW r \in Run, MarkRunning(o, r)
      PROVE  TypeOK'
  <2>1. "running" \in Active \cup Ended
    BY DEF Active
  <2>2. [run EXCEPT ![r].status = "running"] \in [Run -> RunRow]
    BY <2>1, RunRowStatus
  <2> QED BY <1>8, <2>2 DEF MarkRunning
<1>9. ASSUME NEW o \in Owner, NEW r \in Run, NEW t \in AppendType,
             AppendEvent(o, r, t)
      PROVE  TypeOK'
  <2>1. [seq |-> run[r].seq + 1, type |-> t] \in EventRow
    BY DEF EventRow, EventType, RunRow
  <2>2. Append(events[r], [seq |-> run[r].seq + 1, type |-> t]) \in Seq(EventRow)
    BY <2>1, AppendProperties
  <2>3. run' \in [Run -> RunRow]
    <3>1. run[r] \in RunRow /\ run[r].seq + 1 \in Nat
      BY DEF RunRow
    <3>2. [run[r] EXCEPT !.seq = run[r].seq + 1] \in RunRow
      BY <3>1 DEF RunRow
    <3> QED BY <1>9, <3>2 DEF AppendEvent
  <2> QED BY <1>9, <2>2, <2>3 DEF AppendEvent
<1>10. ASSUME NEW o \in Owner, NEW r \in Run, NEW k \in Call,
              NEW access \in {"read", "write"}, NEW executes \in BOOLEAN,
              StartToolAttempt(o, r, k, access, executes)
       PROVE  TypeOK'
  <2>1. [access |-> access, status |-> "started"] \in CallRow
    BY DEF CallRow
  <2>2. [call EXCEPT ![r][k] = [access |-> access, status |-> "started"]]
          \in [Run -> [Call -> CallRow]]
    BY <2>1
  <2>3. [run EXCEPT ![r].write = "started"] \in [Run -> RunRow]
    BY ZenonT(30) DEF RunRow, WriteState
  <2> QED BY <1>10, <2>2, <2>3 DEF StartToolAttempt
<1>11. ASSUME NEW o \in Owner, NEW r \in Run, NEW k \in Call,
              NEW outcome \in CallOutcome, FinishToolAttempt(o, r, k, outcome)
       PROVE  TypeOK'
  <2>1. [call EXCEPT ![r][k].status = outcome] \in [Run -> [Call -> CallRow]]
    <3>1. [call[r][k] EXCEPT !.status = outcome] \in CallRow
      BY CallRowUpdate
    <3>2. [call[r] EXCEPT ![k].status = outcome] \in [Call -> CallRow]
      BY <3>1
    <3> QED BY <3>2
  <2>2. ASSUME NEW w \in {"succeeded", "unknown"}
        PROVE  [run EXCEPT ![r].write = w] \in [Run -> RunRow]
    BY ZenonT(30) DEF RunRow, WriteState
  <2> QED BY <1>11, <2>1, <2>2 DEF FinishToolAttempt
<1>12. ASSUME NEW o \in Owner, NEW r \in Run, NEW status \in Ended,
              FinishRun(o, r, status)
       PROVE  TypeOK'
  <2>1. Released(r) \in [Conv -> LeaseRow]
    BY <1>0 DEF Released
  <2>2. [run EXCEPT ![r].status = status] \in [Run -> RunRow]
    BY DEF RunRow
  <2> QED BY <1>12, <2>1, <2>2 DEF FinishRun
<1>13. ASSUME NEW c \in Conv, Expire(c)
       PROVE  TypeOK'
  BY <1>13 DEF Expire, LeaseRow
<1> QED
  BY <1>1, <1>2, <1>3, <1>4, <1>5, <1>6, <1>7, <1>8, <1>9, <1>10, <1>11, <1>12,
     <1>13 DEF StoreNext, StoreStep

-----------------------------------------------------------------------------
(* What interrupting a run does to the run table.                          *)

LEMMA InterruptRunRows ==
  ASSUME TypeOK, NEW r \in Run, NEW q \in Run
  PROVE  /\ q # r \/ run[q].status \notin Active => InterruptRun(r)[q] = run[q]
         /\ InterruptRun(r)[q].conv = run[q].conv
         /\ InterruptRun(r)[q].key = run[q].key
         /\ InterruptRun(r)[q].attempt = run[q].attempt
         /\ run[q].status \in Active /\ q = r =>
              InterruptRun(r)[q].status = "interrupted"
<1>1. run[r] \in RunRow /\ run[q] \in RunRow
  BY DEF TypeOK
<1> QED BY <1>1 DEF TypeOK, InterruptRun, RunRow

-----------------------------------------------------------------------------
(* What a transaction can do to one run and its log.                       *)

\* The columns that no transaction changes once the run is reserved.
SameRequest(q) == run'[q].conv = run[q].conv /\ run'[q].key = run[q].key

\* One event more, numbered by last_event_seq.
Logged(q) ==
  /\ run'[q].seq = run[q].seq + 1
  /\ \E t \in EventType :
       events'[q] = Append(events[q], [seq |-> run[q].seq + 1, type |-> t])

NotLogged(q) == run'[q].seq = run[q].seq /\ events'[q] = events[q]

MadeStep(q) ==
  /\ run[q].status = "absent"
  /\ \E o \in Owner, c \in Conv, k \in Key \cup {None} :
       ~Reserved(c, k) /\ run'[q] = NewRow(o, c, k)
  /\ \A p \in Run \ {q} : SameRequest(p)
  /\ events'[q] = events[q]

InterruptStep(q) ==
  /\ run[q].status \in Active /\ run'[q].status = "interrupted"
  /\ run'[q].write = (IF run[q].write = "started" THEN "unknown" ELSE run[q].write)
  /\ run'[q].attempt = run[q].attempt
  /\ SameRequest(q) /\ Logged(q)

RestartStep(q) ==
  /\ \E o \in Owner : resuming[o].run = q /\ resuming'[o] = NoTx
  /\ Resumable(q) /\ run'[q].status = "queued"
  /\ run'[q].write = run[q].write
  /\ run'[q].attempt = run[q].attempt + 1
  /\ SameRequest(q) /\ Logged(q)

AppendStep(q) ==
  /\ run[q].status \in Active /\ run'[q].status = run[q].status
  /\ run'[q].write = run[q].write /\ run'[q].attempt = run[q].attempt
  /\ SameRequest(q) /\ Logged(q)

StatusStep(q) ==
  /\ run[q].status \in Active /\ run'[q].status \in Ended \cup {"running"}
  /\ run'[q].write = run[q].write /\ run'[q].attempt = run[q].attempt
  /\ SameRequest(q) /\ NotLogged(q)

WriteStep(q) ==
  /\ run[q].status # "absent" /\ run'[q].status = run[q].status
  /\ run'[q].write # "none" /\ (RowFree(q) \/ run[q].write # "none")
  /\ run'[q].attempt = run[q].attempt
  /\ SameRequest(q) /\ NotLogged(q)

RunStep(q) ==
  \/ run'[q] = run[q] /\ events'[q] = events[q]
  \/ MadeStep(q) \/ InterruptStep(q) \/ RestartStep(q) \/ AppendStep(q)
  \/ StatusStep(q) \/ WriteStep(q)

\* An interrupted run, or one that has ended already.
LEMMA InterruptIsStep ==
  ASSUME TypeOK, NEW r \in Run, NEW q \in Run,
         run'[q] = InterruptRun(r)[q], events'[q] = InterruptEvents(r)[q]
  PROVE  RunStep(q)
<1>1. run[q] \in RunRow
  BY DEF TypeOK
<1>2. CASE q = r /\ run[r].status \in Active
  <2>1. run'[q] = [run[q] EXCEPT !.status = "interrupted",
                     !.write = IF @ = "started" THEN "unknown" ELSE @,
                     !.seq = @ + 1]
    BY <1>2 DEF InterruptRun, TypeOK
  <2>2. events'[q] = Append(events[q], [seq |-> run[q].seq + 1, type |-> "interrupted"])
    BY <1>2 DEF InterruptEvents, TypeOK
  <2>3. InterruptStep(q)
    BY <1>1, <1>2, <2>1, <2>2
    DEF InterruptStep, SameRequest, Logged, EventType, RunRow
  <2> QED BY <2>3 DEF RunStep
<1>3. CASE ~(q = r /\ run[r].status \in Active)
  <2>1. run'[q] = run[q] /\ events'[q] = events[q]
    BY <1>3 DEF InterruptRun, InterruptEvents, TypeOK
  <2> QED BY <2>1 DEF RunStep
<1> QED BY <1>2, <1>3

LEMMA StoreSteps ==
  ASSUME TypeOK, OpenResume, RowsWhole, LeaseNamesActiveRun, StoreNext, NEW q \in Run
  PROVE  RunStep(q)
<1>0. run[q] \in RunRow
  BY DEF TypeOK
<1>1. ASSUME NEW o \in Owner, NEW r \in Run, NEW c \in Conv,
             NEW k \in Key \cup {None}, ReserveFree(o, r, c, k)
      PROVE  RunStep(q)
  <2>1. CASE q = r
    BY <1>1, <2>1 DEF ReserveFree, TypeOK, RunStep, MadeStep, SameRequest
  <2>2. CASE q # r
    BY <1>1, <2>2 DEF ReserveFree, TypeOK, RunStep
  <2> QED BY <2>1, <2>2
<1>2. ASSUME NEW o \in Owner, NEW r \in Run, NEW c \in Conv,
             NEW k \in Key \cup {None}, ReserveExpired(o, r, c, k)
      PROVE  RunStep(q)
  <2> DEFINE old == lease[c].run
  <2>1. old \in Run /\ run[old].status \in Active /\ run[r].status = "absent"
    BY <1>2 DEF ReserveExpired, TypeOK, LeaseRow, LeaseNamesActiveRun
  <2>2. old # r
    BY <2>1 DEF Active
  <2>3. CASE q = r
    <3>1. run'[q] = NewRow(o, c, k) /\ ~Reserved(c, k)
      BY <1>2, <2>1, <2>3, InterruptType DEF ReserveExpired
    <3>2. events'[q] = events[q]
      BY <1>2, <2>1, <2>2, <2>3 DEF ReserveExpired, InterruptEvents, TypeOK
    <3>3. ASSUME NEW p \in Run \ {q} PROVE SameRequest(p)
      <4>1. run'[p] = InterruptRun(old)[p]
        BY <1>2, <2>1, <2>3, InterruptType DEF ReserveExpired
      <4> QED BY <2>1, <4>1, InterruptRunRows DEF SameRequest
    <3> QED BY <2>1, <2>3, <3>1, <3>2, <3>3 DEF RunStep, MadeStep
  <2>4. CASE q # r
    <3>1. run'[q] = InterruptRun(old)[q] /\ events'[q] = InterruptEvents(old)[q]
      BY <1>2, <2>1, <2>4, InterruptType DEF ReserveExpired
    <3> QED BY <2>1, <3>1, InterruptIsStep
  <2> QED BY <2>3, <2>4
<1>3. ASSUME NEW o \in Owner, NEW c \in Conv, RecoverExpired(o, c)
      PROVE  RunStep(q)
  <2>1. lease[c].run \in Run
    BY <1>3 DEF RecoverExpired, TypeOK, LeaseRow
  <2>2. /\ run'[q] = InterruptRun(lease[c].run)[q]
        /\ events'[q] = InterruptEvents(lease[c].run)[q]
    BY <1>3 DEF RecoverExpired
  <2> QED BY <2>1, <2>2, InterruptIsStep
<1>4. ASSUME NEW o \in Owner, ResumeCommit(o)
      PROVE  RunStep(q)
  <2>1. resuming[o].run \in Run /\ Resumable(resuming[o].run)
    BY <1>4 DEF ResumeCommit, OpenResume, TypeOK, ResumeTx
  <2>2. CASE q = resuming[o].run
    <3>1. run'[q] = [run[q] EXCEPT !.status = "queued", !.attempt = @ + 1,
                                   !.owner = o, !.seq = @ + 1]
      BY <1>4, <2>2 DEF ResumeCommit, TypeOK
    <3>2. events'[q] = Append(events[q], [seq |-> run[q].seq + 1, type |-> "resumed"])
      BY <1>4, <2>2 DEF ResumeCommit, TypeOK
    <3>3. resuming'[o] = NoTx
      BY <1>4 DEF ResumeCommit, TypeOK
    <3>4. /\ run'[q].status = "queued" /\ run'[q].write = run[q].write
          /\ run'[q].attempt = run[q].attempt + 1 /\ SameRequest(q)
          /\ run'[q].seq = run[q].seq + 1
      BY <1>0, <3>1 DEF SameRequest, RunRow
    <3>5. Logged(q)
      BY <3>2, <3>4 DEF Logged, EventType
    <3> QED BY <2>1, <2>2, <3>3, <3>4, <3>5 DEF RunStep, RestartStep
  <2>3. CASE q # resuming[o].run
    BY <1>4, <2>1, <2>3 DEF ResumeCommit, TypeOK, RunStep
  <2> QED BY <2>2, <2>3
<1>5. ASSUME NEW o \in Owner, NEW r \in Run, MarkRunning(o, r)
      PROVE  RunStep(q)
  <2>1. run[r].status \in Active
    BY <1>5, StoreAssumption DEF MarkRunning, LeaseRowOf, LeaseNamesActiveRun
  <2>2. CASE q = r
    <3>1. run'[q] = [run[q] EXCEPT !.status = "running"] /\ events'[q] = events[q]
      BY <1>5, <2>2 DEF MarkRunning, TypeOK
    <3>2. StatusStep(q)
      BY <1>0, <2>1, <2>2, <3>1 DEF StatusStep, SameRequest, NotLogged, RunRow
    <3> QED BY <3>2 DEF RunStep
  <2>3. CASE q # r
    BY <1>5, <2>3 DEF MarkRunning, TypeOK, RunStep
  <2> QED BY <2>2, <2>3
<1>6. ASSUME NEW o \in Owner, NEW r \in Run, NEW t \in AppendType,
             AppendEvent(o, r, t)
      PROVE  RunStep(q)
  <2>1. run[r].status \in Active
    BY <1>6, StoreAssumption
    DEF AppendEvent, Fenced, LeaseOwnedBy, LeaseNamesActiveRun
  <2>2. CASE q = r
    <3>1. run'[q] = [run[q] EXCEPT !.seq = @ + 1]
      BY <1>6, <2>2 DEF AppendEvent, TypeOK
    <3>2. events'[q] = Append(events[q], [seq |-> run[q].seq + 1, type |-> t])
      BY <1>6, <2>2 DEF AppendEvent, TypeOK
    <3>3. AppendStep(q)
      BY <1>0, <2>1, <2>2, <3>1, <3>2
      DEF AppendStep, SameRequest, Logged, EventType, RunRow
    <3> QED BY <3>3 DEF RunStep
  <2>3. CASE q # r
    BY <1>6, <2>3 DEF AppendEvent, TypeOK, RunStep
  <2> QED BY <2>2, <2>3
<1>7. ASSUME NEW o \in Owner, NEW r \in Run, NEW status \in Ended,
             FinishRun(o, r, status)
      PROVE  RunStep(q)
  <2>1. run[r].status \in Active
    BY <1>7, StoreAssumption
    DEF FinishRun, Fenced, LeaseOwnedBy, LeaseNamesActiveRun
  <2>2. CASE q = r
    <3>1. run'[q] = [run[q] EXCEPT !.status = status] /\ events'[q] = events[q]
      BY <1>7, <2>2 DEF FinishRun, TypeOK
    <3>2. StatusStep(q)
      BY <1>0, <2>1, <2>2, <3>1 DEF StatusStep, SameRequest, NotLogged, RunRow
    <3> QED BY <3>2 DEF RunStep
  <2>3. CASE q # r
    BY <1>7, <2>3 DEF FinishRun, TypeOK, RunStep
  <2> QED BY <2>2, <2>3
<1>8. ASSUME NEW r \in Run, NEW w \in WriteState \ {"none"},
             run[r].status # "absent", RowFree(r) \/ run[r].write # "none",
             run' = [run EXCEPT ![r].write = w], events' = events
      PROVE  RunStep(q)
  <2>1. CASE q = r
    <3>1. run'[q] = [run[q] EXCEPT !.write = w]
      BY <1>8, <2>1 DEF TypeOK
    <3>2. WriteStep(q)
      BY <1>0, <1>8, <2>1, <3>1 DEF WriteStep, SameRequest, NotLogged, RunRow
    <3> QED BY <3>2 DEF RunStep
  <2>2. CASE q # r
    BY <1>8, <2>2 DEF TypeOK, RunStep
  <2> QED BY <2>1, <2>2
<1>9. ASSUME NEW o \in Owner, NEW r \in Run, NEW k \in Call,
             NEW access \in {"read", "write"}, NEW executes \in BOOLEAN,
             StartToolAttempt(o, r, k, access, executes)
      PROVE  RunStep(q)
  <2>1. CASE run' = run
    BY <1>9, <2>1 DEF StartToolAttempt, RunStep
  <2>2. CASE run' # run
    BY <1>8, <1>9, <2>2 DEF StartToolAttempt, WriteState
  <2> QED BY <2>1, <2>2
<1>10. ASSUME NEW o \in Owner, NEW r \in Run, NEW k \in Call,
              NEW outcome \in CallOutcome, FinishToolAttempt(o, r, k, outcome)
       PROVE  RunStep(q)
  <2>1. CASE run' = run
    BY <1>10, <2>1 DEF FinishToolAttempt, RunStep
  <2>2. CASE run' # run
    <3>1. run[r].write = "started" /\ run[r].status # "absent"
      BY <1>10, <2>2 DEF FinishToolAttempt, RowsWhole, NoRow
    <3> QED BY <1>8, <1>10, <2>2, <3>1 DEF FinishToolAttempt, WriteState
  <2> QED BY <2>1, <2>2
<1>11. CASE UNCHANGED <<run, events>>
  BY <1>11 DEF RunStep
<1> QED
  BY <1>1, <1>2, <1>3, <1>4, <1>5, <1>6, <1>7, <1>9, <1>10, <1>11
  DEF StoreNext, StoreStep, ResumeBegin, ResumeRollback, RenewLease, Expire

-----------------------------------------------------------------------------
(* The steps keep the invariant.                                           *)

LEMMA StepRowsWhole ==
  ASSUME StoreInv, StoreNext
  PROVE  RowsWhole'
<1> SUFFICES ASSUME NEW q \in Run
             PROVE  IF run'[q].status = "absent" THEN run'[q] = NoRow
                                                 ELSE run'[q].conv \in Conv
  BY DEF RowsWhole
<1>1. RunStep(q)
  BY StoreSteps DEF StoreInv
<1>2. IF run[q].status = "absent" THEN run[q] = NoRow ELSE run[q].conv \in Conv
  BY DEF StoreInv, RowsWhole
<1>3. CASE run'[q] = run[q]
  BY <1>2, <1>3
<1>4. CASE MadeStep(q)
  BY <1>4 DEF MadeStep, NewRow
<1>5. CASE InterruptStep(q) \/ RestartStep(q)
  BY <1>2, <1>5 DEF InterruptStep, RestartStep, SameRequest, Resumable, Active
<1>6. CASE AppendStep(q) \/ StatusStep(q) \/ WriteStep(q)
  BY <1>2, <1>6 DEF AppendStep, StatusStep, WriteStep, SameRequest, Active, Ended
<1> QED
  BY <1>1, <1>3, <1>4, <1>5, <1>6 DEF RunStep

\* Only resume_run touches the open transactions.
LEMMA ResumingSteps ==
  ASSUME StoreNext
  PROVE  \/ \E o \in Owner : \/ ResumeCommit(o) \/ ResumeRollback(o)
                            \/ \E r \in Run : ResumeBegin(o, r)
         \/ UNCHANGED resuming
<1>1. ASSUME NEW o \in Owner, NEW r \in Run, NEW c \in Conv, NEW k \in Key \cup {None},
             ReserveFree(o, r, c, k) \/ ReserveExpired(o, r, c, k)
      PROVE  UNCHANGED resuming
  BY <1>1 DEF ReserveFree, ReserveExpired
<1>2. ASSUME NEW o \in Owner, NEW c \in Conv, RecoverExpired(o, c)
      PROVE  UNCHANGED resuming
  BY <1>2 DEF RecoverExpired
<1>3. ASSUME NEW o \in Owner, NEW r \in Run,
             \/ RenewLease(o, r) \/ MarkRunning(o, r)
             \/ \E t \in AppendType : AppendEvent(o, r, t)
             \/ \E status \in Ended : FinishRun(o, r, status)
      PROVE  UNCHANGED resuming
  BY <1>3 DEF RenewLease, MarkRunning, AppendEvent, FinishRun
<1>4. ASSUME NEW o \in Owner, NEW r \in Run, NEW k \in Call,
             \/ \E access \in {"read", "write"}, executes \in BOOLEAN :
                  StartToolAttempt(o, r, k, access, executes)
             \/ \E outcome \in CallOutcome : FinishToolAttempt(o, r, k, outcome)
      PROVE  UNCHANGED resuming
  BY <1>4 DEF StartToolAttempt, FinishToolAttempt
<1>5. ASSUME NEW c \in Conv, Expire(c)
      PROVE  UNCHANGED resuming
  BY <1>5 DEF Expire
<1> QED BY <1>1, <1>2, <1>3, <1>4, <1>5 DEF StoreNext, StoreStep

LEMMA StepOpenResume ==
  ASSUME StoreInv, StoreNext
  PROVE  OpenResume'
<1> USE DEF StoreInv
<1>1. ASSUME NEW o \in Owner, NEW r \in Run, ResumeBegin(o, r)
      PROVE  OpenResume'
  BY <1>1 DEF ResumeBegin, RowFree, OpenResume, Resumable, TypeOK
<1>2. ASSUME \A o \in Owner : resuming'[o] = resuming[o] \/ resuming'[o] = NoTx
      PROVE  OpenResume'
  <2> SUFFICES ASSUME NEW o \in Owner, resuming'[o].run # None
               PROVE  /\ run'[resuming'[o].run].status = "interrupted"
                      /\ run'[resuming'[o].run].write = "none"
                      /\ run'[resuming'[o].run].attempt < MaxAttempt
                      /\ \A p \in Owner :
                           resuming'[p].run = resuming'[o].run => p = o
    BY DEF OpenResume, Resumable
  <2> DEFINE r == resuming[o].run
  <2>1. resuming'[o] = resuming[o] /\ resuming[o] # NoTx /\ r \in Run
    BY <1>2 DEF NoTx, TypeOK, ResumeTx
  <2>2. /\ Resumable(r) /\ run[r].attempt < MaxAttempt
        /\ \A p \in Owner : resuming[p].run = r => p = o
    BY <2>1 DEF OpenResume
  <2>3. \A p \in Owner : resuming'[p].run = r => p = o
    BY <1>2, <2>1, <2>2, StoreAssumption DEF NoTx
  <2>4. ~RowFree(r)
    BY <2>1 DEF RowFree
  <2>5. ~RestartStep(r)
    BY <2>1, <2>2 DEF RestartStep
  <2>6. RunStep(r)
    BY <2>1, StoreSteps
  <2>7. run'[r].status = run[r].status /\ run'[r].write = run[r].write
          /\ run'[r].attempt = run[r].attempt
    BY <2>2, <2>4, <2>5, <2>6
    DEF RunStep, MadeStep, InterruptStep, AppendStep, StatusStep, WriteStep,
        Resumable, Active
  <2> QED BY <2>1, <2>2, <2>3, <2>7 DEF Resumable
<1>3. CASE UNCHANGED resuming
  BY <1>2, <1>3
<1>4. ASSUME NEW o \in Owner, ResumeCommit(o) \/ ResumeRollback(o)
      PROVE  OpenResume'
  <2>1. \A p \in Owner : resuming'[p] = resuming[p] \/ resuming'[p] = NoTx
    BY <1>4 DEF ResumeCommit, ResumeRollback, TypeOK
  <2> QED BY <1>2, <2>1
<1> QED
  BY <1>1, <1>3, <1>4, ResumingSteps

LEMMA StepLeaseNamesActiveRun ==
  ASSUME StoreInv, StoreNext
  PROVE  LeaseNamesActiveRun'
<1> USE DEF StoreInv
<1> DEFINE Good(c) == run'[lease'[c].run].status \in Active
                        /\ run'[lease'[c].run].conv = c
<1> SUFFICES ASSUME NEW d \in Conv, lease'[d].run # None PROVE Good(d)
  BY DEF LeaseNamesActiveRun
<1>0. /\ \A c \in Conv : lease[c].run # None =>
           lease[c].run \in Run /\ run[lease[c].run].status \in Active
             /\ run[lease[c].run].conv = c
      /\ \A q \in Run : RunStep(q)
  BY StoreSteps DEF LeaseNamesActiveRun, TypeOK, LeaseRow
\* A lease row that stays is good unless its run ends in this step.
<1>1. ASSUME lease'[d].run = lease[d].run,
             run'[lease[d].run].status \notin Ended
      PROVE  Good(d)
  <2>1. RunStep(lease[d].run) /\ run[lease[d].run].status \in Active
          /\ run[lease[d].run].conv = d
    BY <1>0, <1>1
  <2> QED
    BY <1>1, <2>1
    DEF RunStep, MadeStep, InterruptStep, RestartStep, AppendStep, StatusStep, WriteStep,
        SameRequest, Active, Ended, Resumable
<1>2. ASSUME NEW o \in Owner, NEW r \in Run, NEW c \in Conv,
             NEW k \in Key \cup {None}, ReserveFree(o, r, c, k)
      PROVE  Good(d)
  <2>1. CASE d = c
    BY <1>2, <2>1 DEF ReserveFree, NewRow, Active, TypeOK
  <2>2. CASE d # c
    <3>1. lease'[d] = lease[d] /\ lease[d].run # r
      BY <1>0, <1>2, <2>2 DEF ReserveFree, TypeOK, Active
    <3> QED BY <1>0, <1>2, <3>1 DEF ReserveFree, TypeOK
  <2> QED BY <2>1, <2>2
<1>3. ASSUME NEW o \in Owner, NEW r \in Run, NEW c \in Conv,
             NEW k \in Key \cup {None}, ReserveExpired(o, r, c, k)
      PROVE  Good(d)
  <2> DEFINE old == lease[c].run
  <2>1. old \in Run
    BY <1>0, <1>3 DEF ReserveExpired
  <2>2. CASE d = c
    BY <1>3, <2>1, <2>2, InterruptType DEF ReserveExpired, NewRow, Active, TypeOK
  <2>3. CASE d # c
    <3>1. lease'[d] = lease[d] /\ lease[d].run \notin {r, old}
      <4>1. lease'[d] = lease[d] /\ run[r].status = "absent"
        BY <1>3, <2>3 DEF ReserveExpired, TypeOK
      <4>2. lease[d].run # r
        BY <1>0, <4>1 DEF Active
      <4>3. lease[d].run # old
        BY <1>0, <2>1, <2>3, <4>1, StoreAssumption
      <4> QED BY <4>1, <4>2, <4>3
    <3>2. run'[lease[d].run] = run[lease[d].run]
      BY <1>0, <1>3, <2>1, <3>1, InterruptRunRows, InterruptType DEF ReserveExpired
    <3> QED BY <1>0, <3>1, <3>2
  <2> QED BY <2>2, <2>3
<1>4. ASSUME NEW o \in Owner, NEW c \in Conv, RecoverExpired(o, c)
      PROVE  Good(d)
  <2>1. d # c /\ lease'[d] = lease[d] /\ lease[d].run # lease[c].run
    BY <1>0, <1>4 DEF RecoverExpired, NoLease, TypeOK
  <2>2. run'[lease[d].run] = run[lease[d].run]
    BY <1>0, <1>4, <2>1, InterruptRunRows DEF RecoverExpired
  <2> QED BY <1>0, <2>1, <2>2
<1>5. ASSUME NEW o \in Owner, ResumeCommit(o)
      PROVE  Good(d)
  <2> DEFINE r == resuming[o].run
  <2>1. r \in Run /\ run[r].status = "interrupted" /\ run[r].conv \in Conv
    BY <1>5 DEF ResumeCommit, OpenResume, Resumable, RowsWhole, TypeOK, ResumeTx
  <2>2. run'[r].status = "queued" /\ run'[r].conv = run[r].conv
    BY <1>5, <2>1 DEF ResumeCommit, TypeOK, RunRow
  <2>3. CASE d = run[r].conv
    BY <1>5, <2>1, <2>2, <2>3 DEF ResumeCommit, TypeOK, Active
  <2>4. CASE d # run[r].conv
    <3>1. lease'[d] = lease[d] /\ lease[d].run # r
      BY <1>0, <1>5, <2>1, <2>4 DEF ResumeCommit, TypeOK, Active
    <3> QED BY <1>0, <1>5, <2>1, <3>1 DEF ResumeCommit, TypeOK
  <2> QED BY <2>3, <2>4
<1>6. ASSUME NEW o \in Owner, NEW r \in Run, NEW status \in Ended,
             FinishRun(o, r, status)
      PROVE  Good(d)
  <2>1. lease'[d] = lease[d] /\ lease[d].run # r
    BY <1>6 DEF FinishRun, Released, NoLease, TypeOK
  <2> QED BY <1>0, <1>6, <2>1 DEF FinishRun, TypeOK
<1>7. ASSUME lease'[d].run = lease[d].run,
             \A q \in Run : run'[q].status \in {run[q].status, "running"}
      PROVE  Good(d)
  BY <1>0, <1>1, <1>7 DEF Active, Ended
<1>8. ASSUME NEW o \in Owner, NEW r \in Run,
             RenewLease(o, r) \/ MarkRunning(o, r)
               \/ (\E t \in AppendType : AppendEvent(o, r, t))
      PROVE  Good(d)
  <2>1. lease'[d].run = lease[d].run
    BY <1>8 DEF RenewLease, MarkRunning, AppendEvent, TypeOK, LeaseRow
  <2>2. \A q \in Run : run'[q].status \in {run[q].status, "running"}
    <3>1. CASE RenewLease(o, r)
      BY <3>1 DEF RenewLease
    <3>2. CASE MarkRunning(o, r)
      BY <3>2 DEF MarkRunning, TypeOK, RunRow
    <3>3. ASSUME NEW t \in AppendType, AppendEvent(o, r, t), NEW q \in Run
          PROVE  run'[q].status = run[q].status
      BY <3>3 DEF AppendEvent, TypeOK, RunRow
    <3> QED BY <1>8, <3>1, <3>2, <3>3
  <2> QED BY <1>7, <2>1, <2>2
<1>9. ASSUME NEW o \in Owner, NEW r \in Run, NEW k \in Call,
             (\E access \in {"read", "write"}, executes \in BOOLEAN :
                 StartToolAttempt(o, r, k, access, executes))
               \/ (\E outcome \in CallOutcome : FinishToolAttempt(o, r, k, outcome))
      PROVE  Good(d)
  <2>1. lease' = lease
    BY <1>9 DEF StartToolAttempt, FinishToolAttempt
  <2>2. run' = run \/ \E w \in WriteState : run' = [run EXCEPT ![r].write = w]
    BY <1>9 DEF StartToolAttempt, FinishToolAttempt, WriteState
  <2>3. ASSUME NEW w \in WriteState, run' = [run EXCEPT ![r].write = w], NEW q \in Run
        PROVE  run'[q].status = run[q].status
    BY <2>3 DEF TypeOK, RunRow
  <2> QED BY <1>7, <2>1, <2>2, <2>3
<1>10. ASSUME NEW c \in Conv, Expire(c)
       PROVE  Good(d)
  <2>1. lease'[d].run = lease[d].run /\ run' = run
    BY <1>10 DEF Expire, TypeOK, LeaseRow
  <2> QED BY <1>7, <2>1
<1>11. CASE UNCHANGED <<run, lease>>
  BY <1>0, <1>11
<1> QED
  BY <1>2, <1>3, <1>4, <1>5, <1>6, <1>8, <1>9, <1>10, <1>11
  DEF StoreNext, StoreStep, ResumeBegin, ResumeRollback

LEMMA InitStoreInv == StoreInit => StoreInv
<1> SUFFICES ASSUME StoreInit PROVE StoreInv
  OBVIOUS
<1>1. TypeOK
  BY InitTypeOK
<1> QED BY <1>1 DEF StoreInit, StoreInv, OpenResume, RowsWhole, LeaseNamesActiveRun,
                    NoTx, NoRow, NoLease

LEMMA NextStoreInv ==
  ASSUME StoreInv, [StoreNext]_storeVars
  PROVE  StoreInv'
<1>1. CASE StoreNext
  BY <1>1, StepTypeOK, StepOpenResume, StepRowsWhole, StepLeaseNamesActiveRun
  DEF StoreInv
<1>2. CASE UNCHANGED storeVars
  BY <1>2 DEF storeVars, StoreInv, TypeOK, OpenResume, RowsWhole, LeaseNamesActiveRun,
              Resumable
<1> QED BY <1>1, <1>2

\* The inductive invariant holds of the tables, whatever the callers do.
THEOREM StoreInvariant == StoreSpec => []StoreInv
<1> QED BY InitStoreInv, NextStoreInv, PTL DEF StoreSpec

\* The tables keep their types for any numbers of runs, workers and sessions.
THEOREM StoreTypeOK == StoreSpec => []TypeOK
<1>1. StoreInv => TypeOK
  BY DEF StoreInv
<1> QED BY <1>1, StoreInvariant, PTL

\* A lease row always names an unfinished run of its own conversation.
THEOREM StoreLeaseNamesActiveRun == StoreSpec => []LeaseNamesActiveRun
<1>1. StoreInv => LeaseNamesActiveRun
  BY DEF StoreInv
<1> QED BY <1>1, StoreInvariant, PTL

-----------------------------------------------------------------------------
(* Numbering of events.                                                    *)

LEMMA StepEventsGapless ==
  ASSUME StoreInv, EventsGapless, StoreNext
  PROVE  EventsGapless'
<1> SUFFICES ASSUME NEW q \in Run
             PROVE  /\ Len(events'[q]) = run'[q].seq
                    /\ \A i \in 1 .. Len(events'[q]) : events'[q][i].seq = i
  BY DEF EventsGapless
<1>1. RunStep(q)
  BY StoreSteps DEF StoreInv
<1>2. /\ events[q] \in Seq(EventRow) /\ Len(events[q]) = run[q].seq
      /\ \A i \in 1 .. Len(events[q]) : events[q][i].seq = i
  BY DEF StoreInv, TypeOK, EventsGapless
<1>3. CASE run'[q].seq = run[q].seq /\ events'[q] = events[q]
  BY <1>2, <1>3
<1>4. CASE MadeStep(q)
  <2>1. run[q] = NoRow
    BY <1>4 DEF MadeStep, StoreInv, RowsWhole
  <2> QED BY <1>2, <1>4, <2>1 DEF MadeStep, NoRow, NewRow
<1>5. CASE Logged(q)
  <2> DEFINE n == Len(events[q]) + 1
  <2>1. PICK t \in EventType : events'[q] = Append(events[q], [seq |-> n, type |-> t])
    BY <1>2, <1>5 DEF Logged
  <2>2. n \in Nat /\ run'[q].seq = n
    BY <1>2, <1>5 DEF Logged
  <2>3. [seq |-> n, type |-> t] \in EventRow
    BY <2>2 DEF EventRow
  <2>4. /\ Len(events'[q]) = n
        /\ \A i \in 1 .. Len(events[q]) : events'[q][i] = events[q][i]
        /\ events'[q][n] = [seq |-> n, type |-> t]
    BY <1>2, <2>1, <2>3, AppendProperties
  <2>5. ASSUME NEW i \in 1 .. n PROVE events'[q][i].seq = i
    <3>1. CASE i = n
      BY <2>4, <3>1
    <3>2. CASE i # n
      <4>1. i \in 1 .. Len(events[q])
        BY <1>2, <2>2, <3>2
      <4> QED BY <1>2, <2>4, <4>1
    <3> QED BY <3>1, <3>2
  <2> QED BY <2>2, <2>4, <2>5
<1> QED
  BY <1>1, <1>3, <1>4, <1>5
  DEF RunStep, InterruptStep, RestartStep, AppendStep, StatusStep, WriteStep, NotLogged

\* The events of every run are numbered without gaps, and last_event_seq counts
\* them, for any number of workers that append, interrupt and resume.
THEOREM StoreEventsGapless == StoreSpec => []EventsGapless
<1>1. StoreInit => EventsGapless
  <2> SUFFICES ASSUME StoreInit, NEW r \in Run
               PROVE  /\ Len(events[r]) = run[r].seq
                      /\ \A i \in 1 .. Len(events[r]) : events[r][i].seq = i
    BY DEF EventsGapless
  <2>1. events[r] = <<>> /\ run[r].seq = 0
    BY DEF StoreInit, NoRow
  <2> QED BY <2>1
<1>2. ASSUME StoreInv, EventsGapless, [StoreNext]_storeVars
      PROVE  EventsGapless'
  BY <1>2, StepEventsGapless DEF storeVars, EventsGapless
<1> QED BY <1>1, <1>2, StoreInvariant, PTL DEF StoreSpec

-----------------------------------------------------------------------------
(* Idempotence of client_request_id.                                       *)

LEMMA StepOneRunPerRequest ==
  ASSUME StoreInv, OneRunPerRequest, StoreNext
  PROVE  OneRunPerRequest'
<1> SUFFICES ASSUME NEW r \in Run, NEW q \in Run, r # q,
                    run'[r].key # None, run'[r].key = run'[q].key,
                    run'[r].conv = run'[q].conv
             PROVE  FALSE
  BY DEF OneRunPerRequest
<1>1. RunStep(r) /\ RunStep(q)
  BY StoreSteps DEF StoreInv
<1>2. ASSUME NEW p \in Run, NEW d \in Run, p # d, MadeStep(p),
             run'[p].key # None, run'[p].key = run'[d].key, run'[p].conv = run'[d].conv
      PROVE  FALSE
  <2>1. PICK o \in Owner, c \in Conv, k \in Key \cup {None} :
          ~Reserved(c, k) /\ run'[p] = NewRow(o, c, k)
    BY <1>2 DEF MadeStep
  <2>2. run'[p].key = k /\ run'[p].conv = c
    BY <2>1 DEF NewRow
  <2>3. run[d].key = k /\ run[d].conv = c
    BY <1>2, <2>2 DEF MadeStep, SameRequest
  <2> QED BY <1>2, <2>1, <2>2, <2>3 DEF Reserved
<1>3. CASE ~MadeStep(r) /\ ~MadeStep(q)
  <2>1. SameRequest(r) /\ SameRequest(q)
    BY <1>1, <1>3
    DEF RunStep, InterruptStep, RestartStep, AppendStep, StatusStep, WriteStep, SameRequest
  <2> QED BY <2>1 DEF SameRequest, OneRunPerRequest
<1> QED BY <1>2, <1>3

\* One client_request_id never makes two runs of a conversation.
THEOREM StoreOneRunPerRequest == StoreSpec => []OneRunPerRequest
<1>1. StoreInit => OneRunPerRequest
  BY DEF StoreInit, OneRunPerRequest, NoRow
<1>2. ASSUME StoreInv, OneRunPerRequest, [StoreNext]_storeVars
      PROVE  OneRunPerRequest'
  BY <1>2, StepOneRunPerRequest DEF storeVars, OneRunPerRequest
<1> QED BY <1>1, <1>2, StoreInvariant, PTL DEF StoreSpec

-----------------------------------------------------------------------------
(* Closed logs.                                                            *)

\* Nothing but a resume changes the log or the status of an ended run.
THEOREM StoreEndedRunIsClosed == StoreSpec => EndedRunIsClosed
<1>1. ASSUME StoreInv, [StoreNext]_storeVars, NEW r \in Run,
             run[r].status \in Ended, run'[r].attempt = run[r].attempt
      PROVE  events'[r] = events[r] /\ run'[r].status = run[r].status
  <2>1. CASE StoreNext
    <3>1. RunStep(r) /\ run[r] \in RunRow
      BY <1>1, <2>1, StoreSteps DEF StoreInv, TypeOK
    <3>2. ~RestartStep(r)
      BY <1>1, <3>1 DEF RestartStep, RunRow
    <3> QED BY <1>1, <3>1, <3>2
            DEF RunStep, MadeStep, InterruptStep, AppendStep, StatusStep, WriteStep,
                NotLogged, Active, Ended
  <2>2. CASE UNCHANGED storeVars
    BY <2>2 DEF storeVars
  <2> QED BY <1>1, <2>1, <2>2
<1>2. ASSUME StoreInv, [StoreNext]_storeVars
      PROVE  [\A r \in Run :
                run[r].status \in Ended /\ run'[r].attempt = run[r].attempt
                  => events'[r] = events[r] /\ run'[r].status = run[r].status]_storeVars
  BY <1>1, <1>2
<1> QED BY <1>2, StoreInvariant, PTL DEF StoreSpec, EndedRunIsClosed

\* A session's run loses its lease row: it ended, or another run was resumed.
LEMMA LeaseChangesHands ==
  ASSUME StoreInv, StoreNext, NEW r \in Run, NEW c \in Conv,
         run[r].status \in Active, run[r].conv = c, lease[c].run = r, lease'[c].run # r
  PROVE  \/ run'[r].status \in Ended
         \/ \E q \in Run : /\ run[q].status = "interrupted"
                          /\ run'[q].attempt = run[q].attempt + 1
                          /\ lease'[c].run = q
<1> USE StoreAssumption
<1>1. /\ run \in [Run -> RunRow] /\ lease \in [Conv -> LeaseRow]
      /\ resuming \in [Owner -> ResumeTx] /\ r # None
  BY DEF StoreInv, TypeOK
<1>2. ASSUME run'[r] = InterruptRun(r)[r] PROVE run'[r].status \in Ended
  <2>1. TypeOK BY DEF StoreInv
  <2> QED BY <1>1, <1>2, <2>1, InterruptRunRows DEF Ended
<1>3. ASSUME NEW o \in Owner, NEW q \in Run, NEW d \in Conv, NEW k \in Key \cup {None},
             ReserveFree(o, q, d, k)
      PROVE  FALSE
  BY <1>1, <1>3 DEF ReserveFree, NoLease
<1>4. ASSUME NEW o \in Owner, NEW q \in Run, NEW d \in Conv, NEW k \in Key \cup {None},
             ReserveExpired(o, q, d, k)
      PROVE  run'[r].status \in Ended
  <2>1. d = c /\ q # r
    BY <1>1, <1>4 DEF ReserveExpired, Active
  <2>2. run'[r] = InterruptRun(r)[r]
    BY <1>1, <1>4, <2>1 DEF ReserveExpired, InterruptRun
  <2> QED BY <1>2, <2>2
<1>5. ASSUME NEW o \in Owner, NEW d \in Conv, RecoverExpired(o, d)
      PROVE  run'[r].status \in Ended
  <2>1. d = c /\ run'[r] = InterruptRun(r)[r]
    BY <1>1, <1>5 DEF RecoverExpired
  <2> QED BY <1>2, <2>1
<1>6. ASSUME NEW o \in Owner, ResumeCommit(o)
      PROVE  \E q \in Run : /\ run[q].status = "interrupted"
                            /\ run'[q].attempt = run[q].attempt + 1
                            /\ lease'[c].run = q
  <2>1. PICK q \in Run : q = resuming[o].run
    BY <1>1, <1>6 DEF ResumeCommit, ResumeTx
  <2>2. run[q].status = "interrupted" /\ run[q].conv \in Conv
    BY <2>1, <1>1 DEF StoreInv, OpenResume, RowsWhole, Resumable, RunRow
  <2>3. run'[q].attempt = run[q].attempt + 1
    BY <1>1, <1>6, <2>1 DEF ResumeCommit, RunRow
  <2>4. run[q].conv = c /\ lease'[c].run = q
    BY <1>1, <1>6, <2>1, <2>2 DEF ResumeCommit
  <2> QED BY <2>2, <2>3, <2>4
<1>7. ASSUME NEW o \in Owner, NEW q \in Run, NEW status \in Ended, FinishRun(o, q, status)
      PROVE  run'[r].status \in Ended
  <2>1. q = r
    BY <1>1, <1>7 DEF FinishRun, Released
  <2> QED BY <1>1, <1>7, <2>1 DEF FinishRun, RunRow
<1>8. ASSUME NEW o \in Owner, NEW q \in Run, RenewLease(o, q) PROVE FALSE
  BY <1>1, <1>8 DEF RenewLease, LeaseRow
<1>9. ASSUME NEW d \in Conv, Expire(d) PROVE FALSE
  BY <1>1, <1>9 DEF Expire, LeaseRow
<1>10. \A o \in Owner, q \in Run :
         /\ ~ResumeRollback(o) /\ ~ResumeBegin(o, q) /\ ~MarkRunning(o, q)
         /\ \A t \in AppendType : ~AppendEvent(o, q, t)
         /\ \A k \in Call, access \in {"read", "write"}, executes \in BOOLEAN :
              ~StartToolAttempt(o, q, k, access, executes)
         /\ \A k \in Call, outcome \in CallOutcome : ~FinishToolAttempt(o, q, k, outcome)
  BY DEF ResumeRollback, ResumeBegin, MarkRunning, AppendEvent, StartToolAttempt,
         FinishToolAttempt
<1> QED
  BY <1>3, <1>4, <1>5, <1>6, <1>7, <1>8, <1>9, <1>10 DEF StoreNext, StoreStep

\* An active run loses its lease row without ending only to a resume of another
\* run of its conversation (store.py: the six transactions that write the row).
THEOREM StoreLeaseLostOnlyToResume == StoreSpec => LeaseLostOnlyToResume
<1>1. ASSUME StoreInv, [StoreNext]_storeVars, NEW r \in Run,
             run[r].status \in Active, lease[run[r].conv].run = r,
             lease'[run[r].conv].run # r
      PROVE  \/ run'[r].status \in Ended
             \/ \E q \in Run : /\ run[q].status = "interrupted"
                              /\ run'[q].attempt = run[q].attempt + 1
                              /\ lease'[run[r].conv].run = q
  <2>1. PICK c \in Conv : c = run[r].conv
    BY <1>1 DEF StoreInv, TypeOK, RowsWhole, RunRow, Active
  <2>2. CASE StoreNext
    BY <1>1, <2>1, <2>2, LeaseChangesHands
  <2>3. CASE UNCHANGED storeVars
    BY <1>1, <2>3 DEF storeVars
  <2> QED BY <1>1, <2>2, <2>3
<1>2. ASSUME StoreInv, [StoreNext]_storeVars
      PROVE  [\A r \in Run :
                LET c == run[r].conv IN
                run[r].status \in Active /\ lease[c].run = r /\ lease'[c].run # r
                  => \/ run'[r].status \in Ended
                     \/ \E q \in Run : /\ run[q].status = "interrupted"
                                      /\ run'[q].attempt = run[q].attempt + 1
                                      /\ lease'[c].run = q]_storeVars
  BY <1>1, <1>2
<1> QED BY <1>2, StoreInvariant, PTL DEF StoreSpec, LeaseLostOnlyToResume

-----------------------------------------------------------------------------
(* The store implements RunLifecycle.                                      *)

Phase  == [r \in Run |-> RunPhase(r)]
Holder == [c \in Conv |-> lease[c].run]

\* A step of the tables as a step of the life cycle, or a stutter.
LifecycleStep == Lifecycle!Next \/ (Phase' = Phase /\ Holder' = Holder)

LEMMA PhaseKept ==
  ASSUME NEW q \in Run, run'[q] = run[q] PROVE Phase'[q] = Phase[q]
BY DEF Phase, RunPhase

\* Steps that change no status, and no write_state from or to "none".
LEMMA PhasesKept ==
  ASSUME \A q \in Run : /\ run'[q].status = run[q].status
                        /\ run'[q].write = "none" <=> run[q].write = "none"
  PROVE  Phase' = Phase
<1>1. ASSUME NEW q \in Run PROVE RunPhase(q)' = RunPhase(q)
  BY DEF RunPhase
<1> QED BY <1>1 DEF Phase

\* The holder of a session is an active run, and holds no other session.
LEMMA HolderActive ==
  ASSUME StoreInv, NEW c \in Conv, lease[c].run # None
  PROVE  /\ lease[c].run \in Run /\ run[lease[c].run].status \in Active
         /\ run[lease[c].run].conv = c
         /\ Holder[c] = lease[c].run /\ Phase[lease[c].run] = "active"
         /\ \A d \in Conv : lease[d].run = lease[c].run => d = c
<1>1. /\ lease[c].run \in Run /\ run[lease[c].run].status \in Active
      /\ \A d \in Conv : lease[d].run = lease[c].run => run[lease[d].run].conv = d
  BY DEF StoreInv, TypeOK, LeaseRow, LeaseNamesActiveRun
<1> QED BY <1>1 DEF StoreInv, LeaseNamesActiveRun, Phase, Holder, RunPhase, Active

LEMMA InterruptedPhase ==
  ASSUME StoreInv, NEW r \in Run, run[r].status \in Active,
         run'[r] = InterruptRun(r)[r]
  PROVE  Phase'[r] \in {"restartable", "unsafe"}
<1>1. run'[r].status = "interrupted"
  BY InterruptRunRows DEF StoreInv
<1> QED BY <1>1 DEF Phase, RunPhase, Active

LEMMA ReserveFreeStep ==
  ASSUME StoreInv, NEW o \in Owner, NEW r \in Run, NEW c \in Conv,
         NEW k \in Key \cup {None}, ReserveFree(o, r, c, k)
  PROVE  LifecycleStep
<1>1. Phase[r] = "absent" /\ Holder[c] = None
  BY DEF ReserveFree, Phase, Holder, RunPhase, NoLease, Active
<1>2. Phase' = [Phase EXCEPT ![r] = "active"]
  <2>1. run'[r].status = "queued"
    BY DEF ReserveFree, NewRow, StoreInv, TypeOK
  <2>2. Phase'[r] = "active"
    BY <2>1 DEF Phase, RunPhase, Active
  <2>3. \A q \in Run \ {r} : Phase'[q] = Phase[q]
    BY PhaseKept DEF ReserveFree, StoreInv, TypeOK
  <2> QED BY <2>2, <2>3 DEF Phase
<1>3. Holder' = [Holder EXCEPT ![c] = r]
  BY DEF ReserveFree, Holder, StoreInv, TypeOK
<1>4. Lifecycle!Start(r, c)
  BY <1>1, <1>2, <1>3 DEF Lifecycle!Start, Phase, Holder
<1> QED BY <1>4 DEF LifecycleStep, Lifecycle!Next

LEMMA ReserveExpiredStep ==
  ASSUME StoreInv, NEW o \in Owner, NEW r \in Run, NEW c \in Conv,
         NEW k \in Key \cup {None}, ReserveExpired(o, r, c, k)
  PROVE  LifecycleStep
<1> DEFINE old == lease[c].run
<1>1. /\ old \in Run /\ run[old].status \in Active /\ run[r].status = "absent"
      /\ Holder[c] = old /\ Phase[old] = "active" /\ Phase[r] = "absent"
      /\ old # r
  BY HolderActive DEF ReserveExpired, Phase, RunPhase, Active
<1>2. /\ run'[r] = NewRow(o, c, k)
      /\ \A q \in Run \ {r} : run'[q] = InterruptRun(old)[q]
  BY <1>1, InterruptType DEF ReserveExpired, StoreInv
<1>3. PICK p \in {"restartable", "unsafe"} : Phase'[old] = p
  BY <1>1, <1>2, InterruptedPhase
<1>4. Phase' = [Phase EXCEPT ![old] = p, ![r] = "active"]
  <2>1. Phase'[r] = "active"
    BY <1>2 DEF NewRow, Phase, RunPhase, Active
  <2>2. \A q \in Run \ {r, old} : Phase'[q] = Phase[q]
    BY <1>1, <1>2, InterruptRunRows, PhaseKept DEF StoreInv
  <2> QED BY <1>1, <1>3, <2>1, <2>2 DEF Phase
<1>5. Holder' = [Holder EXCEPT ![c] = r]
  BY DEF ReserveExpired, Holder, StoreInv, TypeOK
<1>6. Lifecycle!TakeOver(r, c)
  BY <1>1, <1>3, <1>4, <1>5 DEF Lifecycle!TakeOver, Phase, Holder
<1> QED BY <1>6 DEF LifecycleStep, Lifecycle!Next

LEMMA RecoverExpiredStep ==
  ASSUME StoreInv, NEW o \in Owner, NEW c \in Conv, RecoverExpired(o, c)
  PROVE  LifecycleStep
<1> DEFINE old == lease[c].run
<1>1. /\ old \in Run /\ run[old].status \in Active
      /\ Holder[c] = old /\ Phase[old] = "active"
  BY HolderActive DEF RecoverExpired
<1>2. PICK p \in {"restartable", "unsafe"} : Phase'[old] = p
  BY <1>1, InterruptedPhase DEF RecoverExpired
<1>3. Phase' = [Phase EXCEPT ![old] = p]
  <2>1. \A q \in Run \ {old} : Phase'[q] = Phase[q]
    BY <1>1, InterruptRunRows, PhaseKept DEF RecoverExpired, StoreInv
  <2> QED BY <1>1, <1>2, <2>1 DEF Phase
<1>4. Holder' = [Holder EXCEPT ![c] = None]
  BY DEF RecoverExpired, Holder, NoLease, StoreInv, TypeOK
<1>5. Lifecycle!End(c)
  BY <1>1, <1>2, <1>3, <1>4 DEF Lifecycle!End, Lifecycle!Over, Phase, Holder
<1> QED BY <1>5 DEF LifecycleStep, Lifecycle!Next

LEMMA ResumeCommitStep ==
  ASSUME StoreInv, NEW o \in Owner, ResumeCommit(o)
  PROVE  LifecycleStep
<1>0. /\ resuming[o].run \in Run /\ Resumable(resuming[o].run)
      /\ run[resuming[o].run].conv \in Conv
  BY DEF ResumeCommit, StoreInv, OpenResume, Resumable, RowsWhole, TypeOK, ResumeTx
<1>1. PICK r \in Run, c \in Conv :
        resuming[o].run = r /\ run[r].conv = c /\ Resumable(r)
  BY <1>0
<1>2. Phase[r] = "restartable"
  BY <1>1 DEF Phase, RunPhase, Resumable, Active
<1>3. Phase' = [Phase EXCEPT ![r] = "active"]
  <2>1. run'[r].status = "queued"
    BY <1>1 DEF ResumeCommit, StoreInv, TypeOK, RunRow
  <2>2. Phase'[r] = "active"
    BY <1>1, <2>1 DEF Phase, RunPhase, Active
  <2>3. \A q \in Run \ {r} : Phase'[q] = Phase[q]
    BY <1>1, PhaseKept DEF ResumeCommit, StoreInv, TypeOK
  <2> QED BY <1>1, <2>2, <2>3 DEF Phase
<1>4. Holder' = [Holder EXCEPT ![c] = r]
  BY <1>1 DEF ResumeCommit, Holder, StoreInv, TypeOK
<1>5. Lifecycle!Restart(r, c)
  BY <1>2, <1>3, <1>4 DEF Lifecycle!Restart, Phase, Holder
<1> QED BY <1>5 DEF LifecycleStep, Lifecycle!Next

LEMMA FinishRunStep ==
  ASSUME StoreInv, NEW o \in Owner, NEW r \in Run, NEW status \in Ended,
         FinishRun(o, r, status)
  PROVE  LifecycleStep
<1>1. PICK c \in Conv : lease[c].run = r
  BY DEF FinishRun, Fenced, LeaseOwnedBy
<1>2. /\ Holder[c] = r /\ Phase[r] = "active"
      /\ \A d \in Conv : lease[d].run = r => d = c
  BY <1>1, HolderActive, StoreAssumption
<1>3. PICK p \in {"final", "restartable", "unsafe"} : Phase'[r] = p
  <2>1. run'[r].status = status
    BY DEF FinishRun, StoreInv, TypeOK, RunRow
  <2> QED BY <2>1 DEF Phase, RunPhase, Active, Ended
<1>4. Phase' = [Phase EXCEPT ![r] = p]
  <2>1. \A q \in Run \ {r} : Phase'[q] = Phase[q]
    BY PhaseKept DEF FinishRun, StoreInv, TypeOK
  <2> QED BY <1>3, <2>1 DEF Phase
<1>5. Holder' = [Holder EXCEPT ![c] = None]
  BY <1>1, <1>2 DEF FinishRun, Released, Holder, NoLease, StoreInv, TypeOK
<1>6. Lifecycle!End(c)
  BY <1>2, <1>3, <1>4, <1>5 DEF Lifecycle!End, Lifecycle!Over, Phase, Holder
<1> QED BY <1>6 DEF LifecycleStep, Lifecycle!Next

\* A tool attempt that records the start of a write taints an interrupted run.
LEMMA StartToolAttemptStep ==
  ASSUME StoreInv, NEW o \in Owner, NEW r \in Run, NEW k \in Call,
         NEW access \in {"read", "write"}, NEW executes \in BOOLEAN,
         StartToolAttempt(o, r, k, access, executes)
  PROVE  LifecycleStep
<1>1. Holder' = Holder
  BY DEF StartToolAttempt, Holder
<1>2. CASE run' = run
  <2>1. Phase' = Phase
    BY <1>2, PhasesKept
  <2> QED BY <1>1, <2>1 DEF LifecycleStep
<1>3. CASE run' # run
  <2>1. run' = [run EXCEPT ![r].write = "started"] /\ run[r].status # "absent"
    BY <1>3 DEF StartToolAttempt
  <2>2. \A q \in Run \ {r} : Phase'[q] = Phase[q]
    BY <2>1, PhaseKept DEF StoreInv, TypeOK
  <2>3. run'[r].status = run[r].status /\ run'[r].write = "started"
    BY <2>1 DEF StoreInv, TypeOK, RunRow
  <2>4. CASE Phase[r] = "restartable"
    <3>1. run[r].status = "interrupted"
      BY <2>4 DEF Phase, RunPhase, Active
    <3>2. Phase'[r] = "unsafe"
      BY <2>3, <3>1 DEF Phase, RunPhase, Active
    <3>3. Phase' = [Phase EXCEPT ![r] = "unsafe"]
      BY <2>2, <3>2 DEF Phase
    <3>4. Lifecycle!Taint(r)
      BY <1>1, <2>4, <3>3 DEF Lifecycle!Taint, Phase, Holder
    <3> QED BY <3>4 DEF LifecycleStep, Lifecycle!Next
  <2>5. CASE Phase[r] # "restartable"
    <3>1. Phase'[r] = Phase[r]
      BY <2>3, <2>5 DEF Phase, RunPhase, Active
    <3>2. Phase' = Phase
      BY <2>2, <3>1 DEF Phase
    <3> QED BY <1>1, <3>2 DEF LifecycleStep
  <2> QED BY <2>4, <2>5
<1> QED BY <1>2, <1>3

LEMMA FinishToolAttemptStep ==
  ASSUME StoreInv, NEW o \in Owner, NEW r \in Run, NEW k \in Call,
         NEW outcome \in CallOutcome, FinishToolAttempt(o, r, k, outcome)
  PROVE  LifecycleStep
<1>1. Holder' = Holder
  BY DEF FinishToolAttempt, Holder
<1>2. ASSUME NEW w \in {"succeeded", "unknown"}, run[r].write = "started",
             run' = [run EXCEPT ![r].write = w], NEW q \in Run
      PROVE  /\ run'[q].status = run[q].status
             /\ run'[q].write = "none" <=> run[q].write = "none"
  <2>1. run[q] \in RunRow
    BY DEF StoreInv, TypeOK
  <2>2. CASE q = r
    <3>1. run'[q] = [run[q] EXCEPT !.write = w]
      BY <1>2, <2>2 DEF StoreInv, TypeOK
    <3> QED BY <1>2, <2>1, <2>2, <3>1 DEF RunRow
  <2>3. CASE q # r
    BY <1>2, <2>3 DEF StoreInv, TypeOK
  <2> QED BY <2>2, <2>3
<1>3. \A q \in Run : /\ run'[q].status = run[q].status
                     /\ run'[q].write = "none" <=> run[q].write = "none"
  BY <1>2 DEF FinishToolAttempt
<1>4. Phase' = Phase
  BY <1>3, PhasesKept
<1> QED BY <1>1, <1>4 DEF LifecycleStep

LEMMA RunningStep ==
  ASSUME StoreInv, NEW o \in Owner, NEW r \in Run,
         MarkRunning(o, r) \/ \E t \in AppendType : AppendEvent(o, r, t)
  PROVE  LifecycleStep
<1>1. Holder' = Holder
  BY DEF MarkRunning, AppendEvent, Holder
<1>2. CASE MarkRunning(o, r)
  <2>1. run[r].status \in Active
    BY <1>2, StoreAssumption DEF MarkRunning, LeaseRowOf, StoreInv, LeaseNamesActiveRun
  <2>2. run'[r].status = "running"
    BY <1>2 DEF MarkRunning, StoreInv, TypeOK, RunRow
  <2>3. Phase'[r] = Phase[r]
    BY <2>1, <2>2 DEF Phase, RunPhase, Active
  <2>4. \A q \in Run \ {r} : Phase'[q] = Phase[q]
    BY <1>2, PhaseKept DEF MarkRunning, StoreInv, TypeOK
  <2>5. Phase' = Phase
    BY <2>3, <2>4 DEF Phase
  <2> QED BY <1>1, <2>5 DEF LifecycleStep
<1>3. ASSUME NEW t \in AppendType, AppendEvent(o, r, t)
      PROVE  LifecycleStep
  <2>1. ASSUME NEW q \in Run
        PROVE  run'[q].status = run[q].status /\ run'[q].write = run[q].write
    BY <1>3 DEF AppendEvent, StoreInv, TypeOK, RunRow
  <2>2. Phase' = Phase
    BY <2>1, PhasesKept
  <2> QED BY <1>1, <2>2 DEF LifecycleStep
<1> QED BY <1>2, <1>3

\* The steps that change neither a run nor a holder.
LEMMA SilentStep ==
  ASSUME StoreInv, run' = run, \A c \in Conv : lease'[c].run = lease[c].run
  PROVE  LifecycleStep
<1>1. Phase' = Phase
  BY PhasesKept
<1>2. Holder' = Holder
  BY DEF Holder
<1> QED BY <1>1, <1>2 DEF LifecycleStep

LEMMA NextLifecycle ==
  ASSUME StoreInv, StoreNext
  PROVE  LifecycleStep
<1>1. ASSUME NEW o \in Owner, NEW r \in Run, ResumeBegin(o, r) \/ RenewLease(o, r)
      PROVE  LifecycleStep
  <2>1. run' = run /\ \A c \in Conv : lease'[c].run = lease[c].run
    BY <1>1 DEF ResumeBegin, RenewLease, StoreInv, TypeOK, LeaseRow
  <2> QED BY <2>1, SilentStep
<1>2. ASSUME NEW o \in Owner, ResumeRollback(o)
      PROVE  LifecycleStep
  BY <1>2, SilentStep DEF ResumeRollback
<1>3. ASSUME NEW c \in Conv, Expire(c)
      PROVE  LifecycleStep
  <2>1. run' = run /\ \A d \in Conv : lease'[d].run = lease[d].run
    BY <1>3 DEF Expire, StoreInv, TypeOK, LeaseRow
  <2> QED BY <2>1, SilentStep
<1> QED
  BY <1>1, <1>2, <1>3, ReserveFreeStep, ReserveExpiredStep, RecoverExpiredStep,
     ResumeCommitStep, FinishRunStep, StartToolAttemptStep, FinishToolAttemptStep,
     RunningStep
  DEF StoreNext, StoreStep

\* The tables implement the life cycle: finished runs stay finished, a run with
\* a write begun is never started again, and sessions change hands only
\* together with the runs that hold them.
THEOREM StoreLifecycle == StoreSpec => LifecycleSpec
<1>1. StoreInit => Lifecycle!Init
  BY DEF StoreInit, Lifecycle!Init, RunPhase, NoRow, NoLease, Active
<1>2. ASSUME StoreInv, [StoreNext]_storeVars
      PROVE  [Lifecycle!Next]_Lifecycle!vars
  <2>1. CASE StoreNext
    BY <1>2, <2>1, NextLifecycle DEF LifecycleStep, Phase, Holder, Lifecycle!vars
  <2>2. CASE UNCHANGED storeVars
    <3>1. run' = run /\ \A c \in Conv : lease'[c].run = lease[c].run
      BY <2>2 DEF storeVars
    <3> QED BY <1>2, <3>1, SilentStep DEF LifecycleStep, Phase, Holder, Lifecycle!vars
  <2> QED BY <1>2, <2>1, <2>2
<1> QED
  BY <1>1, <1>2, StoreInvariant, PTL DEF StoreSpec, LifecycleSpec, Lifecycle!Spec

-----------------------------------------------------------------------------
(* Event streams: what EventStream adds to the store.                      *)

Finished == {"completed", "failed", "cancelled"}

\* An open stream reads a run that was reserved; the finished status it acts on
\* is still the run's, and a stream that returned on it stands at the log's end.
StreamRead(row, rows, logs) ==
  /\ row.pc # "closed" => row.run \in Run /\ rows[row.run].status # "absent"
  /\ row.pc \in {"final", "returned"} /\ row.saw \in Finished =>
       rows[row.run].status = row.saw
  /\ row.pc = "returned" /\ row.saw \in Finished =>
       row.cursor = Len(logs[row.run])

StreamsRead == \A s \in Stream : StreamRead(stream[s], run, events)

StreamInv == StoreInv /\ stream \in [Stream -> StreamRow] /\ StreamsRead

\* What the streams rely on: a reserved run stays reserved, and the status and
\* the log of a finished run do not change.
LEMMA StoreStepKeepsRead ==
  ASSUME StoreInv, StoreNext \/ UNCHANGED storeVars,
         NEW row, StreamRead(row, run, events)
  PROVE  StreamRead(row, run', events')
<1>1. CASE row.pc = "closed"
  BY <1>1 DEF StreamRead
<1>2. CASE row.pc # "closed"
  <2>1. row.run \in Run /\ run[row.run].status # "absent"
    BY <1>2 DEF StreamRead
  <2>2. CASE StoreNext
    <3>1. RunStep(row.run)
      BY <2>1, <2>2, StoreSteps DEF StoreInv
    <3>2. run'[row.run].status # "absent"
      BY <2>1, <3>1
      DEF RunStep, MadeStep, InterruptStep, RestartStep, AppendStep, StatusStep,
          WriteStep, Active, Ended
    <3>3. run[row.run].status \in Finished =>
            run'[row.run].status = run[row.run].status
              /\ events'[row.run] = events[row.run]
      BY <3>1
      DEF RunStep, MadeStep, InterruptStep, RestartStep, AppendStep, StatusStep,
          WriteStep, Resumable, NotLogged, Active, Finished
    <3> QED BY <2>1, <3>2, <3>3 DEF StreamRead
  <2>3. CASE UNCHANGED storeVars
    BY <2>3 DEF storeVars
  <2> QED BY <2>2, <2>3
<1> QED BY <1>1, <1>2

\* A stream's own step is a step of the store or leaves the store alone.
LEMMA StreamKeepsStore ==
  ASSUME StreamInv, StreamNext
  PROVE  StoreNext \/ UNCHANGED storeVars
<1>1. ASSUME NEW s \in Stream, NEW o \in Owner, Recover(s, o)
      PROVE  StoreNext \/ UNCHANGED storeVars
  <2>1. run[stream[s].run].conv \in Conv
    BY <1>1 DEF Recover, StreamInv, StreamsRead, StreamRead, StoreInv, RowsWhole
  <2> QED BY <1>1, <2>1 DEF Recover, StoreNext, StoreStep
<1> QED
  BY <1>1 DEF StreamNext, StreamStep, ReadEvents, ReadStatus, ReadFinal, Connect, Reconnect

\* What a stream's step makes of its row.
RowStep(old, new) ==
  \/ new = old
  \/ \E r \in Run : /\ run[r].status # "absent"
                    /\ new = [run |-> r, cursor |-> 0, saw |-> "absent", pc |-> "read"]
  \/ /\ old.pc # "closed" /\ new.run = old.run
     /\ \/ new.pc \in {"read", "status"}
        \/ /\ new.saw = run[old.run].status
           /\ new.pc = IF new.saw \in Ended THEN "final" ELSE "recover"
        \/ /\ old.pc = "final" /\ new.pc = "returned" /\ new.saw = old.saw
           /\ new.cursor = Len(events[old.run])

LEMMA StreamRowSteps ==
  ASSUME StreamInv, StreamNext, NEW s \in Stream
  PROVE  stream'[s] \in StreamRow /\ RowStep(stream[s], stream'[s])
<1> DEFINE row == stream[s]
<1>0. /\ row \in StreamRow /\ stream \in [Stream -> StreamRow]
      /\ row.pc # "closed" => row.run \in Run
      /\ \A r \in Run : Len(events[r]) \in Nat /\ run[r].status \in Active \cup Ended \cup {"absent"}
  BY LenProperties DEF StreamInv, StreamsRead, StreamRead, StoreInv, TypeOK, RunRow
<1>1. CASE UNCHANGED stream
  BY <1>0, <1>1 DEF RowStep
<1>2. ASSUME NEW t \in Stream,
             StreamStep(t) \/ Reconnect(t) \/ \E r \in Run : Connect(t, r)
      PROVE  stream'[s] \in StreamRow /\ RowStep(stream[s], stream'[s])
  <2>1. CASE t # s
    <3>1. stream'[s] = stream[s]
      BY <1>0, <1>2, <2>1
      DEF StreamStep, ReadEvents, ReadStatus, ReadFinal, Recover, Reconnect, Connect, Set
    <3> QED BY <1>0, <3>1 DEF RowStep
  <2>2. CASE t = s
    <3>1. CASE ReadEvents(s)
      <4>1. row.pc = "status" \/ row.pc = "read"
        BY <3>1 DEF ReadEvents
      <4>2. stream'[s] = [row EXCEPT !.cursor = Len(events[row.run]), !.pc = "status"]
        BY <1>0, <3>1 DEF ReadEvents, Set
      <4>3. PICK n \in Nat : n = Len(events[row.run])
        BY <1>0, <4>1
      <4>4. stream'[s] \in StreamRow /\ stream'[s].run = row.run /\ stream'[s].pc = "status"
        <5>1. row \in StreamRow /\ stream'[s] = [row EXCEPT !.cursor = n, !.pc = "status"]
          BY <1>0, <4>2, <4>3
        <5> QED BY ONLY <4>3, <5>1 DEF StreamRow
      <4> QED BY <4>1, <4>4 DEF RowStep
    <3>2. CASE ReadStatus(s)
      <4>1. /\ row.pc = "status"
            /\ stream'[s] = [row EXCEPT !.saw = run[row.run].status,
                 !.pc = IF run[row.run].status \in Ended THEN "final" ELSE "recover"]
        BY <1>0, <3>2 DEF ReadStatus, Set
      <4>2. PICK status \in Active \cup Ended \cup {"absent"} : status = run[row.run].status
        BY <1>0, <4>1
      <4>3. PICK pc \in {"final", "recover"} :
              pc = IF status \in Ended THEN "final" ELSE "recover"
        OBVIOUS
      <4>4. /\ stream'[s] \in StreamRow /\ stream'[s].run = row.run
            /\ stream'[s].saw = status /\ stream'[s].pc = pc
        <5>1. row \in StreamRow /\ stream'[s] = [row EXCEPT !.saw = status, !.pc = pc]
          BY <1>0, <4>1, <4>2, <4>3
        <5> QED BY ONLY <4>2, <4>3, <5>1 DEF StreamRow
      <4> QED BY <4>1, <4>2, <4>3, <4>4 DEF RowStep
    <3>3. CASE ReadFinal(s)
      <4>1. /\ row.pc = "final"
            /\ stream'[s] = [row EXCEPT !.cursor = Len(events[row.run]), !.pc = "returned"]
        BY <1>0, <3>3 DEF ReadFinal, Set
      <4>2. /\ stream'[s] \in StreamRow /\ stream'[s].run = row.run
            /\ stream'[s].saw = row.saw /\ stream'[s].pc = "returned"
            /\ stream'[s].cursor = Len(events[row.run])
        <5>1. PICK n \in Nat : n = Len(events[row.run])
          BY <1>0, <4>1
        <5>2. row \in StreamRow /\ stream'[s] = [row EXCEPT !.cursor = n, !.pc = "returned"]
          BY <1>0, <4>1, <5>1
        <5>3. /\ stream'[s] \in StreamRow /\ stream'[s].run = row.run
              /\ stream'[s].saw = row.saw /\ stream'[s].pc = "returned"
              /\ stream'[s].cursor = n
          BY ONLY <5>1, <5>2 DEF StreamRow
        <5> QED BY <5>1, <5>3
      <4> QED BY <4>1, <4>2 DEF RowStep
    <3>4. ASSUME NEW o \in Owner, Recover(s, o)
          PROVE  stream'[s] \in StreamRow /\ RowStep(stream[s], stream'[s])
      <4>1. row.pc = "recover" /\ stream'[s] = [row EXCEPT !.pc = "read"]
        BY <1>0, <3>4 DEF Recover, Set
      <4> QED BY <1>0, <4>1 DEF StreamRow, RowStep
    <3>5. CASE Reconnect(s)
      <4>1. PICK cursor \in 0 .. row.cursor :
              stream'[s] = [row EXCEPT !.pc = "read", !.saw = "absent", !.cursor = cursor]
        BY <1>0, <3>5 DEF Reconnect, Set
      <4>2. row.pc # "closed" /\ cursor \in Nat
        BY <1>0, <3>5 DEF Reconnect
      <4> QED BY <1>0, <4>1, <4>2 DEF StreamRow, RowStep
    <3>6. ASSUME NEW r \in Run, Connect(s, r)
          PROVE  stream'[s] \in StreamRow /\ RowStep(stream[s], stream'[s])
      <4>1. /\ run[r].status # "absent"
            /\ stream'[s] = [run |-> r, cursor |-> 0, saw |-> "absent", pc |-> "read"]
        BY <1>0, <3>6 DEF Connect, Set
      <4> QED BY <1>0, <4>1 DEF StreamRow, RowStep
    <3> QED BY <1>2, <2>2, <3>1, <3>2, <3>3, <3>4, <3>5, <3>6 DEF StreamStep
  <2> QED BY <2>1, <2>2
<1> QED BY <1>1, <1>2 DEF StreamNext

LEMMA RowStepKeepsRead ==
  ASSUME NEW old, NEW new, StreamRead(old, run, events), RowStep(old, new)
  PROVE  StreamRead(new, run, events)
<1>1. CASE old.pc # "closed" /\ new.run = old.run /\ new.pc = "returned"
             /\ old.pc = "final" /\ new.saw = old.saw
             /\ new.cursor = Len(events[old.run])
  BY <1>1 DEF StreamRead
<1>2. CASE old.pc # "closed" /\ new.run = old.run /\ new.pc \in {"read", "status"}
  BY <1>2 DEF StreamRead
<1>3. CASE old.pc # "closed" /\ new.run = old.run /\ new.saw = run[old.run].status
             /\ new.pc = IF new.saw \in Ended THEN "final" ELSE "recover"
  BY <1>3 DEF StreamRead
<1>4. CASE new = old
  BY <1>4
<1>5. ASSUME NEW r \in Run, run[r].status # "absent",
             new = [run |-> r, cursor |-> 0, saw |-> "absent", pc |-> "read"]
      PROVE  StreamRead(new, run, events)
  BY <1>5 DEF StreamRead
<1> QED BY <1>1, <1>2, <1>3, <1>4, <1>5 DEF RowStep

\* The streams' steps keep their invariant; the store's are those of StoreNext.
THEOREM StreamInvariant == StreamSpec => []StreamInv
<1>1. StreamInit => StreamInv
  <2>1. NoStream \in StreamRow /\ StreamRead(NoStream, run, events)
    BY DEF NoStream, StreamRow, StreamRead
  <2> QED BY <2>1, InitStoreInv DEF StreamInit, StreamInv, StreamsRead
<1>2. ASSUME StreamInv, [StreamNext]_streamVars
      PROVE  StreamInv'
  <2>1. CASE StreamNext
    <3>1. StoreNext \/ UNCHANGED storeVars
      BY <1>2, <2>1, StreamKeepsStore
    <3>2. StoreInv'
      BY <1>2, <3>1, NextStoreInv DEF StreamInv
    <3>3. ASSUME NEW s \in Stream
          PROVE  stream'[s] \in StreamRow /\ StreamRead(stream'[s], run', events')
      <4>1. stream'[s] \in StreamRow /\ RowStep(stream[s], stream'[s])
        BY <1>2, <2>1, StreamRowSteps
      <4>2. StreamRead(stream'[s], run, events)
        BY <1>2, <4>1, RowStepKeepsRead DEF StreamInv, StreamsRead
      <4> QED BY <1>2, <3>1, <4>1, <4>2, StoreStepKeepsRead DEF StreamInv
    <3>4. stream' = [s \in Stream |-> stream'[s]]
      BY <1>2, <2>1
      DEF StreamInv, StreamNext, StreamStep, ReadEvents, ReadStatus, ReadFinal,
          Recover, Reconnect, Connect, Set
    <3> QED BY <3>2, <3>3, <3>4 DEF StreamInv, StreamsRead
  <2>2. CASE UNCHANGED streamVars
    BY <1>2, <2>2, NextStoreInv DEF streamVars, StreamInv, StreamsRead, storeVars
  <2> QED BY <1>2, <2>1, <2>2
<1> QED BY <1>1, <1>2, PTL DEF StreamSpec

\* Whatever the workers and the other clients do, a stream that returned on a
\* finished run has delivered its whole log.
THEOREM StreamsAreComplete == StreamSpec => []ReturnedStreamIsComplete
<1>1. StreamInv => ReturnedStreamIsComplete
  BY DEF StreamInv, StreamsRead, StreamRead, ReturnedStreamIsComplete, Finished
<1> QED BY <1>1, StreamInvariant, PTL

\* Streams are callers of the store like any other, so what holds of the store
\* holds while they run: here, that it implements RunLifecycle.
THEOREM StreamsCallTheStore == StreamSpec => StoreSpec
<1>1. StreamInit => StoreInit
  BY DEF StreamInit
<1>2. ASSUME StreamInv, [StreamNext]_streamVars
      PROVE  [StoreNext]_storeVars
  BY <1>2, StreamKeepsStore DEF streamVars
<1> QED BY <1>1, <1>2, StreamInvariant, PTL DEF StreamSpec, StoreSpec

THEOREM StreamLifecycle == StreamSpec => LifecycleSpec
BY StreamsCallTheStore, StoreLifecycle

=============================================================================
