------------------------- MODULE ChatExecutionProofs -------------------------
(***************************************************************************)
(* Proofs about ChatExecution, for any numbers of runs, workers, attempts, *)
(* calls and frames: the executor only does to the tables what             *)
(* ExecutionStore allows, so what is proved of the store holds of the      *)
(* running system; every confirmed write is on record, is not done again   *)
(* and not denied; and the log of an ended run says how it ended.          *)
(***************************************************************************)
EXTENDS ChatExecution, ExecutionStoreProofs

-----------------------------------------------------------------------------
(* The inductive invariant.                                                *)

Written(r) == run[r].write # "none"
Said(r, type) == \E i \in 1 .. Len(events[r]) : events[r][i].type = type

\* What is true of a task whose run has begun a write or not, and whose log has
\* a "done", an "error" or not.
GoodTask(t, written, done, error) ==
  /\ t.left + t.queue <= MaxFrames
  /\ t.pc # "none" => t.worker \in Owner
  /\ t.late # "none" => t.pc \in Handling \cup {"over"}
  /\ t.tool \in {"checked", "started"} => t.call \in Call /\ t.kind \in ToolKind
  /\ t.pc \in Handling => t.ending # "completed"
  /\ t.effect \/ (t.tool = "started" /\ t.kind = "write") => written
  /\ t.effect /\ t.pc = "errfinish" => t.ending = "interrupted"
  /\ t.effect /\ t.late = "finish" => t.lateEnd \notin {"failed", "cancelled"}
  /\ t.pc = "finish" => done
  /\ t.pc \in {"errstatus", "errfinish"} => error
  /\ t.late = "finish" => IF t.lateEnd = "completed" THEN done ELSE error

GoodTasks ==
  \A r \in Run, a \in Attempt :
    GoodTask(task[r][a], Written(r), Said(r, "done"), Said(r, "error"))

TablesOK == up \subseteq Owner /\ tracked \in [Owner -> [Run -> 0 .. MaxAttempt]]

\* A transaction that is not open is no transaction.
WholeTx == \A o \in Owner : resuming[o].run = None => resuming[o] = NoTx

ChatInv ==
  /\ StoreInv
  /\ WholeTx
  /\ TablesOK
  /\ task \in [Run -> [Attempt -> Task]]
  /\ GoodTasks
  /\ EndedRunSaysSo

-----------------------------------------------------------------------------
(* What the calls to the store do.                                         *)

\* An event once logged stays, and so does a write once begun.
LEMMA LoggedIsSaid ==
  ASSUME TypeOK, NEW q \in Run, NEW n, NEW type, [seq |-> n, type |-> type] \in EventRow,
         events'[q] = Append(events[q], [seq |-> n, type |-> type])
  PROVE  Said(q, type)' /\ \A t : Said(q, t) => Said(q, t)'
<1> DEFINE row == [seq |-> n, type |-> type]
<1>1. events[q] \in Seq(EventRow) /\ row \in EventRow
  BY DEF TypeOK
<1>2. /\ Len(events'[q]) = Len(events[q]) + 1
      /\ \A i \in 1 .. Len(events[q]) : events'[q][i] = events[q][i]
      /\ events'[q][Len(events[q]) + 1] = row
  BY <1>1, AppendProperties
<1>3. row.type = type
  OBVIOUS
<1> HIDE DEF row
<1>4. Len(events[q]) \in Nat
  BY <1>1
<1>5. Said(q, type)'
  <2>1. Len(events[q]) + 1 \in 1 .. Len(events'[q])
    BY <1>2, <1>4
  <2> QED BY <1>2, <1>3, <2>1 DEF Said
<1>6. ASSUME NEW t, Said(q, t) PROVE Said(q, t)'
  <2>1. PICK i \in 1 .. Len(events[q]) : events[q][i].type = t
    BY <1>6 DEF Said
  <2>2. i \in 1 .. Len(events'[q]) /\ events'[q][i].type = t
    BY <1>2, <1>4, <2>1
  <2> QED BY <2>2 DEF Said
<1> QED BY <1>5, <1>6

LEMMA LogsGrow ==
  ASSUME StoreInv, [StoreNext]_storeVars, NEW q \in Run
  PROVE  /\ Written(q) => Written(q)'
         /\ Said(q, "done") => Said(q, "done")'
         /\ Said(q, "error") => Said(q, "error")'
         /\ Said(q, "interrupted") => Said(q, "interrupted")'
<1>1. CASE StoreNext
  <2>1. RunStep(q) /\ TypeOK /\ run[q] \in RunRow
    BY <1>1, StoreSteps DEF StoreInv, TypeOK
  <2>2. Written(q) => Written(q)'
    <3>1. MadeStep(q) => ~Written(q)
      BY DEF MadeStep, StoreInv, RowsWhole, NoRow, Written
    <3> QED BY <2>1, <3>1 DEF RunStep, InterruptStep, RestartStep, AppendStep, StatusStep,
                             WriteStep, Written
  <2>3. events'[q] = events[q] \/ Logged(q)
    BY <2>1 DEF RunStep, MadeStep, InterruptStep, RestartStep, AppendStep, StatusStep,
                WriteStep, NotLogged
  <2>4. CASE events'[q] = events[q]
    BY <2>2, <2>4 DEF Said
  <2>5. CASE Logged(q)
    <3>1. PICK t \in EventType :
            events'[q] = Append(events[q], [seq |-> run[q].seq + 1, type |-> t])
      BY <2>5 DEF Logged
    <3>2. run[q].seq + 1 \in Nat
      BY <2>1 DEF RunRow
    <3>3. [seq |-> run[q].seq + 1, type |-> t] \in EventRow
      BY <3>2 DEF EventRow
    <3>4. \A u : Said(q, u) => Said(q, u)'
      BY <2>1, <3>1, <3>3, LoggedIsSaid
    <3> QED BY <2>2, <3>4 DEF Said
  <2> QED BY <2>2, <2>3, <2>4, <2>5
<1>2. CASE UNCHANGED storeVars
  BY <1>2 DEF storeVars, Written, Said
<1> QED BY <1>1, <1>2

\* A run does not end, or is interrupted and says so.
Steady(q) ==
  \/ run'[q].status = run[q].status
  \/ run'[q].status \in Active
  \/ run'[q].status = "interrupted" /\ Said(q, "interrupted")'

\* A call that ends no run.
Quiet == [StoreNext]_storeVars /\ \A q \in Run : Steady(q)

LEMMA NothingIsQuiet == ASSUME UNCHANGED storeVars PROVE Quiet
  BY DEF storeVars, Quiet, Steady

LEMMA InterruptIsSteady ==
  ASSUME StoreInv, NEW r \in Run, NEW q \in Run,
         run'[q] = InterruptRun(r)[q], events'[q] = InterruptEvents(r)[q]
  PROVE  Steady(q)
<1>1. TypeOK /\ run[q] \in RunRow
  BY DEF StoreInv, TypeOK
<1>2. CASE q = r /\ run[r].status \in Active
  <2>1. events'[q] = Append(events[q], [seq |-> run[q].seq + 1, type |-> "interrupted"])
    BY <1>1, <1>2 DEF InterruptEvents, TypeOK
  <2>2. run[q].seq + 1 \in Nat /\ "interrupted" \in EventType
    BY <1>1 DEF RunRow, EventType
  <2>3. [seq |-> run[q].seq + 1, type |-> "interrupted"] \in EventRow
    BY <2>2 DEF EventRow
  <2>4. Said(q, "interrupted")'
    BY <1>1, <2>1, <2>3, LoggedIsSaid
  <2>5. run'[q].status = "interrupted"
    BY <1>1, <1>2 DEF InterruptRun, TypeOK, RunRow
  <2> QED BY <2>4, <2>5 DEF Steady
<1>3. CASE ~(q = r /\ run[r].status \in Active)
  BY <1>1, <1>3 DEF InterruptRun, TypeOK, Steady
<1> QED BY <1>2, <1>3

LEMMA TakingIsQuiet ==
  ASSUME StoreInv, NEW o \in Owner, NEW r \in Run, NEW c \in Conv, NEW k \in Key \cup {None},
         ReserveFree(o, r, c, k) \/ ReserveExpired(o, r, c, k) \/ RecoverExpired(o, c)
  PROVE  Quiet
<1>1. StoreNext
  BY DEF StoreNext, StoreStep
<1>2. run \in [Run -> RunRow] /\ (lease[c].run # None => lease[c].run \in Run)
  BY DEF StoreInv, TypeOK, LeaseRow
<1>3. "queued" \in Active
  BY DEF Active
<1>4. CASE ReserveFree(o, r, c, k)
  BY <1>1, <1>2, <1>3, <1>4 DEF ReserveFree, NewRow, Quiet, Steady
<1>5. CASE ReserveExpired(o, r, c, k)
  <2> DEFINE old == lease[c].run
  <2>1. old \in Run /\ InterruptRun(old) \in [Run -> RunRow] /\ run[r].status = "absent"
    BY <1>2, <1>5, InterruptType DEF ReserveExpired, StoreInv
  <2>2. run'[r].status \in Active
    BY <1>3, <1>5, <2>1 DEF ReserveExpired, NewRow
  <2>3. ASSUME NEW q \in Run, q # r PROVE Steady(q)
    <3>1. run'[q] = InterruptRun(old)[q] /\ events'[q] = InterruptEvents(old)[q]
      BY <1>5, <2>1, <2>3 DEF ReserveExpired
    <3> QED BY <2>1, <3>1, InterruptIsSteady
  <2> QED BY <1>1, <2>2, <2>3 DEF Quiet, Steady
<1>6. CASE RecoverExpired(o, c)
  <2> DEFINE old == lease[c].run
  <2>1. old \in Run /\ run' = InterruptRun(old) /\ events' = InterruptEvents(old)
    BY <1>2, <1>6 DEF RecoverExpired
  <2>2. ASSUME NEW q \in Run PROVE Steady(q)
    BY <2>1, InterruptIsSteady
  <2> QED BY <1>1, <2>2 DEF Quiet
<1> QED BY <1>4, <1>5, <1>6

LEMMA ResumeIsQuiet ==
  ASSUME StoreInv, NEW o \in Owner,
         \/ ResumeCommit(o) \/ ResumeRollback(o)
         \/ \E r \in Run : ResumeBegin(o, r) \/ RenewLease(o, r)
         \/ \E c \in Conv : Expire(c)
  PROVE  Quiet
<1>1. StoreNext
  BY DEF StoreNext, StoreStep
<1>2. run \in [Run -> RunRow] /\ "queued" \in Active
  BY DEF StoreInv, TypeOK, Active
<1>3. CASE ResumeCommit(o)
  <2>1. resuming[o].run \in Run
    BY <1>3 DEF ResumeCommit, StoreInv, TypeOK, ResumeTx
  <2>2. run'[resuming[o].run].status = "queued"
    BY <1>2, <1>3, <2>1 DEF ResumeCommit, RunRow
  <2>3. \A q \in Run : q # resuming[o].run => run'[q] = run[q]
    BY <1>2, <1>3, <2>1 DEF ResumeCommit
  <2> QED BY <1>1, <1>2, <2>2, <2>3 DEF Quiet, Steady
<1>4. CASE run' = run
  BY <1>1, <1>4 DEF Quiet, Steady
<1> QED BY <1>3, <1>4 DEF ResumeRollback, ResumeBegin, RenewLease, Expire

LEMMA RunningIsQuiet ==
  ASSUME StoreInv, NEW o \in Owner, NEW r \in Run,
         \/ MarkRunning(o, r)
         \/ \E t \in AppendType : AppendEvent(o, r, t)
         \/ \E k \in Call, access \in {"read", "write"}, executes \in BOOLEAN :
              StartToolAttempt(o, r, k, access, executes)
         \/ \E k \in Call, outcome \in CallOutcome : FinishToolAttempt(o, r, k, outcome)
  PROVE  Quiet
<1>1. StoreNext
  BY DEF StoreNext, StoreStep
<1>2. run \in [Run -> RunRow] /\ "running" \in Active
  BY DEF StoreInv, TypeOK, Active
<1>3. ASSUME NEW q \in Run PROVE Steady(q)
  <2>1. CASE MarkRunning(o, r)
    BY <1>2, <2>1 DEF MarkRunning, Steady, RunRow
  <2>2. CASE \E t \in AppendType : AppendEvent(o, r, t)
    BY <1>2, <2>2 DEF AppendEvent, Steady, RunRow
  <2>3. CASE \E k \in Call, access \in {"read", "write"}, executes \in BOOLEAN :
               StartToolAttempt(o, r, k, access, executes)
    <3>1. run' \in {run, [run EXCEPT ![r].write = "started"]}
      BY <2>3 DEF StartToolAttempt
    <3> QED BY <1>2, <3>1 DEF Steady, RunRow
  <2>4. CASE \E k \in Call, outcome \in CallOutcome : FinishToolAttempt(o, r, k, outcome)
    <3>1. \E w \in WriteState : run' \in {run, [run EXCEPT ![r].write = w]}
      BY <2>4 DEF FinishToolAttempt, WriteState
    <3> QED BY <1>2, <3>1 DEF Steady, RunRow
  <2> QED BY <2>1, <2>2, <2>3, <2>4
<1> QED BY <1>1, <1>3 DEF Quiet

LEMMA AppendSays ==
  ASSUME StoreInv, NEW o \in Owner, NEW r \in Run, NEW t \in AppendType, AppendEvent(o, r, t)
  PROVE  Said(r, t)'
<1>1. TypeOK /\ run[r].seq + 1 \in Nat /\ t \in EventType
  BY DEF StoreInv, TypeOK, RunRow, EventType
<1>2. [seq |-> run[r].seq + 1, type |-> t] \in EventRow
  BY <1>1 DEF EventRow
<1>3. events'[r] = Append(events[r], [seq |-> run[r].seq + 1, type |-> t])
  BY <1>1 DEF AppendEvent, TypeOK
<1> QED BY <1>1, <1>2, <1>3, LoggedIsSaid

\* finish_run ends the one run.
LEMMA FinishEnds ==
  ASSUME StoreInv, NEW o \in Owner, NEW r \in Run, NEW status \in Ended,
         FinishRun(o, r, status)
  PROVE  /\ StoreNext
         /\ run'[r].status = status
         /\ \A q \in Run : q # r => run'[q] = run[q]
<1>1. StoreNext
  BY DEF StoreNext, StoreStep
<1>2. run \in [Run -> RunRow]
  BY DEF StoreInv, TypeOK
<1> QED BY <1>1, <1>2 DEF FinishRun, RunRow

-----------------------------------------------------------------------------
(* The fields of a task.                                                   *)

Worker  == Owner \cup {None}
Beat    == {"off", "on", "lost", "dead"}
PumpAt  == {"off", "on", "dead"}
Frames  == 0 .. MaxFrames
ToolAt  == {"idle", "checked", "started", "over"}
Kind    == ToolKind \cup {"none"}
CallId  == Call \cup {NoCallId}
Ending  == {"completed", "failed", "cancelled", "interrupted"}
LateCall == {"none", "token", "done", "error", "finish"}

LEMMA TaskShape ==
  Task = [pc : Pc, worker : Worker, hb : Beat, pump : PumpAt, left : Frames,
          queue : Frames, tool : ToolAt, kind : Kind, call : CallId, effect : BOOLEAN,
          ending : Ending, late : LateCall, lateEnd : Ending]
  BY DEF Task, Worker, Beat, PumpAt, Frames, ToolAt, Kind, CallId, Ending, LateCall

-----------------------------------------------------------------------------
(* One task moves.                                                         *)

\* FailedWithoutEffect, of one step.
Honest ==
  \A r \in Run, a \in Attempt :
    task[r][a].effect /\ task'[r][a] # task[r][a] /\ run[r].status \in Active
      => run'[r].status \notin {"failed", "cancelled"}

ChatMove == [StoreNext]_storeVars /\ ChatInv' /\ Honest

SaysEnd(q) ==
  \/ run'[q].status = "completed" /\ Said(q, "done")'
  \/ run'[q].status \in {"failed", "cancelled", "interrupted"} /\ Said(q, "error")'

LEMMA QuietIsHonest == Quiet => Honest
  BY DEF Quiet, Steady, Honest, Active

LEMMA LogsSayTheEnd ==
  ASSUME ChatInv, [StoreNext]_storeVars, \A q \in Run : Steady(q) \/ SaysEnd(q)
  PROVE  EndedRunSaysSo'
<1>1. ASSUME NEW q \in Run
      PROVE  /\ run'[q].status = "completed" => Said(q, "done")'
             /\ run'[q].status \in {"failed", "cancelled"} => Said(q, "error")'
             /\ run'[q].status = "interrupted" => Said(q, "interrupted")' \/ Said(q, "error")'
  <2>1. /\ run[q].status = "completed" => Said(q, "done")
        /\ run[q].status \in {"failed", "cancelled"} => Said(q, "error")
        /\ run[q].status = "interrupted" => Said(q, "interrupted") \/ Said(q, "error")
    BY DEF ChatInv, EndedRunSaysSo, Said
  <2>2. /\ Said(q, "done") => Said(q, "done")'
        /\ Said(q, "error") => Said(q, "error")'
        /\ Said(q, "interrupted") => Said(q, "interrupted")'
    BY LogsGrow DEF ChatInv
  <2>3. CASE Steady(q)
    BY <2>1, <2>2, <2>3 DEF Steady, Active
  <2>4. CASE SaysEnd(q)
    BY <2>4 DEF SaysEnd
  <2> QED BY <2>3, <2>4
<1> QED BY <1>1 DEF EndedRunSaysSo, Said

LEMMA GoodStays ==
  ASSUME NEW t, NEW r \in Run, StoreInv, [StoreNext]_storeVars,
         GoodTask(t, Written(r), Said(r, "done"), Said(r, "error"))
  PROVE  GoodTask(t, Written(r)', Said(r, "done")', Said(r, "error")')
<1>1. /\ Written(r) => Written(r)'
      /\ Said(r, "done") => Said(r, "done")'
      /\ Said(r, "error") => Said(r, "error")'
  BY LogsGrow
<1> QED BY <1>1 DEF GoodTask

LEMMA TaskFacts ==
  ASSUME ChatInv, [StoreNext]_storeVars, NEW r \in Run, NEW a \in Attempt
  PROVE  /\ task[r][a] \in Task
         /\ GoodTask(task[r][a], Written(r), Said(r, "done"), Said(r, "error"))
         /\ GoodTask(task[r][a], Written(r)', Said(r, "done")', Said(r, "error")')
<1>1. task[r][a] \in Task /\ StoreInv
      /\ GoodTask(task[r][a], Written(r), Said(r, "done"), Said(r, "error"))
  BY DEF ChatInv, GoodTasks
<1>2. PICK t : t = task[r][a]
  OBVIOUS
<1>3. GoodTask(t, Written(r)', Said(r, "done")', Said(r, "error")')
  BY <1>1, <1>2, GoodStays
<1> QED BY <1>1, <1>2, <1>3

LEMMA TxStaysWhole ==
  ASSUME StoreInv, WholeTx, [StoreNext]_storeVars
  PROVE  WholeTx'
<1>1. CASE UNCHANGED resuming
  BY <1>1 DEF WholeTx
<1>2. ASSUME NEW o \in Owner, ResumeCommit(o) \/ ResumeRollback(o)
      PROVE  WholeTx'
  BY <1>2 DEF WholeTx, ResumeCommit, ResumeRollback, StoreInv, TypeOK
<1>3. ASSUME NEW o \in Owner, NEW r \in Run, ResumeBegin(o, r)
      PROVE  WholeTx'
  BY <1>3, StoreAssumption DEF WholeTx, ResumeBegin, StoreInv, TypeOK
<1> QED BY <1>1, <1>2, <1>3, ResumingSteps DEF storeVars

LEMMA MovedTask ==
  ASSUME ChatInv, [StoreNext]_storeVars, \A q \in Run : Steady(q) \/ SaysEnd(q),
         NEW r \in Run, NEW a \in Attempt, NEW t \in Task,
         GoodTask(t, Written(r)', Said(r, "done")', Said(r, "error")'),
         task' = [task EXCEPT ![r][a] = t], TablesOK'
  PROVE  ChatInv'
<1>1. StoreInv' /\ WholeTx' /\ EndedRunSaysSo'
  BY NextStoreInv, TxStaysWhole, LogsSayTheEnd DEF ChatInv
<1>2. task \in [Run -> [Attempt -> Task]]
  BY DEF ChatInv
<1>3. task' \in [Run -> [Attempt -> Task]]
  BY <1>2
<1>4. ASSUME NEW q \in Run, NEW b \in Attempt
      PROVE  GoodTask(task'[q][b], Written(q)', Said(q, "done")', Said(q, "error")')
  <2>1. CASE q = r /\ b = a
    <3>1. task'[q][b] = t
      BY <1>2, <2>1
    <3> QED BY <2>1, <3>1
  <2>2. CASE ~(q = r /\ b = a)
    <3>1. task'[q][b] = task[q][b]
      BY <1>2, <2>2
    <3> QED BY <3>1, TaskFacts
  <2> QED BY <2>1, <2>2
<1>5. GoodTasks'
  BY <1>4 DEF GoodTasks
<1> QED BY <1>1, <1>3, <1>5 DEF ChatInv

LEMMA NoTaskMoves ==
  ASSUME ChatInv, Quiet, UNCHANGED task, TablesOK'
  PROVE  ChatMove
<1>1. StoreInv' /\ WholeTx' /\ EndedRunSaysSo'
  BY NextStoreInv, TxStaysWhole, LogsSayTheEnd DEF ChatInv, Quiet
<1>2. GoodTasks'
  BY TaskFacts DEF GoodTasks, Quiet
<1> QED BY <1>1, <1>2, QuietIsHonest DEF ChatInv, ChatMove, Quiet

LEMMA GotoKeeps ==
  ASSUME ChatInv, Quiet, NEW r \in Run, NEW a \in Attempt, NEW t \in Task,
         GoodTask(t, Written(r)', Said(r, "done")', Said(r, "error")'), Goto(r, a, t)
  PROVE  ChatMove
<1>1. task' = [task EXCEPT ![r][a] = t] /\ TablesOK'
  BY DEF Goto, ChatInv, TablesOK
<1>2. [StoreNext]_storeVars /\ \A q \in Run : Steady(q)
  BY DEF Quiet
<1>3. ChatInv'
  BY <1>1, <1>2, MovedTask
<1> QED BY <1>2, <1>3, QuietIsHonest DEF ChatMove

LEMMA GoneFacts ==
  ASSUME NEW t \in Task
  PROVE  /\ Gone(t) \in Task
         /\ Gone(t).pc = "over" /\ Gone(t).worker = t.worker /\ Gone(t).effect = t.effect
         /\ Gone(t).late = t.late /\ Gone(t).lateEnd = t.lateEnd
         /\ Gone(t).tool = "idle" /\ Gone(t).left = MaxFrames /\ Gone(t).queue = 0
<1>1. NoTask \in Task
  <2>1. MaxFrames \in 0 .. MaxFrames /\ 0 \in 0 .. MaxFrames
    BY ChatAssumption
  <2> QED BY <2>1 DEF NoTask, Task, Pc
<1>2. NoTask.tool = "idle" /\ NoTask.left = MaxFrames /\ NoTask.queue = 0
  BY DEF NoTask
<1>3. "over" \in Pc
  BY DEF Pc
<1> HIDE DEF NoTask
<1>4. Gone(t) \in Task
  BY <1>1, <1>3, TaskShape DEF Gone
<1> QED BY <1>1, <1>2, <1>4, TaskShape DEF Gone

LEMMA GoneIsGood ==
  ASSUME NEW t \in Task, t.pc # "none", NEW w, NEW d, NEW e, GoodTask(t, w, d, e)
  PROVE  GoodTask(Gone(t), w, d, e)
<1>1. PICK g : g = Gone(t)
  OBVIOUS
<1>2. GoodTask(g, w, d, e)
  BY <1>1, GoneFacts, ChatAssumption DEF GoodTask, Handling
<1> QED BY <1>1, <1>2

LEMMA OverTables ==
  ASSUME ChatInv, NEW r \in Run, NEW a \in Attempt, NEW t, Over(r, a, t)
  PROVE  TablesOK' /\ task' = [task EXCEPT ![r][a] = Gone(t)]
<1>1. /\ task' = [task EXCEPT ![r][a] = Gone(t)] /\ up' = up
      /\ tracked' = [tracked EXCEPT ![t.worker][r] = 0]
  BY DEF Over
<1>2. 0 \in 0 .. MaxAttempt
  BY StoreAssumption
<1> QED BY <1>1, <1>2 DEF ChatInv, TablesOK

LEMMA OverKeeps ==
  ASSUME ChatInv, Quiet, NEW r \in Run, NEW a \in Attempt, NEW t \in Task, t.pc # "none",
         GoodTask(t, Written(r)', Said(r, "done")', Said(r, "error")'), Over(r, a, t)
  PROVE  ChatMove
<1>1. task' = [task EXCEPT ![r][a] = Gone(t)] /\ TablesOK'
  BY OverTables
<1>2. [StoreNext]_storeVars /\ \A q \in Run : Steady(q)
  BY DEF Quiet
<1>3. Gone(t) \in Task
      /\ GoodTask(Gone(t), Written(r)', Said(r, "done")', Said(r, "error")')
  BY GoneFacts, GoneIsGood
<1>4. ChatInv'
  BY <1>1, <1>2, <1>3, MovedTask
<1> QED BY <1>2, <1>4, QuietIsHonest DEF ChatMove

LEMMA RaisedFacts ==
  ASSUME NEW t \in Task, NEW why \in {"failed", "cancelled"}
  PROVE  /\ Raised(t, why) \in Task /\ Raised(t, why).ending = why
         /\ Raised(t, why).pc = "errdrain"
         /\ Raised(t, why).worker = t.worker /\ Raised(t, why).effect = t.effect
         /\ Raised(t, why).late = t.late /\ Raised(t, why).lateEnd = t.lateEnd
         /\ Raised(t, why).left = t.left /\ Raised(t, why).queue = t.queue
         /\ Raised(t, why).tool = t.tool /\ Raised(t, why).kind = t.kind
         /\ Raised(t, why).call = t.call
<1>1. "errdrain" \in Pc /\ "off" \in Beat /\ why \in Ending
  BY DEF Pc, Beat, Ending
<1> QED BY <1>1, TaskShape DEF Raised

LEMMA RaisedIsGood ==
  ASSUME NEW t \in Task, NEW why \in {"failed", "cancelled"}, t.pc # "none",
         NEW w, NEW d, NEW e, GoodTask(t, w, d, e)
  PROVE  GoodTask(Raised(t, why), w, d, e)
<1>1. PICK g : g = Raised(t, why)
  OBVIOUS
<1>2. GoodTask(g, w, d, e)
  BY <1>1, RaisedFacts DEF GoodTask, Handling
<1> QED BY <1>1, <1>2

LEMMA RaisedKeeps ==
  ASSUME ChatInv, Quiet, NEW r \in Run, NEW a \in Attempt, task[r][a].pc # "none",
         Goto(r, a, Raised(task[r][a], "failed"))
  PROVE  ChatMove
<1>1. PICK t : t = task[r][a]
  OBVIOUS
<1>2. t \in Task /\ GoodTask(t, Written(r)', Said(r, "done")', Said(r, "error")')
  BY <1>1, TaskFacts DEF Quiet
<1>3. Raised(t, "failed") \in Task
      /\ GoodTask(Raised(t, "failed"), Written(r)', Said(r, "done")', Said(r, "error")')
  BY <1>1, <1>2, RaisedFacts, RaisedIsGood
<1> QED BY <1>1, <1>3, GotoKeeps

\* The worker of a task that runs.
LEMMA RunningTask ==
  ASSUME ChatInv, NEW r \in Run, NEW a \in Attempt, NEW pc, At(r, a, pc)
  PROVE  task[r][a].pc = pc /\ task[r][a].worker \in Owner
  BY DEF At, ChatInv, TablesOK

LEMMA BeginKeeps ==
  ASSUME ChatInv, NEW r \in Run, NEW a \in Attempt, Begin(r, a)
  PROVE  ChatMove
<1>1. PICK t : t = task[r][a]
  OBVIOUS
<1>2. t.pc = "created" /\ t.worker \in Owner
  BY <1>1, RunningTask DEF Begin
<1>3. CASE MarkRunning(t.worker, r)
           /\ Goto(r, a, [t EXCEPT !.pc = "graph", !.hb = "on", !.pump = "on"])
  <2> DEFINE n == [t EXCEPT !.pc = "graph", !.hb = "on", !.pump = "on"]
  <2>1. Quiet
    BY <1>2, <1>3, RunningIsQuiet DEF ChatInv
  <2>2. t \in Task /\ GoodTask(t, Written(r)', Said(r, "done")', Said(r, "error")')
    BY <1>1, <2>1, TaskFacts DEF Quiet
  <2>3. "graph" \in Pc /\ "on" \in Beat /\ "on" \in PumpAt
    BY DEF Pc, Beat, PumpAt
  <2>4. n \in Task
    BY <2>2, <2>3, TaskShape
  <2>5. GoodTask(n, Written(r)', Said(r, "done")', Said(r, "error")')
    BY <1>2, <2>2, TaskShape DEF GoodTask, Handling
  <2> QED BY <1>3, <2>1, <2>4, <2>5, GotoKeeps
<1>4. CASE UNCHANGED storeVars /\ Goto(r, a, Raised([t EXCEPT !.pump = "on"], "failed"))
  <2>1. Quiet
    BY <1>4, NothingIsQuiet
  <2>2. t \in Task /\ GoodTask(t, Written(r)', Said(r, "done")', Said(r, "error")')
    BY <1>1, <2>1, TaskFacts DEF Quiet
  <2>3. PICK p : p = [t EXCEPT !.pump = "on"]
    OBVIOUS
  <2>4. "on" \in PumpAt
    BY DEF PumpAt
  <2>5. p \in Task /\ p.pc # "none"
    BY <1>2, <2>2, <2>3, <2>4, TaskShape
  <2>6. GoodTask(p, Written(r)', Said(r, "done")', Said(r, "error")')
    BY <2>2, <2>3, TaskShape DEF GoodTask
  <2>7. Raised(p, "failed") \in Task
        /\ GoodTask(Raised(p, "failed"), Written(r)', Said(r, "done")', Said(r, "error")')
    BY <2>5, <2>6, RaisedFacts, RaisedIsGood
  <2> QED BY <1>4, <2>1, <2>3, <2>7, GotoKeeps
<1> QED BY <1>1, <1>3, <1>4 DEF Begin

LEMMA HeartbeatKeeps ==
  ASSUME ChatInv, NEW r \in Run, NEW a \in Attempt, Heartbeat(r, a)
  PROVE  ChatMove
<1>1. PICK t : t = task[r][a]
  OBVIOUS
<1>2. t.worker \in Owner
  BY <1>1 DEF Heartbeat, ChatInv, TablesOK
<1>3. CASE RenewLease(t.worker, r) /\ UNCHANGED memVars
  <2>1. Quiet
    BY <1>2, <1>3, ResumeIsQuiet DEF ChatInv
  <2> QED BY <1>3, <2>1, NoTaskMoves DEF memVars, ChatInv, TablesOK
<1>4. ASSUME NEW hb \in {"lost", "dead"}, Goto(r, a, [t EXCEPT !.hb = hb]),
             UNCHANGED storeVars
      PROVE  ChatMove
  <2>1. Quiet
    BY <1>4, NothingIsQuiet
  <2>2. t \in Task /\ GoodTask(t, Written(r)', Said(r, "done")', Said(r, "error")')
    BY <1>1, <2>1, TaskFacts DEF Quiet
  <2>3. hb \in Beat
    BY DEF Beat
  <2>4. [t EXCEPT !.hb = hb] \in Task
    BY <2>2, <2>3, TaskShape
  <2>5. GoodTask([t EXCEPT !.hb = hb], Written(r)', Said(r, "done")', Said(r, "error")')
    BY <2>2, TaskShape DEF GoodTask
  <2> QED BY <1>4, <2>1, <2>4, <2>5, GotoKeeps
<1> QED BY <1>1, <1>3, <1>4 DEF Heartbeat

LEMMA EmitKeeps ==
  ASSUME ChatInv, NEW r \in Run, NEW a \in Attempt, Emit(r, a)
  PROVE  ChatMove
<1>1. PICK t : t = task[r][a]
  OBVIOUS
<1> DEFINE n == [t EXCEPT !.left = t.left - 1, !.queue = t.queue + 1]
<1>2. Quiet /\ t.left > 0 /\ Goto(r, a, n)
  BY <1>1, NothingIsQuiet DEF Emit
<1>3. t \in Task /\ GoodTask(t, Written(r)', Said(r, "done")', Said(r, "error")')
  BY <1>1, <1>2, TaskFacts DEF Quiet
<1>4. t.left \in Frames /\ t.queue \in Frames /\ t.left + t.queue <= MaxFrames
  BY <1>3, TaskShape DEF GoodTask
<1>5. /\ t.left - 1 \in Frames /\ t.queue + 1 \in Frames
      /\ (t.left - 1) + (t.queue + 1) <= MaxFrames
  BY <1>2, <1>4, ChatAssumption DEF Frames
<1>6. n \in Task /\ n.left = t.left - 1 /\ n.queue = t.queue + 1
  BY <1>3, <1>5, TaskShape
<1>7. GoodTask(n, Written(r)', Said(r, "done")', Said(r, "error")')
  BY <1>3, <1>5, TaskShape DEF GoodTask
<1> QED BY <1>2, <1>6, <1>7, GotoKeeps

LEMMA PumpKeeps ==
  ASSUME ChatInv, NEW r \in Run, NEW a \in Attempt, Pump(r, a)
  PROVE  ChatMove
<1>1. PICK t : t = task[r][a]
  OBVIOUS
<1>2. t.worker \in Owner /\ t.queue > 0
  BY <1>1 DEF Pump, ChatInv, TablesOK
<1>3. CASE AppendEvent(t.worker, r, "token") /\ Goto(r, a, [t EXCEPT !.queue = @ - 1])
  <2> DEFINE n == [t EXCEPT !.queue = t.queue - 1]
  <2>1. Quiet
    BY <1>2, <1>3, RunningIsQuiet, ChatAssumption DEF ChatInv
  <2>2. t \in Task /\ GoodTask(t, Written(r)', Said(r, "done")', Said(r, "error")')
    BY <1>1, <2>1, TaskFacts DEF Quiet
  <2>3. t.left \in Frames /\ t.queue \in Frames /\ t.left + t.queue <= MaxFrames
    BY <2>2, TaskShape DEF GoodTask
  <2>4. t.queue - 1 \in Frames /\ t.left + (t.queue - 1) <= MaxFrames
    BY <1>2, <2>3, ChatAssumption DEF Frames
  <2>5. n \in Task
    BY <2>2, <2>4, TaskShape
  <2>6. GoodTask(n, Written(r)', Said(r, "done")', Said(r, "error")')
    BY <2>2, <2>4, TaskShape DEF GoodTask
  <2> QED BY <1>3, <2>1, <2>5, <2>6, GotoKeeps
<1>4. CASE UNCHANGED storeVars /\ Goto(r, a, [t EXCEPT !.pump = "dead"])
  <2>1. Quiet
    BY <1>4, NothingIsQuiet
  <2>2. t \in Task /\ GoodTask(t, Written(r)', Said(r, "done")', Said(r, "error")')
    BY <1>1, <2>1, TaskFacts DEF Quiet
  <2>3. "dead" \in PumpAt
    BY DEF PumpAt
  <2>4. [t EXCEPT !.pump = "dead"] \in Task
    BY <2>2, <2>3, TaskShape
  <2>5. GoodTask([t EXCEPT !.pump = "dead"],
                 Written(r)', Said(r, "done")', Said(r, "error")')
    BY <2>2, TaskShape DEF GoodTask
  <2> QED BY <1>4, <2>1, <2>4, <2>5, GotoKeeps
<1> QED BY <1>1, <1>3, <1>4 DEF Pump

-----------------------------------------------------------------------------
(* The tools.                                                              *)

LEMMA ToolCheckKeeps ==
  ASSUME ChatInv, NEW r \in Run, NEW a \in Attempt, ToolCheck(r, a)
  PROVE  ChatMove
<1>1. PICK t : t = task[r][a]
  OBVIOUS
<1>2. PICK kind \in ToolKind, k \in Call :
        Goto(r, a, [t EXCEPT !.tool = "checked", !.kind = kind, !.call = k])
  BY <1>1 DEF ToolCheck
<1> DEFINE n == [t EXCEPT !.tool = "checked", !.kind = kind, !.call = k]
<1>3. Quiet
  BY NothingIsQuiet DEF ToolCheck
<1>4. t \in Task /\ GoodTask(t, Written(r)', Said(r, "done")', Said(r, "error")')
  BY <1>1, <1>3, TaskFacts DEF Quiet
<1>5. "checked" \in ToolAt /\ kind \in Kind /\ k \in CallId
  BY DEF ToolAt, Kind, CallId
<1>6. n \in Task
  BY <1>4, <1>5, TaskShape
<1>7. GoodTask(n, Written(r)', Said(r, "done")', Said(r, "error")')
  BY <1>4, TaskShape DEF GoodTask
<1> QED BY <1>2, <1>3, <1>6, <1>7, GotoKeeps

\* A confirmed write whose attempt row is written is on record from then on.
LEMMA StartIsWritten ==
  ASSUME StoreInv, NEW o \in Owner, NEW r \in Run, NEW k \in Call,
         StartToolAttempt(o, r, k, "write", TRUE)
  PROVE  Written(r)'
<1>1. run \in [Run -> RunRow]
  BY DEF StoreInv, TypeOK
<1> QED BY <1>1 DEF StartToolAttempt, Written, RunRow

LEMMA ToolStartKeeps ==
  ASSUME ChatInv, NEW r \in Run, NEW a \in Attempt, ToolStart(r, a)
  PROVE  ChatMove
<1>1. PICK t : t = task[r][a]
  OBVIOUS
<1>2. t.pc = "graph" /\ t.worker \in Owner /\ t.tool = "checked"
  BY <1>1, RunningTask DEF ToolStart
<1>3. t.call \in Call /\ t.kind \in ToolKind
  BY <1>1, <1>2 DEF ChatInv, GoodTasks, GoodTask
<1>4. ASSUME Quiet, NEW tool \in {"started", "over"}, Goto(r, a, [t EXCEPT !.tool = tool]),
             tool = "started" /\ t.kind = "write" => Written(r)'
      PROVE  ChatMove
  <2>1. t \in Task /\ GoodTask(t, Written(r)', Said(r, "done")', Said(r, "error")')
    BY <1>1, <1>4, TaskFacts DEF Quiet
  <2>2. tool \in ToolAt
    BY DEF ToolAt
  <2>3. [t EXCEPT !.tool = tool] \in Task
    BY <2>1, <2>2, TaskShape
  <2>4. GoodTask([t EXCEPT !.tool = tool], Written(r)', Said(r, "done")', Said(r, "error")')
    BY <1>3, <1>4, <2>1, TaskShape DEF GoodTask
  <2> QED BY <1>4, <2>3, <2>4, GotoKeeps
<1>5. CASE /\ StartToolAttempt(t.worker, r, t.call,
                               IF t.kind = "read" THEN "read" ELSE "write",
                               t.kind = "write")
           /\ Goto(r, a, [t EXCEPT !.tool = "started"])
  <2>1. Quiet
    BY <1>2, <1>3, <1>5, RunningIsQuiet DEF ChatInv
  <2>2. t.kind = "write" => Written(r)'
    BY <1>2, <1>3, <1>5, StartIsWritten DEF ChatInv
  <2> QED BY <1>4, <1>5, <2>1, <2>2
<1>6. CASE /\ Goto(r, a, [t EXCEPT !.tool = IF t.kind = "write" THEN "over" ELSE "started"])
           /\ UNCHANGED storeVars
  <2>1. Quiet
    BY <1>6, NothingIsQuiet
  <2>2. CASE t.kind = "write"
    BY <1>4, <1>6, <2>1, <2>2
  <2>3. CASE t.kind # "write"
    BY <1>4, <1>6, <2>1, <2>3
  <2> QED BY <2>2, <2>3
<1> QED BY <1>1, <1>5, <1>6 DEF ToolStart

LEMMA ToolActsKeeps ==
  ASSUME ChatInv, NEW r \in Run, NEW a \in Attempt, ToolActs(r, a)
  PROVE  ChatMove
<1>1. PICK t : t = task[r][a]
  OBVIOUS
<1>2. /\ t.pc = "graph" /\ t.tool = "started" /\ t.kind = "write"
      /\ Goto(r, a, [t EXCEPT !.effect = TRUE])
  BY <1>1, RunningTask DEF ToolActs
<1>3. Quiet
  BY NothingIsQuiet DEF ToolActs
<1>4. t \in Task /\ GoodTask(t, Written(r)', Said(r, "done")', Said(r, "error")')
  BY <1>1, <1>3, TaskFacts DEF Quiet
<1>5. [t EXCEPT !.effect = TRUE] \in Task
  BY <1>4, TaskShape
<1>6. t.late = "none"
  BY <1>2, <1>4 DEF GoodTask, Handling
<1>7. GoodTask([t EXCEPT !.effect = TRUE], Written(r)', Said(r, "done")', Said(r, "error")')
  BY <1>2, <1>4, <1>6, TaskShape DEF GoodTask
<1> QED BY <1>2, <1>3, <1>5, <1>7, GotoKeeps

LEMMA ToolReturnsKeeps ==
  ASSUME ChatInv, NEW r \in Run, NEW a \in Attempt, ToolReturns(r, a)
  PROVE  ChatMove
<1>1. PICK t : t = task[r][a]
  OBVIOUS
<1>2. /\ t.pc = "graph" /\ t.worker \in Owner /\ t.tool = "started"
      /\ Goto(r, a, [t EXCEPT !.tool = "over"])
  BY <1>1, RunningTask DEF ToolReturns
<1>3. t.call \in Call
  BY <1>1, <1>2 DEF ChatInv, GoodTasks, GoodTask
<1>4. \/ \E outcome \in CallOutcome : FinishToolAttempt(t.worker, r, t.call, outcome)
      \/ UNCHANGED storeVars
  BY <1>1 DEF ToolReturns, CallOutcome
<1>5. Quiet
  BY <1>2, <1>3, <1>4, RunningIsQuiet, NothingIsQuiet DEF ChatInv
<1>6. t \in Task /\ GoodTask(t, Written(r)', Said(r, "done")', Said(r, "error")')
  BY <1>1, <1>5, TaskFacts DEF Quiet
<1>7. "over" \in ToolAt
  BY DEF ToolAt
<1>8. [t EXCEPT !.tool = "over"] \in Task
  BY <1>6, <1>7, TaskShape
<1>9. GoodTask([t EXCEPT !.tool = "over"], Written(r)', Said(r, "done")', Said(r, "error")')
  BY <1>6, TaskShape DEF GoodTask
<1> QED BY <1>2, <1>5, <1>8, <1>9, GotoKeeps

LEMMA LeavingIsQuiet ==
  ASSUME ChatInv, NEW r \in Run, NEW a \in Attempt, LeaveTool(r, task[r][a]),
         task[r][a].pc # "none"
  PROVE  Quiet
<1>1. PICK t : t = task[r][a]
  OBVIOUS
<1>2. GoodTask(t, Written(r), Said(r, "done"), Said(r, "error"))
  BY <1>1 DEF ChatInv, GoodTasks
<1>3. CASE t.tool = "started" /\ FinishToolAttempt(t.worker, r, t.call, "unknown")
  <2>1. t.worker \in Owner /\ t.call \in Call /\ "unknown" \in CallOutcome
    BY <1>1, <1>2, <1>3 DEF GoodTask, CallOutcome
  <2> QED BY <1>3, <2>1, RunningIsQuiet DEF ChatInv
<1>4. CASE UNCHANGED storeVars
  BY <1>4, NothingIsQuiet
<1> QED BY <1>1, <1>3, <1>4 DEF LeaveTool

LEMMA GraphReturnsKeeps ==
  ASSUME ChatInv, NEW r \in Run, NEW a \in Attempt, GraphReturns(r, a)
  PROVE  ChatMove
<1>1. PICK t : t = task[r][a]
  OBVIOUS
<1>2. Quiet /\ t.pc = "graph"
  BY <1>1, NothingIsQuiet, RunningTask DEF GraphReturns
<1>3. CASE Goto(r, a, Raised(t, "failed"))
  BY <1>1, <1>2, <1>3, RaisedKeeps
<1>4. CASE Goto(r, a, [t EXCEPT !.pc = "drain"])
  <2>1. t \in Task /\ GoodTask(t, Written(r)', Said(r, "done")', Said(r, "error")')
    BY <1>1, <1>2, TaskFacts DEF Quiet
  <2>2. "drain" \in Pc
    BY DEF Pc
  <2>3. [t EXCEPT !.pc = "drain"] \in Task
    BY <2>1, <2>2, TaskShape
  <2>4. GoodTask([t EXCEPT !.pc = "drain"], Written(r)', Said(r, "done")', Said(r, "error")')
    BY <1>2, <2>1, TaskShape DEF GoodTask, Handling
  <2> QED BY <1>2, <1>4, <2>3, <2>4, GotoKeeps
<1> QED BY <1>1, <1>3, <1>4 DEF GraphReturns

\* The task raises, whatever the tool it was in has come to.
LEMMA GraphRaisesKeeps ==
  ASSUME ChatInv, NEW r \in Run, NEW a \in Attempt, GraphRaises(r, a)
  PROVE  ChatMove
<1>1. PICK t : t = task[r][a]
  OBVIOUS
<1>2. t.pc = "graph" /\ Goto(r, a, [Raised(t, "failed") EXCEPT !.tool = "over"])
  BY <1>1, RunningTask DEF GraphRaises
<1>3. Quiet
  BY <1>1, <1>2, LeavingIsQuiet DEF GraphRaises
<1>4. t \in Task /\ GoodTask(t, Written(r)', Said(r, "done")', Said(r, "error")')
  BY <1>1, <1>3, TaskFacts DEF Quiet
<1>5. PICK n : n = Raised(t, "failed")
  OBVIOUS
<1>6. n \in Task /\ GoodTask(n, Written(r)', Said(r, "done")', Said(r, "error")')
  BY <1>2, <1>4, <1>5, RaisedFacts, RaisedIsGood
<1>7. "over" \in ToolAt
  BY DEF ToolAt
<1>8. [n EXCEPT !.tool = "over"] \in Task
  BY <1>6, <1>7, TaskShape
<1>9. GoodTask([n EXCEPT !.tool = "over"], Written(r)', Said(r, "done")', Said(r, "error")')
  BY <1>6, TaskShape DEF GoodTask
<1> QED BY <1>2, <1>3, <1>5, <1>8, <1>9, GotoKeeps

-----------------------------------------------------------------------------
(* The end of a task.                                                      *)

\* A run is finished by a task that has logged how.
LEMMA FinishKeeps ==
  ASSUME ChatInv, NEW o \in Owner, NEW r \in Run, NEW a \in Attempt, NEW status \in Ended,
         FinishRun(o, r, status),
         status = "completed" => Said(r, "done")',
         status # "completed" => Said(r, "error")',
         task[r][a].effect => status \notin {"failed", "cancelled"},
         NEW n \in Task, GoodTask(n, Written(r)', Said(r, "done")', Said(r, "error")'),
         task' = [task EXCEPT ![r][a] = n], TablesOK'
  PROVE  ChatMove
<1>1. StoreNext /\ run'[r].status = status /\ \A q \in Run : q # r => run'[q] = run[q]
  BY FinishEnds DEF ChatInv
<1>2. SaysEnd(r)
  BY <1>1 DEF SaysEnd, Ended
<1>3. \A q \in Run : q # r => Steady(q)
  BY <1>1 DEF Steady
<1>4. ChatInv'
  BY <1>1, <1>2, <1>3, MovedTask
<1>5. Honest
  <2> SUFFICES ASSUME NEW q \in Run, NEW b \in Attempt, task[q][b].effect,
                      task'[q][b] # task[q][b], run[q].status \in Active
               PROVE  run'[q].status \notin {"failed", "cancelled"}
    BY DEF Honest
  <2>1. task \in [Run -> [Attempt -> Task]]
    BY DEF ChatInv
  <2>2. q = r /\ b = a
    BY <2>1
  <2> QED BY <1>1, <2>2
<1> QED BY <1>1, <1>4, <1>5 DEF ChatMove

LEMMA DrainKeeps ==
  ASSUME ChatInv, NEW r \in Run, NEW a \in Attempt, Drain(r, a)
  PROVE  ChatMove
<1>1. PICK t : t = task[r][a]
  OBVIOUS
<1>2. Quiet /\ t.pc = "drain"
  BY <1>1, NothingIsQuiet, RunningTask DEF Drain
<1>3. CASE Goto(r, a, Raised(t, "failed"))
  BY <1>1, <1>2, <1>3, RaisedKeeps
<1>4. CASE Goto(r, a, [t EXCEPT !.pc = "done"])
  <2>1. t \in Task /\ GoodTask(t, Written(r)', Said(r, "done")', Said(r, "error")')
    BY <1>1, <1>2, TaskFacts DEF Quiet
  <2>2. "done" \in Pc
    BY DEF Pc
  <2>3. [t EXCEPT !.pc = "done"] \in Task
    BY <2>1, <2>2, TaskShape
  <2>4. GoodTask([t EXCEPT !.pc = "done"], Written(r)', Said(r, "done")', Said(r, "error")')
    BY <1>2, <2>1, TaskShape DEF GoodTask, Handling
  <2> QED BY <1>2, <1>4, <2>3, <2>4, GotoKeeps
<1> QED BY <1>1, <1>3, <1>4 DEF Drain

LEMMA PersistDoneKeeps ==
  ASSUME ChatInv, NEW r \in Run, NEW a \in Attempt, PersistDone(r, a)
  PROVE  ChatMove
<1>1. PICK t : t = task[r][a]
  OBVIOUS
<1>2. t.pc = "done" /\ t.worker \in Owner
  BY <1>1, RunningTask DEF PersistDone
<1>3. CASE UNCHANGED storeVars /\ Goto(r, a, Raised(t, "failed"))
  BY <1>1, <1>2, <1>3, NothingIsQuiet, RaisedKeeps
<1>4. CASE AppendEvent(t.worker, r, "done") /\ Goto(r, a, [t EXCEPT !.pc = "finish"])
  <2>1. Quiet /\ Said(r, "done")'
    BY <1>2, <1>4, RunningIsQuiet, AppendSays, ChatAssumption DEF ChatInv
  <2>2. t \in Task /\ GoodTask(t, Written(r)', Said(r, "done")', Said(r, "error")')
    BY <1>1, <2>1, TaskFacts DEF Quiet
  <2>3. "finish" \in Pc
    BY DEF Pc
  <2>4. [t EXCEPT !.pc = "finish"] \in Task
    BY <2>2, <2>3, TaskShape
  <2>5. GoodTask([t EXCEPT !.pc = "finish"], Written(r)', Said(r, "done")', Said(r, "error")')
    BY <1>2, <2>1, <2>2, TaskShape DEF GoodTask, Handling
  <2> QED BY <1>4, <2>1, <2>4, <2>5, GotoKeeps
<1> QED BY <1>1, <1>3, <1>4 DEF PersistDone

LEMMA CompleteKeeps ==
  ASSUME ChatInv, NEW r \in Run, NEW a \in Attempt, Complete(r, a)
  PROVE  ChatMove
<1>1. PICK t : t = task[r][a]
  OBVIOUS
<1>2. t.pc = "finish" /\ t.worker \in Owner
  BY <1>1, RunningTask DEF Complete
<1>3. CASE UNCHANGED storeVars /\ Goto(r, a, Raised(t, "failed"))
  BY <1>1, <1>2, <1>3, NothingIsQuiet, RaisedKeeps
<1>4. CASE FinishRun(t.worker, r, "completed") /\ Over(r, a, t)
  <2>1. "completed" \in Ended
    BY DEF Ended
  <2>2. StoreNext
    BY <1>2, <1>4, <2>1, FinishEnds DEF ChatInv
  <2>3. t \in Task /\ GoodTask(t, Written(r)', Said(r, "done")', Said(r, "error")')
    BY <1>1, <2>2, TaskFacts
  <2>4. Said(r, "done")'
    BY <1>2, <2>3 DEF GoodTask
  <2>5. Gone(t) \in Task
        /\ GoodTask(Gone(t), Written(r)', Said(r, "done")', Said(r, "error")')
    BY <1>2, <2>3, GoneFacts, GoneIsGood
  <2>6. TablesOK' /\ task' = [task EXCEPT ![r][a] = Gone(t)]
    BY <1>4, OverTables
  <2> QED BY <1>2, <1>4, <2>1, <2>4, <2>5, <2>6, FinishKeeps
<1> QED BY <1>1, <1>3, <1>4 DEF Complete

LEMMA ErrDrainKeeps ==
  ASSUME ChatInv, NEW r \in Run, NEW a \in Attempt, ErrDrain(r, a)
  PROVE  ChatMove
<1>1. PICK t : t = task[r][a]
  OBVIOUS
<1>2. Quiet /\ t.pc = "errdrain" /\ Goto(r, a, [t EXCEPT !.pc = "errevent"])
  BY <1>1, NothingIsQuiet, RunningTask DEF ErrDrain
<1>3. t \in Task /\ GoodTask(t, Written(r)', Said(r, "done")', Said(r, "error")')
  BY <1>1, <1>2, TaskFacts DEF Quiet
<1>4. "errevent" \in Pc
  BY DEF Pc
<1>5. [t EXCEPT !.pc = "errevent"] \in Task
  BY <1>3, <1>4, TaskShape
<1>6. GoodTask([t EXCEPT !.pc = "errevent"], Written(r)', Said(r, "done")', Said(r, "error")')
  BY <1>2, <1>3, TaskShape DEF GoodTask, Handling
<1> QED BY <1>2, <1>5, <1>6, GotoKeeps

LEMMA ErrEventKeeps ==
  ASSUME ChatInv, NEW r \in Run, NEW a \in Attempt, ErrEvent(r, a)
  PROVE  ChatMove
<1>1. PICK t : t = task[r][a]
  OBVIOUS
<1>2. t.pc = "errevent" /\ t.worker \in Owner
  BY <1>1, RunningTask DEF ErrEvent
<1>3. CASE AppendEvent(t.worker, r, "error") /\ Goto(r, a, [t EXCEPT !.pc = "errstatus"])
  <2>1. Quiet /\ Said(r, "error")'
    BY <1>2, <1>3, RunningIsQuiet, AppendSays, ChatAssumption DEF ChatInv
  <2>2. t \in Task /\ GoodTask(t, Written(r)', Said(r, "done")', Said(r, "error")')
    BY <1>1, <2>1, TaskFacts DEF Quiet
  <2>3. "errstatus" \in Pc
    BY DEF Pc
  <2>4. [t EXCEPT !.pc = "errstatus"] \in Task
    BY <2>2, <2>3, TaskShape
  <2>5. GoodTask([t EXCEPT !.pc = "errstatus"],
                 Written(r)', Said(r, "done")', Said(r, "error")')
    BY <1>2, <2>1, <2>2, TaskShape DEF GoodTask, Handling
  <2> QED BY <1>3, <2>1, <2>4, <2>5, GotoKeeps
<1>4. CASE Over(r, a, t) /\ UNCHANGED storeVars
  <2>1. Quiet
    BY <1>4, NothingIsQuiet
  <2>2. t \in Task /\ GoodTask(t, Written(r)', Said(r, "done")', Said(r, "error")')
    BY <1>1, <2>1, TaskFacts DEF Quiet
  <2> QED BY <1>2, <1>4, <2>1, <2>2, OverKeeps
<1> QED BY <1>1, <1>3, <1>4 DEF ErrEvent

\* What a write has begun is read here: no failure is claimed after it.
LEMMA ErrStatusKeeps ==
  ASSUME ChatInv, NEW r \in Run, NEW a \in Attempt, ErrStatus(r, a)
  PROVE  ChatMove
<1>1. PICK t : t = task[r][a]
  OBVIOUS
<1>2. Quiet /\ t.pc = "errstatus"
  BY <1>1, NothingIsQuiet, RunningTask DEF ErrStatus
<1>3. t \in Task /\ GoodTask(t, Written(r), Said(r, "done"), Said(r, "error"))
      /\ GoodTask(t, Written(r)', Said(r, "done")', Said(r, "error")')
  BY <1>1, <1>2, TaskFacts DEF Quiet
<1>4. PICK ending : /\ ending \in {"interrupted", IF run[r].write # "none" THEN "interrupted"
                                                  ELSE t.ending}
                    /\ Goto(r, a, [t EXCEPT !.pc = "errfinish", !.ending = ending])
  BY <1>1 DEF ErrStatus
<1> DEFINE n == [t EXCEPT !.pc = "errfinish", !.ending = ending]
<1>5. t.effect => ending = "interrupted"
  BY <1>3, <1>4 DEF GoodTask, Written
<1>6. t.ending # "completed" /\ t.ending \in Ending
  BY <1>2, <1>3, TaskShape DEF GoodTask, Handling
<1>7. ending \in Ending /\ ending # "completed" /\ "errfinish" \in Pc
  BY <1>4, <1>6 DEF Ending, Pc
<1>8. n \in Task
  BY <1>3, <1>7, TaskShape
<1>9. GoodTask(n, Written(r)', Said(r, "done")', Said(r, "error")')
  BY <1>2, <1>3, <1>5, <1>7, TaskShape DEF GoodTask, Handling
<1> QED BY <1>2, <1>4, <1>8, <1>9, GotoKeeps

LEMMA ErrFinishKeeps ==
  ASSUME ChatInv, NEW r \in Run, NEW a \in Attempt, ErrFinish(r, a)
  PROVE  ChatMove
<1>1. PICK t : t = task[r][a]
  OBVIOUS
<1>2. t.pc = "errfinish" /\ t.worker \in Owner
  BY <1>1, RunningTask DEF ErrFinish
<1>3. CASE FinishRun(t.worker, r, t.ending) /\ Over(r, a, t)
  <2>1. t \in Task
    BY <1>1 DEF ChatInv
  <2>2. t.ending \in Ended
    BY <2>1, TaskShape DEF Ended, Ending
  <2>3. StoreNext
    BY <1>2, <1>3, <2>2, FinishEnds DEF ChatInv
  <2>4. GoodTask(t, Written(r)', Said(r, "done")', Said(r, "error")')
    BY <1>1, <2>3, TaskFacts
  <2>5. /\ Said(r, "error")' /\ t.ending # "completed"
        /\ t.effect => t.ending \notin {"failed", "cancelled"}
    BY <1>2, <2>4 DEF GoodTask, Handling
  <2>6. Gone(t) \in Task
        /\ GoodTask(Gone(t), Written(r)', Said(r, "done")', Said(r, "error")')
    BY <1>2, <2>1, <2>4, GoneFacts, GoneIsGood
  <2>7. TablesOK' /\ task' = [task EXCEPT ![r][a] = Gone(t)]
    BY <1>3, OverTables
  <2> QED BY <1>1, <1>2, <1>3, <2>2, <2>5, <2>6, <2>7, FinishKeeps
<1>4. CASE Over(r, a, t) /\ UNCHANGED storeVars
  <2>1. Quiet
    BY <1>4, NothingIsQuiet
  <2>2. t \in Task /\ GoodTask(t, Written(r)', Said(r, "done")', Said(r, "error")')
    BY <1>1, <2>1, TaskFacts DEF Quiet
  <2> QED BY <1>2, <1>4, <2>1, <2>2, OverKeeps
<1> QED BY <1>1, <1>3, <1>4 DEF ErrFinish

\* A call that outlived its task: what it may end was logged before.
LEMMA LateKeeps ==
  ASSUME ChatInv, NEW r \in Run, NEW a \in Attempt, Late(r, a)
  PROVE  ChatMove
<1>1. PICK t : t = task[r][a]
  OBVIOUS
<1> DEFINE n == [t EXCEPT !.late = "none", !.lateEnd = "completed"]
<1>2. t.late # "none" /\ t.worker \in Owner /\ Goto(r, a, n)
  BY <1>1 DEF Late, ChatInv, TablesOK
<1>3. t \in Task
  BY <1>1 DEF ChatInv
<1>4. n \in Task
  <2>1. "none" \in LateCall /\ "completed" \in Ending
    BY DEF LateCall, Ending
  <2> QED BY <1>3, <2>1, TaskShape
<1>5. ASSUME [StoreNext]_storeVars
      PROVE  /\ GoodTask(t, Written(r)', Said(r, "done")', Said(r, "error")')
             /\ GoodTask(n, Written(r)', Said(r, "done")', Said(r, "error")')
  <2>1. GoodTask(t, Written(r)', Said(r, "done")', Said(r, "error")')
    BY <1>1, <1>5, TaskFacts
  <2> QED BY <1>3, <2>1, TaskShape DEF GoodTask
<1>6. CASE t.late = "finish" /\ FinishRun(t.worker, r, t.lateEnd)
  <2>1. t.lateEnd \in Ended
    BY <1>3, TaskShape DEF Ended, Ending
  <2>2. StoreNext
    BY <1>2, <1>6, <2>1, FinishEnds DEF ChatInv
  <2>3. /\ IF t.lateEnd = "completed" THEN Said(r, "done")' ELSE Said(r, "error")'
        /\ t.effect => t.lateEnd \notin {"failed", "cancelled"}
    BY <1>5, <1>6, <2>2 DEF GoodTask
  <2>4. GoodTask(n, Written(r)', Said(r, "done")', Said(r, "error")')
    BY <1>5, <2>2
  <2>5. task' = [task EXCEPT ![r][a] = n] /\ TablesOK'
    BY <1>2 DEF Goto, ChatInv, TablesOK
  <2> HIDE DEF n
  <2> QED BY <1>1, <1>2, <1>4, <1>6, <2>1, <2>3, <2>4, <2>5, FinishKeeps
<1>7. CASE t.late # "finish" /\ AppendEvent(t.worker, r, t.late)
  <2>1. t.late \in AppendType
    BY <1>2, <1>3, <1>7, TaskShape, ChatAssumption DEF LateCall
  <2>2. Quiet
    BY <1>2, <1>7, <2>1, RunningIsQuiet DEF ChatInv
  <2> QED BY <1>2, <1>4, <1>5, <2>2, GotoKeeps DEF Quiet
<1>8. CASE UNCHANGED storeVars
  <2>1. Quiet
    BY <1>8, NothingIsQuiet
  <2> QED BY <1>2, <1>4, <1>5, <2>1, GotoKeeps DEF Quiet
<1> QED BY <1>1, <1>6, <1>7, <1>8 DEF Late

-----------------------------------------------------------------------------
(* Requests, cancellations and crashes.                                    *)

LEMMA NewTaskFacts ==
  ASSUME NEW o \in Owner, NEW pc \in {"session", "created"}, NEW w, NEW d, NEW e
  PROVE  /\ [NoTask EXCEPT !.pc = pc, !.worker = o] \in Task
         /\ GoodTask([NoTask EXCEPT !.pc = pc, !.worker = o], w, d, e)
<1>1. NoTask \in Task
  <2>1. MaxFrames \in 0 .. MaxFrames /\ 0 \in 0 .. MaxFrames
    BY ChatAssumption
  <2> QED BY <2>1 DEF NoTask, Task, Pc
<1>2. /\ NoTask.tool = "idle" /\ NoTask.left = MaxFrames /\ NoTask.queue = 0
      /\ NoTask.late = "none" /\ NoTask.effect = FALSE
  BY DEF NoTask
<1>3. pc \in Pc /\ o \in Worker
  BY DEF Pc, Worker
<1> HIDE DEF NoTask
<1>4. PICK n : n = [NoTask EXCEPT !.pc = pc, !.worker = o]
  OBVIOUS
<1>5. n \in Task
  BY <1>1, <1>3, <1>4, TaskShape
<1>6. /\ n.pc = pc /\ n.worker = o /\ n.tool = "idle" /\ n.left = MaxFrames /\ n.queue = 0
      /\ n.late = "none" /\ n.effect = FALSE
  BY <1>1, <1>2, <1>4, TaskShape
<1>7. GoodTask(n, w, d, e)
  BY <1>6, ChatAssumption DEF GoodTask, Handling
<1> QED BY <1>4, <1>5, <1>7

LEMMA PostKeeps ==
  ASSUME ChatInv, NEW o \in Owner, NEW r \in Run, NEW c \in Conv, NEW k \in Key \cup {None},
         Post(o, r, c, k)
  PROVE  ChatMove
<1>1. Quiet
  BY TakingIsQuiet DEF Post, ChatInv
<1>2. 1 \in Attempt
  BY StoreAssumption DEF Attempt
<1>3. Goto(r, 1, [NoTask EXCEPT !.pc = "session", !.worker = o])
  BY DEF Post
<1> QED BY <1>1, <1>2, <1>3, NewTaskFacts, GotoKeeps

LEMMA LaunchKeeps ==
  ASSUME ChatInv, NEW r \in Run, Launch(r) \/ LaunchFails(r)
  PROVE  ChatMove
<1>1. PICK t : t = task[r][1]
  OBVIOUS
<1>2. 1 \in Attempt /\ 1 \in 0 .. MaxAttempt
  BY StoreAssumption DEF Attempt
<1>3. t.pc = "session" /\ t.worker \in Owner
  BY <1>1, <1>2, RunningTask DEF Launch, LaunchFails
<1>4. CASE Launch(r)
  <2> DEFINE n == [t EXCEPT !.pc = "created"]
  <2>1. Quiet
    BY <1>1, <1>3, <1>4, RunningIsQuiet, ChatAssumption DEF Launch, ChatInv
  <2>2. t \in Task /\ GoodTask(t, Written(r)', Said(r, "done")', Said(r, "error")')
    BY <1>1, <1>2, <2>1, TaskFacts DEF Quiet
  <2>3. "created" \in Pc
    BY DEF Pc
  <2>4. n \in Task
    BY <2>2, <2>3, TaskShape
  <2>5. GoodTask(n, Written(r)', Said(r, "done")', Said(r, "error")')
    BY <1>3, <2>2, TaskShape DEF GoodTask, Handling
  <2>6. task' = [task EXCEPT ![r][1] = n]
    BY <1>1, <1>2, <1>4 DEF Launch, ChatInv
  <2>7. TablesOK'
    BY <1>2, <1>4 DEF Launch, ChatInv, TablesOK
  <2> HIDE DEF n
  <2>8. ChatInv'
    BY <1>2, <2>1, <2>4, <2>5, <2>6, <2>7, MovedTask DEF Quiet
  <2> QED BY <2>1, <2>8, QuietIsHonest DEF ChatMove, Quiet
<1>5. CASE LaunchFails(r)
  <2>1. Quiet
    BY <1>5, NothingIsQuiet DEF LaunchFails
  <2>2. t \in Task /\ GoodTask(t, Written(r)', Said(r, "done")', Said(r, "error")')
    BY <1>1, <1>2, <2>1, TaskFacts DEF Quiet
  <2>3. Gone(t) \in Task
        /\ GoodTask(Gone(t), Written(r)', Said(r, "done")', Said(r, "error")')
    BY <1>3, <2>2, GoneFacts, GoneIsGood
  <2> QED BY <1>1, <1>2, <1>5, <2>1, <2>3, GotoKeeps DEF LaunchFails
<1> QED BY <1>4, <1>5

LEMMA ResumeKeeps ==
  ASSUME ChatInv, NEW o \in Owner, ResumeFails(o) \/ \E r \in Run : Resume(o, r)
  PROVE  ChatMove
<1>1. Quiet /\ UNCHANGED memVars
  BY ResumeIsQuiet DEF Resume, ResumeFails, ChatInv
<1> QED BY <1>1, NoTaskMoves DEF memVars, ChatInv, TablesOK

LEMMA ResumedKeeps ==
  ASSUME ChatInv, NEW o \in Owner, Resumed(o)
  PROVE  ChatMove
<1> DEFINE r == resuming[o].run
           a == run[r].attempt + 1
           n == [NoTask EXCEPT !.pc = "created", !.worker = o]
<1>1. ResumeCommit(o) /\ task' = [task EXCEPT ![r][a] = n]
      /\ tracked' = [tracked EXCEPT ![o][r] = a] /\ up' = up
  BY DEF Resumed
<1>2. Quiet
  BY <1>1, ResumeIsQuiet DEF ChatInv
<1>3. r \in Run /\ run[r].attempt < MaxAttempt /\ run[r].attempt \in 0 .. MaxAttempt
  BY <1>1 DEF ResumeCommit, ChatInv, StoreInv, TypeOK, ResumeTx, OpenResume, RunRow
<1>4. a \in Attempt /\ a \in 0 .. MaxAttempt
  BY <1>3, StoreAssumption DEF Attempt
<1>5. TablesOK'
  BY <1>1, <1>4 DEF ChatInv, TablesOK
<1>6. PICK q \in Run, b \in Attempt : q = r /\ b = a
  BY <1>3, <1>4
<1>7. n \in Task /\ GoodTask(n, Written(q)', Said(q, "done")', Said(q, "error")')
  BY NewTaskFacts
<1>8. task' = [task EXCEPT ![q][b] = n]
  BY <1>1, <1>6
<1> HIDE DEF r, a, n
<1>9. ChatInv'
  BY <1>2, <1>5, <1>7, <1>8, MovedTask DEF Quiet
<1> QED BY <1>2, <1>9, QuietIsHonest DEF ChatMove, Quiet

LEMMA PollKeeps ==
  ASSUME ChatInv, NEW o \in Owner, NEW c \in Conv, Poll(o, c)
  PROVE  ChatMove
<1>1. PICK r \in Run : TRUE
  BY DEF Poll
<1>2. Quiet /\ UNCHANGED memVars
  BY <1>1, TakingIsQuiet DEF Poll, ChatInv
<1> QED BY <1>2, NoTaskMoves DEF memVars, ChatInv, TablesOK

LEMMA InFlightFacts ==
  ASSUME NEW t \in Task
  PROVE  /\ InFlight(t) \in LateCall
         /\ InFlight(t) = "finish" => t.pc \in {"finish", "errfinish"}
         /\ t.pc = "created" => InFlight(t) = "none"
<1>1. CASE t.pc \in {"drain", "errdrain"} /\ t.queue > 0 /\ t.pump = "on"
  BY <1>1 DEF InFlight, LateCall
<1>2. CASE t.pc = "done"
  BY <1>2 DEF InFlight, LateCall
<1>3. CASE t.pc = "errevent"
  BY <1>3 DEF InFlight, LateCall
<1>4. CASE t.pc \in {"finish", "errfinish"}
  BY <1>4 DEF InFlight, LateCall
<1>5. CASE ~ \/ t.pc \in {"drain", "errdrain"} /\ t.queue > 0 /\ t.pump = "on"
             \/ t.pc \in {"done", "errevent", "finish", "errfinish"}
  BY <1>5 DEF InFlight, LateCall
<1> QED BY <1>1, <1>2, <1>3, <1>4, <1>5

LEMMA CancelBodyKeeps ==
  ASSUME ChatInv, NEW r \in Run, NEW a \in Attempt, CancelBody(r, a)
  PROVE  ChatMove
<1>1. PICK t : t = task[r][a]
  OBVIOUS
<1>2. PICK g : g = Raised(t, "cancelled")
  OBVIOUS
<1>3. PICK late, pump : late = InFlight(t) /\ pump = IF t.pc = "drain" THEN "dead" ELSE g.pump
  OBVIOUS
<1> DEFINE n == [g EXCEPT !.late = late, !.lateEnd = "completed", !.pump = pump,
                          !.tool = "over"]
<1>4. /\ t.pc \in Executing /\ LeaveTool(r, t)
      /\ Goto(r, a, n)
  BY <1>1, <1>2, <1>3 DEF CancelBody
<1>5. t.pc # "none"
  BY <1>4 DEF Executing
<1>6. Quiet
  BY <1>1, <1>4, <1>5, LeavingIsQuiet
<1>7. t \in Task /\ GoodTask(t, Written(r)', Said(r, "done")', Said(r, "error")')
  BY <1>1, <1>6, TaskFacts DEF Quiet
<1>8. /\ g \in Task /\ GoodTask(g, Written(r)', Said(r, "done")', Said(r, "error")')
      /\ g.pc = "errdrain"
  BY <1>2, <1>5, <1>7, RaisedFacts, RaisedIsGood
<1>9. late \in LateCall /\ (late = "finish" => Said(r, "done")')
  BY <1>3, <1>4, <1>7, InFlightFacts DEF GoodTask, Executing
<1>10. pump \in PumpAt /\ "over" \in ToolAt /\ "completed" \in Ending
  BY <1>3, <1>8, TaskShape DEF PumpAt, ToolAt, Ending
<1>11. n \in Task
  BY <1>8, <1>9, <1>10, TaskShape
<1>12. GoodTask(n, Written(r)', Said(r, "done")', Said(r, "error")')
  BY <1>8, <1>9, TaskShape DEF GoodTask, Handling
<1> QED BY <1>4, <1>6, <1>11, <1>12, GotoKeeps

LEMMA CancelOtherKeeps ==
  ASSUME ChatInv, NEW r \in Run, NEW a \in Attempt, CancelOther(r, a)
  PROVE  ChatMove
<1>1. PICK t : t = task[r][a]
  OBVIOUS
<1>2. PICK late, end : late = InFlight(t)
                       /\ end = IF t.pc = "errfinish" THEN t.ending ELSE "completed"
  OBVIOUS
<1> DEFINE n == [t EXCEPT !.late = late, !.lateEnd = end]
<1>3. t.pc \in Handling \cup {"created"} /\ Over(r, a, n) /\ UNCHANGED storeVars
  BY <1>1, <1>2 DEF CancelOther
<1>4. Quiet
  BY <1>3, NothingIsQuiet
<1>5. t \in Task /\ GoodTask(t, Written(r)', Said(r, "done")', Said(r, "error")')
  BY <1>1, <1>4, TaskFacts DEF Quiet
<1>6. late \in LateCall /\ end \in Ending
      /\ (late = "finish" => t.pc = "errfinish") /\ (t.pc = "created" => late = "none")
  BY <1>2, <1>3, <1>5, InFlightFacts, TaskShape DEF Ending, Handling
<1>7. n \in Task /\ n.pc # "none"
  BY <1>3, <1>5, <1>6, TaskShape DEF Handling
<1>8. late = "finish" => /\ end = t.ending /\ end # "completed" /\ Said(r, "error")'
                         /\ t.effect => end = "interrupted"
  BY <1>2, <1>5, <1>6 DEF GoodTask, Handling
<1>9. GoodTask(n, Written(r)', Said(r, "done")', Said(r, "error")')
  BY <1>3, <1>5, <1>6, <1>8, TaskShape DEF GoodTask
<1> HIDE DEF n
<1> QED BY <1>3, <1>4, <1>7, <1>9, OverKeeps

LEMMA CancelKeeps ==
  ASSUME ChatInv, NEW o \in Owner, NEW r \in Run, Cancel(o, r)
  PROVE  ChatMove
<1>1. tracked[o][r] \in Attempt
  BY StoreAssumption DEF Cancel, ChatInv, TablesOK, Attempt
<1> QED BY <1>1, CancelBodyKeeps, CancelOtherKeeps DEF Cancel

\* The memory of the worker is lost, with the calls it had in flight.
LEMMA CrashKeeps ==
  ASSUME ChatInv, NEW o \in Owner, Crash(o)
  PROVE  ChatMove
<1>1. Quiet
  <2>1. CASE resuming[o].run = None
    <3>1. resuming' = resuming
      BY <2>1 DEF Crash, ChatInv, WholeTx, StoreInv, TypeOK
    <3> QED BY <3>1, NothingIsQuiet DEF Crash, storeVars
  <2>2. CASE resuming[o].run # None
    <3>1. ResumeRollback(o)
      BY <2>2 DEF Crash, ResumeRollback
    <3> QED BY <3>1, ResumeIsQuiet DEF ChatInv
  <2> QED BY <2>1, <2>2
<1>2. ASSUME NEW r \in Run, NEW a \in Attempt
      PROVE  /\ task'[r][a] \in Task
             /\ GoodTask(task'[r][a], Written(r)', Said(r, "done")', Said(r, "error")')
  <2>1. PICK t : t = task[r][a]
    OBVIOUS
  <2>2. t \in Task /\ GoodTask(t, Written(r)', Said(r, "done")', Said(r, "error")')
    BY <1>1, <2>1, TaskFacts DEF Quiet
  <2>3. PICK m : m = [t EXCEPT !.late = "none", !.lateEnd = "completed"]
    OBVIOUS
  <2>4. "none" \in LateCall /\ "completed" \in Ending
    BY DEF LateCall, Ending
  <2>5. /\ m \in Task /\ m.worker = t.worker
        /\ GoodTask(m, Written(r)', Said(r, "done")', Said(r, "error")')
    BY <2>2, <2>3, <2>4, TaskShape DEF GoodTask
  <2>6. CASE t.worker = o
    <3>1. task'[r][a] = Gone(m)
      BY <2>1, <2>3, <2>6 DEF Crash
    <3>2. PICK g : g = Gone(m)
      OBVIOUS
    <3>3. g \in Task /\ GoodTask(g, Written(r)', Said(r, "done")', Said(r, "error")')
      BY <2>5, <2>6, <3>2, GoneFacts, ChatAssumption DEF GoodTask, Handling
    <3> QED BY <3>1, <3>2, <3>3
  <2>7. CASE t.worker # o
    <3>1. task'[r][a] = t
      BY <2>1, <2>7 DEF Crash
    <3> QED BY <2>2, <3>1
  <2> QED BY <2>6, <2>7
<1>3. task' \in [Run -> [Attempt -> Task]]
  <2>1. PICK f : f = [r \in Run |-> [a \in Attempt |-> task'[r][a]]]
    OBVIOUS
  <2>2. task' = f
    BY <2>1 DEF Crash
  <2> QED BY <1>2, <2>1, <2>2
<1>4. TablesOK'
  <2>1. 0 \in 0 .. MaxAttempt
    BY StoreAssumption
  <2> QED BY <2>1 DEF Crash, ChatInv, TablesOK
<1>5. StoreInv' /\ WholeTx' /\ EndedRunSaysSo'
  BY <1>1, NextStoreInv, TxStaysWhole, LogsSayTheEnd DEF ChatInv, Quiet
<1>6. GoodTasks'
  BY <1>2 DEF GoodTasks
<1> QED BY <1>1, <1>3, <1>4, <1>5, <1>6, QuietIsHonest DEF ChatInv, ChatMove, Quiet

-----------------------------------------------------------------------------
(* What is true of every behaviour.                                        *)

LEMMA ChatInvInit == ChatInit => ChatInv
<1> SUFFICES ASSUME ChatInit PROVE ChatInv
  OBVIOUS
<1>1. StoreInv /\ WholeTx
  BY InitStoreInv DEF ChatInit, StoreInit, WholeTx
<1>2. TablesOK
  BY StoreAssumption DEF ChatInit, TablesOK
<1>3. NoTask \in Task
  <2>1. MaxFrames \in 0 .. MaxFrames /\ 0 \in 0 .. MaxFrames
    BY ChatAssumption
  <2> QED BY <2>1 DEF NoTask, Task, Pc
<1>4. task \in [Run -> [Attempt -> Task]]
  BY <1>3 DEF ChatInit
<1>5. GoodTasks
  <2>1. \A r \in Run, a \in Attempt : task[r][a] = NoTask
    BY DEF ChatInit
  <2>2. ASSUME NEW w, NEW d, NEW e PROVE GoodTask(NoTask, w, d, e)
    BY ChatAssumption DEF GoodTask, NoTask, Handling
  <2> QED BY <2>1, <2>2 DEF GoodTasks
<1>6. EndedRunSaysSo
  BY DEF ChatInit, StoreInit, NoRow, EndedRunSaysSo
<1> QED BY <1>1, <1>2, <1>4, <1>5, <1>6 DEF ChatInv

LEMMA TaskStepKeeps ==
  ASSUME ChatInv, NEW r \in Run, NEW a \in Attempt, TaskStep(r, a)
  PROVE  ChatMove
  BY BeginKeeps, PumpKeeps, ToolStartKeeps, ToolReturnsKeeps, GraphReturnsKeeps,
     GraphRaisesKeeps, DrainKeeps, PersistDoneKeeps, CompleteKeeps, ErrDrainKeeps,
     ErrEventKeeps, ErrStatusKeeps, ErrFinishKeeps DEF TaskStep

LEMMA RequestStepKeeps ==
  ASSUME ChatInv, NEW o \in Owner, RequestStep(o)
  PROVE  ChatMove
  BY PostKeeps, ResumeKeeps, CancelKeeps, ResumedKeeps, PollKeeps DEF RequestStep

\* Every step is one of the store or leaves it alone, keeps the invariant, and
\* fails no run whose write took place.
LEMMA ChatStep == ChatInv /\ [ChatNext]_chatVars => ChatMove
<1> SUFFICES ASSUME ChatInv, [ChatNext]_chatVars PROVE ChatMove
  OBVIOUS
<1>1. ASSUME NEW o \in Owner, RequestStep(o) \/ Crash(o)
      PROVE  ChatMove
  BY <1>1, RequestStepKeeps, CrashKeeps
<1>2. ASSUME NEW r \in Run, Launch(r) \/ LaunchFails(r)
      PROVE  ChatMove
  BY <1>2, LaunchKeeps
<1>3. ASSUME NEW r \in Run, NEW a \in Attempt,
             \/ TaskStep(r, a) \/ Heartbeat(r, a) \/ Emit(r, a)
             \/ ToolCheck(r, a) \/ ToolActs(r, a) \/ Late(r, a)
      PROVE  ChatMove
  BY <1>3, TaskStepKeeps, HeartbeatKeeps, EmitKeeps, ToolCheckKeeps, ToolActsKeeps, LateKeeps
<1>4. ASSUME NEW c \in Conv, Expire(c), UNCHANGED memVars
      PROVE  ChatMove
  <2>1. run' = run /\ StoreNext
    BY <1>4 DEF Expire, StoreNext
  <2>2. Quiet
    BY <2>1 DEF Quiet, Steady
  <2> QED BY <1>4, <2>2, NoTaskMoves DEF memVars, ChatInv, TablesOK
<1>5. CASE UNCHANGED chatVars
  <2>1. Quiet /\ UNCHANGED memVars
    BY <1>5, NothingIsQuiet DEF chatVars
  <2> QED BY <2>1, NoTaskMoves DEF memVars, ChatInv, TablesOK
<1> QED BY <1>1, <1>2, <1>3, <1>4, <1>5 DEF ChatNext

\* The executor, its tools, requests, cancellations, late calls and crashes only do
\* to the tables what the store's transactions allow: what holds of the store under
\* any callers holds of the running system (app/routers/chat.py, tool_engine.py).
THEOREM ChatCallsTheStore == ChatSpec => StoreSpec
<1>1. ChatInit => StoreInit
  BY DEF ChatInit
<1>2. ChatInv /\ [ChatNext]_chatVars => [StoreNext]_storeVars /\ ChatInv'
  BY ChatStep DEF ChatMove
<1> QED BY <1>1, <1>2, ChatInvInit, PTL DEF ChatSpec, StoreSpec

\* In particular the runs of the system live the life of RunLifecycle.
THEOREM ChatLifecycle == ChatSpec => LifecycleSpec
  BY ChatCallsTheStore, StoreLifecycle, PTL

\* The tables and the tasks keep their types.
THEOREM ChatTypeCorrect == ChatSpec => []ChatTypeOK
<1>1. ChatInv => ChatTypeOK
  BY DEF ChatInv, StoreInv, TablesOK, ChatTypeOK
<1>2. ChatInv /\ [ChatNext]_chatVars => ChatInv'
  BY ChatStep DEF ChatMove
<1> QED BY <1>1, <1>2, ChatInvInit, PTL DEF ChatSpec

\* A confirmed write that took place is on record in write_state, whatever fails,
\* is cancelled, crashes or is taken over (tool_engine.py, store.py).
THEOREM EffectsAreRecorded == ChatSpec => []EffectIsRecorded
<1>1. ChatInv => EffectIsRecorded
  BY DEF ChatInv, GoodTasks, GoodTask, Written, EffectIsRecorded
<1>2. ChatInv /\ [ChatNext]_chatVars => ChatInv'
  BY ChatStep DEF ChatMove
<1> QED BY <1>1, <1>2, ChatInvInit, PTL DEF ChatSpec

\* The log of an ended run says how it ended (app/routers/chat.py).
THEOREM EndedRunsSaySo == ChatSpec => []EndedRunSaysSo
<1>1. ChatInv => EndedRunSaysSo
  BY DEF ChatInv
<1>2. ChatInv /\ [ChatNext]_chatVars => ChatInv'
  BY ChatStep DEF ChatMove
<1> QED BY <1>1, <1>2, ChatInvInit, PTL DEF ChatSpec

\* What a confirmed write has done is not done again by another attempt, and not
\* denied by a run that is reported failed or cancelled.
THEOREM WritesStayFinal == ChatSpec => WritesAreFinal
<1>1. ASSUME ChatInv, [ChatNext]_chatVars
      PROVE  \A r \in Run : run'[r].attempt > run[r].attempt
                              => \A a \in Attempt : ~task[r][a].effect
  <2> SUFFICES ASSUME NEW r \in Run, run'[r].attempt > run[r].attempt
               PROVE  ~Written(r)
    BY <1>1 DEF ChatInv, GoodTasks, GoodTask
  <2>1. [StoreNext]_storeVars /\ StoreInv /\ run[r].attempt \in Nat
    BY <1>1, ChatStep DEF ChatMove, ChatInv, StoreInv, TypeOK, RunRow
  <2>2. run' # run
    BY <2>1
  <2>3. RunStep(r)
    BY <2>1, <2>2, StoreSteps DEF StoreInv, storeVars
  <2>4. MadeStep(r) \/ RestartStep(r)
    BY <2>1, <2>3 DEF RunStep, InterruptStep, AppendStep, StatusStep, WriteStep
  <2> QED BY <2>1, <2>4 DEF MadeStep, RestartStep, Resumable, StoreInv, RowsWhole, NoRow,
                           Written
<1>2. ASSUME ChatInv, [ChatNext]_chatVars
      PROVE  \A r \in Run, a \in Attempt :
               task[r][a].effect /\ task'[r][a] # task[r][a] /\ run[r].status \in Active
                 => run'[r].status \notin {"failed", "cancelled"}
  BY <1>2, ChatStep DEF ChatMove, Honest
<1>3. ChatInv /\ [ChatNext]_chatVars => ChatInv'
  BY ChatStep DEF ChatMove
<1> QED BY <1>1, <1>2, <1>3, ChatInvInit, PTL
        DEF ChatSpec, WritesAreFinal, NoAttemptAfterEffect, FailedWithoutEffect

=============================================================================
