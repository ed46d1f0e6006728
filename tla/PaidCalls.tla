----------------------------- MODULE PaidCalls ------------------------------
(***************************************************************************)
(* Model calls that cost money, and the ledgers that keep them under a cap *)
(* (app/answer_plan/budget.py, app/claim_grounding, scripts/               *)
(* answer_quality_depth, scripts/e2e_quality_r2, scripts/ch15_paid_guard,  *)
(* scripts/eval_multi_agent, scripts/eval_adaptive_routing_r2).  A wrapper *)
(* around the provider reserves an estimate in the ledger, calls, settles  *)
(* the reservation with what the usage says, and may retry; a process that *)
(* ends in between leaves the reservation pending.                         *)
(*                                                                         *)
(* One behaviour is about one wrapper, chosen in the initial state.  The   *)
(* repository has thirteen of them over seven ledgers; what tells them     *)
(* apart is a record of the control they differ in.  Money is counted in   *)
(* units, an estimate is Est for every call, and the bill of a call is     *)
(* what the provider will ask for it, over the estimate or not.            *)
(***************************************************************************)
EXTENDS Integers, Sequences, FiniteSets

CONSTANTS
  Caller,      \* calls made through the wrapper, at the same time or not
  Limit,       \* the cap of the ledger
  Est,         \* what a call reserves
  Bill,        \* what the provider may ask for a call, over Est or not
  MaxRows,     \* bound: reservations
  MaxTries,    \* attempts of one call (3 in the source)
  MaxCrashes   \* bound: ends of the process

ASSUME EstAssumption == Est \in Nat
ASSUME BillAssumption == Bill \subseteq Nat
ASSUME LimitAssumption == Limit \in Nat
ASSUME TriesAssumption == MaxTries \in Nat \ {0}
ASSUME CrashesAssumption == MaxCrashes \in Nat

VARIABLES
  door,     \* the wrapper this behaviour is about
  rows,     \* the ledger's rows in the order they were reserved
  stop,     \* stop_reason of the ch15 ledgers
  caller,   \* where each call is
  cache,    \* calls whose answer is in the exact cache
  up,       \* the process runs
  crashes   \* times it ended

paidVars == <<door, rows, stop, caller, cache, up, crashes>>

Errors == {"rate", "busy", "fatal"}

(***************************************************************************)
(* The wrappers.  retried: the errors after which it tries again; failed:  *)
(* what a failed attempt is settled with; replies: the answers it may get, *)
(* with usage, without, garbled, or a part and then an error; blank: what  *)
(* an answer without usage is settled with; garbled: whether a garbled     *)
(* answer is noticed before it is settled, after, or after but where the   *)
(* handler of failed attempts still catches it; keeps: whether it looks    *)
(* answers up in the exact cache and puts them there.                      *)
(***************************************************************************)
BudgetedModelInvoke ==
  [ledger |-> "plan", retried |-> Errors, failed |-> Est, blank |-> Est,
   replies |-> {"usage", "blank"}, garbled |-> "never", keeps |-> "nothing"]

StructuredGroundingBackend ==
  [ledger |-> "claim", retried |-> {"rate"}, failed |-> Est, blank |-> Est,
   replies |-> {"usage", "blank"}, garbled |-> "never", keeps |-> "answers"]

CappedProviderCall ==
  [ledger |-> "depth", retried |-> {"rate", "busy"}, failed |-> Est, blank |-> 0,
   replies |-> {"usage", "blank", "garbled"}, garbled |-> "caught",
   keeps |-> "nothing"]

BudgetedChatInvoke ==
  [ledger |-> "r2", retried |-> {"rate", "busy"}, failed |-> 0, blank |-> 0,
   replies |-> {"usage", "blank"}, garbled |-> "never", keeps |-> "answers"]

BudgetedChatAinvoke == BudgetedChatInvoke

\* Counts the tokens itself when the last chunk has no usage.
BudgetedChatAstream ==
  [BudgetedChatInvoke EXCEPT !.blank = Est, !.replies = {"usage", "blank", "partial"}]

BudgetedStructuredInvoke ==
  [BudgetedChatInvoke EXCEPT !.replies = {"usage", "blank", "garbled"},
                             !.garbled = "before"]

BudgetedJsonInvoke == BudgetedStructuredInvoke

\* Never reads a usage.  The hit in the embedder's own cache, which costs
\* nothing and is settled at nothing, is left out.
MeteredEmbed ==
  [ledger |-> "r2", retried |-> {}, failed |-> 0, blank |-> Est,
   replies |-> {"blank"}, garbled |-> "never", keeps |-> "nothing"]

MeteredRerank == MeteredEmbed

GuardedInvoke ==
  [ledger |-> "ch15", retried |-> {}, failed |-> Est, blank |-> Est,
   replies |-> {"usage", "blank", "garbled"}, garbled |-> "after",
   keeps |-> "nothing"]

GuardedStream ==
  [GuardedInvoke EXCEPT !.replies = {"usage", "blank", "partial"}, !.garbled = "never"]

ConcurrentInvoke == [GuardedInvoke EXCEPT !.ledger = "multi"]

RetryingInvoke ==
  [GuardedInvoke EXCEPT !.ledger = "adaptive", !.retried = {"rate"}]

RetryingStream ==
  [GuardedStream EXCEPT !.ledger = "adaptive", !.retried = {"rate"}]

Doors == {BudgetedModelInvoke, StructuredGroundingBackend, CappedProviderCall,
          BudgetedChatInvoke, BudgetedChatAinvoke, BudgetedChatAstream,
          BudgetedStructuredInvoke, BudgetedJsonInvoke, MeteredEmbed, MeteredRerank,
          GuardedInvoke, GuardedStream, ConcurrentInvoke, RetryingInvoke,
          RetryingStream}

(***************************************************************************)
(* The ledgers.                                                            *)
(***************************************************************************)
Status == {"pending", "succeeded", "usage_missing", "failed"}

\* bill is not in the ledger: it is what the provider will ask.
Row == [status: Status, paid: Nat, bill: Nat]

Charge(row) == IF row.status = "pending" THEN Est ELSE row.paid

SettledCharge(row) == IF row.status = "pending" THEN 0 ELSE row.paid

\* The sum of the first n amounts, for every n.
RunningTotal(amounts) ==
  LET total[n \in 0..Len(amounts)] ==
        IF n = 0 THEN 0 ELSE total[n - 1] + amounts[n]
  IN  total

Total(amounts) == RunningTotal(amounts)[Len(amounts)]

\* The sum every reserve computes: estimates of pending calls, actual amounts
\* of settled ones.
Committed(rs) == Total([i \in 1..Len(rs) |-> Charge(rs[i])])

Paid(rs) == Total([i \in 1..Len(rs) |-> SettledCharge(rs[i])])

Pending(rs) == \E i \in DOMAIN rs : rs[i].status = "pending"

GuardedLedgers == {"ch15", "multi", "adaptive"}

\* reserve of the plan, claim, depth and r2 ledgers: the sum with the new row
\* is under the limit, in the transaction that inserts it.
PlanReserves(rs) == Committed(rs) <= Limit

\* begin_generation: nothing was stopped and nothing is outstanding.
Ch15Reserves(rs) == stop = "none" /\ ~Pending(rows) /\ Committed(rs) <= Limit

\* The concurrent ledgers let several calls be outstanding.
ConcurrentReserves(rs) == stop = "none" /\ Committed(rs) <= Limit

Reserves(rs) ==
  \/ door.ledger = "ch15" /\ Ch15Reserves(rs)
  \/ door.ledger \in {"multi", "adaptive"} /\ ConcurrentReserves(rs)
  \/ door.ledger \notin GuardedLedgers /\ PlanReserves(rs)

\* MUTATED: settle without the check of the total.
SettlesAnyway(rs) == TRUE

\* settle checks the sum it would leave and rolls back: R2Budget counts the
\* settled rows only, complete_generation checks nothing.
Settles(rs) ==
  /\ door.ledger \in {"plan", "claim", "depth"} => Committed(rs) <= Limit
  /\ door.ledger = "r2" => Paid(rs) <= Limit

(***************************************************************************)
(* A call.                                                                 *)
(***************************************************************************)
Pc == {"idle", "ready", "called", "answered", "raised", "clear", "put",
       "done", "failed"}

Reply == {"none", "usage", "blank", "garbled", "partial"} \cup Errors

Call == [pc: Pc, tries: 1..MaxTries, row: Nat, reply: Reply]

Ended == {"done", "failed"}

PaidTypeOK ==
  /\ door \in Doors
  /\ rows \in Seq(Row)
  /\ stop \in {"none", "rate", "hard"}
  /\ caller \in [Caller -> Call]
  /\ cache \subseteq Caller
  /\ up \in BOOLEAN
  /\ crashes \in 0..MaxCrashes

NewCall == [pc |-> "idle", tries |-> 1, row |-> 0, reply |-> "none"]

PaidInit ==
  /\ door \in Doors
  /\ rows = <<>>
  /\ stop = "none"
  /\ caller = [c \in Caller |-> NewCall]
  /\ cache = {}
  /\ up = TRUE
  /\ crashes = 0

Goes(c, pc) == caller' = [caller EXCEPT ![c].pc = pc]

\* The exact cache first.
Look(c) ==
  /\ up
  /\ caller[c].pc = "idle"
  /\ Goes(c, IF door.keeps = "answers" /\ c \in cache THEN "done" ELSE "ready")
  /\ UNCHANGED <<door, rows, stop, cache, up, crashes>>

NewRow(bill) == [status |-> "pending", paid |-> 0, bill |-> bill]

Reserve(c, bill) ==
  LET new == Append(rows, NewRow(bill)) IN
  /\ caller[c].pc = "ready"
  /\ Len(rows) < MaxRows
  /\ Reserves(new)
  /\ rows' = new
  /\ caller' = [caller EXCEPT ![c] =
       [@ EXCEPT !.pc = "called", !.row = Len(rows) + 1, !.reply = "none"]]
  /\ UNCHANGED <<door, stop, cache, up, crashes>>

\* BudgetExceeded: nothing is called, the call fails.
Refuse(c) ==
  /\ caller[c].pc = "ready"
  /\ ~Reserves(Append(rows, NewRow(0)))
  /\ Goes(c, "failed")
  /\ UNCHANGED <<door, rows, stop, cache, up, crashes>>

Answer(c, reply) ==
  /\ caller[c].pc = "called"
  /\ reply \in door.replies
  /\ caller' = [caller EXCEPT ![c] =
       [@ EXCEPT !.reply = reply,
                 !.pc = IF reply = "garbled" /\ door.garbled = "before"
                        THEN "raised" ELSE "answered"]]
  /\ UNCHANGED <<door, rows, stop, cache, up, crashes>>

Raise(c, error) ==
  /\ caller[c].pc = "called"
  /\ error = "partial" => "partial" \in door.replies
  /\ caller' = [caller EXCEPT ![c] = [@ EXCEPT !.reply = error, !.pc = "raised"]]
  /\ UNCHANGED <<door, rows, stop, cache, up, crashes>>

SettledRow(i, status, amount) ==
  [rows EXCEPT ![i] = [@ EXCEPT !.status = status, !.paid = amount]]

AnsweredRow(c) ==
  IF caller[c].reply = "blank"
  THEN SettledRow(caller[c].row, "usage_missing", door.blank)
  ELSE SettledRow(caller[c].row, "succeeded", rows[caller[c].row].bill)

\* The answer is settled with its usage.  A garbled one has been paid then.
SettleAnswer(c) ==
  /\ caller[c].pc = "answered"
  /\ Settles(AnsweredRow(c))
  /\ rows' = AnsweredRow(c)
  /\ Goes(c, CASE caller[c].reply = "garbled" /\ door.garbled = "caught" -> "raised"
               [] caller[c].reply = "garbled" /\ door.garbled # "caught" -> "failed"
               [] caller[c].reply # "garbled" /\ door.keeps = "answers" -> "put"
               [] caller[c].reply # "garbled" /\ door.keeps = "nothing" -> "done")
  /\ UNCHANGED <<door, stop, cache, up, crashes>>

\* settle raises and rolls back: the row stays pending.  CappedProvider.call
\* catches that too, and does not try again.
Overrun(c) ==
  /\ caller[c].pc = "answered"
  /\ ~Settles(AnsweredRow(c))
  /\ \/ /\ door.garbled = "caught"
        /\ caller' = [caller EXCEPT ![c] = [@ EXCEPT !.pc = "raised", !.reply = "fatal"]]
     \/ door.garbled # "caught" /\ Goes(c, "failed")
  /\ UNCHANGED <<door, rows, stop, cache, up, crashes>>

Retried(c) == caller[c].reply \in door.retried /\ caller[c].tries < MaxTries

\* MUTATED: a failed attempt is settled at nothing everywhere.
FailureIsFree(c) == SettledRow(caller[c].row, "failed", 0)

FailedRow(c) ==
  SettledRow(caller[c].row, "failed",
             IF caller[c].reply = "partial" THEN Est ELSE door.failed)

\* The adaptive wrappers take the stop back before they try again.
NextTry == IF door.ledger = "adaptive" THEN "clear" ELSE "ready"

\* complete_generation keeps the first error that stopped the run.
Stopped(c) ==
  IF door.ledger \in GuardedLedgers /\ stop = "none"
  THEN (IF caller[c].reply = "rate" THEN "rate" ELSE "hard")
  ELSE stop

\* A row is settled once.
Open(c) == rows[caller[c].row].status = "pending"

SettleFailure(c) ==
  /\ caller[c].pc = "raised"
  /\ Open(c)
  /\ Settles(FailedRow(c))
  /\ rows' = FailedRow(c)
  /\ stop' = Stopped(c)
  /\ \/ /\ Retried(c)
        /\ caller' = [caller EXCEPT ![c] = [@ EXCEPT !.tries = caller[c].tries + 1, !.pc = NextTry]]
     \/ ~Retried(c) /\ Goes(c, "failed")
  /\ UNCHANGED <<door, cache, up, crashes>>

\* The second settlement of an answer that was paid and then not readable, or
\* one over the limit, raises out of the handler.
SettleFails(c) ==
  /\ caller[c].pc = "raised"
  /\ ~(Open(c) /\ Settles(FailedRow(c)))
  /\ Goes(c, "failed")
  /\ UNCHANGED <<door, rows, stop, cache, up, crashes>>

\* clear_rate_limit_stop, in a transaction of its own, whatever stopped the run.
ClearRateLimitStop(c) ==
  /\ caller[c].pc = "clear"
  /\ stop' = "none"
  /\ Goes(c, "ready")
  /\ UNCHANGED <<door, rows, cache, up, crashes>>

Put(c) ==
  /\ caller[c].pc = "put"
  /\ cache' = cache \cup {c}
  /\ Goes(c, "done")
  /\ UNCHANGED <<door, rows, stop, up, crashes>>

\* The process ends.  What a run with an exact cache has done it asks again.
Crash ==
  /\ up
  /\ crashes < MaxCrashes
  /\ up' = FALSE
  /\ crashes' = crashes + 1
  /\ caller' = [c \in Caller |-> IF caller[c].pc \in Ended /\ door.keeps = "nothing"
                                 THEN caller[c] ELSE NewCall]
  /\ UNCHANGED <<door, rows, stop, cache>>

\* assert_no_pending, and the look at stop_reason before a run: a ledger that
\* was left in doubt is not used again.
Restart ==
  /\ ~up
  /\ door.ledger \in {"plan", "r2", "ch15"} => ~Pending(rows)
  /\ door.ledger \in GuardedLedgers => stop = "none"
  /\ up' = TRUE
  /\ UNCHANGED <<door, rows, stop, caller, cache, crashes>>

Step(c) ==
  \/ Look(c) \/ \E bill \in Bill : Reserve(c, bill)
  \/ Refuse(c)
  \/ \E reply \in {"usage", "blank", "garbled"} : Answer(c, reply)
  \/ \E error \in Errors \cup {"partial"} : Raise(c, error)
  \/ SettleAnswer(c) \/ Overrun(c) \/ SettleFailure(c) \/ SettleFails(c)
  \/ ClearRateLimitStop(c) \/ Put(c)

PaidNext == (\E c \in Caller : Step(c)) \/ Crash \/ Restart

\* The provider answers or the client's timeout raises, and the wrapper goes on.
PaidFairness == \A c \in Caller : WF_paidVars(Step(c))

PaidSpec == PaidInit /\ [][PaidNext]_paidVars /\ PaidFairness

(***************************************************************************)
(* Properties.                                                             *)
(***************************************************************************)
NoOverrun == \A i \in DOMAIN rows : rows[i].bill <= Est

\* Whatever the bills are, the plan, claim and depth ledgers never stand over
\* their cap (app/answer_plan/budget.py:93, 150): what is reserved and what is
\* paid together.  R2Budget holds what is paid under it (scripts/e2e_quality_r2/
\* budget.py:109), the ch15 ledgers everything, as long as no bill is over its
\* reservation (scripts/ch15_paid_guard.py:311).
WithinLimit ==
  /\ door.ledger \in {"plan", "claim", "depth"} => Committed(rows) <= Limit
  /\ door.ledger = "r2" => Paid(rows) <= Limit
  /\ door.ledger \in GuardedLedgers /\ NoOverrun => Committed(rows) <= Limit

\* What the wrapper cannot know of a row: the depth provider settles an answer
\* without usage at nothing, the r2 ones that and every failed call.
InDoubt(row) ==
  \/ door.ledger = "depth" /\ row.status = "usage_missing"
  \/ door.ledger = "r2" /\ row.status \in {"usage_missing", "failed"}

\* The ledger never counts a call at less than what the provider asks for it,
\* when that is not over the reservation: not while it is outstanding, not
\* after a crash, a failed settlement, a retry or an answer without usage
\* (app/claim_grounding/backends.py:222, scripts/ch15_paid_guard.py:339).
BillIsCovered ==
  \A i \in DOMAIN rows :
    rows[i].bill <= Est /\ ~InDoubt(rows[i]) => rows[i].bill <= Charge(rows[i])

\* The serial ledger never has a call begun after one that is not settled, not
\* even when the process ended in between (scripts/ch15_paid_guard.py:294):
\* only its last row can be pending.
OneCallAtATime ==
  door.ledger = "ch15" =>
    \A i \in 1..(Len(rows) - 1) : rows[i].status # "pending"

\* A run that an error stopped stays stopped and begins no call, whatever the
\* calls that were outstanding then come back with (scripts/ch15_paid_guard.py:
\* 286, 372, scripts/eval_multi_agent.py:574).
StopIsFinal ==
  [][door.ledger \in {"ch15", "multi"} /\ stop # "none" =>
       stop' = stop /\ Len(rows') = Len(rows)]_<<stop, rows>>

\* A settled row is never settled again, also when the answer that was paid
\* turns out not to be readable (scripts/answer_quality_depth/budget.py:110).
SettledOnce ==
  [][\A i \in DOMAIN rows : rows[i].status # "pending" => rows'[i] = rows[i]]_rows

=============================================================================
