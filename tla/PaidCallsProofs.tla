-------------------------- MODULE PaidCallsProofs ---------------------------
(***************************************************************************)
(* Proofs about the calls that cost money.                                 *)
(*                                                                         *)
(* PaidCalls: for any number of calls at a time, any cap, estimate and     *)
(* bills, no row is ever counted at less than the provider asks for it     *)
(* (unless the wrapper cannot know), a row is settled once, the serial     *)
(* ledger has one call outstanding, a stop is final, and the ledgers stay  *)
(* under their cap.                                                        *)
(*                                                                         *)
(* EvalCost: for any requests, worktrees, units and attempts and with an   *)
(* end of the process between any two steps, a request of the journal is   *)
(* paid for once in a worktree and what is booked stays under the limit.   *)
(***************************************************************************)
EXTENDS PaidCalls, EvalCost, FiniteSetTheorems, SequenceTheorems,
        WellFoundedInduction, TLAPS

-----------------------------------------------------------------------------
(* The paid calls.                                                         *)

\* The calls that hold a row.
Holds(c) == caller[c].pc \in {"called", "answered", "raised"}

\* A call that is not settled holds a row that is pending; no row is held by two.
RowLinks ==
  /\ \A c \in Caller : Holds(c) => caller[c].row \in DOMAIN rows
  /\ \A c \in Caller : caller[c].pc \in {"called", "answered"} =>
       rows[caller[c].row].status = "pending"
  /\ \A c, d \in Caller : Holds(c) /\ Holds(d) /\ c # d => caller[c].row # caller[d].row

\* Only the adaptive wrappers clear a stop.
ClearsOnlyAdaptive ==
  \A c \in Caller : caller[c].pc = "clear" => door.ledger = "adaptive"

PaidInv ==
  /\ PaidTypeOK
  /\ RowLinks
  /\ ClearsOnlyAdaptive
  /\ BillIsCovered
  /\ OneCallAtATime

LEMMA DoorFacts ==
  ASSUME NEW d \in Doors
  PROVE  /\ d.failed \in Nat
         /\ d.blank \in Nat
         /\ d.ledger # "r2" => d.failed = Est
         /\ d.ledger \notin {"depth", "r2"} => d.blank = Est
         /\ d.keeps \in {"answers", "nothing"}
<1> DEFINE Fact(x) == /\ x.failed \in Nat
                      /\ x.blank \in Nat
                      /\ x.ledger # "r2" => x.failed = Est
                      /\ x.ledger \notin {"depth", "r2"} => x.blank = Est
                      /\ x.keeps \in {"answers", "nothing"}
<1>1. Fact(BudgetedModelInvoke) /\ Fact(StructuredGroundingBackend)
  BY EstAssumption DEF BudgetedModelInvoke, StructuredGroundingBackend
<1>2. Fact(CappedProviderCall) /\ Fact(BudgetedChatInvoke)
  BY EstAssumption DEF CappedProviderCall, BudgetedChatInvoke
<1>3. Fact(BudgetedChatAinvoke)
  BY <1>2 DEF BudgetedChatAinvoke
<1>4. Fact(BudgetedChatAstream)
  BY EstAssumption DEF BudgetedChatAstream, BudgetedChatInvoke
<1>5. Fact(BudgetedStructuredInvoke)
  BY EstAssumption DEF BudgetedStructuredInvoke, BudgetedChatInvoke
<1>6. Fact(BudgetedJsonInvoke)
  BY <1>5 DEF BudgetedJsonInvoke
<1>7. Fact(MeteredEmbed)
  BY EstAssumption DEF MeteredEmbed
<1>8. Fact(MeteredRerank)
  BY <1>7 DEF MeteredRerank
<1>9. Fact(GuardedInvoke)
  BY EstAssumption DEF GuardedInvoke
<1>10. Fact(GuardedStream)
  BY EstAssumption DEF GuardedStream, GuardedInvoke
<1>11. Fact(ConcurrentInvoke) /\ Fact(RetryingInvoke)
  BY EstAssumption DEF ConcurrentInvoke, RetryingInvoke, GuardedInvoke
<1>12. Fact(RetryingStream)
  BY EstAssumption DEF RetryingStream, GuardedStream, GuardedInvoke
<1> HIDE DEF Fact
<1>13. Fact(d)
  BY <1>1, <1>2, <1>3, <1>4, <1>5, <1>6, <1>7, <1>8, <1>9, <1>10, <1>11, <1>12
     DEF Doors
<1> QED BY <1>13 DEF Fact

-----------------------------------------------------------------------------
(* Sums.                                                                   *)

\* A set with 0 and the successor of each of its numbers has all of them.
LEMMA SuccessorsFill ==
  ASSUME NEW S, 0 \in S, \A n \in Nat : n \in S => n + 1 \in S
  PROVE  Nat \subseteq S
<1> DEFINE Missed == {n \in Nat : n \notin S}
           Upto(n) == 0 .. n
           T == {Upto(n) : n \in Missed}
           R == StrictSubsetOrdering(Nat)
<1> SUFFICES ASSUME Missed # {} PROVE FALSE
  OBVIOUS
<1>1. T \subseteq FiniteSubsetsOf(Nat) /\ T # {}
  <2>1. \A n \in Nat : Upto(n) \in SUBSET Nat /\ IsFiniteSet(Upto(n))
    BY FS_Interval
  <2> QED
    BY <2>1 DEF FiniteSubsetsOf
<1>2. IsWellFoundedOn(R, FiniteSubsetsOf(Nat))
  BY FS_StrictSubsetOrderingWellFounded
<1>3. PICK x \in T : \A y \in T : ~(<<y, x>> \in R)
  <2> HIDE DEF T, R
  <2> QED
    BY <1>1, <1>2, WFMin
<1>4. PICK n \in Missed : x = Upto(n)
  OBVIOUS
<1>5. n \in Nat \ {0} /\ n - 1 \in Nat
  BY <1>4
<1>6. <<Upto(n - 1), x>> \in R
  BY <1>4, <1>5 DEF StrictSubsetOrdering
<1>7. n - 1 \in S
  BY <1>3, <1>5, <1>6
<1> QED
  BY <1>4, <1>5, <1>7

\* What tells the running total of a sequence.
Totals(total, amounts, n) ==
  /\ total \in [0..n -> Nat]
  /\ total[0] = 0
  /\ \A m \in 1..n : total[m] = total[m - 1] + amounts[m]

LEMMA TotalsExist ==
  ASSUME NEW amounts \in Seq(Nat)
  PROVE  \E total : Totals(total, amounts, Len(amounts))
<1> DEFINE Has(n) == \E total : Totals(total, amounts, n)
           S == {n \in Nat : n <= Len(amounts) => Has(n)}
<1>1. 0 \in S
  <2>1. Totals([n \in 0..0 |-> 0], amounts, 0)
    BY DEF Totals
  <2> QED BY <2>1
<1>2. ASSUME NEW n \in Nat, n \in S
      PROVE  n + 1 \in S
  <2> SUFFICES ASSUME n + 1 <= Len(amounts) PROVE Has(n + 1)
    OBVIOUS
  <2>1. PICK total : Totals(total, amounts, n)
    <3>1. n <= Len(amounts)
      OBVIOUS
    <3> QED BY <1>2, <3>1
  <2> DEFINE longer == [m \in 0..(n + 1) |->
                          IF m = n + 1 THEN total[n] + amounts[n + 1] ELSE total[m]]
  <2>2. amounts[n + 1] \in Nat
    OBVIOUS
  <2>3. total \in [0..n -> Nat] /\ total[n] \in Nat /\ total[0] = 0
        /\ \A m \in 1..n : total[m] = total[m - 1] + amounts[m]
    BY <2>1 DEF Totals
  <2>4. longer \in [0..(n + 1) -> Nat]
    BY <2>2, <2>3
  <2>5. longer[0] = 0
    BY <2>3
  <2>6. ASSUME NEW m \in 1..(n + 1)
        PROVE  longer[m] = longer[m - 1] + amounts[m]
    <3>1. CASE m = n + 1
      BY <3>1
    <3>2. CASE m # n + 1
      <4>1. m \in 1..n /\ m - 1 \in 0..n /\ m - 1 # n + 1
        BY <3>2
      <4> QED BY <4>1, <2>3
    <3> QED BY <3>1, <3>2
  <2>7. Totals(longer, amounts, n + 1)
    <3> HIDE DEF longer
    <3> QED BY <2>4, <2>5, <2>6 DEF Totals
  <2> QED BY <2>7
<1>3. Nat \subseteq S
  <2> HIDE DEF S
  <2> QED BY <1>1, <1>2, SuccessorsFill
<1> QED BY <1>3

\* The recursive definition is the running total.
LEMMA RunningTotals ==
  ASSUME NEW amounts \in Seq(Nat)
  PROVE  Totals(RunningTotal(amounts), amounts, Len(amounts))
<1> DEFINE Def(f) == [n \in 0..Len(amounts) |->
                        IF n = 0 THEN 0 ELSE f[n - 1] + amounts[n]]
<1>1. RunningTotal(amounts) = CHOOSE f : f = Def(f)
  BY DEF RunningTotal
<1>2. ASSUME NEW f, Totals(f, amounts, Len(amounts))
      PROVE  f = Def(f)
  BY <1>2 DEF Totals
<1>3. \E f : f = Def(f)
  BY <1>2, TotalsExist
<1>4. RunningTotal(amounts) = Def(RunningTotal(amounts))
  BY <1>1, <1>3
<1> DEFINE total == RunningTotal(amounts)
           S == {n \in Nat : n <= Len(amounts) => total[n] \in Nat}
<1>5. total = [n \in 0..Len(amounts) |-> total[n]] /\ total[0] = 0
      /\ \A n \in 1..Len(amounts) : total[n] = total[n - 1] + amounts[n]
  BY <1>4
<1> HIDE DEF total, Def
<1>6. 0 \in S
  BY <1>5
<1>7. ASSUME NEW n \in Nat, n \in S PROVE n + 1 \in S
  <2> SUFFICES ASSUME n + 1 <= Len(amounts) PROVE total[n + 1] \in Nat
    OBVIOUS
  <2>1. total[n + 1] = total[n] + amounts[n + 1]
    <3>1. n + 1 \in 1..Len(amounts) /\ (n + 1) - 1 = n
      OBVIOUS
    <3> QED BY <1>5, <3>1
  <2>2. amounts[n + 1] \in Nat /\ total[n] \in Nat
    BY <1>7
  <2> QED BY <2>1, <2>2
<1>8. Nat \subseteq S
  <2> HIDE DEF S
  <2> QED BY <1>6, <1>7, SuccessorsFill
<1>9. \A n \in 0..Len(amounts) : total[n] \in Nat
  BY <1>8
<1> QED BY <1>5, <1>9 DEF Totals, total

LEMMA TotalIsNumber ==
  ASSUME NEW amounts \in Seq(Nat)
  PROVE  Total(amounts) \in Nat
  BY RunningTotals DEF Total, Totals

\* A sum does not grow when none of its amounts does; one at the end that is
\* nothing changes nothing.
LEMMA TotalIsMonotonic ==
  ASSUME NEW a \in Seq(Nat), NEW b \in Seq(Nat), Len(a) \in {Len(b), Len(b) + 1},
         \A i \in 1..Len(b) : a[i] <= b[i],
         Len(a) = Len(b) + 1 => a[Len(a)] = 0
  PROVE  Total(a) <= Total(b)
<1> DEFINE ra == RunningTotal(a)
           rb == RunningTotal(b)
           S == {n \in Nat : n <= Len(b) => ra[n] <= rb[n]}
<1>1. /\ ra \in [0..Len(a) -> Nat] /\ rb \in [0..Len(b) -> Nat]
      /\ ra[0] = 0 /\ rb[0] = 0
      /\ \A m \in 1..Len(a) : ra[m] = ra[m - 1] + a[m]
      /\ \A m \in 1..Len(b) : rb[m] = rb[m - 1] + b[m]
  BY RunningTotals DEF Totals
<1>2. Total(a) = ra[Len(a)] /\ Total(b) = rb[Len(b)]
  BY DEF Total
<1> HIDE DEF ra, rb
<1>3. 0 \in S
  BY <1>1
<1>4. ASSUME NEW n \in Nat, n \in S PROVE n + 1 \in S
  <2> SUFFICES ASSUME n + 1 <= Len(b) PROVE ra[n + 1] <= rb[n + 1]
    OBVIOUS
  <2>1. /\ n + 1 \in 1..Len(b) /\ n + 1 \in 1..Len(a) /\ (n + 1) - 1 = n
        /\ n \in 0..Len(a) /\ n \in 0..Len(b)
    OBVIOUS
  <2>2. ra[n + 1] = ra[n] + a[n + 1] /\ rb[n + 1] = rb[n] + b[n + 1]
    <3>1. ra[n + 1] = ra[(n + 1) - 1] + a[n + 1]
      BY <1>1, <2>1
    <3>2. rb[n + 1] = rb[(n + 1) - 1] + b[n + 1]
      BY <1>1, <2>1
    <3> QED BY <2>1, <3>1, <3>2
  <2>3. ra[n] \in Nat /\ rb[n] \in Nat
    BY <1>1, <2>1
  <2>4. a[n + 1] \in Nat /\ b[n + 1] \in Nat /\ a[n + 1] <= b[n + 1]
    BY <2>1
  <2>5. ra[n] <= rb[n]
    BY <1>4, <2>1
  <2>6. ra[n] + a[n + 1] <= rb[n] + b[n + 1]
    <3>1. \A p, q, x, y \in Nat : p <= q /\ x <= y => p + x <= q + y
      OBVIOUS
    <3> QED BY ONLY <2>3, <2>4, <2>5, <3>1
  <2> QED BY <2>2, <2>6
<1>5. Nat \subseteq S
  <2> HIDE DEF S
  <2> QED BY <1>3, <1>4, SuccessorsFill
<1>6. ra[Len(b)] <= rb[Len(b)]
  BY <1>5
<1>7. CASE Len(a) = Len(b)
  BY <1>2, <1>6, <1>7
<1>8. CASE Len(a) = Len(b) + 1
  <2>1. Len(a) \in 1..Len(a) /\ Len(a) - 1 = Len(b) /\ Len(b) \in 0..Len(a)
    BY <1>8
  <2>2. ra[Len(a)] = ra[Len(b)] + a[Len(a)] /\ ra[Len(b)] \in Nat
    BY <1>1, <2>1
  <2>3. ra[Len(a)] = ra[Len(b)]
    BY <1>8, <2>2
  <2> QED BY <2>3, <1>2, <1>6
<1> QED BY <1>7, <1>8

-----------------------------------------------------------------------------
(* The steps preserve PaidInv.                                             *)

LEMMA InitInv == PaidInit => PaidInv
<1> SUFFICES ASSUME PaidInit PROVE PaidInv
  OBVIOUS
<1>1. rows \in Seq(Row) /\ DOMAIN rows = {} /\ Len(rows) = 0
  BY DEF PaidInit
<1>2. \A c \in Caller : caller[c] = NewCall
  BY DEF PaidInit
<1>3. NewCall \in Call
  BY TriesAssumption DEF NewCall, Call, Pc, Reply, Errors
<1>4. PaidTypeOK
  BY <1>1, <1>3, CrashesAssumption DEF PaidInit, PaidTypeOK
<1>5. RowLinks /\ ClearsOnlyAdaptive
  BY <1>2 DEF RowLinks, Holds, ClearsOnlyAdaptive, NewCall
<1> QED BY <1>1, <1>4, <1>5 DEF PaidInv, BillIsCovered, OneCallAtATime

\* A call that moves on and leaves the ledger alone.
LEMMA CallerStep ==
  ASSUME PaidInv, NEW c \in Caller, NEW new \in Call,
         caller' = [caller EXCEPT ![c] = new],
         UNCHANGED <<door, rows>>,
         stop' \in {"none", "rate", "hard"}, cache' \subseteq Caller,
         UNCHANGED <<up, crashes>>,
         new.pc \in {"called", "answered", "raised"} =>
            Holds(c) /\ new.row = caller[c].row,
         new.pc \in {"called", "answered"} => caller[c].pc \in {"called", "answered"},
         new.pc = "clear" => door.ledger = "adaptive"
  PROVE  PaidInv'
<1>1. PaidTypeOK'
  BY DEF PaidInv, PaidTypeOK
<1>2. RowLinks'
  BY DEF PaidInv, PaidTypeOK, RowLinks, Holds
<1>3. ClearsOnlyAdaptive'
  BY DEF PaidInv, PaidTypeOK, ClearsOnlyAdaptive
<1>4. BillIsCovered' /\ OneCallAtATime'
  BY DEF PaidInv, BillIsCovered, OneCallAtATime, InDoubt, Charge
<1> QED BY <1>1, <1>2, <1>3, <1>4 DEF PaidInv

LEMMA ReserveInv ==
  ASSUME PaidInv, NEW c \in Caller, NEW bill \in Bill, Reserve(c, bill)
  PROVE  PaidInv'
<1> DEFINE new == NewRow(bill)
<1>1. new \in Row /\ new.status = "pending" /\ new.bill = bill
  BY BillAssumption DEF NewRow, Row, Status
<1>2. /\ rows \in Seq(Row) /\ rows' = Append(rows, new)
      /\ Len(rows) \in Nat /\ DOMAIN rows = 1..Len(rows)
      /\ Len(rows') = Len(rows) + 1 /\ DOMAIN rows' = 1..(Len(rows) + 1)
      /\ \A i \in 1..Len(rows) : rows'[i] = rows[i]
      /\ rows'[Len(rows) + 1] = new
  BY <1>1 DEF Reserve, PaidInv, PaidTypeOK
<1>3. /\ caller' = [caller EXCEPT ![c] = [caller[c] EXCEPT !.pc = "called",
                       !.row = Len(rows) + 1, !.reply = "none"]]
      /\ caller[c] \in Call
      /\ caller \in [Caller -> Call]
  BY DEF Reserve, PaidInv, PaidTypeOK
<1>4. [caller[c] EXCEPT !.pc = "called", !.row = Len(rows) + 1, !.reply = "none"] \in Call
  <2>1. Len(rows) + 1 \in Nat
    BY <1>2
  <2> QED BY <2>1, <1>3 DEF Call, Pc, Reply, Errors
<1>5. PaidTypeOK'
  <2>1. rows' \in Seq(Row)
    BY <1>1, <1>2
  <2> QED BY <2>1, <1>3, <1>4 DEF Reserve, PaidInv, PaidTypeOK
<1>6. /\ caller'[c].pc = "called" /\ caller'[c].row = Len(rows) + 1
      /\ \A d \in Caller : d # c => caller'[d] = caller[d]
  BY <1>3 DEF Call
<1>7. RowLinks'
  <2>1. ASSUME NEW d \in Caller, Holds(d)'
        PROVE  caller'[d].row \in DOMAIN rows'
    BY <2>1, <1>2, <1>6 DEF PaidInv, RowLinks, Holds
  <2>2. ASSUME NEW d \in Caller, caller'[d].pc \in {"called", "answered"}
        PROVE  rows'[caller'[d].row].status = "pending"
    <3>1. CASE d = c
      BY <3>1, <1>1, <1>2, <1>6
    <3>2. CASE d # c
      BY <3>2, <2>2, <1>2, <1>6 DEF PaidInv, RowLinks, Holds
    <3> QED BY <3>1, <3>2
  <2>3. ASSUME NEW d \in Caller, NEW e \in Caller, Holds(d)', Holds(e)', d # e
        PROVE  caller'[d].row # caller'[e].row
    <3>1. \A b \in Caller : b # c /\ Holds(b)' => caller'[b].row \in 1..Len(rows)
      BY <1>2, <1>6 DEF PaidInv, RowLinks, Holds
    <3>2. CASE d # c /\ e # c
      BY <3>2, <2>3, <1>6 DEF PaidInv, RowLinks, Holds
    <3>3. CASE d = c \/ e = c
      BY <3>1, <3>3, <2>3, <1>2, <1>6
    <3> QED BY <3>2, <3>3
  <2> QED BY <2>1, <2>2, <2>3 DEF RowLinks
<1>8. ClearsOnlyAdaptive'
  BY <1>6 DEF Reserve, PaidInv, ClearsOnlyAdaptive
<1>9. BillIsCovered'
  <2>1. ASSUME NEW i \in DOMAIN rows', rows'[i].bill <= Est, ~InDoubt(rows'[i])
        PROVE  rows'[i].bill <= Charge(rows'[i])
    <3>1. CASE i \in 1..Len(rows)
      <4>1. rows'[i] = rows[i] /\ door' = door
        BY <3>1, <1>2 DEF Reserve
      <4> QED BY <4>1, <3>1, <2>1, <1>2 DEF PaidInv, BillIsCovered, InDoubt, Charge
    <3>2. CASE i = Len(rows) + 1
      BY <3>2, <2>1, <1>1, <1>2 DEF Charge
    <3> QED BY <3>1, <3>2, <2>1, <1>2
  <2>2. door' = door
    BY DEF Reserve
  <2> QED BY <2>1, <2>2 DEF BillIsCovered, Charge, InDoubt
<1>10. OneCallAtATime'
  <2>1. door' = door
    BY DEF Reserve
  <2>2. ASSUME door.ledger = "ch15" PROVE \A i \in 1..Len(rows) : rows[i].status # "pending"
    BY <2>2, <1>2 DEF Reserve, Reserves, Ch15Reserves, GuardedLedgers, Pending
  <2> QED BY <2>1, <2>2, <1>2 DEF OneCallAtATime
<1> QED BY <1>5, <1>7, <1>8, <1>9, <1>10 DEF PaidInv

\* A call settles the row it holds, and does not hold a pending one after that.
LEMMA SettleStep ==
  ASSUME PaidInv, NEW c \in Caller, NEW new \in Call, Holds(c),
         rows[caller[c].row].status = "pending",
         NEW status \in Status \ {"pending"}, NEW amount \in Nat,
         rows' = SettledRow(caller[c].row, status, amount),
         caller' = [caller EXCEPT ![c] = new],
         new.row = caller[c].row,
         new.pc \notin {"called", "answered"},
         new.pc = "clear" => door.ledger = "adaptive",
         UNCHANGED <<door, cache, up, crashes>>,
         stop' \in {"none", "rate", "hard"},
         LET row == rows[caller[c].row]
         IN  \/ door.ledger = "depth" /\ status = "usage_missing"
             \/ door.ledger = "r2" /\ status \in {"usage_missing", "failed"}
             \/ amount = Est \/ amount = row.bill
  PROVE  PaidInv'
<1> DEFINE k == caller[c].row
<1> DEFINE row == [rows[k] EXCEPT !.status = status, !.paid = amount]
<1>1. /\ rows \in Seq(Row) /\ k \in DOMAIN rows /\ rows[k] \in Row
      /\ Len(rows) \in Nat /\ DOMAIN rows = 1..Len(rows)
  BY DEF PaidInv, PaidTypeOK, RowLinks
<1>2. row \in Row /\ row.status = status /\ row.paid = amount /\ row.bill = rows[k].bill
  BY <1>1 DEF Row
<1>3. rows' = [rows EXCEPT ![k] = row]
  BY DEF SettledRow
<1> HIDE DEF row
<1>4. /\ rows' \in Seq(Row) /\ Len(rows') = Len(rows) /\ DOMAIN rows' = DOMAIN rows
      /\ rows'[k] = row
      /\ \A i \in DOMAIN rows : i # k => rows'[i] = rows[i]
  BY <1>1, <1>2, <1>3
<1>5. PaidTypeOK'
  BY <1>4 DEF PaidInv, PaidTypeOK
<1>6. caller'[c] = new /\ \A d \in Caller : d # c => caller'[d] = caller[d]
  BY DEF PaidInv, PaidTypeOK
<1>7. RowLinks'
  <2>1. ASSUME NEW d \in Caller, Holds(d)'
        PROVE  caller'[d].row \in DOMAIN rows'
    BY <2>1, <1>1, <1>4, <1>6 DEF PaidInv, RowLinks, Holds
  <2>2. ASSUME NEW d \in Caller, caller'[d].pc \in {"called", "answered"}
        PROVE  rows'[caller'[d].row].status = "pending"
    <3>1. d # c /\ caller'[d] = caller[d] /\ Holds(d)
      BY <2>2, <1>6 DEF Holds
    <3>2. caller[d].row # k /\ caller[d].row \in DOMAIN rows
      BY <3>1 DEF PaidInv, RowLinks
    <3> QED BY <3>1, <3>2, <2>2, <1>4 DEF PaidInv, RowLinks
  <2>3. ASSUME NEW d \in Caller, NEW e \in Caller, Holds(d)', Holds(e)', d # e
        PROVE  caller'[d].row # caller'[e].row
    BY <2>3, <1>6 DEF PaidInv, RowLinks, Holds
  <2> QED BY <2>1, <2>2, <2>3 DEF RowLinks
<1>8. ClearsOnlyAdaptive'
  BY <1>6 DEF PaidInv, ClearsOnlyAdaptive
<1>9. BillIsCovered'
  <2>1. ASSUME NEW i \in DOMAIN rows, rows'[i].bill <= Est, ~InDoubt(rows'[i])
        PROVE  rows'[i].bill <= Charge(rows'[i])
    <3>1. CASE i # k
      <4>1. rows'[i] = rows[i]
        BY <3>1, <1>4
      <4> QED BY <4>1, <2>1 DEF PaidInv, BillIsCovered, InDoubt, Charge
    <3>2. CASE i = k
      <4>1. rows'[i] = row /\ Charge(row) = amount
        BY <3>2, <1>2, <1>4 DEF Charge
      <4>2. amount = Est \/ amount = row.bill
        BY <4>1, <2>1, <1>2 DEF InDoubt
      <4> QED BY <4>1, <4>2, <2>1, <1>2 DEF Row
    <3> QED BY <3>1, <3>2
  <2> QED BY <2>1, <1>4 DEF BillIsCovered, Charge, InDoubt
<1>10. OneCallAtATime'
  <2>1. \A i \in DOMAIN rows : rows[i].status # "pending" => rows'[i].status # "pending"
    BY <1>2, <1>4
  <2> QED BY <2>1, <1>1, <1>4, SMTT(30) DEF PaidInv, OneCallAtATime
<1> QED BY <1>5, <1>7, <1>8, <1>9, <1>10 DEF PaidInv

LEMMA Settling ==
  ASSUME PaidInv, NEW c \in Caller, Holds(c)
  PROVE  /\ caller \in [Caller -> Call]
         /\ caller[c] \in Call
         /\ door \in Doors
         /\ caller[c].row \in DOMAIN rows
         /\ rows[caller[c].row] \in Row
         /\ rows[caller[c].row].bill \in Nat
         /\ stop \in {"none", "rate", "hard"}
<1>1. PaidTypeOK /\ caller[c].row \in DOMAIN rows
  BY DEF PaidInv, RowLinks
<1>2. rows \in Seq(Row)
  BY <1>1 DEF PaidTypeOK
<1>3. rows[caller[c].row] \in Row
  BY <1>1, <1>2
<1>4. rows[caller[c].row].bill \in Nat
  BY <1>3 DEF Row
<1> QED BY <1>1, <1>3, <1>4 DEF PaidTypeOK

LEMMA SettleAnswerInv ==
  ASSUME PaidInv, NEW c \in Caller, SettleAnswer(c)
  PROVE  PaidInv'
<1>1. Holds(c) /\ rows[caller[c].row].status = "pending"
  BY DEF SettleAnswer, Holds, PaidInv, RowLinks
<1>2. PICK pc \in {"raised", "failed", "put", "done"} :
        caller' = [caller EXCEPT ![c].pc = pc]
  <2>1. door.keeps \in {"answers", "nothing"}
    BY <1>1, Settling, DoorFacts
  <2> QED BY <2>1 DEF SettleAnswer, Goes
<1> DEFINE new == [caller[c] EXCEPT !.pc = pc]
<1>3. new \in Call /\ new.row = caller[c].row /\ new.pc = pc
  BY <1>1, Settling DEF Call, Pc
<1>4. caller' = [caller EXCEPT ![c] = new]
  BY <1>2
<1> HIDE DEF new
<1>5. UNCHANGED <<door, cache, up, crashes>> /\ stop' \in {"none", "rate", "hard"}
  BY <1>1, Settling DEF SettleAnswer
<1>6. door.blank \in Nat /\ (door.ledger \notin {"depth", "r2"} => door.blank = Est)
  BY <1>1, Settling, DoorFacts
<1>7. CASE caller[c].reply = "blank"
  <2>1. rows' = SettledRow(caller[c].row, "usage_missing", door.blank)
    BY <1>7 DEF SettleAnswer, AnsweredRow
  <2>2. "usage_missing" \in Status \ {"pending"}
    BY DEF Status
  <2> QED BY <1>1, <1>2, <1>3, <1>4, <1>5, <1>6, <2>1, <2>2, SettleStep
<1>8. CASE caller[c].reply # "blank"
  <2>1. rows' = SettledRow(caller[c].row, "succeeded", rows[caller[c].row].bill)
    BY <1>8 DEF SettleAnswer, AnsweredRow
  <2>2. "succeeded" \in Status \ {"pending"} /\ rows[caller[c].row].bill \in Nat
    BY <1>1, Settling DEF Status
  <2> QED BY <1>1, <1>2, <1>3, <1>4, <1>5, <2>1, <2>2, SettleStep
<1> QED BY <1>7, <1>8

LEMMA SettleFailureInv ==
  ASSUME PaidInv, NEW c \in Caller, SettleFailure(c)
  PROVE  PaidInv'
<1> DEFINE amount == IF caller[c].reply = "partial" THEN Est ELSE door.failed
<1>1. Holds(c) /\ rows[caller[c].row].status = "pending"
  BY DEF SettleFailure, Holds, Open
<1>2. UNCHANGED <<door, cache, up, crashes>> /\ stop' \in {"none", "rate", "hard"}
  BY <1>1, Settling DEF SettleFailure, Stopped
<1>3. amount \in Nat /\ (door.ledger # "r2" => amount = Est)
  BY <1>1, Settling, DoorFacts, EstAssumption
<1>4. rows' = SettledRow(caller[c].row, "failed", amount)
  BY DEF SettleFailure, FailedRow
<1>5. "failed" \in Status \ {"pending"}
  BY DEF Status
<1> HIDE DEF amount
<1>6. CASE Goes(c, "failed")
  <2> DEFINE new == [caller[c] EXCEPT !.pc = "failed"]
  <2>1. new \in Call /\ new.row = caller[c].row /\ new.pc = "failed"
    BY <1>1, Settling DEF Call, Pc
  <2>2. caller' = [caller EXCEPT ![c] = new]
    BY <1>6, <1>1, Settling DEF Goes, Call
  <2> HIDE DEF new
  <2> QED BY <1>1, <1>2, <1>3, <1>4, <1>5, <2>1, <2>2, SettleStep
<1>7. CASE /\ Retried(c)
           /\ caller' = [caller EXCEPT ![c] = [@ EXCEPT !.tries = caller[c].tries + 1, !.pc = NextTry]]
  <2> DEFINE new == [caller[c] EXCEPT !.tries = caller[c].tries + 1, !.pc = NextTry]
  <2>1. caller[c].tries + 1 \in 1..MaxTries
    BY <1>7, <1>1, Settling, TriesAssumption DEF Retried, Call
  <2>4. NextTry \in {"clear", "ready"} /\ (NextTry = "clear" => door.ledger = "adaptive")
    BY DEF NextTry
  <2>2. new \in Call /\ new.row = caller[c].row /\ new.pc = NextTry
    BY <2>1, <2>4, <1>1, Settling DEF Call, Pc
  <2>3. caller' = [caller EXCEPT ![c] = new]
    BY <1>7
  <2> HIDE DEF new
  <2> QED BY <1>1, <1>2, <1>3, <1>4, <1>5, <2>2, <2>3, <2>4, SettleStep
<1> QED BY <1>6, <1>7 DEF SettleFailure

\* The steps of a call that leave the ledger's rows alone.
LEMMA QuietInv ==
  ASSUME PaidInv, NEW c \in Caller,
         \/ Look(c) \/ Refuse(c) \/ Overrun(c) \/ SettleFails(c)
         \/ ClearRateLimitStop(c) \/ Put(c)
         \/ \E reply \in {"usage", "blank", "garbled"} : Answer(c, reply)
         \/ \E error \in Errors \cup {"partial"} : Raise(c, error)
  PROVE  PaidInv'
<1> USE DEF Goes
<1>1. caller \in [Caller -> Call] /\ caller[c] \in Call /\ cache \subseteq Caller
      /\ stop \in {"none", "rate", "hard"}
  BY DEF PaidInv, PaidTypeOK
<1>2. CASE Look(c)
  <2>1. PICK pc \in {"done", "ready"} : caller' = [caller EXCEPT ![c].pc = pc]
    BY <1>2 DEF Look
  <2> DEFINE new == [caller[c] EXCEPT !.pc = pc]
  <2>2. new \in Call /\ new.pc = pc
    BY <1>1 DEF Call, Pc
  <2>3. caller' = [caller EXCEPT ![c] = new]
    BY <1>1, <2>1 DEF Call
  <2> HIDE DEF new
  <2> QED BY <1>1, <1>2, <2>2, <2>3, CallerStep DEF Look
<1>3. CASE Refuse(c) \/ SettleFails(c) \/ ClearRateLimitStop(c) \/ Put(c)
  <2>1. PICK pc \in {"failed", "ready", "done"} : caller' = [caller EXCEPT ![c].pc = pc]
    BY <1>3 DEF Refuse, SettleFails, ClearRateLimitStop, Put
  <2> DEFINE new == [caller[c] EXCEPT !.pc = pc]
  <2>2. new \in Call /\ new.pc = pc
    BY <1>1 DEF Call, Pc
  <2>3. caller' = [caller EXCEPT ![c] = new]
    BY <1>1, <2>1 DEF Call
  <2>4. /\ UNCHANGED <<door, rows, up, crashes>>
        /\ stop' \in {"none", "rate", "hard"} /\ cache' \subseteq Caller
    BY <1>1, <1>3 DEF Refuse, SettleFails, ClearRateLimitStop, Put
  <2> HIDE DEF new
  <2> QED BY <2>2, <2>3, <2>4, CallerStep
<1>4. CASE Overrun(c)
  <2>1. PICK pc \in {"raised", "failed"}, reply \in Reply :
          caller' = [caller EXCEPT ![c] = [@ EXCEPT !.pc = pc, !.reply = reply]]
    <3>1. CASE door.garbled = "caught"
      BY <3>1, <1>4 DEF Overrun, Reply, Errors
    <3>2. CASE door.garbled # "caught"
      <4>1. caller' = [caller EXCEPT ![c].pc = "failed"]
        BY <3>2, <1>4 DEF Overrun
      <4>2. [caller[c] EXCEPT !.pc = "failed"]
              = [caller[c] EXCEPT !.pc = "failed", !.reply = caller[c].reply]
        BY <1>1 DEF Call
      <4> QED BY <4>1, <4>2, <1>1 DEF Call
    <3> QED BY <3>1, <3>2
  <2> DEFINE new == [caller[c] EXCEPT !.pc = pc, !.reply = reply]
  <2>2. new \in Call /\ new.pc = pc /\ new.row = caller[c].row
    BY <1>1 DEF Call, Pc
  <2>3. caller' = [caller EXCEPT ![c] = new]
    BY <1>1, <2>1 DEF Call
  <2> HIDE DEF new
  <2> QED BY <1>1, <1>4, <2>2, <2>3, CallerStep DEF Overrun, Holds
<1>5. CASE \/ \E reply \in {"usage", "blank", "garbled"} : Answer(c, reply)
           \/ \E error \in Errors \cup {"partial"} : Raise(c, error)
  <2>1. PICK pc \in {"raised", "answered"}, reply \in Reply :
          caller' = [caller EXCEPT ![c] = [@ EXCEPT !.reply = reply, !.pc = pc]]
    BY <1>5 DEF Answer, Raise, Reply, Errors
  <2> DEFINE new == [caller[c] EXCEPT !.reply = reply, !.pc = pc]
  <2>2. new \in Call /\ new.pc = pc /\ new.row = caller[c].row
    BY <1>1 DEF Call, Pc
  <2>3. caller' = [caller EXCEPT ![c] = new]
    BY <1>1, <2>1 DEF Call
  <2>4. UNCHANGED <<door, rows, stop, cache, up, crashes>> /\ caller[c].pc = "called"
    BY <1>5 DEF Answer, Raise
  <2> HIDE DEF new
  <2> QED BY <1>1, <2>2, <2>3, <2>4, CallerStep DEF Holds
<1> QED BY <1>2, <1>3, <1>4, <1>5

LEMMA ProcessInv ==
  ASSUME PaidInv, Crash \/ Restart
  PROVE  PaidInv'
<1>1. UNCHANGED <<door, rows>>
  BY DEF Crash, Restart
<1>2. NewCall \in Call /\ NewCall.pc = "idle"
  BY TriesAssumption DEF NewCall, Call, Pc, Reply, Errors
<1>3. \A c \in Caller : caller'[c] \in {caller[c], NewCall}
  BY DEF Crash, Restart
<1>4. PaidTypeOK'
  <2>1. caller' \in [Caller -> Call]
    BY <1>2 DEF Crash, Restart, PaidInv, PaidTypeOK
  <2>2. up' \in BOOLEAN /\ crashes' \in 0..MaxCrashes
    <3>1. up' \in BOOLEAN
      BY DEF Crash, Restart
    <3>2. crashes \in 0..MaxCrashes
      BY DEF PaidInv, PaidTypeOK
    <3>3. crashes' = crashes \/ (crashes' = crashes + 1 /\ crashes < MaxCrashes)
      BY DEF Crash, Restart
    <3>4. crashes' \in 0..MaxCrashes
      BY <3>2, <3>3, CrashesAssumption
    <3> QED BY <3>1, <3>4
  <2>3. UNCHANGED <<stop, cache>>
    BY DEF Crash, Restart
  <2> QED BY <1>1, <2>1, <2>2, <2>3 DEF PaidInv, PaidTypeOK
<1>5. RowLinks' /\ ClearsOnlyAdaptive'
  BY <1>1, <1>2, <1>3 DEF PaidInv, RowLinks, Holds, ClearsOnlyAdaptive
<1>6. BillIsCovered' /\ OneCallAtATime'
  BY <1>1 DEF PaidInv, BillIsCovered, OneCallAtATime, InDoubt, Charge
<1> QED BY <1>4, <1>5, <1>6 DEF PaidInv

LEMMA StutterInv == PaidInv /\ UNCHANGED paidVars => PaidInv'
BY DEF PaidInv, PaidTypeOK, RowLinks, Holds, ClearsOnlyAdaptive, BillIsCovered,
       OneCallAtATime, InDoubt, Charge, paidVars

LEMMA NextInv == PaidInv /\ [PaidNext]_paidVars => PaidInv'
<1> SUFFICES ASSUME PaidInv, [PaidNext]_paidVars PROVE PaidInv'
  OBVIOUS
<1>1. ASSUME NEW c \in Caller, Step(c) PROVE PaidInv'
  <2>1. CASE \E bill \in Bill : Reserve(c, bill)
    BY <2>1, ReserveInv
  <2>2. CASE SettleAnswer(c)
    BY <2>2, SettleAnswerInv
  <2>3. CASE SettleFailure(c)
    BY <2>3, SettleFailureInv
  <2> QED BY <1>1, <2>1, <2>2, <2>3, QuietInv DEF Step
<1>2. CASE Crash \/ Restart
  BY <1>2, ProcessInv
<1>3. CASE UNCHANGED paidVars
  BY <1>3, StutterInv
<1> QED BY <1>1, <1>2, <1>3 DEF PaidNext

-----------------------------------------------------------------------------
(* The cap of the ledger.                                                  *)

LEMMA ChargesAreNumbers ==
  ASSUME NEW rs \in Seq(Row)
  PROVE  /\ [i \in 1..Len(rs) |-> Charge(rs[i])] \in Seq(Nat)
         /\ Len([i \in 1..Len(rs) |-> Charge(rs[i])]) = Len(rs)
         /\ [i \in 1..Len(rs) |-> SettledCharge(rs[i])] \in Seq(Nat)
         /\ Len([i \in 1..Len(rs) |-> SettledCharge(rs[i])]) = Len(rs)
<1>1. \A i \in 1..Len(rs) : rs[i] \in Row
  OBVIOUS
<1>2. \A i \in 1..Len(rs) : Charge(rs[i]) \in Nat /\ SettledCharge(rs[i]) \in Nat
  BY <1>1, EstAssumption DEF Charge, SettledCharge, Row
<1> QED BY <1>2

\* The ledger before its first row.
LEMMA NothingCommitted == Committed(<<>>) = 0 /\ Paid(<<>>) = 0
<1> DEFINE none == [i \in 1..0 |-> 0]
<1>1. none \in Seq(Nat) /\ Len(none) = 0
  OBVIOUS
<1>2. Total(none) = 0
  BY <1>1, RunningTotals DEF Total, Totals
<1>3. /\ [i \in 1..Len(<<>>) |-> Charge(<<>>[i])] = none
      /\ [i \in 1..Len(<<>>) |-> SettledCharge(<<>>[i])] = none
  OBVIOUS
<1> HIDE DEF none
<1> QED BY <1>2, <1>3 DEF Committed, Paid

\* A new row is paid at nothing.
LEMMA ReservingPaysNothing ==
  ASSUME NEW rs \in Seq(Row), NEW row \in Row, row.status = "pending"
  PROVE  Paid(Append(rs, row)) <= Paid(rs)
<1> DEFINE new == Append(rs, row)
           a == [i \in 1..Len(new) |-> SettledCharge(new[i])]
           b == [i \in 1..Len(rs) |-> SettledCharge(rs[i])]
<1>1. /\ new \in Seq(Row) /\ Len(new) = Len(rs) + 1 /\ new[Len(rs) + 1] = row
      /\ Len(rs) \in Nat
      /\ \A i \in 1..Len(rs) : new[i] = rs[i]
  OBVIOUS
<1> HIDE DEF new
<1>2. a \in Seq(Nat) /\ Len(a) = Len(rs) + 1 /\ b \in Seq(Nat) /\ Len(b) = Len(rs)
  BY <1>1, ChargesAreNumbers
<1>3. a[Len(rs) + 1] = 0
  BY <1>1 DEF SettledCharge
<1>4. \A i \in 1..Len(rs) : a[i] = b[i]
  BY <1>1
<1> HIDE DEF a, b
<1>5. \A i \in 1..Len(rs) : a[i] <= b[i]
  <2>1. \A i \in 1..Len(rs) : b[i] \in Nat
    BY <1>2
  <2> QED BY <1>4, <2>1
<1>6. Total(a) <= Total(b)
  <2>1. Len(a) \in {Len(b), Len(b) + 1} /\ a[Len(a)] = 0
    BY <1>2, <1>3
  <2>2. \A i \in 1..Len(b) : a[i] <= b[i]
    BY <1>2, <1>5
  <2> QED BY ONLY <1>2, <2>1, <2>2, TotalIsMonotonic
<1> QED BY <1>6 DEF Paid, a, b, new

\* A row that is settled at no more than its estimate adds nothing.
LEMMA SettlingAddsNothing ==
  ASSUME NEW rs \in Seq(Row), NEW k \in 1..Len(rs), rs[k].status = "pending",
         NEW settled \in Row, settled.status # "pending", settled.paid <= Est
  PROVE  Committed([rs EXCEPT ![k] = settled]) <= Committed(rs)
<1> DEFINE new == [rs EXCEPT ![k] = settled]
           a == [i \in 1..Len(new) |-> Charge(new[i])]
           b == [i \in 1..Len(rs) |-> Charge(rs[i])]
<1>1. /\ new \in Seq(Row) /\ Len(new) = Len(rs) /\ Len(rs) \in Nat
      /\ new[k] = settled
      /\ \A i \in 1..Len(rs) : i # k => new[i] = rs[i]
  OBVIOUS
<1> HIDE DEF new
<1>2. a \in Seq(Nat) /\ Len(a) = Len(rs) /\ b \in Seq(Nat) /\ Len(b) = Len(rs)
  BY <1>1, ChargesAreNumbers
<1>3. a[k] = settled.paid /\ b[k] = Est
  BY <1>1 DEF Charge
<1>4. ASSUME NEW i \in 1..Len(rs) PROVE a[i] <= b[i]
  <2>1. CASE i = k
    BY <1>3, <2>1
  <2>2. CASE i # k
    <3>1. a[i] = b[i]
      BY <1>1, <2>2
    <3>2. b[i] \in Nat
      BY <1>2
    <3> QED BY <3>1, <3>2
  <2> QED BY <2>1, <2>2
<1> HIDE DEF a, b
<1>5. Total(a) <= Total(b)
  <2>1. Len(a) \in {Len(b), Len(b) + 1} /\ Len(a) # Len(b) + 1
    BY <1>1, <1>2
  <2>2. \A i \in 1..Len(b) : a[i] <= b[i]
    BY <1>2, <1>4
  <2> QED BY ONLY <1>2, <2>1, <2>2, TotalIsMonotonic
<1> QED BY <1>5 DEF Committed, a, b, new

LEMMA CommittedIsNumber ==
  ASSUME NEW rs \in Seq(Row)
  PROVE  Committed(rs) \in Nat /\ Paid(rs) \in Nat
  BY ChargesAreNumbers, TotalIsNumber DEF Committed, Paid

LEMMA ReserveKeepsLimit ==
  ASSUME PaidInv, WithinLimit, NEW c \in Caller, NEW bill \in Bill, Reserve(c, bill)
  PROVE  WithinLimit'
<1>1. door' = door /\ rows' = Append(rows, NewRow(bill)) /\ Reserves(rows')
  BY DEF Reserve
<1>2. door \in Doors /\ rows \in Seq(Row)
  BY DEF PaidInv, PaidTypeOK
<1>3. NewRow(bill) \in Row /\ NewRow(bill).status = "pending"
  BY BillAssumption DEF NewRow, Row, Status
<1>4. Committed(rows') <= Limit
  BY <1>1 DEF Reserves, Ch15Reserves, ConcurrentReserves, PlanReserves
<1>5. rows' \in Seq(Row)
  BY <1>1, <1>2, <1>3
<1>6. Paid(rows') <= Paid(rows) /\ Paid(rows') \in Nat /\ Paid(rows) \in Nat
  BY <1>1, <1>2, <1>3, <1>5, ReservingPaysNothing, CommittedIsNumber
<1>7. door.ledger = "r2" => Paid(rows') <= Limit
  BY <1>6, LimitAssumption DEF WithinLimit
<1> QED BY <1>1, <1>4, <1>7 DEF WithinLimit

\* Settling one row: the ledger checks the sum, or the amount is covered.
LEMMA SettleKeepsLimit ==
  ASSUME PaidInv, WithinLimit, NEW c \in Caller, Holds(c),
         rows[caller[c].row].status = "pending",
         NEW status \in Status \ {"pending"}, NEW amount \in Nat,
         rows' = SettledRow(caller[c].row, status, amount), door' = door,
         Settles(rows'),
         door.ledger \in GuardedLedgers =>
           amount <= Est \/ amount = rows[caller[c].row].bill
  PROVE  WithinLimit'
<1> DEFINE k == caller[c].row
           row == [rows[k] EXCEPT !.status = status, !.paid = amount]
<1>1. /\ rows \in Seq(Row) /\ k \in DOMAIN rows /\ rows[k] \in Row
      /\ Len(rows) \in Nat /\ DOMAIN rows = 1..Len(rows)
  BY DEF PaidInv, PaidTypeOK, RowLinks
<1>2. row \in Row /\ row.status = status /\ row.paid = amount /\ row.bill = rows[k].bill
  BY <1>1 DEF Row
<1>3. rows' = [rows EXCEPT ![k] = row]
  BY DEF SettledRow
<1> HIDE DEF row
<1>4. /\ rows' \in Seq(Row) /\ DOMAIN rows' = DOMAIN rows /\ rows'[k] = row
  BY <1>1, <1>2, <1>3
<1>5. ASSUME door.ledger \in GuardedLedgers, NoOverrun'
      PROVE  Committed(rows') <= Limit
  <2>1. \A i \in DOMAIN rows : rows[i].bill <= Est
    <3>1. \A i \in DOMAIN rows : rows'[i].bill = rows[i].bill
      BY <1>1, <1>2, <1>3
    <3> QED BY <1>4, <1>5, <3>1 DEF NoOverrun
  <2>2. amount <= Est
    BY <1>1, <1>5, <2>1
  <2>3. Committed(rows) <= Limit
    BY <1>5, <2>1 DEF WithinLimit, NoOverrun
  <2>4. Committed(rows') <= Committed(rows)
    BY <1>1, <1>2, <1>3, <2>2, SettlingAddsNothing
  <2>5. Committed(rows') \in Nat /\ Committed(rows) \in Nat
    BY <1>1, <1>4, CommittedIsNumber
  <2> QED BY <2>3, <2>4, <2>5, LimitAssumption
<1> QED BY <1>5 DEF WithinLimit, Settles, GuardedLedgers

LEMMA LimitNext == PaidInv /\ WithinLimit /\ [PaidNext]_paidVars => WithinLimit'
<1> SUFFICES ASSUME PaidInv, WithinLimit, [PaidNext]_paidVars PROVE WithinLimit'
  OBVIOUS
<1>1. ASSUME UNCHANGED <<door, rows>> PROVE WithinLimit'
  BY <1>1 DEF WithinLimit, NoOverrun
<1>2. ASSUME NEW c \in Caller, Step(c) PROVE WithinLimit'
  <2>1. CASE \E bill \in Bill : Reserve(c, bill)
    BY <2>1, ReserveKeepsLimit
  <2>2. CASE SettleAnswer(c)
    <3>1. Holds(c) /\ rows[caller[c].row].status = "pending"
      BY <2>2 DEF SettleAnswer, Holds, PaidInv, RowLinks
    <3>2. rows' = AnsweredRow(c) /\ Settles(rows') /\ door' = door
      BY <2>2 DEF SettleAnswer
    <3>3. door.blank \in Nat /\ (door.ledger \in GuardedLedgers => door.blank <= Est)
      BY <3>1, Settling, DoorFacts, EstAssumption DEF GuardedLedgers
    <3>4. {"usage_missing", "succeeded"} \subseteq Status \ {"pending"}
      BY DEF Status
    <3>5. rows[caller[c].row].bill \in Nat
      BY <3>1, Settling
    <3> QED BY <3>1, <3>2, <3>3, <3>4, <3>5, SettleKeepsLimit DEF AnsweredRow
  <2>3. CASE SettleFailure(c)
    <3> DEFINE amount == IF caller[c].reply = "partial" THEN Est ELSE door.failed
    <3>1. Holds(c) /\ rows[caller[c].row].status = "pending"
      BY <2>3 DEF SettleFailure, Holds, Open
    <3>2. /\ rows' = SettledRow(caller[c].row, "failed", amount)
          /\ Settles(rows') /\ door' = door
      BY <2>3 DEF SettleFailure, FailedRow
    <3>3. amount \in Nat /\ (door.ledger \in GuardedLedgers => amount <= Est)
      BY <3>1, Settling, DoorFacts, EstAssumption DEF GuardedLedgers
    <3>4. "failed" \in Status \ {"pending"}
      BY DEF Status
    <3> HIDE DEF amount
    <3> QED BY <3>1, <3>2, <3>3, <3>4, SettleKeepsLimit
  <2> QED BY <1>1, <1>2, <2>1, <2>2, <2>3
          DEF Step, Look, Refuse, Overrun, SettleFails, ClearRateLimitStop, Put,
              Answer, Raise
<1> QED BY <1>1, <1>2 DEF PaidNext, Crash, Restart, paidVars

\* Rows are held by one call each, and what is said of them below follows.
THEOREM PaidInvariant == PaidSpec => []PaidInv
<1> QED BY InitInv, NextInv, PTL DEF PaidSpec

\* The ledger's state is well formed, for every number of calls and crashes
\* (app/answer_plan/budget.py:27).
THEOREM PaidTypeCorrect == PaidSpec => []PaidTypeOK
<1>1. PaidInv => PaidTypeOK
  BY DEF PaidInv
<1> QED BY <1>1, PaidInvariant, PTL

\* No bill under its reservation is ever counted at less than it is
\* (app/claim_grounding/backends.py:222).
THEOREM BillsAreCovered == PaidSpec => []BillIsCovered
<1>1. PaidInv => BillIsCovered
  BY DEF PaidInv
<1> QED BY <1>1, PaidInvariant, PTL

\* The plan, claim and depth ledgers stay under their cap whatever the bills are,
\* R2Budget with what is paid, the ch15 ledgers while no bill is over its estimate
\* (app/answer_plan/budget.py:93, 150).
THEOREM LedgersStayWithinLimit == PaidSpec => []WithinLimit
<1>1. PaidInit => WithinLimit
  BY NothingCommitted, LimitAssumption DEF PaidInit, WithinLimit
<1> QED BY <1>1, LimitNext, PaidInvariant, PTL DEF PaidSpec

\* Only the last row of the serial ledger can be outstanding
\* (scripts/ch15_paid_guard.py:294).
THEOREM OneCallOutstanding == PaidSpec => []OneCallAtATime
<1>1. PaidInv => OneCallAtATime
  BY DEF PaidInv
<1> QED BY <1>1, PaidInvariant, PTL

\* A stopped run stays stopped (scripts/ch15_paid_guard.py:286, 372).
THEOREM StoppedForGood == PaidSpec => StopIsFinal
<1> DEFINE Kept == door.ledger \in {"ch15", "multi"} /\ stop # "none" =>
                     stop' = stop /\ Len(rows') = Len(rows)
<1>1. ASSUME PaidInv, [PaidNext]_paidVars PROVE Kept \/ UNCHANGED <<stop, rows>>
  <2> SUFFICES ASSUME door.ledger \in {"ch15", "multi"}, stop # "none"
               PROVE  stop' = stop /\ Len(rows') = Len(rows)
    OBVIOUS
  <2>1. ASSUME NEW c \in Caller, Step(c) PROVE stop' = stop /\ Len(rows') = Len(rows)
    <3>1. ~(\E bill \in Bill : Reserve(c, bill))
      BY DEF Reserve, Reserves, Ch15Reserves, ConcurrentReserves, GuardedLedgers
    <3>2. ~ClearRateLimitStop(c)
      BY <1>1 DEF ClearRateLimitStop, PaidInv, ClearsOnlyAdaptive
    <3>3. CASE SettleAnswer(c) \/ SettleFailure(c)
      <4>1. PICK i, status, amount : rows' = SettledRow(i, status, amount)
        BY <3>3 DEF SettleAnswer, SettleFailure, AnsweredRow, FailedRow
      <4>2. Len(rows') = Len(rows)
        BY <4>1 DEF SettledRow, PaidInv, PaidTypeOK
      <4> QED BY <3>3, <4>2 DEF SettleAnswer, SettleFailure, Stopped
    <3> QED BY <2>1, <3>1, <3>2, <3>3
            DEF Step, Look, Refuse, Overrun, SettleFails, Put, Answer, Raise
  <2> QED BY <2>1, <1>1 DEF PaidNext, Crash, Restart, paidVars
<1> QED BY <1>1, PaidInvariant, PTL DEF PaidSpec, StopIsFinal

\* A settled row is never settled again (scripts/answer_quality_depth/budget.py:110).
THEOREM RowsSettleOnce == PaidSpec => SettledOnce
<1> DEFINE Kept == \A i \in DOMAIN rows : rows[i].status # "pending" => rows'[i] = rows[i]
<1>1. ASSUME PaidInv, [PaidNext]_paidVars PROVE Kept \/ UNCHANGED rows
  <2>0. rows \in Seq(Row)
    BY <1>1 DEF PaidInv, PaidTypeOK
  <2>1. ASSUME NEW c \in Caller, Step(c) PROVE Kept \/ UNCHANGED rows
    <3>1. CASE \E bill \in Bill : Reserve(c, bill)
      BY <3>1, <2>0 DEF Reserve
    <3>2. CASE SettleAnswer(c) \/ SettleFailure(c)
      <4>1. rows[caller[c].row].status = "pending"
        BY <3>2, <1>1 DEF SettleAnswer, SettleFailure, Open, PaidInv, RowLinks
      <4>2. PICK status, amount : rows' = SettledRow(caller[c].row, status, amount)
        BY <3>2 DEF SettleAnswer, SettleFailure, AnsweredRow, FailedRow
      <4> QED BY <4>1, <4>2, <2>0 DEF SettledRow
    <3> QED BY <2>1, <3>1, <3>2 DEF Step, Look, Refuse, Overrun, SettleFails,
               ClearRateLimitStop, Put, Answer, Raise
  <2> QED BY <2>1, <1>1 DEF PaidNext, Crash, Restart, paidVars
<1> QED BY <1>1, PaidInvariant, PTL DEF PaidSpec, SettledOnce

-----------------------------------------------------------------------------
(* The meters of an evaluation.                                            *)

ReplayKind == {x.kind : x \in Wrappers} \cup {NoKind}

TrackerPc ==
  {"down", "idle", "guarded", "answered", "inner", "record", "recorded", "add", "added", "keep"}

TrackerRow ==
  [pc : TrackerPc, req : Request \cup {NoRequest}, open : BOOLEAN, replay : ReplayKind, spent : Nat, seen : Nat]

AttemptState == {"pending", "cache_hit", "failed", "succeeded"}

\* A worktree: its tracker t, attempts a, journal j and what was paid p, with
\* wrappers u.  A request that was paid for is in the journal, or the process is
\* about to put it there, or it ended and left its attempt pending.
CallsKept(u, t, a, j, p) ==
  /\ t \in TrackerRow /\ a \in Seq(AttemptState)
  /\ j \in SUBSET Request /\ p \in [Request -> Nat]
  /\ t.pc \notin {"down", "idle"} => t.req \in Request
  /\ t.open => Len(a) > 0
  /\ t.pc \in {"guarded", "answered"} => t.open /\ a[Len(a)] = "pending"
  /\ \A r \in Request : u[r].journaled =>
       /\ p[r] <= 1
       /\ \/ p[r] = 0 \/ r \in j
          \/ t.pc = "answered" /\ t.req = r
          \/ t.pc = "down" /\ \E i \in DOMAIN a : a[i] = "pending"

Kept(w) == CallsKept(using, tracker[w], attempts[w], results[w], paid[w])

KeptNext(w) == CallsKept(using, tracker'[w], attempts'[w], results'[w], paid'[w])

CostTables ==
  /\ using \in [Request -> Wrappers]
  /\ booked \in Nat
  /\ attempts = [w \in Worktree |-> attempts[w]]
  /\ results = [w \in Worktree |-> results[w]]
  /\ tracker = [w \in Worktree |-> tracker[w]]
  /\ paid = [w \in Worktree |-> paid[w]]

CostInv ==
  /\ CostTables
  /\ \A w \in Worktree : Kept(w)
  /\ LedgerWithinLimit

\* One worktree moves, and what it makes of its files is sound.
MovesSoundly(w) ==
  /\ tracker' = [tracker EXCEPT ![w] = tracker'[w]]
  /\ attempts' = [attempts EXCEPT ![w] = attempts'[w]]
  /\ results' = [results EXCEPT ![w] = results'[w]]
  /\ paid' = [paid EXCEPT ![w] = paid'[w]]
  /\ KeptNext(w)

LEMMA CloseKeepsAttempts ==
  ASSUME CostTables, NEW w \in Worktree, Kept(w),
         NEW status \in AttemptState
  PROVE  /\ Closed(w, status) = [attempts EXCEPT ![w] = Closed(w, status)[w]]
         /\ Closed(w, status)[w] \in Seq(AttemptState)
<1>1. CASE tracker[w].open
  <2>1. Len(attempts[w]) \in DOMAIN attempts[w] /\ attempts[w] \in Seq(AttemptState)
    BY <1>1, LenProperties DEF Kept, CallsKept
  <2>2. [attempts[w] EXCEPT ![Len(attempts[w])] = status] \in Seq(AttemptState)
    BY <2>1, ExceptSeq
  <2> QED BY <1>1, <2>2 DEF Closed, CostTables
<1>2. CASE ~tracker[w].open
  BY <1>2 DEF Closed, CostTables, Kept, CallsKept
<1> QED BY <1>1, <1>2

LEMMA OpenTrackerSound ==
  ASSUME CostTables, NEW w \in Worktree, Kept(w), OpenTracker(w) PROVE MovesSoundly(w)
<1> USE DEF CostTables
<1>1. tracker'[w] = Tracker("idle", booked) /\ attempts' = attempts /\ results' = results
        /\ paid' = paid
  BY DEF OpenTracker
<1>2. tracker'[w] \in TrackerRow /\ tracker'[w].pc = "idle" /\ ~tracker'[w].open
  BY <1>1 DEF Tracker, TrackerRow, TrackerPc, ReplayKind
<1>3. KeptNext(w)
  BY <1>1, <1>2 DEF KeptNext, Kept, CallsKept, OpenTracker, SafeToResume, PendingIn, In
<1> QED BY <1>1, <1>3 DEF MovesSoundly, OpenTracker

LEMMA FallSound ==
  ASSUME CostTables, NEW w \in Worktree, Kept(w), Fall(w) PROVE MovesSoundly(w)
<1> USE DEF CostTables
<1>1. tracker'[w] = Down /\ attempts' = attempts /\ results' = results /\ paid' = paid
  BY DEF Fall
<1>2. tracker'[w] \in TrackerRow /\ tracker'[w].pc = "down" /\ ~tracker'[w].open
  BY <1>1 DEF Down, Tracker, TrackerRow, TrackerPc, ReplayKind
<1>3. tracker[w].pc = "answered" => \E i \in DOMAIN attempts[w] : attempts[w][i] = "pending"
  BY DEF Kept, CallsKept
<1>4. KeptNext(w)
  BY <1>1, <1>2, <1>3 DEF KeptNext, Kept, CallsKept, Fall, In
<1> QED BY <1>1, <1>4 DEF MovesSoundly, Fall

LEMMA GuardSound ==
  ASSUME CostTables, NEW w \in Worktree, Kept(w), NEW r \in Request, Guard(w, r)
  PROVE  MovesSoundly(w)
<1> USE DEF CostTables
<1> DEFINE a == Append(attempts[w], "pending")
<1>1. /\ tracker'[w] = [tracker[w] EXCEPT !.pc = "guarded", !.req = r, !.open = TRUE]
      /\ attempts'[w] = a /\ results' = results /\ paid' = paid
      /\ tracker[w].pc = "idle" /\ tracker[w] \in TrackerRow
  BY DEF Guard, In, Kept, CallsKept
<1>2. a \in Seq(AttemptState) /\ Len(a) > 0 /\ a[Len(a)] = "pending"
  BY AppendProperties DEF Kept, CallsKept, AttemptState
<1>3. tracker'[w] \in TrackerRow /\ tracker'[w].pc = "guarded" /\ tracker'[w].open
        /\ tracker'[w].req = r
  BY <1>1 DEF TrackerRow, TrackerPc
<1> HIDE DEF a
<1>4. KeptNext(w)
  BY <1>1, <1>2, <1>3 DEF KeptNext, Kept, CallsKept
<1> QED BY <1>1, <1>4 DEF MovesSoundly, Guard

\* Once the answer is in the journal, or the wrapper keeps none there, a step of
\* the tracker and of its attempts takes nothing back.
LEMMA LaterSound ==
  ASSUME CostTables, NEW w \in Worktree, Kept(w), tracker[w].pc \notin {"down", "answered"},
         tracker'[w] \in TrackerRow, tracker'[w].pc \notin {"down", "guarded", "answered"},
         tracker'[w].req = tracker[w].req \/ tracker'[w].pc = "idle",
         tracker[w].pc # "idle",
         attempts'[w] \in Seq(AttemptState), tracker'[w].open => Len(attempts'[w]) > 0,
         results' = results, paid' = paid
  PROVE  KeptNext(w)
BY DEF CostTables, KeptNext, Kept, CallsKept

LEMMA ClosedLen ==
  ASSUME CostTables, NEW w \in Worktree, Kept(w), NEW status \in AttemptState
  PROVE  Len(Closed(w, status)[w]) = Len(attempts[w])
<1>1. CASE tracker[w].open
  BY <1>1, LenProperties DEF Closed, CostTables, Kept, CallsKept
<1>2. CASE ~tracker[w].open
  BY <1>2 DEF Closed, CostTables, Kept, CallsKept
<1> QED BY <1>1, <1>2

\* FailAttempt and Raises, from any step of a call but the one that has an
\* answer to put.
LEMMA FailAttemptSound ==
  ASSUME CostTables, NEW w \in Worktree, Kept(w), NEW spent \in Nat,
         tracker[w].pc \notin {"down", "idle", "answered"},
         FailAttempt(w, spent), results' = results, paid' = paid
  PROVE  MovesSoundly(w)
<1>1. tracker'[w] = [Tracker("idle", tracker[w].seen) EXCEPT !.spent = spent]
  BY DEF FailAttempt, CostTables
<1>2. tracker'[w] \in TrackerRow /\ tracker'[w].pc = "idle" /\ ~tracker'[w].open
  BY <1>1 DEF Tracker, TrackerRow, TrackerPc, ReplayKind, Kept, CallsKept
<1>3. attempts' = [attempts EXCEPT ![w] = attempts'[w]] /\ attempts'[w] \in Seq(AttemptState)
  BY CloseKeepsAttempts DEF FailAttempt, AttemptState
<1>4. KeptNext(w)
  BY <1>2, <1>3, LaterSound
<1> QED BY <1>3, <1>4 DEF MovesSoundly, FailAttempt, CostTables

LEMMA RaisesSound ==
  ASSUME CostTables, NEW w \in Worktree, Kept(w), NEW spent \in Nat,
         tracker[w].pc \notin {"down", "idle", "answered"},
         Raises(w, spent), attempts' = attempts, results' = results, paid' = paid
  PROVE  MovesSoundly(w)
<1>0. "idle" \in TrackerPc
  BY DEF TrackerPc
<1>1. tracker'[w] = [tracker[w] EXCEPT !.pc = "idle", !.req = NoRequest, !.spent = spent]
        /\ tracker[w] \in TrackerRow
  BY DEF Raises, CostTables, Kept, CallsKept
<1>2. tracker'[w] \in TrackerRow /\ tracker'[w].pc = "idle" /\ tracker'[w].open = tracker[w].open
  BY <1>0, <1>1 DEF TrackerRow
<1>3. KeptNext(w)
  BY <1>2, LaterSound DEF Kept, CallsKept
<1> QED BY <1>3 DEF MovesSoundly, Raises, CostTables

\* A step within a call that leaves the files alone.
LEMMA InCallSound ==
  ASSUME CostTables, NEW w \in Worktree, Kept(w),
         tracker[w].pc \notin {"down", "idle", "answered"},
         NEW pc \in {"inner", "record", "recorded", "add", "added", "keep"},
         NEW replay \in ReplayKind, NEW spent \in Nat, NEW seen \in Nat,
         tracker' = [tracker EXCEPT ![w] =
           [@ EXCEPT !.pc = pc, !.replay = replay, !.spent = spent, !.seen = seen]],
         attempts' = attempts, results' = results, paid' = paid
  PROVE  MovesSoundly(w)
<1>0. pc \in TrackerPc
  BY DEF TrackerPc
<1>1. tracker'[w] = [tracker[w] EXCEPT !.pc = pc, !.replay = replay, !.spent = spent, !.seen = seen]
        /\ tracker[w] \in TrackerRow
  BY DEF CostTables, Kept, CallsKept
<1>2. tracker'[w] \in TrackerRow /\ tracker'[w].pc = pc /\ tracker'[w].open = tracker[w].open
        /\ tracker'[w].req = tracker[w].req
  <2>1. PICK t \in TrackerRow : t = tracker[w]
    BY <1>1
  <2>2. tracker'[w] = [t EXCEPT !.pc = pc, !.replay = replay, !.spent = spent, !.seen = seen]
    BY <1>1, <2>1
  <2>3. tracker'[w] \in TrackerRow
    BY ONLY <1>0, <2>2, t \in TrackerRow, replay \in ReplayKind, spent \in Nat, seen \in Nat
    DEF TrackerRow
  <2>4. tracker'[w].pc = pc /\ tracker'[w].open = t.open /\ tracker'[w].req = t.req
    BY ONLY <2>2, t \in TrackerRow DEF TrackerRow
  <2> QED BY <2>1, <2>3, <2>4
<1>3. KeptNext(w)
  BY <1>2, LaterSound DEF Kept, CallsKept
<1> QED BY <1>3 DEF MovesSoundly, CostTables

\* One that closes the attempt.
LEMMA ClosingSound ==
  ASSUME CostTables, NEW w \in Worktree, Kept(w),
         tracker[w].pc \notin {"down", "idle", "answered"},
         NEW pc \in {"inner", "keep"}, NEW replay \in ReplayKind, NEW status \in AttemptState,
         tracker' = [tracker EXCEPT ![w] =
           [@ EXCEPT !.open = FALSE, !.replay = replay, !.pc = pc]],
         attempts' = Closed(w, status), results' = results, paid' = paid
  PROVE  MovesSoundly(w)
<1>0. pc \in TrackerPc
  BY DEF TrackerPc
<1>1. tracker'[w] = [tracker[w] EXCEPT !.open = FALSE, !.replay = replay, !.pc = pc]
        /\ tracker[w] \in TrackerRow
  BY DEF CostTables, Kept, CallsKept
<1>2. tracker'[w] \in TrackerRow /\ tracker'[w].pc = pc /\ ~tracker'[w].open
        /\ tracker'[w].req = tracker[w].req
  <2>1. PICK t \in TrackerRow : t = tracker[w]
    BY <1>1
  <2>2. tracker'[w] = [t EXCEPT !.open = FALSE, !.replay = replay, !.pc = pc]
    BY <1>1, <2>1
  <2>3. tracker'[w] \in TrackerRow
    BY ONLY <1>0, <2>2, t \in TrackerRow, replay \in ReplayKind DEF TrackerRow
  <2>4. tracker'[w].pc = pc /\ ~tracker'[w].open /\ tracker'[w].req = t.req
    BY ONLY <2>2, t \in TrackerRow DEF TrackerRow
  <2> QED BY <2>1, <2>3, <2>4
<1>3. attempts' = [attempts EXCEPT ![w] = attempts'[w]] /\ attempts'[w] \in Seq(AttemptState)
  BY CloseKeepsAttempts
<1>4. KeptNext(w)
  BY <1>2, <1>3, LaterSound
<1> QED BY <1>3, <1>4 DEF MovesSoundly, CostTables

LEMMA UsedKind ==
  ASSUME CostTables, NEW w \in Worktree, Kept(w), tracker[w].pc \notin {"down", "idle"}
  PROVE  Used(w).kind \in ReplayKind
BY DEF CostTables, Used, Kept, CallsKept, ReplayKind

LEMMA MarkCacheHitSound ==
  ASSUME CostTables, NEW w \in Worktree, Kept(w), MarkCacheHit(w) PROVE MovesSoundly(w)
<1>1. PICK pc \in {"inner", "keep"} : pc = IF Used(w).adds = "live" THEN "keep" ELSE "inner"
  OBVIOUS
<1>2. PICK kind \in ReplayKind : kind = Used(w).kind
  BY UsedKind DEF MarkCacheHit, In
<1>3. tracker' = [tracker EXCEPT ![w] =
                    [@ EXCEPT !.open = FALSE, !.replay = kind, !.pc = pc]]
  BY <1>1, <1>2 DEF MarkCacheHit
<1>4. tracker[w].pc \notin {"down", "idle", "answered"} /\ attempts' = Closed(w, "cache_hit")
        /\ results' = results /\ paid' = paid /\ "cache_hit" \in AttemptState
  BY DEF MarkCacheHit, In, AttemptState
<1> QED BY <1>3, <1>4, ClosingSound

LEMMA CloseAttemptSound ==
  ASSUME CostTables, NEW w \in Worktree, Kept(w), CloseAttempt(w) PROVE MovesSoundly(w)
<1>1. PICK pc \in {"inner", "keep"} : pc = IF In(w, "recorded") THEN "inner" ELSE "keep"
  OBVIOUS
<1>2. Used(w).kind \in ReplayKind /\ tracker[w].replay \in ReplayKind
  BY UsedKind DEF CloseAttempt, Kept, CallsKept, TrackerRow
<1>3. PICK kind \in ReplayKind :
        kind = IF In(w, "recorded") THEN Used(w).kind ELSE tracker[w].replay
  BY <1>2
<1>4. tracker' = [tracker EXCEPT ![w] =
                    [@ EXCEPT !.open = FALSE, !.replay = kind, !.pc = pc]]
  BY <1>1, <1>3 DEF CloseAttempt, CostTables
<1>5. tracker[w].pc \notin {"down", "idle", "answered"} /\ attempts' = Closed(w, "succeeded")
        /\ results' = results /\ paid' = paid /\ "succeeded" \in AttemptState
  BY DEF CloseAttempt, AttemptState
<1> QED BY <1>4, <1>5, ClosingSound

LEMMA BookSound ==
  ASSUME CostTables, NEW w \in Worktree, Kept(w), Book(w) PROVE MovesSoundly(w)
<1>1. tracker[w] \in TrackerRow /\ tracker[w].pc \notin {"down", "idle", "answered"}
        /\ booked' \in Nat
  BY DEF Book, Booking, Kept, CallsKept, CostTables
<1>2. PICK pc \in {"inner", "record", "recorded", "add", "added", "keep"} :
        pc = IF In(w, "record") THEN "recorded" ELSE "added"
  OBVIOUS
<1>3. PICK spent \in Nat, replay \in ReplayKind :
        spent = tracker[w].spent + 1 /\ replay = tracker[w].replay
  BY <1>1 DEF TrackerRow
<1>4. tracker' = [tracker EXCEPT ![w] =
           [@ EXCEPT !.pc = pc, !.replay = replay, !.spent = spent, !.seen = booked']]
  BY <1>1, <1>2, <1>3 DEF Book, TrackerRow, CostTables
<1>5. attempts' = attempts /\ results' = results /\ paid' = paid
  BY DEF Book
<1> QED BY <1>1, <1>4, <1>5, InCallSound

LEMMA SkipAddSound ==
  ASSUME CostTables, NEW w \in Worktree, Kept(w), SkipAdd(w) PROVE MovesSoundly(w)
<1>1. tracker[w] \in TrackerRow /\ tracker[w].pc \notin {"down", "idle", "answered"}
  BY DEF SkipAdd, Booking, Kept, CallsKept
<1>2. PICK pc \in {"inner", "record", "recorded", "add", "added", "keep"} :
        pc = IF In(w, "record") THEN "inner" ELSE "keep"
  OBVIOUS
<1>3. PICK spent \in Nat, seen \in Nat, replay \in ReplayKind :
        /\ spent = tracker[w].spent /\ seen = tracker[w].seen
        /\ replay = IF In(w, "record") THEN tracker[w].replay ELSE NoKind
  BY <1>1 DEF TrackerRow, ReplayKind
<1>4. tracker' = [tracker EXCEPT ![w] =
           [@ EXCEPT !.pc = pc, !.replay = replay, !.spent = spent, !.seen = seen]]
  BY <1>1, <1>2, <1>3 DEF SkipAdd, TrackerRow, CostTables
<1>5. attempts' = attempts /\ results' = results /\ paid' = paid
  BY DEF SkipAdd
<1> QED BY <1>1, <1>4, <1>5, InCallSound

LEMMA InnerReturnsSound ==
  ASSUME CostTables, NEW w \in Worktree, Kept(w), InnerReturns(w) PROVE MovesSoundly(w)
<1>1. tracker[w] \in TrackerRow /\ tracker[w].pc \notin {"down", "idle", "answered"}
  BY DEF InnerReturns, In, Kept, CallsKept
<1>2. PICK pc \in {"inner", "record", "recorded", "add", "added", "keep"} :
        pc = IF Used(w).adds = "never" THEN "keep" ELSE "add"
  OBVIOUS
<1>3. PICK spent \in Nat, seen \in Nat, replay \in ReplayKind :
        spent = tracker[w].spent /\ seen = tracker[w].seen /\ replay = tracker[w].replay
  BY <1>1 DEF TrackerRow
<1>4. tracker' = [tracker EXCEPT ![w] =
           [@ EXCEPT !.pc = pc, !.replay = replay, !.spent = spent, !.seen = seen]]
  BY <1>1, <1>2, <1>3 DEF InnerReturns, To, TrackerRow, CostTables
<1> QED BY <1>1, <1>4, InCallSound DEF InnerReturns

\* The provider answers: the request was not in the journal, so it is the first
\* time that it is paid for.
LEMMA ProvideSound ==
  ASSUME CostTables, NEW w \in Worktree, Kept(w), Provide(w) PROVE MovesSoundly(w)
<1> DEFINE q == tracker[w].req
           p == [paid[w] EXCEPT ![q] = @ + 1]
<1>1. /\ tracker[w] \in TrackerRow /\ tracker[w].pc = "guarded" /\ q \in Request
      /\ paid[w] \in [Request -> Nat]
  BY DEF Provide, In, Kept, CallsKept
<1>2. PICK pc \in {"answered", "inner"} : pc = IF using[q].journaled THEN "answered" ELSE "inner"
  OBVIOUS
<1>3. tracker'[w] = [tracker[w] EXCEPT !.pc = pc] /\ paid'[w] = p /\ attempts' = attempts
        /\ results' = results
  BY <1>1, <1>2 DEF Provide, To, Used, CostTables
<1>4. /\ tracker'[w] \in TrackerRow /\ tracker'[w].pc = pc
      /\ tracker'[w].open = tracker[w].open /\ tracker'[w].req = q
  BY <1>1, <1>3 DEF TrackerRow, TrackerPc
<1>5. p \in [Request -> Nat]
  BY <1>1
<1>6. ASSUME NEW r \in Request, using[r].journaled
      PROVE  p[r] <= 1 /\ (p[r] = 0 \/ r \in results[w] \/ (pc = "answered" /\ q = r))
  <2>1. CASE r = q
    <3>1. q \notin results[w]
      BY <1>6, <2>1 DEF Provide, InJournal, Used
    <3>2. paid[w][q] = 0
      BY <1>1, <1>6, <2>1, <3>1 DEF Kept, CallsKept
    <3> QED BY <1>1, <1>2, <1>6, <2>1, <3>2
  <2>2. CASE r # q
    <3>1. p[r] = paid[w][r]
      BY <1>1, <2>2
    <3>2. paid[w][r] <= 1 /\ (paid[w][r] = 0 \/ r \in results[w])
      BY <1>1, <1>6 DEF Kept, CallsKept
    <3> HIDE DEF p
    <3> QED BY <3>1, <3>2
  <2> QED BY <2>1, <2>2
<1> HIDE DEF p
<1>7. KeptNext(w)
  BY <1>1, <1>2, <1>3, <1>4, <1>5, <1>6 DEF KeptNext, Kept, CallsKept
<1> QED BY <1>3, <1>7 DEF MovesSoundly, Provide, To, CostTables

LEMMA PutResultSound ==
  ASSUME CostTables, NEW w \in Worktree, Kept(w), PutResult(w) PROVE MovesSoundly(w)
<1> DEFINE q == tracker[w].req
<1>1. /\ tracker[w] \in TrackerRow /\ tracker[w].pc = "answered" /\ q \in Request
  BY DEF PutResult, In, Kept, CallsKept
<1>2. PICK pc \in {"record", "inner"} : tracker' = [tracker EXCEPT ![w].pc = pc]
  BY DEF PutResult, To
<1>3. tracker'[w] = [tracker[w] EXCEPT !.pc = pc] /\ paid' = paid /\ attempts' = attempts
        /\ results'[w] = results[w] \cup {q}
  BY <1>1, <1>2 DEF PutResult, CostTables
<1>4. /\ tracker'[w] \in TrackerRow /\ tracker'[w].pc = pc
      /\ tracker'[w].open = tracker[w].open /\ tracker'[w].req = q
  BY <1>1, <1>3 DEF TrackerRow, TrackerPc
<1>5. KeptNext(w)
  BY <1>1, <1>2, <1>3, <1>4 DEF KeptNext, Kept, CallsKept
<1> QED BY <1>2, <1>3, <1>5 DEF MovesSoundly, PutResult, CostTables

LEMMA CallSound ==
  ASSUME CostTables, NEW w \in Worktree, Kept(w),
         ProviderFails(w) \/ Garbled(w) \/ OverLimit(w) \/ PutExact(w)
  PROVE  MovesSoundly(w)
<1>1. tracker[w] \in TrackerRow /\ tracker[w].pc \notin {"down", "idle", "answered"}
        /\ results' = results /\ paid' = paid
  BY DEF ProviderFails, Garbled, OverLimit, PutExact, In, Booking, Kept, CallsKept
<1>2. tracker[w].spent \in Nat /\ tracker[w].spent + 1 \in Nat
  BY <1>1 DEF TrackerRow
<1>3. \E spent \in {tracker[w].spent, tracker[w].spent + 1} :
        FailAttempt(w, spent) \/ (Raises(w, spent) /\ attempts' = attempts)
  BY DEF ProviderFails, Garbled, OverLimit, PutExact
<1> QED BY <1>1, <1>2, <1>3, FailAttemptSound, RaisesSound

LEMMA CostSteps ==
  ASSUME CostTables, \A w \in Worktree : Kept(w), CostNext
  PROVE  \E w \in Worktree : MovesSoundly(w)
<1>1. PICK w \in Worktree :
        \/ OpenTracker(w) \/ Fall(w)
        \/ \E r \in Request : Guard(w, r)
        \/ MarkCacheHit(w) \/ Provide(w) \/ ProviderFails(w) \/ PutResult(w)
        \/ InnerReturns(w) \/ Garbled(w) \/ SkipAdd(w) \/ Book(w) \/ OverLimit(w)
        \/ CloseAttempt(w) \/ PutExact(w)
  BY DEF CostNext
<1>2. Kept(w)
  OBVIOUS
<1>3. MovesSoundly(w)
  BY <1>1, <1>2, OpenTrackerSound, FallSound, GuardSound, MarkCacheHitSound, ProvideSound,
     PutResultSound, InnerReturnsSound, SkipAddSound, BookSound, CloseAttemptSound, CallSound
<1> QED BY <1>3

\* record reads the ledger again under its lock.
LEMMA BookedStays ==
  ASSUME CostTables, CostNext
  PROVE  using' = using /\ booked' \in Nat /\ (booked' = booked \/ booked' <= LedgerLimit)
<1>1. \/ using' = using /\ booked' = booked
      \/ \E w \in Worktree : Book(w)
  BY ZenonT(30) DEF CostNext, OpenTracker, Fall, Guard, MarkCacheHit, Provide, ProviderFails,
         PutResult, InnerReturns, Garbled, SkipAdd, OverLimit, CloseAttempt, PutExact
<1>2. ASSUME NEW w \in Worktree, Book(w)
      PROVE  using' = using /\ booked' \in Nat /\ booked' <= LedgerLimit
  BY <1>2 DEF Book, Within, Fits, CostTables
<1> QED BY <1>1, <1>2 DEF CostTables

LEMMA CostInvInit == CostInit => CostInv
<1> SUFFICES ASSUME CostInit PROVE CostInv
  OBVIOUS
<1>1. Down \in TrackerRow /\ Down.pc = "down" /\ ~Down.open
  BY DEF Down, Tracker, TrackerRow, TrackerPc, ReplayKind
<1>2. CostTables
  BY UsesAssumption DEF CostInit, CostTables
<1>3. ASSUME NEW w \in Worktree PROVE Kept(w)
  BY <1>1 DEF CostInit, Kept, CallsKept
<1> QED BY <1>2, <1>3, LimitsAssumption DEF CostInv, LedgerWithinLimit, CostInit

LEMMA CostInvNext == CostInv /\ [CostNext]_costVars => CostInv'
<1> SUFFICES ASSUME CostInv, [CostNext]_costVars PROVE CostInv'
  OBVIOUS
<1>1. CASE CostNext
  <2>1. PICK w \in Worktree : MovesSoundly(w)
    BY <1>1, CostSteps DEF CostInv
  <2>2. using' = using /\ booked' \in Nat /\ (booked' = booked \/ booked' <= LedgerLimit)
    BY <1>1, BookedStays DEF CostInv
  <2>3. CostTables'
    BY <2>1, <2>2 DEF CostInv, CostTables, MovesSoundly
  <2>4. ASSUME NEW v \in Worktree PROVE KeptNext(v)
    <3>1. CASE v = w
      BY <2>1, <3>1 DEF MovesSoundly
    <3>2. CASE v # w
      <4>1. /\ tracker'[v] = tracker[v] /\ attempts'[v] = attempts[v]
            /\ results'[v] = results[v] /\ paid'[v] = paid[v]
        BY <2>1, <3>2 DEF MovesSoundly, CostInv, CostTables
      <4> QED BY <4>1 DEF CostInv, Kept, KeptNext
    <3> QED BY <3>1, <3>2
  <2>5. ASSUME NEW v \in Worktree PROVE Kept(v)'
    BY <2>2, <2>4 DEF Kept, KeptNext
  <2> QED BY <2>2, <2>3, <2>5, LimitsAssumption DEF CostInv, CostTables, LedgerWithinLimit
<1>2. CASE UNCHANGED costVars
  BY <1>2 DEF costVars, CostInv, CostTables, Kept, LedgerWithinLimit
<1> QED BY <1>1, <1>2

\* The inductive invariant of the evaluation calls.
THEOREM CostInvariant == CostSpec => []CostInv
BY CostInvInit, CostInvNext, PTL DEF CostSpec

\* For any worktrees, wrappers and limits, wherever processes end: the provider
\* answers a journaled request once in a worktree, and the ledger that all of
\* them share stays under its limit.
THEOREM LedgersHold == CostSpec => []LedgerHolds
<1>1. CostInv => LedgerHolds
  BY DEF CostInv, Kept, CallsKept, LedgerHolds, PaidOnce
<1> QED BY <1>1, CostInvariant, PTL

=============================================================================
