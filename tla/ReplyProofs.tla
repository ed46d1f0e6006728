------------------------------ MODULE ReplyProofs ------------------------------
(***************************************************************************)
(* Proofs about the layers of a conversation that a turn is shown, the     *)
(* graph that answers it and its controlled retrieval loop: the history    *)
(* fits the window and is summarised once; for any numbers of turns,       *)
(* rounds, queries and tokens the loop releases only what its gate passed, *)
(* an answer is made from what its own turn fetched, and one that a        *)
(* verifier let through is backed by the evidence it cites.  The           *)
(* thresholds of that gate keep out the hard negatives that they were      *)
(* calibrated on.                                                          *)
(***************************************************************************)
EXTENDS ConversationLayers, ChatGraph, AnswerVerification, EvidenceGate, Retrieval,
        AnswerPlan, FiniteSetTheorems, SequenceTheorems, WellFoundedInduction, TLAPS

-----------------------------------------------------------------------------
(* Numbers.                                                                *)

\* A set of integers that is bounded from below has a least one.
LEMMA LeastOfBounded ==
  ASSUME NEW S, S \subseteq Int, S # {}, NEW b \in Int, \A x \in S : b <= x
  PROVE  Min(S) \in S /\ \A x \in S : Min(S) <= x
<1> DEFINE Upto(n) == 0 .. n
           T == {Upto(x - b) : x \in S}
           R == StrictSubsetOrdering(Nat)
<1>1. T \subseteq FiniteSubsetsOf(Nat) /\ T # {}
  <2>1. \A n \in Nat : Upto(n) \in SUBSET Nat /\ IsFiniteSet(Upto(n))
    BY FS_Interval
  <2>2. \A x \in S : x - b \in Nat
    OBVIOUS
  <2> QED
    BY <2>1, <2>2 DEF FiniteSubsetsOf
<1>2. IsWellFoundedOn(R, FiniteSubsetsOf(Nat))
  BY FS_StrictSubsetOrderingWellFounded
<1>3. PICK t \in T : \A y \in T : ~(<<y, t>> \in R)
  <2> HIDE DEF T, R
  <2> QED
    BY <1>1, <1>2, WFMin
<1>4. PICK m \in S : t = Upto(m - b)
  OBVIOUS
<1>5. ASSUME NEW x \in S PROVE m <= x
  <2> SUFFICES ASSUME x < m PROVE FALSE
    OBVIOUS
  <2>1. x - b \in Nat /\ m - b \in Nat /\ x - b < m - b
    OBVIOUS
  <2>2. <<Upto(x - b), t>> \in R
    <3> PICK i \in Nat, j \in Nat : i = x - b /\ j = m - b
      BY <2>1
    <3>1. Upto(i) \subseteq Upto(j) /\ j \in Upto(j) /\ j \notin Upto(i) /\ Upto(j) \subseteq Nat
      BY <2>1
    <3> QED BY <3>1, <1>4 DEF StrictSubsetOrdering
  <2> QED BY <1>3, <2>2
<1> QED BY <1>4, <1>5 DEF Min


\* A set of integers that is bounded from above has a greatest one.
LEMMA GreatestOfBounded ==
  ASSUME NEW S, S \subseteq Int, S # {}, NEW b \in Int, \A x \in S : x <= b
  PROVE  Max(S) \in S /\ \A x \in S : x <= Max(S)
<1> DEFINE N == {-x : x \in S}
<1>1. N \subseteq Int /\ N # {} /\ -b \in Int /\ \A x \in N : -b <= x
  <2>1. \A x \in S : -x \in Int /\ -b <= -x
    OBVIOUS
  <2>2. N \subseteq Int /\ \A x \in N : -b <= x
    BY <2>1
  <2>3. N # {}
    <3>1. PICK x : x \in S
      OBVIOUS
    <3>2. -x \in N
      BY <3>1
    <3> QED BY <3>2
  <2>4. -b \in Int
    OBVIOUS
  <2> QED BY <2>2, <2>3, <2>4
<1>2. Min(N) \in N /\ \A x \in N : Min(N) <= x
  <2> HIDE DEF N
  <2> QED BY <1>1, LeastOfBounded
<1>3. PICK m \in S : Min(N) = -m
  BY <1>2
<1>4. \A x \in S : x <= m
  BY <1>2, <1>3
<1> QED BY <1>4 DEF Max

\* A set with 0 and the successor of each of its numbers has all of them.
LEMMA SuccessorsReach ==
  ASSUME NEW S, 0 \in S, \A n \in Nat : n \in S => n + 1 \in S
  PROVE  Nat \subseteq S
<1> DEFINE Missed == {n \in Nat : n \notin S}
<1> SUFFICES ASSUME Missed # {} PROVE FALSE
  OBVIOUS
<1>1. Missed \subseteq Int /\ 0 \in Int /\ \A x \in Missed : 0 <= x
  OBVIOUS
<1>2. Min(Missed) \in Missed /\ \A x \in Missed : Min(Missed) <= x
  <2> HIDE DEF Missed
  <2> QED BY <1>1, LeastOfBounded
<1>3. PICK n \in Missed : n = Min(Missed)
  BY <1>2
<1>4. n \in Nat \ {0} /\ n - 1 \in Nat /\ n - 1 \notin Missed
  BY <1>2, <1>3
<1> QED BY <1>3, <1>4

\* What tells the running total of a sequence up to its n-th number.
Totals(total, amounts, n) ==
  /\ total \in [0 .. n -> Nat]
  /\ total[0] = 0
  /\ \A m \in 1 .. n : total[m] = total[m - 1] + amounts[m]

LEMMA TotalsExist ==
  ASSUME NEW amounts \in Seq(Nat)
  PROVE  \E total : Totals(total, amounts, Len(amounts))
<1> DEFINE Has(n) == \E total : Totals(total, amounts, n)
           S == {n \in Nat : n <= Len(amounts) => Has(n)}
<1>1. 0 \in S
  <2>1. Totals([n \in 0 .. 0 |-> 0], amounts, 0)
    BY DEF Totals
  <2> QED BY <2>1
<1>2. ASSUME NEW n \in Nat, n \in S PROVE n + 1 \in S
  <2> SUFFICES ASSUME n + 1 <= Len(amounts) PROVE Has(n + 1)
    OBVIOUS
  <2>1. PICK total : Totals(total, amounts, n)
    <3>1. n <= Len(amounts)
      OBVIOUS
    <3> QED BY <1>2, <3>1
  <2> DEFINE longer == [m \in 0 .. (n + 1) |->
                          IF m = n + 1 THEN total[n] + amounts[n + 1] ELSE total[m]]
  <2>2. amounts[n + 1] \in Nat
    OBVIOUS
  <2>3. total \in [0 .. n -> Nat] /\ total[n] \in Nat /\ total[0] = 0
        /\ \A m \in 1 .. n : total[m] = total[m - 1] + amounts[m]
    BY <2>1 DEF Totals
  <2>4. longer \in [0 .. (n + 1) -> Nat] /\ longer[0] = 0
    BY <2>2, <2>3
  <2>5. ASSUME NEW m \in 1 .. (n + 1)
        PROVE  longer[m] = longer[m - 1] + amounts[m]
    <3>1. CASE m = n + 1
      BY <3>1
    <3>2. CASE m # n + 1
      <4>1. m \in 1 .. n /\ m - 1 \in 0 .. n /\ m - 1 # n + 1
        BY <3>2
      <4> QED BY <4>1, <2>3
    <3> QED BY <3>1, <3>2
  <2>6. Totals(longer, amounts, n + 1)
    <3> HIDE DEF longer
    <3> QED BY <2>4, <2>5 DEF Totals
  <2> QED BY <2>6
<1>3. Nat \subseteq S
  <2> HIDE DEF S
  <2> QED BY <1>1, <1>2, SuccessorsReach
<1> QED BY <1>3

\* A total is a number, and that of nothing is 0.
LEMMA TotalIsNumber ==
  ASSUME NEW amounts \in Seq(Nat)
  PROVE  Total(amounts) \in Nat /\ (Len(amounts) = 0 => Total(amounts) = 0)
<1> DEFINE Def(f) == [n \in 0 .. Len(amounts) |->
                        IF n = 0 THEN 0 ELSE f[n - 1] + amounts[n]]
           total == CHOOSE f : f = Def(f)
           S == {n \in Nat : n <= Len(amounts) => total[n] \in Nat}
<1>1. Total(amounts) = total[Len(amounts)]
  BY DEF Total
<1>2. ASSUME NEW f, Totals(f, amounts, Len(amounts)) PROVE f = Def(f)
  BY <1>2 DEF Totals
<1>3. total = Def(total)
  BY <1>2, TotalsExist
<1> HIDE DEF total
<1>4. /\ total[0] = 0
      /\ \A n \in 1 .. Len(amounts) : total[n] = total[n - 1] + amounts[n]
  <2>1. /\ Len(amounts) \in Nat /\ 0 \in 0 .. Len(amounts)
        /\ \A n \in 1 .. Len(amounts) : n \in 0 .. Len(amounts) /\ n # 0
    OBVIOUS
  <2> QED BY <1>3, <2>1
<1> HIDE DEF Def
<1>5. 0 \in S
  BY <1>4
<1>6. ASSUME NEW n \in Nat, n \in S PROVE n + 1 \in S
  <2> SUFFICES ASSUME n + 1 <= Len(amounts) PROVE total[n + 1] \in Nat
    OBVIOUS
  <2>1. n + 1 \in 1 .. Len(amounts) /\ (n + 1) - 1 = n
    OBVIOUS
  <2>2. amounts[n + 1] \in Nat /\ total[n] \in Nat
    BY <1>6
  <2> QED BY <1>4, <2>1, <2>2
<1>7. Nat \subseteq S
  <2> HIDE DEF S
  <2> QED BY <1>5, <1>6, SuccessorsReach
<1> QED BY <1>1, <1>4, <1>7

-----------------------------------------------------------------------------
(* The layers of a conversation.                                           *)

LEMMA BudgetsAreNumbers ==
  /\ Layer1Budget \in Nat /\ Layer2Budget \in Nat /\ Sliding \in Nat
  /\ HeadTokens \in Nat /\ SummaryTokens \in Nat /\ MaxMessages \in Nat /\ Sizes \subseteq Nat
  BY LayersAssumption

LEMMA LesserIsLess ==
  ASSUME NEW a \in Nat, NEW b \in Nat
  PROVE  /\ Lesser(a, b) \in Nat /\ Lesser(a, b) <= a /\ Lesser(a, b) <= b
         /\ Less(a, b) \in Nat /\ (b <= a => Less(a, b) = a - b)
<1>1. Lesser(a, b) \in Nat /\ Lesser(a, b) <= a /\ Lesser(a, b) <= b
  BY DEF Lesser
<1>2. CASE a > b
  BY <1>1, <1>2 DEF Less
<1>3. CASE ~(a > b)
  BY <1>1, <1>3 DEF Less
<1> QED BY <1>2, <1>3

LEMMA TokensAreNumbers ==
  ASSUME NEW rows \in Seq(Message)
  PROVE  /\ Tokens(rows) \in Nat /\ Layer2Tokens(rows) \in Nat
         /\ rows = <<>> => Tokens(rows) = 0 /\ Layer2Tokens(rows) = 0
<1> DEFINE whole == [i \in DOMAIN rows |-> rows[i].tokens]
           heads == [i \in DOMAIN rows |-> Shown(rows[i])]
<1>1. \A i \in DOMAIN rows : rows[i] \in Message
  OBVIOUS
<1>2. \A i \in DOMAIN rows : rows[i].tokens \in Nat /\ Shown(rows[i]) \in Nat
  <2> SUFFICES ASSUME NEW i \in DOMAIN rows
               PROVE  rows[i].tokens \in Nat /\ Shown(rows[i]) \in Nat
    OBVIOUS
  <2>1. rows[i].tokens \in Nat
    BY <1>1, BudgetsAreNumbers DEF Message
  <2>2. PICK most \in Nat : most = HeadTokens + 1
    BY BudgetsAreNumbers
  <2>3. Lesser(rows[i].tokens, most) \in Nat
    BY <2>1, LesserIsLess
  <2> QED BY <2>1, <2>2, <2>3 DEF Shown
<1>3. DOMAIN rows = 1 .. Len(rows) /\ Len(rows) \in Nat
  OBVIOUS
<1>4. whole \in Seq(Nat) /\ Len(whole) = Len(rows)
  BY <1>2, <1>3, SeqDef, LenProperties
<1>5. heads \in Seq(Nat) /\ Len(heads) = Len(rows)
  BY <1>2, <1>3, SeqDef, LenProperties
<1>6. Tokens(rows) = Total(whole) /\ Layer2Tokens(rows) = Total(heads)
  BY DEF Tokens, Layer2Tokens
<1> HIDE DEF whole, heads
<1>7. Len(rows) = 0 <=> rows = <<>>
  BY EmptySeq
<1> QED BY <1>4, <1>5, <1>6, <1>7, TotalIsNumber

\* The rows after an anchor start with a user's message.
StartsRound(rows, anchor) ==
  anchor <= Len(rows) /\ (anchor < Len(rows) => rows[anchor + 1].role = "user")

LEMMA AfterRows ==
  ASSUME NEW rows \in Seq(Message), NEW anchor \in Nat
  PROVE  /\ After(rows, anchor) \in Seq(Message)
         /\ anchor >= Len(rows) => After(rows, anchor) = <<>>
         /\ anchor <= Len(rows) => Len(After(rows, anchor)) = Len(rows) - anchor
         /\ \A i \in 1 .. Len(rows) - anchor : After(rows, anchor)[i] = rows[anchor + i]
<1>1. \A i \in (anchor + 1) .. Len(rows) : rows[i] \in Message
  OBVIOUS
<1>2. Len(rows) \in Nat /\ anchor + 1 \in Int
  OBVIOUS
<1>3. /\ SubSeq(rows, anchor + 1, Len(rows)) \in Seq(Message)
      /\ Len(SubSeq(rows, anchor + 1, Len(rows)))
           = IF anchor + 1 <= Len(rows) THEN Len(rows) - (anchor + 1) + 1 ELSE 0
      /\ \A i \in 1 .. Len(rows) - (anchor + 1) + 1 :
           SubSeq(rows, anchor + 1, Len(rows))[i] = rows[(anchor + 1) + i - 1]
  BY <1>1, <1>2, SubSeqProperties
<1>4. anchor >= Len(rows) => SubSeq(rows, anchor + 1, Len(rows)) = <<>>
  BY <1>2, SubSeqEmpty
<1> QED BY <1>2, <1>3, <1>4 DEF After

\* The latest layer fits, or is one round.
Fits(rows, anchor) ==
  LET latest == After(rows, anchor) IN
    \/ Tokens(latest) <= Layer1Budget
    \/ Cardinality({i \in DOMAIN latest : latest[i].role = "user"}) = 1

\* Cutting back the latest layer moves the anchor on to the start of a round
\* from which the rows fit, or to the last round.
LEMMA CascadeCutsRounds ==
  ASSUME NEW rows \in Seq(Message), NEW anchor \in Nat, StartsRound(rows, anchor)
  PROVE  /\ Cascade(rows, anchor) \in Nat /\ anchor <= Cascade(rows, anchor)
         /\ StartsRound(rows, Cascade(rows, anchor))
         /\ Fits(rows, Cascade(rows, anchor))
<1> DEFINE n == Len(rows)
           rounds == {i \in anchor + 1 .. n : rows[i].role = "user"}
           fit == {i \in rounds : Tokens(SubSeq(rows, i, n)) <= Layer1Budget}
<1>1. n \in Nat /\ Layer1Budget \in Nat
  BY BudgetsAreNumbers
<1>2. CASE Tokens(After(rows, anchor)) <= Layer1Budget
  <2>1. Cascade(rows, anchor) = anchor
    BY <1>2 DEF Cascade
  <2> QED BY <1>2, <2>1 DEF Fits
<1>3. CASE ~(Tokens(After(rows, anchor)) <= Layer1Budget) /\ fit # {}
  <2>1. Cascade(rows, anchor) = Min(fit) - 1
    BY <1>3 DEF Cascade
  <2>2. fit \subseteq Int /\ 0 \in Int /\ \A x \in fit : 0 <= x
    OBVIOUS
  <2>3. Min(fit) \in fit
    <3> HIDE DEF fit
    <3> QED BY <1>3, <2>2, LeastOfBounded
  <2>4. PICK i \in fit : Cascade(rows, anchor) = i - 1
    BY <2>1, <2>3
  <2>5. i - 1 \in Nat /\ anchor <= i - 1 /\ i - 1 < n /\ (i - 1) + 1 = i
        /\ rows[i].role = "user" /\ Tokens(SubSeq(rows, i, n)) <= Layer1Budget
    BY <1>1
  <2> QED BY <1>1, <2>4, <2>5 DEF StartsRound, Fits, After
<1>4. CASE ~(Tokens(After(rows, anchor)) <= Layer1Budget) /\ fit = {}
  <2>1. Cascade(rows, anchor) = Max(rounds) - 1
    BY <1>4 DEF Cascade
  <2>2. anchor < n
    BY <1>1, <1>4, AfterRows, TokensAreNumbers DEF StartsRound
  <2>3. rounds \subseteq Int /\ rounds # {} /\ n \in Int /\ \A x \in rounds : x <= n
    <3>1. anchor + 1 \in rounds
      BY <1>1, <2>2 DEF StartsRound
    <3> QED BY <1>1, <3>1
  <2>4. Max(rounds) \in rounds /\ \A x \in rounds : x <= Max(rounds)
    <3> HIDE DEF rounds, n
    <3> QED BY <2>3, GreatestOfBounded
  <2>5. PICK m \in rounds : Cascade(rows, anchor) = m - 1 /\ \A x \in rounds : x <= m
    BY <2>1, <2>4
  <2>6. m - 1 \in Nat /\ anchor <= m - 1 /\ m - 1 < n /\ (m - 1) + 1 = m
        /\ rows[m].role = "user"
    BY <1>1
  <2> DEFINE latest == After(rows, m - 1)
  <2>7. DOMAIN latest = 1 .. n - (m - 1) /\ \A i \in 1 .. n - (m - 1) : latest[i] = rows[(m - 1) + i]
    <3> PICK k \in Nat : k = m - 1 /\ k <= n
      BY <2>6
    <3>1. /\ After(rows, k) \in Seq(Message) /\ Len(After(rows, k)) = n - k
          /\ \A i \in 1 .. n - k : After(rows, k)[i] = rows[k + i]
      BY AfterRows
    <3> QED BY <3>1
  <2> HIDE DEF latest
  <2>8. {i \in DOMAIN latest : latest[i].role = "user"} = {1}
    <3>1. 1 \in DOMAIN latest /\ latest[1].role = "user"
      BY <1>1, <2>6, <2>7
    <3>2. ASSUME NEW i \in DOMAIN latest, latest[i].role = "user" PROVE i = 1
      <4>1. (m - 1) + i \in rounds
        BY <1>1, <2>6, <2>7, <3>2
      <4> QED BY <1>1, <2>5, <2>6, <2>7, <4>1
    <3> QED BY <3>1, <3>2
  <2>9. Fits(rows, m - 1)
    BY <2>8, FS_Singleton DEF Fits, latest
  <2> QED BY <1>1, <2>5, <2>6, <2>9 DEF StartsRound
<1> QED BY <1>2, <1>3, <1>4

\* What is kept of the middle layer is within its budget.
LEMMA KeptFits ==
  ASSUME NEW rows \in Seq(Message), NEW budget \in Nat
  PROVE  Layer2Tokens(Kept(rows, budget)) \in Nat /\ Layer2Tokens(Kept(rows, budget)) <= budget
<1> DEFINE n == Len(rows)
           fit == {i \in DOMAIN rows : Layer2Tokens(SubSeq(rows, i, n)) <= budget}
           starts == fit \cup {n + 1}
<1>1. n \in Nat /\ DOMAIN rows = 1 .. n
  OBVIOUS
<1>2. starts \subseteq Int /\ starts # {} /\ 0 \in Int /\ \A x \in starts : 0 <= x
  BY <1>1
<1>3. Min(starts) \in starts
  <2> HIDE DEF starts
  <2> QED BY <1>2, LeastOfBounded
<1>4. PICK i \in starts : Kept(rows, budget) = SubSeq(rows, i, n)
  BY <1>3 DEF Kept
<1>5. i \in Int /\ i >= 1 /\ n \in Int /\ \A j \in i .. n : rows[j] \in Message
  BY <1>1
<1>6. SubSeq(rows, i, n) \in Seq(Message)
  BY <1>5, SubSeqProperties
<1>7. i = n + 1 => SubSeq(rows, i, n) = <<>>
  BY <1>1, <1>5, SubSeqEmpty
<1>8. Layer2Tokens(SubSeq(rows, i, n)) \in Nat
      /\ (i = n + 1 => Layer2Tokens(SubSeq(rows, i, n)) = 0)
  BY <1>6, <1>7, TokensAreNumbers
<1>9. i # n + 1 => Layer2Tokens(SubSeq(rows, i, n)) <= budget
  OBVIOUS
<1> QED BY <1>4, <1>8, <1>9

\* The model's view fits the window, unless the latest layer alone does not.
LEMMA LayeredFits ==
  ASSUME NEW layer1 \in Seq(Message), NEW layer2 \in Seq(Message), NEW summary \in Nat
  PROVE  LET view == Layered(layer1, layer2, summary) IN
         /\ view.layer1 = Tokens(layer1) /\ {view.layer1, view.layer2, view.summary} \subseteq Nat
         /\ view.layer1 <= Sliding => view.summary + view.layer2 + view.layer1 <= Sliding
<1>1. PICK l1 \in Nat : l1 = Tokens(layer1)
  BY TokensAreNumbers
<1>2. PICK left \in Nat : left = Less(Sliding, l1) /\ (l1 <= Sliding => left = Sliding - l1)
  BY BudgetsAreNumbers, LesserIsLess
<1>3. PICK l2 \in Nat : l2 = Layer2Tokens(Kept(layer2, left)) /\ l2 <= left
  BY KeptFits
<1>4. PICK s \in Nat : s = Lesser(summary, Less(left, l2)) /\ s <= left - l2
  <2>1. PICK rest \in Nat : rest = Less(left, l2) /\ rest = left - l2
    BY <1>3, LesserIsLess
  <2>2. Lesser(summary, rest) \in Nat /\ Lesser(summary, rest) <= rest
    BY <2>1, LesserIsLess
  <2> QED BY <2>1, <2>2
<1>5. Layered(layer1, layer2, summary) = [layer1 |-> l1, layer2 |-> l2, summary |-> s]
  BY <1>1, <1>2, <1>3, <1>4 DEF Layered
<1>6. l1 <= Sliding => s + l2 + l1 <= Sliding
  BY <1>2, <1>3, <1>4, BudgetsAreNumbers
<1> QED BY <1>1, <1>5, <1>6

-----------------------------------------------------------------------------
(* Summaries are numbered, for any workers.                                *)

Segs == Cardinality(segments)

\* The segments have the numbers from 1, each once.
Numbered ==
  /\ IsFiniteSet(segments)
  /\ {s.seq : s \in segments} = 1 .. Segs
  /\ \A s \in segments, r \in segments : s.seq = r.seq => s = r

\* A summary task is a worker's, is about rows that have left the latest layer,
\* and holds a number that was free when it was read.
GoodTask(t) ==
  /\ t.pc # "off" => t.worker \in Worker
  /\ t.limit <= layer1From
  /\ t.pc \in {"read", "model"} => t.upto < t.limit
  /\ t.pc = "model" => t.seq \in 1 .. Segs + 1

\* A turn works on the anchors that it read.
TurnIsRead ==
  /\ turn.pc # "none" => turn.worker \in Worker /\ turn.from = layer1From
  /\ turn.upto <= layer1From

LayersInv ==
  /\ LayersTypeOK
  /\ Numbered
  /\ StartsRound(messages, layer1From)
  /\ summaryUpto <= layer1From
  /\ TurnIsRead
  /\ \A k \in Task : GoodTask(task[k])
  /\ TurnFits

LEMMA NextSeqIsNext ==
  ASSUME Numbered
  PROVE  Segs \in Nat /\ NextSeq = Segs + 1
<1>1. PICK n \in Nat : n = Segs /\ {s.seq : s \in segments} = 1 .. n
  BY FS_CardinalityType DEF Numbered, Segs
<1>2. Max(1 .. n \cup {0}) = n
  <2> DEFINE S == 1 .. n \cup {0}
  <2>1. S \subseteq Int /\ S # {} /\ n \in Int /\ \A x \in S : x <= n
    OBVIOUS
  <2>2. Max(S) \in S /\ \A x \in S : x <= Max(S)
    <3> HIDE DEF S
    <3> QED BY <2>1, GreatestOfBounded
  <2>3. n \in S
    OBVIOUS
  <2> QED BY <2>1, <2>2, <2>3
<1> QED BY <1>1, <1>2 DEF NextSeq

\* Another segment, with the next number.
LEMMA OneMoreSegment ==
  ASSUME Numbered, NEW s, s.seq = Segs + 1, segments' = segments \cup {s}
  PROVE  Numbered' /\ Segs' = Segs + 1
<1>1. Segs \in Nat
  BY NextSeqIsNext
<1>2. s \notin segments
  <2> SUFFICES ASSUME s \in segments PROVE FALSE
    OBVIOUS
  <2>1. s.seq \in 1 .. Segs
    BY DEF Numbered
  <2> QED BY <1>1, <2>1
<1>3. IsFiniteSet(segments') /\ Segs' = Segs + 1
  BY <1>2, FS_AddElement DEF Numbered, Segs
<1>4. {r.seq : r \in segments'} = 1 .. Segs + 1
  <2>1. {r.seq : r \in segments'} = {r.seq : r \in segments} \cup {Segs + 1}
    OBVIOUS
  <2> QED BY <1>1, <2>1 DEF Numbered
<1>5. \A r \in segments : r.seq # Segs + 1
  <2> SUFFICES ASSUME NEW r \in segments PROVE r.seq # Segs + 1
    OBVIOUS
  <2>1. r.seq \in 1 .. Segs
    BY DEF Numbered
  <2> QED BY <1>1, <2>1
<1>6. \A r \in segments', q \in segments' : r.seq = q.seq => r = q
  BY <1>5 DEF Numbered
<1> QED BY <1>3, <1>4, <1>6 DEF Numbered


LEMMA LayersStart == LayersInit => LayersInv
<1> SUFFICES ASSUME LayersInit PROVE LayersInv
  OBVIOUS
<1> USE DEF LayersInit
<1>1. MaxMessages \in Nat
  BY BudgetsAreNumbers
<1>2. messages \in Seq(Message) /\ Len(messages) = 0
  BY EmptySeq
<1>3. LayersTypeOK
  BY <1>1, <1>2 DEF LayersTypeOK, Id, Turn, NoTurn, SummaryTask, NoTask
<1>4. Numbered
  BY FS_EmptySet DEF Numbered, Segs
<1>5. StartsRound(messages, layer1From) /\ summaryUpto <= layer1From
  BY <1>2 DEF StartsRound
<1>6. TurnIsRead /\ TurnFits
  BY DEF TurnIsRead, TurnFits, NoTurn
<1>7. \A k \in Task : GoodTask(task[k])
  BY DEF GoodTask, NoTask
<1> QED BY <1>3, <1>4, <1>5, <1>6, <1>7 DEF LayersInv

LEMMA StepBeginTurn ==
  ASSUME LayersInv, NEW w \in Worker, BeginTurn(w) PROVE LayersInv'
<1> USE DEF LayersInv
<1>1. /\ turn' = [pc |-> "read", worker |-> w, upto |-> summaryUpto, from |-> layer1From,
                  summary |-> SummaryTokens * Segs, layer2 |-> 0, layer1 |-> 0]
      /\ UNCHANGED <<messages, layer1From, summaryUpto, segments, inflight, task>>
  BY DEF BeginTurn, NoTurn, Segs
<1>2. SummaryTokens * Segs \in Nat
  BY BudgetsAreNumbers, NextSeqIsNext
<1>3. LayersTypeOK'
  BY <1>1, <1>2 DEF LayersTypeOK, Turn
<1>4. Numbered' /\ StartsRound(messages, layer1From)' /\ (summaryUpto <= layer1From)'
      /\ \A k \in Task : GoodTask(task[k])'
  BY <1>1 DEF Numbered, Segs, StartsRound, GoodTask
<1>5. TurnIsRead' /\ TurnFits'
  BY <1>1 DEF TurnIsRead, TurnFits
<1> QED BY <1>3, <1>4, <1>5

\* What a turn that is prepared sees.
LEMMA PreparedTurn ==
  ASSUME LayersInv, turn.pc = "read", NEW from, from = Cascade(messages, turn.from),
         NEW view, view = Layered(After(messages, from), Between(messages, turn.upto, from),
                                  turn.summary)
  PROVE  /\ from \in Id /\ layer1From <= from /\ StartsRound(messages, from)
         /\ view.layer1 \in Nat /\ view.layer2 \in Nat /\ view.summary \in Nat
         /\ LET latest == After(messages, from)
                rounds == {i \in DOMAIN latest : latest[i].role = "user"} IN
            /\ latest # <<>> => latest[1].role = "user"
            /\ view.layer1 <= Layer1Budget \/ Cardinality(rounds) = 1
            /\ view.summary + view.layer2 + view.layer1 <= Sliding \/ view.layer1 > Sliding
<1> USE DEF LayersInv
<1>1. /\ messages \in Seq(Message) /\ Len(messages) <= MaxMessages /\ MaxMessages \in Nat
      /\ layer1From \in Nat /\ turn.from = layer1From /\ turn.upto \in Nat /\ turn.summary \in Nat
  BY BudgetsAreNumbers DEF LayersTypeOK, TurnIsRead, Turn, Id
<1>2. /\ from \in Nat /\ layer1From <= from /\ StartsRound(messages, from)
      /\ Fits(messages, from)
  BY <1>1, CascadeCutsRounds
<1>3. from <= Len(messages) /\ from \in Id
  BY <1>1, <1>2 DEF StartsRound, Id
<1>4. PICK layer2 \in Seq(Message) : layer2 = Between(messages, turn.upto, from)
  <2>1. \A i \in turn.upto + 1 .. from : messages[i] \in Message
    BY <1>1, <1>2, <1>3
  <2>2. turn.upto + 1 \in Int /\ from \in Int
    BY <1>1, <1>2
  <2>3. SubSeq(messages, turn.upto + 1, from) \in Seq(Message)
    BY <2>1, <2>2, SubSeqProperties
  <2> QED BY <2>3 DEF Between
<1>5. PICK latest \in Seq(Message) :
        /\ latest = After(messages, from)
        /\ latest # <<>> => latest[1].role = "user"
  <2>1. /\ After(messages, from) \in Seq(Message)
        /\ from >= Len(messages) => After(messages, from) = <<>>
        /\ \A i \in 1 .. Len(messages) - from : After(messages, from)[i] = messages[from + i]
    BY <1>1, <1>2, AfterRows
  <2>2. from < Len(messages) => After(messages, from)[1].role = "user"
    <3> SUFFICES ASSUME from < Len(messages) PROVE After(messages, from)[1].role = "user"
      OBVIOUS
    <3>1. 1 \in 1 .. Len(messages) - from
      BY <1>1, <1>2
    <3>2. After(messages, from)[1] = messages[from + 1]
      BY <2>1, <3>1
    <3> QED BY <1>2, <3>2 DEF StartsRound
  <2> QED BY <1>1, <1>2, <2>1, <2>2
<1>6. view = Layered(latest, layer2, turn.summary)
  BY <1>4, <1>5
<1>7. /\ view.layer1 = Tokens(latest) /\ {view.layer1, view.layer2, view.summary} \subseteq Nat
      /\ view.layer1 <= Sliding => view.summary + view.layer2 + view.layer1 <= Sliding
  BY <1>1, <1>6, LayeredFits
<1>8. view.layer1 \in Nat /\ view.layer2 \in Nat /\ view.summary \in Nat
  BY <1>7
<1>9. view.layer1 <= Layer1Budget
        \/ Cardinality({i \in DOMAIN latest : latest[i].role = "user"}) = 1
  BY <1>2, <1>5, <1>7 DEF Fits
<1>10. view.summary + view.layer2 + view.layer1 <= Sliding \/ view.layer1 > Sliding
  BY <1>7, <1>8, BudgetsAreNumbers
<1> QED BY <1>2, <1>3, <1>5, <1>8, <1>9, <1>10

\* A task that a turn starts.
LEMMA TriggeredTask ==
  ASSUME LayersInv, NEW w \in Worker, NEW limit \in Id, Trigger(w, limit)
  PROVE  /\ inflight' \in SUBSET Worker /\ task' \in [Task -> SummaryTask]
         /\ \A k \in Task :
              \/ task'[k] = task[k]
              \/ task'[k].pc = "new" /\ task'[k].worker = w /\ task'[k].limit = limit
<1>1. MaxMessages \in Nat /\ inflight \in SUBSET Worker /\ task \in [Task -> SummaryTask]
  BY BudgetsAreNumbers DEF LayersInv, LayersTypeOK
<1>2. CASE w \in inflight
  BY <1>1, <1>2 DEF Trigger
<1>3. CASE w \notin inflight
  <2>1. PICK t : t = [NoTask EXCEPT !.pc = "new", !.worker = w, !.limit = limit]
    OBVIOUS
  <2>2. t \in SummaryTask /\ t.pc = "new" /\ t.worker = w /\ t.limit = limit
    <3>1. t.pc = "new"
      BY <2>1 DEF NoTask
    <3>2. t.worker = w
      BY <2>1 DEF NoTask
    <3>3. t.limit = limit
      BY <2>1 DEF NoTask
    <3>4. t.seq = 0 /\ t.upto = 0
      BY <2>1 DEF NoTask
    <3>5. NoTask \in SummaryTask
      BY <1>1 DEF SummaryTask, Id, NoTask
    <3>6. t \in SummaryTask
      BY <2>1, <3>5 DEF SummaryTask
    <3> QED BY <3>1, <3>2, <3>3, <3>6
  <2>3. PICK k \in Task : task' = [task EXCEPT ![k] = t]
    BY <1>3, <2>1 DEF Trigger
  <2>4. inflight' = inflight \cup {w}
    BY <1>3 DEF Trigger
  <2> QED BY <1>1, <2>2, <2>3, <2>4
<1> QED BY <1>2, <1>3

LEMMA StepPrepareTurn ==
  ASSUME LayersInv, PrepareTurn PROVE LayersInv'
<1> USE DEF LayersInv
<1>1. turn.pc = "read" /\ turn.from = layer1From /\ turn.worker \in Worker
      /\ turn \in Turn /\ layer1From \in Id /\ summaryUpto \in Id /\ turn.upto \in Id
      /\ MaxMessages \in Nat
  BY BudgetsAreNumbers DEF PrepareTurn, TurnIsRead, LayersTypeOK, Turn
<1>2. PICK from : from = Cascade(messages, turn.from)
  OBVIOUS
<1>3. PICK layer2 : layer2 = Between(messages, turn.upto, from)
  OBVIOUS
<1>4. PICK view : view = Layered(After(messages, from), layer2, turn.summary)
  OBVIOUS
<1>5. /\ from \in Id /\ layer1From <= from /\ StartsRound(messages, from)
      /\ view.layer1 \in Nat /\ view.layer2 \in Nat /\ view.summary \in Nat
      /\ LET latest == After(messages, from)
             rounds == {i \in DOMAIN latest : latest[i].role = "user"} IN
         /\ latest # <<>> => latest[1].role = "user"
         /\ view.layer1 <= Layer1Budget \/ Cardinality(rounds) = 1
         /\ view.summary + view.layer2 + view.layer1 <= Sliding \/ view.layer1 > Sliding
  BY <1>1, <1>2, <1>3, <1>4, PreparedTurn
<1>6. /\ layer1From' = from
      /\ turn' = [turn EXCEPT !.pc = "graph", !.from = from, !.layer1 = view.layer1,
                              !.layer2 = view.layer2, !.summary = view.summary]
      /\ Trigger(turn.worker, from) \/ UNCHANGED <<inflight, task>>
      /\ UNCHANGED <<messages, summaryUpto, segments>>
  BY <1>1, <1>2, <1>3, <1>4 DEF PrepareTurn
<1>7. PICK w \in Worker : w = turn.worker
  BY <1>1
<1>8. /\ inflight' \in SUBSET Worker /\ task' \in [Task -> SummaryTask]
      /\ \A k \in Task :
           \/ task'[k] = task[k]
           \/ task'[k].pc = "new" /\ task'[k].worker = w /\ task'[k].limit = from
  <2>1. CASE Trigger(w, from)
    BY <1>5, <1>7, <2>1, TriggeredTask
  <2>2. CASE UNCHANGED <<inflight, task>>
    BY <2>2 DEF LayersTypeOK
  <2> QED BY <1>6, <1>7, <2>1, <2>2
<1>9. turn' \in Turn /\ turn'.pc = "graph" /\ turn'.worker = w /\ turn'.from = from
      /\ turn'.upto = turn.upto /\ turn'.layer1 = view.layer1 /\ turn'.layer2 = view.layer2
      /\ turn'.summary = view.summary
  BY <1>1, <1>5, <1>6, <1>7 DEF Turn
<1>10. LayersTypeOK'
  BY <1>5, <1>6, <1>8, <1>9 DEF LayersTypeOK
<1>11. Numbered' /\ Segs' = Segs /\ StartsRound(messages, layer1From)'
  BY <1>5, <1>6 DEF Numbered, Segs, StartsRound
<1>12. (summaryUpto <= layer1From)' /\ TurnIsRead'
  BY <1>1, <1>5, <1>6, <1>9 DEF TurnIsRead, Id
<1>13. TurnFits'
  BY <1>5, <1>6, <1>9 DEF TurnFits
<1>14. ASSUME NEW k \in Task PROVE GoodTask(task[k])'
  <2>1. task[k] \in SummaryTask /\ GoodTask(task[k])
    BY DEF LayersTypeOK
  <2>2. CASE task'[k] = task[k]
    BY <1>1, <1>5, <1>6, <1>11, <2>1, <2>2 DEF GoodTask, SummaryTask, Id
  <2>3. CASE task'[k].pc = "new" /\ task'[k].worker = w /\ task'[k].limit = from
    BY <1>5, <1>6, <2>3 DEF GoodTask, Id
  <2> QED BY <1>8, <2>2, <2>3
<1> QED BY <1>10, <1>11, <1>12, <1>13, <1>14

LEMMA StepEndTurn ==
  ASSUME LayersInv, EndTurn PROVE LayersInv'
<1> USE DEF LayersInv
<1>1. /\ turn' = NoTurn
      /\ UNCHANGED <<layer1From, summaryUpto, segments, inflight, task>>
  BY DEF EndTurn
<1>2. /\ messages \in Seq(Message) /\ layer1From \in Nat /\ MaxMessages \in Nat
      /\ StartsRound(messages, layer1From)
  BY BudgetsAreNumbers DEF LayersTypeOK, Id
<1>3. /\ messages' \in Seq(Message) /\ (Len(messages) <= MaxMessages)'
      /\ StartsRound(messages, layer1From)'
  <2>1. CASE UNCHANGED messages
    BY <1>1, <1>2, <2>1 DEF LayersTypeOK, StartsRound
  <2>2. ASSUME NEW u \in Sizes, NEW a \in Sizes, NEW round,
               \/ round = <<[role |-> "user", tokens |-> u]>>
               \/ round = <<[role |-> "user", tokens |-> u], [role |-> "assistant", tokens |-> a]>>,
               Len(messages) + Len(round) <= MaxMessages, messages' = messages \o round
        PROVE  /\ messages' \in Seq(Message) /\ (Len(messages) <= MaxMessages)'
               /\ StartsRound(messages, layer1From)'
    <3>1. PICK m \in Message, n \in Message :
            m = [role |-> "user", tokens |-> u] /\ n = [role |-> "assistant", tokens |-> a]
      BY DEF Message
    <3>2. round \in Seq(Message) /\ round[1].role = "user" /\ Len(round) >= 1
      <4>1. round = <<m>> \/ round = <<m, n>>
        BY <2>2, <3>1
      <4>2. m.role = "user"
        BY <3>1
      <4>3. CASE round = <<m>>
        BY <4>2, <4>3
      <4>4. CASE round = <<m, n>>
        <5>1. Len(round) = 2 /\ round[1] = m /\ round \in Seq(Message)
          BY <4>4
        <5> QED BY <4>2, <5>1
      <4> QED BY <4>1, <4>3, <4>4
    <3>3. /\ messages' \in Seq(Message) /\ Len(messages') = Len(messages) + Len(round)
          /\ \A i \in 1 .. Len(messages') :
               messages'[i] = IF i <= Len(messages) THEN messages[i] ELSE round[i - Len(messages)]
      BY <1>2, <2>2, <3>2, ConcatProperties
    <3>4. Len(messages) \in Nat /\ Len(round) \in Nat
      BY <1>2, <3>2
    <3>5. layer1From < Len(messages) => messages'[layer1From + 1].role = "user"
      BY <1>2, <3>3, <3>4 DEF StartsRound
    <3>6. layer1From = Len(messages) => messages'[layer1From + 1].role = "user"
      BY <1>2, <3>2, <3>3, <3>4
    <3> QED BY <1>1, <1>2, <2>2, <3>3, <3>4, <3>5, <3>6 DEF StartsRound
  <2> QED BY <2>1, <2>2 DEF EndTurn
<1>4. LayersTypeOK'
  BY <1>1, <1>2, <1>3 DEF LayersTypeOK, Turn, NoTurn, Id
<1>5. Numbered' /\ (summaryUpto <= layer1From)' /\ \A k \in Task : GoodTask(task[k])'
  BY <1>1 DEF Numbered, Segs, GoodTask
<1>6. TurnIsRead' /\ TurnFits'
  BY <1>1, <1>2 DEF TurnIsRead, TurnFits, NoTurn
<1> QED BY <1>3, <1>4, <1>5, <1>6

\* What a step of summary tasks leaves, if the tasks stay good and the numbers
\* go on.
LEMMA TasksStep ==
  ASSUME LayersInv, UNCHANGED <<messages, layer1From, turn>>,
         LayersTypeOK', Numbered', (summaryUpto <= layer1From)',
         \A k \in Task : GoodTask(task[k])'
  PROVE  LayersInv'
<1>1. StartsRound(messages, layer1From)' /\ TurnIsRead' /\ TurnFits'
  BY DEF LayersInv, StartsRound, TurnIsRead, TurnFits
<1> QED BY <1>1 DEF LayersInv

\* A task that another record replaces, while the tables stay.
LEMMA TaskMoves ==
  ASSUME LayersInv, NEW k \in Task, NEW t \in SummaryTask,
         UNCHANGED <<messages, layer1From, summaryUpto, segments, turn>>,
         task' = [task EXCEPT ![k] = t], inflight' \in SUBSET Worker,
         GoodTask(t)
  PROVE  LayersInv'
<1> USE DEF LayersInv
<1>1. LayersTypeOK'
  BY DEF LayersTypeOK
<1>2. Numbered' /\ (summaryUpto <= layer1From)' /\ Segs' = Segs
  BY DEF Numbered, Segs
<1>3. ASSUME NEW j \in Task PROVE GoodTask(task[j])'
  <2>1. PICK u \in SummaryTask : u = task'[j] /\ GoodTask(u)
    BY DEF LayersTypeOK
  <2> QED BY <1>2, <2>1 DEF GoodTask
<1> QED BY <1>1, <1>2, <1>3, TasksStep

LEMMA StepTask ==
  ASSUME LayersInv, NEW k \in Task,
         ReadAnchors(k) \/ ReadSeq(k) \/ ModelFails(k) \/ Callback(k)
  PROVE  LayersInv'
<1> USE DEF LayersInv
<1>1. /\ task \in [Task -> SummaryTask] /\ inflight \in SUBSET Worker /\ summaryUpto \in Id
      /\ MaxMessages \in Nat /\ layer1From \in Nat
  BY BudgetsAreNumbers DEF LayersTypeOK, Id
<1>2. PICK t \in SummaryTask : t = task[k] /\ GoodTask(t)
  BY <1>1
<1>3. PICK done : done = [t EXCEPT !.pc = "done"]
  OBVIOUS
<1>9. done \in SummaryTask /\ (t.pc # "off" => GoodTask(done))
  <2>1. /\ done \in SummaryTask /\ done.pc = "done" /\ done.worker = t.worker
        /\ done.limit = t.limit
    BY <1>3 DEF SummaryTask
  <2> QED BY <1>2, <2>1 DEF GoodTask
<1>4. ASSUME Done(k) PROVE task' = [task EXCEPT ![k] = done] /\ inflight' \in SUBSET Worker
  BY <1>1, <1>2, <1>3, <1>4 DEF Done
<1>5. CASE ReadAnchors(k) /\ summaryUpto < task[k].limit
  <2>1. PICK u \in SummaryTask : u = [t EXCEPT !.pc = "read", !.upto = summaryUpto]
    BY <1>1, <1>2 DEF SummaryTask
  <2>2. GoodTask(u)
    BY <1>2, <1>5, <2>1 DEF GoodTask, SummaryTask, ReadAnchors
  <2>3. task' = [task EXCEPT ![k] = u] /\ inflight' = inflight
        /\ UNCHANGED <<messages, layer1From, summaryUpto, segments, turn>>
    BY <1>1, <1>2, <1>5, <2>1 DEF ReadAnchors
  <2> QED BY <1>1, <2>2, <2>3, TaskMoves
<1>6. CASE ReadSeq(k)
  <2>1. NextSeq = Segs + 1 /\ Segs \in Nat
    BY NextSeqIsNext
  <2>2. PICK u : u = [t EXCEPT !.pc = "model", !.seq = NextSeq]
    OBVIOUS
  <2>5. /\ u \in SummaryTask /\ u.pc = "model" /\ u.worker = t.worker /\ u.limit = t.limit
        /\ u.upto = t.upto /\ u.seq = Segs + 1
    <3>1. NextSeq \in Nat
      BY <2>1
    <3> QED BY <2>1, <2>2, <3>1 DEF SummaryTask
  <2>3. GoodTask(u)
    BY <1>2, <1>6, <2>1, <2>5 DEF GoodTask, ReadSeq
  <2>4. task' = [task EXCEPT ![k] = u] /\ inflight' = inflight
        /\ UNCHANGED <<messages, layer1From, summaryUpto, segments, turn>>
    BY <1>1, <1>2, <1>6, <2>2 DEF ReadSeq
  <2> QED BY <1>1, <2>3, <2>4, <2>5, TaskMoves
<1>7. CASE (ReadAnchors(k) /\ ~(summaryUpto < task[k].limit)) \/ ModelFails(k)
  <2>1. Done(k) /\ UNCHANGED <<messages, layer1From, summaryUpto, segments, turn>>
    BY <1>7 DEF ReadAnchors, ModelFails
  <2>2. t.pc # "off"
    BY <1>2, <1>7 DEF ReadAnchors, ModelFails
  <2> QED BY <1>4, <1>9, <2>1, <2>2, TaskMoves
<1>8. CASE Callback(k)
  <2>1. NoTask \in SummaryTask /\ GoodTask(NoTask)
    BY <1>1 DEF NoTask, SummaryTask, GoodTask, Id
  <2>2. PICK n \in SummaryTask : n = NoTask /\ GoodTask(n)
    BY <2>1
  <2>3. task' = [task EXCEPT ![k] = n] /\ inflight' \in SUBSET Worker
        /\ UNCHANGED <<messages, layer1From, summaryUpto, segments, turn>>
    BY <1>1, <1>8, <2>2 DEF Callback
  <2> QED BY <2>2, <2>3, TaskMoves
<1> QED BY <1>5, <1>6, <1>7, <1>8

LEMMA StepAppendSummary ==
  ASSUME LayersInv, NEW k \in Task, AppendSummary(k)
  PROVE  LayersInv'
<1> USE DEF LayersInv
<1>1. /\ task \in [Task -> SummaryTask] /\ inflight \in SUBSET Worker
      /\ MaxMessages \in Nat /\ layer1From \in Nat
  BY BudgetsAreNumbers DEF LayersTypeOK, Id
<1>2. PICK t \in SummaryTask : t = task[k] /\ GoodTask(t) /\ t.pc = "model"
  BY <1>1 DEF AppendSummary
<1>3. PICK done : done = [t EXCEPT !.pc = "done"]
  OBVIOUS
<1>9. done \in SummaryTask /\ GoodTask(done)
  <2>1. /\ done \in SummaryTask /\ done.pc = "done" /\ done.worker = t.worker
        /\ done.limit = t.limit
    BY <1>3 DEF SummaryTask
  <2> QED BY <1>2, <2>1 DEF GoodTask
<1>4. /\ task' = [task EXCEPT ![k] = done] /\ inflight' \in SUBSET Worker
      /\ UNCHANGED <<messages, layer1From, turn>>
  BY <1>1, <1>2, <1>3 DEF AppendSummary, Done
<1>5. CASE UNCHANGED <<segments, summaryUpto>>
  BY <1>4, <1>5, <1>9, TaskMoves
<1>6. CASE /\ \A s \in segments : s.seq # t.seq
           /\ segments' = segments \cup {[seq |-> t.seq, from |-> t.upto + 1, upto |-> t.limit]}
           /\ summaryUpto' = t.limit
  <2>1. Segs \in Nat /\ t.seq = Segs + 1
    <3>1. Segs \in Nat
      BY NextSeqIsNext
    <3>2. t.seq \notin 1 .. Segs
      BY <1>6 DEF Numbered
    <3> QED BY <1>2, <3>1, <3>2 DEF GoodTask
  <2>2. PICK s \in Segment : s = [seq |-> t.seq, from |-> t.upto + 1, upto |-> t.limit]
    <3>1. t.seq \in Nat /\ t.limit \in Id /\ t.upto \in Id /\ t.upto < t.limit
      BY <1>2 DEF SummaryTask, GoodTask
    <3>2. t.upto + 1 \in Id
      BY <1>1, <3>1 DEF Id
    <3> QED BY <3>1, <3>2 DEF Segment
  <2>3. Numbered' /\ Segs' = Segs + 1
    BY <1>6, <2>1, <2>2, OneMoreSegment
  <2>4. LayersTypeOK'
    BY <1>2, <1>4, <1>6, <1>9, <2>2 DEF LayersTypeOK, SummaryTask
  <2>5. (summaryUpto <= layer1From)'
    BY <1>2, <1>4, <1>6 DEF GoodTask
  <2>6. ASSUME NEW j \in Task PROVE GoodTask(task[j])'
    <3>1. PICK u \in SummaryTask : u = task'[j] /\ GoodTask(u)
      BY <1>1, <1>4, <1>9
    <3> QED BY <1>4, <2>1, <2>3, <3>1 DEF GoodTask
  <2> QED BY <1>4, <2>3, <2>4, <2>5, <2>6, TasksStep
<1>7. \/ UNCHANGED <<segments, summaryUpto>>
      \/ /\ \A s \in segments : s.seq # t.seq
         /\ segments' = segments \cup {[seq |-> t.seq, from |-> t.upto + 1, upto |-> t.limit]}
         /\ summaryUpto' = t.limit
  BY <1>2 DEF AppendSummary
<1> QED BY <1>5, <1>6, <1>7

LEMMA StepCrash ==
  ASSUME LayersInv, NEW w \in Worker, Crash(w)
  PROVE  LayersInv'
<1> USE DEF LayersInv
<1>1. /\ UNCHANGED <<messages, layer1From, summaryUpto, segments>>
      /\ inflight' = inflight \ {w} /\ turn' \in {turn, NoTurn}
      /\ task' = [k \in Task |-> IF task[k].worker = w THEN NoTask ELSE task[k]]
  BY DEF Crash
<1>2. MaxMessages \in Nat /\ layer1From \in Nat
  BY BudgetsAreNumbers DEF LayersTypeOK, Id
<1>3. NoTask \in SummaryTask /\ GoodTask(NoTask) /\ NoTurn \in Turn
  BY <1>2 DEF NoTask, SummaryTask, GoodTask, Id, NoTurn, Turn
<1>4. LayersTypeOK'
  BY <1>1, <1>3 DEF LayersTypeOK
<1>5. Numbered' /\ Segs' = Segs /\ StartsRound(messages, layer1From)'
      /\ (summaryUpto <= layer1From)'
  BY <1>1 DEF Numbered, Segs, StartsRound
<1>6. TurnIsRead' /\ TurnFits'
  <2>1. CASE turn' = turn
    BY <1>1, <2>1 DEF TurnIsRead, TurnFits
  <2>2. CASE turn' = NoTurn
    BY <1>1, <1>2, <2>2 DEF TurnIsRead, TurnFits, NoTurn
  <2> QED BY <1>1, <2>1, <2>2
<1>7. ASSUME NEW j \in Task PROVE GoodTask(task[j])'
  <2>1. PICK u : u = task'[j] /\ GoodTask(u)
    BY <1>1, <1>3
  <2> QED BY <1>1, <1>5, <2>1 DEF GoodTask
<1> QED BY <1>4, <1>5, <1>6, <1>7

LEMMA LayersInvariant == LayersSpec => []LayersInv
<1>1. ASSUME LayersInv, [LayersNext]_layersVars PROVE LayersInv'
  <2>1. CASE UNCHANGED layersVars
    BY <1>1, <2>1
       DEF layersVars, LayersInv, LayersTypeOK, Numbered, Segs, StartsRound, TurnIsRead,
           TurnFits, GoodTask
  <2> QED BY <1>1, <2>1, StepBeginTurn, StepPrepareTurn, StepEndTurn, StepTask,
             StepAppendSummary, StepCrash DEF LayersNext
<1> QED BY <1>1, LayersStart, PTL DEF LayersSpec

\* What a turn shows its model fits the window, unless the last round alone does
\* not (context.py cascade_layer1, build_layered), for any budgets and workers.
THEOREM TurnsFit == LayersSpec => []TurnFits
<1>1. LayersInv => TurnFits
  BY DEF LayersInv
<1> QED BY <1>1, LayersInvariant, PTL

-----------------------------------------------------------------------------
(* Summaries follow each other, in one process.                            *)

\* The service is one process.
OneWorker == \A v \in Worker, w \in Worker : v = w

\* A task that still holds the next number knows where the summaries end.
KnowsEnd(t) ==
  t.pc = "read" \/ (t.pc = "model" /\ t.seq = Segs + 1) => t.upto = summaryUpto

\* SegmentsTile without its CHOOSE, and what the tasks know.
Tiled ==
  /\ \A s \in segments : s.from <= s.upto
  /\ \A s \in segments : s.seq = 1 => s.from = 1
  /\ \A s \in segments, r \in segments : s.seq = r.seq + 1 => s.from = r.upto + 1
  /\ segments = {} => summaryUpto = 0
  /\ \A s \in segments : s.seq = Segs => s.upto = summaryUpto
  /\ \A k \in Task : KnowsEnd(task[k])

LEMMA TiledIsTile ==
  ASSUME LayersInv, Tiled PROVE SegmentsTile
<1> USE DEF LayersInv
<1>1. Segs \in Nat /\ segments \subseteq Segment /\ {s.seq : s \in segments} = 1 .. Segs
  BY NextSeqIsNext DEF Numbered, LayersTypeOK
<1>2. ASSUME NEW n \in 1 .. Segs
      PROVE  \E r \in segments : r.seq = n /\ r = CHOOSE q \in segments : q.seq = n
  <2>1. \E r \in segments : r.seq = n
    BY <1>1
  <2> QED BY <2>1
<1>3. ASSUME NEW s \in segments
      PROVE  s.from = IF s.seq = 1 THEN 1
                      ELSE (CHOOSE r \in segments : r.seq = s.seq - 1).upto + 1
  <2>1. s.seq \in 1 .. Segs
    BY <1>1
  <2>2. CASE s.seq = 1
    BY <2>2 DEF Tiled
  <2>3. CASE s.seq # 1
    <3>1. PICK n \in 1 .. Segs : n = s.seq - 1 /\ s.seq = n + 1
      BY <2>1, <2>3, <1>1
    <3>2. PICK r \in segments : r.seq = n /\ r = CHOOSE q \in segments : q.seq = n
      BY <1>2
    <3>3. s.from = r.upto + 1
      BY <3>1, <3>2 DEF Tiled
    <3> QED BY <2>3, <3>1, <3>2, <3>3
  <2> QED BY <2>2, <2>3
<1>4. summaryUpto = IF segments = {} THEN 0
                    ELSE (CHOOSE s \in segments : s.seq = Segs).upto
  <2>1. CASE segments = {}
    BY <2>1 DEF Tiled
  <2>2. CASE segments # {}
    <3>1. Segs \in 1 .. Segs
      <4>1. PICK s : s \in segments
        BY <2>2
      <4>2. s.seq \in 1 .. Segs
        BY <1>1, <4>1
      <4> QED BY <1>1, <4>2
    <3>2. PICK r \in segments : r.seq = Segs /\ r = CHOOSE q \in segments : q.seq = Segs
      BY <1>2, <3>1
    <3> QED BY <2>2, <3>2 DEF Tiled
  <2> QED BY <2>1, <2>2
<1> QED BY <1>1, <1>3, <1>4 DEF SegmentsTile, Tiled, Segs

LEMMA TiledFrame ==
  ASSUME Tiled, UNCHANGED <<segments, summaryUpto>>,
         \A k \in Task : KnowsEnd(task'[k])
  PROVE  Tiled'
  BY DEF Tiled, KnowsEnd, Segs

LEMMA StepTiled ==
  ASSUME OneWorker, LayersInv, Tiled, LayersNext
  PROVE  Tiled'
<1> USE DEF LayersInv
<1>1. task \in [Task -> SummaryTask] /\ segments \subseteq Segment /\ Segs \in Nat
      /\ layer1From \in Nat /\ summaryUpto \in Nat
  BY NextSeqIsNext DEF LayersTypeOK, Id
<1>2. ASSUME NEW w \in Worker, BeginTurn(w) \/ Crash(w) PROVE Tiled'
  <2>1. UNCHANGED <<segments, summaryUpto>>
    BY <1>2 DEF BeginTurn, Crash
  <2>2. \A k \in Task : task'[k] = task[k] \/ task'[k].pc = "off"
    BY <1>1, <1>2 DEF BeginTurn, Crash, NoTask
  <2>3. \A k \in Task : KnowsEnd(task'[k])
    BY <2>2 DEF Tiled, KnowsEnd
  <2> QED BY <2>1, <2>3, TiledFrame
<1>3. ASSUME PrepareTurn \/ EndTurn PROVE Tiled'
  <2>1. UNCHANGED <<segments, summaryUpto>>
    BY <1>3 DEF PrepareTurn, EndTurn
  <2>2. \A k \in Task : task'[k] = task[k] \/ task'[k].pc = "new"
    <3>1. CASE task' = task
      BY <3>1
    <3>2. CASE task' # task
      <4>1. PICK w \in Worker, limit \in Id : Trigger(w, limit)
        <5>1. turn.worker \in Worker /\ turn.pc = "read" /\ turn.from \in Nat
              /\ turn.from = layer1From
          BY <1>1, <1>3, <3>2 DEF TurnIsRead, PrepareTurn, EndTurn
        <5>2. PICK from : from = Cascade(messages, turn.from)
          OBVIOUS
        <5>3. from \in Nat /\ from <= Len(messages)
          BY <5>1, <5>2, CascadeCutsRounds DEF LayersTypeOK, StartsRound
        <5>4. from \in Id
          BY <5>3, BudgetsAreNumbers DEF LayersTypeOK, Id
        <5>5. Trigger(turn.worker, from)
          BY <1>3, <3>2, <5>2 DEF PrepareTurn, EndTurn
        <5> QED BY <5>1, <5>4, <5>5
      <4> QED BY <4>1, TriggeredTask
    <3> QED BY <3>1, <3>2
  <2>3. \A k \in Task : KnowsEnd(task'[k])
    BY <2>2 DEF Tiled, KnowsEnd
  <2> QED BY <2>1, <2>3, TiledFrame
<1>4. ASSUME NEW k \in Task, ReadAnchors(k) \/ ReadSeq(k) \/ ModelFails(k) \/ Callback(k)
      PROVE  Tiled'
  <2>1. UNCHANGED <<segments, summaryUpto>>
    BY <1>4 DEF ReadAnchors, ReadSeq, ModelFails, Callback
  <2>2. \A j \in Task \ {k} : task'[j] = task[j]
    BY <1>1, <1>4 DEF ReadAnchors, ReadSeq, ModelFails, Callback, Done
  <2>3. KnowsEnd(task'[k])
    <3>1. CASE task'[k].pc \notin {"read", "model"}
      BY <3>1 DEF KnowsEnd
    <3>2. CASE ReadAnchors(k) /\ task'[k].pc \in {"read", "model"}
      BY <1>1, <3>2 DEF ReadAnchors, Done, KnowsEnd, SummaryTask
    <3>3. CASE ReadSeq(k)
      BY <1>1, <3>3 DEF ReadSeq, Tiled, KnowsEnd, SummaryTask
    <3> QED BY <1>1, <1>4, <3>1, <3>2, <3>3
            DEF ModelFails, Callback, Done, NoTask, SummaryTask
  <2>4. \A j \in Task : KnowsEnd(task'[j])
    BY <2>2, <2>3 DEF Tiled
  <2> QED BY <2>1, <2>4, TiledFrame
<1>5. ASSUME NEW k \in Task, AppendSummary(k) PROVE Tiled'
  <2>1. PICK t \in SummaryTask : t = task[k] /\ GoodTask(t) /\ t.pc = "model" /\ KnowsEnd(t)
    BY <1>1, <1>5 DEF AppendSummary, Tiled
  <2>2. \A j \in Task : task'[j].pc # "read"
    <3>1. \A j \in Task : task[j].pc # "read"
      BY <1>5, <2>1 DEF AppendSummary, Free, OneWorker, GoodTask
    <3> QED BY <1>1, <1>5, <3>1 DEF AppendSummary, Done, SummaryTask
  <2>3. /\ \A j \in Task \ {k} : task'[j] = task[j]
        /\ task'[k].pc = "done"
    BY <1>1, <1>5 DEF AppendSummary, Done, SummaryTask
  <2>4. CASE UNCHANGED <<segments, summaryUpto>>
    <3>1. \A j \in Task : KnowsEnd(task'[j])
      BY <2>3 DEF Tiled, KnowsEnd
    <3> QED BY <2>4, <3>1, TiledFrame
  <2>5. CASE /\ \A s \in segments : s.seq # t.seq
             /\ segments' = segments \cup {[seq |-> t.seq, from |-> t.upto + 1, upto |-> t.limit]}
             /\ summaryUpto' = t.limit
    <3>1. t.seq = Segs + 1
      <4>1. t.seq \notin 1 .. Segs
        BY <2>5 DEF Numbered
      <4> QED BY <1>1, <2>1, <4>1 DEF GoodTask
    <3>2. PICK s : s = [seq |-> t.seq, from |-> t.upto + 1, upto |-> t.limit]
      OBVIOUS
    <3>3. s.seq = Segs + 1 /\ s.from = summaryUpto + 1 /\ s.upto = summaryUpto' /\ s.from <= s.upto
      <4>1. t.upto = summaryUpto /\ t.upto < t.limit /\ t.upto \in Nat /\ t.limit \in Nat
        BY <2>1, <3>1 DEF KnowsEnd, GoodTask, SummaryTask, Id
      <4> QED BY <2>5, <3>1, <3>2, <4>1
    <3>4. segments' = segments \cup {s}
      BY <2>5, <3>2
    <3>5. Numbered' /\ Segs' = Segs + 1
      BY <3>3, <3>4, OneMoreSegment
    <3>6. \A r \in segments : r.seq \in 1 .. Segs
      BY DEF Numbered
    <3>7. Segs = 0 => summaryUpto = 0
      BY FS_EmptySet DEF Numbered, Segs, Tiled
    <3>8. \A r \in segments' : r.from <= r.upto
      BY <3>3, <3>4 DEF Tiled
    <3>9. \A r \in segments' : r.seq = 1 => r.from = 1
      BY <1>1, <3>3, <3>4, <3>7 DEF Tiled
    <3>10. \A r \in segments', q \in segments' : r.seq = q.seq + 1 => r.from = q.upto + 1
      <4>1. ASSUME NEW q \in segments, s.seq = q.seq + 1 PROVE s.from = q.upto + 1
        <5>1. q.seq = Segs
          BY <1>1, <3>3, <3>6, <4>1
        <5> QED BY <3>3, <5>1 DEF Tiled
      <4>2. ASSUME NEW r \in segments PROVE r.seq # s.seq + 1
        BY <1>1, <3>3, <3>6
      <4>3. s.seq # s.seq + 1
        BY <1>1, <3>3
      <4> QED BY <3>4, <4>1, <4>2, <4>3 DEF Tiled
    <3>11. \A r \in segments' : r.seq = Segs + 1 => r.upto = summaryUpto'
      BY <1>1, <3>3, <3>4, <3>6
    <3>12. ASSUME NEW j \in Task PROVE KnowsEnd(task[j])'
      <4>1. CASE j = k
        BY <2>3, <4>1 DEF KnowsEnd
      <4>2. CASE j # k
        <5>1. task'[j] = task[j] /\ task[j].pc # "read"
          BY <2>2, <2>3, <4>2
        <5>2. task[j].pc = "model" => task[j].seq \in 1 .. Segs + 1
          BY DEF GoodTask
        <5> QED BY <1>1, <3>5, <5>1, <5>2 DEF KnowsEnd
      <4> QED BY <4>1, <4>2
    <3>13. segments' # {}
      BY <3>4
    <3> QED BY <3>5, <3>8, <3>9, <3>10, <3>11, <3>12, <3>13 DEF Tiled
  <2> QED BY <1>5, <2>1, <2>4, <2>5 DEF AppendSummary
<1> QED BY <1>2, <1>3, <1>4, <1>5 DEF LayersNext

\* In a service of one process the summaries follow each other without a gap or
\* an overlap (summarizer.py _run; store.py append_summary), for any overlapping
\* tasks, failures and crashes.
THEOREM SegmentsFollow == OneWorker => (LayersSpec => []SegmentsTile)
<1> SUFFICES ASSUME OneWorker PROVE LayersSpec => []SegmentsTile
  OBVIOUS
<1>1. LayersInit => Tiled
  BY DEF LayersInit, Tiled, KnowsEnd, NoTask
<1>2. ASSUME LayersInv, Tiled, [LayersNext]_layersVars PROVE Tiled'
  <2>1. CASE UNCHANGED layersVars
    BY <1>2, <2>1 DEF layersVars, Tiled, KnowsEnd, Segs
  <2> QED BY <1>2, <2>1, StepTiled
<1>3. LayersInv /\ Tiled => SegmentsTile
  BY TiledIsTile
<1> QED BY <1>1, <1>2, <1>3, LayersInvariant, PTL DEF LayersSpec

-----------------------------------------------------------------------------
(* The retrieval loop.                                                     *)

Stops == TimeStop \cup {"none", "retrieval_error", "first_pass_sufficient",
           "sufficient", "token_budget", "analyzer_error", "clarify_needed",
           "refuse_no_evidence", "escalate_conflict", "no_new_queries",
           "rounds_exhausted"}

Loop == [pc : {"idle", "first", "judge", "analyze", "fetch", "final", "done", "raised"},
         round : 0 .. MaxRounds, asked : SUBSET Query, subs : SUBSET Query,
         fresh : BOOLEAN, merged : SUBSET Chunk, tokens : Nat, verdict : Verdict,
         scored : BOOLEAN, judged : SUBSET Chunk, reuse : BOOLEAN,
         stop : Stops, passed : BOOLEAN, rows : Nat]

\* What may be released: all of it judged, by a judge that did not refuse it or,
\* in the first retrieval, by one that accepted it or by the scores.
Gated(r) ==
  /\ r.judged = r.merged
  /\ ~LowConfidence(r.verdict, r.scored)
  /\ r.round > 0 => r.scored

\* Before the rounds begin none is counted, and a release is the last step.
LoopIsSound(r) ==
  /\ r \in Loop
  /\ r.pc \in {"idle", "first"} => r.round = 0
  /\ r.passed => r.pc = "done" /\ Gated(r)

LoopInv == LoopIsSound(rag)

LEMMA NoRagIsSound == LoopIsSound(NoRag)
  BY LoopAssumption DEF LoopIsSound, NoRag, Loop, Verdict, Stops

\* The ends of a round, from a record of which nothing has been released.
LEMMA StoppedIsSound ==
  ASSUME NEW r \in Loop, ~r.passed, NEW stop \in Stops, NEW row \in {0, 1}
  PROVE  LoopIsSound(Stopped(r, stop, row))
<1>1. r.rows + row \in Nat
  BY DEF Loop
<1>2. Stopped(r, stop, row) \in Loop
  BY <1>1 DEF Stopped, Loop
<1>3. ~Stopped(r, stop, row).passed /\ Stopped(r, stop, row).pc = "done"
  BY DEF Stopped, Loop
<1> QED
  BY <1>2, <1>3 DEF LoopIsSound

LEMMA ReleasedIsSound ==
  ASSUME NEW r \in Loop, Gated(r), NEW stop \in Stops
  PROVE  LoopIsSound(Released(r, stop))
<1>1. r.rows + 1 \in Nat
  BY DEF Loop
<1>2. Released(r, stop) \in Loop
  BY <1>1 DEF Released, Loop
<1>3. Gated(Released(r, stop)) /\ Released(r, stop).pc = "done"
  BY DEF Released, Loop, Gated
<1> QED
  BY <1>2, <1>3 DEF LoopIsSound

LEMMA NextRoundIsSound ==
  ASSUME NEW r \in Loop, ~r.passed
  PROVE  LoopIsSound(NextRound(r))
<1>1. r.rows + 1 \in Nat
  BY DEF Loop
<1>2. CASE r.round < MaxRounds
  <2>1. r.round + 1 \in 0 .. MaxRounds
    BY <1>2, LoopAssumption DEF Loop
  <2>2. NextRound(r) = [r EXCEPT !.pc = "judge", !.round = @ + 1, !.rows = @ + 1]
    BY <1>2 DEF NextRound
  <2> QED
    BY <1>1, <2>1, <2>2 DEF LoopIsSound, Loop
<1>3. CASE ~(r.round < MaxRounds)
  BY <1>1, <1>3 DEF LoopIsSound, NextRound, Loop
<1> QED
  BY <1>2, <1>3

LEMMA JudgedIsTyped ==
  ASSUME rag \in Loop, ~rag.passed, NEW res \in JudgeResults, NEW scored \in BOOLEAN
  PROVE  /\ Judged(res, scored) \in Loop
         /\ ~Judged(res, scored).passed
         /\ Judged(res, scored).judged = Judged(res, scored).merged
         /\ Judged(res, scored).verdict = res.verdict
         /\ Judged(res, scored).scored = scored
<1>1. res.verdict \in Verdict /\ res.cost \in Nat
  BY LoopAssumption DEF JudgeResults, Verdict
<1>2. rag.tokens + res.cost \in Nat
  BY <1>1 DEF Loop
<1> QED
  BY <1>1, <1>2 DEF Judged, Loop

LEMMA NotJudgedIsSound ==
  ASSUME rag \in Loop, ~rag.passed, NEW row \in {0, 1}, NotJudged(row)
  PROVE  LoopInv'
<1>1. CASE rag' = Stopped(rag, "token_budget", row)
  BY <1>1, StoppedIsSound DEF LoopInv, Stops
<1>2. ASSUME NEW stop \in TimeStop, NEW cost \in {0, Input},
             rag' = Stopped([rag EXCEPT !.tokens = @ + cost], stop, row)
      PROVE  LoopInv'
  <2>1. [rag EXCEPT !.tokens = @ + cost] \in Loop /\ ~[rag EXCEPT !.tokens = @ + cost].passed
    BY LoopAssumption DEF Loop
  <2> QED
    BY <1>2, <2>1, StoppedIsSound DEF LoopInv, Stops
<1> QED
  BY <1>1, <1>2 DEF NotJudged

\* A round that was judged: released, or the next state is given.
LEMMA AdmittedIsSound ==
  ASSUME rag \in Loop, ~rag.passed, NEW res \in JudgeResults, NEW scored \in BOOLEAN,
         Admitted(res.verdict, scored)
  PROVE  LoopIsSound(Released(Judged(res, scored), "sufficient"))
<1>1. Gated(Judged(res, scored))
  BY JudgedIsTyped DEF Gated, Admitted, LowConfidence
<1> QED
  BY <1>1, JudgedIsTyped, ReleasedIsSound DEF Stops

LEMMA RetrieveType ==
  ASSUME NEW res \in RetrieveResults
  PROVE  /\ res.verdict \in Verdict /\ res.items \in SUBSET Chunk /\ res.scored \in BOOLEAN
         /\ ~res.low => ~LowConfidence(res.verdict, res.scored)
         /\ res.low \in BOOLEAN
<1> DEFINE Found == {[items |-> S, verdict |-> v, scored |-> s, low |-> LowConfidence(v, s)] :
                       S \in SUBSET Chunk \ {{}}, v \in Verdict, s \in BOOLEAN}
<1>1. CASE res \in Found
  <2>1. PICK S \in SUBSET Chunk \ {{}}, v \in Verdict, s \in BOOLEAN :
          res = [items |-> S, verdict |-> v, scored |-> s, low |-> LowConfidence(v, s)]
    BY <1>1
  <2>2. res.verdict = v /\ res.items = S /\ res.scored = s /\ res.low = LowConfidence(v, s)
    BY <2>1, Zenon
  <2>3. LowConfidence(v, s) \in BOOLEAN
    BY DEF LowConfidence
  <2> QED
    BY <2>2, <2>3
<1>2. CASE res \notin Found
  <2>1. PICK S \in SUBSET Chunk :
          res = [items |-> S, verdict |-> "none", scored |-> FALSE, low |-> TRUE]
    <3> HIDE DEF Found
    <3> QED
      BY <1>2 DEF RetrieveResults, Found
  <2> QED
    BY <2>1 DEF Verdict
<1> QED
  BY <1>1, <1>2

LEMMA FirstRetrieveIsSound == ASSUME LoopInv, FirstRetrieve PROVE LoopInv'
<1>1. rag \in Loop /\ ~rag.passed /\ rag.round = 0
  BY DEF LoopInv, LoopIsSound, FirstRetrieve
<1>2. ASSUME NEW stop \in TimeStop \cup {"retrieval_error"}, rag' = Stopped(rag, stop, 1)
      PROVE  LoopInv'
  BY <1>1, <1>2, StoppedIsSound DEF LoopInv, Stops
<1>3. ASSUME NEW res \in RetrieveResults,
             LET low == [rag EXCEPT !.verdict = res.verdict]
                 found == [low EXCEPT !.merged = res.items, !.judged = res.items,
                                      !.scored = res.scored]
             IN  \/ res.low /\ rag' = NextRound(low)
                 \/ ~res.low /\ rag' = Released(found, "first_pass_sufficient")
                 \/ /\ ~res.low
                    /\ rag' = NextRound([found EXCEPT !.reuse = (res.verdict = "yes")])
      PROVE  LoopInv'
  <2> DEFINE low == [rag EXCEPT !.verdict = res.verdict]
             found == [low EXCEPT !.merged = res.items, !.judged = res.items,
                                  !.scored = res.scored]
             held == [found EXCEPT !.reuse = (res.verdict = "yes")]
  <2>1. /\ res.verdict \in Verdict /\ res.items \in SUBSET Chunk /\ res.scored \in BOOLEAN
        /\ ~res.low => ~LowConfidence(res.verdict, res.scored)
    BY RetrieveType
  <2>2. low \in Loop /\ ~low.passed
    BY <1>1, <2>1 DEF Loop
  <2>3. found \in Loop /\ ~found.passed
    BY <1>1, <2>1 DEF Loop
  <2>4. held \in Loop /\ ~held.passed
    BY <1>1, <2>1 DEF Loop
  <2>5. CASE rag' = NextRound(low)
    BY <2>2, <2>5, NextRoundIsSound DEF LoopInv
  <2>6. CASE ~res.low /\ rag' = Released(found, "first_pass_sufficient")
    <3>1. Gated(found)
      BY <1>1, <2>1, <2>6 DEF Gated, Loop
    <3> QED
      BY <2>3, <2>6, <3>1, ReleasedIsSound DEF LoopInv, Stops
  <2>7. CASE rag' = NextRound(held)
    BY <2>4, <2>7, NextRoundIsSound DEF LoopInv
  <2> QED
    BY <1>3, <2>5, <2>6, <2>7
<1> QED
  BY <1>2, <1>3 DEF FirstRetrieve

LEMMA JudgeRoundIsSound == ASSUME LoopInv, JudgeRound PROVE LoopInv'
<1>1. rag \in Loop /\ ~rag.passed
  BY DEF LoopInv, LoopIsSound, JudgeRound
<1>2. CASE NotJudged(0)
  BY <1>1, <1>2, NotJudgedIsSound
<1>3. ASSUME NEW res \in JudgeResults, NEW scored \in BOOLEAN,
             Admitted(res.verdict, scored), rag' = Released(Judged(res, scored), "sufficient")
      PROVE  LoopInv'
  BY <1>1, <1>3, AdmittedIsSound DEF LoopInv
<1>4. ASSUME NEW res \in JudgeResults, NEW scored \in BOOLEAN,
             rag' = [Judged(res, scored) EXCEPT !.pc = "analyze"]
      PROVE  LoopInv'
  BY <1>1, <1>4, JudgedIsTyped DEF LoopInv, LoopIsSound, Loop
<1> QED
  BY <1>2, <1>3, <1>4 DEF JudgeRound

LEMMA FinalJudgeIsSound == ASSUME LoopInv, FinalJudge PROVE LoopInv'
<1>1. rag \in Loop /\ ~rag.passed
  BY DEF LoopInv, LoopIsSound, FinalJudge
<1>2. CASE NotJudged(1)
  BY <1>1, <1>2, NotJudgedIsSound
<1>3. ASSUME NEW res \in JudgeResults, NEW scored \in BOOLEAN,
             Admitted(res.verdict, scored), rag' = Released(Judged(res, scored), "sufficient")
      PROVE  LoopInv'
  BY <1>1, <1>3, AdmittedIsSound DEF LoopInv
<1>4. ASSUME NEW res \in JudgeResults, NEW scored \in BOOLEAN,
             rag' = Stopped(Judged(res, scored), "rounds_exhausted", 1)
      PROVE  LoopInv'
  BY <1>1, <1>4, JudgedIsTyped, StoppedIsSound DEF LoopInv, Stops
<1> QED
  BY <1>2, <1>3, <1>4 DEF FinalJudge

LEMMA AnalyzeIsSound == ASSUME LoopInv, Analyze PROVE LoopInv'
<1>1. rag \in Loop /\ ~rag.passed
  BY DEF LoopInv, LoopIsSound, Analyze
<1>2. ASSUME NEW stop \in Stops, rag' = Stopped(rag, stop, 0)
      PROVE  LoopInv'
  BY <1>1, <1>2, StoppedIsSound DEF LoopInv
<1>3. ASSUME NEW stop \in Stops, NEW cost \in {0, Input},
             rag' = Stopped([rag EXCEPT !.tokens = @ + cost], stop, 0)
      PROVE  LoopInv'
  <2>1. [rag EXCEPT !.tokens = @ + cost] \in Loop /\ ~[rag EXCEPT !.tokens = @ + cost].passed
    BY <1>1, LoopAssumption DEF Loop
  <2> QED
    BY <1>3, <2>1, StoppedIsSound DEF LoopInv
<1>4. ASSUME NEW e \in 0 .. Extra,
             NEW action \in {"clarify_needed", "refuse_no_evidence", "escalate_conflict", "search"},
             NEW raw \in SUBSET Query,
             LET told == [rag EXCEPT !.tokens = @ + Input + Reserve + e]
                 subs == raw \ rag.asked
             IN  \/ action # "search" /\ raw = {} /\ rag' = Stopped(told, action, 0)
                 \/ /\ action = "search" /\ subs = {}
                    /\ rag' = Stopped(told, "no_new_queries", 0)
                 \/ /\ action = "search" /\ subs # {}
                    /\ rag' = [told EXCEPT !.pc = "fetch", !.subs = subs, !.fresh = FALSE,
                                           !.asked = @ \cup subs]
      PROVE  LoopInv'
  <2> DEFINE told == [rag EXCEPT !.tokens = @ + Input + Reserve + e]
  <2>1. told \in Loop /\ ~told.passed
    BY <1>1, LoopAssumption DEF Loop
  <2>2. ASSUME NEW stop \in Stops, rag' = Stopped(told, stop, 0)
        PROVE  LoopInv'
    BY <2>1, <2>2, StoppedIsSound DEF LoopInv
  <2>3. CASE rag' = [told EXCEPT !.pc = "fetch", !.subs = raw \ rag.asked, !.fresh = FALSE,
                                 !.asked = @ \cup (raw \ rag.asked)]
    BY <1>1, <2>1, <2>3 DEF LoopInv, LoopIsSound, Loop
  <2> QED
    BY <1>4, <2>2, <2>3 DEF Stops
<1> QED
  BY <1>2, <1>3, <1>4 DEF Analyze, Stops

LEMMA FetchIsSound == ASSUME LoopInv, FetchSub \/ EndRound PROVE LoopInv'
<1>1. rag \in Loop /\ ~rag.passed
  BY DEF LoopInv, LoopIsSound, FetchSub, EndRound
<1>2. ASSUME NEW stop \in Stops, rag' = Stopped(rag, stop, 1)
      PROVE  LoopInv'
  BY <1>1, <1>2, StoppedIsSound DEF LoopInv
<1>3. ASSUME NEW q \in rag.subs, rag' = [rag EXCEPT !.subs = @ \ {q}]
      PROVE  LoopInv'
  BY <1>1, <1>3 DEF LoopInv, LoopIsSound, Loop, FetchSub, EndRound
<1>4. ASSUME NEW q \in rag.subs, NEW res \in RetrieveResults,
             rag' = [rag EXCEPT !.subs = @ \ {q}, !.merged = @ \cup res.items,
                                !.fresh = @ \/ ~(res.items \subseteq rag.merged)]
      PROVE  LoopInv'
  <2>1. res.items \in SUBSET Chunk
    BY DEF RetrieveResults
  <2>2. rag.pc = "fetch"
    BY DEF FetchSub, EndRound
  <2> QED
    BY <1>1, <1>4, <2>1, <2>2 DEF LoopInv, LoopIsSound, Loop
<1>5. CASE rag' = NextRound(rag)
  BY <1>1, <1>5, NextRoundIsSound DEF LoopInv
<1> QED
  BY <1>2, <1>3, <1>4, <1>5 DEF FetchSub, EndRound, Stops

LEMMA RagStepIsSound == ASSUME LoopInv, RagStep PROVE LoopInv'
<1>1. CASE ReuseVerdict
  BY <1>1 DEF LoopInv, LoopIsSound, ReuseVerdict, Loop
<1>2. CASE Raised
  BY <1>2 DEF LoopInv, LoopIsSound, Raised, Loop
<1> QED
  BY <1>1, <1>2, FirstRetrieveIsSound, JudgeRoundIsSound, FinalJudgeIsSound,
     AnalyzeIsSound, FetchIsSound DEF RagStep

LEMMA RagStartIsSound == ASSUME RagStart PROVE LoopInv'
<1>1. NoRag \in Loop
  BY NoRagIsSound DEF LoopIsSound
<1>2. NoRag.round = 0 /\ ~NoRag.passed
  BY DEF NoRag
<1> QED
  BY <1>1, <1>2, LoopAssumption DEF RagStart, LoopInv, LoopIsSound, Loop

\* The loop by itself, as app/rag_loop.py runs it for any caller: its fields stay
\* within their types, for any number of rounds, queries and tokens.
THEOREM LoopTypeCorrect == RagSpec => []RagTypeOK
<1>1. RagInit => LoopInv
  BY NoRagIsSound DEF RagInit, LoopInv
<1>2. LoopInv /\ [RagNext]_rag => LoopInv'
  BY RagStartIsSound, RagStepIsSound DEF RagNext, LoopInv
<1>3. LoopInv => RagTypeOK
  BY DEF LoopInv, LoopIsSound, Loop, Stops, RagTypeOK
<1> QED
  BY <1>1, <1>2, <1>3, PTL DEF RagSpec

\* No evidence is released that the gate has not passed, however the rounds, the
\* judge's silence, the token budget and the time limits fall together
\* (rag_loop.py:442-449, :487-503, :612-646).
THEOREM LoopGatedRelease == RagSpec => []GatedRelease
<1>1. RagInit => LoopInv
  BY NoRagIsSound DEF RagInit, LoopInv
<1>2. LoopInv /\ [RagNext]_rag => LoopInv'
  BY RagStartIsSound, RagStepIsSound DEF RagNext, LoopInv
<1>3. LoopInv => GatedRelease
  BY DEF LoopInv, LoopIsSound, Gated, GatedRelease
<1> QED
  BY <1>1, <1>2, <1>3, PTL DEF RagSpec

-----------------------------------------------------------------------------
(* The graph.                                                              *)

Nodes == {"end", "failed", "resolve", "intent", "agentic_retrieve", "retrieve", "gate",
          "fallback", "complaint", "chitchat", "prepare_order", "ask_order",
          "fetch_order", "expand", "policy_retrieve", "answer_plan", "agent", "log",
          "log_refusal"}

Text == {"none", "answer", "refusal", "clarify", "fixed", "bit"}
State == [evidence : Nat, low : BOOLEAN, passed : BOOLEAN, order : Nat,
          refund : BOOLEAN, steps : 0 .. MaxAgentSteps, reply : Text]
ThreadMessage == [turn : Nat, who : {"assistant"}, text : Text]
             \cup [turn : Nat, who : {"user"}, text : {"question"}]

TypeInv ==
  /\ setup \in Setups
  /\ turnNo \in 0 .. MaxTurns
  /\ node \in Nodes
  /\ st \in State
  /\ thread \in Seq(ThreadMessage)
  /\ stored \in Seq(ThreadMessage)

\* What the fields of a turn's state are from: this turn, or nothing.
FieldsAreFresh == st.evidence \in {0, turnNo} /\ st.order \in {0, turnNo}

\* Where a turn may be that has begun the refund flow, and from where on it has
\* its order.
OnRefundWay ==
  st.refund => node \in {"fetch_order", "ask_order", "expand", "policy_retrieve",
                         "agent", "fallback", "log", "log_refusal", "end", "failed"}
RefundHasOrder ==
  st.refund /\ node \in {"expand", "policy_retrieve", "agent"} => st.order = turnNo

\* No message is of a turn to come, no row of a turn that has not been logged.
MessagesArePast == \A i \in DOMAIN thread : thread[i].turn <= turnNo
RowsArePast ==
  \A i \in DOMAIN stored :
    /\ stored[i].turn <= turnNo
    /\ node \notin {"log_refusal", "end", "failed"} => stored[i].turn < turnNo

\* The texts of a turn have a last one, and before the turn is logged it is the
\* reply.
NoReplyYet == node \notin {"log", "log_refusal", "end", "failed"} => st.reply = "none"
IsLast(i) == i \in Texts /\ \A j \in Texts : j <= i
SomeLast == Texts # {} => \E i \in Texts : IsLast(i)
ReplyIsLast ==
  node = "log" /\ st.reply # "none" => \E i \in Texts : IsLast(i) /\ thread[i].text = st.reply

ReplyIsKept == node \in {"log_refusal", "end"} => ReplyIsStored

\* The invariant: what is about the state of a turn, and what about its texts.
StateInv == TypeInv /\ FieldsAreFresh /\ OnRefundWay /\ RefundHasOrder
TextInv ==
  /\ TypeInv
  /\ MessagesArePast
  /\ RowsArePast
  /\ NoReplyYet
  /\ SomeLast
  /\ ReplyIsLast
  /\ ReplyIsKept
  /\ node = "end" => RefusalIsCaptured

GraphInv == LoopInv /\ StateInv /\ TextInv

LEMMA GraphInitIsSound == GraphInit => LoopInv /\ StateInv /\ TextInv
<1> SUFFICES ASSUME GraphInit PROVE LoopInv /\ StateInv /\ TextInv
  OBVIOUS
<1>1. LoopInv
  BY NoRagIsSound DEF GraphInit, LoopInv
<1>2. TypeInv
  <2>1. st \in State
    BY GraphAssumption DEF GraphInit, State, Text
  <2>2. turnNo \in 0 .. MaxTurns /\ node \in Nodes /\ setup \in Setups
    BY GraphAssumption DEF GraphInit, Nodes
  <2>3. thread \in Seq(ThreadMessage) /\ stored \in Seq(ThreadMessage)
    BY DEF GraphInit
  <2> QED
    BY <2>1, <2>2, <2>3 DEF TypeInv
<1>3. StateInv
  BY <1>2 DEF GraphInit, StateInv, FieldsAreFresh, OnRefundWay, RefundHasOrder
<1>4. TextInv
  <2>1. Texts = {}
    BY DEF GraphInit, Texts
  <2> QED
    BY <1>2, <2>1 DEF GraphInit, TextInv, MessagesArePast, RowsArePast, NoReplyYet,
       SomeLast, ReplyIsLast, ReplyIsKept, ReplyIsStored, RefusalIsCaptured
<1> QED
  BY <1>1, <1>3, <1>4

\* The nodes that neither speak nor log: where they lead and what they set.
LEMMA QuietNodes ==
  ASSUME TypeInv, Resolve \/ Intent \/ Retrieve \/ Gate \/ AgenticPassed \/ PrepareOrder
                    \/ AskOrder \/ FetchOrder \/ Expand \/ PolicyRetrieve
  PROVE  /\ UNCHANGED <<setup, turnNo, thread, stored>>
         /\ node' \in Nodes \ {"end", "failed", "log_refusal"}
         /\ node \notin {"log", "log_refusal", "end", "failed"}
         /\ node' = "log" => st' = st /\ node = "ask_order"
         /\ st' \in State /\ st'.reply = st.reply
<1>1. st \in State /\ turnNo \in Nat
  BY GraphAssumption DEF TypeInv
<1>2. CASE Resolve \/ Intent \/ AskOrder \/ Expand
  BY <1>1, <1>2 DEF Resolve, Intent, AskOrder, Expand, Moves, Retrieves, Nodes
<1>3. CASE Retrieve
  <2>1. PICK res \in RetrieveResults :
          st' = [st EXCEPT !.low = res.low, !.evidence = IF res.low THEN 0 ELSE turnNo]
    BY <1>3 DEF Retrieve
  <2>2. res.low \in BOOLEAN
    BY RetrieveType
  <2> QED
    BY <1>1, <1>3, <2>1, <2>2 DEF Retrieve, Moves, Nodes, State
<1>4. CASE Gate \/ AgenticPassed
  BY <1>1, <1>4 DEF Gate, AgenticPassed, Answers, Nodes, State
<1>5. CASE PrepareOrder \/ FetchOrder
  BY <1>1, <1>5 DEF PrepareOrder, FetchOrder, Moves, Nodes, State
<1>6. CASE PolicyRetrieve
  BY <1>1, <1>6 DEF PolicyRetrieve, Nodes, State
<1> QED
  BY <1>2, <1>3, <1>4, <1>5, <1>6

LEMMA SayKeeps ==
  ASSUME TypeInv, MessagesArePast, SomeLast, turnNo' = turnNo,
         NEW text \in Text, Say(text)
  PROVE  /\ thread' \in Seq(ThreadMessage) /\ MessagesArePast' /\ SomeLast'
         /\ text # "none" => \E i \in Texts' : IsLast(i)' /\ thread'[i].text = text
<1> DEFINE message == [turn |-> turnNo, who |-> "assistant", text |-> text]
           n == Len(thread) + 1
<1>1. message \in ThreadMessage /\ message.turn = turnNo /\ message.who = "assistant"
        /\ message.text = text
  BY DEF ThreadMessage, TypeInv
<1>2. /\ thread' = Append(thread, message) /\ thread' \in Seq(ThreadMessage)
      /\ DOMAIN thread' = DOMAIN thread \cup {n} /\ thread'[n] = message
      /\ \A i \in DOMAIN thread : thread'[i] = thread[i] /\ i < n
      /\ n \in Nat
  <2> HIDE DEF message
  <2> QED
    BY <1>1 DEF Say, TypeInv, message
<1>3. MessagesArePast'
  BY <1>1, <1>2 DEF MessagesArePast, TypeInv
<1>4. CASE text = "none"
  <2>1. Texts' = Texts
    BY <1>1, <1>2, <1>4 DEF Texts
  <2> QED
    BY <1>2, <1>3, <1>4, <2>1 DEF SomeLast, IsLast
<1>5. CASE text # "none"
  <2>1. Texts' = Texts \cup {n} /\ Texts \subseteq DOMAIN thread
    BY <1>1, <1>2, <1>5 DEF Texts
  <2>2. \A j \in Texts' : j <= n
    BY <1>2, <2>1 DEF TypeInv
  <2> QED
    BY <1>1, <1>2, <1>3, <2>1, <2>2 DEF SomeLast, IsLast
<1> QED
  BY <1>4, <1>5

\* A node that replies, with what it leaves alone.
LEMMA RepliesKeeps ==
  ASSUME TextInv, NEW text \in Text, Say(text), st'.reply = text, st' \in State,
         node \notin {"log", "log_refusal", "end", "failed"}, node' = "log",
         UNCHANGED <<setup, turnNo, stored>>
  PROVE  TextInv'
<1>1. TypeInv' /\ MessagesArePast' /\ SomeLast' /\ ReplyIsLast'
  BY SayKeeps DEF TextInv, TypeInv, ReplyIsLast, Nodes
<1> QED
  BY <1>1 DEF TextInv, RowsArePast, NoReplyYet, ReplyIsKept

LEMMA QuietKeepsTexts ==
  ASSUME TextInv, UNCHANGED <<setup, turnNo, thread, stored>>,
         node' \in Nodes \ {"end", "log_refusal"},
         node \notin {"log", "log_refusal", "end", "failed"},
         st' \in State, st'.reply = st.reply
  PROVE  TextInv'
<1>1. Texts' = Texts /\ (SomeLast <=> SomeLast')
  BY DEF Texts, SomeLast, IsLast
<1> QED
  BY <1>1 DEF TextInv, TypeInv, MessagesArePast, RowsArePast, NoReplyYet, ReplyIsLast,
     ReplyIsKept

LEMMA LastTextIsLast ==
  ASSUME TypeInv, SomeLast, Texts # {}
  PROVE  \E i \in Texts : IsLast(i) /\ LastText = thread[i]
<1> DEFINE i == CHOOSE k \in Texts : \A j \in Texts : j <= k
<1>1. i \in Texts /\ \A j \in Texts : j <= i
  BY DEF SomeLast, IsLast
<1> QED
  BY <1>1 DEF LastText, IsLast

LEMMA LastTextType ==
  ASSUME TypeInv, SomeLast, Texts # {}
  PROVE  /\ LastText \in ThreadMessage /\ LastText.text \in Text
         /\ LastText = [turn |-> turnNo, who |-> "assistant", text |-> LastText.text]
<1>1. PICK i \in Texts : LastText = thread[i]
  BY LastTextIsLast
<1>2. /\ LastText \in ThreadMessage /\ LastText.turn = turnNo /\ LastText.who = "assistant"
  BY <1>1 DEF Texts, TypeInv
<1> QED
  BY <1>2 DEF ThreadMessage

LEMMA StartTurnKeeps ==
  ASSUME StateInv, TextInv, StartTurn
  PROVE  StateInv' /\ TextInv'
<1> DEFINE question == [turn |-> turnNo', who |-> "user", text |-> "question"]
           n == Len(thread) + 1
<1>1. turnNo' = turnNo + 1 /\ turnNo' \in 0 .. MaxTurns /\ turnNo \in Nat
  BY GraphAssumption DEF StartTurn, StateInv, TypeInv
<1>2. /\ question \in ThreadMessage /\ question.who = "user" /\ question.turn = turnNo'
  BY <1>1 DEF ThreadMessage
<1>3. /\ thread' = Append(thread, question) /\ thread' \in Seq(ThreadMessage)
      /\ DOMAIN thread' = DOMAIN thread \cup {n} /\ thread'[n] = question
      /\ \A i \in DOMAIN thread : thread'[i] = thread[i]
  <2> HIDE DEF question
  <2> QED
    BY <1>2 DEF StartTurn, StateInv, TypeInv, question
<1>4. st' \in State /\ st'.reply = "none" /\ st'.evidence = 0 /\ st'.order = 0 /\ ~st'.refund
  BY GraphAssumption DEF StartTurn, InitialState, State, Text
<1>5. TypeInv'
  BY <1>1, <1>3, <1>4 DEF StartTurn, StateInv, TypeInv, Nodes
<1>6. \A i \in DOMAIN thread : thread[i].turn \in Nat /\ thread[i].turn <= turnNo
  <2>1. \A i \in DOMAIN thread : thread[i] \in ThreadMessage
    BY DEF StateInv, TypeInv
  <2> QED
    BY <2>1 DEF TextInv, MessagesArePast, ThreadMessage
<1>7. Texts' = {}
  BY <1>1, <1>2, <1>3, <1>6 DEF Texts
<1>8. MessagesArePast'
  BY <1>1, <1>2, <1>3, <1>6 DEF MessagesArePast
<1>9. RowsArePast'
  <2>1. \A i \in DOMAIN stored : stored[i].turn \in Nat /\ stored[i].turn <= turnNo
    <3>1. \A i \in DOMAIN stored : stored[i] \in ThreadMessage
      BY DEF StateInv, TypeInv
    <3> QED
      BY <3>1 DEF TextInv, RowsArePast, ThreadMessage
  <2> QED
    BY <1>1, <2>1 DEF RowsArePast, StartTurn
<1> QED
  BY <1>4, <1>5, <1>7, <1>8, <1>9 DEF StartTurn, StateInv, FieldsAreFresh, OnRefundWay,
     RefundHasOrder, TextInv, NoReplyYet, SomeLast, ReplyIsLast, ReplyIsKept

\* The state of the turn under way.
LEMMA StepKeepsState ==
  ASSUME StateInv, TextInv, GraphStep
  PROVE  FieldsAreFresh' /\ OnRefundWay' /\ RefundHasOrder'
<1> USE DEF StateInv, FieldsAreFresh, OnRefundWay, RefundHasOrder
<1>1. st \in State /\ node \in Nodes
  BY DEF TypeInv
<1>2. CASE Resolve \/ Intent \/ AskOrder \/ Expand
  BY <1>2 DEF Resolve, Intent, AskOrder, Expand, Moves, Retrieves
<1>3. CASE FixedReply \/ Fallback \/ AnswerPlan \/ AgentConverges
  BY <1>1, <1>3 DEF FixedReply, Fallback, AnswerPlan, AgentConverges, Replies, State
<1>4. CASE AgenticClarifies \/ AgenticRefuses
  BY <1>1, <1>4 DEF AgenticClarifies, AgenticRefuses, Replies, State
<1>5. CASE Retrieve
  BY <1>1, <1>5 DEF Retrieve, Moves, State
<1>6. CASE Gate \/ AgenticPassed
  BY <1>1, <1>6 DEF Gate, AgenticPassed, Answers, State
<1>7. CASE AgenticStart \/ AgenticStep
  BY <1>7 DEF AgenticStart, AgenticStep
<1>8. CASE PrepareOrder \/ FetchOrder
  BY <1>1, <1>8 DEF PrepareOrder, FetchOrder, Moves, State
<1>9. CASE PolicyRetrieve
  BY <1>1, <1>9 DEF PolicyRetrieve, State
<1>10. CASE AgentStep
  BY <1>1, <1>10 DEF AgentStep, State
<1>11. CASE AgentCutOff
  BY <1>1, <1>11 DEF AgentCutOff, State
<1>12. CASE LogRows \/ LogRefusal
  BY <1>12 DEF LogRows, LogRefusal
<1> QED
  BY <1>2, <1>3, <1>4, <1>5, <1>6, <1>7, <1>8, <1>9, <1>10, <1>11, <1>12 DEF GraphStep

LEMMA RepliesKeepsTexts ==
  ASSUME TextInv, FixedReply \/ Fallback \/ AnswerPlan \/ AgentConverges
                    \/ AgenticClarifies \/ AgenticRefuses
  PROVE  TextInv'
<1> DEFINE Replied(text) ==
      /\ Say(text) /\ st'.reply = text /\ st' \in State
      /\ node \notin {"log", "log_refusal", "end", "failed"} /\ node' = "log"
      /\ UNCHANGED <<setup, turnNo, stored>>
<1>1. st \in State
  BY DEF TextInv, TypeInv
<1>2. ASSUME NEW text \in Text, NEW from \in Nodes \ {"log", "log_refusal", "end", "failed"},
             Replies(from, text), UNCHANGED <<setup, turnNo, stored>>
      PROVE  Replied(text)
  BY <1>1, <1>2 DEF Replies, State
<1>3. CASE FixedReply \/ Fallback \/ AnswerPlan \/ AgenticClarifies
  BY <1>2, <1>3, RepliesKeeps DEF FixedReply, Fallback, AnswerPlan, AgenticClarifies, Text, Nodes
<1>4. CASE AgentConverges
  <2>1. PICK text \in {"none", "answer", "refusal"} : \E final \in Finals(text) : Replies("agent", final)
    BY <1>4 DEF AgentConverges
  <2>2. PICK final \in Finals(text) : Replies("agent", final)
    BY <2>1
  <2>3. final \in Text
    BY <2>1, <2>2 DEF Finals, Text
  <2> QED
    BY <1>2, <1>4, <2>2, <2>3, RepliesKeeps DEF AgentConverges, Nodes
<1>5. CASE AgenticRefuses
  <2>1. Replied("refusal")
    BY <1>1, <1>5 DEF AgenticRefuses, State, Text
  <2> QED
    BY <2>1, RepliesKeeps DEF Text
<1> QED
  BY <1>3, <1>4, <1>5

LEMMA AgentKeepsTexts ==
  ASSUME TextInv, AgentStep \/ AgentCutOff
  PROVE  TextInv'
<1>1. /\ TypeInv /\ st \in State /\ SomeLast /\ MessagesArePast
      /\ node = "agent" /\ UNCHANGED <<setup, turnNo, stored>>
  BY DEF TextInv, TypeInv, AgentStep, AgentCutOff
<1>2. CASE AgentStep
  <2>1. PICK text \in {"none", "bit"} : Say(text)
    BY <1>2 DEF AgentStep
  <2>2. st.steps + 1 \in 0 .. MaxAgentSteps
    BY <1>1, <1>2, GraphAssumption DEF AgentStep, State
  <2>3. st' \in State /\ st'.reply = st.reply
    BY <1>1, <1>2, <2>2 DEF AgentStep, State
  <2>4. thread' \in Seq(ThreadMessage) /\ MessagesArePast' /\ SomeLast'
    BY <1>1, <2>1, SayKeeps DEF Text
  <2> QED
    BY <1>1, <1>2, <2>3, <2>4 DEF AgentStep, TextInv, TypeInv, RowsArePast, NoReplyYet,
       ReplyIsLast, ReplyIsKept
<1>3. CASE AgentCutOff
  <2> DEFINE candidate == IF Texts = {} THEN "fixed" ELSE LastText.text
  <2>1. candidate \in Text
    BY <1>1, LastTextType DEF Text
  <2>2. PICK final \in Finals(candidate) :
          /\ st' = [st EXCEPT !.reply = final]
          /\ IF SaysFinal(candidate, final) THEN Say(final) ELSE UNCHANGED thread
    BY <1>3 DEF AgentCutOff
  <2>3. final \in Text
    BY <2>1, <2>2 DEF Finals, Text
  <2>4. st' \in State /\ st'.reply = final /\ node' = "log"
    BY <1>1, <1>3, <2>2, <2>3 DEF AgentCutOff, State
  <2>5. CASE SaysFinal(candidate, final)
    BY <1>1, <2>2, <2>3, <2>4, <2>5, RepliesKeeps
  <2>6. CASE ~SaysFinal(candidate, final)
    <3>1. Texts # {} /\ final = LastText.text /\ UNCHANGED thread
      BY <2>2, <2>6 DEF SaysFinal
    <3>2. Texts' = Texts
      BY <1>1, <3>1 DEF Texts
    <3>3. PICK i \in Texts : IsLast(i) /\ LastText = thread[i]
      BY <1>1, <3>1, LastTextIsLast
    <3>4. SomeLast' /\ ReplyIsLast'
      BY <2>4, <3>1, <3>2, <3>3 DEF SomeLast, ReplyIsLast, IsLast
    <3> QED
      BY <1>1, <2>4, <3>1, <3>4 DEF TextInv, TypeInv, MessagesArePast, RowsArePast,
         NoReplyYet, ReplyIsKept, Nodes
  <2> QED
    BY <2>5, <2>6
<1> QED
  BY <1>2, <1>3

\* The rows of the turn: no row was of it before, and the last text is the reply.
LEMMA LogRowsKeepsTexts ==
  ASSUME TextInv, LogRows
  PROVE  TextInv'
<1> DEFINE question == [turn |-> turnNo, who |-> "user", text |-> "question"]
           n == Len(stored)
<1>1. /\ TypeInv /\ SomeLast /\ stored \in Seq(ThreadMessage) /\ turnNo \in Nat
      /\ node = "log" /\ node' \in {"log_refusal", "end"}
      /\ UNCHANGED <<setup, turnNo, st, thread, pool>>
  BY GraphAssumption DEF TextInv, TypeInv, LogRows
<1>2. question \in ThreadMessage /\ question.who = "user" /\ question.turn = turnNo
  BY <1>1 DEF ThreadMessage
<1>3. \A i \in DOMAIN stored : stored[i].turn \in Nat /\ stored[i].turn < turnNo
  <2>1. \A i \in DOMAIN stored : stored[i] \in ThreadMessage
    BY <1>1
  <2> QED
    BY <1>1, <2>1 DEF TextInv, RowsArePast, ThreadMessage
<1>4. Texts' = Texts /\ SomeLast' /\ MessagesArePast'
  BY <1>1 DEF TextInv, Texts, SomeLast, IsLast, MessagesArePast
<1>5. CASE Texts = {}
  <2>1. stored' = Append(stored, question)
    BY <1>1, <1>5 DEF LogRows, TurnRows
  <2>2. /\ stored' \in Seq(ThreadMessage) /\ DOMAIN stored' = DOMAIN stored \cup {n + 1}
        /\ stored'[n + 1] = question /\ \A i \in DOMAIN stored : stored'[i] = stored[i]
    <3> HIDE DEF question
    <3> QED
      BY <1>1, <1>2, <2>1
  <2>3. st.reply = "none"
    BY <1>1, <1>5 DEF TextInv, ReplyIsLast
  <2>4. RowsArePast'
    BY <1>1, <1>2, <1>3, <2>2 DEF RowsArePast
  <2> QED
    BY <1>1, <1>4, <2>2, <2>3, <2>4 DEF TextInv, TypeInv, NoReplyYet, ReplyIsLast,
       ReplyIsKept, ReplyIsStored, RefusalIsCaptured, Nodes
<1>6. CASE Texts # {}
  <2>1. stored' = stored \o (<<question>> \o <<LastText>>)
    BY <1>1, <1>6 DEF LogRows, TurnRows
  <2>2. /\ LastText \in ThreadMessage
        /\ LastText = [turn |-> turnNo, who |-> "assistant", text |-> LastText.text]
    BY <1>1, <1>6, LastTextType
  <2>3. /\ stored' \in Seq(ThreadMessage) /\ DOMAIN stored' = DOMAIN stored \cup {n + 1, n + 2}
        /\ n \in Nat /\ n + 1 \notin DOMAIN stored /\ n + 2 \notin DOMAIN stored
        /\ stored'[n + 1] = question /\ stored'[n + 2] = LastText
        /\ \A i \in DOMAIN stored : stored'[i] = stored[i]
    <3> DEFINE last == LastText
    <3> HIDE DEF question, last
    <3>1. question \in ThreadMessage /\ last \in ThreadMessage
      BY <1>2, <2>2 DEF last
    <3>2. stored' = stored \o (<<question>> \o <<last>>)
      BY <2>1 DEF last
    <3>3. /\ stored' \in Seq(ThreadMessage) /\ DOMAIN stored' = DOMAIN stored \cup {n + 1, n + 2}
          /\ n \in Nat /\ n + 1 \notin DOMAIN stored /\ n + 2 \notin DOMAIN stored
          /\ stored'[n + 1] = question /\ stored'[n + 2] = last
          /\ \A i \in DOMAIN stored : stored'[i] = stored[i]
      BY <1>1, <3>1, <3>2, SMTT(30)
    <3> QED
      BY <3>3 DEF last
  <2>4. RowsArePast'
    BY <1>1, <1>2, <1>3, <2>2, <2>3 DEF RowsArePast
  <2>5. st.reply # "none" => LastText.text = st.reply
    <3>1. SUFFICES ASSUME st.reply # "none" PROVE LastText.text = st.reply
      OBVIOUS
    <3>2. PICK i \in Texts : IsLast(i) /\ thread[i].text = st.reply
      BY <1>1, <3>1 DEF TextInv, ReplyIsLast
    <3>3. PICK j \in Texts : IsLast(j) /\ LastText = thread[j]
      BY <1>1, <1>6, LastTextIsLast
    <3>4. i <= j /\ j <= i /\ i \in Nat /\ j \in Nat
      BY <1>1, <3>2, <3>3 DEF IsLast, Texts, TypeInv
    <3> QED
      BY <3>2, <3>3, <3>4
  <2>6. ReplyIsStored'
    <3>1. SUFFICES ASSUME st.reply # "none" PROVE ReplyIsStored'
      BY <1>1 DEF ReplyIsStored
    <3>2. stored'[n + 2] = [turn |-> turnNo', who |-> "assistant", text |-> st'.reply]
      BY <1>1, <2>2, <2>3, <2>5, <3>1
    <3>3. \A j \in DOMAIN stored' \ {n + 2} : stored'[j].turn # turnNo' \/ stored'[j].who = "user"
      BY <1>1, <1>2, <1>3, <2>3
    <3> QED
      BY <2>3, <3>2, <3>3 DEF ReplyIsStored
  <2>7. node' = "end" => RefusalIsCaptured'
    BY <1>1 DEF LogRows, RefusalIsCaptured
  <2> QED
    BY <1>1, <1>4, <2>3, <2>4, <2>6, <2>7 DEF TextInv, TypeInv, NoReplyYet, ReplyIsLast,
       ReplyIsKept, Nodes
<1> QED
  BY <1>5, <1>6

\* The pool has the question of a refused turn before the turn ends.
LEMMA LogRefusalKeepsTexts ==
  ASSUME TextInv, LogRefusal
  PROVE  TextInv'
<1>1. /\ node = "log_refusal" /\ node' = "end" /\ pool' = pool \cup {turnNo}
      /\ UNCHANGED <<setup, turnNo, st, thread, stored>>
  BY DEF LogRefusal
<1>2. Texts' = Texts /\ SomeLast' /\ (ReplyIsStored <=> ReplyIsStored') /\ RefusalIsCaptured'
  BY <1>1 DEF TextInv, Texts, SomeLast, IsLast, ReplyIsStored, RefusalIsCaptured
<1> QED
  BY <1>1, <1>2 DEF TextInv, TypeInv, MessagesArePast, RowsArePast, NoReplyYet, ReplyIsLast,
     ReplyIsKept, Nodes

LEMMA FailKeepsTexts ==
  ASSUME TextInv, TurnFails
  PROVE  TextInv'
<1>1. Texts' = Texts /\ SomeLast' /\ node' = "failed"
        /\ UNCHANGED <<setup, turnNo, st, thread, stored, pool>>
  BY DEF TurnFails, TextInv, Texts, SomeLast, IsLast
<1> QED
  BY <1>1 DEF TextInv, TypeInv, MessagesArePast, RowsArePast, NoReplyYet, ReplyIsLast,
     ReplyIsKept, Nodes

-----------------------------------------------------------------------------
(* The inductive step.                                                     *)

LEMMA StepKeepsTexts == ASSUME TextInv, GraphStep PROVE TextInv'
<1>1. CASE AgenticStart \/ AgenticStep
  BY <1>1 DEF AgenticStart, AgenticStep, TextInv, TypeInv, MessagesArePast, RowsArePast,
     NoReplyYet, SomeLast, IsLast, Texts, ReplyIsLast, ReplyIsKept, ReplyIsStored,
     RefusalIsCaptured
<1>2. CASE Resolve \/ Intent \/ Retrieve \/ Gate \/ AgenticPassed \/ PrepareOrder
             \/ AskOrder \/ FetchOrder \/ Expand \/ PolicyRetrieve
  BY <1>2, QuietNodes, QuietKeepsTexts DEF TextInv
<1> QED
  BY <1>1, <1>2, RepliesKeepsTexts, AgentKeepsTexts, LogRowsKeepsTexts,
     LogRefusalKeepsTexts DEF GraphStep

LEMMA StepKeepsLoop == ASSUME LoopInv, GraphNext PROVE LoopInv'
<1>1. CASE AgenticStart \/ AgenticStep
  BY <1>1, RagStartIsSound, RagStepIsSound DEF AgenticStart, AgenticStep
<1>2. CASE rag' = NoRag
  BY <1>2, NoRagIsSound DEF LoopInv
<1>3. CASE UNCHANGED rag
  BY <1>3 DEF LoopInv
<1>4. GraphNext => AgenticStart \/ AgenticStep \/ rag' = NoRag \/ UNCHANGED rag
  BY DEF GraphNext, GraphStep, StartTurn, TurnFails, Resolve, Intent, FixedReply, Retrieve,
     Gate, Fallback, AgenticPassed, AgenticClarifies, AgenticRefuses, PrepareOrder,
     AskOrder, FetchOrder, Expand, PolicyRetrieve, AnswerPlan, AgentStep, AgentConverges,
     AgentCutOff, LogRows, LogRefusal, Moves
<1> QED
  BY <1>1, <1>2, <1>3, <1>4

LEMMA GraphInvIsInductive == ASSUME GraphInv, [GraphNext]_graphVars PROVE GraphInv'
<1>1. CASE UNCHANGED graphVars
  BY <1>1 DEF graphVars, GraphInv, LoopInv, StateInv, FieldsAreFresh, OnRefundWay,
     RefundHasOrder, TextInv, TypeInv, MessagesArePast, RowsArePast, NoReplyYet, SomeLast,
     IsLast, Texts, ReplyIsLast, ReplyIsKept, ReplyIsStored, RefusalIsCaptured
<1>2. CASE GraphNext
  <2>1. LoopInv'
    BY <1>2, StepKeepsLoop DEF GraphInv
  <2>2. CASE StartTurn
    BY <2>1, <2>2, StartTurnKeeps DEF GraphInv
  <2>3. CASE GraphStep
    <3>1. TextInv'
      BY <2>3, StepKeepsTexts DEF GraphInv
    <3> QED
      BY <2>1, <2>3, <3>1, StepKeepsState DEF GraphInv, StateInv, TextInv
  <2>4. CASE TurnFails
    <3>1. TextInv'
      BY <2>4, FailKeepsTexts DEF GraphInv
    <3>2. FieldsAreFresh' /\ OnRefundWay' /\ RefundHasOrder'
      BY <2>4 DEF TurnFails, GraphInv, StateInv, FieldsAreFresh, OnRefundWay, RefundHasOrder
    <3> QED
      BY <2>1, <3>1, <3>2 DEF GraphInv, StateInv, TextInv
  <2> QED
    BY <1>2, <2>2, <2>3, <2>4 DEF GraphNext
<1> QED
  BY <1>1, <1>2

\* The loop, the state of the turn and the texts of the thread keep the invariant
\* through every route of the graph, turn after turn (graph/builder.py).
THEOREM GraphInvariance == GraphSpec => []GraphInv
<1>1. GraphInit => GraphInv
  BY GraphInitIsSound DEF GraphInv
<1> QED
  BY <1>1, GraphInvIsInductive, PTL DEF GraphSpec

\* The state of a turn, its route and its counters stay within their types, for
\* any number of turns and of agent steps.
THEOREM GraphTypeCorrect == GraphSpec => []GraphTypeOK
<1>1. GraphInv => GraphTypeOK
  <2> SUFFICES ASSUME GraphInv PROVE GraphTypeOK
    OBVIOUS
  <2>1. TypeInv /\ FieldsAreFresh /\ turnNo \in Nat
    BY GraphAssumption DEF GraphInv, StateInv, TypeInv
  <2>2. 0 \in 0 .. turnNo /\ turnNo \in 0 .. turnNo
    BY <2>1
  <2> QED
    BY <2>1, <2>2 DEF GraphTypeOK, TypeInv, FieldsAreFresh, State, Text
<1> QED
  BY <1>1, GraphInvariance, PTL

\* Within the graph, too, the loop hands on only what its gate passed: neither a
\* turn that fails inside it nor the next turn's run can leave evidence released
\* (agentic.py:60-136, rag_loop.py:612-646).
THEOREM GraphGatedRelease == GraphSpec => []GatedRelease
<1>1. GraphInv => GatedRelease
  BY DEF GraphInv, LoopInv, LoopIsSound, Gated, GatedRelease
<1> QED
  BY <1>1, GraphInvariance, PTL

\* In every turn of a thread, whatever the turns before it left and wherever they
\* failed, an answer is made from the evidence and the order of this turn
\* (builder.py:192-224, agent.py:105-116).
THEOREM GraphStateIsOfThisTurn == GraphSpec => []StateIsOfThisTurn
<1>1. GraphInv => StateIsOfThisTurn
  BY DEF GraphInv, StateInv, FieldsAreFresh, OnRefundWay, RefundHasOrder, StateIsOfThisTurn
<1> QED
  BY <1>1, GraphInvariance, PTL

\* A turn that ended has its reply as the one assistant row of the turn, and its
\* question in the pool if the reply is a refusal (logging_node.py:22-55).
THEOREM GraphEndedTurnIsKept == GraphSpec => []EndedTurnIsKept
<1>1. GraphInv => EndedTurnIsKept
  BY DEF GraphInv, TextInv, ReplyIsKept, EndedTurnIsKept
<1> QED
  BY <1>1, GraphInvariance, PTL

-----------------------------------------------------------------------------
(* The verification of an answer.                                          *)

IsBacked ==
  /\ draft # <<>>
  /\ AnswerOrders \subseteq asked.orders
  /\ "v1" \in AnswerVersions => \A d \in AnswerDays : d < Boundary
  /\ "v2" \in AnswerVersions => \A d \in AnswerDays : d >= Boundary
  /\ \A v \in AnswerVersions \ {Nothing} : WindowStands(v)
  /\ \A i \in DOMAIN draft :
       LET s == draft[i] IN
       /\ ToSet(s.cites) \subseteq DOMAIN cited
       /\ \A o \in s.orders : s.day # NoDay /\ KnownDays(o) # {} => s.day \in KnownDays(o)
       /\ mode = "claims" =>
            s.cites # <<>> /\ (s.value # Nothing => FirstValue(s) \in {Nothing, s.value})

DraftInv ==
  /\ \A i \in DOMAIN draft : draft[i] \in Sentence
  /\ ReleasedIsBacked

LEMMA BoundedSeqElements ==
  ASSUME NEW S, NEW n \in Nat, NEW seq \in BoundedSeq(S, n)
  PROVE  \A i \in DOMAIN seq : seq[i] \in S
  BY DEF BoundedSeq, SeqOf

LEMMA DaysAreNumbers ==
  ASSUME DraftInv PROVE \A d \in AnswerDays : d \in Nat
  BY VerificationAssumption DEF DraftInv, AnswerDays, DaysOf

\* Nothing but the answer, the question and the citations counts.
LEMMA BackedStays ==
  ASSUME UNCHANGED <<mode, asked, cited, draft>>
  PROVE  IsBacked => IsBacked'
<1>1. ASSUME NEW o PROVE KnownDays(o)' = KnownDays(o)
  <2>1. TableRows(o)' = TableRows(o)
    BY DEF TableRows
  <2> QED
    BY <2>1 DEF KnownDays
<1>2. ASSUME NEW s PROVE FirstValue(s)' = FirstValue(s)
  BY DEF FirstValue
<1>3. AnswerOrders' = AnswerOrders /\ AnswerVersions' = AnswerVersions /\ AnswerDays' = AnswerDays
  BY DEF AnswerOrders, AnswerVersions, AnswerDays
<1>4. ASSUME NEW v PROVE WindowStands(v)' <=> WindowStands(v)
  BY DEF WindowStands, AllTexts, TextsOf
<1> QED
  BY <1>1, <1>2, <1>3, <1>4 DEF IsBacked

\* What a sentence must be for the claims adapter to find it supported.
LEMMA SupportedIsCited ==
  ASSUME NEW s, "supported" \in Ground(s)
  PROVE  /\ s.cites # <<>>
         /\ s.value # Nothing => FirstValue(s) \in {Nothing, s.value}
<1>1. CASE Heads(s) = {}
  BY <1>1 DEF Ground
<1>2. CASE Heads(s) # {} /\ ConflictsWith(s)
  BY <1>2 DEF Ground
<1>3. CASE Heads(s) # {} /\ ~ConflictsWith(s)
  <2>1. s.cites # <<>>
    BY <1>3 DEF Heads, Cited, ToSet
  <2> QED BY <1>3, <2>1 DEF ConflictsWith
<1> QED
  BY <1>1, <1>2, <1>3

\* A verdict that passes: no check by rule fails, and every claim is supported.
LEMMA PassIsBacked ==
  ASSUME DraftInv, "pass" \in Verdicts, mode \in {"model", "claims"}
  PROVE  IsBacked
<1>1. draft # <<>> /\ ~HasIssue
  BY DEF Verdicts
<1>2. AnswerOrders \subseteq asked.orders
  BY <1>1 DEF HasIssue, Introduces
<1>3. /\ "v1" \in AnswerVersions => \A d \in AnswerDays : d < Boundary
      /\ "v2" \in AnswerVersions => \A d \in AnswerDays : d >= Boundary
      /\ \A v \in AnswerVersions \ {Nothing} : WindowStands(v)
  BY <1>1, DaysAreNumbers, VerificationAssumption DEF HasIssue, PolicyFails
<1>4. ASSUME NEW i \in DOMAIN draft, mode = "claims"
      PROVE  "supported" \in Ground(draft[i])
  <2>1. "pass" \in ByClaims
    BY <1>1, <1>4 DEF Verdicts
  <2> QED
    BY <1>4, <2>1 DEF ByClaims
<1>5. \A i \in DOMAIN draft : ~SentenceFails(draft[i])
  BY <1>1 DEF HasIssue
<1>6. ASSUME NEW i \in DOMAIN draft
      PROVE  /\ ToSet(draft[i].cites) \subseteq DOMAIN cited
             /\ \A o \in draft[i].orders :
                  draft[i].day # NoDay /\ KnownDays(o) # {} => draft[i].day \in KnownDays(o)
  BY <1>5 DEF SentenceFails
<1> QED
  BY <1>1, <1>2, <1>3, <1>4, <1>6, SupportedIsCited DEF IsBacked

LEMMA DraftInvIsInductive == ASSUME DraftInv, [VerifyNext]_verifyVars PROVE DraftInv'
<1>1. CASE Unverified
  BY <1>1 DEF Unverified, DraftInv, ReleasedIsBacked
<1>2. CASE Verify
  <2>1. UNCHANGED <<mode, asked, cited, draft, revisions>> /\ mode \in {"model", "claims"}
    BY <1>2 DEF Verify
  <2>2. outcome' = "released" => IsBacked
    BY <1>2, PassIsBacked DEF Verify
  <2>3. IsBacked => IsBacked'
    BY <2>1, BackedStays
  <2> QED
    BY <2>1, <2>2, <2>3 DEF DraftInv, ReleasedIsBacked, IsBacked
<1>3. CASE Revise
  BY <1>3, BoundedSeqElements, VerificationAssumption DEF Revise, DraftInv, ReleasedIsBacked
<1>4. CASE VerificationRaises
  BY <1>4 DEF VerificationRaises, DraftInv, ReleasedIsBacked
<1>5. CASE UNCHANGED verifyVars
  BY <1>5, BackedStays DEF verifyVars, DraftInv, ReleasedIsBacked, IsBacked
<1> QED
  BY <1>1, <1>2, <1>3, <1>4, <1>5 DEF VerifyNext

\* Whatever the agent says, the models judge and a revision makes of it, an answer
\* that a verifier let through is backed by the evidence it cites, for sentences that
\* cite in any order (answer_verifier.py:87-191,
\* claim_grounding/answer_adapter.py:32-95, contradictions.py:173-292).
THEOREM VerifiedIsBacked == VerifySpec => []ReleasedIsBacked
<1>1. VerifyInit => DraftInv
  BY BoundedSeqElements, VerificationAssumption DEF VerifyInit, DraftInv, ReleasedIsBacked
<1>2. DraftInv => ReleasedIsBacked
  BY DEF DraftInv
<1> QED
  BY <1>1, <1>2, DraftInvIsInductive, PTL DEF VerifySpec

-----------------------------------------------------------------------------
(* The calibration of the gate.                                            *)

\* Rounding does not take a score below a number of the grid that it reaches.
LEMMA RoundedReaches ==
  ASSUME NEW x \in Int, NEW k \in Int, x >= k * Grid
  PROVE  Rounded(x) >= k * Grid
<1>1. Grid \in Nat \ {0} BY GateAssumption
<1>2. PICK y \in Int : y = x + Grid \div 2 /\ y >= k * Grid
  BY <1>1
<1>3. PICK q \in Int : q = y \div Grid
  BY <1>1
<1>4. y < (q + 1) * Grid
  BY <1>1, <1>3
<1>5. q >= k
  <2> SUFFICES ASSUME q + 1 <= k PROVE FALSE
    OBVIOUS
  <2>1. (q + 1) * Grid <= k * Grid
    BY <1>1
  <2> QED BY <1>2, <1>4, <2>1, <1>1
<1>6. q * Grid >= k * Grid
  BY <1>1, <1>5
<1> QED BY <1>2, <1>3, <1>6 DEF Rounded

\* A rounded score is on the grid, and not more than half a step above.
LEMMA RoundedOnGrid ==
  ASSUME NEW x \in Int
  PROVE  \E k \in Int : Rounded(x) = k * Grid /\ k * Grid <= x + Grid
<1>1. Grid \in Nat \ {0} BY GateAssumption
<1>2. PICK y \in Int : y = x + Grid \div 2 /\ y <= x + Grid
  BY <1>1
<1>3. PICK q \in Int : q = y \div Grid
  BY <1>1
<1>4. q * Grid <= y
  BY <1>1, <1>3
<1>5. q * Grid \in Int
  BY <1>1
<1>6. Rounded(x) = q * Grid
  BY <1>2, <1>3 DEF Rounded
<1> QED BY <1>1, <1>2, <1>4, <1>5, <1>6

\* The samples of the evaluation set, with their scores.
Scored == samples \in [Case -> [scores : ScoreLists, kind : Kinds]]

LEMMA ScoresAreBounded ==
  ASSUME NEW s \in ScoreLists
  PROVE  Top1(s) \in 0 .. One /\ Margin(s) \in 0 .. One
<1>1. PICK n \in 0 .. MaxItems : s \in [1 .. n -> Score]
  BY DEF ScoreLists
<1>2. n \in Nat /\ Score \subseteq 0 .. One /\ One \in Nat
  BY <1>1, GateAssumption
<1>3. s \in Seq(Score) /\ Len(s) = n
  BY <1>1, <1>2, SeqDef, LenProperties
<1>4. n > 0 => s[1] \in 0 .. One /\ Top1(s) = s[1]
  <2>1. n > 0 => s[1] \in Score
    BY <1>1
  <2>2. n > 0 => s # <<>>
    BY <1>3
  <2> QED BY <1>2, <2>1, <2>2 DEF Top1
<1>5. n = 0 => s = <<>> /\ Top1(s) = 0
  BY <1>3, EmptySeq DEF Top1
<1>6. n > 1 => s[2] \in 0 .. One /\ s[1] >= s[2]
  <2>1. \A i \in 1 .. n, j \in 1 .. n : i < j => s[i] >= s[j]
    BY <1>1 DEF ScoreLists
  <2>2. n > 1 => 1 \in 1 .. n /\ 2 \in 1 .. n /\ s[2] \in Score
    BY <1>1
  <2>3. n > 1 => s[1] >= s[2]
    BY <2>1, <2>2
  <2>4. n > 1 => s[2] \in 0 .. One
    BY <1>2, <2>2
  <2> QED BY <2>3, <2>4
<1> QED BY <1>2, <1>3, <1>4, <1>5, <1>6 DEF Margin

\* What the search may choose from is bounded, and its floors are on the grid.
LEMMA CandidatesAreBounded ==
  ASSUME Scored, NEW C \in SUBSET Case, NEW f \in Candidates(C)
  PROVE  /\ f.top1 <= One + Grid /\ f.margin <= One + Grid /\ f.count \in 1 .. 3
         /\ \E k \in Int : f.top1 = k * Grid
         /\ \E k \in Int : f.margin = k * Grid
<1>1. One \in Nat /\ Grid \in Nat
  BY GateAssumption
<1>2. ASSUME NEW c \in C
      PROVE  /\ \E k \in Int : Signal(c).top1 = k * Grid /\ k * Grid <= One + Grid
             /\ \E k \in Int : Signal(c).margin = k * Grid /\ k * Grid <= One + Grid
  <2>1. PICK s \in ScoreLists : s = samples[c].scores
    BY DEF Scored
  <2>2. PICK x \in Int, y \in Int : x = Top1(s) /\ x <= One /\ y = Margin(s) /\ y <= One
    BY <1>1, <2>1, ScoresAreBounded
  <2>3. Signal(c).top1 = Rounded(x) /\ Signal(c).margin = Rounded(y)
    BY <2>1, <2>2 DEF Signal
  <2>4. PICK k \in Int : Rounded(x) = k * Grid /\ k * Grid <= x + Grid
    BY <2>2, RoundedOnGrid
  <2>5. PICK m \in Int : Rounded(y) = m * Grid /\ m * Grid <= y + Grid
    BY <2>2, RoundedOnGrid
  <2>6. k * Grid <= One + Grid /\ m * Grid <= One + Grid
    <3> PICK a \in Int, b \in Int : a = k * Grid /\ b = m * Grid
      BY <1>1
    <3> QED BY <1>1, <2>2, <2>4, <2>5
  <2> QED BY <2>3, <2>4, <2>5, <2>6
<1>3. 0 = 0 * Grid /\ 0 <= One + Grid
  BY <1>1
<1>4. /\ f.top1 \in {0} \cup {Signal(c).top1 : c \in C}
      /\ f.margin \in {0} \cup {Signal(c).margin : c \in C}
      /\ f.count \in 1 .. 3
  BY DEF Candidates
<1>5. f.top1 <= One + Grid /\ \E k \in Int : f.top1 = k * Grid
  BY <1>2, <1>3, <1>4
<1>6. f.margin <= One + Grid /\ \E k \in Int : f.margin = k * Grid
  BY <1>2, <1>3, <1>4
<1> QED BY <1>4, <1>5, <1>6

\* The search finds floors that are feasible, if there are any.
LEMMA BestIsFeasible ==
  ASSUME Scored, NEW C \in SUBSET Case, Feasible(C) # {}
  PROVE  Best(C) \in Feasible(C)
<1> DEFINE Size == Cardinality(Case)
           F == Feasible(C)
           recalling == Lowest(F, LAMBDA f : -Recalled(C, f))
           precise == Lowest(recalling, LAMBDA f : Cardinality(FalseAccepts("ood", C, f)))
           high == Lowest(precise, LAMBDA f : -f.top1)
           wide == Lowest(high, LAMBDA f : -f.margin)
           last == Lowest(wide, LAMBDA f : -f.count)
<1>1. \A S \in SUBSET Case : Cardinality(S) \in Nat /\ Cardinality(S) <= Size
  BY GateAssumption, FS_Subset, FS_CardinalityType
<1>2. Size \in Nat /\ One \in Nat /\ Grid \in Nat
  BY <1>1, GateAssumption
<1>3. F # {} /\ \A f \in F :
         /\ Recalled(C, f) \in Nat /\ Recalled(C, f) <= Size
         /\ Cardinality(FalseAccepts("ood", C, f)) \in Nat
         /\ f.top1 \in Int /\ f.top1 <= One + Grid
         /\ f.margin \in Int /\ f.margin <= One + Grid
         /\ f.count \in 1 .. 3
  <2> SUFFICES ASSUME NEW f \in F
               PROVE  /\ Recalled(C, f) \in Nat /\ Recalled(C, f) <= Size
                      /\ Cardinality(FalseAccepts("ood", C, f)) \in Nat
                      /\ f.top1 \in Int /\ f.top1 <= One + Grid
                      /\ f.margin \in Int /\ f.margin <= One + Grid
                      /\ f.count \in 1 .. 3
    OBVIOUS
  <2>1. f \in Candidates(C)
    BY DEF Feasible
  <2>2. /\ f.top1 <= One + Grid /\ f.margin <= One + Grid /\ f.count \in 1 .. 3
        /\ f.top1 \in Int /\ f.margin \in Int
    BY <2>1, <1>2, CandidatesAreBounded
  <2>3. /\ {c \in Of("positive", C) : Passes(c, f)} \in SUBSET Case
        /\ FalseAccepts("ood", C, f) \in SUBSET Case
    BY DEF Of, FalseAccepts
  <2> QED BY <1>1, <2>2, <2>3 DEF Recalled
<1> HIDE DEF F, Size
<1>4. recalling \subseteq F /\ recalling # {}
  <2> DEFINE keys == {-Recalled(C, f) : f \in F}
  <2>1. keys \subseteq Int /\ keys # {} /\ -Size \in Int /\ \A x \in keys : -Size <= x
    BY <1>2, <1>3
  <2>2. Min(keys) \in keys
    <3> HIDE DEF keys
    <3> QED BY <2>1, LeastOfBounded
  <2> QED BY <2>2 DEF Lowest
<1> HIDE DEF recalling
<1>5. precise \subseteq recalling /\ precise # {}
  <2> DEFINE keys == {Cardinality(FalseAccepts("ood", C, f)) : f \in recalling}
  <2>1. keys \subseteq Int /\ keys # {} /\ 0 \in Int /\ \A x \in keys : 0 <= x
    BY <1>3, <1>4
  <2>2. Min(keys) \in keys
    <3> HIDE DEF keys
    <3> QED BY <2>1, LeastOfBounded
  <2> QED BY <2>2 DEF Lowest
<1> HIDE DEF precise
<1>6. high \subseteq precise /\ high # {}
  <2> DEFINE keys == {-f.top1 : f \in precise}
  <2>1. /\ keys \subseteq Int /\ keys # {} /\ -(One + Grid) \in Int
        /\ \A x \in keys : -(One + Grid) <= x
    BY <1>2, <1>3, <1>4, <1>5
  <2>2. Min(keys) \in keys
    <3> HIDE DEF keys
    <3> QED BY <1>2, <2>1, LeastOfBounded
  <2> QED BY <2>2 DEF Lowest
<1> HIDE DEF high
<1>7. wide \subseteq high /\ wide # {}
  <2> DEFINE keys == {-f.margin : f \in high}
  <2>1. /\ keys \subseteq Int /\ keys # {} /\ -(One + Grid) \in Int
        /\ \A x \in keys : -(One + Grid) <= x
    BY <1>2, <1>3, <1>4, <1>5, <1>6
  <2>2. Min(keys) \in keys
    <3> HIDE DEF keys
    <3> QED BY <1>2, <2>1, LeastOfBounded
  <2> QED BY <2>2 DEF Lowest
<1> HIDE DEF wide
<1>8. last \subseteq wide /\ last # {}
  <2> DEFINE keys == {-f.count : f \in wide}
  <2>1. keys \subseteq Int /\ keys # {} /\ -3 \in Int /\ \A x \in keys : -3 <= x
    BY <1>3, <1>4, <1>5, <1>6, <1>7
  <2>2. Min(keys) \in keys
    <3> HIDE DEF keys
    <3> QED BY <2>1, LeastOfBounded
  <2> QED BY <2>2 DEF Lowest
<1>9. Best(C) = CHOOSE f \in last : TRUE
  BY DEF Best, F, recalling, precise, high, wide
<1> HIDE DEF last
<1> QED BY <1>4, <1>5, <1>6, <1>7, <1>8, <1>9 DEF F

\* A sample whose exact scores pass the gate had passed it with rounded ones.
LEMMA PassedWasAccepted ==
  ASSUME Scored, NEW c \in Case, NEW f, f.effective = NoFit.effective,
         \E k \in Int : f.top1 = k * Grid, \E k \in Int : f.margin = k * Grid,
         Passed(samples[c].scores, f)
  PROVE  Passes(c, f)
<1>1. PICK s \in ScoreLists : s = samples[c].scores
  BY DEF Scored
<1>2. PICK x \in Int, y \in Int : x = Top1(s) /\ y = Margin(s)
  BY <1>1, ScoresAreBounded, GateAssumption
<1>3. PICK k \in Int : f.top1 = k * Grid
  OBVIOUS
<1>4. PICK m \in Int : f.margin = m * Grid
  OBVIOUS
<1>5. x >= k * Grid /\ y >= m * Grid /\ Effective(s, NoFit.effective) >= f.count
  BY <1>1, <1>2, <1>3, <1>4 DEF Passed
<1>6. Rounded(x) >= k * Grid /\ Rounded(y) >= m * Grid
  BY <1>5, RoundedReaches
<1> QED BY <1>1, <1>2, <1>3, <1>4, <1>5, <1>6 DEF Passes, Signal

\* No hard negative that the file was calibrated on passes the gate of a service
\* that loads it (gen_evidence_signals.py: the search over rounded signals;
\* retrieval.py: the gate over exact scores), for any samples, scores and grid.
THEOREM CalibratedGateHolds == GateSpec => []HardNegativesStayOut
<1> DEFINE Inv == Scored /\ HardNegativesStayOut
<1>1. GateInit => Inv
  BY DEF GateInit, Scored, HardNegativesStayOut, NoConfig
<1>2. ASSUME Inv, [GateNext]_gateVars PROVE Inv'
  <2>1. CASE UNCHANGED <<samples, config>>
    BY <1>2, <2>1 DEF Scored, HardNegativesStayOut, Of, Loaded
  <2>2. CASE UNCHANGED samples /\ config' # config
    <3>1. PICK C \in SUBSET Case :
            /\ Feasible(C) # {}
            /\ LET f == Best(C) IN
                 config' = [set |-> TRUE, on |-> C,
                            floors |-> [top1 |-> f.top1, margin |-> f.margin, count |-> f.count,
                                        effective |-> NoFit.effective, combined |-> 0]]
      BY <1>2, <2>2 DEF GateNext, Calibrate, Splits, gateVars
    <3>2. PICK f : f = Best(C)
      OBVIOUS
    <3>3. f \in Feasible(C) /\ f \in Candidates(C)
      BY <1>2, <3>1, <3>2, BestIsFeasible DEF Feasible
    <3>4. PICK g : g = [top1 |-> f.top1, margin |-> f.margin, count |-> f.count,
                        effective |-> NoFit.effective, combined |-> 0]
      OBVIOUS
    <3>5. config'.on = C /\ Loaded' = g
      BY <3>1, <3>2, <3>4 DEF Loaded
    <3>6. ASSUME NEW c \in Of("hard", C), Passed(samples[c].scores, g) PROVE FALSE
      <4>1. c \in Case /\ c \in C
        BY <3>6 DEF Of
      <4>2. /\ \E k \in Int : g.top1 = k * Grid
            /\ \E k \in Int : g.margin = k * Grid
            /\ g.effective = NoFit.effective
        BY <1>2, <3>3, <3>4, CandidatesAreBounded
      <4>3. Passes(c, g)
        BY <1>2, <3>6, <4>1, <4>2, PassedWasAccepted
      <4>4. Passes(c, f)
        BY <4>3, <3>4 DEF Passes
      <4> QED BY <3>3, <3>6, <4>4 DEF Feasible, FalseAccepts
    <3> QED BY <1>2, <2>2, <3>5, <3>6 DEF Scored, HardNegativesStayOut, Of
  <2> QED BY <1>2, <2>1, <2>2 DEF GateNext, Calibrate, gateVars
<1> QED BY <1>1, <1>2, PTL DEF GateSpec

-----------------------------------------------------------------------------
(* Recursion over a sequence, and what it picks.                           *)

\* f runs through n steps of a recursion.
Runs(f, n, D, base, step) ==
  /\ f \in [0 .. n -> D] /\ f[0] = base
  /\ \A m \in 1 .. n : f[m] = step[f[m - 1]][m]

\* A recursion over the first N numbers has a solution.
LEMMA RecursionExists ==
  ASSUME NEW D, NEW base \in D, NEW N \in Nat, NEW step \in [D -> [1 .. N -> D]]
  PROVE  \E f : Runs(f, N, D, base, step)
<1> DEFINE S == {n \in Nat : n <= N => \E f : Runs(f, n, D, base, step)}
<1>1. 0 \in S
  <2>1. PICK f : f = [n \in 0 .. 0 |-> base]
    OBVIOUS
  <2>2. f \in [0 .. 0 -> D] /\ f[0] = base
    BY <2>1
  <2>3. Runs(f, 0, D, base, step)
    <3>1. \A m \in 1 .. 0 : FALSE
      OBVIOUS
    <3> QED BY <2>2, <3>1 DEF Runs
  <2> QED BY <2>3
<1>2. ASSUME NEW n \in Nat, n \in S PROVE n + 1 \in S
  <2> SUFFICES ASSUME n + 1 <= N PROVE \E f : Runs(f, n + 1, D, base, step)
    OBVIOUS
  <2>1. PICK f : Runs(f, n, D, base, step)
    <3>1. n <= N
      OBVIOUS
    <3> QED BY <1>2, <3>1
  <2>2. PICK d \in D : d = step[f[n]][n + 1]
    <3>1. f[n] \in D /\ n + 1 \in 1 .. N
      BY <2>1 DEF Runs
    <3> QED BY <3>1
  <2>3. PICK g : g = [m \in 0 .. (n + 1) |-> IF m = n + 1 THEN d ELSE f[m]]
    OBVIOUS
  <2>4. \A m \in 0 .. n : m \in 0 .. (n + 1) /\ m # n + 1 /\ g[m] = f[m]
    BY <2>3
  <2>5. g \in [0 .. (n + 1) -> D] /\ g[0] = base /\ g[n + 1] = d
    BY <2>1, <2>2, <2>3 DEF Runs
  <2>6. ASSUME NEW m \in 1 .. (n + 1) PROVE g[m] = step[g[m - 1]][m]
    <3>1. CASE m = n + 1
      <4>1. g[m] = d /\ m - 1 = n /\ g[n] = f[n]
        BY <2>4, <2>5, <3>1
      <4> QED BY <2>2, <3>1, <4>1
    <3>2. CASE m # n + 1
      <4>1. m \in 1 .. n /\ m \in 0 .. n /\ m - 1 \in 0 .. n
        BY <3>2
      <4>2. g[m] = f[m] /\ g[m - 1] = f[m - 1]
        BY <2>4, <4>1
      <4> QED BY <2>1, <4>1, <4>2 DEF Runs
    <3> QED BY <3>1, <3>2
  <2>7. Runs(g, n + 1, D, base, step)
    BY <2>5, <2>6 DEF Runs
  <2> QED BY <2>7
<1>3. Nat \subseteq S
  <2> HIDE DEF S
  <2> QED BY <1>1, <1>2, SuccessorsReach
<1> QED BY <1>3

\* q has, of the first n elements of s, those in S.
Picks(q, n, E, s, S) ==
  /\ q \in Seq(E) /\ Len(q) <= n
  /\ \A c : (\E i \in 1 .. Len(q) : q[i] = c) <=> c \in S /\ \E i \in 1 .. n : s[i] = c

LEMMA PicksNone ==
  ASSUME NEW E, NEW s \in Seq(E), NEW S
  PROVE  Picks(<<>>, 0, E, s, S)
<1>1. PICK q \in Seq(E) : q = <<>> /\ Len(q) = 0
  BY EmptySeq
<1> QED BY <1>1 DEF Picks

LEMMA PicksNext ==
  ASSUME NEW E, NEW s \in Seq(E), NEW S, NEW n \in Nat, n < Len(s), NEW q, Picks(q, n, E, s, S)
  PROVE  Picks(IF s[n + 1] \in S THEN Append(q, s[n + 1]) ELSE q, n + 1, E, s, S)
<1>1. PICK e \in E : e = s[n + 1]
  OBVIOUS
<1>2. \A c : (\E i \in 1 .. n + 1 : s[i] = c) <=> c = e \/ \E i \in 1 .. n : s[i] = c
  <2>1. \A i : i \in 1 .. n + 1 <=> i = n + 1 \/ i \in 1 .. n
    OBVIOUS
  <2> QED BY <1>1, <2>1
<1>3. CASE e \in S
  <2>1. PICK p : p = Append(q, e)
    OBVIOUS
  <2>2. PICK k \in Nat : k = Len(q)
    BY DEF Picks
  <2>3. /\ p \in Seq(E) /\ Len(p) = k + 1 /\ p[k + 1] = e
        /\ \A i \in 1 .. k : p[i] = q[i]
    BY <2>1, <2>2 DEF Picks
  <2>4. \A c : (\E i \in 1 .. k + 1 : p[i] = c) <=> c = e \/ \E i \in 1 .. k : q[i] = c
    <3>1. \A i : i \in 1 .. k + 1 <=> i = k + 1 \/ i \in 1 .. k
      OBVIOUS
    <3> QED BY <2>3, <3>1
  <2>5. \A c : (\E i \in 1 .. k : q[i] = c) <=> c \in S /\ \E i \in 1 .. n : s[i] = c
    BY <2>2 DEF Picks
  <2>6. \A c : (\E i \in 1 .. Len(p) : p[i] = c) <=> c \in S /\ \E i \in 1 .. n + 1 : s[i] = c
    BY <1>2, <1>3, <2>3, <2>4, <2>5
  <2>7. Len(p) <= n + 1
    <3>1. k <= n
      BY <2>2 DEF Picks
    <3> QED BY <2>3, <3>1
  <2>8. Picks(p, n + 1, E, s, S)
    BY <2>3, <2>6, <2>7 DEF Picks
  <2> QED BY <1>1, <1>3, <2>1, <2>8
<1>4. CASE e \notin S
  <2>1. Picks(q, n + 1, E, s, S)
    <3>1. q \in Seq(E) /\ Len(q) <= n + 1
      BY DEF Picks
    <3>2. \A c : (\E i \in 1 .. Len(q) : q[i] = c) <=> c \in S /\ \E i \in 1 .. n : s[i] = c
      BY DEF Picks
    <3>3. \A c : (\E i \in 1 .. Len(q) : q[i] = c) <=> c \in S /\ \E i \in 1 .. n + 1 : s[i] = c
      BY <1>2, <1>4, <3>2
    <3> QED BY <3>1, <3>3 DEF Picks
  <2> QED BY <1>1, <1>4, <2>1
<1> QED BY <1>3, <1>4

\* The elements of Only(s, S) are those of s that are in S.
LEMMA OnlyElements ==
  ASSUME NEW E, NEW s \in Seq(E), NEW S
  PROVE  /\ Only(s, S) \in Seq(E)
         /\ Len(Only(s, S)) <= Len(s)
         /\ Range(Only(s, S)) = Range(s) \cap S
<1> DEFINE Def(f) == [n \in 0 .. Len(s) |->
                        IF n = 0 THEN <<>>
                        ELSE IF s[n] \in S THEN Append(f[n - 1], s[n]) ELSE f[n - 1]]
           only == CHOOSE f : f = Def(f)
<1>1. Only(s, S) = only[Len(s)]
  BY DEF Only
<1>2. PICK N \in Nat : N = Len(s)
  OBVIOUS
<1>3. PICK D : D = Seq(E)
  OBVIOUS
<1>4. PICK none \in D : none = <<>>
  BY <1>3, EmptySeq
<1>5. PICK step : step = [q \in D |-> [n \in 1 .. N |-> IF s[n] \in S THEN Append(q, s[n]) ELSE q]]
  OBVIOUS
<1>6. step \in [D -> [1 .. N -> D]]
  <2>1. ASSUME NEW q \in D, NEW n \in 1 .. N
        PROVE  (IF s[n] \in S THEN Append(q, s[n]) ELSE q) \in D
    BY <1>2, <1>3
  <2> QED BY <1>5, <2>1
<1>7. PICK f : Runs(f, N, D, none, step)
  BY <1>6, RecursionExists
<1>8. f = Def(f)
  <2>1. f \in [0 .. N -> D] /\ f[0] = <<>>
    BY <1>4, <1>7 DEF Runs
  <2>2. ASSUME NEW n \in 1 .. N
        PROVE  f[n] = IF s[n] \in S THEN Append(f[n - 1], s[n]) ELSE f[n - 1]
    <3>1. PICK q \in D : q = f[n - 1]
      BY <2>1
    <3>2. f[n] = step[q][n]
      BY <1>7, <3>1 DEF Runs
    <3> QED BY <1>5, <3>1, <3>2
  <2>3. \A n \in 0 .. N : n # 0 => n \in 1 .. N
    OBVIOUS
  <2> QED BY <1>2, <2>1, <2>2, <2>3
<1>9. only = Def(only)
  BY <1>8
<1> HIDE DEF only
<1>10. only[0] = <<>>
  BY <1>2, <1>9
<1>11. ASSUME NEW n \in 1 .. N
       PROVE  only[n] = IF s[n] \in S THEN Append(only[n - 1], s[n]) ELSE only[n - 1]
  <2>1. n \in 0 .. Len(s) /\ n # 0
    BY <1>2
  <2> QED BY <1>9, <2>1
<1> HIDE DEF Def
<1> DEFINE T == {n \in Nat : n <= N => Picks(only[n], n, E, s, S)}
<1>12. 0 \in T
  BY <1>10, PicksNone
<1>13. ASSUME NEW n \in Nat, n \in T PROVE n + 1 \in T
  <2> SUFFICES ASSUME n + 1 <= N PROVE Picks(only[n + 1], n + 1, E, s, S)
    OBVIOUS
  <2>1. n <= N /\ n < Len(s) /\ n + 1 \in 1 .. N /\ (n + 1) - 1 = n
    BY <1>2
  <2>2. PICK q : q = only[n]
    OBVIOUS
  <2>3. Picks(q, n, E, s, S)
    BY <1>13, <2>1, <2>2
  <2>4. PICK p : p = IF s[n + 1] \in S THEN Append(q, s[n + 1]) ELSE q
    OBVIOUS
  <2>5. only[n + 1] = p
    BY <1>11, <2>1, <2>2, <2>4
  <2>6. Picks(p, n + 1, E, s, S)
    BY <2>1, <2>3, <2>4, PicksNext
  <2> QED BY <2>5, <2>6
<1>14. Nat \subseteq T
  <2> HIDE DEF T
  <2> QED BY <1>12, <1>13, SuccessorsReach
<1>15. PICK q : q = only[N]
  OBVIOUS
<1>16. Picks(q, N, E, s, S)
  BY <1>14, <1>15
<1>17. Range(q) = Range(s) \cap S
  <2>1. DOMAIN q = 1 .. Len(q) /\ DOMAIN s = 1 .. N
    BY <1>2, <1>16 DEF Picks
  <2>2. \A c : (\E i \in 1 .. Len(q) : q[i] = c) <=> c \in S /\ \E i \in 1 .. N : s[i] = c
    BY <1>16 DEF Picks
  <2>3. \A c : c \in Range(q) <=> c \in Range(s) \cap S
    BY <2>1, <2>2 DEF Range
  <2> QED BY <2>3
<1> QED BY <1>1, <1>2, <1>15, <1>16, <1>17 DEF Picks

LEMMA FirstOfElements ==
  ASSUME NEW E, NEW s \in Seq(E), NEW n \in Nat
  PROVE  /\ FirstOf(s, n) \in Seq(E)
         /\ Range(FirstOf(s, n)) \subseteq Range(s)
         /\ \A i \in 1 .. n : i <= Len(s) => s[i] \in Range(FirstOf(s, n))
<1>1. PICK l \in Nat : l = Len(s)
  OBVIOUS
<1>2. PICK m \in Nat : m = Min({n, l}) /\ m <= l /\ m <= n /\ (m = n \/ m = l)
  <2>1. CASE n <= l
    <3>1. n \in {n, l} /\ \A y \in {n, l} : n <= y
      BY <2>1
    <3>2. ASSUME NEW x \in {n, l}, \A y \in {n, l} : x <= y PROVE x = n
      BY <2>1, <3>2
    <3>3. Min({n, l}) = n
      BY <3>1, <3>2 DEF Min
    <3>4. n = Min({n, l}) /\ n <= l /\ n <= n
      BY <1>1, <2>1, <3>3
    <3> QED BY <3>4
  <2>2. CASE l <= n
    <3>1. l \in {n, l} /\ \A y \in {n, l} : l <= y
      BY <2>2
    <3>2. ASSUME NEW x \in {n, l}, \A y \in {n, l} : x <= y PROVE x = l
      BY <2>2, <3>2
    <3>3. Min({n, l}) = l
      BY <3>1, <3>2 DEF Min
    <3>4. l = Min({n, l}) /\ l <= l /\ l <= n
      BY <1>1, <2>2, <3>3
    <3> QED BY <1>1, <3>4
  <2>3. n <= l \/ l <= n
    BY <1>1
  <2> QED BY <2>1, <2>2, <2>3
<1>3. PICK q : q = FirstOf(s, n)
  OBVIOUS
<1>4. q = SubSeq(s, 1, m)
  BY <1>1, <1>2, <1>3 DEF FirstOf
<1>5. /\ q \in Seq(E) /\ DOMAIN q = 1 .. m /\ Len(q) = m
      /\ \A i \in 1 .. m : q[i] = s[i]
  <2>1. \A i \in 1 .. m : s[i] \in E
    BY <1>1, <1>2
  <2>2. q \in Seq(E)
    BY <1>4, <2>1, SubSeqProperties
  <2>3. Len(q) = IF 1 <= m THEN m - 1 + 1 ELSE 0
    BY <1>4, <2>1, SubSeqProperties
  <2>4. Len(q) = m
    BY <2>3
  <2>5. \A i \in 1 .. m - 1 + 1 : q[i] = s[1 + i - 1]
    BY <1>4, <2>1, SubSeqProperties
  <2>6. \A i \in 1 .. m : i \in 1 .. m - 1 + 1 /\ 1 + i - 1 = i
    OBVIOUS
  <2>7. \A i \in 1 .. m : q[i] = s[i]
    BY <2>5, <2>6
  <2> QED BY <2>2, <2>4, <2>7
<1>6. DOMAIN s = 1 .. l
  BY <1>1
<1>7. Range(q) \subseteq Range(s)
  <2>1. \A i \in 1 .. m : i \in 1 .. l
    BY <1>2
  <2> QED BY <1>5, <1>6, <2>1 DEF Range
<1>8. ASSUME NEW i \in 1 .. n, i <= Len(s) PROVE s[i] \in Range(q)
  <2>1. i \in 1 .. m
    BY <1>1, <1>2, <1>8
  <2> QED BY <1>5, <2>1 DEF Range
<1> QED BY <1>3, <1>5, <1>7, <1>8

\* Place takes a chunk of the rank or none, and fills the facet if one can.
LEMMA PlaceFills ==
  ASSUME NEW taken \in Seq(ChunkId), NEW face, NEW ordered \in Seq(ChunkId)
  PROVE  /\ Place(taken, face, ordered) \in Seq(ChunkId)
         /\ Len(Place(taken, face, ordered)) <= Len(taken) + 1
         /\ Range(taken) \subseteq Range(Place(taken, face, ordered))
         /\ Range(Place(taken, face, ordered)) \subseteq Range(taken) \cup Range(ordered)
         /\ (\E c \in Range(ordered) : face \in Faces[c]) =>
              \E c \in Range(Place(taken, face, ordered)) : face \in Faces[c]
<1>1. PICK F : F = {c \in ChunkId : face \in Faces[c] /\ c \notin Range(taken)}
  OBVIOUS
<1>2. PICK able : able = Only(ordered, F)
  OBVIOUS
<1>3. able \in Seq(ChunkId) /\ Range(able) = Range(ordered) \cap F
  BY <1>2, OnlyElements
<1>4. PICK p : p = Place(taken, face, ordered)
  OBVIOUS
<1>5. p = IF able = <<>> THEN taken ELSE Append(taken, able[1])
  BY <1>1, <1>2, <1>4 DEF Place
<1>6. Range(ordered) \subseteq ChunkId
  <2>1. DOMAIN ordered = 1 .. Len(ordered)
    OBVIOUS
  <2> QED BY <2>1 DEF Range
<1>7. CASE able = <<>>
  <2>1. p = taken
    BY <1>5, <1>7
  <2>2. Range(able) = {}
    <3>1. DOMAIN able = 1 .. 0
      BY <1>7
    <3> QED BY <3>1 DEF Range
  <2>3. ASSUME NEW c \in Range(ordered), face \in Faces[c] PROVE c \in Range(p)
    BY <1>1, <1>3, <1>6, <2>1, <2>2, <2>3
  <2> QED BY <1>4, <2>1, <2>3
<1>8. CASE able # <<>>
  <2>1. PICK k \in Nat : k = Len(taken)
    OBVIOUS
  <2>2. 1 \in DOMAIN able
    BY <1>3, <1>8
  <2>3. PICK c \in ChunkId : c = able[1]
    BY <1>3, <1>8
  <2>4. c \in Range(ordered) /\ c \in F
    BY <1>3, <2>2, <2>3 DEF Range
  <2>5. p = Append(taken, c)
    BY <1>5, <1>8, <2>3
  <2>6. /\ p \in Seq(ChunkId) /\ Len(p) = k + 1 /\ DOMAIN p = 1 .. k + 1 /\ p[k + 1] = c
        /\ \A i \in 1 .. k : p[i] = taken[i]
    BY <2>1, <2>5
  <2>7. DOMAIN taken = 1 .. k
    BY <2>1
  <2>8. \A i : i \in 1 .. k + 1 <=> i \in 1 .. k \/ i = k + 1
    BY <2>1
  <2>9. \A x : x \in Range(p) <=> x \in Range(taken) \/ x = c
    BY <2>6, <2>7, <2>8 DEF Range
  <2>10. face \in Faces[c]
    BY <1>1, <2>4
  <2> QED BY <1>4, <2>1, <2>4, <2>6, <2>9, <2>10
<1> QED BY <1>7, <1>8

\* The first n asks have their places.
Filled(p, n, asks, ordered) ==
  /\ p \in Seq(ChunkId) /\ Len(p) <= n /\ Range(p) \subseteq Range(ordered)
  /\ \A i \in 1 .. n : (\E c \in Range(ordered) : asks[i] \in Faces[c]) =>
       \E c \in Range(p) : asks[i] \in Faces[c]

\* The slate is made of what is ranked, and keeps a place for every facet it can.
LEMMA SlateFills ==
  ASSUME RetrievalAssumption,
         NEW E, NEW asks \in Seq(E), NEW ordered \in Seq(ChunkId)
  PROVE  /\ SelectSlate(asks, ordered) \in Seq(ChunkId)
         /\ Range(SelectSlate(asks, ordered)) \subseteq Range(ordered)
         /\ Len(asks) <= TopK => \A face \in Range(asks) :
              (\E c \in Range(ordered) : face \in Faces[c]) =>
                 \E c \in Range(SelectSlate(asks, ordered)) : face \in Faces[c]
<1> DEFINE Def(f) == [n \in 0 .. Len(asks) |->
                        IF n = 0 THEN <<>> ELSE Place(f[n - 1], asks[n], ordered)]
           placed == CHOOSE f : f = Def(f)
<1>1. PICK places : places = placed[Len(asks)]
  OBVIOUS
<1>2. SelectSlate(asks, ordered) = FirstOf(places \o Without(ordered, Range(places)), TopK)
  BY <1>1 DEF SelectSlate
<1>3. PICK N \in Nat : N = Len(asks)
  OBVIOUS
<1>4. PICK D : D = Seq(ChunkId)
  OBVIOUS
<1>5. PICK none \in D : none = <<>>
  BY <1>4, EmptySeq
<1>6. PICK step : step = [q \in D |-> [n \in 1 .. N |-> Place(q, asks[n], ordered)]]
  OBVIOUS
<1>7. step \in [D -> [1 .. N -> D]]
  <2>1. ASSUME NEW q \in D, NEW n \in 1 .. N PROVE Place(q, asks[n], ordered) \in D
    BY <1>4, PlaceFills
  <2> QED BY <1>6, <2>1
<1>8. PICK f : Runs(f, N, D, none, step)
  BY <1>7, RecursionExists
<1>9. f = Def(f)
  <2>1. f \in [0 .. N -> D] /\ f[0] = <<>>
    BY <1>5, <1>8 DEF Runs
  <2>2. ASSUME NEW n \in 1 .. N PROVE f[n] = Place(f[n - 1], asks[n], ordered)
    <3>1. PICK q \in D : q = f[n - 1]
      BY <2>1
    <3>2. f[n] = step[q][n]
      BY <1>8, <3>1 DEF Runs
    <3> QED BY <1>6, <3>1, <3>2
  <2>3. \A n \in 0 .. N : n # 0 => n \in 1 .. N
    OBVIOUS
  <2> QED BY <1>3, <2>1, <2>2, <2>3
<1>10. placed = Def(placed)
  BY <1>9
<1> HIDE DEF placed
<1>11. placed[0] = <<>>
  BY <1>3, <1>10
<1>12. ASSUME NEW n \in 1 .. N PROVE placed[n] = Place(placed[n - 1], asks[n], ordered)
  <2>1. n \in 0 .. Len(asks) /\ n # 0
    BY <1>3
  <2> QED BY <1>10, <2>1
<1> HIDE DEF Def
<1> DEFINE T == {n \in Nat : n <= N => Filled(placed[n], n, asks, ordered)}
<1>13. 0 \in T
  <2>1. PICK q \in Seq(ChunkId) : q = <<>> /\ Len(q) = 0
    BY EmptySeq
  <2>2. Range(q) = {}
    <3>1. DOMAIN q = 1 .. 0
      BY <2>1
    <3> QED BY <3>1 DEF Range
  <2>3. Filled(q, 0, asks, ordered)
    BY <2>1, <2>2 DEF Filled
  <2> QED BY <1>11, <2>1, <2>3
<1>14. ASSUME NEW n \in Nat, n \in T PROVE n + 1 \in T
  <2> SUFFICES ASSUME n + 1 <= N PROVE Filled(placed[n + 1], n + 1, asks, ordered)
    OBVIOUS
  <2>1. n <= N /\ n + 1 \in 1 .. N /\ (n + 1) - 1 = n
    OBVIOUS
  <2>2. PICK q : q = placed[n]
    OBVIOUS
  <2>3. Filled(q, n, asks, ordered)
    BY <1>14, <2>1, <2>2
  <2>4. PICK face : face = asks[n + 1]
    OBVIOUS
  <2>5. PICK p : p = Place(q, face, ordered)
    OBVIOUS
  <2>6. placed[n + 1] = p
    BY <1>12, <2>1, <2>2, <2>4, <2>5
  <2>7. /\ p \in Seq(ChunkId) /\ Len(p) <= Len(q) + 1
        /\ Range(q) \subseteq Range(p)
        /\ Range(p) \subseteq Range(q) \cup Range(ordered)
        /\ (\E c \in Range(ordered) : face \in Faces[c]) =>
             \E c \in Range(p) : face \in Faces[c]
    <3>1. q \in Seq(ChunkId)
      BY <2>3 DEF Filled
    <3> QED BY <2>5, <3>1, PlaceFills
  <2>8. Len(p) <= n + 1
    BY <2>3, <2>7 DEF Filled
  <2>9. ASSUME NEW i \in 1 .. n + 1, \E c \in Range(ordered) : asks[i] \in Faces[c]
        PROVE  \E c \in Range(p) : asks[i] \in Faces[c]
    <3>1. CASE i = n + 1
      BY <2>4, <2>7, <2>9, <3>1
    <3>2. CASE i \in 1 .. n
      BY <2>3, <2>7, <2>9, <3>2 DEF Filled
    <3> QED BY <3>1, <3>2
  <2>10. Filled(p, n + 1, asks, ordered)
    BY <2>3, <2>7, <2>8, <2>9 DEF Filled
  <2> QED BY <2>6, <2>10
<1>15. Nat \subseteq T
  <2> HIDE DEF T
  <2> QED BY <1>13, <1>14, SuccessorsReach
<1>16. Filled(places, N, asks, ordered)
  BY <1>1, <1>3, <1>15
<1>17. PICK rest : rest = Without(ordered, Range(places))
  OBVIOUS
<1>18. rest \in Seq(ChunkId) /\ Range(rest) \subseteq Range(ordered)
  BY <1>17, OnlyElements DEF Without
<1>19. PICK all : all = places \o rest
  OBVIOUS
<1>20. PICK k \in Nat : k = Len(places)
  BY <1>16 DEF Filled
<1>21. PICK r \in Nat : r = Len(rest)
  BY <1>18
<1>22. /\ all \in Seq(ChunkId) /\ DOMAIN all = 1 .. k + r /\ Len(all) = k + r
       /\ \A i \in 1 .. k : all[i] = places[i]
       /\ \A i \in 1 .. k + r : i > k => all[i] = rest[i - k]
  <2>1. places \in Seq(ChunkId)
    BY <1>16 DEF Filled
  <2> QED BY <1>18, <1>19, <1>20, <1>21, <2>1
<1>23. DOMAIN places = 1 .. k /\ DOMAIN rest = 1 .. r
  BY <1>16, <1>18, <1>20, <1>21 DEF Filled
<1>24. Range(all) \subseteq Range(ordered)
  <2>1. ASSUME NEW i \in 1 .. k + r PROVE all[i] \in Range(ordered)
    <3>1. CASE i <= k
      <4>1. i \in 1 .. k
        BY <3>1
      <4> QED BY <1>16, <1>22, <1>23, <4>1 DEF Filled, Range
    <3>2. CASE i > k
      <4>1. i - k \in 1 .. r
        BY <3>2
      <4> QED BY <1>18, <1>22, <1>23, <3>2, <4>1 DEF Range
    <3> QED BY <3>1, <3>2
  <2> QED BY <1>22, <2>1 DEF Range
<1>25. TopK \in Nat
  BY DEF RetrievalAssumption
<1>26. PICK q : q = FirstOf(all, TopK)
  OBVIOUS
<1>27. /\ q \in Seq(ChunkId) /\ Range(q) \subseteq Range(all)
       /\ \A i \in 1 .. TopK : i <= Len(all) => all[i] \in Range(q)
  BY <1>22, <1>25, <1>26, FirstOfElements
<1>28. ASSUME N <= TopK PROVE Range(places) \subseteq Range(q)
  <2>1. ASSUME NEW i \in 1 .. k PROVE places[i] \in Range(q)
    <3>1. k <= N
      BY <1>16, <1>20 DEF Filled
    <3>2. i \in 1 .. TopK /\ i <= k + r
      BY <1>25, <1>28, <3>1
    <3> QED BY <1>22, <1>27, <3>2
  <2> QED BY <1>23, <2>1 DEF Range
<1>29. ASSUME N <= TopK, NEW face \in Range(asks), \E c \in Range(ordered) : face \in Faces[c]
       PROVE  \E c \in Range(q) : face \in Faces[c]
  <2>1. PICK i \in 1 .. N : face = asks[i]
    <3>1. DOMAIN asks = 1 .. N
      BY <1>3
    <3> QED BY <3>1 DEF Range
  <2>2. \E c \in Range(places) : face \in Faces[c]
    BY <1>16, <1>29, <2>1 DEF Filled
  <2> QED BY <1>28, <1>29, <2>2
<1>30. SelectSlate(asks, ordered) = q
  BY <1>2, <1>17, <1>19, <1>26
<1> QED BY <1>3, <1>24, <1>27, <1>29, <1>30

InScope(s, scope) == \A c \in Range(s) : ~Conflicts(c, scope)

\* What a call holds: sequences of chunks, candidates and items that are in its
\* scope as soon as the scope is applied, and the two properties.
CallHolds(c, on) ==
  /\ DOMAIN c = DOMAIN NoCall
  /\ c.cand \in Seq(ChunkId) /\ c.items \in Seq(ChunkId)
  /\ c.asks \in Seq(Range(FaceOrder))
  /\ c.pc \in {"recall", "scope", "texts", "rank"} => c.items = <<>>
  /\ c.pc \in {"texts", "rank"} => InScope(c.cand, c.scope)
  /\ c.pc \in {"judge", "answer"} => InScope(c.items, c.scope)
  /\ \A i \in DOMAIN c.shown : ~Conflicts(c.shown[i].row, c.scope)
  /\ c.pc = "judge" /\ on /\ Len(c.asks) <= TopK =>
       \A face \in Range(c.asks) :
         (\E x \in Range(c.ranked) \cap c.texts : face \in Faces[x]) =>
           \E x \in Range(c.items) : face \in Faces[x]

SearchInv == CallHolds(call, slate)

LEMMA NothingInScope == ASSUME NEW scope PROVE <<>> \in Seq(ChunkId) /\ InScope(<<>>, scope)
<1>1. PICK q \in Seq(ChunkId) : q = <<>> /\ Len(q) = 0
  BY EmptySeq
<1>2. DOMAIN q = 1 .. 0
  BY <1>1
<1>3. Range(q) = {}
  BY <1>2 DEF Range
<1> QED BY <1>1, <1>3 DEF InScope

LEMMA NoScopeNoConflict == ASSUME NEW c PROVE ~Conflicts(c, NoScope)
BY DEF Conflicts, NoScope

LEMMA SmallerInScope ==
  ASSUME NEW s, NEW t, NEW scope, InScope(t, scope), Range(s) \subseteq Range(t)
  PROVE  InScope(s, scope)
BY DEF InScope

LEMMA SequencesOfSet ==
  ASSUME RetrievalAssumption, NEW S, S \subseteq ChunkId, NEW s \in SetToSeqs(S)
  PROVE  s \in Seq(ChunkId) /\ Range(s) \subseteq S
<1>1. IsFiniteSet(S)
  BY FS_Subset DEF RetrievalAssumption
<1>2. PICK n \in Nat : n = Cardinality(S)
  BY <1>1, FS_CardinalityType
<1>3. s \in [1 .. n -> S]
  BY <1>2 DEF SetToSeqs
<1>4. s \in [1 .. n -> ChunkId]
  BY <1>3
<1>5. s \in Seq(ChunkId)
  BY <1>4
<1>6. Range(s) \subseteq S
  BY <1>3 DEF Range
<1> QED BY <1>5, <1>6

LEMMA SearchInitially ==
  ASSUME RetrievalInit PROVE SearchInv
<1>1. PICK c : c = NoCall
  OBVIOUS
<1>2. /\ c.pc = "idle" /\ c.cand = <<>> /\ c.items = <<>> /\ c.asks = <<>> /\ c.shown = <<>>
      /\ DOMAIN c = DOMAIN NoCall
  BY <1>1 DEF NoCall
<1>3. DOMAIN c.shown = {}
  BY <1>2
<1>4. <<>> \in Seq(ChunkId) /\ <<>> \in Seq(Range(FaceOrder))
  BY EmptySeq
<1>5. CallHolds(c, slate)
  BY <1>2, <1>3, <1>4 DEF CallHolds
<1> QED BY <1>1, <1>5 DEF RetrievalInit, SearchInv

LEMMA AskKeeps ==
  ASSUME RetrievalAssumption, Ask PROVE SearchInv'
<1>1. PICK d, filter, asks, scope, F :
        /\ d = [NoCall EXCEPT !.pc = "recall", !.filter = filter, !.asks = asks,
                              !.scope = scope]
        /\ asks = Only(FaceOrder, F) /\ call' = d
  BY DEF Ask
<1>2. /\ d.pc = "recall" /\ d.cand = <<>> /\ d.items = <<>> /\ d.asks = asks /\ d.shown = <<>>
      /\ DOMAIN d = DOMAIN NoCall
  BY <1>1 DEF NoCall
<1>3. DOMAIN d.shown = {}
  BY <1>2
<1>4. <<>> \in Seq(ChunkId)
  BY EmptySeq
<1>5. asks \in Seq(Range(FaceOrder))
  <2>1. PICK E : E = Range(FaceOrder) /\ FaceOrder \in Seq(E)
    BY DEF RetrievalAssumption
  <2>2. asks \in Seq(E)
    BY <1>1, <2>1, OnlyElements
  <2> QED BY <2>1, <2>2
<1>6. CallHolds(d, slate)
  BY <1>2, <1>3, <1>4, <1>5 DEF CallHolds
<1> QED BY <1>1, <1>6 DEF Ask, SearchInv

LEMMA RecallKeeps ==
  ASSUME RetrievalAssumption, SearchInv, Recall PROVE SearchInv'
<1>1. PICK c : c = call
  OBVIOUS
<1>2. CallHolds(c, slate)
  BY <1>1 DEF SearchInv
<1>3. PICK d, S, cand, fallback :
        /\ S \subseteq Vectors /\ cand \in SetToSeqs(S)
        /\ d = [c EXCEPT !.pc = "scope", !.cand = cand, !.fallback = fallback]
        /\ call' = d
  BY <1>1 DEF Recall
<1>4. cand \in Seq(ChunkId)
  <2>1. S \subseteq ChunkId
    BY <1>3 DEF Vectors
  <2> QED BY <1>3, <2>1, SequencesOfSet
<1>5. /\ d.pc = "scope" /\ d.cand = cand /\ d.items = c.items /\ d.asks = c.asks
      /\ d.shown = c.shown /\ d.scope = c.scope /\ DOMAIN d = DOMAIN NoCall
  BY <1>2, <1>3 DEF CallHolds, NoCall
<1>6. c.pc = "recall"
  BY <1>1 DEF Recall
<1>7. CallHolds(d, slate)
  BY <1>2, <1>4, <1>5, <1>6 DEF CallHolds
<1> QED BY <1>3, <1>7 DEF Recall, SearchInv

\* What is kept of the candidates is in scope.
LEMMA ScopedHolds ==
  ASSUME NEW c, NEW on, c = call, CallHolds(c, on), NEW kept \in Seq(ChunkId),
         InScope(kept, c.scope), c.pc = "scope", NEW d, NEW status,
         d = [Scoped(kept) EXCEPT !.status = status] \/ d = Scoped(kept)
  PROVE  CallHolds(d, on)
<1>1. CASE kept = <<>>
  <2>1. PICK e, low : e = Scoped(kept)
          /\ e = [c EXCEPT !.pc = "answer", !.cand = <<>>, !.low = low]
    BY <1>1 DEF Scoped
  <2>2. /\ e.pc = "answer" /\ e.cand = <<>> /\ e.items = c.items /\ e.asks = c.asks
        /\ e.shown = c.shown /\ e.scope = c.scope /\ DOMAIN e = DOMAIN NoCall
    BY <2>1 DEF CallHolds, NoCall
  <2>3. /\ d.pc = "answer" /\ d.cand = <<>> /\ d.items = c.items /\ d.asks = c.asks
        /\ d.shown = c.shown /\ d.scope = c.scope /\ DOMAIN d = DOMAIN NoCall
    <3>1. CASE d = e
      BY <2>2, <3>1
    <3>2. CASE d = [e EXCEPT !.status = status]
      BY <2>2, <3>2 DEF NoCall
    <3> QED BY <2>1, <3>1, <3>2
  <2>4. c.items = <<>>
    BY DEF CallHolds
  <2>5. InScope(<<>>, d.scope)
    BY NothingInScope
  <2> QED BY <2>3, <2>4, <2>5, EmptySeq DEF CallHolds
<1>2. CASE kept # <<>>
  <2>1. PICK e : e = Scoped(kept) /\ e = [c EXCEPT !.pc = "texts", !.cand = kept]
    BY <1>2 DEF Scoped
  <2>2. /\ e.pc = "texts" /\ e.cand = kept /\ e.items = c.items /\ e.asks = c.asks
        /\ e.shown = c.shown /\ e.scope = c.scope /\ DOMAIN e = DOMAIN NoCall
    BY <2>1 DEF CallHolds, NoCall
  <2>3. /\ d.pc = "texts" /\ d.cand = kept /\ d.items = c.items /\ d.asks = c.asks
        /\ d.shown = c.shown /\ d.scope = c.scope /\ DOMAIN d = DOMAIN NoCall
    <3>1. CASE d = e
      BY <2>2, <3>1
    <3>2. CASE d = [e EXCEPT !.status = status]
      BY <2>2, <3>2 DEF NoCall
    <3> QED BY <2>1, <3>1, <3>2
  <2> QED BY <2>3 DEF CallHolds
<1> QED BY <1>1, <1>2

LEMMA ApplyScopeKeeps ==
  ASSUME SearchInv, ApplyScope PROVE SearchInv'
<1>1. PICK c, on : c = call /\ on = slate
  OBVIOUS
<1>2. CallHolds(c, on)
  BY <1>1 DEF SearchInv
<1>3. PICK d : d = call'
  OBVIOUS
<1>4. CASE c.scope = NoScope /\ call' = Scoped(call.cand)
  <2>1. PICK kept \in Seq(ChunkId) : kept = c.cand
    BY <1>2 DEF CallHolds
  <2>2. InScope(kept, c.scope)
    BY <1>4, NoScopeNoConflict DEF InScope
  <2>3. d = Scoped(kept)
    BY <1>1, <1>3, <1>4, <2>1
  <2>4. CallHolds(d, on)
    BY <1>1, <1>2, <2>2, <2>3, ScopedHolds DEF ApplyScope
  <2> QED BY <1>1, <1>3, <2>4 DEF ApplyScope, SearchInv
<1>5. CASE c.scope # NoScope
  <2>1. PICK rows : rows = GetChunks(c.cand)
    OBVIOUS
  <2>2. rows \in Seq(ChunkId)
    BY <1>2, <2>1, OnlyElements DEF CallHolds, GetChunks
  <2>3. PICK F : F = {x \in ChunkId : ~Conflicts(x, c.scope)}
    OBVIOUS
  <2>4. PICK kept : kept = Only(rows, F)
    OBVIOUS
  <2>5. kept \in Seq(ChunkId) /\ Range(kept) = Range(rows) \cap F
    BY <2>2, <2>4, OnlyElements
  <2>6. InScope(kept, c.scope)
    BY <2>3, <2>5 DEF InScope
  <2>7. PICK status : d = [Scoped(kept) EXCEPT !.status = status]
    BY <1>1, <1>3, <1>5, <2>1, <2>3, <2>4 DEF ApplyScope
  <2>8. CallHolds(d, on)
    BY <1>1, <1>2, <2>5, <2>6, <2>7, ScopedHolds DEF ApplyScope
  <2> QED BY <1>1, <1>3, <2>8 DEF ApplyScope, SearchInv
<1> QED BY <1>1, <1>4, <1>5 DEF ApplyScope

LEMMA ReadTextsKeeps ==
  ASSUME SearchInv, ReadTexts PROVE SearchInv'
<1>1. PICK c : c = call
  OBVIOUS
<1>2. CallHolds(c, slate)
  BY <1>1 DEF SearchInv
<1>3. PICK d, texts : d = [c EXCEPT !.pc = "rank", !.texts = texts] /\ call' = d
  BY <1>1 DEF ReadTexts
<1>4. /\ d.pc = "rank" /\ d.cand = c.cand /\ d.items = c.items /\ d.asks = c.asks
      /\ d.shown = c.shown /\ d.scope = c.scope /\ DOMAIN d = DOMAIN NoCall
  BY <1>2, <1>3 DEF CallHolds, NoCall
<1>5. c.pc = "texts"
  BY <1>1 DEF ReadTexts
<1>6. CallHolds(d, slate)
  BY <1>2, <1>4, <1>5 DEF CallHolds
<1> QED BY <1>3, <1>6 DEF ReadTexts, SearchInv

LEMMA RankFailsKeeps ==
  ASSUME RetrievalAssumption, SearchInv, RankFails PROVE SearchInv'
<1>1. PICK c : c = call
  OBVIOUS
<1>2. CallHolds(c, slate)
  BY <1>1 DEF SearchInv
<1>3. PICK d, items : /\ items = FirstOf(c.cand, TopK) /\ call' = d
                      /\ d = [c EXCEPT !.pc = "answer", !.items = items, !.cand = <<>>,
                                       !.low = TRUE, !.degraded = TRUE]
  BY <1>1 DEF RankFails
<1>4. /\ d.pc = "answer" /\ d.cand = <<>> /\ d.items = items /\ d.asks = c.asks
      /\ d.shown = c.shown /\ d.scope = c.scope /\ DOMAIN d = DOMAIN NoCall
  BY <1>2, <1>3 DEF CallHolds, NoCall
<1>5. c.pc = "rank"
  BY <1>1 DEF RankFails
<1>6. items \in Seq(ChunkId) /\ Range(items) \subseteq Range(c.cand)
  <2>1. TopK \in Nat /\ c.cand \in Seq(ChunkId)
    BY <1>2 DEF RetrievalAssumption, CallHolds
  <2> QED BY <1>3, <2>1, FirstOfElements
<1>7. InScope(items, c.scope)
  <2>1. InScope(c.cand, c.scope)
    BY <1>2, <1>5 DEF CallHolds
  <2> QED BY <1>6, <2>1, SmallerInScope
<1>8. CallHolds(d, slate)
  BY <1>2, <1>4, <1>6, <1>7, EmptySeq DEF CallHolds
<1> QED BY <1>3, <1>8 DEF RankFails, SearchInv

\* The slate, or the first of the rank, is made of candidates.
LEMMA RerankKeeps ==
  ASSUME RetrievalAssumption, SearchInv, Rerank PROVE SearchInv'
<1>1. PICK c, on : c = call /\ on = slate
  OBVIOUS
<1>2. CallHolds(c, on)
  BY <1>1 DEF SearchInv
<1>3. PICK d, S, ranked :
        /\ S \subseteq Range(c.cand) /\ ranked \in SetToSeqs(S)
        /\ d = Ranked(ranked) /\ call' = d
  BY <1>1 DEF Rerank
<1>4. c.cand \in Seq(ChunkId) /\ c.pc = "rank" /\ TopK \in Nat
  BY <1>1, <1>2 DEF Rerank, CallHolds, RetrievalAssumption
<1>5. ranked \in Seq(ChunkId) /\ Range(ranked) \subseteq Range(c.cand)
  <2>1. Range(c.cand) \subseteq ChunkId
    <3>1. DOMAIN c.cand = 1 .. Len(c.cand)
      BY <1>4
    <3> QED BY <1>4, <3>1 DEF Range
  <2>2. S \subseteq ChunkId
    BY <1>3, <2>1
  <2> QED BY <1>3, <2>2, SequencesOfSet
<1>6. InScope(ranked, c.scope)
  <2>1. InScope(c.cand, c.scope)
    BY <1>2, <1>4 DEF CallHolds
  <2> QED BY <1>5, <2>1, SmallerInScope
<1>7. CASE ranked = <<>>
  <2>1. d = [c EXCEPT !.pc = "answer", !.cand = <<>>, !.low = TRUE]
    BY <1>1, <1>3, <1>7 DEF Ranked
  <2>2. /\ d.pc = "answer" /\ d.cand = <<>> /\ d.items = c.items /\ d.asks = c.asks
        /\ d.shown = c.shown /\ d.scope = c.scope /\ DOMAIN d = DOMAIN NoCall
    BY <1>2, <2>1 DEF CallHolds, NoCall
  <2>3. CallHolds(d, on)
    BY <1>2, <1>4, <2>2, EmptySeq, NothingInScope DEF CallHolds
  <2> QED BY <1>1, <1>3, <2>3 DEF Rerank, SearchInv
<1>8. CASE ranked # <<>>
  <2>1. PICK order : order = Only(ranked, c.texts)
    OBVIOUS
  <2>2. order \in Seq(ChunkId) /\ Range(order) = Range(ranked) \cap c.texts
    BY <1>5, <2>1, OnlyElements
  <2>3. PICK items : items = IF on THEN SelectSlate(c.asks, order) ELSE FirstOf(ranked, TopK)
    OBVIOUS
  <2>4. d = [c EXCEPT !.pc = "judge", !.cand = <<>>, !.ranked = ranked, !.items = items]
    BY <1>1, <1>3, <1>8, <2>1, <2>3 DEF Ranked
  <2>5. /\ d.pc = "judge" /\ d.cand = <<>> /\ d.items = items /\ d.asks = c.asks
        /\ d.shown = c.shown /\ d.scope = c.scope /\ DOMAIN d = DOMAIN NoCall
        /\ d.ranked = ranked /\ d.texts = c.texts
    BY <1>2, <2>4 DEF CallHolds, NoCall
  <2>6. PICK E, asks : E = Range(FaceOrder) /\ asks = c.asks /\ asks \in Seq(E)
    BY <1>2 DEF CallHolds
  <2>7. on => /\ items \in Seq(ChunkId) /\ Range(items) \subseteq Range(order)
              /\ Len(asks) <= TopK => \A face \in Range(asks) :
                   (\E x \in Range(order) : face \in Faces[x]) =>
                     \E x \in Range(items) : face \in Faces[x]
    <3>1. PICK s : s = SelectSlate(asks, order)
      OBVIOUS
    <3>2. asks \in Seq(E) /\ order \in Seq(ChunkId)
      BY <2>2, <2>6
    <3>3. s \in Seq(ChunkId) /\ Range(s) \subseteq Range(order)
      BY <3>1, <3>2, SlateFills
    <3>4. Len(asks) <= TopK => \A face \in Range(asks) :
            (\E x \in Range(order) : face \in Faces[x]) => \E x \in Range(s) : face \in Faces[x]
      BY <3>1, <3>2, SlateFills
    <3>5. on => items = s
      BY <2>3, <2>6, <3>1
    <3> QED BY <3>3, <3>4, <3>5
  <2>8. ~on => items \in Seq(ChunkId) /\ Range(items) \subseteq Range(ranked)
    BY <1>4, <1>5, <2>3, FirstOfElements
  <2>9. items \in Seq(ChunkId) /\ Range(items) \subseteq Range(ranked)
    BY <2>2, <2>7, <2>8
  <2>10. InScope(items, c.scope)
    BY <1>6, <2>9, SmallerInScope
  <2>11. CallHolds(d, on)
    BY <1>2, <2>2, <2>5, <2>6, <2>7, <2>9, <2>10, EmptySeq DEF CallHolds
  <2> QED BY <1>1, <1>3, <2>11 DEF Rerank, SearchInv
<1> QED BY <1>7, <1>8

LEMMA JudgeKeeps ==
  ASSUME SearchInv, Judge PROVE SearchInv'
<1>1. PICK c : c = call
  OBVIOUS
<1>2. CallHolds(c, slate)
  BY <1>1 DEF SearchInv
<1>3. PICK d, low : d = [c EXCEPT !.pc = "answer", !.low = low] /\ call' = d
  BY <1>1 DEF Judge
<1>4. /\ d.pc = "answer" /\ d.cand = c.cand /\ d.items = c.items /\ d.asks = c.asks
      /\ d.shown = c.shown /\ d.scope = c.scope /\ DOMAIN d = DOMAIN NoCall
  BY <1>2, <1>3 DEF CallHolds, NoCall
<1>5. c.pc = "judge"
  BY <1>1 DEF Judge
<1>6. CallHolds(d, slate)
  BY <1>2, <1>4, <1>5 DEF CallHolds
<1> QED BY <1>3, <1>6 DEF Judge, SearchInv

\* Whatever row an item is paired with, it is the row of an item.
LEMMA ShowKeeps ==
  ASSUME SearchInv, Show PROVE SearchInv'
<1>1. PICK c : c = call
  OBVIOUS
<1>2. CallHolds(c, slate)
  BY <1>1 DEF SearchInv
<1>3. PICK visible : visible = IF c.low THEN <<>> ELSE c.items
  OBVIOUS
<1>4. PICK rows : rows = GetChunks(visible)
  OBVIOUS
<1>5. PICK shown : shown = [i \in DOMAIN rows |-> [item |-> visible[i], row |-> rows[i]]]
  OBVIOUS
<1>6. PICK d : /\ d = [c EXCEPT !.pc = "shown", !.texts = {}, !.ranked = <<>>, !.shown = shown]
               /\ call' = d
  BY <1>1, <1>3, <1>4, <1>5 DEF Show, Zipped
<1>7. /\ d.pc = "shown" /\ d.cand = c.cand /\ d.items = c.items /\ d.asks = c.asks
      /\ d.shown = shown /\ d.scope = c.scope /\ DOMAIN d = DOMAIN NoCall
  BY <1>2, <1>6 DEF CallHolds, NoCall
<1>8. visible \in Seq(ChunkId) /\ InScope(visible, c.scope)
  <2>1. c.pc = "answer"
    BY <1>1 DEF Show
  <2> QED BY <1>2, <1>3, <2>1, NothingInScope DEF CallHolds
<1>9. InScope(rows, c.scope)
  <2>1. Range(rows) \subseteq Range(visible)
    BY <1>4, <1>8, OnlyElements DEF GetChunks
  <2> QED BY <1>8, <2>1, SmallerInScope
<1>10. \A i \in DOMAIN shown : ~Conflicts(shown[i].row, c.scope)
  <2>1. ASSUME NEW i \in DOMAIN shown PROVE ~Conflicts(shown[i].row, c.scope)
    <3>1. i \in DOMAIN rows /\ shown[i].row = rows[i]
      BY <1>5
    <3>2. rows[i] \in Range(rows)
      BY <3>1 DEF Range
    <3> QED BY <1>9, <3>1, <3>2 DEF InScope
  <2> QED BY <2>1
<1>11. CallHolds(d, slate)
  BY <1>2, <1>7, <1>10 DEF CallHolds
<1> QED BY <1>6, <1>11 DEF Show, SearchInv

LEMMA FailKeeps ==
  ASSUME Fail PROVE SearchInv'
<1>1. PICK d : d = [NoCall EXCEPT !.pc = "shown", !.low = TRUE] /\ call' = d
  BY DEF Fail
<1>2. /\ d.pc = "shown" /\ d.cand = <<>> /\ d.items = <<>> /\ d.asks = <<>> /\ d.shown = <<>>
      /\ DOMAIN d = DOMAIN NoCall
  BY <1>1 DEF NoCall
<1>3. DOMAIN d.shown = {}
  BY <1>2
<1>4. <<>> \in Seq(ChunkId) /\ <<>> \in Seq(Range(FaceOrder))
  BY EmptySeq
<1>5. CallHolds(d, slate)
  BY <1>2, <1>3, <1>4 DEF CallHolds
<1> QED BY <1>1, <1>5 DEF Fail, SearchInv

LEMMA SearchInvariant ==
  ASSUME RetrievalAssumption PROVE RetrievalSpec => []SearchInv
<1>1. RetrievalInit => SearchInv
  BY SearchInitially
<1>2. SearchInv /\ [RetrievalNext]_retrievalVars => SearchInv'
  <2> SUFFICES ASSUME SearchInv, [RetrievalNext]_retrievalVars PROVE SearchInv'
    OBVIOUS
  <2>1. CASE UNCHANGED retrievalVars
    BY <2>1 DEF SearchInv, retrievalVars, CallHolds
  <2>2. CASE Edit
    BY <2>2 DEF Edit, SearchInv
  <2> QED BY <2>1, <2>2, AskKeeps, RecallKeeps, ApplyScopeKeeps, ReadTextsKeeps, RankFailsKeeps,
             RerankKeeps, JudgeKeeps, ShowKeeps, FailKeeps DEF RetrievalNext
<1> QED BY <1>1, <1>2, PTL DEF RetrievalSpec

\* No row that query_faq shows contradicts the order, the version or the date of
\* the question, whatever builds delete between the three reads and although rows
\* may be shown beside another item's id (retrieval.py:523-565, builtin.py:112-124).
THEOREM ShownStaysInScope ==
  ASSUME RetrievalAssumption PROVE RetrievalSpec => []ShownIsInScope
<1>1. SearchInv => ShownIsInScope
  BY DEF SearchInv, CallHolds, ShownIsInScope
<1> QED BY <1>1, SearchInvariant, PTL

\* A facet that the question asks for and that a ranked chunk can fill is filled in
\* the slate, for every rank and every rule order, if there are places for all of
\* them (evidence_slate.py:45-48).
THEOREM SlateKeepsFacets ==
  ASSUME RetrievalAssumption PROVE RetrievalSpec => []FacetsSurvive
<1>1. SearchInv => FacetsSurvive
  BY DEF SearchInv, CallHolds, FacetsSurvive
<1> QED BY <1>1, SearchInvariant, PTL

-----------------------------------------------------------------------------
(* The answer plan: what is rendered, and the numbers it carries.           *)

\* The candidates behind a supported claim are those that its bindings name, and
\* they say, name and require what the claim does.
LEMMA SupportedIsBacked ==
  ASSUME NEW claim, ClaimStatus(claim) = "supported"
  PROVE  /\ claim.evidence # <<>>
         /\ \A b \in Bindings(claim) : ById(b.id) \in Candidate /\ ById(b.id).id = b.id
         /\ BoundCandidates(claim) = {ById(b.id) : b \in Bindings(claim)}
         /\ Anchored(claim, UNION {c.values : c \in BoundCandidates(claim)})
         /\ claim.entities \subseteq UNION {c.entities : c \in BoundCandidates(claim)}
         /\ UNION {c.conditions : c \in BoundCandidates(claim)} \subseteq claim.conditions
<1>1. Issues(claim) = {}
  BY DEF ClaimStatus
<1>2. claim.evidence # <<>>
  BY <1>1 DEF Issues
<1>3. {BindingIssue(b) : b \in Bindings(claim)} \ {""} = {}
  BY <1>1 DEF Issues
<1>4. ASSUME NEW b \in Bindings(claim) PROVE BindingIssue(b) = "" /\ Known(b.id)
  <2>1. BindingIssue(b) = ""
    BY <1>3
  <2> QED BY <2>1 DEF BindingIssue
<1>5. ASSUME NEW b \in Bindings(claim) PROVE ById(b.id) \in Candidate /\ ById(b.id).id = b.id
  BY <1>4 DEF Known, ById
<1>6. BoundCandidates(claim) = {ById(b.id) : b \in Bindings(claim)}
  BY <1>4 DEF BoundCandidates
<1>7. PICK B : B = BoundCandidates(claim)
  OBVIOUS
<1>8. Anchored(claim, UNION {c.values : c \in B})
  <2>1. ValueIssues(claim) = {}
    BY <1>1 DEF Issues
  <2>2. PICK values : values = UNION {c.values : c \in B}
    OBVIOUS
  <2>3. Anchored(claim, values)
    BY <1>7, <2>1, <2>2 DEF ValueIssues
  <2> QED BY <2>2, <2>3
<1>9. claim.entities \subseteq UNION {c.entities : c \in B}
  <2>1. SubjectIssues(claim) = {}
    BY <1>1 DEF Issues
  <2>2. PICK entities : entities = UNION {c.entities : c \in B}
    OBVIOUS
  <2>3. claim.entities = {} \/ claim.entities \subseteq entities
    BY <1>7, <2>1, <2>2 DEF SubjectIssues
  <2> QED BY <2>2, <2>3
<1>10. UNION {c.conditions : c \in B} \subseteq claim.conditions
  <2>1. ConditionIssues(claim) = {}
    BY <1>1 DEF Issues
  <2>2. \A c \in B : c.conditions \subseteq claim.conditions
    BY <1>7, <2>1 DEF ConditionIssues
  <2> QED BY <2>2
<1> QED BY <1>2, <1>5, <1>6, <1>7, <1>8, <1>9, <1>10

\* A line's numbers lead, in the sequence used, to evidence that backs its claim.
LineHolds(line, used) ==
  LET leads == {ById(used[n]) : n \in line.numbers \cap DOMAIN used}
  IN  /\ line.numbers # {} /\ line.numbers \subseteq DOMAIN used
      /\ {c.id : c \in leads} = {b.id : b \in Bindings(line.claim)}
      /\ Anchored(line.claim, UNION {c.values : c \in leads})
      /\ line.claim.entities \subseteq UNION {c.entities : c \in leads}
      /\ UNION {c.conditions : c \in leads} \subseteq line.claim.conditions

LEMMA LineIsBacked ==
  ASSUME PlanAssumption, NEW claim \in Claim, ClaimStatus(claim) = "supported",
         NEW used, \A b \in Bindings(claim) : b.id \in ToSet(used)
  PROVE  LineHolds(Line(claim, used), used)
<1>1. PICK B : B = Bindings(claim)
  OBVIOUS
<1>2. PICK num : num = [b \in B |-> CHOOSE n \in DOMAIN used : used[n] = b.id]
  OBVIOUS
<1>3. PICK line : line = Line(claim, used)
  OBVIOUS
<1>4. line.claim = claim /\ line.numbers = {num[b] : b \in B}
  BY <1>1, <1>2, <1>3 DEF Line
<1>5. ASSUME NEW b \in B PROVE num[b] \in DOMAIN used /\ used[num[b]] = b.id
  <2>1. \E n \in DOMAIN used : used[n] = b.id
    BY <1>1 DEF ToSet
  <2> QED BY <1>2, <2>1
<1>6. B # {}
  <2>1. claim.evidence # <<>>
    BY SupportedIsBacked
  <2>2. PICK e, E : e = claim.evidence /\ E = ToSet(e)
    OBVIOUS
  <2>3. e \in Seq(E)
    BY <2>2 DEF PlanAssumption
  <2>4. 1 \in DOMAIN e
    BY <2>1, <2>2, <2>3
  <2> QED BY <1>1, <2>2, <2>4 DEF Bindings, ToSet
<1>7. PICK leads : leads = {ById(used[n]) : n \in line.numbers \cap DOMAIN used}
  OBVIOUS
<1>8. leads = {ById(b.id) : b \in B}
  BY <1>4, <1>5, <1>7
<1>9. leads = BoundCandidates(claim)
  BY <1>1, <1>8, SupportedIsBacked
<1>10. {c.id : c \in leads} = {b.id : b \in B}
  <2>1. \A b \in B : ById(b.id).id = b.id
    BY <1>1, SupportedIsBacked
  <2> QED BY <1>8, <2>1
<1>11. line.numbers # {} /\ line.numbers \subseteq DOMAIN used
  BY <1>4, <1>5, <1>6
<1>12. /\ Anchored(claim, UNION {c.values : c \in leads})
       /\ claim.entities \subseteq UNION {c.entities : c \in leads}
       /\ UNION {c.conditions : c \in leads} \subseteq claim.conditions
  BY <1>9, SupportedIsBacked
<1>13. LineHolds(line, used)
  BY <1>1, <1>4, <1>7, <1>10, <1>11, <1>12 DEF LineHolds
<1> QED BY <1>3, <1>13

\* The ids that claims can bind.
Ids == {b.id : b \in UNION {ToSet(c.evidence) : c \in Claim}}

\* numbers has the ids of the first n bindings.
Adds(numbers, n, before, evidence) ==
  /\ numbers \in Seq(Ids) /\ ToSet(before) \subseteq ToSet(numbers)
  /\ \A i \in 1 .. n : evidence[i].id \in ToSet(numbers)

LEMMA AppendSet ==
  ASSUME NEW E, NEW s \in Seq(E), NEW e \in E
  PROVE  /\ Append(s, e) \in Seq(E)
         /\ \A x : x \in ToSet(Append(s, e)) <=> x \in ToSet(s) \/ x = e
<1>1. PICK k \in Nat : k = Len(s)
  OBVIOUS
<1>2. PICK p : p = Append(s, e)
  OBVIOUS
<1>3. /\ p \in Seq(E) /\ DOMAIN p = 1 .. k + 1 /\ p[k + 1] = e
      /\ \A i \in 1 .. k : p[i] = s[i]
  BY <1>1, <1>2
<1>4. DOMAIN s = 1 .. k
  BY <1>1
<1>5. \A i : i \in 1 .. k + 1 <=> i \in 1 .. k \/ i = k + 1
  BY <1>1
<1> QED BY <1>2, <1>3, <1>4, <1>5 DEF ToSet

LEMMA AddUsesHolds ==
  ASSUME PlanAssumption, NEW before \in Seq(Ids), NEW claim \in Claim
  PROVE  /\ AddUses(before, claim) \in Seq(Ids)
         /\ ToSet(before) \subseteq ToSet(AddUses(before, claim))
         /\ \A b \in Bindings(claim) : b.id \in ToSet(AddUses(before, claim))
<1> DEFINE e == claim.evidence
           Def(f) == [n \in 0 .. Len(e) |->
                        IF n = 0 THEN before
                        ELSE IF e[n].id \in ToSet(f[n - 1]) THEN f[n - 1]
                        ELSE Append(f[n - 1], e[n].id)]
           added == CHOOSE f : f = Def(f)
<1>1. AddUses(before, claim) = added[Len(e)]
  BY DEF AddUses
<1>2. e \in Seq(ToSet(e))
  BY DEF PlanAssumption
<1>3. PICK N \in Nat : N = Len(e)
  BY <1>2
<1>4. PICK D : D = Seq(Ids)
  OBVIOUS
<1>5. ASSUME NEW n \in 1 .. N PROVE e[n].id \in Ids
  <2>1. e[n] \in ToSet(e)
    BY <1>2, <1>3
  <2> QED BY <2>1 DEF Ids
<1>6. PICK step : step = [q \in D |-> [n \in 1 .. N |->
                            IF e[n].id \in ToSet(q) THEN q ELSE Append(q, e[n].id)]]
  OBVIOUS
<1>7. step \in [D -> [1 .. N -> D]]
  <2>1. ASSUME NEW q \in D, NEW n \in 1 .. N
        PROVE  (IF e[n].id \in ToSet(q) THEN q ELSE Append(q, e[n].id)) \in D
    BY <1>4, <1>5
  <2> QED BY <1>6, <2>1
<1>8. PICK f : Runs(f, N, D, before, step)
  BY <1>4, <1>7, RecursionExists
<1>9. f = Def(f)
  <2>1. f \in [0 .. N -> D] /\ f[0] = before
    BY <1>8 DEF Runs
  <2>2. ASSUME NEW n \in 1 .. N
        PROVE  f[n] = IF e[n].id \in ToSet(f[n - 1]) THEN f[n - 1] ELSE Append(f[n - 1], e[n].id)
    <3>1. PICK q \in D : q = f[n - 1]
      BY <2>1
    <3>2. f[n] = step[q][n]
      BY <1>8, <3>1 DEF Runs
    <3> QED BY <1>6, <3>1, <3>2
  <2>3. \A n \in 0 .. N : n # 0 => n \in 1 .. N
    OBVIOUS
  <2> HIDE DEF e
  <2> QED BY <1>3, <2>1, <2>2, <2>3
<1>10. added = Def(added)
  BY <1>9
<1> HIDE DEF added
<1>11. added[0] = before
  BY <1>3, <1>10
<1>12. ASSUME NEW n \in 1 .. N
       PROVE  added[n] = IF e[n].id \in ToSet(added[n - 1]) THEN added[n - 1]
                         ELSE Append(added[n - 1], e[n].id)
  <2>1. n \in 0 .. Len(e) /\ n # 0
    BY <1>3
  <2> HIDE DEF e
  <2> QED BY <1>10, <2>1
<1> HIDE DEF Def
<1> DEFINE T == {n \in Nat : n <= N => Adds(added[n], n, before, e)}
<1>13. 0 \in T
  <2>1. \A i \in 1 .. 0 : FALSE
    OBVIOUS
  <2>2. Adds(before, 0, before, e)
    BY <2>1 DEF Adds
  <2> QED BY <1>11, <2>2
<1>14. ASSUME NEW n \in Nat, n \in T PROVE n + 1 \in T
  <2> SUFFICES ASSUME n + 1 <= N PROVE Adds(added[n + 1], n + 1, before, e)
    OBVIOUS
  <2>1. n <= N /\ n + 1 \in 1 .. N /\ (n + 1) - 1 = n
    OBVIOUS
  <2>2. PICK q : q = added[n]
    OBVIOUS
  <2>3. Adds(q, n, before, e)
    BY <1>14, <2>1, <2>2
  <2>4. PICK id \in Ids : id = e[n + 1].id
    BY <1>5, <2>1
  <2>5. PICK p : p = IF id \in ToSet(q) THEN q ELSE Append(q, id)
    OBVIOUS
  <2>6. added[n + 1] = p
    BY <1>12, <2>1, <2>2, <2>4, <2>5
  <2>7. p \in Seq(Ids) /\ ToSet(q) \subseteq ToSet(p) /\ id \in ToSet(p)
    <3>1. q \in Seq(Ids)
      BY <2>3 DEF Adds
    <3> QED BY <2>5, <3>1, AppendSet
  <2>8. ASSUME NEW i \in 1 .. n + 1 PROVE e[i].id \in ToSet(p)
    <3>1. CASE i = n + 1
      BY <2>4, <2>7, <3>1
    <3>2. CASE i \in 1 .. n
      BY <2>3, <2>7, <3>2 DEF Adds
    <3> QED BY <3>1, <3>2
  <2>9. Adds(p, n + 1, before, e)
    BY <2>3, <2>7, <2>8 DEF Adds
  <2> QED BY <2>6, <2>9
<1>15. Nat \subseteq T
  <2> HIDE DEF T
  <2> QED BY <1>13, <1>14, SuccessorsReach
<1>16. PICK q : q = added[N]
  OBVIOUS
<1>17. Adds(q, N, before, e)
  BY <1>15, <1>16
<1>18. ASSUME NEW b \in Bindings(claim) PROVE b.id \in ToSet(q)
  <2>1. PICK i \in 1 .. N : b = e[i]
    <3>1. DOMAIN e = 1 .. N
      BY <1>2, <1>3
    <3> QED BY <3>1 DEF Bindings, ToSet
  <2> QED BY <1>17, <2>1 DEF Adds
<1> QED BY <1>1, <1>3, <1>16, <1>17, <1>18 DEF Adds

\* numbers has the ids of the bindings of the first n claims.
Numbers(numbers, n, claims) ==
  /\ numbers \in Seq(Ids)
  /\ \A i \in 1 .. n : \A b \in Bindings(claims[i]) : b.id \in ToSet(numbers)

\* Every binding of the claims has a number.
LEMMA UsedHolds ==
  ASSUME PlanAssumption, NEW claims \in Seq(Claim)
  PROVE  \A i \in DOMAIN claims : \A b \in Bindings(claims[i]) : b.id \in ToSet(Used(claims))
<1> DEFINE Def(f) == [n \in 0 .. Len(claims) |->
                        IF n = 0 THEN <<>> ELSE AddUses(f[n - 1], claims[n])]
           numbered == CHOOSE f : f = Def(f)
<1>1. Used(claims) = numbered[Len(claims)]
  BY DEF Used
<1>2. PICK N \in Nat : N = Len(claims)
  OBVIOUS
<1>3. PICK D : D = Seq(Ids)
  OBVIOUS
<1>4. PICK none \in D : none = <<>>
  BY <1>3, EmptySeq
<1>5. PICK step : step = [q \in D |-> [n \in 1 .. N |-> AddUses(q, claims[n])]]
  OBVIOUS
<1>6. step \in [D -> [1 .. N -> D]]
  <2>1. ASSUME NEW q \in D, NEW n \in 1 .. N PROVE AddUses(q, claims[n]) \in D
    <3>1. claims[n] \in Claim
      BY <1>2
    <3> QED BY <1>3, <3>1, AddUsesHolds
  <2> QED BY <1>5, <2>1
<1>7. PICK f : Runs(f, N, D, none, step)
  BY <1>6, RecursionExists
<1>8. f = Def(f)
  <2>1. f \in [0 .. N -> D] /\ f[0] = <<>>
    BY <1>4, <1>7 DEF Runs
  <2>2. ASSUME NEW n \in 1 .. N PROVE f[n] = AddUses(f[n - 1], claims[n])
    <3>1. PICK q \in D : q = f[n - 1]
      BY <2>1
    <3>2. f[n] = step[q][n]
      BY <1>7, <3>1 DEF Runs
    <3> QED BY <1>5, <3>1, <3>2
  <2>3. \A n \in 0 .. N : n # 0 => n \in 1 .. N
    OBVIOUS
  <2> QED BY <1>2, <2>1, <2>2, <2>3
<1>9. numbered = Def(numbered)
  BY <1>8
<1> HIDE DEF numbered
<1>10. numbered[0] = <<>>
  BY <1>2, <1>9
<1>11. ASSUME NEW n \in 1 .. N PROVE numbered[n] = AddUses(numbered[n - 1], claims[n])
  <2>1. n \in 0 .. Len(claims) /\ n # 0
    BY <1>2
  <2> QED BY <1>9, <2>1
<1> HIDE DEF Def
<1> DEFINE T == {n \in Nat : n <= N => Numbers(numbered[n], n, claims)}
<1>12. 0 \in T
  <2>1. \A i \in 1 .. 0 : FALSE
    OBVIOUS
  <2>2. Numbers(none, 0, claims)
    BY <1>3, <2>1 DEF Numbers
  <2> QED BY <1>4, <1>10, <2>2
<1>13. ASSUME NEW n \in Nat, n \in T PROVE n + 1 \in T
  <2> SUFFICES ASSUME n + 1 <= N PROVE Numbers(numbered[n + 1], n + 1, claims)
    OBVIOUS
  <2>1. n <= N /\ n + 1 \in 1 .. N /\ (n + 1) - 1 = n
    OBVIOUS
  <2>2. PICK q : q = numbered[n]
    OBVIOUS
  <2>3. Numbers(q, n, claims)
    BY <1>13, <2>1, <2>2
  <2>4. PICK claim \in Claim : claim = claims[n + 1]
    BY <1>2, <2>1
  <2>5. PICK p : p = AddUses(q, claim)
    OBVIOUS
  <2>6. numbered[n + 1] = p
    BY <1>11, <2>1, <2>2, <2>4, <2>5
  <2>7. /\ p \in Seq(Ids) /\ ToSet(q) \subseteq ToSet(p)
        /\ \A b \in Bindings(claim) : b.id \in ToSet(p)
    <3>1. q \in Seq(Ids)
      BY <2>3 DEF Numbers
    <3> QED BY <2>5, <3>1, AddUsesHolds
  <2>8. ASSUME NEW i \in 1 .. n + 1, NEW b \in Bindings(claims[i]) PROVE b.id \in ToSet(p)
    <3>1. CASE i = n + 1
      BY <2>4, <2>7, <3>1
    <3>2. CASE i \in 1 .. n
      BY <2>3, <2>7, <3>2 DEF Numbers
    <3> QED BY <3>1, <3>2
  <2>9. Numbers(p, n + 1, claims)
    BY <2>7, <2>8 DEF Numbers
  <2> QED BY <2>6, <2>9
<1>14. Nat \subseteq T
  <2> HIDE DEF T
  <2> QED BY <1>12, <1>13, SuccessorsReach
<1>15. PICK q : q = numbered[N]
  OBVIOUS
<1>16. Numbers(q, N, claims)
  BY <1>14, <1>15
<1>17. DOMAIN claims = 1 .. N
  BY <1>2
<1> QED BY <1>1, <1>2, <1>15, <1>16, <1>17 DEF Numbers

\* Every line of a reply holds by the numbers it carries.
RenderedHolds(reply, used) == \A i \in DOMAIN reply.lines : LineHolds(reply.lines[i], used)

LEMMA NoLines ==
  ASSUME NEW reply, NEW used, reply.lines = <<>> PROVE RenderedHolds(reply, used)
BY DEF RenderedHolds

LEMMA RenderHolds ==
  ASSUME PlanAssumption, NEW p, p.claims \in Seq(Claim)
  PROVE  RenderedHolds(Render(p), Render(p).used)
<1>1. PICK claims \in Seq(Claim) : claims = p.claims
  OBVIOUS
<1>2. PICK r : r = Render(p)
  OBVIOUS
<1>3. CASE PlanStatus(p) # "pass"
  <2>1. r = LimitedHelp(p)
    BY <1>2, <1>3 DEF Render
  <2>2. PICK F : F = {c \in ToSet(claims) : ClaimStatus(c) = "supported"}
    OBVIOUS
  <2>3. PICK some : some = Only(claims, F)
    OBVIOUS
  <2>4. some \in Seq(Claim) /\ Range(some) = Range(claims) \cap F
    BY <2>3, OnlyElements
  <2>5. some = Supported(p)
    BY <1>1, <2>2, <2>3 DEF Supported
  <2>6. CASE some = <<>>
    <3>1. r = [NoReply EXCEPT !.kind = "counts"]
      BY <2>1, <2>5, <2>6 DEF LimitedHelp
    <3>2. r.lines = <<>>
      BY <3>1 DEF NoReply
    <3> QED BY <1>2, <3>2, NoLines
  <2>7. CASE some # <<>>
    <3>1. PICK used, claim, line, rest :
            /\ used = Used(some) /\ claim = Last(some) /\ line = Line(claim, used)
            /\ r = [NoReply EXCEPT !.kind = "limited", !.used = used, !.lines = <<line>>,
                                   !.rest = rest]
      BY <2>1, <2>5, <2>7 DEF LimitedHelp
    <3>2. r.used = used /\ r.lines = <<line>>
      BY <3>1 DEF NoReply
    <3>3. PICK k \in DOMAIN some : claim = some[k]
      <4>1. Len(some) \in DOMAIN some
        BY <2>4, <2>7
      <4> QED BY <3>1, <4>1 DEF Last
    <3>4. claim \in Claim /\ ClaimStatus(claim) = "supported"
      <4>1. claim \in Range(some)
        BY <3>3 DEF Range
      <4> QED BY <2>2, <2>4, <3>3, <4>1
    <3>5. \A b \in Bindings(claim) : b.id \in ToSet(used)
      BY <2>4, <3>1, <3>3, UsedHolds
    <3>6. LineHolds(line, used)
      BY <3>1, <3>4, <3>5, LineIsBacked
    <3>7. RenderedHolds(r, used)
      BY <3>2, <3>6 DEF RenderedHolds
    <3> QED BY <1>2, <3>2, <3>7
  <2> QED BY <2>6, <2>7
<1>4. CASE PlanStatus(p) = "pass"
  <2> DEFINE Marked(used) == [i \in DOMAIN claims |-> Line(claims[i], used)]
  <2>0. PICK used, lines : used = Used(claims) /\ lines = Marked(used)
    OBVIOUS
  <2>1. \/ \E kind, limits : r = [NoReply EXCEPT !.kind = kind, !.limits = limits]
        \/ \E kind : r = [NoReply EXCEPT !.kind = kind]
        \/ \E limits : r = [NoReply EXCEPT !.kind = "answer", !.used = used, !.limits = limits,
                                           !.lines = lines]
    BY <1>1, <1>2, <1>4, <2>0 DEF Render
  <2>2. ASSUME NEW kind, NEW limits, r = [NoReply EXCEPT !.kind = kind, !.limits = limits]
        PROVE  RenderedHolds(r, r.used)
    <3>1. r.lines = <<>>
      BY <2>2 DEF NoReply
    <3> QED BY <3>1, NoLines
  <2>3. ASSUME NEW kind, r = [NoReply EXCEPT !.kind = kind]
        PROVE  RenderedHolds(r, r.used)
    <3>1. r.lines = <<>>
      BY <2>3 DEF NoReply
    <3> QED BY <3>1, NoLines
  <2>4. ASSUME NEW limits, r = [NoReply EXCEPT !.kind = "answer", !.used = used, !.limits = limits,
                                               !.lines = lines]
        PROVE  RenderedHolds(r, r.used)
    <3>1. r.used = used /\ r.lines = lines
      BY <2>4 DEF NoReply
    <3>2. ASSUME NEW i \in DOMAIN claims PROVE LineHolds(Line(claims[i], used), used)
      <4>1. PICK claim \in Claim : claim = claims[i]
        OBVIOUS
      <4>2. ClaimStatus(claim) = "supported"
        <5>1. PICK statuses : statuses = {ClaimStatus(c) : c \in ToSet(claims)}
          OBVIOUS
        <5>2. ClaimStatus(claim) \in statuses
          BY <4>1, <5>1 DEF ToSet
        <5>3. claims # <<>>
          OBVIOUS
        <5>4. "unsupported" \notin statuses /\ "uncertain" \notin statuses
          BY <1>1, <1>4, <5>1, <5>3 DEF PlanStatus
        <5> QED BY <5>2, <5>4 DEF ClaimStatus
      <4>3. \A b \in Bindings(claim) : b.id \in ToSet(used)
        BY <2>0, <4>1, UsedHolds
      <4> QED BY <4>1, <4>2, <4>3, LineIsBacked
    <3> QED BY <2>0, <3>1, <3>2 DEF RenderedHolds
  <2>5. RenderedHolds(r, r.used)
    BY <2>1, <2>2, <2>3, <2>4
  <2> QED BY <1>2, <2>5
<1> QED BY <1>3, <1>4

\* Claims are claims; a reply that is made holds by the evidence it used, and that
\* is the evidence of the frame.
PlanInv ==
  /\ at \in {"create", "validate", "emit", "done"}
  /\ plan.claims \in Seq(Claim)
  /\ at \in {"emit", "done"} => RenderedHolds(rendered, rendered.used)
  /\ at = "done" => frame = rendered.used

LEMMA PlansHaveClaims ==
  ASSUME PlanAssumption, NEW p \in Plans PROVE p.claims \in Seq(Claim)
<1>1. PICK m \in 0 .. MaxClaims : p.claims \in [1 .. m -> Claim]
  BY DEF Plans, BoundedSeq, SeqOf
<1>2. m \in Nat
  BY DEF PlanAssumption
<1> QED BY <1>1, <1>2

\* What was validated of a line is in the evidence that its numbers lead to in the
\* frame, for all plans, evidence and numbers of claims: its value, or a part of its
\* text if it has none, what it speaks of, and the conditions
\* (verification.py:89-281, renderer.py:30-63, :92-117, :132-150,
\* graph_node.py:92-106).
THEOREM LinesStayInEvidence ==
  ASSUME PlanAssumption PROVE PlanSpec => []LinesAreInEvidence
<1>1. PlanInit => PlanInv
  <2> SUFFICES ASSUME PlanInit PROVE PlanInv
    OBVIOUS
  <2>1. plan.claims = <<>>
    BY DEF PlanInit
  <2> QED BY <2>1, EmptySeq DEF PlanInit, PlanInv
<1>2. PlanInv /\ [PlanNext]_planVars => PlanInv'
  <2> SUFFICES ASSUME PlanInv, [PlanNext]_planVars PROVE PlanInv'
    OBVIOUS
  <2>1. CASE Create
    BY <2>1, PlansHaveClaims DEF Create, PlanInv
  <2>2. CASE Repair
    BY <2>2, PlansHaveClaims DEF Repair, PlanInv
  <2>3. CASE RenderReply
    <3>1. PICK r : r = Render(plan) /\ rendered' = r
      BY <2>3 DEF RenderReply
    <3>2. RenderedHolds(r, r.used)
      BY <3>1, RenderHolds DEF PlanInv
    <3> QED BY <2>3, <3>1, <3>2 DEF RenderReply, PlanInv
  <2>4. CASE Emit
    BY <2>4 DEF Emit, PlanInv, Citations
  <2>5. CASE UNCHANGED planVars
    BY <2>5 DEF planVars, PlanInv
  <2> QED BY <2>1, <2>2, <2>3, <2>4, <2>5 DEF PlanNext
<1>3. PlanInv => LinesAreInEvidence
  <2> SUFFICES ASSUME PlanInv, at = "done" PROVE LinesAreInEvidence
    BY DEF LinesAreInEvidence
  <2>1. frame = rendered.used /\ RenderedHolds(rendered, frame)
    BY DEF PlanInv
  <2>2. \A i \in DOMAIN rendered.lines : LineHolds(rendered.lines[i], frame)
    BY <2>1 DEF RenderedHolds
  <2> QED BY <2>2 DEF LinesAreInEvidence, LineHolds
<1> QED BY <1>1, <1>2, <1>3, PTL DEF PlanSpec

=============================================================================
