----------------------------- MODULE EvidenceGate -----------------------------
(***************************************************************************)
(* The score gate of retrieved evidence (app/retrieval.py) and the          *)
(* calibration of its thresholds (scripts/gen_evidence_signals.py): signals *)
(* of labelled samples are rounded and split by a seed, a grid search finds *)
(* thresholds that no hard negative passes, the file of thresholds is       *)
(* replaced if it found some, and a service that starts later gates the     *)
(* exact scores by what is in the file.                                     *)
(*                                                                         *)
(* Scores are multiples of 1/One; a signal is rounded to a multiple of Grid *)
(* (6 decimals in the source).                                              *)
(***************************************************************************)
EXTENDS Integers, FiniteSets, Sequences, FiniteSetsExt

CONSTANTS
  One,      \* the score 1.0
  Grid,     \* what signals are rounded to
  Score,    \* scores that a reranker may give
  Case,     \* the samples' ids
  MaxItems, \* bound: items of a sample
  MaxFits,  \* bound: calibrations that are run
  NoFit     \* thresholds where there is no usable file

ASSUME GateAssumption ==
  /\ One \in Nat \ {0} /\ One % 2 = 0
  /\ Grid \in Nat \ {0}
  /\ Score \subseteq 0 .. One
  /\ IsFiniteSet(Case)
  /\ {MaxItems, MaxFits} \subseteq Nat

VARIABLES
  samples,  \* the evaluation set, scored by the live chain
  config,   \* config/evidence_calibration.json
  fits      \* calibrations so far

gateVars == <<samples, config, fits>>

-----------------------------------------------------------------------------
(* The gate: the best score, how many are effective, by how much the first  *)
(* leads the second, and a sum of the three.                                *)

Within(x, most) == Min({Max({0, x}), most})

Top1(scores) == IF scores = <<>> THEN 0 ELSE scores[1]

Margin(scores) == IF Len(scores) > 1 THEN scores[1] - scores[2] ELSE Top1(scores)

Effective(scores, floor) == Cardinality({i \in DOMAIN scores : scores[i] >= floor})

\* combined_confidence_score in units of 1 / (20 * One): 0.60 of the first,
\* 0.25 of the lead over 0.5 and 0.15 of the count over 3.
Combined(top1, margin, count) ==
  12 * top1 + 10 * Within(margin, One \div 2) + One * Within(count, 3)

Passed(scores, f) ==
  LET count == Effective(scores, f.effective) IN
    /\ scores # <<>>
    /\ Top1(scores) >= f.top1
    /\ count >= f.count
    /\ Margin(scores) >= f.margin
    /\ Combined(Top1(scores), Margin(scores), count) >= f.combined

-----------------------------------------------------------------------------
(* Calibration. *)

Kinds == {"positive", "missed", "hard", "ood"}

\* A reranker's scores, best first.
ScoreLists ==
  {s \in UNION {[1 .. n -> Score] : n \in 0 .. MaxItems} :
     \A i \in DOMAIN s, j \in DOMAIN s : i < j => s[i] >= s[j]}

Rounded(x) == ((x + Grid \div 2) \div Grid) * Grid

\* signal_for; a missed sample is a positive without its evidence.
Signal(c) ==
  [top1 |-> Rounded(Top1(samples[c].scores)),
   margin |-> Rounded(Margin(samples[c].scores)),
   count |-> Effective(samples[c].scores, NoFit.effective)]

\* MUTATED: a signal has to be above the floors.
IsAbove(c, f) ==
  /\ Signal(c).count >= f.count
  /\ Signal(c).top1 > f.top1
  /\ Signal(c).margin >= f.margin

Passes(c, f) ==
  /\ Signal(c).count >= f.count
  /\ Signal(c).top1 >= f.top1
  /\ Signal(c).margin >= f.margin

Of(kind, C) == {c \in C : samples[c].kind = kind}

\* The grid: what was seen, and zero.
Candidates(C) ==
  [top1 : {0} \cup {Signal(c).top1 : c \in C},
   margin : {0} \cup {Signal(c).margin : c \in C},
   count : 1 .. 3]

FalseAccepts(kind, C, f) == {c \in Of(kind, C) : Passes(c, f)}
Recalled(C, f) == Cardinality({c \in Of("positive", C) : Passes(c, f)})

Feasible(C) == {f \in Candidates(C) : FalseAccepts("hard", C, f) = {}}

Lowest(F, Key(_)) ==
  LET lowest == Min({Key(f) : f \in F}) IN {f \in F : Key(f) = lowest}

\* Most positives recalled, then fewest false accepts of questions out of the
\* domain, then the highest floors.  F2 is left out: among the feasible it
\* follows from the first two.
Best(C) ==
  LET recalling == Lowest(Feasible(C), LAMBDA f : -Recalled(C, f))
      precise == Lowest(recalling, LAMBDA f : Cardinality(FalseAccepts("ood", C, f)))
      high == Lowest(precise, LAMBDA f : -f.top1)
      wide == Lowest(high, LAMBDA f : -f.margin)
  IN  CHOOSE f \in Lowest(wide, LAMBDA f : -f.count) : TRUE

\* Half of a group of two, a third of a larger one, rounded; never all of it.
Held(n) == IF n > 1 THEN Within(Max({1, (2 * n + 3) \div 6}), n - 1) ELSE 0

\* _split_samples: the seed decides which of each group are held out.
Splits ==
  {C \in SUBSET Case : \A label \in {{"positive", "missed"}, {"hard"}, {"ood"}} :
     LET group == {c \in Case : samples[c].kind \in label} IN
       Cardinality(group \ C) = Held(Cardinality(group))}

NoConfig == [set |-> FALSE, on |-> {}, floors |-> NoFit]

GateInit ==
  /\ samples \in [Case -> [scores : ScoreLists, kind : Kinds]]
  /\ config = NoConfig
  /\ fits = 0

\* combined_floor is a diagnosis only.
Calibrate ==
  /\ fits < MaxFits
  /\ fits' = fits + 1
  /\ \E C \in Splits :
       \/ /\ Of("positive", C) = {} \/ Feasible(C) = {}
          /\ UNCHANGED config
       \/ /\ Of("positive", C) # {}
          /\ Feasible(C) # {}
          /\ LET f == Best(C) IN
               config' = [set |-> TRUE, on |-> C,
                          floors |-> [top1 |-> f.top1, margin |-> f.margin, count |-> f.count,
                                      effective |-> NoFit.effective, combined |-> 0]]
  /\ UNCHANGED samples

GateNext == Calibrate

GateSpec == GateInit /\ [][GateNext]_gateVars

\* _load_evidence_calibration.
Loaded == IF config.set THEN config.floors ELSE NoFit

-----------------------------------------------------------------------------
(* Properties. *)

\* Zero false accepts of hard negatives (retrieval.py:355) survives the way to
\* the service: no hard negative that the file was calibrated on passes the gate
\* of a service that loads it, although the search saw rounded signals and the
\* gate sees scores, and whichever calibrations found nothing since.
HardNegativesStayOut ==
  config.set => \A c \in Of("hard", config.on) : ~Passed(samples[c].scores, Loaded)

=============================================================================
