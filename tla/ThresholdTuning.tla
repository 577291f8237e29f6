--------------------------- MODULE ThresholdTuning ---------------------------
(****************************************************************************)
(* How the routing threshold is chosen on the validation flows              *)
(* (ml_dl/tune_threshold.py) and used on flows afterwards (ml_dl/routing.py *)
(* as called by predict).                                                   *)
(*                                                                          *)
(* Confidences and thresholds are whole percents.  Of a validation flow     *)
(* only its confidence counts, and whether each network classifies it       *)
(* right.  The heavy network is trained on scaled sequences (train_all.py,  *)
(* lines 57-71); what it makes of a flow depends on whether it is given the *)
(* sequence scaled or raw.  Fractions are compared as counts.               *)
(****************************************************************************)
EXTENDS Integers, Sequences, FiniteSets

CONSTANTS
  Confidences,         \* confidences that validation flows have
  Thetas,              \* the candidates of the sweep
  MAX_HEAVY_PERCENT,   \* MAX_HEAVY_FRACTION
  MaxFlows             \* bound: validation flows

(* Without a candidate or without a flow there is no accuracy to compare.   *)
ASSUME ThresholdTuningAssumption ==
  /\ Confidences \subseteq 0 .. 100
  /\ Thetas \subseteq 0 .. 100 /\ Thetas # {}
  /\ MAX_HEAVY_PERCENT \in 0 .. 100
  /\ MaxFlows \in Nat \ {0}

(* Whether the light network is right, and the heavy one by the form of the *)
(* sequence that it is given.                                               *)
Flow == [confidence : Confidences, light : BOOLEAN,
         heavy : [{"raw", "scaled"} -> BOOLEAN]]

VARIABLES
  val,       \* the validation flows, as the networks classify them
  theta,     \* threshold.pkl: empty, or the set of the chosen threshold
  summary,   \* what tune reports of it
  served     \* the same flows, as predict has routed them so far

vars == <<val, theta, summary, served>>

------------------------------------------------------------------------------

(* The flows that a candidate sends to the heavy network (heavy_mask). *)
Heavy(t) == { i \in DOMAIN val : ~(val[i].confidence >= t) }

(* The flows whose final verdict is right (overall_dl_accuracy): the heavy  *)
(* network is given the sequences as build_sequences made them, unscaled.   *)
Right(t) ==
  { i \in DOMAIN val : IF i \in Heavy(t) THEN val[i].heavy["raw"] ELSE val[i].light }

(* What tune reports of a candidate: the flows on the heavy branch, and how *)
(* many are right on the light branch and on both.                          *)
Reported(t) ==
  [heavy |-> Cardinality(Heavy(t)),
   light |-> Cardinality(Right(t) \ Heavy(t)),
   right |-> Cardinality(Right(t))]

(* Mutant: the cap is put on the light branch. *)
FeasibleByLight ==
  { t \in Thetas :
      100 * (Len(val) - Cardinality(Heavy(t))) <= MAX_HEAVY_PERCENT * Len(val) }

(* Candidates that stay under the cap on the heavy branch. *)
Feasible ==
  { t \in Thetas : 100 * Cardinality(Heavy(t)) <= MAX_HEAVY_PERCENT * Len(val) }

Candidates == IF Feasible # {} THEN Feasible ELSE Thetas

(* idxmax: the first of the candidates with the most right verdicts. *)
Best(t) ==
  \A u \in Candidates :
    \/ Cardinality(Right(u)) < Cardinality(Right(t))
    \/ Cardinality(Right(u)) = Cardinality(Right(t)) /\ t <= u

(* Mutant: a flow at the threshold goes to the heavy network. *)
RouteAbove(confidence, t) == IF confidence > t THEN "light" ELSE "heavy"

Route(confidence, t) == IF confidence >= t THEN "light" ELSE "heavy"

------------------------------------------------------------------------------

Init ==
  /\ val \in UNION { [1 .. n -> Flow] : n \in 1 .. MaxFlows }
  /\ theta = {}
  /\ summary = [heavy |-> 0, light |-> 0, right |-> 0]
  /\ served = <<>>

TuneTheta ==
  /\ theta = {}
  /\ \E t \in Candidates :
       /\ Best(t)
       /\ theta' = {t}
       /\ summary' = Reported(t)
  /\ UNCHANGED <<val, served>>

(* predict routes the next flow. *)
Serve ==
  /\ Len(served) < Len(val)
  /\ \E t \in theta :
       served' = Append(served, Route(val[Len(served) + 1].confidence, t))
  /\ UNCHANGED <<val, theta, summary>>

Next == TuneTheta \/ Serve

Spec == Init /\ [][Next]_vars

------------------------------------------------------------------------------

ServedHeavy == { i \in DOMAIN served : served[i] = "heavy" }

(* In service the rows of a sequence are scaled (predict_interface.py:147). *)
ServedRight ==
  { i \in DOMAIN served :
      IF i \in ServedHeavy THEN val[i].heavy["scaled"] ELSE val[i].light }

(* tune_threshold.py:12-14 and 56-58, a threshold that means in service     *)
(* what it was tuned to mean: predict, on the flows of the validation split,*)
(* sends as many to the heavy network as reported, flows at the threshold   *)
(* included, and on the light branch is right as often as reported.         *)
RoutedAsReported ==
  (theta # {} /\ Len(served) = Len(val)) =>
    /\ Cardinality(ServedHeavy) = summary.heavy
    /\ Cardinality(ServedRight \ ServedHeavy) = summary.light

(* tune_threshold.py:12-14, a threshold "that reflects what the deployed    *)
(* system will actually do": on both branches together predict is right as  *)
(* often as reported.  The heavy network is measured on sequences that      *)
(* nobody scaled: MCTuneScaled.cfg refutes it.                              *)
AccuracyAsReported ==
  (theta # {} /\ Len(served) = Len(val)) => Cardinality(ServedRight) = summary.right

(* tune_threshold.py:15-19: by the measure of tune, no candidate that keeps *)
(* the cap on the heavy branch is right more often, and the heavy branch    *)
(* takes more flows in service than the cap allows only if every candidate  *)
(* would have exceeded it.                                                  *)
Below(t) == { i \in DOMAIN val : val[i].confidence < t }
KeepsCap(flows) == 100 * Cardinality(flows) <= MAX_HEAVY_PERCENT * Len(val)

BestUnderCap ==
  theta # {} =>
    /\ \A t \in Thetas :
         KeepsCap(Below(t)) =>
           Cardinality({ i \in DOMAIN val :
             IF i \in Below(t) THEN val[i].heavy["raw"] ELSE val[i].light }) <= summary.right
    /\ KeepsCap(ServedHeavy) \/ \A t \in Thetas : ~KeepsCap(Below(t))
==============================================================================
