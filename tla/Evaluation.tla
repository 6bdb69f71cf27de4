------------------------------ MODULE Evaluation ------------------------------
(***************************************************************************)
(* What training and evaluation compute from the scores of the forest: the *)
(* threshold fit() takes from the baseline, the verdicts of predict() and  *)
(* the report of ModelEvaluator.  Scores are integers, thresholds          *)
(* hundredths of one; the forest itself and its scaler are not modelled.   *)
(***************************************************************************)
EXTENDS Integers, Sequences, FiniteSets

CONSTANTS
    Contamination   \* in percent, as np.percentile takes it

ASSUME EvaluationAssumption == Contamination \in 0 .. 100

(* The score that k others precede in sorted order.                        *)
Ranked(scores, k) ==
    CHOOSE s \in {scores[i] : i \in DOMAIN scores} :
       /\ Cardinality({i \in DOMAIN scores : scores[i] < s}) <= k
       /\ Cardinality({i \in DOMAIN scores : scores[i] <= s}) > k

(* np.percentile(scores, contamination * 100): linear interpolation at the *)
(* position Contamination / 100 * (n - 1).                                 *)
Threshold(scores) ==
    LET position == Contamination * (Len(scores) - 1)
        below    == position \div 100
        part     == position % 100
    IN  IF part = 0 THEN 100 * Ranked(scores, below)
        ELSE (100 - part) * Ranked(scores, below)
             + part * Ranked(scores, below + 1)

(* Mutant: a score at the threshold is an anomaly.                         *)
PredictInclusive(scores, threshold) ==
    [i \in DOMAIN scores |-> IF 100 * scores[i] > threshold THEN 1 ELSE -1]

(* 1 is NORMAL, -1 an anomaly.                                             *)
Predict(scores, threshold) ==
    [i \in DOMAIN scores |-> IF 100 * scores[i] >= threshold THEN 1 ELSE -1]

(* The confusion matrix, and of each attack class the frames and those     *)
(* that are caught.                                                        *)
Report(labels, preds) ==
    LET Rows(attack, pred) == {i \in DOMAIN labels :
                                  (labels[i] # "NORMAL") = attack /\ preds[i] = pred}
        Class(label) == {i \in DOMAIN labels : labels[i] = label}
    IN  [tp |-> Cardinality(Rows(TRUE, -1)),  fp |-> Cardinality(Rows(FALSE, -1)),
         tn |-> Cardinality(Rows(FALSE, 1)),  fn |-> Cardinality(Rows(TRUE, 1)),
         classes |-> [label \in {labels[i] : i \in DOMAIN labels} \ {"NORMAL"} |->
                        [total  |-> Cardinality(Class(label)),
                         caught |-> Cardinality({i \in Class(label) :
                                                    preds[i] = -1})]]]

===============================================================================
