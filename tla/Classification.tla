--------------------------- MODULE Classification ---------------------------
(***************************************************************************)
(* Classification metrics (utils/evaluation_metrics.py) as                 *)
(* EvaluationService.evaluate_classification reports and publishes them.   *)
(* A ratio is kept exact, as a numerator and a denominator; rounding to    *)
(* floats is left out.                                                     *)
(***************************************************************************)
EXTENDS Naturals, Sequences, FiniteSets

CONSTANTS Labels,      \* class labels
          MaxSamples   \* bound on the samples of a request

ASSUME ClassAssumption == MaxSamples \in Nat

VARIABLES
    report,     \* what the call answered
    announced   \* payload of evaluation.classification.completed, if published

classVars == <<report, announced>>

Nothing == [kind |-> "none"]

ClassInit == report = Nothing /\ announced = Nothing

\* _safe_divide: 0.0 for a zero denominator.
safe_divide(n, d) == IF d = 0 THEN <<0, 1>> ELSE <<n, d>>

\* Samples whose prediction is in P and whose label is in A.
Tally(actual, predicted, P, A) ==
    Cardinality({i \in DOMAIN actual : predicted[i] \in P /\ actual[i] \in A})

\* Mutant: predictions that are positive count as true ones.
confusion_counts_swapped(actual, predicted, pos) ==
    LET tp == Tally(actual, predicted, {pos}, Labels)
        fn == Tally(actual, predicted, Labels \ {pos}, {pos})
    IN  [tp |-> tp, fp |-> 0, fn |-> fn, tn |-> Len(actual) - tp - fn]

\* confusion_counts: the branches in the order of the code.
confusion_counts(actual, predicted, pos) ==
    LET neg == Labels \ {pos}
    IN  [tp |-> Tally(actual, predicted, {pos}, {pos}),
         fp |-> Tally(actual, predicted, {pos}, neg),
         tn |-> Tally(actual, predicted, neg, neg),
         fn |-> Tally(actual, predicted, neg, {pos})]

\* f1 = safe_divide(2 * precision * recall, precision + recall) on ratios.
f1(precision, recall) ==
    safe_divide(2 * precision[1] * recall[1],
                 precision[1] * recall[2] + recall[1] * precision[2])

class_distribution(labels) ==
    [l \in {labels[i] : i \in DOMAIN labels} |->
        Cardinality({i \in DOMAIN labels : labels[i] = l})]

classification_summary(actual, predicted, pos) ==
    LET c         == confusion_counts(actual, predicted, pos)
        precision == safe_divide(c.tp, c.tp + c.fp)
        recall    == safe_divide(c.tp, c.tp + c.fn)
        correct   == Cardinality({i \in DOMAIN actual : actual[i] = predicted[i]})
    IN  [samples |-> Len(actual), counts |-> c,
         accuracy |-> safe_divide(correct, Len(actual)),
         precision |-> precision, recall |-> recall, f1 |-> f1(precision, recall)]

\* evaluate_classification.  The schema asks for one sample at least in each
\* list; only classification_summary compares their lengths.
evaluate_classification(actual, predicted, pos) ==
    \/ /\ Len(actual) # Len(predicted)
       /\ report' = [kind |-> "ValueError"]
       /\ UNCHANGED announced
    \/ /\ Len(actual) = Len(predicted)
       /\ LET s == classification_summary(actual, predicted, pos)
          IN  /\ report' = [kind |-> "summary", summary |-> s,
                            actual |-> class_distribution(actual),
                            predicted |-> class_distribution(predicted), pos |-> pos]
              /\ announced' = [kind |-> "completed", samples |-> s.samples,
                               accuracy |-> s.accuracy]

LabelLists == UNION {[1 .. n -> Labels] : n \in 1 .. MaxSamples}

ClassNext ==
    /\ report = Nothing
    /\ \E actual, predicted \in LabelLists, pos \in Labels :
          evaluate_classification(actual, predicted, pos)

ClassSpec == ClassInit /\ [][ClassNext]_classVars

-----------------------------------------------------------------------------
\* How often label l occurs according to a class distribution.
Count(dist, l) == IF l \in DOMAIN dist THEN dist[l] ELSE 0

(***************************************************************************)
(* The parts of a report agree with each other and with the textbook       *)
(* (evaluation_metrics.py:10-47): the four counts add up to the samples    *)
(* and to the two class distributions, and f1, computed from precision and *)
(* recall with their zero cases, is 2tp / (2tp + fp + fn), or 0 where no   *)
(* sample is or was called positive.                                       *)
(***************************************************************************)
SummaryAgrees ==
    report.kind = "summary" =>
        LET c == report.summary.counts
            d == 2 * c.tp + c.fp + c.fn
        IN  /\ c.tp + c.fp + c.tn + c.fn = report.summary.samples
            /\ c.tp + c.fn = Count(report.actual, report.pos)
            /\ c.tp + c.fp = Count(report.predicted, report.pos)
            /\ d = 0 => report.summary.f1[1] = 0
            /\ d # 0 => report.summary.f1[1] * d = 2 * c.tp * report.summary.f1[2]
=============================================================================
