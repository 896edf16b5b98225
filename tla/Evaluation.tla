----------------------------- MODULE Evaluation -----------------------------
(***************************************************************************)
(* A synchronous evaluation: EvaluationService (services/                  *)
(* evaluation_service.py) and EvaluateAnswerUseCase (application/          *)
(* evaluation/use_cases.py) over RagasAdapter (infra/evaluation/           *)
(* ragas_adapter.py).  One call is followed from its arguments to its      *)
(* result or exception; `metrics' is the list of names asked for and       *)
(* `have' the optional arguments that were given: llm, embeddings,         *)
(* reference, reference_topics, reference_tool_calls.                      *)
(*                                                                         *)
(* The ragas library and the judge model behind it are external: an import *)
(* fails or not, a metric class builds a Metric or not, a score comes back *)
(* or the call raises, and the row of a single-turn run holds any of the   *)
(* columns asked for (the adapter leaves out the others, line 263).        *)
(***************************************************************************)
EXTENDS Naturals, Sequences, FiniteSets

CONSTANTS MetricLists,   \* non-empty sequences of metric names
          Given,         \* sets of optional arguments of a call
          Signature      \* llm and embeddings in a metric class's __init__

ASSUME EvalAssumption == MetricLists \subseteq Seq(STRING)

\* METRIC_CATALOG, the names by category.
METRIC_CATALOG ==
    [classification |-> {"accuracy", "precision", "recall", "f1"},
     retrieval      |-> {"context_precision", "context_utilization",
                         "non_llm_context_precision", "id_based_context_precision",
                         "context_recall", "non_llm_context_recall",
                         "id_based_context_recall", "context_entity_recall"},
     generation     |-> {"answer_relevancy", "faithfulness"},
     robustness     |-> {"noise_sensitivity"},
     agent          |-> {"topic_adherence", "tool_call_accuracy", "tool_call_f1",
                         "agent_goal_accuracy"}]

SUPPORTED_METRICS ==
    UNION {METRIC_CATALOG[c] : c \in {"retrieval", "generation", "robustness", "agent"}}

MULTI_TURN_ONLY_METRICS ==
    {"topic_adherence", "tool_call_accuracy", "tool_call_f1", "agent_goal_accuracy"}

\* ragas_metric_requirements.yaml: constructor_args of the single-turn metrics.
Configured ==
    [m \in SUPPORTED_METRICS \ MULTI_TURN_ONLY_METRICS |->
        CASE m = "answer_relevancy" -> {"llm", "embeddings"}
          [] m \in {"non_llm_context_precision", "id_based_context_precision",
                    "non_llm_context_recall", "id_based_context_recall"} -> {}
          [] OTHER -> {"llm"}]

\* What the branches of run_multi_turn ask for.
TurnInputs ==
    [topic_adherence     |-> {"reference_topics", "llm"},
     agent_goal_accuracy |-> {"reference", "llm"},
     tool_call_accuracy  |-> {"reference_tool_calls"},
     tool_call_f1        |-> {"reference_tool_calls"}]

VARIABLES
    pc,         \* where the call is
    op,         \* "single" and "multi" of the service, "execute" of the use case
    metrics, have,
    config,     \* the requirements file: "unread", "loaded", or "empty" if it is missing
    left,       \* metrics the adapter's loop has still to look at
    judged,     \* metrics that were sent to the judge
    scores,     \* metrics with a score
    events,     \* what the event publisher delivered
    busRaised,  \* the publisher raised in this call
    outcome     \* "none" yet, "returned", or the exception: "Refused" is a ValueError
                \* that the adapter raises itself, "JudgeError" an exception of any
                \* class, ValueError included, out of the judge or of float(score)

evalVars == <<pc, op, metrics, have, config, left, judged, scores, events, busRaised, outcome>>

request == <<op, metrics, have>>

EvalInit ==
    /\ pc = "idle" /\ op = "single" /\ metrics = << >> /\ have = {}
    /\ config = "unread" /\ left = << >>
    /\ judged = {} /\ scores = {} /\ events = << >>
    /\ busRaised = FALSE /\ outcome = "none"

Asked == {metrics[i] : i \in DOMAIN metrics}

Begin(o, ms, given) ==
    /\ pc' = "check"
    /\ op' = o /\ metrics' = ms /\ have' = given /\ left' = ms
    /\ UNCHANGED <<config, judged, scores, events, busRaised, outcome>>

\* Mutant: the use case lets the exception pass without the failed event.
RaiseSilently(exception) == pc' = "done" /\ outcome' = exception

\* An exception ends a service call; the use case catches it first.
Raise(exception) ==
    /\ pc' = IF op = "execute" THEN "except" ELSE "done"
    /\ outcome' = exception

\* The checks on the names, before anything is imported.
NamesAccepted ==
    IF op = "multi" THEN Asked \subseteq MULTI_TURN_ONLY_METRICS
                    ELSE /\ Asked \subseteq SUPPORTED_METRICS
                         /\ Asked \cap MULTI_TURN_ONLY_METRICS = {}

CheckNames ==
    /\ pc = "check"
    /\ \/ NamesAccepted /\ pc' = "import" /\ UNCHANGED outcome
       \/ ~NamesAccepted /\ Raise("Refused")
    /\ UNCHANGED <<request, config, left, judged, scores, events, busRaised>>

\* run_single_turn: ragas and all fifteen metric classes; then the requirements
\* file, {} when it or yaml is not there.
ImportRagas ==
    /\ pc = "import" /\ op # "multi"
    /\ \/ pc' = "metrics" /\ config' \in {"loaded", "empty"} /\ UNCHANGED outcome
       \/ Raise("ExternalServiceError") /\ UNCHANGED config
    /\ UNCHANGED <<request, left, judged, scores, events, busRaised>>

\* run_multi_turn: ragas; then its messages and tool calls, made of those of
\* the request, which ragas may not accept.
BuildMessages ==
    /\ pc = "import" /\ op = "multi"
    /\ \/ pc' = "metrics" /\ UNCHANGED outcome
       \/ Raise("ExternalServiceError")
       \/ Raise("MessageError")
    /\ UNCHANGED <<request, config, left, judged, scores, events, busRaised>>

required_args(m) ==
    IF config = "loaded" /\ m \in DOMAIN Configured THEN Configured[m] ELSE Signature[m]

\* Mutant: each metric is judged as soon as it is built.
BuildAndJudge ==
    /\ pc = "metrics" /\ op # "multi" /\ left # << >>
    /\ \/ required_args(Head(left)) \subseteq have
          /\ left' = Tail(left) /\ judged' = judged \cup {Head(left)}
          /\ UNCHANGED <<pc, outcome>>
       \/ ~(required_args(Head(left)) \subseteq have) /\ Raise("Refused")
          /\ UNCHANGED <<left, judged>>
    /\ UNCHANGED <<request, config, scores, events, busRaised>>

\* run_single_turn, one iteration: the arguments, then the metric object.
BuildMetric ==
    /\ pc = "metrics" /\ op # "multi" /\ left # << >>
    /\ LET missing == ~(required_args(Head(left)) \subseteq have)
       IN  \/ missing /\ Raise("Refused") /\ UNCHANGED left
           \/ ~missing /\ Raise("ExternalServiceError") /\ UNCHANGED left
           \/ ~missing /\ left' = Tail(left) /\ UNCHANGED <<pc, outcome>>
    /\ UNCHANGED <<request, config, judged, scores, events, busRaised>>

\* aevaluate over all metrics at once, with raise_exceptions.
Aevaluate ==
    /\ pc = "metrics" /\ op # "multi" /\ left = << >>
    /\ judged' = Asked
    /\ \/ Raise("JudgeError") /\ UNCHANGED scores
       \/ scores' \in SUBSET Asked /\ pc' = "publish" /\ UNCHANGED outcome
    /\ UNCHANGED <<request, config, left, events, busRaised>>

\* Mutant: a metric whose judge fails is passed over.
AscoreOrSkip ==
    /\ pc = "metrics" /\ op = "multi" /\ left # << >>
    /\ LET m == Head(left)
       IN  \/ ~(TurnInputs[m] \subseteq have) /\ Raise("Refused")
              /\ UNCHANGED <<left, judged, scores>>
           \/ /\ TurnInputs[m] \subseteq have
              /\ judged' = judged \cup {m} /\ left' = Tail(left)
              /\ scores' \in {scores, scores \cup {m}} /\ UNCHANGED <<pc, outcome>>
    /\ UNCHANGED <<request, config, events, busRaised>>

\* run_multi_turn, one iteration: the inputs of this metric, then its judge.
Ascore ==
    /\ pc = "metrics" /\ op = "multi" /\ left # << >>
    /\ LET m == Head(left)
       IN  \/ /\ ~(TurnInputs[m] \subseteq have)
              /\ Raise("Refused")
              /\ UNCHANGED <<left, judged, scores>>
           \/ /\ TurnInputs[m] \subseteq have
              /\ judged' = judged \cup {m}
              /\ \/ Raise("JudgeError") /\ UNCHANGED <<left, scores>>
                 \/ /\ scores' = scores \cup {m} /\ left' = Tail(left)
                    /\ UNCHANGED <<pc, outcome>>
    /\ UNCHANGED <<request, config, events, busRaised>>

AllScored ==
    /\ pc = "metrics" /\ op = "multi" /\ left = << >>
    /\ pc' = "publish"
    /\ UNCHANGED <<request, config, left, judged, scores, events, busRaised, outcome>>

Event(name) == [name |-> name, score_count |-> Cardinality(scores)]

\* The completed event, then return.  The service's own bus is the in-memory
\* list, which only appends; the use case is given any publisher, whose publish
\* may raise, before or after the event went out, inside the same try.
PublishCompleted ==
    /\ pc = "publish"
    /\ \/ /\ events' = Append(events, Event("completed"))
          /\ pc' = "done" /\ outcome' = "returned" /\ UNCHANGED busRaised
       \/ /\ op = "execute"
          /\ events' \in {events, Append(events, Event("completed"))}
          /\ busRaised' = TRUE
          /\ Raise("BusError")
    /\ UNCHANGED <<request, config, left, judged, scores>>

\* execute's except clause: the failed event, then raise.  A publisher that
\* raises here replaces the exception.
PublishFailed ==
    /\ pc = "except"
    /\ pc' = "done"
    /\ \/ /\ events' = Append(events, Event("failed"))
          /\ UNCHANGED <<busRaised, outcome>>
       \/ /\ events' \in {events, Append(events, Event("failed"))}
          /\ busRaised' = TRUE /\ outcome' = "BusError"
    /\ UNCHANGED <<request, config, left, judged, scores>>

EvalNext ==
    \/ /\ pc = "idle"
       /\ \E o \in {"single", "multi", "execute"}, ms \in MetricLists, given \in Given :
             Begin(o, ms, given)
    \/ CheckNames \/ ImportRagas \/ BuildMessages \/ BuildMetric \/ Aevaluate
    \/ Ascore \/ AllScored \/ PublishCompleted \/ PublishFailed

EvalSpec == EvalInit /\ [][EvalNext]_evalVars

-----------------------------------------------------------------------------
\* Metrics before the first one of the list whose inputs were not given.
BeforeMissing ==
    {metrics[i] : i \in {j \in DOMAIN metrics :
        \A k \in 1 .. j : metrics[k] \in DOMAIN TurnInputs
                          /\ TurnInputs[metrics[k]] \subseteq have}}

(***************************************************************************)
(* What a refused request has cost: a single-turn request that the adapter *)
(* refuses was refused before any metric went to the judge.  The           *)
(* multi-turn adapter looks at a metric's inputs only when its turn comes, *)
(* so a refusal comes after exactly the metrics before it were judged, and *)
(* their scores are lost (ragas_adapter.py:326-361).                       *)
(***************************************************************************)
RefusedUnjudged ==
    pc = "done" /\ outcome = "Refused" =>
        judged = IF op = "multi" /\ NamesAccepted THEN BeforeMissing ELSE {}

(***************************************************************************)
(* The event of a service call and its result agree                        *)
(* (evaluation_service.py:111-154): it is published once if the call       *)
(* returns and never if it raises, its score_count is the number of scores *)
(* returned, these are of judged metrics, and a multi-turn call returns    *)
(* one for every metric asked for.                                         *)
(***************************************************************************)
EventMatchesResult ==
    pc = "done" /\ op # "execute" =>
        /\ events = IF outcome = "returned" THEN <<Event("completed")>> ELSE << >>
        /\ outcome = "returned" => scores \subseteq judged /\ judged = Asked
        /\ outcome = "returned" /\ op = "multi" => scores = Asked

Delivered == {events[i].name : i \in DOMAIN events}

(***************************************************************************)
(* The verdict the use case publishes is the one its caller gets           *)
(* (use_cases.py:16-39): while the publisher works, exactly one event goes *)
(* out, completed if the result is returned and failed if an exception is  *)
(* raised; both go out for one evaluation only when the publisher raised   *)
(* after delivering the first, and then the caller sees an exception       *)
(* although every metric was judged.                                       *)
(***************************************************************************)
VerdictsAgree ==
    pc = "done" /\ op = "execute" =>
        /\ ~busRaised =>
              events = <<Event(IF outcome = "returned" THEN "completed" ELSE "failed")>>
        /\ outcome = "returned" => Delivered = {"completed"}
        /\ "completed" \in Delivered => judged = Asked
        /\ Delivered = {"completed", "failed"} => busRaised /\ outcome = "BusError"
=============================================================================
