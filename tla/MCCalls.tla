------------------------------ MODULE MCCalls ------------------------------
(* The synchronous calls of the service: an evaluation, a classification      *)
(* report, a split of a text and a walk through pages.  Each is explored from *)
(* its first to its last step while the others are idle: they share no state. *)
EXTENDS Evaluation, Classification, Chunking, Pagination, SequencesExt

MCMetricLists == BoundedSeq({"accuracy", "faithfulness", "id_based_context_recall",
                             "answer_relevancy", "topic_adherence", "tool_call_f1",
                             "agent_goal_accuracy"}, 3) \ {<< >>}
MCGiven == SUBSET {"llm", "embeddings", "reference", "reference_topics"}
           \cup {{"llm", "reference_tool_calls"}}
MCSignature == [m \in SUPPORTED_METRICS |->
                  IF m \in DOMAIN Configured THEN Configured[m] ELSE {"llm"}]
MCPartLists == BoundedSeq(0 .. 3, 4) \ {<< >>}
MCSeparators == {[len |-> 0, ink |-> 0], [len |-> 1, ink |-> 0], [len |-> 2, ink |-> 1]}

vars == <<evalVars, classVars, chunkVars, pageVars>>

Init == EvalInit /\ ClassInit /\ ChunkInit /\ PageInit

Idle(c) == CASE c = "eval" -> pc = "idle" [] c = "class" -> report = Nothing
             [] c = "chunk" -> splitting = "idle" [] OTHER -> walk = "idle"

OthersIdle(c) == \A d \in {"eval", "class", "chunk", "page"} \ {c} : Idle(d)

Next ==
    \/ OthersIdle("eval") /\ EvalNext /\ UNCHANGED <<classVars, chunkVars, pageVars>>
    \/ OthersIdle("class") /\ ClassNext /\ UNCHANGED <<evalVars, chunkVars, pageVars>>
    \/ OthersIdle("chunk") /\ ChunkNext /\ UNCHANGED <<evalVars, classVars, pageVars>>
    \/ OthersIdle("page") /\ PageNext /\ UNCHANGED <<evalVars, classVars, chunkVars>>

Spec == Init /\ [][Next]_vars
=============================================================================
