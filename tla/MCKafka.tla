------------------------------ MODULE MCKafka -------------------------------
(***************************************************************************)
(* KafkaEval for TLC: pods, partitions and jobs are interchangeable in the *)
(* safety runs.                                                            *)
(***************************************************************************)
EXTENDS KafkaEval, TLC

Symmetry == Permutations(Workers) \cup Permutations(Partitions) \cup Permutations(Jobs)

=============================================================================
