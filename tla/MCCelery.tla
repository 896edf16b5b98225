------------------------------ MODULE MCCelery ------------------------------
(***************************************************************************)
(* CeleryEval for TLC: the workers and the delivery tags are               *)
(* interchangeable in the safety runs.                                     *)
(***************************************************************************)
EXTENDS CeleryEval, TLC

Symmetry == Permutations(Workers) \cup Permutations(Tags)

=============================================================================
