----------------------------- MODULE MCMetrics -----------------------------
(***************************************************************************)
(* Instances of Metrics for TLC.                                           *)
(***************************************************************************)
EXTENDS Metrics, TLC

MCValue == {-1, 1}
OneBound == <<0>>

Symmetry == Permutations(Worker)
=============================================================================
