------------------------------ MODULE MCMetrics ------------------------------
(* Instances of Metrics, and of the StateStore in it, for TLC.              *)
EXTENDS Metrics
=============================================================================
