------------------------------ MODULE MCDryRun ------------------------------
(* Instances of DryRun for TLC.                                             *)
EXTENDS DryRun
=============================================================================
