----------------------------- MODULE MCLifecycle -----------------------------
(* Instances of Lifecycle for TLC.                                          *)
EXTENDS Lifecycle, TLC

(* Two quotes are interchangeable.                                          *)
Symmetry == Permutations(Quotes)
=============================================================================
