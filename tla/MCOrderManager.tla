--------------------------- MODULE MCOrderManager ---------------------------
(* Instances of OrderManager for TLC.                                       *)
EXTENDS OrderManager, TLC

OneQuote == {[side |-> "bid", price |-> 1]}

(* With a tolerance of one step the second bid is near the first and the    *)
(* third, and those two are not near each other.                            *)
Bids == {[side |-> "bid", price |-> p] : p \in 1 .. 3}

(* What was recorded and counted guides no step of the manager: the runs of  *)
(* properties that do not read it leave it out of the state.                *)
Uncounted == <<tracked, lock, pc, locals, filling, books, snapshotted,
               faulted, missed>>

(* New orders are interchangeable.                                          *)
Symmetry == Permutations(Orders \ Leftover)
============================================================================
