----------------------------- MODULE MCInventory -----------------------------
(* Instances of Inventory for TLC.                                          *)
EXTENDS Inventory

(* A trade that opens a long of two lots' worth, one that closes half of    *)
(* it, and one that flips it.                                               *)
MCTrades == {[side |-> "long", size |-> 2, price |-> 1],
             [side |-> "short", size |-> 1, price |-> 2],
             [side |-> "short", size |-> 3, price |-> 1]}
=============================================================================
