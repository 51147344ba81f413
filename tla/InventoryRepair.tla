--------------------------- MODULE InventoryRepair ---------------------------
(***************************************************************************)
(* Inventory with a history of what its reconciliation has to go by: did   *)
(* start take the exchange's position over, and was the bot in step with   *)
(* the exchange when the answer that reconcile holds was read?             *)
(***************************************************************************)
EXTENDS MCInventory

VARIABLE trust  \* "none", "started", or "inStep" as long as such an answer is held

(* The stream is up, every fill was delivered, and the position is right.   *)
InStep ==
    /\ session = "up" /\ snapshotted
    /\ inbox = <<>> /\ handling = {}
    /\ position = truePos

RepairInit == Init /\ trust = "none"

Trusted ==
    IF pc = "bootGot" /\ pc' = "sleep" THEN "started"
    ELSE IF pc = "sleep" /\ pc' = "got" /\ trust = "started" /\ InStep THEN "inStep"
    ELSE IF pc = "got" /\ pc' = "sleep" /\ trust = "inStep" THEN "started"
    ELSE trust

RepairNext == Next /\ trust' = Trusted

RepairSpec == RepairInit /\ [][RepairNext]_<<vars, trust>>

(* "The reconcile loop closes the gap of missed WS messages"                *)
(* (inventory.py:3-5): in a bot that started well, was in step when the     *)
(* exchange was asked and still is when the answer is compared, it does not *)
(* open one.                                                                *)
RepairsOnlyGaps ==
    [][Compare /\ trust = "inStep" /\ InStep => position' = truePos]_<<vars, trust>>
=============================================================================
