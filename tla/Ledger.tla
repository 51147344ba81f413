------------------------------- MODULE Ledger -------------------------------
(***************************************************************************)
(* What the inventory manager promises of its books (src/src/inventory.py, *)
(* module docstring): every fill counts once, and a position is closed     *)
(* oldest unit first.  The open position is a queue of single units, all   *)
(* on one side, each remembered with its price.                            *)
(***************************************************************************)
EXTENDS Integers, Sequences

CONSTANTS
    Fills,     \* fills, by their tid
    Trades     \* what a fill can be: a side, a size and a price

VARIABLES
    side,      \* "long", "short" or "flat"
    units,     \* the prices of the open units, oldest first
    pnl,       \* realized profit
    settled    \* fills that count no more

vars == <<side, units, pnl, settled>>

Book == [side: {"long", "short", "flat"}, units: Seq(Nat), pnl: Int]

Init == side = "flat" /\ units = <<>> /\ pnl = 0 /\ settled = {}

(* One unit bought ("long") or sold ("short") at price p.                   *)
Unit(b, s, p) ==
    IF b.side \in {s, "flat"}
    THEN [b EXCEPT !.side = s, !.units = Append(@, p)]
    ELSE [side |-> IF Len(b.units) = 1 THEN "flat" ELSE b.side,
          units |-> Tail(b.units),
          pnl |-> b.pnl + IF s = "short" THEN p - Head(b.units)
                                         ELSE Head(b.units) - p]

Traded(b, t) ==
    LET after[n \in 0 .. t.size] ==
            IF n = 0 THEN b ELSE Unit(after[n - 1], t.side, t.price)
    IN after[t.size]

Settle(f, t) ==
    /\ f \notin settled
    /\ settled' = settled \cup {f}
    /\ [side |-> side, units |-> units, pnl |-> pnl]' =
          Traded([side |-> side, units |-> units, pnl |-> pnl], t)

(* Fills older than the session's baseline position.                        *)
Skip == settled \subseteq settled' /\ UNCHANGED <<side, units, pnl>>

(* The exchange's position replaces the books: one price, no profit.        *)
Rebase ==
    /\ units' \in Seq(Nat)
    /\ \A i, j \in DOMAIN units' : units'[i] = units'[j]
    /\ side' \in {"long", "short", "flat"}
    /\ side' = "flat" <=> units' = <<>>
    /\ UNCHANGED <<pnl, settled>>

Next == (\E f \in Fills, t \in Trades : Settle(f, t)) \/ Skip \/ Rebase

Spec == Init /\ [][Next]_vars
=============================================================================
