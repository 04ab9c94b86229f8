---------------------------- MODULE MCOrderReads ----------------------------
(* Instances of OrderReads for TLC. *)
EXTENDS OrderReads, TLC

CONSTANTS first, second, x, y

\* One order has several items, so that its rows can break off in between.
TwoAndOne == (first :> {x, y}) @@ (second :> {y})

=============================================================================
