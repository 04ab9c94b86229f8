--------------------------- MODULE MCOrderService ---------------------------
(* Instances of OrderService for TLC, with narrow integers. *)
EXTENDS OrderService, TLC

CONSTANTS console, game, unlisted, order

\* 3 * 3 + 2 * 3 is exactly the largest sum of the catalogue that fits.
Catalogue == (console :> 3) @@ (game :> 2)

\* Both sides of each bound, and quantities whose price wraps around once or
\* more, to a negative or to a positive total.
Boundaries == {-1, 0, 1, 3, 4, 6, 15}

=============================================================================
