---------------------------- MODULE MCIdempotency ----------------------------
(* Small instances of Idempotency for TLC.                                   *)
EXTENDS IdempotencyInvariants, TLC

CONSTANTS r1, r2, r3, k1, k2, plain, reordered, other, bad, garbled, h1, h2, h3

\* A body, the same one reserialised, a different one that Create accepts, one
\* that it answers with a 4xx, and one that is not JSON.
MCHash == (plain :> h1) @@ (reordered :> h1) @@ (other :> h2)
          @@ (bad :> h3) @@ (garbled :> h3)

MCHashOf == [b \in Bodies |-> MCHash[b]]

Symmetry == Permutations(Requests) \cup Permutations(Keys)
==============================================================================
