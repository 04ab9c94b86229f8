------------------------------ MODULE MCOutbox ------------------------------
(* Small instances of Outbox for TLC.                                       *)
EXTENDS OutboxInvariants, TLC

CONSTANTS p1, p2, p3
=============================================================================
