-------------------------- MODULE MCDuplicateOrder --------------------------
(* Instances of DuplicateOrder for TLC. *)
EXTENDS DuplicateOrder

\* Every combination of defects, the contract among them.
Services == SUBSET DefectKinds

Contract == {{}}

=============================================================================
