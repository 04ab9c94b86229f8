-------------------------- MODULE MCServiceShutdown --------------------------
(* Small instances of ServiceShutdown for TLC.                               *)
EXTENDS ServiceShutdown, TLC

CONSTANTS r1, r2, r3, p
==============================================================================
