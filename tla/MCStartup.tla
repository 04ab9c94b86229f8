------------------------------ MODULE MCStartup ------------------------------
(* Instances of Startup for TLC. *)
EXTENDS Startup, TLC

Good == [dsn |-> "good", level |-> "known", poll |-> "positive", timeout |-> "good"]

\* One environment for each way in which a value can be wrong.
OneWrong == {Good,
             [Good EXCEPT !.dsn = "unset"],
             [Good EXCEPT !.dsn = "garbled"],
             [Good EXCEPT !.level = "unknown"],
             [Good EXCEPT !.poll = "garbled"],
             [Good EXCEPT !.poll = "nonpositive"],
             [Good EXCEPT !.timeout = "garbled"]}


=============================================================================
