---------------------------- MODULE OrderService ----------------------------
(***************************************************************************)
(* One request through the chain of middleware to its handler and back,    *)
(* and, when it is a POST that is accepted, the order it leaves behind,    *)
(* with every status that callers then ask for.  RequestPipeline has the   *)
(* frames, OrderTotals what the handler does, OrderLifecycle the status.   *)
(***************************************************************************)
EXTENDS RequestPipeline, OrderTotals, OrderLifecycle

serviceVars == <<pipelineVars, totalsVars, vars>>

ServiceTypeOK == TypeOK /\ PipelineTypeOK /\ TotalsTypeOK

ServiceInit == PipelineInit /\ TotalsInit /\ Init

\* writeDomainError and WriteJSON: the status of each outcome.
StatusOf(outcome) ==
    CASE outcome = "202" -> 202 [] outcome = "400" -> 400
      [] outcome = "422" -> 422 [] outcome = "500" -> 500

-----------------------------------------------------------------------------
(* Mutated form of Strike below: the recover of a panic inside the          *)
(* transaction commits what there is.                                       *)
StrikeCommitting == at' = "done" /\ UNCHANGED <<cmd, total, header, lines, answer, database>>

-----------------------------------------------------------------------------

Frame == FrameStep /\ UNCHANGED <<totalsVars, vars>>

\* Create, up to its answer.
Handle ==
    /\ InHandler /\ route = "order" /\ wire = 0
    /\ TotalsNext
    /\ UNCHANGED <<pipelineVars, vars>>

\* An outcome is written as its status; other handlers write what they like.
Write ==
    /\ HandlerWrites
    /\ route = "order" => answer # "none" /\ wire' = StatusOf(answer)
    /\ UNCHANGED <<totalsVars, vars>>

\* What a panic leaves of Create.
Strike == Abandon

Panic ==
    /\ HandlerPanics
    /\ IF route = "order" THEN Strike ELSE UNCHANGED totalsVars
    /\ UNCHANGED vars

\* The order exists once it is committed, whatever its client was told.
Progress ==
    /\ Exists
    /\ Next
    /\ UNCHANGED <<pipelineVars, totalsVars>>

ServiceNext == Frame \/ Handle \/ Write \/ Panic \/ Progress

ServiceSpec == ServiceInit /\ [][ServiceNext]_serviceVars

-----------------------------------------------------------------------------
(* Properties *)

\* The chain of NewServer: a request that ends, in whatever way, was answered
\* and left one record in the log, a true one that the client's id finds.
ServiceInv == ServiceTypeOK /\ PanicIsAnswered /\ LogTellsTruth /\ LogIsTraceable

\* WithTx, "rolling back otherwise. A panic inside fn rolls back and then
\* propagates", Recovery and Require together: what is left of an order is the
\* whole of it, and a claim that is kept has its order.  An order whose claim is
\* released, or whose client was not told 202, comes of a handler that panicked
\* behind its commit or of a COMMIT that reported an error and took effect; for
\* both, Release finds the row completed and deletes nothing.
OrderMatchesAnswer ==
    Over => /\ ClaimFollowsAnswer
            /\ header # -1 => Cardinality(lines) = Len(cmd.items)
            /\ header = -1 => lines = {} /\ claim # "kept"
            /\ header # -1 => \/ wire = 202 /\ claim = "kept"
                              \/ struck.panic
                              \/ database = "in doubt" /\ wire = 500

=============================================================================
