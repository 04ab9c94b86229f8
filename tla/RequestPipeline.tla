-------------------------- MODULE RequestPipeline --------------------------
(***************************************************************************)
(* One request through the middleware chain of the server, down to its     *)
(* handler and up again, by a return or by a panic.                        *)
(*                                                                         *)
(* Frames wrap the ResponseWriter on the way down and act on the way up:   *)
(* RequestLogging records the status that passes through it, Recovery      *)
(* turns a panic into a 500, Require captures the status to decide whether *)
(* the claim is released.  A panic may strike before, between and after    *)
(* the writes of the handler.  Tracing is left out: it passes everything   *)
(* through.  What the handler of POST /orders does is in OrderTotals.      *)
(***************************************************************************)
EXTENDS Naturals, Sequences

CONSTANTS
    Given,    \* the request id of a client that sends one
    Fresh     \* the one that RequestID makes otherwise

NoId == ""    \* no header, and a context without an id

ASSUME IdsAssumption == Given # Fresh /\ NoId \notin {Given, Fresh}

VARIABLES
    route,      \* what the mux makes of the request
    inbound,    \* the X-Request-Id header of the request
    depth,      \* how many frames are on the stack
    going,      \* down, or up by a return or a panic
    ctxId,      \* the request id in the context, outermost frame first
    echoed,     \* the X-Request-Id header of the response
    wire,       \* the status that was sent, 0 for none
    rec,        \* statusRecorder
    capture,    \* statusCapture, 0 before anything is written
    claim,      \* of the key: none, held, kept, released
    log,        \* the access log: status and request id of each record
    struck      \* whether a panic struck, and behind which status

pipelineVars == <<route, inbound, depth, going, ctxId, echoed, wire, rec, capture, claim,
          log, struck>>

Routes == {"order",      \* POST /orders, behind Require
           "read",       \* GET /orders/{id}, and the probes
           "metrics",    \* writes a body and leaves the status to Write
           "unknown"}    \* the mux answers

Statuses == {0, 200, 202, 400, 404, 409, 422, 500, 503}

PipelineTypeOK ==
    /\ route \in Routes /\ inbound \in {NoId, Given}
    /\ depth \in 0..5
    /\ going \in {"down", "up", "panic"}
    /\ {echoed, ctxId} \subseteq {NoId, Given, Fresh}
    /\ {wire, capture, struck.behind} \subseteq Statuses
    /\ rec \in [status: Statuses \ {0}, written: BOOLEAN]
    /\ claim \in {"none", "held", "kept", "released"}
    /\ log \in Seq([status: Statuses, id: {NoId, Given, Fresh}])

-----------------------------------------------------------------------------
(* Mutated forms of definitions below, as a plausible slip would write them; *)
(* the runs are checked to notice each of them.                              *)

\* Recovery around the logging: no record of a request that panics.
RecoveryOutside == <<"id", "recovery", "log">>

\* Require does not look at whether the handler returned.
SucceededByStatus(how) == capture \in 200..299

-----------------------------------------------------------------------------
(* The chain *)

\* What is logged unless a status is written.
FreshRecorder == [status |-> 200, written |-> FALSE]

PipelineInit ==
    /\ route \in Routes /\ inbound \in {NoId, Given}
    /\ depth = 0 /\ going = "down"
    /\ ctxId = NoId /\ echoed = NoId
    /\ wire = 0 /\ capture = 0
    /\ rec = FreshRecorder
    /\ claim = "none"
    /\ log = <<>>
    /\ struck = [panic |-> FALSE, behind |-> 0]

\* NewServer, from the outside in; Require is part of its route.
Chain == <<"id", "log", "recovery">>

Frames == IF route = "order" THEN Chain \o <<"require">> ELSE Chain

AtFrame(name) == depth < Len(Frames) /\ Frames[depth + 1] = name

\* The frame that a return or a panic comes back to.
BackAt(name) == going # "down" /\ depth > 0 /\ Frames[depth] = name

InHandler == going = "down" /\ depth = Len(Frames)

\* A frame above the writer sees what it writes.
Above(name) == \E i \in 1..depth : Frames[i] = name

Recorded(status) == IF rec.written THEN rec ELSE [status |-> status, written |-> TRUE]

\* WriteHeader, through the recorder to the server; both heed the first only.
WriteHeader(status) ==
    /\ rec' = IF Above("log") THEN Recorded(status) ELSE rec
    /\ wire' = IF wire = 0 THEN status ELSE wire

-----------------------------------------------------------------------------
(* Down *)

RequestID ==
    /\ going = "down" /\ AtFrame("id")
    /\ ctxId' = IF inbound = NoId THEN Fresh ELSE inbound
    /\ echoed' = ctxId'
    /\ depth' = depth + 1
    /\ UNCHANGED <<route, inbound, going, wire, rec, capture, claim, log, struck>>

RequestLogging ==
    /\ going = "down" /\ AtFrame("log")
    /\ depth' = depth + 1
    /\ UNCHANGED <<route, inbound, going, ctxId, echoed, wire, rec, capture, claim, log, struck>>

Recovery ==
    /\ going = "down" /\ AtFrame("recovery")
    /\ depth' = depth + 1
    /\ UNCHANGED <<route, inbound, going, ctxId, echoed, wire, rec, capture, claim, log, struck>>

\* The claim is won.
Require ==
    /\ going = "down" /\ AtFrame("require")
    /\ claim' = "held"
    /\ depth' = depth + 1
    /\ UNCHANGED <<route, inbound, going, ctxId, echoed, wire, rec, capture, log, struck>>

\* Require answers by itself: no key, no body, a conflict, a claim in progress,
\* a replay, or an error of Claim.
RequireAnswers ==
    /\ going = "down" /\ AtFrame("require")
    /\ \E status \in {400, 409, 202, 500} : WriteHeader(status)
    /\ going' = "up"
    /\ UNCHANGED <<route, inbound, depth, ctxId, echoed, capture, claim, log, struck>>

-----------------------------------------------------------------------------
(* The handler *)

Answers == CASE route = "order" -> {202, 400, 422, 500}
             [] route = "read" -> {200, 404, 500, 503}
             [] route = "metrics" -> {200}
             [] route = "unknown" -> {404}

\* WriteJSON, up to its WriteHeader; for metrics, the first Write does it.
HandlerWrites ==
    /\ InHandler /\ wire = 0
    /\ \E status \in Answers :
         /\ WriteHeader(status)
         /\ capture' = IF route = "order" THEN status ELSE 0
    /\ UNCHANGED <<route, inbound, depth, going, ctxId, echoed, claim, log, struck>>

HandlerReturns ==
    /\ InHandler /\ wire # 0
    /\ going' = "up"
    /\ UNCHANGED <<route, inbound, depth, ctxId, echoed, wire, rec, capture, claim, log, struck>>

HandlerPanics ==
    /\ InHandler
    /\ going' = "panic"
    /\ struck' = [panic |-> TRUE, behind |-> wire]
    /\ UNCHANGED <<route, inbound, depth, ctxId, echoed, wire, rec, capture, claim, log>>

-----------------------------------------------------------------------------
(* Up *)

Pop == depth' = depth - 1

\* handlerReturned, and a status between 200 and 299.
Succeeded(how) == how = "up" /\ capture \in 200..299

\* The deferred function, run by a return and by a panic.
RequireEnds ==
    /\ BackAt("require")
    /\ claim' = CASE claim # "held" -> claim
                  [] Succeeded(going) -> "kept"
                  [] OTHER -> "released"
    /\ Pop
    /\ UNCHANGED <<route, inbound, going, ctxId, echoed, wire, rec, capture, log, struck>>

\* WriteError into what may have been answered already.
Recovers ==
    /\ BackAt("recovery")
    /\ IF going = "panic" THEN WriteHeader(500) ELSE UNCHANGED <<rec, wire>>
    /\ going' = "up"
    /\ Pop
    /\ UNCHANGED <<route, inbound, ctxId, echoed, capture, claim, log, struck>>

\* RequestLogging logs under the context it was called with; nothing is
\* deferred.
Logs ==
    /\ BackAt("log")
    /\ LET id == IF \E i \in 1..(depth - 1) : Frames[i] = "id" THEN ctxId ELSE NoId
       IN log' = IF going = "up" THEN Append(log, [status |-> rec.status, id |-> id])
                                 ELSE log
    /\ Pop
    /\ UNCHANGED <<route, inbound, going, ctxId, echoed, wire, rec, capture, claim, struck>>

IdReturns ==
    /\ BackAt("id")
    /\ Pop
    /\ UNCHANGED <<route, inbound, going, ctxId, echoed, wire, rec, capture, claim, log, struck>>

\* What the frames do, outside of the handler.
FrameStep ==
    \/ RequestID \/ RequestLogging \/ Recovery \/ Require \/ RequireAnswers
    \/ HandlerReturns \/ RequireEnds \/ Recovers \/ Logs \/ IdReturns

-----------------------------------------------------------------------------
(* Properties *)

Over == going # "down" /\ depth = 0

\* NewServer, "a recovered panic's 500 still reaches the access log": whatever
\* happens, every request leaves one record, with the status that was sent.
LogTellsTruth ==
    Over => Len(log) = 1 /\ log[1].status = wire

\* RequestID, "puts it in the context, and echoes it": the record can be found
\* by the id that the client has, its own if it sent one.
LogIsTraceable ==
    Over => log # <<>> /\ log[1].id = echoed /\ echoed # NoId
            /\ (inbound # NoId => echoed = inbound)

\* Require, "the claim is released on a panic as well as on a non-2xx": a claim
\* that is kept was answered with success by a handler that returned, and no
\* other outcome keeps one; a panic behind the 202 does not.
ClaimFollowsAnswer ==
    Over => /\ claim # "held"
            /\ claim = "kept" => wire = 202 /\ ~struck.panic
            /\ claim = "released" => wire \notin 200..299 \/ struck.panic

\* Recovery: no panic reaches the server, which would cut the connection; a
\* client that had no answer yet gets a 500, any other keeps the one it had.
PanicIsAnswered ==
    Over => /\ going = "up"
            /\ struck.panic => wire = IF struck.behind = 0 THEN 500 ELSE struck.behind

=============================================================================
