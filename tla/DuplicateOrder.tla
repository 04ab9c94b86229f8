--------------------------- MODULE DuplicateOrder ---------------------------
(***************************************************************************)
(* labctl scenario duplicate-order: the client that judges the service by  *)
(* three POSTs under one key and a GET, against a service that may break   *)
(* its contract in known ways.                                             *)
(*                                                                         *)
(* Every call ends with an answer, an error or the timeout of the client.  *)
(* net/http sends a POST that carries an Idempotency-Key again, by itself, *)
(* when the connection it reused breaks, and once, since labctl has one    *)
(* idle connection at most: the service may then see a POST twice, the     *)
(* second time while it still handles the first.                           *)
(***************************************************************************)
EXTENDS Integers

CONSTANTS
    Defects,   \* the services that are judged, by what they do wrong
    Faults     \* what may go wrong on the way, see FaultKinds

\* What a service may do wrong with a key it has completed, or afterwards.
DefectKinds == {"again",      \* handles the request again, and answers the new order
                "hides",      \* handles it again, and answers as if it had not
                "rewrites",   \* replays other bytes
                "renames",    \* replays another status
                "unmarked",   \* replays without Idempotent-Replay
                "hashless",   \* replays for any body
                "loses"}      \* does not find the order

FaultKinds == {"down",      \* the service is not ready in time
               "cancel",    \* SIGINT or SIGTERM to labctl
               "timeout",   \* an answer takes longer than the client waits
               "broken",    \* the connection breaks
               "error"}     \* the service fails a request

ASSUME DefectsAssumption == Defects \subseteq SUBSET DefectKinds
ASSUME FaultsAssumption == Faults \subseteq FaultKinds

VARIABLES
    defects,   \* of this service
    up,        \* it is ready
    key,       \* its row: absent, in_progress or completed
    orders,    \* how many orders it has created; they are numbered
    at,        \* where the scenario is
    late,      \* the deadline of waitReady has passed
    live,      \* the delivery that the client waits for: none, new or claimed
    ghost,     \* the delivery whose connection broke: none, new or claimed
    resent,    \* the call that was last sent again, at first "poll"
    first,     \* the answer to the first POST
    order,     \* the order that the key stands for, as it is answered
    causes     \* the faults that struck

scenarioVars ==
    <<defects, up, key, orders, at, late, live, ghost, resent, first, order, causes>>

Ended == {"pass", "fail"}

\* An answer has a body, which is an order, 0 for "processing" or -1 for an error
\* envelope; it is whole if its bytes are those first sent, and marked as a
\* replay or not.
None == [status |-> 500, body |-> -1, whole |-> TRUE, marked |-> FALSE]

ScenarioInit ==
    /\ defects \in Defects
    /\ up = FALSE /\ late = FALSE
    /\ key = "absent" /\ orders = 0 /\ order = 0
    /\ at = "poll"
    /\ live = "none" /\ ghost = "none" /\ resent = "poll"
    /\ first = None
    /\ causes = {}

-----------------------------------------------------------------------------
(* Mutated forms of definitions below, as a plausible slip would write them; *)
(* the runs are checked to notice each of them.                              *)

\* The bodies are not compared.
ReplayStatusOnly(a) == a.status = first.status /\ a.marked

\* A reused key is expected to be refused as invalid.
RefusedAsInvalid(a) == a.status = 422

\* http.Client without a Timeout.
NoTimeout == FALSE

-----------------------------------------------------------------------------
(* The scenario *)

Strikes(fault) == fault \in Faults /\ causes' = causes \cup {fault}

Fail == at' = "fail" /\ live' = "none" /\ ghost' = ghost

\* waitReady finds the service ready, in a poll that began before the deadline;
\* the first POST is sent.
Ready ==
    /\ at = "poll" /\ up
    /\ at' = "first" /\ live' = "new"
    /\ UNCHANGED <<defects, up, key, orders, late, resent, ghost, first, order, causes>>

NotReady ==
    /\ at = "poll" /\ late
    /\ Strikes("down") /\ Fail
    /\ UNCHANGED <<defects, up, key, orders, late, resent, first, order>>

Waits == live # "none"

\* What each answer must be.
IsReplay(a) ==
    a.status = first.status /\ a.body = first.body /\ a.whole = first.whole /\ a.marked

IsConflict(a) == a.status = 409

Expected(a) ==
    CASE at = "first" -> a.status = 202
      [] at = "second" -> IsReplay(a)
      [] at = "conflict" -> IsConflict(a)
      [] at = "get" -> a.status = 200

Following == CASE at = "first" -> "second" [] at = "second" -> "conflict"
               [] at = "conflict" -> "get" [] at = "get" -> "pass"

\* The answer arrives: the next call, or the verdict.
Hear(a) ==
    IF Expected(a)
      THEN /\ at' = Following
           /\ live' = IF at = "get" THEN "none" ELSE "new"
           /\ first' = IF at = "first" THEN a ELSE first
      ELSE at' = "fail" /\ live' = "none" /\ UNCHANGED first

\* Timeout of the client: 10 seconds for a call.
MayTimeOut == Waits

TimesOut ==
    /\ MayTimeOut
    /\ Strikes("timeout") /\ Fail
    /\ UNCHANGED <<defects, up, key, orders, late, resent, first, order>>

\* A connection breaks: the error ends the scenario ...
Breaks ==
    /\ Waits
    /\ Strikes("broken") /\ Fail
    /\ UNCHANGED <<defects, up, key, orders, late, resent, first, order>>

\* ... or the transport sends a POST again.
Resends ==
    /\ live # "none" /\ at # "get" /\ ghost = "none" /\ resent # at
    /\ Strikes("broken")
    /\ ghost' = live /\ live' = "new" /\ resent' = at
    /\ UNCHANGED <<defects, up, key, orders, at, late, first, order>>

Cancel ==
    /\ at \notin Ended
    /\ Strikes("cancel") /\ Fail
    /\ UNCHANGED <<defects, up, key, orders, late, resent, first, order>>

DeadlinePasses ==
    /\ at = "poll" /\ ~late
    /\ "down" \in Faults
    /\ late' = TRUE
    /\ UNCHANGED <<defects, up, key, orders, at, resent, live, ghost, first, order, causes>>

-----------------------------------------------------------------------------
(* The service *)

Starts ==
    /\ ~up /\ up' = TRUE
    /\ UNCHANGED <<defects, key, orders, at, late, resent, live, ghost, first, order, causes>>

Claimable == key = "absent"

\* One delivery of a POST is claimed, live or not.
Claim ==
    /\ Claimable
    /\ \/ live = "new" /\ at # "get" /\ live' = "claimed" /\ UNCHANGED ghost
       \/ ghost = "new" /\ ghost' = "claimed" /\ UNCHANGED live
    /\ key' = "in_progress"
    /\ UNCHANGED <<defects, up, orders, at, late, resent, first, order, causes>>

\* CreateOrder commits; whether anybody hears of it is another question.
Completes ==
    /\ key = "in_progress"
    /\ key' = "completed"
    /\ orders' = orders + 1 /\ order' = orders'
    /\ \/ /\ live = "claimed"
          /\ Hear([status |-> 202, body |-> order', whole |-> TRUE, marked |-> FALSE])
          /\ UNCHANGED ghost
       \/ ghost = "claimed" /\ ghost' = "none" /\ UNCHANGED <<at, live, first>>
    /\ UNCHANGED <<defects, up, late, resent, causes>>

\* The handler fails, and the claim is released ...
HandlerFails ==
    /\ key = "in_progress" /\ Strikes("error")
    /\ key' = "absent"
    /\ \/ live = "claimed" /\ Hear(None) /\ UNCHANGED ghost
       \/ ghost = "claimed" /\ ghost' = "none" /\ UNCHANGED <<at, live, first>>
    /\ UNCHANGED <<defects, up, orders, late, resent, order>>

\* ... or the database does, at Claim or for the GET.
StoreFails ==
    /\ live = "new" /\ Strikes("error")
    /\ Hear(None)
    /\ UNCHANGED <<defects, up, key, orders, late, resent, ghost, order>>

\* Another delivery is under way.
InProgress ==
    /\ live = "new" /\ at # "get" /\ key = "in_progress"
    /\ Hear([status |-> 202, body |-> 0, whole |-> TRUE, marked |-> FALSE])
    /\ UNCHANGED <<defects, up, key, orders, late, resent, ghost, order, causes>>

\* A request for a completed key is handled again ...
Reorders == defects \cap {"again", "hides"} # {}

OrderAgain ==
    /\ orders' = orders + 1
    /\ order' = IF "again" \in defects THEN orders' ELSE order

\* ... or not.  The key is completed by a body that is the same, but for the
\* third POST, which is refused; a service that hides orders may do so there too.
Repeat ==
    /\ live = "new" /\ at \in {"first", "second", "conflict"} /\ key = "completed"
    /\ IF at = "conflict" /\ "hashless" \notin defects
         THEN /\ Hear([status |-> 409, body |-> -1, whole |-> TRUE, marked |-> FALSE])
              /\ orders' = IF "hides" \in defects THEN orders + 1 ELSE orders
              /\ UNCHANGED order
         ELSE /\ IF Reorders THEN OrderAgain ELSE UNCHANGED <<orders, order>>
              /\ Hear([status |-> IF "renames" \in defects THEN 200 ELSE 202,
                       body |-> order', whole |-> "rewrites" \notin defects,
                       marked |-> "unmarked" \notin defects])
    /\ UNCHANGED <<defects, up, key, late, resent, ghost, causes>>

\* A delivery without a client is answered all the same.
RepeatUnheard ==
    /\ ghost = "new" /\ key # "absent"
    /\ ghost' = "none"
    /\ UNCHANGED <<orders, order>> \/ (key = "completed" /\ Reorders /\ OrderAgain)
    /\ UNCHANGED <<defects, up, key, at, late, resent, live, first, causes>>

Read ==
    /\ live = "new" /\ at = "get"
    /\ Hear(IF first.body \in 1..orders /\ "loses" \notin defects
              THEN [status |-> 200, body |-> first.body, whole |-> TRUE, marked |-> FALSE]
              ELSE [status |-> 404, body |-> -1, whole |-> TRUE, marked |-> FALSE])
    /\ UNCHANGED <<defects, up, key, orders, late, resent, ghost, order, causes>>

Service == Claim \/ Completes \/ InProgress \/ Repeat \/ RepeatUnheard \/ Read

Verdict == at \in Ended /\ ghost = "none" /\ UNCHANGED scenarioVars

ScenarioNext ==
    \/ Ready \/ NotReady \/ TimesOut \/ Breaks \/ Resends \/ Cancel \/ DeadlinePasses
    \/ Starts \/ Service \/ HandlerFails \/ StoreFails
    \/ Verdict

ScenarioSpec == ScenarioInit /\ [][ScenarioNext]_scenarioVars

\* Time passes and labctl runs; nothing is asked of the service.
FairSpec ==
    /\ ScenarioSpec
    /\ WF_scenarioVars(Ready \/ NotReady)
    /\ WF_scenarioVars(DeadlinePasses)
    /\ WF_scenarioVars(TimesOut)

-----------------------------------------------------------------------------
(* Properties *)

\* scenario, "it asserts its own outcome": PASS is said of a service whose key
\* stands for the order of the first answer, which can be read, and of none that
\* answers a retry with another order, another status or without the mark of a
\* replay, takes another body for the same, or loses the order.  Two defects get
\* through.  runDuplicateOrder does not look for Idempotent-Replay in the first
\* answer, and when the transport sent the first POST twice, that answer may be
\* a replay already: two replays with the same other bytes are then alike.  And
\* it judges by answers and counts no orders, so "one order, not two" is not
\* what it shows: more orders than one pass if no answer names them.
PassMeansContract ==
    at = "pass" =>
        /\ first.body = order
        /\ defects \subseteq {"rewrites", "hides"}
        /\ "rewrites" \in defects => first.marked
        /\ orders > 1 => "hides" \in defects

\* FAIL is never said of a service that keeps its contract, over a network and
\* in a time that let it.
FailHasCause ==
    at = "fail" => defects # {} \/ causes # {}

\* waitReady and Timeout: whatever the service does, there is a verdict.
ScenarioEnds == <>(at \in Ended)

=============================================================================
