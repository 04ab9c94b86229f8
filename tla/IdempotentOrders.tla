-------------------------- MODULE IdempotentOrders --------------------------
(***************************************************************************)
(* What POST /orders promises its clients, without tables, transactions or *)
(* claims: a key is decided at most once, by one order, and every answer   *)
(* agrees with that decision.  Idempotency implements it.                  *)
(***************************************************************************)

CONSTANTS Requests, Keys, NoKey, Hashes, NoOrder

VARIABLES
    asked,    \* the key and the body digest of each request
    result,   \* the order that each key bought
    answer    \* what each request was told

vars == <<asked, result, answer>>

Init ==
    /\ asked \in [Requests -> [key: Keys \cup {NoKey}, hash: Hashes]]
    /\ result = [k \in Keys |-> NoOrder]
    /\ answer = [r \in Requests |-> [status |-> "none", order |-> NoOrder]]

\* An order is placed.  Its client may have been told of an error before: the
\* outcome of a commit can be unknown to the server that asked for it.
Place(r) ==
    /\ asked[r].key \in Keys
    /\ result[asked[r].key] = NoOrder
    /\ answer[r].status \in {"none", "error"}
    /\ result' = [result EXCEPT ![asked[r].key] = r]
    /\ UNCHANGED <<asked, answer>>

Say(r, status, order) ==
    /\ answer[r].status = "none"
    /\ answer' = [answer EXCEPT ![r] = [status |-> status, order |-> order]]
    /\ UNCHANGED <<asked, result>>

\* Answers that name no order are always allowed; they end the request, so
\* that all but "error" rule out an order of its own.
TellNothing(r) ==
    \E status \in {"rejected", "error", "conflict", "processing"} :
        Say(r, status, NoOrder)

TellCreated(r) ==
    /\ asked[r].key \in Keys
    /\ result[asked[r].key] = r
    /\ Say(r, "created", r)

\* Only a request with the same body digest is given another's order.
TellReplayed(r) ==
    /\ asked[r].key \in Keys
    /\ LET o == result[asked[r].key] IN
       /\ o # NoOrder
       /\ asked[o].hash = asked[r].hash
       /\ Say(r, "replayed", o)

Next == \E r \in Requests :
    Place(r) \/ TellNothing(r) \/ TellCreated(r) \/ TellReplayed(r)

Spec == Init /\ [][Next]_vars
=============================================================================
