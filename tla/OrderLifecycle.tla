--------------------------- MODULE OrderLifecycle ---------------------------
(***************************************************************************)
(* The status of an order (services/order/domain): TransitionTo follows    *)
(* the table of legal edges and refuses everything else.  Callers may ask  *)
(* for any transition at any time.                                         *)
(***************************************************************************)

CONSTANT Orders

VARIABLES
    status,   \* of each order
    past,     \* the statuses each order had before (history)
    err       \* whether the last TransitionTo returned ErrIllegalTransition

vars == <<status, past, err>>

\* Also asked for: a status outside the domain.
Unknown == "on_hold"

AllStatuses ==
    {"pending", "inventory_reserved", "payment_pending", "payment_succeeded",
     "payment_failed", "confirmed", "cancelled", "expired",
     "awaiting_reconciliation", "manual_review"}

-----------------------------------------------------------------------------
(* domain/order.go *)

transitions(s) ==
    CASE s = "pending"                 -> {"inventory_reserved", "cancelled", "expired"}
      [] s = "inventory_reserved"      -> {"payment_pending", "cancelled"}
      [] s = "payment_pending"         -> {"payment_succeeded", "payment_failed",
                                           "awaiting_reconciliation"}
      [] s = "payment_succeeded"       -> {"confirmed", "manual_review"}
      [] s = "payment_failed"          -> {"cancelled"}
      [] s = "awaiting_reconciliation" -> {"payment_succeeded", "payment_failed",
                                           "manual_review"}
      [] OTHER                         -> {}

\* Mutated forms of CanTransitionTo, as one edge too many in the table or a
\* dropped check would have it; the runs are checked to notice each of them.
CanCompensateUnknown(from, next) ==
    next \in transitions(from) \/ <<from, next>> = <<"awaiting_reconciliation", "cancelled">>
CanUnconfirm(from, next) ==
    next \in transitions(from) \/ <<from, next>> = <<"payment_succeeded", "cancelled">>
CanTransitionTo(from, next) == next \in transitions(from)

Init ==
    /\ status = [o \in Orders |-> "pending"]
    /\ past = [o \in Orders |-> {}]
    /\ err = FALSE

TransitionTo(o, next) ==
    /\ CanTransitionTo(status[o], next)
    /\ status' = [status EXCEPT ![o] = next]
    /\ past' = [past EXCEPT ![o] = @ \cup {status[o]}]
    /\ err' = FALSE

TransitionRefused(o, next) ==
    /\ ~CanTransitionTo(status[o], next)
    /\ err' = TRUE
    /\ UNCHANGED <<status, past>>

Next == \E o \in Orders, next \in AllStatuses \cup {Unknown} :
            TransitionTo(o, next) \/ TransitionRefused(o, next)

Spec == Init /\ [][Next]_vars

-----------------------------------------------------------------------------
(* Properties *)

TypeOK ==
    /\ status \in [Orders -> AllStatuses]
    /\ past \in [Orders -> SUBSET AllStatuses]
    /\ err \in BOOLEAN

\* "An unknown payment must never trigger compensation": once payment was
\* asked for, an order is cancelled only after the payment is known to have
\* failed, along any sequence of legal calls.
CompensationNeedsFailure ==
    \A o \in Orders :
        status[o] \in {"cancelled", "expired"} /\ "payment_pending" \in past[o] =>
            "payment_failed" \in past[o]

\* An order that was paid is confirmed or goes to a human: no path of legal
\* calls leads it to a failed payment, a cancellation or an expiry.
PaidIsKept ==
    \A o \in Orders : "payment_succeeded" \in past[o] =>
        status[o] \in {"confirmed", "manual_review"}

\* An order never comes back to a status it has left, so the calls that can
\* succeed for one order are bounded and no step is taken twice.
NoReturn ==
    \A o \in Orders : status[o] \notin past[o]

=============================================================================
