---------------------------- MODULE AtomicOrders ----------------------------
(***************************************************************************)
(* What GET /orders/{id} promises: an order appears at once, with all its  *)
(* items, and stays.  A GET sees it whole or not at all, and never misses  *)
(* one that somebody had been told of before the GET began.  OrderReads    *)
(* implements it.                                                          *)
(***************************************************************************)

CONSTANTS Orders, Gets

VARIABLES
    stored,   \* the orders there are
    known,    \* the orders that somebody outside was told of
    due,      \* the GETs of an order that was known when they began
    saw       \* what each GET was told

vars == <<stored, known, due, saw>>

Init ==
    /\ stored = {} /\ known = {} /\ due = {}
    /\ saw = [g \in Gets |-> "nothing"]

Store(o) == stored' = stored \cup {o} /\ UNCHANGED <<known, due, saw>>

Tell(o) == o \in stored /\ known' = known \cup {o} /\ UNCHANGED <<stored, due, saw>>

Begin(g, o) ==
    /\ due' = IF o \in known THEN due \cup {g} ELSE due
    /\ UNCHANGED <<stored, known, saw>>

See(g, what) == saw[g] = "nothing" /\ saw' = [saw EXCEPT ![g] = what]

\* Whoever reads an order knows of it.
Found(g, o) ==
    /\ o \in stored /\ known' = known \cup {o}
    /\ See(g, "whole") /\ UNCHANGED <<stored, due>>

Missed(g, o) ==
    /\ o \notin stored /\ g \notin due
    /\ See(g, "missing") /\ UNCHANGED <<stored, known, due>>

Failed(g) == See(g, "error") /\ UNCHANGED <<stored, known, due>>

Next ==
    \/ \E o \in Orders : Store(o) \/ Tell(o)
    \/ \E g \in Gets, o \in Orders : Begin(g, o) \/ Found(g, o) \/ Missed(g, o)
    \/ \E g \in Gets : Failed(g)

Spec == Init /\ [][Next]_vars
=============================================================================
