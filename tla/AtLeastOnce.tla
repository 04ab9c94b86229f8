---------------------------- MODULE AtLeastOnce ----------------------------
(***************************************************************************)
(* What the outbox promises: an event, once recorded, waits until it is    *)
(* settled, once and for all; it is settled as published only if it was    *)
(* delivered.  It may be delivered several times, even after that.         *)
(***************************************************************************)

CONSTANT Events

VARIABLES
    state,   \* of each event
    got      \* the events that were ever delivered

vars == <<state, got>>

Init ==
    /\ state = [e \in Events |-> "none"]
    /\ got = {}

Record(e) ==
    /\ state[e] = "none"
    /\ state' = [state EXCEPT ![e] = "waiting"]
    /\ UNCHANGED got

Deliver(e) ==
    /\ state[e] # "none"
    /\ got' = got \cup {e}
    /\ UNCHANGED state

\* A batch settles several events in one step.
Settle ==
    \E gone \in SUBSET {e \in Events : state[e] = "waiting"} :
      \E published \in SUBSET (gone \cap got) :
        /\ state' = [e \in Events |-> IF e \in published THEN "published"
                                     ELSE IF e \in gone THEN "dead_lettered"
                                     ELSE state[e]]
        /\ UNCHANGED got

Next == Settle \/ \E e \in Events : Record(e) \/ Deliver(e)

Spec == Init /\ [][Next]_vars
=============================================================================
