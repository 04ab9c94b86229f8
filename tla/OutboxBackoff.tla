--------------------------- MODULE OutboxBackoff ---------------------------
(***************************************************************************)
(* When the outbox publisher tries an event again: drainBatch and          *)
(* recordFailure with the clock that Outbox leaves out.  now() is the      *)
(* start of a transaction, so a backoff runs from the start of the batch   *)
(* and not from the failure, and a batch may take longer than that.  The   *)
(* ticker keeps one tick for a publisher that is late.  There is one       *)
(* publisher.                                                              *)
(***************************************************************************)
EXTENDS Integers, FiniteSets

CONSTANTS
    Events,       \* numbered in the order of created_at
    BatchSize, MaxRetries,
    Interval,     \* between two ticks
    BaseBackoff,
    MaxShift,     \* the backoff doubles this often: 16 in the code
    Horizon       \* the clock stops here

ASSUME EventsAssumption == Events \subseteq Nat
ASSUME LimitsAssumption ==
    /\ {BatchSize, MaxRetries, Interval, BaseBackoff} \subseteq Nat \ {0}
    /\ {MaxShift, Horizon} \subseteq Nat

VARIABLES
    now,
    tick,      \* a tick waits in the channel of the ticker
    row,       \* the outbox_events table: status, retries, next attempt
    began,     \* now() of the open transaction, or Never
    left,      \* the events of its batch still to publish
    wrote,     \* what it has written: its part of the table
    first,     \* when Publish first failed, of the failures that are recorded
    failedAt   \* when Publish last failed

vars == <<now, tick, row, began, left, wrote, first, failedAt>>

Never == -1

\* BaseBackoff << n.
Shifted[n \in Nat] == IF n = 0 THEN BaseBackoff ELSE 2 * Shifted[n - 1]

Backoff(attempt) == Shifted[IF attempt - 1 < MaxShift THEN attempt - 1 ELSE MaxShift]

Init ==
    /\ now = 0 /\ tick = FALSE
    /\ row = [e \in Events |-> [status |-> "none", retries |-> 0, next |-> 0]]
    /\ began = Never /\ left = {} /\ wrote = row
    /\ first = [e \in Events |-> Never] /\ failedAt = first

-----------------------------------------------------------------------------
(* Mutated forms of definitions below, as a plausible slip would write them; *)
(* the runs are checked to notice each of them.                              *)

\* WHERE status IN (...) alone.
DueAlways(e) == row[e].status \in {"pending", "retrying"}

-----------------------------------------------------------------------------

\* Time passes between any two steps, inside Publish as well.
Pass ==
    /\ now < Horizon
    /\ now' = now + 1
    /\ tick' = (tick \/ now' % Interval = 0)
    /\ UNCHANGED <<row, began, left, wrote, first, failedAt>>

Append(e) ==
    /\ row[e].status = "none"
    /\ row' = [row EXCEPT ![e] = [status |-> "pending", retries |-> 0, next |-> now]]
    /\ UNCHANGED <<now, tick, began, left, wrote, first, failedAt>>

Due(e) == row[e].status \in {"pending", "retrying"} /\ row[e].next <= now

\* ORDER BY created_at LIMIT batchSize.
Batch == {e \in Events : Due(e) /\ Cardinality({f \in Events : Due(f) /\ f < e}) < BatchSize}

Claim ==
    /\ began = Never /\ tick
    /\ tick' = FALSE
    /\ began' = now /\ left' = Batch /\ wrote' = row
    /\ UNCHANGED <<now, row, first, failedAt>>

Turn(e) == e \in left /\ \A f \in left : e <= f

Published(e) ==
    /\ Turn(e)
    /\ wrote' = [wrote EXCEPT ![e].status = "published"]
    /\ left' = left \ {e}
    /\ UNCHANGED <<now, tick, row, began, first, failedAt>>

\* recordFailure.
AfterFailure(retries) ==
    [status |-> IF retries + 1 >= MaxRetries THEN "dead_lettered" ELSE "retrying",
     retries |-> retries + 1, next |-> began + Backoff(retries + 1)]

Failed(e) ==
    /\ Turn(e)
    /\ wrote' = [wrote EXCEPT ![e] = AfterFailure(row[e].retries)]
    /\ failedAt' = [failedAt EXCEPT ![e] = now]
    /\ left' = left \ {e}
    /\ UNCHANGED <<now, tick, row, began, first>>

\* Rows of other events may have been appended since.
Committed == [e \in Events |-> IF row[e].status = "none" \/ wrote[e].status = "none"
                               THEN row[e] ELSE wrote[e]]

Commit ==
    /\ began # Never /\ left = {}
    /\ row' = Committed
    /\ first' = [e \in Events |-> IF row[e].retries = 0 /\ row'[e].retries = 1
                                  THEN failedAt[e] ELSE first[e]]
    /\ began' = Never
    /\ UNCHANGED <<now, tick, left, wrote, failedAt>>

\* Any error, the stop of the process included: no backoff is recorded.
RollBack ==
    /\ began # Never
    /\ began' = Never /\ left' = {}
    /\ UNCHANGED <<now, tick, row, wrote, first, failedAt>>

Next ==
    \/ Pass \/ Claim \/ Commit \/ RollBack
    \/ \E e \in Events : Append(e) \/ Published(e) \/ Failed(e)

Spec == Init /\ [][Next]_vars

-----------------------------------------------------------------------------
(* Properties *)

\* How long n backoffs last together.
Patience[n \in Nat] == IF n = 0 THEN 0 ELSE Patience[n - 1] + Backoff(n)

\* recordFailure, "pushes next_attempt_at out by a doubling backoff": however
\* long its batches take, whatever ticks they miss and however many of them are
\* rolled back and retried at once, an event is given up only after an outage
\* of the sink, from the first failed Publish that was recorded to the last one,
\* that outlasts all of its backoffs but the first.  That one runs from the start
\* of its batch, and may be over when Publish fails.
OutageOutlasted ==
    \A e \in Events : row[e].status = "dead_lettered" =>
        failedAt[e] - first[e] >= Patience[MaxRetries - 1] - Backoff(1)

=============================================================================
