-------------------------- MODULE OutboxInvariants --------------------------
(***************************************************************************)
(* The inductive invariant of Outbox: what holds between the table, the    *)
(* sessions that have rows of it locked, and the publishers that work on   *)
(* a batch.  TLC checks it on small instances; the theorems about Outbox   *)
(* rest on it.                                                             *)
(***************************************************************************)
EXTENDS Outbox

\* Two transactions never hold the same row.
LocksApart ==
    /\ \A p, q \in Publishers : p # q => session[p].held \cap session[q].held = {}
    /\ \A p \in Publishers, o \in orphans : session[p].held \cap o.held = {}
    /\ \A o1, o2 \in orphans : o1 # o2 => o1.held \cap o2.held = {}

\* What a transaction may write to the row of e, from what the sink has done.
Backed(e, w) ==
    /\ w.status \in {"published", "retrying", "dead_lettered"}
    /\ w.retries <= failed[e]
    /\ w.status = "published" => sent[e] >= 1
    /\ w.status = "retrying" => w.retries < MaxRetries
    /\ w.status = "dead_lettered" => failed[e] = MaxRetries

\* A transaction holds rows that are still to be settled, and writes to no
\* others.
SessionSound(s) ==
    /\ \A e \in s.held : row[e].status \in Claimable
    /\ \A e \in Events : s.wrote[e].status # "none" =>
         e \in s.held /\ Backed(e, s.wrote[e])

SessionsSound ==
    /\ \A p \in Publishers : SessionSound(session[p])
    /\ \A o \in orphans : SessionSound(o)

\* A publisher works on events that it holds, as long as its session lasts,
\* with the retry count that is still theirs, and on the outcome of its own
\* last call of Publish.
InHand(p, e) ==
    /\ row[e].status # "none"
    /\ session[p].state = "open" =>
         /\ e \in session[p].held
         /\ seen[p][e] = row[e].retries
         /\ pc[p] = "mark" /\ IsFirst(e, batch[p]) => sent[e] >= 1
         /\ pc[p] = "record" /\ IsFirst(e, batch[p]) => seen[p][e] < failed[e]

BatchSound == \A p \in Publishers : \A e \in batch[p] : InHand(p, e)

\* The table itself: retry counts and settled rows are backed by the sink.
RowsBacked ==
    \A e \in Events :
        /\ row[e].retries <= failed[e]
        /\ row[e].status \notin Settled => row[e].retries < MaxRetries
        /\ row[e].status = "published" => sent[e] >= 1
        /\ row[e].status = "dead_lettered" => failed[e] = MaxRetries

OutboxInv ==
    /\ TypeOK
    /\ LocksApart
    /\ SessionsSound
    /\ BatchSound
    /\ RowsBacked

-----------------------------------------------------------------------------
(* When nothing but the sink fails, the counters are exact: every call of    *)
(* Publish for an event is accounted for in the table or in one session.     *)

\* Each publisher is in step with its session, and nothing is left behind.
InStep ==
    /\ orphans = {} /\ stopped = {}
    /\ \A p \in Publishers :
         /\ pc[p] \notin {"returned", "dead"} /\ session[p].state # "lost"
         /\ pc[p] = "idle" \/ session[p].state = "committed" => session[p].held = {}
         /\ pc[p] \in {"publish", "mark", "record"} => session[p].state = "open"
         /\ pc[p] \in {"commit", "await"} => batch[p] = {}
         /\ session[p].state = "committing" => pc[p] = "await"

\* Between two calls of Publish.
Level(e) == sent[e] <= failed[e] /\ failed[e] = row[e].retries

AtRest(e) ==
    /\ row[e].status = "none" => row[e].retries = 0
    /\ IF row[e].status \in Settled THEN sent[e] <= 1 + failed[e] ELSE Level(e)

\* An event in the hands of p: before, during or after its turn.
UnderWay(p, e) ==
    IF e \in batch[p]
      THEN \/ pc[p] = "mark" /\ IsFirst(e, batch[p]) /\ sent[e] <= 1 + failed[e]
           \/ /\ pc[p] = "record" /\ IsFirst(e, batch[p])
              /\ sent[e] <= failed[e] /\ failed[e] = 1 + row[e].retries
           \/ /\ pc[p] \in {"mark", "record"} => ~IsFirst(e, batch[p])
              /\ Level(e)
      ELSE LET w == session[p].wrote[e] IN
           \/ w.status = "published" /\ sent[e] <= 1 + failed[e]
           \/ /\ w.status \in {"retrying", "dead_lettered"}
              /\ sent[e] <= failed[e] /\ failed[e] = w.retries

Accounted(e) ==
    \/ AtRest(e) /\ \A p \in Publishers : e \notin session[p].held
    \/ \E p \in Publishers : e \in session[p].held /\ UnderWay(p, e)

AccountInv == InStep /\ \A e \in Events : Accounted(e)

=============================================================================
