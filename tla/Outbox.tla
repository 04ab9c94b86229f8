------------------------------- MODULE Outbox -------------------------------
(***************************************************************************)
(* The transactional outbox (internal/outbox): events are appended with    *)
(* the order they belong to, and publishers drain them in batches.  One    *)
(* batch is one transaction: its row locks are held while the sink is      *)
(* called, and what the sink answered is recorded in the same transaction. *)
(*                                                                         *)
(* A publisher and its database session are apart: the server may end the  *)
(* session while the publisher is still inside Publish, and a publisher    *)
(* that is gone may leave a session, even a COMMIT, behind.                *)
(***************************************************************************)
EXTENDS Naturals, FiniteSets

CONSTANTS
    Publishers,
    Events,       \* numbered in the order of created_at
    BatchSize,
    MaxRetries,
    Faults,       \* what may go wrong, see FaultKinds
    Reliable,     \* publishers that only the sink can fail
    SentCap       \* deliveries are counted up to this bound

FaultKinds == {"sink",   \* Publish fails, perhaps after it delivered
               "db",     \* a statement fails, a session ends, a commit is in doubt
               "stop",   \* the process is asked to stop: the context is cancelled
               "crash"}  \* the process stops between two steps, and is restarted

ASSUME FaultsAssumption == Faults \subseteq FaultKinds
ASSUME EventsAssumption == Events \subseteq Nat
ASSUME ReliableAssumption == Reliable \subseteq Publishers
ASSUME LimitsAssumption == /\ BatchSize \in Nat \ {0} /\ MaxRetries \in Nat \ {0}
                           /\ SentCap \in Nat \ {0}

VARIABLES
    row,       \* the outbox_events table
    pc,        \* where each publisher is in Run and drainBatch
    stopped,   \* publishers whose context is cancelled
    batch,     \* claimed events that the publisher has still to handle
    seen,      \* the retry_count read by claim
    session,   \* the transaction of each publisher, as the server has it
    orphans,   \* transactions that no publisher waits for any more
    sent,      \* how often the sink took each event (up to SentCap)
    failed     \* how many Publish calls failed for each event (up to MaxRetries)

vars == <<row, pc, stopped, batch, seen, session, orphans, sent, failed>>

-----------------------------------------------------------------------------
(* Types *)

Claimable == {"pending", "retrying"}
Settled == {"published", "dead_lettered"}

\* "none": not appended yet.  due: next_attempt_at <= now().
Row == [status: {"none"} \cup Claimable \cup Settled,
        retries: 0 .. MaxRetries,
        due: BOOLEAN]

\* The rows a transaction has locked, and what it has written to them.
Session == [state: {"none", "open", "committing", "committed", "lost"},
            held: SUBSET Events,
            wrote: [Events -> Row]]

Unwritten == [status |-> "none", retries |-> 0, due |-> FALSE]
NoWrites == [e \in Events |-> Unwritten]
NoSession == [state |-> "none", held |-> {}, wrote |-> NoWrites]

PC == {"idle", "publish", "mark", "record", "commit", "await", "returned", "dead"}

TypeOK ==
    /\ row \in [Events -> Row]
    /\ pc \in [Publishers -> PC]
    /\ stopped \subseteq Publishers
    /\ batch \in [Publishers -> SUBSET Events]
    /\ seen \in [Publishers -> [Events -> 0 .. MaxRetries]]
    /\ session \in [Publishers -> Session]
    /\ orphans \subseteq Session
    /\ sent \in [Events -> 0 .. SentCap]
    /\ failed \in [Events -> 0 .. MaxRetries]

Init ==
    /\ row = [e \in Events |-> Unwritten]
    /\ pc = [p \in Publishers |-> "idle"]
    /\ stopped = {}
    /\ batch = [p \in Publishers |-> {}]
    /\ seen = [p \in Publishers |-> [e \in Events |-> 0]]
    /\ session = [p \in Publishers |-> NoSession]
    /\ orphans = {}
    /\ sent = [e \in Events |-> 0]
    /\ failed = [e \in Events |-> 0]

-----------------------------------------------------------------------------
(* Helpers *)

MayHappen(fault, p) == fault \in Faults /\ p \notin Reliable

\* A statement of p may return an error.
StatementMayFail(p) ==
    \/ p \in stopped
    \/ session[p].state = "lost"
    \/ MayHappen("db", p)

Sessions == {session[p] : p \in Publishers} \cup orphans

Locked(e) == \E s \in Sessions : e \in s.held

\* ORDER BY created_at: the batch is handled in this order.
IsFirst(e, S) == e \in S /\ \A f \in S : e <= f

CountUp(n, cap) == IF n < cap THEN n + 1 ELSE n

Goto(p, to) == pc' = [pc EXCEPT ![p] = to]

\* The rest of the loop over the batch, once its first event is dealt with.
Proceed(p, e) ==
    /\ batch' = [batch EXCEPT ![p] = @ \ {e}]
    /\ Goto(p, IF batch[p] = {e} THEN "commit" ELSE "publish")

\* drainBatch returns; its session is over, or stays behind on the server.
Leave(p, to) ==
    /\ Goto(p, to)
    /\ batch' = [batch EXCEPT ![p] = {}]
    /\ seen' = [seen EXCEPT ![p] = [e \in Events |-> 0]]
    /\ session' = [session EXCEPT ![p] = NoSession]

LeaveBehind(p) ==
    orphans' = orphans \cup {s \in {session[p]} : s.state \in {"open", "committing"}}

-----------------------------------------------------------------------------
(* Mutated forms of definitions below, as a plausible slip would write them; *)
(* the runs are checked to notice each of them.                              *)

\* SELECT without FOR UPDATE SKIP LOCKED.
EligibleUnlocked(e) == row[e].status \in Claimable /\ row[e].due

\* Plain FOR UPDATE would wait for all the rows that others have locked.
EligibleWaiting(e) ==
    /\ row[e].status \in Claimable
    /\ row[e].due
    /\ \A f \in Events : row[f].status \in Claimable => ~Locked(f)

\* One attempt too few.
FailedRowEarly(retries) ==
    [status |-> IF retries + 2 >= MaxRetries THEN "dead_lettered" ELSE "retrying",
     retries |-> retries + 1, due |-> FALSE]

-----------------------------------------------------------------------------
(* The statements of the outbox, by the rows they match and write *)

\* WHERE status IN ('pending', 'retrying') AND next_attempt_at <= now()
\* FOR UPDATE SKIP LOCKED.
Eligible(e) ==
    /\ row[e].status \in Claimable
    /\ row[e].due
    /\ ~Locked(e)

\* ORDER BY created_at LIMIT batchSize.
IsBatch(S) ==
    LET all == {e \in Events : Eligible(e)} IN
    /\ S \subseteq all
    /\ \A e \in S, f \in all \ S : e < f
    /\ Cardinality(S) <= BatchSize
    /\ S = all \/ Cardinality(S) = BatchSize

\* markPublished.  Whether a settled row is due is not kept.
PublishedRow(retries) ==
    [status |-> "published", retries |-> retries, due |-> FALSE]

\* recordFailure.
FailedRow(retries) ==
    [status |-> IF retries + 1 >= MaxRetries THEN "dead_lettered" ELSE "retrying",
     retries |-> retries + 1, due |-> FALSE]

\* COMMIT of a session.
After(wrote) ==
    [e \in Events |-> IF wrote[e].status = "none" THEN row[e] ELSE wrote[e]]

\* What the loop does when Publish returned an error.
AfterError == "record"

-----------------------------------------------------------------------------
(* The service's side: Append, and the clock *)

\* The row appears with the commit of the order it belongs to.  Commits need
\* not come in the order of created_at.
Append(e) ==
    /\ row[e].status = "none"
    /\ row' = [row EXCEPT ![e] = [status |-> "pending", retries |-> 0, due |-> TRUE]]
    /\ UNCHANGED <<pc, stopped, batch, seen, session, orphans, sent, failed>>

\* The backoff is over.
Elapse(e) ==
    /\ row[e].status \in Claimable
    /\ ~row[e].due
    /\ row' = [row EXCEPT ![e].due = TRUE]
    /\ UNCHANGED <<pc, stopped, batch, seen, session, orphans, sent, failed>>

-----------------------------------------------------------------------------
(* Run and drainBatch *)

Opened(S) == [state |-> "open", held |-> S, wrote |-> NoWrites]

\* A tick: begin, and claim a batch.  An empty batch commits nothing.
Claim(p) ==
    /\ pc[p] = "idle"
    /\ p \notin stopped
    /\ \E S \in SUBSET Events :
         /\ S # {}
         /\ IsBatch(S)
         /\ batch' = [batch EXCEPT ![p] = S]
         /\ seen' = [seen EXCEPT ![p] =
                       [e \in Events |-> IF e \in S THEN row[e].retries ELSE 0]]
         /\ session' = [session EXCEPT ![p] = Opened(S)]
    /\ Goto(p, "publish")
    /\ UNCHANGED <<row, stopped, orphans, sent, failed>>

\* The connection fails during the SELECT, which may have locked the rows.
ClaimFails(p) ==
    /\ pc[p] = "idle"
    /\ p \notin stopped
    /\ MayHappen("db", p)
    /\ \E S \in SUBSET Events :
         S # {} /\ IsBatch(S) /\ orphans' = orphans \cup {Opened(S)}
    /\ UNCHANGED <<row, pc, stopped, batch, seen, session, sent, failed>>

PublishOK(p) ==
    /\ pc[p] = "publish"
    /\ \E e \in batch[p] :
         /\ IsFirst(e, batch[p])
         /\ sent' = [sent EXCEPT ![e] = CountUp(@, SentCap)]
    /\ Goto(p, "mark")
    /\ UNCHANGED <<row, stopped, batch, seen, session, orphans, failed>>

\* An error of the sink does not say that the event was not delivered.
PublishFails(p) ==
    /\ pc[p] = "publish"
    /\ "sink" \in Faults
    /\ \E e \in batch[p] :
         /\ IsFirst(e, batch[p])
         /\ failed' = [failed EXCEPT ![e] = CountUp(@, MaxRetries)]
         /\ \/ UNCHANGED sent
            \/ sent' = [sent EXCEPT ![e] = CountUp(@, SentCap)]
    /\ Goto(p, AfterError)
    /\ UNCHANGED <<row, stopped, batch, seen, session, orphans>>

Mark(p) ==
    /\ pc[p] = "mark"
    /\ session[p].state = "open"
    /\ \E e \in batch[p] :
         /\ IsFirst(e, batch[p])
         /\ session' = [session EXCEPT ![p].wrote[e] = PublishedRow(seen[p][e])]
         /\ Proceed(p, e)
    /\ UNCHANGED <<row, stopped, seen, orphans, sent, failed>>

RecordFailure(p) ==
    /\ pc[p] = "record"
    /\ session[p].state = "open"
    /\ \E e \in batch[p] :
         /\ IsFirst(e, batch[p])
         /\ session' = [session EXCEPT ![p].wrote[e] = FailedRow(seen[p][e])]
         /\ Proceed(p, e)
    /\ UNCHANGED <<row, stopped, seen, orphans, sent, failed>>

\* A statement or the start of COMMIT fails: WithTx rolls the batch back, or
\* finds its connection dead.
BatchFails(p) ==
    /\ pc[p] \in {"mark", "record", "commit"}
    /\ StatementMayFail(p)
    /\ Leave(p, "idle")
    /\ UNCHANGED orphans \/ LeaveBehind(p)
    /\ UNCHANGED <<row, stopped, sent, failed>>

SendCommit(p) ==
    /\ pc[p] = "commit"
    /\ session[p].state = "open"
    /\ p \notin stopped
    /\ session' = [session EXCEPT ![p].state = "committing"]
    /\ Goto(p, "await")
    /\ UNCHANGED <<row, stopped, batch, seen, orphans, sent, failed>>

CommitReturns(p) ==
    /\ pc[p] = "await"
    /\ session[p].state = "committed"
    /\ Leave(p, "idle")
    /\ UNCHANGED <<row, stopped, orphans, sent, failed>>

\* COMMIT returns an error; it may take effect all the same.
CommitFails(p) ==
    /\ pc[p] = "await"
    /\ StatementMayFail(p)
    /\ Leave(p, "idle")
    /\ LeaveBehind(p)
    /\ UNCHANGED <<row, stopped, sent, failed>>

\* Run returns nil between two batches.
Return(p) ==
    /\ pc[p] = "idle"
    /\ p \in stopped
    /\ Goto(p, "returned")
    /\ UNCHANGED <<row, stopped, batch, seen, session, orphans, sent, failed>>

-----------------------------------------------------------------------------
(* PostgreSQL, as the code relies on it *)

CommitApplies(p) ==
    /\ session[p].state = "committing"
    /\ row' = After(session[p].wrote)
    /\ session' = [session EXCEPT ![p] = [NoSession EXCEPT !.state = "committed"]]
    /\ UNCHANGED <<pc, stopped, batch, seen, orphans, sent, failed>>

\* The session ends, and its locks with it; p learns of it at its next call.
SessionEnds(p) ==
    /\ MayHappen("db", p)
    /\ session[p].state \in {"open", "committing"}
    /\ session' = [session EXCEPT ![p] = [NoSession EXCEPT !.state = "lost"]]
    /\ UNCHANGED <<row, pc, stopped, batch, seen, orphans, sent, failed>>

OrphanCommits(o) ==
    /\ o.state = "committing"
    /\ row' = After(o.wrote)
    /\ orphans' = orphans \ {o}
    /\ UNCHANGED <<pc, stopped, batch, seen, session, sent, failed>>

OrphanEnds(o) ==
    /\ orphans' = orphans \ {o}
    /\ UNCHANGED <<row, pc, stopped, batch, seen, session, sent, failed>>

-----------------------------------------------------------------------------
(* What happens to the process *)

Stop(p) ==
    /\ MayHappen("stop", p)
    /\ pc[p] \notin {"returned", "dead"}
    /\ p \notin stopped
    /\ stopped' = stopped \cup {p}
    /\ UNCHANGED <<row, pc, batch, seen, session, orphans, sent, failed>>

Crash(p) ==
    /\ MayHappen("crash", p)
    /\ pc[p] \notin {"returned", "dead"}
    /\ Leave(p, "dead")
    /\ LeaveBehind(p)
    /\ UNCHANGED <<row, stopped, sent, failed>>

\* A new process takes the place of one that returned or crashed.
Restart(p) ==
    /\ pc[p] \in {"returned", "dead"}
    /\ Goto(p, "idle")
    /\ stopped' = stopped \ {p}
    /\ UNCHANGED <<row, batch, seen, session, orphans, sent, failed>>

-----------------------------------------------------------------------------
(* The specification *)

Drain(p) ==
    \/ Claim(p) \/ PublishOK(p) \/ PublishFails(p) \/ Mark(p) \/ RecordFailure(p)
    \/ SendCommit(p) \/ CommitReturns(p) \/ Return(p)

Mishap(p) ==
    \/ ClaimFails(p) \/ BatchFails(p) \/ CommitFails(p) \/ SessionEnds(p)
    \/ Stop(p) \/ Crash(p) \/ Restart(p)

Orphan(o) == OrphanCommits(o) \/ OrphanEnds(o)

\* All events are settled and all publishers wait for a tick or have ended.
Quiet ==
    /\ \A e \in Events : row[e].status \in Settled
    /\ orphans = {}
    /\ \A p \in Publishers : pc[p] \in {"idle", "returned", "dead"}
    /\ UNCHANGED vars

Next ==
    \/ \E e \in Events : Append(e) \/ Elapse(e)
    \/ \E p \in Publishers : Drain(p) \/ Mishap(p) \/ CommitApplies(p)
    \/ \E o \in orphans : Orphan(o)
    \/ Quiet

Spec == Init /\ [][Next]_vars

\* Reliable publishers keep ticking and their sink keeps answering, time
\* passes, and the server resolves every COMMIT and every dead connection.
\* Nothing is assumed of the other publishers: they may hang at any point.
Fairness ==
    /\ \A p \in Reliable : WF_vars(Drain(p))
    /\ \A p \in Publishers : WF_vars(CommitApplies(p))
    /\ \A e \in Events : WF_vars(Elapse(e))
    /\ \A e \in Events : WF_vars(\E o \in orphans : e \in o.held /\ Orphan(o))

FairSpec == Spec /\ Fairness

-----------------------------------------------------------------------------
(* Properties *)

\* drainBatch records an answer of the sink in the transaction that claimed
\* the event: across rollbacks, late commits, lost sessions and restarts, no
\* event is marked published unless the sink took it.
PublishedWasDelivered ==
    \A e \in Events : row[e].status = "published" => sent[e] >= 1

\* recordFailure: an event is given up only after MaxRetries calls of Publish
\* really failed for it.  Attempts whose batch was rolled back are not counted,
\* so a retry count may lag behind, and never runs ahead.
RetriesAreReal ==
    \A e \in Events : /\ row[e].retries <= failed[e]
                      /\ row[e].status = "dead_lettered" => failed[e] = MaxRetries

\* An event that was published or given up is never claimed, rewritten or
\* retried again, not even by a COMMIT that its publisher gave up on.
SettledIsFinal ==
    [][\A e \in Events : row[e].status \in Settled => row'[e] = row[e]]_vars

\* "A claimed row was published twice" (publisher_test.go): several publishers
\* take an event from each other only when the sink refused it, so with a
\* healthy database each duplicate delivery follows a failed Publish.
DuplicatesExplained ==
    \A e \in Events : sent[e] <= 1 + failed[e]

\* SKIP LOCKED lets the others go on: whatever a publisher that hangs, crashes
\* or is stopped has locked, every other event is settled.  Only an event that
\* such a publisher keeps locking, with a session that it loses each time, may
\* be missed for ever by the others.
HeldByUnreliable(e) == \E p \in Publishers \ Reliable : e \in session[p].held

LeftLocked(e) == \E o \in orphans : e \in o.held

EventsSettle ==
    \A e \in Events :
        \/ row[e].status \in Claimable ~> row[e].status \in Settled \/ HeldByUnreliable(e)
        \/ []<><<~LeftLocked(e) /\ LeftLocked(e)'>>_vars

\* Append, "they commit with the state change that produced them or not at
\* all", and the publish loop together promise at-least-once delivery.
State == [e \in Events |->
            IF row[e].status \in Claimable THEN "waiting" ELSE row[e].status]
Got == {e \in Events : sent[e] > 0}

Abstract == INSTANCE AtLeastOnce WITH state <- State, got <- Got

ImplementsAtLeastOnce == Abstract!Spec

=============================================================================
