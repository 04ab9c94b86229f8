---------------------------- MODULE OutboxProofs ----------------------------
(***************************************************************************)
(* Theorems about Outbox, for every number of publishers and events, every *)
(* batch size and retry limit, and every set of faults.                    *)
(***************************************************************************)
EXTENDS OutboxInvariants, TLAPS

\* The events of a batch are eligible, whatever its size.
LEMMA BatchIsEligible ==
    ASSUME NEW S \in SUBSET Events, IsBatch(S)
    PROVE  \A e \in S : Eligible(e)
  BY DEF IsBatch

\* A row that is eligible is in no session.
LEMMA EligibleIsFree ==
    ASSUME NEW e \in Events, Eligible(e)
    PROVE  /\ row[e].status \in Claimable
           /\ \A p \in Publishers : e \notin session[p].held
           /\ \A o \in orphans : e \notin o.held
  BY DEF Eligible, Locked, Sessions

\* Empty sessions hold nothing and have written nothing.
LEMMA NoSessionIsEmpty ==
    /\ NoWrites \in [Events -> Row]
    /\ \A e \in Events : NoWrites[e].status = "none"
    /\ NoSession \in Session
    /\ NoSession.held = {} /\ NoSession.wrote = NoWrites /\ NoSession.state = "none"
    /\ SessionSound(NoSession)
<1>1. Unwritten \in Row
  BY LimitsAssumption DEF Unwritten, Row
<1>2. NoWrites \in [Events -> Row] /\ \A e \in Events : NoWrites[e].status = "none"
  BY <1>1 DEF NoWrites, Unwritten
<1>3. NoSession \in Session
  BY <1>2 DEF NoSession, Session
<1>4. NoSession.held = {} /\ NoSession.wrote = NoWrites /\ NoSession.state = "none"
  BY DEF NoSession
<1> QED
  BY <1>2, <1>3, <1>4 DEF SessionSound

\* The initial state satisfies the invariant: nothing has been appended.
LEMMA InitOutbox == Init => OutboxInv
<1> SUFFICES ASSUME Init PROVE OutboxInv
  OBVIOUS
<1> USE DEF Init
<1>1. Unwritten \in Row
  BY LimitsAssumption DEF Unwritten, Row
<1>2. TypeOK
  BY <1>1, NoSessionIsEmpty, LimitsAssumption DEF TypeOK, PC
<1>3. LocksApart
  BY NoSessionIsEmpty DEF LocksApart
<1>4. SessionsSound
  BY NoSessionIsEmpty DEF SessionsSound
<1>5. BatchSound
  BY DEF BatchSound
<1>6. RowsBacked
  BY LimitsAssumption DEF RowsBacked, Unwritten, Settled
<1> QED
  BY <1>2, <1>3, <1>4, <1>5, <1>6 DEF OutboxInv

-----------------------------------------------------------------------------
(* The service's side *)

\* Appending an event disturbs no session: nobody can hold a row that is new.
LEMMA AppendStep ==
    ASSUME OutboxInv, NEW e \in Events, Append(e)
    PROVE  OutboxInv'
<1> USE DEF OutboxInv, Append
<1> DEFINE new == [status |-> "pending", retries |-> 0, due |-> TRUE]
<1>1. new \in Row
  BY LimitsAssumption DEF Row, Claimable
<1>2. /\ row \in [Events -> Row]
      /\ row' = [row EXCEPT ![e] = new]
      /\ row'[e] = new
      /\ \A f \in Events : f # e => row'[f] = row[f]
  BY DEF TypeOK
<1>3. TypeOK'
  BY <1>1, <1>2 DEF TypeOK
<1>4. LocksApart'
  BY DEF LocksApart
<1>5. \A s \in Session : SessionSound(s) => SessionSound(s)'
  BY <1>2 DEF SessionSound, Backed, Claimable, Session
<1>6. SessionsSound'
  BY <1>5 DEF SessionsSound, TypeOK
<1>7. BatchSound'
  BY <1>2 DEF BatchSound, InHand, TypeOK, IsFirst
<1>8. RowsBacked'
  BY <1>2, LimitsAssumption DEF RowsBacked, TypeOK, Settled
<1> QED
  BY <1>3, <1>4, <1>6, <1>7, <1>8

\* Time passing changes neither the status nor the retries of a row.
LEMMA ElapseStep ==
    ASSUME OutboxInv, NEW e \in Events, Elapse(e)
    PROVE  OutboxInv'
<1> USE DEF OutboxInv, Elapse
<1>1. /\ row \in [Events -> Row]
      /\ row' \in [Events -> Row]
      /\ \A f \in Events : row'[f].status = row[f].status /\ row'[f].retries = row[f].retries
  BY DEF TypeOK, Row
<1>2. TypeOK'
  BY <1>1 DEF TypeOK
<1>3. LocksApart'
  BY DEF LocksApart
<1>4. \A s \in Session : SessionSound(s) => SessionSound(s)'
  BY <1>1 DEF SessionSound, Backed, Session
<1>5. SessionsSound'
  BY <1>4 DEF SessionsSound, TypeOK
<1>6. BatchSound'
  BY <1>1 DEF BatchSound, InHand, TypeOK, IsFirst
<1>7. RowsBacked'
  BY <1>1 DEF RowsBacked
<1> QED
  BY <1>2, <1>3, <1>5, <1>6, <1>7

-----------------------------------------------------------------------------
(* A batch *)

\* A fresh session on eligible rows is sound and apart from all others.
LEMMA OpenedIsSound ==
    ASSUME OutboxInv, NEW S \in SUBSET Events, IsBatch(S)
    PROVE  /\ Opened(S) \in Session
           /\ SessionSound(Opened(S))
           /\ \A p \in Publishers : session[p].held \cap Opened(S).held = {}
           /\ \A o \in orphans : o.held \cap Opened(S).held = {}
           /\ Opened(S).held = S /\ Opened(S).state = "open" /\ Opened(S).wrote = NoWrites
<1>1. Opened(S).held = S /\ Opened(S).state = "open" /\ Opened(S).wrote = NoWrites
  BY DEF Opened
<1>2. Opened(S) \in Session
  BY NoSessionIsEmpty DEF Opened, Session
<1>3. \A e \in S : Eligible(e)
  BY BatchIsEligible
<1>4. SessionSound(Opened(S))
  BY <1>1, <1>3, NoSessionIsEmpty DEF SessionSound, Eligible
<1>5. \A p \in Publishers : session[p].held \cap S = {}
  BY <1>3, EligibleIsFree
<1>6. \A o \in orphans : o.held \cap S = {}
  BY <1>3, EligibleIsFree
<1> QED
  BY <1>1, <1>2, <1>4, <1>5, <1>6

\* Claiming a batch locks rows that nobody holds, and reads their retries.
LEMMA ClaimStep ==
    ASSUME OutboxInv, NEW p \in Publishers, Claim(p)
    PROVE  OutboxInv'
<1> USE DEF OutboxInv
<1>1. PICK S \in SUBSET Events :
        /\ IsBatch(S)
        /\ batch' = [batch EXCEPT ![p] = S]
        /\ seen' = [seen EXCEPT ![p] =
                      [e \in Events |-> IF e \in S THEN row[e].retries ELSE 0]]
        /\ session' = [session EXCEPT ![p] = Opened(S)]
  BY DEF Claim
<1>2. /\ pc' = [pc EXCEPT ![p] = "publish"]
      /\ UNCHANGED <<row, stopped, orphans, sent, failed>>
  BY DEF Claim, Goto
<1>3. /\ session'[p] = Opened(S)
      /\ \A q \in Publishers : q # p => session'[q] = session[q]
  BY <1>1 DEF TypeOK
<1>4. /\ batch'[p] = S /\ pc'[p] = "publish"
      /\ \A e \in S : seen'[p][e] = row[e].retries
      /\ \A q \in Publishers : q # p =>
           batch'[q] = batch[q] /\ pc'[q] = pc[q] /\ seen'[q] = seen[q]
  BY <1>1, <1>2 DEF TypeOK
<1>5. [e \in Events |-> IF e \in S THEN row[e].retries ELSE 0]
        \in [Events -> 0 .. MaxRetries]
  BY LimitsAssumption DEF TypeOK, Row
<1>6. TypeOK'
  <2>1. session' \in [Publishers -> Session]
    BY <1>1, OpenedIsSound DEF TypeOK
  <2>2. seen' \in [Publishers -> [Events -> 0 .. MaxRetries]]
    BY <1>1, <1>5 DEF TypeOK
  <2>3. batch' \in [Publishers -> SUBSET Events] /\ pc' \in [Publishers -> PC]
    BY <1>1, <1>2 DEF TypeOK, PC
  <2> QED
    BY <1>2, <2>1, <2>2, <2>3 DEF TypeOK
<1>7. LocksApart'
  BY <1>1, <1>2, <1>3, OpenedIsSound DEF LocksApart
<1>8. SessionsSound'
  BY <1>1, <1>2, <1>3, OpenedIsSound DEF SessionsSound, SessionSound, Backed
<1>9. BatchSound'
  <2>1. \A e \in S : row[e].status # "none"
    BY <1>1, OpenedIsSound DEF SessionSound, Claimable
  <2>2. \A e \in S : InHand(p, e)'
    BY <1>1, <1>2, <1>3, <1>4, <2>1, OpenedIsSound DEF InHand
  <2>3. ASSUME NEW q \in Publishers, q # p, NEW e \in batch[q]
        PROVE  InHand(q, e)'
    BY <1>2, <1>3, <1>4, <2>3 DEF BatchSound, InHand, IsFirst
  <2> QED
    BY <1>4, <2>2, <2>3 DEF BatchSound
<1>10. RowsBacked'
  BY <1>2 DEF RowsBacked
<1> QED
  BY <1>6, <1>7, <1>8, <1>9, <1>10

\* A claim that fails may leave its locks on the server.
LEMMA ClaimFailsStep ==
    ASSUME OutboxInv, NEW p \in Publishers, ClaimFails(p)
    PROVE  OutboxInv'
<1> USE DEF OutboxInv
<1>1. PICK S \in SUBSET Events : IsBatch(S) /\ orphans' = orphans \cup {Opened(S)}
  BY DEF ClaimFails
<1>2. UNCHANGED <<row, pc, stopped, batch, seen, session, sent, failed>>
  BY DEF ClaimFails
<1>3. TypeOK'
  BY <1>1, <1>2, OpenedIsSound DEF TypeOK
<1>4. LocksApart'
  BY <1>1, <1>2, OpenedIsSound DEF LocksApart
<1>5. SessionsSound'
  BY <1>1, <1>2, OpenedIsSound DEF SessionsSound, SessionSound, Backed
<1>6. BatchSound'
  BY <1>2 DEF BatchSound, InHand, IsFirst
<1>7. RowsBacked'
  BY <1>2 DEF RowsBacked
<1> QED
  BY <1>3, <1>4, <1>5, <1>6, <1>7

\* What the sink has done is never undone: more deliveries and more failures
\* leave every session and every row backed.
LEMMA SinkGrows ==
    ASSUME OutboxInv,
           UNCHANGED <<row, stopped, batch, seen, session, orphans>>,
           sent' \in [Events -> 0 .. SentCap],
           failed' \in [Events -> 0 .. MaxRetries],
           \A e \in Events : sent'[e] >= sent[e] /\ failed'[e] >= failed[e]
    PROVE  LocksApart' /\ SessionsSound' /\ RowsBacked'
<1> USE DEF OutboxInv
<1>0. \A e \in Events : /\ sent[e] \in Nat /\ sent'[e] \in Nat
                         /\ failed[e] \in Nat /\ failed'[e] \in Nat
                         /\ failed'[e] <= MaxRetries
                         /\ row[e].retries \in Nat
  BY LimitsAssumption DEF TypeOK, Row
<1>1. LocksApart'
  BY DEF LocksApart
<1>2. ASSUME NEW s \in Session, SessionSound(s) PROVE SessionSound(s)'
  <2>1. SUFFICES ASSUME NEW e \in Events, Backed(e, s.wrote[e])
                 PROVE  Backed(e, s.wrote[e])'
    BY <1>2 DEF SessionSound
  <2>2. s.wrote[e].retries \in Nat
    BY LimitsAssumption DEF Session, Row
  <2> QED
    BY <1>0, <2>1, <2>2, LimitsAssumption DEF Backed
<1>3. SessionsSound'
  BY <1>2 DEF SessionsSound, TypeOK
<1>4. RowsBacked'
  BY <1>0, LimitsAssumption DEF RowsBacked
<1> QED
  BY <1>1, <1>3, <1>4

\* CountUp counts, up to its bound.
LEMMA CountUpGrows ==
    ASSUME NEW cap \in Nat \ {0}, NEW n \in 0 .. cap
    PROVE  /\ CountUp(n, cap) \in 0 .. cap
           /\ CountUp(n, cap) >= n
           /\ CountUp(n, cap) >= 1
           /\ \A m \in Nat : m <= n /\ m < cap => m < CountUp(n, cap)
  BY DEF CountUp

\* Raising one counter leaves the others alone.
LEMMA CountersGrow ==
    ASSUME NEW cap \in Nat \ {0}, NEW c \in [Events -> 0 .. cap], NEW e \in Events,
           NEW d, d = [c EXCEPT ![e] = CountUp(@, cap)]
    PROVE  /\ d \in [Events -> 0 .. cap]
           /\ d[e] >= 1
           /\ \A f \in Events : d[f] >= c[f]
           /\ \A m \in Nat : m <= c[e] /\ m < cap => m < d[e]
<1>1. d = [c EXCEPT ![e] = CountUp(c[e], cap)]
  OBVIOUS
<1>2. d[e] = CountUp(c[e], cap) /\ \A f \in Events : f # e => d[f] = c[f]
  BY <1>1
<1>3. c[e] \in 0 .. cap
  OBVIOUS
<1>4. /\ d[e] \in 0 .. cap /\ d[e] >= c[e] /\ d[e] >= 1
      /\ \A m \in Nat : m <= c[e] /\ m < cap => m < d[e]
  BY <1>2, <1>3, CountUpGrows
<1>5. \A f \in Events : c[f] \in 0 .. cap /\ c[f] >= c[f]
  OBVIOUS
<1> QED
  BY <1>1, <1>2, <1>4, <1>5

\* A batch has one first event.
LEMMA FirstIsUnique ==
    ASSUME NEW S \in SUBSET Events, NEW e, NEW f, IsFirst(e, S), IsFirst(f, S)
    PROVE  e = f
  BY EventsAssumption DEF IsFirst

\* After a successful Publish, the event in hand has been delivered.
LEMMA PublishOKStep ==
    ASSUME OutboxInv, NEW p \in Publishers, PublishOK(p)
    PROVE  OutboxInv'
<1> USE DEF OutboxInv
<1>1. PICK e \in batch[p] :
        IsFirst(e, batch[p]) /\ sent' = [sent EXCEPT ![e] = CountUp(@, SentCap)]
  BY DEF PublishOK
<1>2. /\ pc' = [pc EXCEPT ![p] = "mark"]
      /\ UNCHANGED <<row, stopped, batch, seen, session, orphans, failed>>
  BY DEF PublishOK, Goto
<1>3. e \in Events /\ sent[e] \in 0 .. SentCap /\ batch[p] \subseteq Events
  BY DEF TypeOK
<1>4. /\ sent' \in [Events -> 0 .. SentCap]
      /\ sent'[e] >= 1
      /\ \A f \in Events : sent'[f] >= sent[f]
  BY <1>1, <1>3, CountersGrow, LimitsAssumption DEF TypeOK
<1>5. TypeOK'
  BY <1>2, <1>4 DEF TypeOK, PC
<1>6. LocksApart' /\ SessionsSound' /\ RowsBacked'
  <2>1. \A f \in Events : failed'[f] >= failed[f]
    BY <1>2 DEF TypeOK
  <2>2. failed' \in [Events -> 0 .. MaxRetries]
    BY <1>2 DEF TypeOK
  <2> QED
    BY <1>2, <1>4, <2>1, <2>2, SinkGrows
<1>7. BatchSound'
  <2>1. ASSUME NEW f \in batch[p] PROVE InHand(p, f)'
    <3>1. IsFirst(f, batch[p]) => f = e
      BY <1>1, <1>3, FirstIsUnique
    <3> QED
      BY <1>2, <1>4, <2>1, <3>1 DEF BatchSound, InHand, IsFirst, TypeOK
  <2>2. ASSUME NEW q \in Publishers, q # p, NEW f \in batch[q]
        PROVE  InHand(q, f)'
    <3>1. f \in Events /\ sent[f] \in Nat /\ sent'[f] \in Nat /\ sent'[f] >= sent[f]
      BY <1>4, LimitsAssumption DEF TypeOK
    <3>2. pc'[q] = pc[q] /\ InHand(q, f)
      BY <1>2, <2>2 DEF TypeOK, BatchSound
    <3> QED
      BY <1>2, <3>1, <3>2 DEF InHand, IsFirst
  <2> QED
    BY <1>2, <2>1, <2>2 DEF BatchSound
<1> QED
  BY <1>5, <1>6, <1>7

\* After a failed Publish, the failures of the event in hand are ahead of the
\* retry count that was read.
LEMMA PublishFailsStep ==
    ASSUME OutboxInv, NEW p \in Publishers, PublishFails(p)
    PROVE  OutboxInv'
<1> USE DEF OutboxInv
<1>1. PICK e \in batch[p] :
        /\ IsFirst(e, batch[p])
        /\ failed' = [failed EXCEPT ![e] = CountUp(@, MaxRetries)]
        /\ \/ UNCHANGED sent
           \/ sent' = [sent EXCEPT ![e] = CountUp(@, SentCap)]
  BY DEF PublishFails
<1>2. /\ pc' = [pc EXCEPT ![p] = "record"]
      /\ UNCHANGED <<row, stopped, batch, seen, session, orphans>>
  BY DEF PublishFails, Goto, AfterError
<1>3. /\ e \in Events /\ batch[p] \subseteq Events
      /\ sent[e] \in 0 .. SentCap /\ failed[e] \in 0 .. MaxRetries
  BY DEF TypeOK
<1>4. /\ sent' \in [Events -> 0 .. SentCap]
      /\ \A f \in Events : sent'[f] >= sent[f]
  <2>1. CASE UNCHANGED sent
    BY <2>1, LimitsAssumption DEF TypeOK
  <2>2. CASE sent' = [sent EXCEPT ![e] = CountUp(@, SentCap)]
    BY <1>3, <2>2, CountersGrow, LimitsAssumption DEF TypeOK
  <2> QED
    BY <1>1, <2>1, <2>2
<1>5. /\ failed' \in [Events -> 0 .. MaxRetries]
      /\ \A f \in Events : failed'[f] >= failed[f]
      /\ \A m \in Nat : m <= failed[e] /\ m < MaxRetries => m < failed'[e]
  BY <1>1, <1>3, CountersGrow, LimitsAssumption DEF TypeOK
<1>6. TypeOK'
  BY <1>2, <1>4, <1>5 DEF TypeOK, PC
<1>7. LocksApart' /\ SessionsSound' /\ RowsBacked'
  BY <1>2, <1>4, <1>5, SinkGrows
<1>8. BatchSound'
  <2>1. ASSUME NEW f \in batch[p] PROVE InHand(p, f)'
    <3>1. IsFirst(f, batch[p]) => f = e
      BY <1>1, <1>3, FirstIsUnique
    <3>2. InHand(p, f)
      BY DEF BatchSound
    <3>3. pc'[p] = "record"
      BY <1>2 DEF TypeOK
    <3>4. ASSUME session[p].state = "open", f = e PROVE seen[p][f] < failed'[f]
      <4>1. row[e].status \in Claimable /\ seen[p][e] = row[e].retries
        BY <3>2, <3>4 DEF InHand, SessionsSound, SessionSound
      <4>2. row[e].retries \in Nat /\ row[e].retries <= failed[e]
        BY <1>3, LimitsAssumption DEF RowsBacked, TypeOK, Row
      <4>3. row[e].retries < MaxRetries
        BY <1>3, <4>1 DEF RowsBacked, Claimable, Settled
      <4> QED
        BY <1>5, <3>4, <4>1, <4>2, <4>3
    <3> QED
      BY <1>2, <3>1, <3>2, <3>3, <3>4 DEF InHand, IsFirst
  <2>2. ASSUME NEW q \in Publishers, q # p, NEW f \in batch[q]
        PROVE  InHand(q, f)'
    <3>1. /\ f \in Events
          /\ sent[f] \in Nat /\ sent'[f] \in Nat /\ sent'[f] >= sent[f]
          /\ failed[f] \in Nat /\ failed'[f] \in Nat /\ failed'[f] >= failed[f]
          /\ seen[q][f] \in Nat
      BY <1>4, <1>5, LimitsAssumption DEF TypeOK
    <3>2. pc'[q] = pc[q] /\ InHand(q, f)
      BY <1>2, <2>2 DEF TypeOK, BatchSound
    <3> QED
      BY <1>2, <3>1, <3>2 DEF InHand, IsFirst
  <2> QED
    BY <1>2, <2>1, <2>2 DEF BatchSound
<1> QED
  BY <1>6, <1>7, <1>8

\* Recording the outcome of the event in hand: the session writes a row it
\* holds, with what the sink has done to back it, and the batch goes on.
LEMMA WriteStep ==
    ASSUME OutboxInv, NEW p \in Publishers, NEW e \in batch[p], NEW w \in Row,
           session[p].state = "open",
           Backed(e, w),
           session' = [session EXCEPT ![p].wrote[e] = w],
           Proceed(p, e),
           UNCHANGED <<row, stopped, seen, orphans, sent, failed>>
    PROVE  OutboxInv'
<1> USE DEF OutboxInv
<1>1. e \in Events /\ session[p] \in Session /\ batch[p] \subseteq Events
  BY DEF TypeOK
<1>2. e \in session[p].held
  BY DEF BatchSound, InHand
<1>3. /\ session'[p] = [session[p] EXCEPT !.wrote[e] = w]
      /\ \A q \in Publishers : q # p => session'[q] = session[q]
  BY DEF TypeOK
<1>4. /\ session'[p] \in Session
      /\ session'[p].held = session[p].held
      /\ session'[p].state = session[p].state
      /\ session'[p].wrote = [session[p].wrote EXCEPT ![e] = w]
  BY <1>1, <1>3 DEF Session
<1>5. \A q \in Publishers : /\ session'[q].held = session[q].held
                            /\ session'[q].state = session[q].state
  BY <1>3, <1>4
<1>6. /\ batch'[p] = batch[p] \ {e}
      /\ pc'[p] \in {"commit", "publish"}
      /\ \A q \in Publishers : q # p => batch'[q] = batch[q] /\ pc'[q] = pc[q]
  BY DEF Proceed, Goto, TypeOK
<1>7. TypeOK'
  <2>1. session' \in [Publishers -> Session]
    <3>1. session' = [q \in Publishers |-> session'[q]]
      BY DEF TypeOK
    <3>2. \A q \in Publishers : session'[q] \in Session
      BY <1>3, <1>4 DEF TypeOK
    <3> QED
      BY <3>1, <3>2
  <2>2. batch' \in [Publishers -> SUBSET Events] /\ pc' \in [Publishers -> PC]
    BY DEF Proceed, Goto, TypeOK, PC
  <2> QED
    BY <2>1, <2>2 DEF TypeOK
<1>8. LocksApart'
  BY <1>5 DEF LocksApart
<1>9. SessionsSound'
  <2>1. \A f \in Events : session'[p].wrote[f] =
                            IF f = e THEN w ELSE session[p].wrote[f]
    BY <1>1, <1>4 DEF Session
  <2>2. SessionSound(session[p])' <=> SessionSound(session'[p])
    BY DEF SessionSound, Backed
  <2>3. SessionSound(session'[p])
    BY <1>2, <1>4, <2>1 DEF SessionsSound, SessionSound
  <2>4. \A q \in Publishers : q # p => SessionSound(session[q])'
    BY <1>3 DEF SessionsSound, SessionSound, Backed
  <2>5. \A o \in orphans' : SessionSound(o)'
    BY DEF SessionsSound, SessionSound, Backed
  <2> QED
    BY <2>2, <2>3, <2>4, <2>5 DEF SessionsSound
<1>10. BatchSound'
  BY <1>5, <1>6 DEF BatchSound, InHand, IsFirst
<1>11. RowsBacked'
  BY DEF RowsBacked
<1> QED
  BY <1>7, <1>8, <1>9, <1>10, <1>11

\* Mark writes "published" for an event that the sink took.
LEMMA MarkStep ==
    ASSUME OutboxInv, NEW p \in Publishers, Mark(p)
    PROVE  OutboxInv'
<1> USE DEF OutboxInv
<1>1. PICK e \in batch[p] :
        /\ IsFirst(e, batch[p])
        /\ session' = [session EXCEPT ![p].wrote[e] = PublishedRow(seen[p][e])]
        /\ Proceed(p, e)
  BY DEF Mark
<1> DEFINE w == PublishedRow(seen[p][e])
<1>2. InHand(p, e) /\ session[p].state = "open" /\ pc[p] = "mark" /\ e \in Events
  BY DEF BatchSound, Mark, TypeOK
<1>3. sent[e] >= 1 /\ seen[p][e] = row[e].retries /\ row[e].retries <= failed[e]
  BY <1>1, <1>2 DEF InHand, RowsBacked
<1>4. w \in Row
  BY <1>2 DEF PublishedRow, Row, Settled, TypeOK
<1>5. Backed(e, w)
  BY <1>3 DEF Backed, PublishedRow
<1>6. UNCHANGED <<row, stopped, seen, orphans, sent, failed>>
  BY DEF Mark
<1> HIDE DEF w
<1>7. session' = [session EXCEPT ![p].wrote[e] = w]
  BY <1>1 DEF w
<1> QED
  BY <1>1, <1>2, <1>4, <1>5, <1>6, <1>7, WriteStep

\* RecordFailure writes one retry more than the row has, which the sink has
\* refused at least that often.
LEMMA RecordFailureStep ==
    ASSUME OutboxInv, NEW p \in Publishers, RecordFailure(p)
    PROVE  OutboxInv'
<1> USE DEF OutboxInv
<1>1. PICK e \in batch[p] :
        /\ IsFirst(e, batch[p])
        /\ session' = [session EXCEPT ![p].wrote[e] = FailedRow(seen[p][e])]
        /\ Proceed(p, e)
  BY DEF RecordFailure
<1> DEFINE n == seen[p][e]
<1> DEFINE w == FailedRow(n)
<1>2. InHand(p, e) /\ session[p].state = "open" /\ pc[p] = "record" /\ e \in Events
  BY DEF BatchSound, RecordFailure, TypeOK
<1>3. n < failed[e]
  BY <1>1, <1>2 DEF InHand
<1>4. n \in Nat /\ failed[e] \in Nat /\ failed[e] <= MaxRetries /\ MaxRetries \in Nat
  BY <1>2, LimitsAssumption DEF TypeOK
<1> HIDE DEF n
<1>5. w \in Row
  BY <1>3, <1>4 DEF FailedRow, Row, Settled, Claimable
<1>6. Backed(e, w)
  BY <1>3, <1>4 DEF Backed, FailedRow
<1>7. UNCHANGED <<row, stopped, seen, orphans, sent, failed>>
  BY DEF RecordFailure
<1> HIDE DEF w
<1>8. session' = [session EXCEPT ![p].wrote[e] = w]
  BY <1>1 DEF w, n
<1> QED
  BY <1>1, <1>2, <1>5, <1>6, <1>7, <1>8, WriteStep

-----------------------------------------------------------------------------
(* The end of a batch *)

\* However a publisher leaves a batch, its session is dropped or handed to the
\* server as it is.
LEMMA LeaveStep ==
    ASSUME OutboxInv, NEW p \in Publishers, NEW to \in {"idle", "dead"},
           Leave(p, to),
           UNCHANGED orphans \/ LeaveBehind(p),
           UNCHANGED <<row, stopped, sent, failed>>
    PROVE  OutboxInv'
<1> USE DEF OutboxInv
<1>1. /\ session' = [session EXCEPT ![p] = NoSession]
      /\ session'[p] = NoSession
      /\ \A q \in Publishers : q # p => session'[q] = session[q]
  BY DEF Leave, TypeOK
<1>2. \A o \in orphans' : o \in orphans \/ o = session[p]
  BY DEF LeaveBehind
<1>3. /\ batch'[p] = {}
      /\ \A q \in Publishers : q # p =>
           batch'[q] = batch[q] /\ pc'[q] = pc[q] /\ seen'[q] = seen[q]
  BY DEF Leave, Goto, TypeOK
<1>4. TypeOK'
  <2>1. session' \in [Publishers -> Session] /\ orphans' \subseteq Session
    BY <1>1, <1>2, NoSessionIsEmpty DEF TypeOK
  <2>2. seen' \in [Publishers -> [Events -> 0 .. MaxRetries]]
    BY LimitsAssumption DEF Leave, TypeOK
  <2>3. batch' \in [Publishers -> SUBSET Events] /\ pc' \in [Publishers -> PC]
    BY DEF Leave, Goto, TypeOK, PC
  <2> QED
    BY <2>1, <2>2, <2>3 DEF TypeOK
<1>5. LocksApart'
  BY <1>1, <1>2, NoSessionIsEmpty DEF LocksApart
<1>6. SessionsSound'
  BY <1>1, <1>2, NoSessionIsEmpty DEF SessionsSound, SessionSound, Backed
<1>7. BatchSound'
  BY <1>1, <1>3 DEF BatchSound, InHand, IsFirst
<1>8. RowsBacked'
  BY DEF RowsBacked
<1> QED
  BY <1>4, <1>5, <1>6, <1>7, <1>8

\* A change of a session's state that leaves its locks and writes alone, or
\* drops them, together with a move of its publisher out of the loop.
LEMMA SessionStateStep ==
    ASSUME OutboxInv, NEW p \in Publishers, NEW s \in Session,
           session' = [session EXCEPT ![p] = s],
           s.state # "open",
           \/ s.held = session[p].held /\ s.wrote = session[p].wrote
           \/ s.held = {} /\ s.wrote = NoWrites,
           pc' \in [Publishers -> PC],
           \A q \in Publishers : q # p => pc'[q] = pc[q],
           UNCHANGED <<row, stopped, batch, seen, orphans, sent, failed>>
    PROVE  OutboxInv'
<1> USE DEF OutboxInv
<1>1. /\ session'[p] = s
      /\ \A q \in Publishers : q # p => session'[q] = session[q]
      /\ \A q \in Publishers : session'[q].held \subseteq session[q].held
  BY DEF TypeOK
<1>2. TypeOK'
  BY DEF TypeOK
<1>3. LocksApart'
  BY <1>1 DEF LocksApart
<1>4. SessionsSound'
  BY <1>1, NoSessionIsEmpty DEF SessionsSound, SessionSound, Backed
<1>5. BatchSound'
  BY <1>1 DEF BatchSound, InHand, IsFirst
<1>6. RowsBacked'
  BY DEF RowsBacked
<1> QED
  BY <1>2, <1>3, <1>4, <1>5, <1>6

\* Sending COMMIT keeps the locks.
LEMMA SendCommitStep ==
    ASSUME OutboxInv, NEW p \in Publishers, SendCommit(p)
    PROVE  OutboxInv'
<1> DEFINE s == [session[p] EXCEPT !.state = "committing"]
<1>1. s \in Session /\ s.state = "committing"
      /\ s.held = session[p].held /\ s.wrote = session[p].wrote
  BY DEF OutboxInv, TypeOK, Session
<1>2. session' = [session EXCEPT ![p] = s]
  BY DEF SendCommit
<1>3. /\ pc' \in [Publishers -> PC] /\ \A q \in Publishers : q # p => pc'[q] = pc[q]
      /\ UNCHANGED <<row, stopped, batch, seen, orphans, sent, failed>>
  BY DEF SendCommit, Goto, OutboxInv, TypeOK, PC
<1> HIDE DEF s
<1> QED
  BY <1>1, <1>2, <1>3, SessionStateStep

\* A session that ends drops its locks and its writes.
LEMMA SessionEndsStep ==
    ASSUME OutboxInv, NEW p \in Publishers, SessionEnds(p)
    PROVE  OutboxInv'
<1> DEFINE s == [NoSession EXCEPT !.state = "lost"]
<1>1. s \in Session /\ s.state = "lost" /\ s.held = {} /\ s.wrote = NoWrites
  BY NoSessionIsEmpty DEF NoSession, Session
<1>2. session' = [session EXCEPT ![p] = s]
  BY DEF SessionEnds
<1>3. /\ pc' \in [Publishers -> PC] /\ \A q \in Publishers : q # p => pc'[q] = pc[q]
      /\ UNCHANGED <<row, stopped, batch, seen, orphans, sent, failed>>
  BY DEF SessionEnds, OutboxInv, TypeOK
<1> HIDE DEF s
<1> QED
  BY <1>1, <1>2, <1>3, SessionStateStep

\* A publisher that moves between batches, or is asked to stop.
LEMMA OutsideStep ==
    ASSUME OutboxInv, NEW p \in Publishers, Return(p) \/ Stop(p) \/ Restart(p)
    PROVE  OutboxInv'
<1> USE DEF OutboxInv
<1>1. /\ stopped' \subseteq Publishers
      /\ pc' \in [Publishers -> PC]
      /\ \A q \in Publishers : pc'[q] = pc[q] \/ pc'[q] \in {"returned", "idle"}
  BY DEF Return, Stop, Restart, Goto, TypeOK, PC
<1>2. UNCHANGED <<row, batch, seen, session, orphans, sent, failed>>
  BY DEF Return, Stop, Restart
<1>3. TypeOK'
  BY <1>1, <1>2 DEF TypeOK
<1>4. LocksApart'
  BY <1>2 DEF LocksApart
<1>5. SessionsSound'
  BY <1>2 DEF SessionsSound, SessionSound, Backed
<1>6. BatchSound'
  BY <1>1, <1>2 DEF BatchSound, InHand, IsFirst
<1>7. RowsBacked'
  BY <1>2 DEF RowsBacked
<1> QED
  BY <1>3, <1>4, <1>5, <1>6, <1>7

-----------------------------------------------------------------------------
(* A commit takes effect *)

\* What a sound session commits: rows that stay backed, and nothing outside
\* of what it holds.
LEMMA AfterCommit ==
    ASSUME OutboxInv, NEW s \in Session, SessionSound(s),
           row' = After(s.wrote),
           UNCHANGED <<sent, failed>>
    PROVE  /\ row' \in [Events -> Row]
           /\ RowsBacked'
           /\ \A e \in Events : e \notin s.held => row'[e] = row[e]
           /\ \A e \in Events : row[e].status # "none" => row'[e].status # "none"
           /\ \A e \in Events : row[e].status \in Settled => row'[e] = row[e]
<1> USE DEF OutboxInv
<1>1. /\ row \in [Events -> Row] /\ s.wrote \in [Events -> Row]
      /\ \A e \in Events : row'[e] = IF s.wrote[e].status = "none"
                                       THEN row[e] ELSE s.wrote[e]
  BY DEF TypeOK, Session, After
<1>2. row' \in [Events -> Row]
  BY <1>1 DEF After
<1>3. \A e \in Events : e \notin s.held => row'[e] = row[e]
  BY <1>1 DEF SessionSound
<1>4. RowsBacked'
  <2>1. SUFFICES ASSUME NEW e \in Events, s.wrote[e].status # "none"
                 PROVE  /\ row'[e].retries <= failed[e]
                        /\ row'[e].status \notin Settled => row'[e].retries < MaxRetries
                        /\ row'[e].status = "published" => sent[e] >= 1
                        /\ row'[e].status = "dead_lettered" => failed[e] = MaxRetries
    BY <1>1 DEF RowsBacked
  <2>2. row'[e] = s.wrote[e] /\ Backed(e, s.wrote[e])
    BY <1>1, <2>1 DEF SessionSound
  <2> QED
    BY <2>2 DEF Backed, Settled
<1>5. \A e \in Events : row[e].status \in Settled => row'[e] = row[e]
  BY <1>3 DEF SessionSound, Settled, Claimable
<1> QED
  BY <1>1, <1>2, <1>3, <1>4, <1>5

\* A session that holds none of the rows that are committed stays sound.
LEMMA OthersStaySound ==
    ASSUME OutboxInv, NEW s \in Session, SessionSound(s),
           row' = After(s.wrote),
           UNCHANGED <<sent, failed>>,
           NEW t \in Session, SessionSound(t), t.held \cap s.held = {}
    PROVE  SessionSound(t)'
<1>1. \A e \in t.held : row'[e] = row[e]
  BY AfterCommit DEF Session
<1> QED
  BY <1>1 DEF SessionSound, Backed

\* A COMMIT whose publisher waits for it.
LEMMA CommitAppliesStep ==
    ASSUME OutboxInv, NEW p \in Publishers, CommitApplies(p)
    PROVE  OutboxInv'
<1> USE DEF OutboxInv
<1> DEFINE s == session[p]
           done == [NoSession EXCEPT !.state = "committed"]
<1>1. /\ row' = After(s.wrote) /\ s.state = "committing"
      /\ session' = [session EXCEPT ![p] = done]
      /\ UNCHANGED <<pc, stopped, batch, seen, orphans, sent, failed>>
  BY DEF CommitApplies
<1>2. s \in Session /\ SessionSound(s)
  BY DEF TypeOK, SessionsSound
<1>3. done \in Session /\ done.held = {} /\ done.wrote = NoWrites /\ done.state = "committed"
  BY NoSessionIsEmpty DEF NoSession, Session
<1>4. session'[p] = done /\ \A q \in Publishers : q # p => session'[q] = session[q]
  BY <1>1 DEF TypeOK
<1> HIDE DEF done
<1>5. TypeOK'
  BY <1>1, <1>2, <1>3, AfterCommit DEF TypeOK
<1>6. LocksApart'
  BY <1>1, <1>3, <1>4 DEF LocksApart
<1>7. SessionsSound'
  <2>1. SessionSound(session[p])'
    BY <1>3, <1>4, NoSessionIsEmpty DEF SessionSound
  <2>2. ASSUME NEW q \in Publishers, q # p PROVE SessionSound(session[q])'
    <3>1. /\ session[q] \in Session /\ SessionSound(session[q])
          /\ session[q].held \cap s.held = {}
      BY <2>2 DEF TypeOK, SessionsSound, LocksApart
    <3>2. ASSUME NEW t \in Session, t = session[q] PROVE SessionSound(t)'
      BY <1>1, <1>2, <3>1, <3>2, OthersStaySound
    <3>3. session'[q] = session[q]
      BY <1>4, <2>2
    <3> QED
      BY <3>1, <3>2, <3>3 DEF SessionSound, Backed
  <2>3. ASSUME NEW o \in orphans PROVE SessionSound(o)'
    <3>1. o \in Session /\ SessionSound(o) /\ o.held \cap s.held = {}
      BY DEF TypeOK, SessionsSound, LocksApart
    <3> QED
      BY <1>1, <1>2, <3>1, OthersStaySound
  <2> QED
    BY <1>1, <2>1, <2>2, <2>3 DEF SessionsSound
<1>8. BatchSound'
  <2>1. SUFFICES ASSUME NEW q \in Publishers, NEW e \in batch[q] PROVE InHand(q, e)'
    BY <1>1 DEF BatchSound
  <2>2. e \in Events /\ InHand(q, e)
    BY DEF TypeOK, BatchSound
  <2>3. row'[e].status # "none"
    BY <1>1, <1>2, <2>2, AfterCommit DEF InHand
  <2>4. ASSUME session'[q].state = "open" PROVE row'[e] = row[e] /\ session'[q] = session[q]
    <3>1. q # p /\ session'[q] = session[q]
      BY <1>3, <1>4, <2>4
    <3>2. e \notin s.held
      BY <2>2, <2>4, <3>1 DEF InHand, LocksApart
    <3> QED
      BY <1>1, <1>2, <2>2, <3>1, <3>2, AfterCommit
  <2> QED
    BY <1>1, <2>2, <2>3, <2>4 DEF InHand, IsFirst
<1>9. RowsBacked'
  BY <1>1, <1>2, AfterCommit
<1> QED
  BY <1>5, <1>6, <1>7, <1>8, <1>9

\* A COMMIT that nobody waits for any more.
LEMMA OrphanCommitsStep ==
    ASSUME OutboxInv, NEW s \in orphans, OrphanCommits(s)
    PROVE  OutboxInv'
<1> USE DEF OutboxInv
<1>1. /\ row' = After(s.wrote)
      /\ orphans' = orphans \ {s}
      /\ UNCHANGED <<pc, stopped, batch, seen, session, sent, failed>>
  BY DEF OrphanCommits
<1>2. s \in Session /\ SessionSound(s)
  BY DEF TypeOK, SessionsSound
<1>3. TypeOK'
  BY <1>1, <1>2, AfterCommit DEF TypeOK
<1>4. LocksApart'
  BY <1>1 DEF LocksApart
<1>5. SessionsSound'
  <2>1. ASSUME NEW t \in Session, SessionSound(t), t.held \cap s.held = {}
        PROVE  SessionSound(t)'
    BY <1>1, <1>2, <2>1, OthersStaySound
  <2>2. \A q \in Publishers : /\ session[q] \in Session /\ SessionSound(session[q])
                              /\ session[q].held \cap s.held = {}
    BY DEF TypeOK, SessionsSound, LocksApart
  <2>3. \A o \in orphans \ {s} : o \in Session /\ SessionSound(o) /\ o.held \cap s.held = {}
    BY DEF TypeOK, SessionsSound, LocksApart
  <2>4. \A q \in Publishers : SessionSound(session[q])'
    BY <1>1, <2>1, <2>2 DEF SessionSound, Backed
  <2> QED
    BY <1>1, <2>1, <2>3, <2>4 DEF SessionsSound
<1>6. BatchSound'
  <2>1. SUFFICES ASSUME NEW q \in Publishers, NEW e \in batch[q] PROVE InHand(q, e)'
    BY <1>1 DEF BatchSound
  <2>2. e \in Events /\ InHand(q, e)
    BY DEF TypeOK, BatchSound
  <2>3. row'[e].status # "none"
    BY <1>1, <1>2, <2>2, AfterCommit DEF InHand
  <2>4. ASSUME session[q].state = "open" PROVE row'[e] = row[e]
    <3>1. e \notin s.held
      BY <2>2, <2>4 DEF InHand, LocksApart
    <3> QED
      BY <1>1, <1>2, <2>2, <3>1, AfterCommit
  <2> QED
    BY <1>1, <2>2, <2>3, <2>4 DEF InHand, IsFirst
<1>7. RowsBacked'
  BY <1>1, <1>2, AfterCommit
<1> QED
  BY <1>3, <1>4, <1>5, <1>6, <1>7

\* A transaction left behind is rolled back.
LEMMA OrphanEndsStep ==
    ASSUME OutboxInv, NEW s \in orphans, OrphanEnds(s)
    PROVE  OutboxInv'
<1> USE DEF OutboxInv, OrphanEnds
<1>1. TypeOK' /\ LocksApart'
  BY DEF TypeOK, LocksApart
<1>2. SessionsSound'
  BY DEF SessionsSound, SessionSound, Backed
<1>3. BatchSound' /\ RowsBacked'
  BY DEF BatchSound, InHand, IsFirst, RowsBacked
<1> QED
  BY <1>1, <1>2, <1>3

-----------------------------------------------------------------------------
(* The theorems *)

\* Leaving a batch, by name of the action.
LEMMA LeavingStep ==
    ASSUME OutboxInv, NEW p \in Publishers,
           BatchFails(p) \/ CommitReturns(p) \/ CommitFails(p) \/ Crash(p)
    PROVE  OutboxInv'
<1>1. \E to \in {"idle", "dead"} :
        /\ Leave(p, to)
        /\ UNCHANGED orphans \/ LeaveBehind(p)
        /\ UNCHANGED <<row, stopped, sent, failed>>
  BY DEF BatchFails, CommitReturns, CommitFails, Crash
<1> QED
  BY <1>1, LeaveStep

\* Every step keeps the invariant.
LEMMA NextOutbox == OutboxInv /\ [Next]_vars => OutboxInv'
<1> SUFFICES ASSUME OutboxInv, [Next]_vars PROVE OutboxInv'
  OBVIOUS
<1>1. ASSUME NEW e \in Events, Append(e) \/ Elapse(e) PROVE OutboxInv'
  BY <1>1, AppendStep, ElapseStep
<1>2. ASSUME NEW p \in Publishers, Drain(p) PROVE OutboxInv'
  BY <1>2, ClaimStep, PublishOKStep, PublishFailsStep, MarkStep, RecordFailureStep,
     SendCommitStep, LeavingStep, OutsideStep DEF Drain
<1>3. ASSUME NEW p \in Publishers, Mishap(p) PROVE OutboxInv'
  BY <1>3, ClaimFailsStep, LeavingStep, SessionEndsStep, OutsideStep DEF Mishap
<1>4. ASSUME NEW p \in Publishers, CommitApplies(p) PROVE OutboxInv'
  BY <1>4, CommitAppliesStep
<1>5. ASSUME NEW o \in orphans, Orphan(o) PROVE OutboxInv'
  BY <1>5, OrphanCommitsStep, OrphanEndsStep DEF Orphan
<1>6. CASE UNCHANGED vars
  BY <1>6 DEF vars, OutboxInv, TypeOK, LocksApart, SessionsSound, SessionSound, Backed,
     BatchSound, InHand, IsFirst, RowsBacked
<1> QED
  BY <1>1, <1>2, <1>3, <1>4, <1>5, <1>6 DEF Next, Quiet

\* Run and drainBatch: types, locks, sessions and rows stay as OutboxInv says,
\* for every number of publishers and events and under every fault.
THEOREM OutboxInvariant == Spec => []OutboxInv
<1>1. Init => OutboxInv
  BY InitOutbox
<1>2. OutboxInv /\ [Next]_vars => OutboxInv'
  BY NextOutbox
<1> QED
  BY <1>1, <1>2, PTL DEF Spec

\* Rows, sessions and publishers keep their types: no retry count passes
\* MaxRetries, and no transaction writes a status of its own.
THEOREM TypeCorrect == Spec => []TypeOK
<1>1. OutboxInv => TypeOK
  BY DEF OutboxInv
<1> QED
  BY <1>1, OutboxInvariant, PTL

\* drainBatch: no event is marked published unless the sink took it.
THEOREM NothingPublishedUnsent == Spec => []PublishedWasDelivered
<1>1. OutboxInv => PublishedWasDelivered
  BY DEF OutboxInv, RowsBacked, PublishedWasDelivered
<1> QED
  BY <1>1, OutboxInvariant, PTL

\* recordFailure: a retry count never runs ahead of the calls that failed, and
\* no event is given up with an attempt left.
THEOREM RetryCountsAreReal == Spec => []RetriesAreReal
<1>1. OutboxInv => RetriesAreReal
  BY DEF OutboxInv, RowsBacked, RetriesAreReal
<1> QED
  BY <1>1, OutboxInvariant, PTL

\* A step changes the row of a settled event only by committing a session, and
\* a sound session holds none.
LEMMA SettledStep ==
    ASSUME OutboxInv, [Next]_vars, NEW e \in Events, row[e].status \in Settled
    PROVE  row'[e] = row[e]
<1> USE DEF OutboxInv
<1>1. ASSUME NEW f \in Events, Append(f) \/ Elapse(f) PROVE row'[e] = row[e]
  <2>1. row \in [Events -> Row] /\ e # f
    BY <1>1 DEF TypeOK, Append, Elapse, Settled, Claimable
  <2> QED
    BY <1>1, <2>1 DEF Append, Elapse
<1>2. ASSUME NEW s \in Session, SessionSound(s), row' = After(s.wrote),
             UNCHANGED <<sent, failed>>
      PROVE  row'[e] = row[e]
  BY <1>2, AfterCommit
<1>3. ASSUME NEW p \in Publishers, CommitApplies(p) PROVE row'[e] = row[e]
  <2>1. session[p] \in Session /\ SessionSound(session[p])
    BY DEF TypeOK, SessionsSound
  <2> QED
    BY <1>2, <1>3, <2>1 DEF CommitApplies
<1>4. ASSUME NEW o \in orphans, Orphan(o) PROVE row'[e] = row[e]
  <2>1. o \in Session /\ SessionSound(o)
    BY DEF TypeOK, SessionsSound
  <2> QED
    BY <1>2, <1>4, <2>1 DEF Orphan, OrphanCommits, OrphanEnds
<1>5. ASSUME NEW p \in Publishers, Drain(p) \/ Mishap(p) PROVE row'[e] = row[e]
  BY <1>5 DEF Drain, Mishap, Claim, PublishOK, PublishFails, Mark, RecordFailure,
     SendCommit, CommitReturns, Return, ClaimFails, BatchFails, CommitFails,
     SessionEnds, Stop, Crash, Restart
<1> QED
  BY <1>1, <1>3, <1>4, <1>5 DEF Next, Quiet, vars

\* claim, markPublished and recordFailure: a settled event is never touched
\* again, not even by a late COMMIT.
THEOREM SettledForGood == Spec => SettledIsFinal
<1>1. OutboxInv /\ [Next]_vars =>
        [\A e \in Events : row[e].status \in Settled => row'[e] = row[e]]_vars
  BY SettledStep
<1> QED
  BY <1>1, OutboxInvariant, PTL DEF Spec, SettledIsFinal

-----------------------------------------------------------------------------
(* The outbox implements AtLeastOnce *)

\* A step that neither appends nor settles an event, nor delivers one.
Unseen == UNCHANGED <<State, Got>>

\* A call of the sink is a delivery, or is not.
LEMMA DeliverStep ==
    ASSUME OutboxInv, NEW e \in Events, row[e].status # "none",
           UNCHANGED row,
           UNCHANGED sent \/ sent' = [sent EXCEPT ![e] = CountUp(@, SentCap)]
    PROVE  Abstract!Next \/ Unseen
<1>1. State' = State /\ State[e] # "none"
  BY DEF State, Claimable
<1>2. CASE UNCHANGED sent
  BY <1>1, <1>2 DEF Unseen, Got
<1>3. CASE sent' = [sent EXCEPT ![e] = CountUp(@, SentCap)]
  <2>1. sent'[e] >= 1 /\ sent'[e] \in Nat /\ \A f \in Events : f # e => sent'[f] = sent[f]
    BY <1>3, CountersGrow, LimitsAssumption DEF OutboxInv, TypeOK
  <2>2. Got' = Got \cup {e}
    BY <2>1 DEF Got
  <2>3. Abstract!Deliver(e)
    BY <1>1, <2>2 DEF Abstract!Deliver
  <2> QED
    BY <2>3 DEF Abstract!Next
<1> QED
  BY <1>2, <1>3

\* A commit settles the events it published or gave up, all at once.
LEMMA SettleStep ==
    ASSUME OutboxInv, NEW s \in Session, SessionSound(s),
           row' = After(s.wrote), UNCHANGED sent
    PROVE  Abstract!Next
<1> USE DEF OutboxInv
<1>1. \A e \in Events : row'[e] = IF s.wrote[e].status = "none"
                                    THEN row[e] ELSE s.wrote[e]
  BY DEF After
<1> DEFINE gone == {e \in Events : s.wrote[e].status \in Settled}
           published == {e \in Events : s.wrote[e].status = "published"}
<1>2. \A e \in Events : s.wrote[e].status # "none" =>
        /\ s.wrote[e].status \in {"published", "retrying", "dead_lettered"}
        /\ s.wrote[e].status = "published" => sent[e] >= 1
        /\ row[e].status \in Claimable
  BY DEF SessionSound, Backed
<1>3. gone \in SUBSET {e \in Events : State[e] = "waiting"}
  BY <1>2 DEF State, Settled
<1>4. published \in SUBSET (gone \cap Got)
  BY <1>2, LimitsAssumption DEF Got, Settled, TypeOK
<1>5. ASSUME NEW e \in Events
      PROVE  State'[e] = IF e \in published THEN "published"
                         ELSE IF e \in gone THEN "dead_lettered" ELSE State[e]
  BY <1>1, <1>2 DEF State, Settled, Claimable
<1>6. State' = [e \in Events |-> IF e \in published THEN "published"
                                 ELSE IF e \in gone THEN "dead_lettered"
                                 ELSE State[e]]
  BY <1>5 DEF State
<1>7. Got' = Got
  BY DEF Got
<1> HIDE DEF gone, published
<1>8. Abstract!Settle
  BY <1>3, <1>4, <1>6, <1>7 DEF Abstract!Settle
<1> QED
  BY <1>8 DEF Abstract!Next

\* Every step is a step of AtLeastOnce or none.
LEMMA StepMaps == OutboxInv /\ [Next]_vars => Abstract!Next \/ Unseen
<1> SUFFICES ASSUME OutboxInv, [Next]_vars PROVE Abstract!Next \/ Unseen
  OBVIOUS
<1> USE DEF OutboxInv
<1>1. ASSUME NEW e \in Events, Append(e) PROVE Abstract!Next
  <2>1. State[e] = "none" /\ Got' = Got
    BY <1>1 DEF Append, State, Got, Claimable
  <2>2. State' = [State EXCEPT ![e] = "waiting"]
    BY <1>1 DEF Append, State, Claimable, TypeOK
  <2>3. Abstract!Record(e)
    BY <2>1, <2>2 DEF Abstract!Record
  <2> QED
    BY <2>3 DEF Abstract!Next
<1>2. ASSUME NEW e \in Events, Elapse(e) PROVE Unseen
  <2>1. \A f \in Events : row'[f].status = row[f].status
    BY <1>2 DEF Elapse, TypeOK, Row
  <2> QED
    BY <1>2, <2>1 DEF Elapse, Unseen, State, Got
<1>3. ASSUME NEW p \in Publishers, PublishOK(p) \/ PublishFails(p)
      PROVE  Abstract!Next \/ Unseen
  <2>1. PICK e \in batch[p] :
          UNCHANGED sent \/ sent' = [sent EXCEPT ![e] = CountUp(@, SentCap)]
    BY <1>3 DEF PublishOK, PublishFails
  <2>2. e \in Events /\ row[e].status # "none" /\ UNCHANGED row
    BY <1>3 DEF TypeOK, BatchSound, InHand, PublishOK, PublishFails
  <2> QED
    BY <2>1, <2>2, DeliverStep
<1>4. ASSUME NEW p \in Publishers, CommitApplies(p) PROVE Abstract!Next
  <2>1. session[p] \in Session /\ SessionSound(session[p])
    BY DEF TypeOK, SessionsSound
  <2> QED
    BY <1>4, <2>1, SettleStep DEF CommitApplies
<1>5. ASSUME NEW o \in orphans, Orphan(o) PROVE Abstract!Next \/ Unseen
  <2>1. o \in Session /\ SessionSound(o)
    BY DEF TypeOK, SessionsSound
  <2>2. CASE OrphanCommits(o)
    BY <2>1, <2>2, SettleStep DEF OrphanCommits
  <2>3. CASE OrphanEnds(o)
    BY <2>3 DEF OrphanEnds, Unseen, State, Got
  <2> QED
    BY <1>5, <2>2, <2>3 DEF Orphan
<1>6. ASSUME UNCHANGED <<row, sent>> PROVE Unseen
  BY <1>6 DEF Unseen, State, Got
<1>7. ASSUME NEW p \in Publishers, Drain(p) \/ Mishap(p) PROVE Abstract!Next \/ Unseen
  BY <1>3, <1>6, <1>7 DEF Drain, Mishap, Claim, Mark, RecordFailure, SendCommit,
     CommitReturns, Return, ClaimFails, BatchFails, CommitFails, SessionEnds,
     Stop, Crash, Restart
<1> QED
  BY <1>1, <1>2, <1>4, <1>5, <1>6, <1>7 DEF Next, Quiet, vars

\* Append and the publish loop: an event recorded with its order waits until
\* it is settled once, as published only if it was delivered, for every number
\* of publishers and under every fault.
THEOREM DeliversAtLeastOnce == Spec => ImplementsAtLeastOnce
<1>1. Init => Abstract!Init
  BY DEF Init, Abstract!Init, State, Got, Unwritten, Claimable
<1>2. OutboxInv /\ [Next]_vars => [Abstract!Next]_(Abstract!vars)
  BY StepMaps DEF Unseen, Abstract!vars
<1> QED
  BY <1>1, <1>2, OutboxInvariant, PTL DEF Spec, ImplementsAtLeastOnce, Abstract!Spec

-----------------------------------------------------------------------------
(* Duplicates, when only the sink fails *)

\* Who holds an event accounts for it.
LEMMA HolderAccounts ==
    ASSUME OutboxInv, AccountInv, NEW p \in Publishers, NEW e \in session[p].held
    PROVE  e \in Events /\ UnderWay(p, e)
<1>1. e \in Events
  BY DEF OutboxInv, TypeOK, Session
<1>2. \A q \in Publishers : e \in session[q].held => q = p
  BY DEF OutboxInv, LocksApart
<1> QED
  BY <1>1, <1>2 DEF AccountInv, Accounted

\* An event that nobody holds rests.
LEMMA FreeRests ==
    ASSUME AccountInv, NEW e \in Events, \A p \in Publishers : e \notin session[p].held
    PROVE  AtRest(e)
  BY DEF AccountInv, Accounted

\* What p does leaves events alone that it neither held nor holds.
LEMMA OthersStayAccounted ==
    ASSUME OutboxInv, AccountInv, NEW p \in Publishers, NEW e \in Events,
           \A q \in Publishers : q # p =>
             session'[q] = session[q] /\ batch'[q] = batch[q] /\ pc'[q] = pc[q],
           e \notin session[p].held, e \notin session'[p].held,
           row'[e] = row[e], sent'[e] = sent[e], failed'[e] = failed[e]
    PROVE  Accounted(e)'
<1>1. CASE AtRest(e) /\ \A q \in Publishers : e \notin session[q].held
  <2>1. \A q \in Publishers : e \notin session'[q].held
    BY <1>1
  <2>2. AtRest(e)'
    BY <1>1 DEF AtRest, Level
  <2> QED
    BY <2>1, <2>2 DEF Accounted
<1>2. ASSUME NEW q \in Publishers, e \in session[q].held, UnderWay(q, e)
      PROVE  Accounted(e)'
  <2>1. q # p
    BY <1>2
  <2>2. e \in session'[q].held
    BY <1>2, <2>1
  <2>3. session'[q] = session[q] /\ batch'[q] = batch[q] /\ pc'[q] = pc[q]
    BY <2>1
  <2>4. UnderWay(q, e)'
    BY <1>2, <2>3 DEF UnderWay, Level, IsFirst
  <2> QED
    BY <2>2, <2>4 DEF Accounted
<1> QED
  BY <1>1, <1>2 DEF AccountInv, Accounted

\* A new event has been sent and has failed as often as its row says: never.
LEMMA AppendAccounts ==
    ASSUME OutboxInv, AccountInv, NEW e \in Events, Append(e) \/ Elapse(e)
    PROVE  AccountInv'
<1>1. InStep'
  BY DEF Append, Elapse, AccountInv, InStep
<1>2. /\ row'[e].retries = row[e].retries
      /\ row'[e].status \in Claimable
      /\ row[e].status \notin Settled
      /\ \A f \in Events : f # e => row'[f] = row[f]
      /\ UNCHANGED <<pc, batch, session, sent, failed>>
  <2>1. CASE Append(e)
    <3>1. \A p \in Publishers : e \notin session[p].held
      BY <2>1 DEF Append, OutboxInv, SessionsSound, SessionSound, Claimable
    <3>2. row[e].retries = 0
      BY <2>1, <3>1, FreeRests DEF Append, AtRest
    <3> QED
      BY <2>1, <3>2 DEF Append, OutboxInv, TypeOK, Claimable, Settled
  <2>2. CASE Elapse(e)
    BY <2>2 DEF Elapse, OutboxInv, TypeOK, Claimable, Settled
  <2> QED
    BY <2>1, <2>2
<1>3. \A f \in Events : AtRest(f) => AtRest(f)'
  BY <1>2 DEF AtRest, Level, Claimable, Settled
<1>4. ASSUME NEW p \in Publishers, NEW f \in Events, UnderWay(p, f)
      PROVE  UnderWay(p, f)'
  <2>1. row'[f].retries = row[f].retries
    BY <1>2
  <2>2. Level(f) <=> Level(f)'
    BY <1>2, <2>1 DEF Level
  <2> QED
    BY <1>2, <1>4, <2>1, <2>2 DEF UnderWay, IsFirst
<1>5. \A f \in Events : Accounted(f)'
  BY <1>2, <1>3, <1>4 DEF AccountInv, Accounted
<1> QED
  BY <1>1, <1>5 DEF AccountInv

\* A batch is claimed from events at rest.
LEMMA ClaimAccounts ==
    ASSUME OutboxInv, AccountInv, NEW p \in Publishers, Claim(p)
    PROVE  AccountInv'
<1>1. PICK S \in SUBSET Events :
        /\ IsBatch(S)
        /\ batch' = [batch EXCEPT ![p] = S]
        /\ session' = [session EXCEPT ![p] = Opened(S)]
  BY DEF Claim
<1>2. /\ pc[p] = "idle"
      /\ pc' = [pc EXCEPT ![p] = "publish"]
      /\ UNCHANGED <<row, stopped, orphans, sent, failed>>
  BY DEF Claim, Goto
<1>3. /\ session'[p].held = S /\ session'[p].state = "open"
      /\ batch'[p] = S /\ pc'[p] = "publish"
      /\ \A q \in Publishers : q # p =>
           session'[q] = session[q] /\ batch'[q] = batch[q] /\ pc'[q] = pc[q]
  BY <1>1, <1>2 DEF Opened, OutboxInv, TypeOK
<1>4. InStep'
  BY <1>2, <1>3 DEF AccountInv, InStep
<1>5. session[p].held = {}
  BY <1>2 DEF AccountInv, InStep
<1>6. ASSUME NEW e \in S PROVE Accounted(e)'
  <2>1. Eligible(e)
    BY <1>1, BatchIsEligible
  <2>2. Level(e)
    BY <2>1, EligibleIsFree, FreeRests DEF AtRest, Claimable, Settled
  <2>3. UnderWay(p, e)'
    BY <1>2, <1>3, <2>2 DEF UnderWay, Level
  <2> QED
    BY <1>3, <2>3 DEF Accounted
<1>7. ASSUME NEW e \in Events \ S PROVE Accounted(e)'
  BY <1>2, <1>3, <1>5, OthersStayAccounted
<1> QED
  BY <1>4, <1>6, <1>7 DEF AccountInv

\* An event that is being published is held, comes first, and is level.
LEMMA FirstIsLevel ==
    ASSUME OutboxInv, AccountInv, NEW p \in Publishers, pc[p] = "publish",
           NEW e \in batch[p]
    PROVE  /\ e \in Events /\ e \in session[p].held
           /\ Level(e) /\ failed[e] < MaxRetries
<1>1. session[p].state = "open"
  BY DEF AccountInv, InStep
<1>2. e \in session[p].held
  BY <1>1 DEF OutboxInv, BatchSound, InHand
<1>3. e \in Events /\ UnderWay(p, e)
  BY <1>2, HolderAccounts
<1>4. Level(e)
  BY <1>3 DEF UnderWay
<1>5. row[e].status \in Claimable
  BY <1>2 DEF OutboxInv, SessionsSound, SessionSound
<1>6. row[e].retries < MaxRetries
  BY <1>3, <1>5 DEF OutboxInv, RowsBacked, Claimable, Settled
<1> QED
  BY <1>2, <1>3, <1>4, <1>6 DEF Level

\* One call of Publish goes to one event, whether it fails or not.
LEMMA PublishAccounts ==
    ASSUME OutboxInv, AccountInv, NEW p \in Publishers, PublishOK(p) \/ PublishFails(p)
    PROVE  AccountInv'
<1>1. PICK e \in batch[p] :
        /\ IsFirst(e, batch[p])
        /\ \/ /\ pc' = [pc EXCEPT ![p] = "mark"]
              /\ sent' = [sent EXCEPT ![e] = CountUp(@, SentCap)]
              /\ failed' = failed
           \/ /\ pc' = [pc EXCEPT ![p] = "record"]
              /\ failed' = [failed EXCEPT ![e] = CountUp(@, MaxRetries)]
              /\ sent' = sent \/ sent' = [sent EXCEPT ![e] = CountUp(@, SentCap)]
  BY DEF PublishOK, PublishFails, Goto, AfterError
<1>2. pc[p] = "publish" /\ UNCHANGED <<row, stopped, batch, session, orphans>>
  BY DEF PublishOK, PublishFails
<1>3. e \in Events /\ e \in session[p].held /\ Level(e) /\ failed[e] < MaxRetries
  BY <1>2, FirstIsLevel
<1>4. sent[e] \in 0 .. SentCap /\ failed[e] \in 0 .. MaxRetries /\ row[e].retries \in 0 .. MaxRetries
  BY <1>3 DEF OutboxInv, TypeOK, Row
<1>5. \A f \in Events : f # e => sent'[f] = sent[f] /\ failed'[f] = failed[f]
  BY <1>1, <1>3 DEF OutboxInv, TypeOK
<1>6. /\ pc'[p] \in {"mark", "record"}
      /\ \A q \in Publishers : q # p => pc'[q] = pc[q]
  BY <1>1 DEF OutboxInv, TypeOK
<1>7. InStep'
  BY <1>2, <1>6 DEF AccountInv, InStep
<1>8. Accounted(e)'
  <2>1. CASE pc'[p] = "mark"
    <3>1. failed' = failed /\ sent'[e] = CountUp(sent[e], SentCap)
      BY <1>1, <1>3, <2>1 DEF OutboxInv, TypeOK
    <3>2. sent'[e] <= 1 + failed'[e]
      BY <1>3, <1>4, <3>1, LimitsAssumption DEF Level, CountUp
    <3>3. UnderWay(p, e)'
      BY <1>1, <1>2, <2>1, <3>2 DEF UnderWay, IsFirst
    <3> QED
      BY <1>2, <1>3, <3>3 DEF Accounted
  <2>2. CASE pc'[p] = "record"
    <3>1. /\ failed'[e] = CountUp(failed[e], MaxRetries)
          /\ sent'[e] = sent[e] \/ sent'[e] = CountUp(sent[e], SentCap)
      BY <1>1, <1>3, <2>2 DEF OutboxInv, TypeOK
    <3>2. sent'[e] <= failed'[e] /\ failed'[e] = 1 + row[e].retries
      BY <1>3, <1>4, <3>1, LimitsAssumption DEF Level, CountUp
    <3>3. UnderWay(p, e)'
      BY <1>1, <1>2, <2>2, <3>2 DEF UnderWay, IsFirst
    <3> QED
      BY <1>2, <1>3, <3>3 DEF Accounted
  <2> QED
    BY <1>6, <2>1, <2>2
<1>9. ASSUME NEW f \in session[p].held, f # e PROVE Accounted(f)'
  <2>1. f \in Events /\ UnderWay(p, f)
    BY <1>9, HolderAccounts
  <2>2. f \in batch[p] => ~IsFirst(f, batch[p])
    BY <1>1, <1>9, FirstIsUnique DEF OutboxInv, TypeOK
  <2>3. UnderWay(p, f)'
    BY <1>2, <1>5, <1>6, <1>9, <2>1, <2>2 DEF UnderWay, Level, IsFirst
  <2> QED
    BY <1>2, <2>3 DEF Accounted
<1>10. ASSUME NEW f \in Events, f \notin session[p].held PROVE Accounted(f)'
  BY <1>2, <1>3, <1>5, <1>6, <1>10, OthersStayAccounted
<1> QED
  BY <1>7, <1>8, <1>9, <1>10 DEF AccountInv

\* What p writes for the event in its turn accounts for the call it made.
LEMMA WriteAccounts ==
    ASSUME OutboxInv, AccountInv, NEW p \in Publishers, NEW e \in batch[p], NEW w \in Row,
           session[p].state = "open", IsFirst(e, batch[p]),
           session' = [session EXCEPT ![p].wrote[e] = w],
           Proceed(p, e),
           \/ w.status = "published" /\ sent[e] <= 1 + failed[e]
           \/ /\ w.status \in {"retrying", "dead_lettered"}
              /\ sent[e] <= failed[e] /\ failed[e] = w.retries,
           UNCHANGED <<row, stopped, orphans, sent, failed>>
    PROVE  AccountInv'
<1>1. e \in Events /\ e \in session[p].held
  BY DEF OutboxInv, TypeOK, BatchSound, InHand
<1>2. session[p] \in Session /\ session \in [Publishers -> Session]
  BY DEF OutboxInv, TypeOK
<1>3. /\ session'[p].held = session[p].held /\ session'[p].state = "open"
      /\ session'[p].wrote[e] = w
      /\ \A f \in Events : f # e => session'[p].wrote[f] = session[p].wrote[f]
      /\ \A q \in Publishers : q # p => session'[q] = session[q]
  BY <1>1, <1>2 DEF Session
<1>4. /\ batch'[p] = batch[p] \ {e}
      /\ pc'[p] = IF batch[p] = {e} THEN "commit" ELSE "publish"
      /\ \A q \in Publishers : q # p => batch'[q] = batch[q] /\ pc'[q] = pc[q]
  BY DEF Proceed, Goto, OutboxInv, TypeOK
<1>5. InStep'
  BY <1>3, <1>4 DEF AccountInv, InStep
<1>6. Accounted(e)'
  <2>1. UnderWay(p, e)'
    BY <1>3, <1>4 DEF UnderWay
  <2> QED
    BY <1>1, <1>3, <2>1 DEF Accounted
<1>7. ASSUME NEW f \in session[p].held, f # e PROVE Accounted(f)'
  <2>1. f \in Events /\ UnderWay(p, f)
    BY <1>7, HolderAccounts
  <2>2. CASE f \in batch[p]
    <3>1. ~IsFirst(f, batch[p])
      BY <1>7, <2>2, FirstIsUnique DEF OutboxInv, TypeOK
    <3>2. Level(f)
      BY <2>1, <2>2, <3>1 DEF UnderWay
    <3>3. f \in batch'[p] /\ pc'[p] = "publish"
      BY <1>4, <1>7, <2>2
    <3>4. UnderWay(p, f)'
      BY <3>2, <3>3 DEF UnderWay, Level
    <3> QED
      BY <1>3, <1>7, <3>4 DEF Accounted
  <2>3. CASE f \notin batch[p]
    <3>1. f \notin batch'[p] /\ session'[p].wrote[f] = session[p].wrote[f]
      BY <1>3, <1>4, <1>7, <2>1, <2>3
    <3>2. UnderWay(p, f)'
      BY <2>1, <2>3, <3>1 DEF UnderWay
    <3> QED
      BY <1>3, <1>7, <3>2 DEF Accounted
  <2> QED
    BY <2>2, <2>3
<1>8. ASSUME NEW f \in Events, f \notin session[p].held PROVE Accounted(f)'
  BY <1>3, <1>4, <1>8, OthersStayAccounted
<1> QED
  BY <1>5, <1>6, <1>7, <1>8 DEF AccountInv

\* markPublished accounts for the call of Publish that returned nil.
LEMMA MarkAccounts ==
    ASSUME OutboxInv, AccountInv, NEW p \in Publishers, Mark(p)
    PROVE  AccountInv'
<1>1. PICK e \in batch[p] :
        /\ IsFirst(e, batch[p])
        /\ session' = [session EXCEPT ![p].wrote[e] = PublishedRow(seen[p][e])]
        /\ Proceed(p, e)
  BY DEF Mark
<1>2. /\ pc[p] = "mark" /\ session[p].state = "open"
      /\ UNCHANGED <<row, stopped, orphans, sent, failed>>
  BY DEF Mark
<1>3. e \in Events /\ seen[p][e] \in 0 .. MaxRetries /\ e \in session[p].held
  BY <1>2 DEF OutboxInv, TypeOK, BatchSound, InHand
<1>4. PublishedRow(seen[p][e]) \in Row /\ PublishedRow(seen[p][e]).status = "published"
  BY <1>3 DEF PublishedRow, Row, Settled
<1>5. sent[e] <= 1 + failed[e]
  BY <1>1, <1>2, <1>3, HolderAccounts DEF UnderWay
<1> QED
  BY <1>1, <1>2, <1>4, <1>5, WriteAccounts

\* recordFailure accounts for the call of Publish that returned an error.
LEMMA RecordAccounts ==
    ASSUME OutboxInv, AccountInv, NEW p \in Publishers, RecordFailure(p)
    PROVE  AccountInv'
<1>1. PICK e \in batch[p] :
        /\ IsFirst(e, batch[p])
        /\ session' = [session EXCEPT ![p].wrote[e] = FailedRow(seen[p][e])]
        /\ Proceed(p, e)
  BY DEF RecordFailure
<1>2. /\ pc[p] = "record" /\ session[p].state = "open"
      /\ UNCHANGED <<row, stopped, orphans, sent, failed>>
  BY DEF RecordFailure
<1>3. /\ e \in Events /\ e \in session[p].held
      /\ seen[p][e] = row[e].retries /\ seen[p][e] \in 0 .. MaxRetries
      /\ failed[e] \in 0 .. MaxRetries
  BY <1>2 DEF OutboxInv, TypeOK, BatchSound, InHand
<1>4. sent[e] <= failed[e] /\ failed[e] = 1 + row[e].retries
  BY <1>1, <1>2, <1>3, HolderAccounts DEF UnderWay
<1>5. /\ FailedRow(seen[p][e]) \in Row
      /\ FailedRow(seen[p][e]).status \in {"retrying", "dead_lettered"}
      /\ FailedRow(seen[p][e]).retries = failed[e]
  BY <1>3, <1>4, LimitsAssumption DEF FailedRow, Row, Settled, Claimable
<1> QED
  BY <1>1, <1>2, <1>4, <1>5, WriteAccounts

\* COMMIT on its way, and its answer.
LEMMA CommitAccounts ==
    ASSUME OutboxInv, AccountInv, NEW p \in Publishers, SendCommit(p) \/ CommitReturns(p)
    PROVE  AccountInv'
<1>1. CASE SendCommit(p)
  <2>1. /\ session'[p].held = session[p].held /\ session'[p].wrote = session[p].wrote
        /\ session'[p].state = "committing"
        /\ pc[p] = "commit" /\ pc'[p] = "await"
        /\ \A q \in Publishers : q # p => session'[q] = session[q] /\ pc'[q] = pc[q]
        /\ UNCHANGED <<row, stopped, batch, orphans, sent, failed>>
    BY <1>1 DEF SendCommit, Goto, OutboxInv, TypeOK, Session
  <2>2. batch[p] = {}
    BY <2>1 DEF AccountInv, InStep
  <2>3. InStep'
    BY <2>1, <2>2 DEF AccountInv, InStep
  <2>4. ASSUME NEW e \in session[p].held PROVE Accounted(e)'
    <3>1. e \in Events /\ UnderWay(p, e)
      BY HolderAccounts
    <3>2. UnderWay(p, e)'
      BY <2>1, <2>2, <3>1 DEF UnderWay
    <3> QED
      BY <2>1, <3>2 DEF Accounted
  <2>5. ASSUME NEW e \in Events, e \notin session[p].held PROVE Accounted(e)'
    BY <2>1, <2>5, OthersStayAccounted
  <2> QED
    BY <2>3, <2>4, <2>5 DEF AccountInv
<1>2. CASE CommitReturns(p)
  <2>1. /\ session[p].state = "committed"
        /\ session'[p] = NoSession /\ pc'[p] = "idle" /\ batch'[p] = {}
        /\ \A q \in Publishers : q # p =>
             session'[q] = session[q] /\ batch'[q] = batch[q] /\ pc'[q] = pc[q]
        /\ UNCHANGED <<row, stopped, orphans, sent, failed>>
    BY <1>2 DEF CommitReturns, Leave, Goto, OutboxInv, TypeOK
  <2>2. session[p].held = {}
    BY <2>1 DEF AccountInv, InStep
  <2>3. InStep'
    BY <2>1, NoSessionIsEmpty DEF AccountInv, InStep
  <2>4. ASSUME NEW e \in Events PROVE Accounted(e)'
    BY <2>1, <2>2, NoSessionIsEmpty, OthersStayAccounted
  <2> QED
    BY <2>3, <2>4 DEF AccountInv
<1> QED
  BY <1>1, <1>2

\* COMMIT puts into the table what the session accounts for.
LEMMA ApplyAccounts ==
    ASSUME OutboxInv, AccountInv, NEW p \in Publishers, CommitApplies(p)
    PROVE  AccountInv'
<1>1. /\ session[p].state = "committing"
      /\ session'[p] = [NoSession EXCEPT !.state = "committed"]
      /\ \A q \in Publishers : q # p => session'[q] = session[q]
      /\ row' = After(session[p].wrote)
      /\ UNCHANGED <<pc, stopped, batch, orphans, sent, failed>>
  BY DEF CommitApplies, OutboxInv, TypeOK
<1>2. session'[p].held = {} /\ session'[p].state = "committed"
  BY <1>1, NoSessionIsEmpty DEF NoSession
<1>3. pc[p] = "await" /\ batch[p] = {}
  BY <1>1 DEF AccountInv, InStep
<1>4. InStep'
  BY <1>1, <1>2, <1>3 DEF AccountInv, InStep
<1>5. \A e \in Events : row'[e] = IF session[p].wrote[e].status = "none" THEN row[e]
                                  ELSE session[p].wrote[e]
  BY <1>1 DEF After
<1>6. ASSUME NEW e \in session[p].held PROVE Accounted(e)'
  <2>1. e \in Events /\ UnderWay(p, e)
    BY HolderAccounts
  <2>2. \/ session[p].wrote[e].status = "published" /\ sent[e] <= 1 + failed[e]
        \/ /\ session[p].wrote[e].status \in {"retrying", "dead_lettered"}
           /\ sent[e] <= failed[e] /\ failed[e] = session[p].wrote[e].retries
    BY <1>3, <2>1 DEF UnderWay
  <2>3. row'[e] = session[p].wrote[e]
    BY <1>5, <2>1, <2>2
  <2>4. sent[e] \in Nat /\ failed[e] \in Nat
    BY <2>1, LimitsAssumption DEF OutboxInv, TypeOK
  <2>5. AtRest(e)'
    BY <1>1, <2>2, <2>3, <2>4 DEF AtRest, Level, Settled
  <2>6. \A q \in Publishers : e \notin session'[q].held
    BY <1>1, <1>2 DEF OutboxInv, LocksApart
  <2> QED
    BY <2>5, <2>6 DEF Accounted
<1>7. ASSUME NEW e \in Events, e \notin session[p].held PROVE Accounted(e)'
  <2>1. session[p].wrote[e].status = "none"
    BY <1>7 DEF OutboxInv, SessionsSound, SessionSound
  <2>2. row'[e] = row[e]
    BY <1>5, <2>1
  <2> QED
    BY <1>1, <1>2, <1>7, <2>2, OthersStayAccounted
<1> QED
  BY <1>4, <1>6, <1>7 DEF AccountInv

\* Without faults of the database and the processes, nothing else happens.
LEMMA AccountStep ==
    ASSUME OutboxInv, AccountInv, Faults \subseteq {"sink"}, [Next]_vars
    PROVE  AccountInv'
<1>1. \A p \in Publishers : ~StatementMayFail(p)
  BY DEF StatementMayFail, MayHappen, AccountInv, InStep
<1>2. ASSUME NEW p \in Publishers, Mishap(p) PROVE FALSE
  <2>1. ~ClaimFails(p) /\ ~SessionEnds(p) /\ ~Stop(p) /\ ~Crash(p)
    BY DEF ClaimFails, SessionEnds, Stop, Crash, MayHappen
  <2>2. ~BatchFails(p) /\ ~CommitFails(p)
    BY <1>1 DEF BatchFails, CommitFails
  <2>3. ~Restart(p)
    BY DEF Restart, AccountInv, InStep
  <2> QED
    BY <1>2, <2>1, <2>2, <2>3 DEF Mishap
<1>3. ASSUME NEW p \in Publishers, Drain(p) PROVE AccountInv'
  <2>1. ~Return(p)
    BY DEF Return, AccountInv, InStep
  <2> QED
    BY <1>3, <2>1, ClaimAccounts, PublishAccounts, MarkAccounts, RecordAccounts,
       CommitAccounts DEF Drain
<1>4. CASE UNCHANGED vars
  <2>1. InStep'
    BY <1>4 DEF vars, AccountInv, InStep
  <2>2. ASSUME NEW e \in Events PROVE Accounted(e)'
    BY <1>4 DEF vars, AccountInv, Accounted, AtRest, UnderWay, Level, IsFirst
  <2> QED
    BY <2>1, <2>2 DEF AccountInv
<1>5. orphans = {}
  BY DEF AccountInv, InStep
<1> QED
  BY <1>2, <1>3, <1>4, <1>5, AppendAccounts, ApplyAccounts DEF Next, Quiet

\* Nothing was sent and nothing failed yet.
LEMMA AccountInit == Init => AccountInv
<1> SUFFICES ASSUME Init PROVE AccountInv
  OBVIOUS
<1>1. InStep
  BY NoSessionIsEmpty DEF Init, InStep
<1>2. ASSUME NEW e \in Events PROVE Accounted(e)
  <2>1. AtRest(e)
    BY DEF Init, AtRest, Level, Unwritten, Settled
  <2> QED
    BY <2>1, NoSessionIsEmpty DEF Init, Accounted
<1> QED
  BY <1>1, <1>2 DEF AccountInv

\* "A claimed row was published twice" (publisher_test.go): while only the sink
\* fails, every delivery after the first follows a failed Publish, for every
\* number of publishers, batch size and retry limit.
THEOREM EachDuplicateHasItsFailure ==
    ASSUME Faults \subseteq {"sink"}
    PROVE  Spec => []DuplicatesExplained
<1>1. OutboxInv /\ AccountInv => DuplicatesExplained
  <2> SUFFICES ASSUME OutboxInv, AccountInv, NEW e \in Events
               PROVE  sent[e] <= 1 + failed[e]
    BY DEF DuplicatesExplained
  <2>1. sent[e] \in Nat /\ failed[e] \in Nat
    BY LimitsAssumption DEF OutboxInv, TypeOK
  <2> QED
    BY <2>1 DEF AccountInv, Accounted, AtRest, UnderWay, Level
<1>2. OutboxInv /\ AccountInv /\ [Next]_vars => AccountInv'
  BY AccountStep
<1> QED
  BY <1>1, <1>2, AccountInit, OutboxInvariant, PTL DEF Spec
=============================================================================
