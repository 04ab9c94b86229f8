-------------------------- MODULE IdempotencyProofs --------------------------
(***************************************************************************)
(* Theorems about Idempotency, for every choice of requests, keys, bodies, *)
(* instances and faults.                                                   *)
(***************************************************************************)
EXTENDS IdempotencyInvariants, TLAPS

-----------------------------------------------------------------------------
(* Type correctness *)

\* The row that Claim inserts is a row.
LEMMA ClaimTypeOK ==
    ASSUME TypeOK, NEW r \in Requests
    PROVE  ClaimedBy(r) \in Row
BY HashAssumption DEF TypeOK, ClaimedBy, Row, HashOf, Request

\* A key without a row, as Release leaves it, is well typed.
LEMMA AbsentTypeOK == Absent \in Row
BY DEF Absent, Row

\* The row that Complete writes is a row.
LEMMA CompletedTypeOK ==
    ASSUME TypeOK, NEW r \in Requests, KeyOf(r) \in Keys
    PROVE  Completed(r) \in Row
BY DEF TypeOK, Completed, Row

\* Every step of a request, of the server or of the environment keeps the types.
LEMMA TypeStep == TypeOK /\ HasKey /\ [Next]_vars => TypeOK'
<1> SUFFICES ASSUME TypeOK, HasKey, [Next]_vars PROVE TypeOK'
  OBVIOUS
<1> USE DEF TypeOK, Goto, PC, Owning, TxState, Reply, Status
<1>1. ASSUME NEW r \in Requests, RejectEarly(r) \/ Arrive(r) PROVE TypeOK'
  <2>1. CASE RejectEarly(r)
    BY <2>1 DEF RejectEarly, Finish, Write
  <2>2. CASE Arrive(r)
    BY <2>2 DEF Arrive
  <2> QED
    BY <1>1, <2>1, <2>2
<1>2. ASSUME NEW r \in Requests, Serve(r) PROVE TypeOK'
  <2>1. CASE ClaimOwned(r)
    BY <2>1, ClaimTypeOK DEF ClaimOwned
  <2>2. CASE ClaimTaken(r)
    BY <2>2 DEF ClaimTaken
  <2>3. CASE Lookup(r)
    <3>1. row[KeyOf(r)] \in Row
      BY <2>3 DEF HasKey, Lookup
    <3>2. CASE row[KeyOf(r)].state = "absent"
      BY <2>3, <3>2 DEF Lookup, Finish, Write
    <3>3. CASE row[KeyOf(r)].state # "absent"
      <4>1. ClaimOutcome(r, row[KeyOf(r)]) \in Status
        BY DEF ClaimOutcome
      <4>2. row[KeyOf(r)].resource \in Requests \cup {NoOrder}
        BY <3>1 DEF Row
      <4> QED
        BY <2>3, <3>3, <4>1, <4>2 DEF Lookup, Finish, Write
    <3> QED
      BY <3>2, <3>3
  <2>4. CASE Refuse(r)
    BY <2>4 DEF Refuse, Fail, Write
  <2>5. CASE Begin(r)
    BY <2>5 DEF Begin
  <2>6. CASE WriteOrder(r)
    <3>1. CASE CompleteMatches(KeyOf(r))
      BY <2>6, <3>1 DEF WriteOrder
    <3>2. CASE ~CompleteMatches(KeyOf(r))
      BY <2>6, <3>2 DEF WriteOrder, Fail, Write
    <3> QED
      BY <3>1, <3>2
  <2>7. CASE SendCommit(r)
    BY <2>7 DEF SendCommit
  <2>8. CASE CommitReturns(r)
    BY <2>8 DEF CommitReturns
  <2>9. CASE Respond(r)
    BY <2>9 DEF Respond, Finish, Write
  <2>10. CASE Release(r)
    BY <2>10, AbsentTypeOK DEF Release
  <2> QED
    BY <1>2, <2>1, <2>2, <2>3, <2>4, <2>5, <2>6, <2>7, <2>8, <2>9, <2>10 DEF Serve
<1>3. ASSUME NEW r \in Requests, Fault(r) PROVE TypeOK'
  <2>1. CASE ClaimFails(r)
    BY <2>1 DEF ClaimFails, Finish, Write
  <2>2. CASE LookupFails(r)
    BY <2>2 DEF LookupFails, Finish, Write
  <2>3. CASE BeginFails(r)
    BY <2>3 DEF BeginFails, Fail, Write
  <2>4. CASE TxFails(r)
    BY <2>4 DEF TxFails, Fail, Write
  <2>5. CASE CommitFails(r)
    BY <2>5 DEF CommitFails, Fail, Write
  <2>6. CASE Panic(r)
    BY <2>6 DEF Panic, PanicEndsIn, AfterPanic, Write
  <2>7. CASE ReleaseFails(r)
    BY <2>7 DEF ReleaseFails
  <2>8. CASE Disconnect(r)
    BY <2>8 DEF Disconnect
  <2> QED
    BY <1>3, <2>1, <2>2, <2>3, <2>4, <2>5, <2>6, <2>7, <2>8 DEF Fault
<1>4. ASSUME NEW r \in Requests, Database(r) PROVE TypeOK'
  <2>1. CASE CommitApplies(r)
    BY <2>1, CompletedTypeOK DEF CommitApplies, HasKey
  <2>2. CASE CommitLost(r)
    BY <2>2 DEF CommitLost
  <2>3. CASE ServerAborts(r)
    BY <2>3 DEF ServerAborts
  <2>4. CASE StrayRuns(r)
    BY <2>4, ClaimTypeOK, AbsentTypeOK DEF StrayRuns, HasKey
  <2>5. CASE StrayLost(r)
    BY <2>5 DEF StrayLost
  <2> QED
    BY <1>4, <2>1, <2>2, <2>3, <2>4, <2>5 DEF Database
<1>5. ASSUME NEW i \in Instances, Crash(i) PROVE TypeOK'
  BY <1>5 DEF Crash
<1>6. ASSUME NEW k \in Keys, HandDelete(k) PROVE TypeOK'
  BY <1>6, AbsentTypeOK DEF HandDelete
<1>7. CASE UNCHANGED vars
  BY <1>7 DEF vars
<1> QED
  BY <1>1, <1>2, <1>3, <1>4, <1>5, <1>6, <1>7 DEF Next, Quiet

\* Require lets no request without a key past its first check.
LEMMA KeyStep == TypeOK /\ HasKey /\ [Next]_vars => HasKey'
<1> SUFFICES ASSUME TypeOK, HasKey, [Next]_vars PROVE HasKey'
  OBVIOUS
<1> USE DEF TypeOK, HasKey, KeyOf, Goto
<1>1. ASSUME NEW r \in Requests, RejectEarly(r) \/ Arrive(r) PROVE HasKey'
  <2>1. CASE RejectEarly(r)
    BY <2>1 DEF RejectEarly, Finish, Write, Request
  <2>2. CASE Arrive(r)
    BY <2>2 DEF Arrive, Request
  <2> QED
    BY <1>1, <2>1, <2>2
<1>2. ASSUME NEW r \in Requests, Serve(r) PROVE HasKey'
  <2>1. CASE ClaimOwned(r)
    BY <2>1 DEF ClaimOwned
  <2>2. CASE ClaimTaken(r)
    BY <2>2 DEF ClaimTaken
  <2>3. CASE Lookup(r)
    BY <2>3 DEF Lookup, Finish, Write, ClaimOutcome
  <2>4. CASE Refuse(r)
    BY <2>4 DEF Refuse, Fail, Write
  <2>5. CASE Begin(r)
    BY <2>5 DEF Begin
  <2>6. CASE WriteOrder(r)
    BY <2>6 DEF WriteOrder, Fail, Write
  <2>7. CASE SendCommit(r)
    BY <2>7 DEF SendCommit
  <2>8. CASE CommitReturns(r)
    BY <2>8 DEF CommitReturns
  <2>9. CASE Respond(r)
    BY <2>9 DEF Respond, Finish, Write
  <2>10. CASE Release(r)
    BY <2>10 DEF Release
  <2> QED
    BY <1>2, <2>1, <2>2, <2>3, <2>4, <2>5, <2>6, <2>7, <2>8, <2>9, <2>10 DEF Serve
<1>3. ASSUME NEW r \in Requests, Fault(r) PROVE HasKey'
  <2>1. CASE ClaimFails(r)
    BY <2>1 DEF ClaimFails, Finish, Write
  <2>2. CASE LookupFails(r)
    BY <2>2 DEF LookupFails, Finish, Write
  <2>3. CASE BeginFails(r)
    BY <2>3 DEF BeginFails, Fail, Write
  <2>4. CASE TxFails(r)
    BY <2>4 DEF TxFails, Fail, Write
  <2>5. CASE CommitFails(r)
    BY <2>5 DEF CommitFails, Fail, Write
  <2>6. CASE Panic(r)
    BY <2>6 DEF Panic, PanicEndsIn, AfterPanic, Write
  <2>7. CASE ReleaseFails(r)
    BY <2>7 DEF ReleaseFails
  <2>8. CASE Disconnect(r)
    BY <2>8 DEF Disconnect
  <2> QED
    BY <1>3, <2>1, <2>2, <2>3, <2>4, <2>5, <2>6, <2>7, <2>8 DEF Fault
<1>4. ASSUME NEW r \in Requests, Database(r) PROVE HasKey'
  <2>1. CASE CommitApplies(r)
    BY <2>1 DEF CommitApplies
  <2>2. CASE CommitLost(r)
    BY <2>2 DEF CommitLost
  <2>3. CASE ServerAborts(r)
    BY <2>3 DEF ServerAborts
  <2>4. CASE StrayRuns(r)
    BY <2>4 DEF StrayRuns
  <2>5. CASE StrayLost(r)
    BY <2>5 DEF StrayLost
  <2> QED
    BY <1>4, <2>1, <2>2, <2>3, <2>4, <2>5 DEF Database
<1>5. ASSUME NEW i \in Instances, Crash(i) PROVE HasKey'
  BY <1>5 DEF Crash
<1>6. ASSUME NEW k \in Keys, HandDelete(k) PROVE HasKey'
  BY <1>6 DEF HandDelete
<1>7. CASE UNCHANGED vars
  BY <1>7 DEF vars
<1> QED
  BY <1>1, <1>2, <1>3, <1>4, <1>5, <1>6, <1>7 DEF Next, Quiet

-----------------------------------------------------------------------------
(* Safety under every fault *)

\* Release, Claim and a deletion by hand leave alone the row that the UPDATE of
\* Complete has locked, and two transactions never lock the same row.
LEMMA LockStep == SafetyInv /\ [Next]_vars => RowLocked'
<1> SUFFICES ASSUME SafetyInv, [Next]_vars PROVE RowLocked'
  OBVIOUS
<1> USE DEF SafetyInv, TypeOK, RowLocked, KeyOf, Goto
<1>1. ASSUME NEW r \in Requests, RejectEarly(r) \/ Arrive(r) PROVE RowLocked'
  <2>1. CASE RejectEarly(r)
    BY <2>1 DEF RejectEarly, Finish, Write
  <2>2. CASE Arrive(r)
    BY <2>2 DEF Arrive
  <2> QED
    BY <1>1, <2>1, <2>2
<1>2. ASSUME NEW r \in Requests, Serve(r) PROVE RowLocked'
  <2>1. CASE ClaimOwned(r)
    BY <2>1 DEF ClaimOwned, Unlocked, ClaimInserts, ReleaseCanRun, ReleaseMatches, CompleteMatches
  <2>2. CASE ClaimTaken(r)
    BY <2>2 DEF ClaimTaken
  <2>3. CASE Lookup(r)
    BY <2>3 DEF Lookup, Finish, Write, ClaimOutcome
  <2>4. CASE Refuse(r)
    BY <2>4 DEF Refuse, Fail, Write
  <2>5. CASE Begin(r)
    BY <2>5 DEF Begin
  <2>6. CASE WriteOrder(r)
    BY <2>6 DEF WriteOrder, Fail, Write, Unlocked, ClaimInserts, ReleaseCanRun, ReleaseMatches, CompleteMatches
  <2>7. CASE SendCommit(r)
    BY <2>7 DEF SendCommit, ReadyToCommit
  <2>8. CASE CommitReturns(r)
    BY <2>8 DEF CommitReturns
  <2>9. CASE Respond(r)
    BY <2>9 DEF Respond, Finish, Write
  <2>10. CASE Release(r)
    BY <2>10 DEF Release, Unlocked, ClaimInserts, ReleaseCanRun, ReleaseMatches, CompleteMatches
  <2> QED
    BY <1>2, <2>1, <2>2, <2>3, <2>4, <2>5, <2>6, <2>7, <2>8, <2>9, <2>10 DEF Serve
<1>3. ASSUME NEW r \in Requests, Fault(r) PROVE RowLocked'
  <2>1. CASE ClaimFails(r)
    BY <2>1 DEF ClaimFails, Finish, Write
  <2>2. CASE LookupFails(r)
    BY <2>2 DEF LookupFails, Finish, Write
  <2>3. CASE BeginFails(r)
    BY <2>3 DEF BeginFails, Fail, Write
  <2>4. CASE TxFails(r)
    BY <2>4 DEF TxFails, Fail, Write
  <2>5. CASE CommitFails(r)
    BY <2>5 DEF CommitFails, Fail, Write
  <2>6. CASE Panic(r)
    BY <2>6 DEF Panic, PanicEndsIn, AfterPanic, Write
  <2>7. CASE ReleaseFails(r)
    BY <2>7 DEF ReleaseFails
  <2>8. CASE Disconnect(r)
    BY <2>8 DEF Disconnect
  <2> QED
    BY <1>3, <2>1, <2>2, <2>3, <2>4, <2>5, <2>6, <2>7, <2>8 DEF Fault
<1>4. ASSUME NEW r \in Requests, Database(r) PROVE RowLocked'
  <2>1. CASE CommitApplies(r)
    BY <2>1 DEF CommitApplies, Completed
  <2>2. CASE CommitLost(r)
    BY <2>2 DEF CommitLost
  <2>3. CASE ServerAborts(r)
    BY <2>3 DEF ServerAborts
  <2>4. CASE StrayRuns(r)
    <3>1. \A s \in Requests : tx[s] \in {"locked", "committing"} => KeyOf(s) \in Keys
      BY DEF HasKey
    <3>2. ClaimInserts(KeyOf(r)) => Unlocked(KeyOf(r))
      BY <3>1 DEF ClaimInserts, Unlocked
    <3>3. tx' = tx /\ req' = req
      BY <2>4 DEF StrayRuns
    <3>4. \A k \in Keys : row'[k] # row[k] => Unlocked(k)
      BY <2>4, <3>2 DEF StrayRuns, ReleaseCanRun, HasKey
    <3> QED
      BY <3>1, <3>3, <3>4 DEF Unlocked
  <2>5. CASE StrayLost(r)
    BY <2>5 DEF StrayLost
  <2> QED
    BY <1>4, <2>1, <2>2, <2>3, <2>4, <2>5 DEF Database
<1>5. ASSUME NEW i \in Instances, Crash(i) PROVE RowLocked'
  BY <1>5 DEF Crash
<1>6. ASSUME NEW k \in Keys, HandDelete(k) PROVE RowLocked'
  BY <1>6 DEF HandDelete, Unlocked
<1>7. CASE UNCHANGED vars
  BY <1>7 DEF vars
<1> QED
  BY <1>1, <1>2, <1>3, <1>4, <1>5, <1>6, <1>7 DEF Next, Quiet

\* WithTx sends COMMIT only for a transaction that is alive and holds its row.
LEMMA ReadyStep == SafetyInv /\ [Next]_vars => ReadyToCommit'
<1> SUFFICES ASSUME SafetyInv, [Next]_vars PROVE ReadyToCommit'
  OBVIOUS
<1> USE DEF SafetyInv, TypeOK, ReadyToCommit, KeyOf, Goto
<1>1. ASSUME NEW r \in Requests, RejectEarly(r) \/ Arrive(r) PROVE ReadyToCommit'
  <2>1. CASE RejectEarly(r)
    BY <2>1 DEF RejectEarly, Finish, Write
  <2>2. CASE Arrive(r)
    BY <2>2 DEF Arrive
  <2> QED
    BY <1>1, <2>1, <2>2
<1>2. ASSUME NEW r \in Requests, Serve(r) PROVE ReadyToCommit'
  <2>1. CASE ClaimOwned(r)
    BY <2>1 DEF ClaimOwned
  <2>2. CASE ClaimTaken(r)
    BY <2>2 DEF ClaimTaken
  <2>3. CASE Lookup(r)
    BY <2>3 DEF Lookup, Finish, Write, ClaimOutcome
  <2>4. CASE Refuse(r)
    BY <2>4 DEF Refuse, Fail, Write
  <2>5. CASE Begin(r)
    BY <2>5 DEF Begin
  <2>6. CASE WriteOrder(r)
    BY <2>6 DEF WriteOrder, Fail, Write
  <2>7. CASE SendCommit(r)
    BY <2>7 DEF SendCommit
  <2>8. CASE CommitReturns(r)
    BY <2>8 DEF CommitReturns
  <2>9. CASE Respond(r)
    BY <2>9 DEF Respond, Finish, Write
  <2>10. CASE Release(r)
    BY <2>10 DEF Release
  <2> QED
    BY <1>2, <2>1, <2>2, <2>3, <2>4, <2>5, <2>6, <2>7, <2>8, <2>9, <2>10 DEF Serve
<1>3. ASSUME NEW r \in Requests, Fault(r) PROVE ReadyToCommit'
  <2>1. CASE ClaimFails(r)
    BY <2>1 DEF ClaimFails, Finish, Write
  <2>2. CASE LookupFails(r)
    BY <2>2 DEF LookupFails, Finish, Write
  <2>3. CASE BeginFails(r)
    BY <2>3 DEF BeginFails, Fail, Write
  <2>4. CASE TxFails(r)
    BY <2>4 DEF TxFails, Fail, Write
  <2>5. CASE CommitFails(r)
    BY <2>5 DEF CommitFails, Fail, Write
  <2>6. CASE Panic(r)
    BY <2>6 DEF Panic, PanicEndsIn, AfterPanic, Write
  <2>7. CASE ReleaseFails(r)
    BY <2>7 DEF ReleaseFails
  <2>8. CASE Disconnect(r)
    BY <2>8 DEF Disconnect
  <2> QED
    BY <1>3, <2>1, <2>2, <2>3, <2>4, <2>5, <2>6, <2>7, <2>8 DEF Fault
<1>4. ASSUME NEW r \in Requests, Database(r) PROVE ReadyToCommit'
  <2>1. CASE CommitApplies(r)
    BY <2>1 DEF CommitApplies
  <2>2. CASE CommitLost(r)
    BY <2>2 DEF CommitLost
  <2>3. CASE ServerAborts(r)
    BY <2>3 DEF ServerAborts
  <2>4. CASE StrayRuns(r)
    BY <2>4 DEF StrayRuns
  <2>5. CASE StrayLost(r)
    BY <2>5 DEF StrayLost
  <2> QED
    BY <1>4, <2>1, <2>2, <2>3, <2>4, <2>5 DEF Database
<1>5. ASSUME NEW i \in Instances, Crash(i) PROVE ReadyToCommit'
  BY <1>5 DEF Crash
<1>6. ASSUME NEW k \in Keys, HandDelete(k) PROVE ReadyToCommit'
  BY <1>6 DEF HandDelete
<1>7. CASE UNCHANGED vars
  BY <1>7 DEF vars
<1> QED
  BY <1>1, <1>2, <1>3, <1>4, <1>5, <1>6, <1>7 DEF Next, Quiet

\* The commit of CreateOrder, and nothing else, completes keys and makes orders.
LEMMA CompletedStep == SafetyInv /\ [Next]_vars => CompletedIffOrder'
<1> SUFFICES ASSUME SafetyInv, [Next]_vars PROVE CompletedIffOrder'
  OBVIOUS
<1> USE DEF SafetyInv, TypeOK, CompletedIffOrder, KeyOf, Goto
<1>1. ASSUME NEW r \in Requests, RejectEarly(r) \/ Arrive(r) PROVE CompletedIffOrder'
  <2>1. CASE RejectEarly(r)
    BY <2>1 DEF RejectEarly, Finish, Write
  <2>2. CASE Arrive(r)
    BY <2>2 DEF Arrive
  <2> QED
    BY <1>1, <2>1, <2>2
<1>2. ASSUME NEW r \in Requests, Serve(r) PROVE CompletedIffOrder'
  <2>1. CASE ClaimOwned(r)
    BY <2>1 DEF ClaimOwned, ClaimInserts, ClaimedBy
  <2>2. CASE ClaimTaken(r)
    BY <2>2 DEF ClaimTaken
  <2>3. CASE Lookup(r)
    BY <2>3 DEF Lookup, Finish, Write, ClaimOutcome
  <2>4. CASE Refuse(r)
    BY <2>4 DEF Refuse, Fail, Write
  <2>5. CASE Begin(r)
    BY <2>5 DEF Begin
  <2>6. CASE WriteOrder(r)
    BY <2>6 DEF WriteOrder, Fail, Write
  <2>7. CASE SendCommit(r)
    BY <2>7 DEF SendCommit
  <2>8. CASE CommitReturns(r)
    BY <2>8 DEF CommitReturns
  <2>9. CASE Respond(r)
    BY <2>9 DEF Respond, Finish, Write
  <2>10. CASE Release(r)
    BY <2>10 DEF Release, ReleaseMatches, Absent
  <2> QED
    BY <1>2, <2>1, <2>2, <2>3, <2>4, <2>5, <2>6, <2>7, <2>8, <2>9, <2>10 DEF Serve
<1>3. ASSUME NEW r \in Requests, Fault(r) PROVE CompletedIffOrder'
  <2>1. CASE ClaimFails(r)
    BY <2>1 DEF ClaimFails, Finish, Write
  <2>2. CASE LookupFails(r)
    BY <2>2 DEF LookupFails, Finish, Write
  <2>3. CASE BeginFails(r)
    BY <2>3 DEF BeginFails, Fail, Write
  <2>4. CASE TxFails(r)
    BY <2>4 DEF TxFails, Fail, Write
  <2>5. CASE CommitFails(r)
    BY <2>5 DEF CommitFails, Fail, Write
  <2>6. CASE Panic(r)
    BY <2>6 DEF Panic, PanicEndsIn, AfterPanic, Write
  <2>7. CASE ReleaseFails(r)
    BY <2>7 DEF ReleaseFails
  <2>8. CASE Disconnect(r)
    BY <2>8 DEF Disconnect
  <2> QED
    BY <1>3, <2>1, <2>2, <2>3, <2>4, <2>5, <2>6, <2>7, <2>8 DEF Fault
<1>4. ASSUME NEW r \in Requests, Database(r) PROVE CompletedIffOrder'
  <2>1. CASE CommitApplies(r)
    BY <2>1 DEF CommitApplies, RowLocked, HasKey, Completed, Row
  <2>2. CASE CommitLost(r)
    BY <2>2 DEF CommitLost
  <2>3. CASE ServerAborts(r)
    BY <2>3 DEF ServerAborts
  <2>4. CASE StrayRuns(r)
    BY <2>4 DEF StrayRuns, ReleaseMatches, ClaimInserts, ClaimedBy, Absent
  <2>5. CASE StrayLost(r)
    BY <2>5 DEF StrayLost
  <2> QED
    BY <1>4, <2>1, <2>2, <2>3, <2>4, <2>5 DEF Database
<1>5. ASSUME NEW i \in Instances, Crash(i) PROVE CompletedIffOrder'
  BY <1>5 DEF Crash
<1>6. ASSUME NEW k \in Keys, HandDelete(k) PROVE CompletedIffOrder'
  BY <1>6 DEF HandDelete, Absent
<1>7. CASE UNCHANGED vars
  BY <1>7 DEF vars
<1> QED
  BY <1>1, <1>2, <1>3, <1>4, <1>5, <1>6, <1>7 DEF Next, Quiet

\* What a request that finds the key taken is told.
LEMMA LookupTells ==
    ASSUME TypeOK, HasKey, NEW r \in Requests, Lookup(r)
    PROVE  /\ reply' = [reply EXCEPT ![r] = [status |-> reply'[r].status,
                                          order |-> reply'[r].order]]
           /\ reply'[r].status \in {"error", "conflict", "processing", "replayed"}
           /\ reply'[r].status # "replayed" => reply'[r].order = NoOrder
           /\ reply'[r].status = "replayed" =>
                /\ row[KeyOf(r)].state = "completed"
                /\ row[KeyOf(r)].hash = HashOf(r)
                /\ reply'[r].order = row[KeyOf(r)].resource
<1> USE DEF TypeOK, Lookup, Finish, Write
<1>1. CASE row[KeyOf(r)].state = "absent"
  <2>1. reply' = [reply EXCEPT ![r] = [status |-> "error", order |-> NoOrder]]
    BY <1>1
  <2> QED
    BY <2>1
<1>2. CASE row[KeyOf(r)].state # "absent"
  <2> DEFINE o == ClaimOutcome(r, row[KeyOf(r)])
  <2>1. reply' = [reply EXCEPT ![r] =
                    [status |-> o, order |-> IF o = "replayed" THEN row[KeyOf(r)].resource
                                                               ELSE NoOrder]]
    BY <1>2
  <2>2. /\ o \in {"conflict", "processing", "replayed"}
        /\ o = "replayed" => /\ row[KeyOf(r)].state = "completed"
                             /\ row[KeyOf(r)].hash = HashOf(r)
    BY DEF ClaimOutcome
  <2>3. reply'[r] = [status |-> o, order |-> IF o = "replayed" THEN row[KeyOf(r)].resource
                                                              ELSE NoOrder]
    BY <2>1
  <2> QED
    BY <2>1, <2>2, <2>3
<1> QED
  BY <1>1, <1>2

\* Create answers 202 only after Commit returned, and a replay names the order
\* that its key was completed with.
LEMMA AnnouncedStep == SafetyInv /\ [Next]_vars => AnnouncedExists'
<1> SUFFICES ASSUME SafetyInv, [Next]_vars PROVE AnnouncedExists'
  OBVIOUS
<1> USE DEF SafetyInv, TypeOK, AnnouncedExists, TellsOrder, KeyOf, Goto, Reply
<1>1. ASSUME NEW r \in Requests, RejectEarly(r) \/ Arrive(r) PROVE AnnouncedExists'
  <2>1. CASE RejectEarly(r)
    BY <2>1 DEF RejectEarly, Finish, Write
  <2>2. CASE Arrive(r)
    BY <2>2 DEF Arrive
  <2> QED
    BY <1>1, <2>1, <2>2
<1>2. ASSUME NEW r \in Requests, Serve(r) PROVE AnnouncedExists'
  <2>1. CASE ClaimOwned(r)
    BY <2>1 DEF ClaimOwned
  <2>2. CASE ClaimTaken(r)
    BY <2>2 DEF ClaimTaken
  <2>3. CASE Lookup(r)
    <3>1. \A s \in Requests : s # r => reply'[s] = reply[s]
      BY <2>3, LookupTells
    <3>2. TellsOrder(r)' => /\ row[KeyOf(r)].state = "completed"
                           /\ reply'[r].order = row[KeyOf(r)].resource
      BY <2>3, LookupTells
    <3>3. KeyOf(r) \in Keys
      BY <2>3 DEF Lookup, HasKey
    <3>4. TellsOrder(r)' => /\ reply'[r].order \in orders
                           /\ KeyOf(reply'[r].order) = KeyOf(r)
      BY <3>2, <3>3 DEF CompletedIffOrder
    <3>5. orders' = orders /\ req' = req /\ tx' = tx /\ pc' = [pc EXCEPT ![r] = "done"]
      BY <2>3 DEF Lookup, Finish
    <3> QED
      BY <3>1, <3>4, <3>5
  <2>4. CASE Refuse(r)
    BY <2>4 DEF Refuse, Fail, Write
  <2>5. CASE Begin(r)
    BY <2>5 DEF Begin
  <2>6. CASE WriteOrder(r)
    BY <2>6 DEF WriteOrder, Fail, Write
  <2>7. CASE SendCommit(r)
    BY <2>7 DEF SendCommit
  <2>8. CASE CommitReturns(r)
    BY <2>8 DEF CommitReturns
  <2>9. CASE Respond(r)
    BY <2>9 DEF Respond, Finish, Write
  <2>10. CASE Release(r)
    BY <2>10 DEF Release
  <2> QED
    BY <1>2, <2>1, <2>2, <2>3, <2>4, <2>5, <2>6, <2>7, <2>8, <2>9, <2>10 DEF Serve
<1>3. ASSUME NEW r \in Requests, Fault(r) PROVE AnnouncedExists'
  <2>1. CASE ClaimFails(r)
    BY <2>1 DEF ClaimFails, Finish, Write
  <2>2. CASE LookupFails(r)
    BY <2>2 DEF LookupFails, Finish, Write
  <2>3. CASE BeginFails(r)
    BY <2>3 DEF BeginFails, Fail, Write
  <2>4. CASE TxFails(r)
    BY <2>4 DEF TxFails, Fail, Write
  <2>5. CASE CommitFails(r)
    BY <2>5 DEF CommitFails, Fail, Write
  <2>6. CASE Panic(r)
    BY <2>6 DEF Panic, PanicEndsIn, AfterPanic, Write
  <2>7. CASE ReleaseFails(r)
    BY <2>7 DEF ReleaseFails
  <2>8. CASE Disconnect(r)
    BY <2>8 DEF Disconnect
  <2> QED
    BY <1>3, <2>1, <2>2, <2>3, <2>4, <2>5, <2>6, <2>7, <2>8 DEF Fault
<1>4. ASSUME NEW r \in Requests, Database(r) PROVE AnnouncedExists'
  <2>1. CASE CommitApplies(r)
    BY <2>1 DEF CommitApplies
  <2>2. CASE CommitLost(r)
    BY <2>2 DEF CommitLost
  <2>3. CASE ServerAborts(r)
    BY <2>3 DEF ServerAborts
  <2>4. CASE StrayRuns(r)
    BY <2>4 DEF StrayRuns
  <2>5. CASE StrayLost(r)
    BY <2>5 DEF StrayLost
  <2> QED
    BY <1>4, <2>1, <2>2, <2>3, <2>4, <2>5 DEF Database
<1>5. ASSUME NEW i \in Instances, Crash(i) PROVE AnnouncedExists'
  BY <1>5 DEF Crash
<1>6. ASSUME NEW k \in Keys, HandDelete(k) PROVE AnnouncedExists'
  BY <1>6 DEF HandDelete
<1>7. CASE UNCHANGED vars
  BY <1>7 DEF vars
<1> QED
  BY <1>1, <1>2, <1>3, <1>4, <1>5, <1>6, <1>7 DEF Next, Quiet

\* The invariant under the theorems below.  The lock is what makes it
\* inductive: no statement can remove or complete the row that a transaction
\* has updated, however late its COMMIT takes effect.
LEMMA SafetyStep == SafetyInv /\ [Next]_vars => SafetyInv'
BY TypeStep, KeyStep, LockStep, ReadyStep, CompletedStep, AnnouncedStep DEF SafetyInv

\* The invariant holds of the empty tables.
LEMMA SafetyInit == Init => SafetyInv
<1> SUFFICES ASSUME Init PROVE SafetyInv
  OBVIOUS
<1>1. TypeOK
  BY DEF Init, TypeOK, PC, Owning, Reply, Status, Nothing, Row, Absent, TxState
<1>2. HasKey
  BY DEF Init, HasKey
<1>3. RowLocked /\ ReadyToCommit
  BY DEF Init, RowLocked, ReadyToCommit
<1>4. CompletedIffOrder
  BY DEF Init, CompletedIffOrder, Absent
<1>5. AnnouncedExists
  BY DEF Init, AnnouncedExists, TellsOrder, Nothing
<1> QED
  BY <1>1, <1>2, <1>3, <1>4, <1>5 DEF SafetyInv

\* Type correctness and the safety invariant, for every behaviour of the service.
THEOREM SafetyInvariant == Spec => []SafetyInv
BY SafetyInit, SafetyStep, PTL DEF Spec

\* Every variable of the middleware, the handler and the database keeps its type,
\* whatever faults happen.
THEOREM TypeCorrect == Spec => []TypeOK
<1>1. SafetyInv => TypeOK
  BY DEF SafetyInv
<1> QED
  BY <1>1, SafetyInvariant, PTL

\* One key never buys two orders, whatever faults happen: the safety half of
\* what Require, Complete and WithTx are for.
THEOREM OneOrderPerKey == Spec => []AtMostOneOrder
<1>1. SafetyInv => AtMostOneOrder
  BY DEF SafetyInv, CompletedIffOrder, AtMostOneOrder
<1> QED
  BY <1>1, SafetyInvariant, PTL

\* The key and the order it names are committed together by CreateOrder.
THEOREM KeyAndOrderTogether == Spec => []CompletedIffOrder
<1>1. SafetyInv => CompletedIffOrder
  BY DEF SafetyInv
<1> QED
  BY <1>1, SafetyInvariant, PTL

\* Creator and replays of a key are told of one order, and it exists.
THEOREM OneAnswerPerKey == Spec => []RepliesAgree
<1>1. SafetyInv => RepliesAgree
  BY DEF SafetyInv, CompletedIffOrder, AnnouncedExists, RepliesAgree
<1> QED
  BY <1>1, SafetyInvariant, PTL

\* No statement of the service, however late it runs, and no deletion by hand
\* of an in-progress row, changes a completed row.
LEMMA FinalStep ==
    SafetyInv /\ [Next]_vars =>
        \A j \in Keys : row[j].state = "completed" => row'[j] = row[j]
<1> DEFINE Final == \A j \in Keys : row[j].state = "completed" => row'[j] = row[j]
<1> SUFFICES ASSUME SafetyInv, [Next]_vars PROVE Final
  BY DEF Final
<1> USE DEF SafetyInv, TypeOK, KeyOf, Goto
<1>1. ASSUME NEW r \in Requests, RejectEarly(r) \/ Arrive(r) PROVE Final
  <2>1. CASE RejectEarly(r)
    BY <2>1 DEF RejectEarly, Finish, Write
  <2>2. CASE Arrive(r)
    BY <2>2 DEF Arrive
  <2> QED
    BY <1>1, <2>1, <2>2
<1>2. ASSUME NEW r \in Requests, Serve(r) PROVE Final
  <2>1. CASE ClaimOwned(r)
    BY <2>1 DEF ClaimOwned, ClaimInserts
  <2>2. CASE ClaimTaken(r)
    BY <2>2 DEF ClaimTaken
  <2>3. CASE Lookup(r)
    BY <2>3 DEF Lookup, Finish, Write, ClaimOutcome
  <2>4. CASE Refuse(r)
    BY <2>4 DEF Refuse, Fail, Write
  <2>5. CASE Begin(r)
    BY <2>5 DEF Begin
  <2>6. CASE WriteOrder(r)
    BY <2>6 DEF WriteOrder, Fail, Write
  <2>7. CASE SendCommit(r)
    BY <2>7 DEF SendCommit
  <2>8. CASE CommitReturns(r)
    BY <2>8 DEF CommitReturns
  <2>9. CASE Respond(r)
    BY <2>9 DEF Respond, Finish, Write
  <2>10. CASE Release(r)
    BY <2>10 DEF Release, ReleaseMatches
  <2> QED
    BY <1>2, <2>1, <2>2, <2>3, <2>4, <2>5, <2>6, <2>7, <2>8, <2>9, <2>10 DEF Serve
<1>3. ASSUME NEW r \in Requests, Fault(r) PROVE Final
  <2>1. CASE ClaimFails(r)
    BY <2>1 DEF ClaimFails, Finish, Write
  <2>2. CASE LookupFails(r)
    BY <2>2 DEF LookupFails, Finish, Write
  <2>3. CASE BeginFails(r)
    BY <2>3 DEF BeginFails, Fail, Write
  <2>4. CASE TxFails(r)
    BY <2>4 DEF TxFails, Fail, Write
  <2>5. CASE CommitFails(r)
    BY <2>5 DEF CommitFails, Fail, Write
  <2>6. CASE Panic(r)
    BY <2>6 DEF Panic, PanicEndsIn, AfterPanic, Write
  <2>7. CASE ReleaseFails(r)
    BY <2>7 DEF ReleaseFails
  <2>8. CASE Disconnect(r)
    BY <2>8 DEF Disconnect
  <2> QED
    BY <1>3, <2>1, <2>2, <2>3, <2>4, <2>5, <2>6, <2>7, <2>8 DEF Fault
<1>4. ASSUME NEW r \in Requests, Database(r) PROVE Final
  <2>1. CASE CommitApplies(r)
    BY <2>1 DEF CommitApplies, RowLocked
  <2>2. CASE CommitLost(r)
    BY <2>2 DEF CommitLost
  <2>3. CASE ServerAborts(r)
    BY <2>3 DEF ServerAborts
  <2>4. CASE StrayRuns(r)
    BY <2>4 DEF StrayRuns, ReleaseMatches, ClaimInserts
  <2>5. CASE StrayLost(r)
    BY <2>5 DEF StrayLost
  <2> QED
    BY <1>4, <2>1, <2>2, <2>3, <2>4, <2>5 DEF Database
<1>5. ASSUME NEW i \in Instances, Crash(i) PROVE Final
  BY <1>5 DEF Crash
<1>6. ASSUME NEW k \in Keys, HandDelete(k) PROVE Final
  BY <1>6 DEF HandDelete
<1>7. CASE UNCHANGED vars
  BY <1>7 DEF vars
<1> QED
  BY <1>1, <1>2, <1>3, <1>4, <1>5, <1>6, <1>7 DEF Next, Quiet

\* The stored result of a key is there for good.
THEOREM ResultsAreFinal == Spec => CompletedIsFinal
<1>1. SafetyInv /\ [Next]_vars =>
        [\A k \in Keys : row[k].state = "completed" => row'[k] = row[k]]_vars
  BY FinalStep
<1> QED
  BY <1>1, SafetyInvariant, PTL DEF Spec, CompletedIsFinal

-----------------------------------------------------------------------------
(* When no operator deletes rows: who owns a key, and the abstract           *)
(* specification that the service implements                                 *)

\* Every statement leaves rows that tell who made them.
LEMMA RowHonestStep ==
    ASSUME SafetyInv, OwnerInv, "handdelete" \notin Faults, [Next]_vars
    PROVE  RowHonest'
<1> USE DEF SafetyInv, OwnerInv, TypeOK, KeyOf, Goto, RowHonest, HashOf
<1>1. ASSUME NEW r \in Requests, RejectEarly(r) \/ Arrive(r) PROVE RowHonest'
  <2>1. CASE RejectEarly(r)
    BY <2>1 DEF RejectEarly, Finish, Write
  <2>2. CASE Arrive(r)
    BY <2>2 DEF Arrive
  <2> QED
    BY <1>1, <2>1, <2>2
<1>2. ASSUME NEW r \in Requests, Serve(r) PROVE RowHonest'
  <2>1. CASE ClaimOwned(r)
    BY <2>1, NoOrderAssumption DEF ClaimOwned, ClaimInserts, ClaimedBy, HasKey
  <2>2. CASE ClaimTaken(r)
    BY <2>2 DEF ClaimTaken
  <2>3. CASE Lookup(r)
    BY <2>3 DEF Lookup, Finish, Write, ClaimOutcome
  <2>4. CASE Refuse(r)
    BY <2>4 DEF Refuse, Fail, Write
  <2>5. CASE Begin(r)
    BY <2>5 DEF Begin
  <2>6. CASE WriteOrder(r)
    BY <2>6 DEF WriteOrder, Fail, Write
  <2>7. CASE SendCommit(r)
    BY <2>7 DEF SendCommit
  <2>8. CASE CommitReturns(r)
    BY <2>8 DEF CommitReturns
  <2>9. CASE Respond(r)
    BY <2>9 DEF Respond, Finish, Write
  <2>10. CASE Release(r)
    BY <2>10 DEF Release, Absent, HasKey
  <2> QED
    BY <1>2, <2>1, <2>2, <2>3, <2>4, <2>5, <2>6, <2>7, <2>8, <2>9, <2>10 DEF Serve
<1>3. ASSUME NEW r \in Requests, Fault(r) PROVE RowHonest'
  <2>1. CASE ClaimFails(r)
    BY <2>1 DEF ClaimFails, Finish, Write
  <2>2. CASE LookupFails(r)
    BY <2>2 DEF LookupFails, Finish, Write
  <2>3. CASE BeginFails(r)
    BY <2>3 DEF BeginFails, Fail, Write
  <2>4. CASE TxFails(r)
    BY <2>4 DEF TxFails, Fail, Write
  <2>5. CASE CommitFails(r)
    BY <2>5 DEF CommitFails, Fail, Write
  <2>6. CASE Panic(r)
    BY <2>6 DEF Panic, PanicEndsIn, AfterPanic, Write
  <2>7. CASE ReleaseFails(r)
    BY <2>7 DEF ReleaseFails
  <2>8. CASE Disconnect(r)
    BY <2>8 DEF Disconnect
  <2> QED
    BY <1>3, <2>1, <2>2, <2>3, <2>4, <2>5, <2>6, <2>7, <2>8 DEF Fault
<1>4. ASSUME NEW r \in Requests, Database(r) PROVE RowHonest'
  <2>1. CASE CommitApplies(r)
    BY <2>1 DEF CommitApplies, RowLocked, OwnsRow, Completed, HasKey, Row
  <2>2. CASE CommitLost(r)
    BY <2>2 DEF CommitLost
  <2>3. CASE ServerAborts(r)
    BY <2>3 DEF ServerAborts
  <2>4. CASE StrayRuns(r)
    BY <2>4, NoOrderAssumption DEF StrayRuns, ClaimInserts, ClaimedBy, HasKey, Absent
  <2>5. CASE StrayLost(r)
    BY <2>5 DEF StrayLost
  <2> QED
    BY <1>4, <2>1, <2>2, <2>3, <2>4, <2>5 DEF Database
<1>5. ASSUME NEW i \in Instances, Crash(i) PROVE RowHonest'
  BY <1>5 DEF Crash
<1>6. ASSUME NEW k \in Keys, HandDelete(k) PROVE RowHonest'
  BY <1>6 DEF HandDelete
<1>7. CASE UNCHANGED vars
  BY <1>7 DEF vars
<1> QED
  BY <1>1, <1>2, <1>3, <1>4, <1>5, <1>6, <1>7 DEF Next, Quiet

\* A claim passes to nobody while its maker can still end it.
LEMMA OwnsRowStep ==
    ASSUME SafetyInv, OwnerInv, "handdelete" \notin Faults, [Next]_vars
    PROVE  OwnsRow'
<1> USE DEF SafetyInv, OwnerInv, TypeOK, KeyOf, Goto, OwnsRow, Owning
<1>1. ASSUME NEW r \in Requests, RejectEarly(r) \/ Arrive(r) PROVE OwnsRow'
  <2>1. CASE RejectEarly(r)
    BY <2>1 DEF RejectEarly, Finish, Write
  <2>2. CASE Arrive(r)
    BY <2>2 DEF Arrive
  <2> QED
    BY <1>1, <2>1, <2>2
<1>2. ASSUME NEW r \in Requests, Serve(r) PROVE OwnsRow'
  <2>1. CASE ClaimOwned(r)
    BY <2>1, NoOrderAssumption DEF ClaimOwned, RowHonest, ClaimInserts, ClaimedBy, HasKey, Absent
  <2>2. CASE ClaimTaken(r)
    BY <2>2 DEF ClaimTaken
  <2>3. CASE Lookup(r)
    BY <2>3 DEF Lookup, Finish, Write, ClaimOutcome
  <2>4. CASE Refuse(r)
    BY <2>4 DEF Refuse, Fail, Write
  <2>5. CASE Begin(r)
    BY <2>5 DEF Begin
  <2>6. CASE WriteOrder(r)
    BY <2>6 DEF WriteOrder, Fail, Write
  <2>7. CASE SendCommit(r)
    BY <2>7 DEF SendCommit, ReadyToCommit
  <2>8. CASE CommitReturns(r)
    BY <2>8 DEF CommitReturns
  <2>9. CASE Respond(r)
    BY <2>9 DEF Respond, Finish, Write
  <2>10. CASE Release(r)
    BY <2>10, NoOrderAssumption DEF Release, ReleaseCanRun, Unlocked, ReleaseMatches, NoStrayYet, HasKey
  <2> QED
    BY <1>2, <2>1, <2>2, <2>3, <2>4, <2>5, <2>6, <2>7, <2>8, <2>9, <2>10 DEF Serve
<1>3. ASSUME NEW r \in Requests, Fault(r) PROVE OwnsRow'
  <2>1. CASE ClaimFails(r)
    BY <2>1 DEF ClaimFails, Finish, Write
  <2>2. CASE LookupFails(r)
    BY <2>2 DEF LookupFails, Finish, Write
  <2>3. CASE BeginFails(r)
    BY <2>3 DEF BeginFails, Fail, Write
  <2>4. CASE TxFails(r)
    BY <2>4 DEF TxFails, Fail, Write
  <2>5. CASE CommitFails(r)
    BY <2>5 DEF CommitFails, Fail, Write
  <2>6. CASE Panic(r)
    BY <2>6 DEF Panic, PanicEndsIn, AfterPanic, Write
  <2>7. CASE ReleaseFails(r)
    BY <2>7 DEF ReleaseFails
  <2>8. CASE Disconnect(r)
    BY <2>8 DEF Disconnect
  <2> QED
    BY <1>3, <2>1, <2>2, <2>3, <2>4, <2>5, <2>6, <2>7, <2>8 DEF Fault
<1>4. ASSUME NEW r \in Requests, Database(r) PROVE OwnsRow'
  <2>1. CASE CommitApplies(r)
    BY <2>1 DEF CommitApplies, Completed, HasKey
  <2>2. CASE CommitLost(r)
    BY <2>2 DEF CommitLost
  <2>3. CASE ServerAborts(r)
    BY <2>3 DEF ServerAborts
  <2>4. CASE StrayRuns(r)
    BY <2>4, NoOrderAssumption DEF StrayRuns, RowHonest, ClaimInserts, ReleaseCanRun, Unlocked, ReleaseMatches, ClaimedBy, HasKey, NoStrayYet, Absent
  <2>5. CASE StrayLost(r)
    BY <2>5 DEF StrayLost
  <2> QED
    BY <1>4, <2>1, <2>2, <2>3, <2>4, <2>5 DEF Database
<1>5. ASSUME NEW i \in Instances, Crash(i) PROVE OwnsRow'
  BY <1>5 DEF Crash
<1>6. ASSUME NEW k \in Keys, HandDelete(k) PROVE OwnsRow'
  BY <1>6 DEF HandDelete
<1>7. CASE UNCHANGED vars
  BY <1>7 DEF vars
<1> QED
  BY <1>1, <1>2, <1>3, <1>4, <1>5, <1>6, <1>7 DEF Next, Quiet

\* Statements are left behind only by requests that have ended.
LEMMA NoStrayYetStep ==
    ASSUME SafetyInv, OwnerInv, "handdelete" \notin Faults, [Next]_vars
    PROVE  NoStrayYet'
<1> USE DEF SafetyInv, OwnerInv, TypeOK, KeyOf, Goto, NoStrayYet
<1>1. ASSUME NEW r \in Requests, RejectEarly(r) \/ Arrive(r) PROVE NoStrayYet'
  <2>1. CASE RejectEarly(r)
    BY <2>1 DEF RejectEarly, Finish, Write
  <2>2. CASE Arrive(r)
    BY <2>2 DEF Arrive
  <2> QED
    BY <1>1, <2>1, <2>2
<1>2. ASSUME NEW r \in Requests, Serve(r) PROVE NoStrayYet'
  <2>1. CASE ClaimOwned(r)
    BY <2>1 DEF ClaimOwned
  <2>2. CASE ClaimTaken(r)
    BY <2>2 DEF ClaimTaken
  <2>3. CASE Lookup(r)
    BY <2>3 DEF Lookup, Finish, Write, ClaimOutcome
  <2>4. CASE Refuse(r)
    BY <2>4 DEF Refuse, Fail, Write
  <2>5. CASE Begin(r)
    BY <2>5 DEF Begin
  <2>6. CASE WriteOrder(r)
    BY <2>6 DEF WriteOrder, Fail, Write
  <2>7. CASE SendCommit(r)
    BY <2>7 DEF SendCommit
  <2>8. CASE CommitReturns(r)
    BY <2>8 DEF CommitReturns
  <2>9. CASE Respond(r)
    BY <2>9 DEF Respond, Finish, Write
  <2>10. CASE Release(r)
    BY <2>10 DEF Release
  <2> QED
    BY <1>2, <2>1, <2>2, <2>3, <2>4, <2>5, <2>6, <2>7, <2>8, <2>9, <2>10 DEF Serve
<1>3. ASSUME NEW r \in Requests, Fault(r) PROVE NoStrayYet'
  <2>1. CASE ClaimFails(r)
    BY <2>1 DEF ClaimFails, Finish, Write
  <2>2. CASE LookupFails(r)
    BY <2>2 DEF LookupFails, Finish, Write
  <2>3. CASE BeginFails(r)
    BY <2>3 DEF BeginFails, Fail, Write
  <2>4. CASE TxFails(r)
    BY <2>4 DEF TxFails, Fail, Write
  <2>5. CASE CommitFails(r)
    BY <2>5 DEF CommitFails, Fail, Write
  <2>6. CASE Panic(r)
    BY <2>6 DEF Panic, PanicEndsIn, AfterPanic, Write
  <2>7. CASE ReleaseFails(r)
    BY <2>7 DEF ReleaseFails
  <2>8. CASE Disconnect(r)
    BY <2>8 DEF Disconnect
  <2> QED
    BY <1>3, <2>1, <2>2, <2>3, <2>4, <2>5, <2>6, <2>7, <2>8 DEF Fault
<1>4. ASSUME NEW r \in Requests, Database(r) PROVE NoStrayYet'
  <2>1. CASE CommitApplies(r)
    BY <2>1 DEF CommitApplies
  <2>2. CASE CommitLost(r)
    BY <2>2 DEF CommitLost
  <2>3. CASE ServerAborts(r)
    BY <2>3 DEF ServerAborts
  <2>4. CASE StrayRuns(r)
    BY <2>4 DEF StrayRuns
  <2>5. CASE StrayLost(r)
    BY <2>5 DEF StrayLost
  <2> QED
    BY <1>4, <2>1, <2>2, <2>3, <2>4, <2>5 DEF Database
<1>5. ASSUME NEW i \in Instances, Crash(i) PROVE NoStrayYet'
  BY <1>5 DEF Crash
<1>6. ASSUME NEW k \in Keys, HandDelete(k) PROVE NoStrayYet'
  BY <1>6 DEF HandDelete
<1>7. CASE UNCHANGED vars
  BY <1>7 DEF vars
<1> QED
  BY <1>1, <1>2, <1>3, <1>4, <1>5, <1>6, <1>7 DEF Next, Quiet

\* A replay is given only for the digest stored with the key.
LEMMA ReplayMatchesBodyStep ==
    ASSUME SafetyInv, OwnerInv, "handdelete" \notin Faults, [Next]_vars
    PROVE  ReplayMatchesBody'
<1> USE DEF SafetyInv, OwnerInv, TypeOK, KeyOf, Goto, ReplayMatchesBody, HashOf, Reply
<1>1. ASSUME NEW r \in Requests, RejectEarly(r) \/ Arrive(r) PROVE ReplayMatchesBody'
  <2>1. CASE RejectEarly(r)
    BY <2>1 DEF RejectEarly, Finish, Write
  <2>2. CASE Arrive(r)
    BY <2>2 DEF Arrive
  <2> QED
    BY <1>1, <2>1, <2>2
<1>2. ASSUME NEW r \in Requests, Serve(r) PROVE ReplayMatchesBody'
  <2>1. CASE ClaimOwned(r)
    BY <2>1 DEF ClaimOwned
  <2>2. CASE ClaimTaken(r)
    BY <2>2 DEF ClaimTaken
  <2>3. CASE Lookup(r)
    <3>1. \A s \in Requests : s # r => reply'[s] = reply[s]
      BY <2>3, LookupTells
    <3>2. reply'[r].status = "replayed" => HashOf(reply'[r].order) = HashOf(r)
      BY <2>3, LookupTells DEF RowHonest, HasKey, Lookup
    <3>3. req' = req
      BY <2>3 DEF Lookup
    <3> QED
      BY <3>1, <3>2, <3>3
  <2>4. CASE Refuse(r)
    BY <2>4 DEF Refuse, Fail, Write
  <2>5. CASE Begin(r)
    BY <2>5 DEF Begin
  <2>6. CASE WriteOrder(r)
    BY <2>6 DEF WriteOrder, Fail, Write
  <2>7. CASE SendCommit(r)
    BY <2>7 DEF SendCommit
  <2>8. CASE CommitReturns(r)
    BY <2>8 DEF CommitReturns
  <2>9. CASE Respond(r)
    BY <2>9 DEF Respond, Finish, Write
  <2>10. CASE Release(r)
    BY <2>10 DEF Release
  <2> QED
    BY <1>2, <2>1, <2>2, <2>3, <2>4, <2>5, <2>6, <2>7, <2>8, <2>9, <2>10 DEF Serve
<1>3. ASSUME NEW r \in Requests, Fault(r) PROVE ReplayMatchesBody'
  <2>1. CASE ClaimFails(r)
    BY <2>1 DEF ClaimFails, Finish, Write
  <2>2. CASE LookupFails(r)
    BY <2>2 DEF LookupFails, Finish, Write
  <2>3. CASE BeginFails(r)
    BY <2>3 DEF BeginFails, Fail, Write
  <2>4. CASE TxFails(r)
    BY <2>4 DEF TxFails, Fail, Write
  <2>5. CASE CommitFails(r)
    BY <2>5 DEF CommitFails, Fail, Write
  <2>6. CASE Panic(r)
    BY <2>6 DEF Panic, PanicEndsIn, AfterPanic, Write
  <2>7. CASE ReleaseFails(r)
    BY <2>7 DEF ReleaseFails
  <2>8. CASE Disconnect(r)
    BY <2>8 DEF Disconnect
  <2> QED
    BY <1>3, <2>1, <2>2, <2>3, <2>4, <2>5, <2>6, <2>7, <2>8 DEF Fault
<1>4. ASSUME NEW r \in Requests, Database(r) PROVE ReplayMatchesBody'
  <2>1. CASE CommitApplies(r)
    BY <2>1 DEF CommitApplies
  <2>2. CASE CommitLost(r)
    BY <2>2 DEF CommitLost
  <2>3. CASE ServerAborts(r)
    BY <2>3 DEF ServerAborts
  <2>4. CASE StrayRuns(r)
    BY <2>4 DEF StrayRuns
  <2>5. CASE StrayLost(r)
    BY <2>5 DEF StrayLost
  <2> QED
    BY <1>4, <2>1, <2>2, <2>3, <2>4, <2>5 DEF Database
<1>5. ASSUME NEW i \in Instances, Crash(i) PROVE ReplayMatchesBody'
  BY <1>5 DEF Crash
<1>6. ASSUME NEW k \in Keys, HandDelete(k) PROVE ReplayMatchesBody'
  BY <1>6 DEF HandDelete
<1>7. CASE UNCHANGED vars
  BY <1>7 DEF vars
<1> QED
  BY <1>1, <1>2, <1>3, <1>4, <1>5, <1>6, <1>7 DEF Next, Quiet

\* Answers are written once, and what may still commit was at worst told 500.
LEMMA AnsweredOnceStep ==
    ASSUME SafetyInv, OwnerInv, "handdelete" \notin Faults, [Next]_vars
    PROVE  AnsweredOnce'
<1> USE DEF SafetyInv, OwnerInv, TypeOK, KeyOf, Goto, AnsweredOnce, Nothing, Reply, ReadyToCommit
<1>1. ASSUME NEW r \in Requests, RejectEarly(r) \/ Arrive(r) PROVE AnsweredOnce'
  <2>1. CASE RejectEarly(r)
    BY <2>1 DEF RejectEarly, Finish, Write
  <2>2. CASE Arrive(r)
    BY <2>2 DEF Arrive
  <2> QED
    BY <1>1, <2>1, <2>2
<1>2. ASSUME NEW r \in Requests, Serve(r) PROVE AnsweredOnce'
  <2>1. CASE ClaimOwned(r)
    BY <2>1 DEF ClaimOwned
  <2>2. CASE ClaimTaken(r)
    BY <2>2 DEF ClaimTaken
  <2>3. CASE Lookup(r)
    <3>1. \A s \in Requests : s # r => reply'[s] = reply[s]
      BY <2>3, LookupTells
    <3>2. tx' = tx /\ pc' = [pc EXCEPT ![r] = "done"] /\ tx[r] = "none"
      BY <2>3 DEF Lookup, Finish
    <3> QED
      BY <3>1, <3>2
  <2>4. CASE Refuse(r)
    BY <2>4 DEF Refuse, Fail, Write
  <2>5. CASE Begin(r)
    BY <2>5 DEF Begin
  <2>6. CASE WriteOrder(r)
    BY <2>6 DEF WriteOrder, Fail, Write
  <2>7. CASE SendCommit(r)
    BY <2>7 DEF SendCommit
  <2>8. CASE CommitReturns(r)
    BY <2>8 DEF CommitReturns
  <2>9. CASE Respond(r)
    BY <2>9 DEF Respond, Finish, Write, AnnouncedExists, CompletedIffOrder, RowLocked
  <2>10. CASE Release(r)
    BY <2>10 DEF Release
  <2> QED
    BY <1>2, <2>1, <2>2, <2>3, <2>4, <2>5, <2>6, <2>7, <2>8, <2>9, <2>10 DEF Serve
<1>3. ASSUME NEW r \in Requests, Fault(r) PROVE AnsweredOnce'
  <2>1. CASE ClaimFails(r)
    BY <2>1 DEF ClaimFails, Finish, Write
  <2>2. CASE LookupFails(r)
    BY <2>2 DEF LookupFails, Finish, Write
  <2>3. CASE BeginFails(r)
    BY <2>3 DEF BeginFails, Fail, Write
  <2>4. CASE TxFails(r)
    BY <2>4 DEF TxFails, Fail, Write
  <2>5. CASE CommitFails(r)
    BY <2>5 DEF CommitFails, Fail, Write
  <2>6. CASE Panic(r)
    BY <2>6 DEF Panic, PanicEndsIn, AfterPanic, Write
  <2>7. CASE ReleaseFails(r)
    BY <2>7 DEF ReleaseFails
  <2>8. CASE Disconnect(r)
    BY <2>8 DEF Disconnect
  <2> QED
    BY <1>3, <2>1, <2>2, <2>3, <2>4, <2>5, <2>6, <2>7, <2>8 DEF Fault
<1>4. ASSUME NEW r \in Requests, Database(r) PROVE AnsweredOnce'
  <2>1. CASE CommitApplies(r)
    BY <2>1 DEF CommitApplies
  <2>2. CASE CommitLost(r)
    BY <2>2 DEF CommitLost
  <2>3. CASE ServerAborts(r)
    BY <2>3 DEF ServerAborts
  <2>4. CASE StrayRuns(r)
    BY <2>4 DEF StrayRuns
  <2>5. CASE StrayLost(r)
    BY <2>5 DEF StrayLost
  <2> QED
    BY <1>4, <2>1, <2>2, <2>3, <2>4, <2>5 DEF Database
<1>5. ASSUME NEW i \in Instances, Crash(i) PROVE AnsweredOnce'
  BY <1>5 DEF Crash
<1>6. ASSUME NEW k \in Keys, HandDelete(k) PROVE AnsweredOnce'
  BY <1>6 DEF HandDelete
<1>7. CASE UNCHANGED vars
  BY <1>7 DEF vars
<1> QED
  BY <1>1, <1>2, <1>3, <1>4, <1>5, <1>6, <1>7 DEF Next, Quiet

\* Together they are inductive, given the invariant of IdempotencyProofs.
LEMMA OwnerStep ==
    ASSUME "handdelete" \notin Faults
    PROVE  SafetyInv /\ OwnerInv /\ [Next]_vars => OwnerInv'
BY RowHonestStep, OwnsRowStep, NoStrayYetStep, AnsweredOnceStep, ReplayMatchesBodyStep
   DEF OwnerInv

\* The owner invariant holds of the empty tables.
LEMMA OwnerInit == Init => OwnerInv
<1> SUFFICES ASSUME Init PROVE OwnerInv
  OBVIOUS
<1>1. RowHonest
  BY DEF Init, RowHonest, Absent
<1>2. OwnsRow /\ NoStrayYet
  BY DEF Init, OwnsRow, Owning, NoStrayYet
<1>3. AnsweredOnce /\ ReplayMatchesBody
  BY DEF Init, AnsweredOnce, ReplayMatchesBody, Nothing
<1> QED
  BY <1>1, <1>2, <1>3 DEF OwnerInv

\* While no operator deletes rows, the row of a key tells who owns it.
THEOREM OwnerInvariant ==
    ASSUME "handdelete" \notin Faults
    PROVE  Spec => []OwnerInv
BY OwnerInit, OwnerStep, SafetyInvariant, PTL DEF Spec

\* The row that Claim's INSERT made elects one owner until that owner is done.
THEOREM OneOwnerPerKey ==
    ASSUME "handdelete" \notin Faults
    PROVE  Spec => []OneOwner
<1>1. OwnerInv => OneOwner
  BY DEF OwnerInv, OwnsRow, OneOwner
<1> QED
  BY <1>1, OwnerInvariant, PTL

\* A stored answer is never given to a request with another body digest.
THEOREM ReplaysMatch ==
    ASSUME "handdelete" \notin Faults
    PROVE  Spec => []ReplayMatchesBody
<1>1. OwnerInv => ReplayMatchesBody
  BY DEF OwnerInv
<1> QED
  BY <1>1, OwnerInvariant, PTL

\* The steps that rewrite an in-progress row are those of its maker.
LEMMA EndsClaimStep ==
    ASSUME SafetyInv, OwnerInv, "handdelete" \notin Faults, [Next]_vars, NEW j \in Keys,
           row[j].state = "in_progress", row'[j] # row[j]
    PROVE  \/ row'[j] = [row[j] EXCEPT !.state = "completed", !.resource = row[j].by]
           \/ row'[j] = Absent /\ (pc[row[j].by] = "release" \/ stray[row[j].by] = "delete")
<1> DEFINE Goal == \/ row'[j] = [row[j] EXCEPT !.state = "completed", !.resource = row[j].by]
                   \/ /\ row'[j] = Absent
                      /\ pc[row[j].by] = "release" \/ stray[row[j].by] = "delete"
<1> SUFFICES Goal
  OBVIOUS
<1> USE DEF SafetyInv, OwnerInv, TypeOK, KeyOf, Goto
<1>1. ASSUME NEW r \in Requests, RejectEarly(r) \/ Arrive(r) PROVE Goal
  <2>1. CASE RejectEarly(r)
    BY <2>1 DEF RejectEarly, Finish, Write
  <2>2. CASE Arrive(r)
    BY <2>2 DEF Arrive
  <2> QED
    BY <1>1, <2>1, <2>2
<1>2. ASSUME NEW r \in Requests, Serve(r) PROVE Goal
  <2>1. CASE ClaimOwned(r)
    BY <2>1 DEF ClaimOwned, ClaimInserts
  <2>2. CASE ClaimTaken(r)
    BY <2>2 DEF ClaimTaken
  <2>3. CASE Lookup(r)
    BY <2>3 DEF Lookup, Finish, Write, ClaimOutcome
  <2>4. CASE Refuse(r)
    BY <2>4 DEF Refuse, Fail, Write
  <2>5. CASE Begin(r)
    BY <2>5 DEF Begin
  <2>6. CASE WriteOrder(r)
    BY <2>6 DEF WriteOrder, Fail, Write
  <2>7. CASE SendCommit(r)
    BY <2>7 DEF SendCommit
  <2>8. CASE CommitReturns(r)
    BY <2>8 DEF CommitReturns
  <2>9. CASE Respond(r)
    BY <2>9 DEF Respond, Finish, Write
  <2>10. CASE Release(r)
    BY <2>10 DEF Release, OwnsRow, Owning, ReleaseMatches
  <2> QED
    BY <1>2, <2>1, <2>2, <2>3, <2>4, <2>5, <2>6, <2>7, <2>8, <2>9, <2>10 DEF Serve
<1>3. ASSUME NEW r \in Requests, Fault(r) PROVE Goal
  <2>1. CASE ClaimFails(r)
    BY <2>1 DEF ClaimFails, Finish, Write
  <2>2. CASE LookupFails(r)
    BY <2>2 DEF LookupFails, Finish, Write
  <2>3. CASE BeginFails(r)
    BY <2>3 DEF BeginFails, Fail, Write
  <2>4. CASE TxFails(r)
    BY <2>4 DEF TxFails, Fail, Write
  <2>5. CASE CommitFails(r)
    BY <2>5 DEF CommitFails, Fail, Write
  <2>6. CASE Panic(r)
    BY <2>6 DEF Panic, PanicEndsIn, AfterPanic, Write
  <2>7. CASE ReleaseFails(r)
    BY <2>7 DEF ReleaseFails
  <2>8. CASE Disconnect(r)
    BY <2>8 DEF Disconnect
  <2> QED
    BY <1>3, <2>1, <2>2, <2>3, <2>4, <2>5, <2>6, <2>7, <2>8 DEF Fault
<1>4. ASSUME NEW r \in Requests, Database(r) PROVE Goal
  <2>1. CASE CommitApplies(r)
    BY <2>1 DEF CommitApplies, Completed, OwnsRow
  <2>2. CASE CommitLost(r)
    BY <2>2 DEF CommitLost
  <2>3. CASE ServerAborts(r)
    BY <2>3 DEF ServerAborts
  <2>4. CASE StrayRuns(r)
    BY <2>4 DEF StrayRuns, OwnsRow, ClaimInserts, ReleaseMatches
  <2>5. CASE StrayLost(r)
    BY <2>5 DEF StrayLost
  <2> QED
    BY <1>4, <2>1, <2>2, <2>3, <2>4, <2>5 DEF Database
<1>5. ASSUME NEW i \in Instances, Crash(i) PROVE Goal
  BY <1>5 DEF Crash
<1>6. ASSUME NEW k \in Keys, HandDelete(k) PROVE Goal
  BY <1>6 DEF HandDelete
<1>7. CASE UNCHANGED vars
  BY <1>7 DEF vars
<1> QED
  BY <1>1, <1>2, <1>3, <1>4, <1>5, <1>6, <1>7 DEF Next, Quiet

\* Although Release and Complete name only the key, a claim is ended by its maker.
THEOREM ClaimsEndByOwner ==
    ASSUME "handdelete" \notin Faults
    PROVE  Spec => OnlyOwnerEndsClaim
<1> DEFINE Ends == \A k \in Keys :
         row[k].state = "in_progress" /\ row'[k] # row[k] =>
           LET owner == row[k].by IN
           \/ row'[k] = [row[k] EXCEPT !.state = "completed", !.resource = owner]
           \/ row'[k] = Absent /\ (pc[owner] = "release" \/ stray[owner] = "delete")
<1>1. SafetyInv /\ OwnerInv /\ [Next]_vars => [Ends]_vars
  BY EndsClaimStep
<1> QED
  BY <1>1, SafetyInvariant, OwnerInvariant, PTL DEF Spec, OnlyOwnerEndsClaim

-----------------------------------------------------------------------------
(* The service implements IdempotentOrders *)

\* Steps that neither decide a key nor answer are stuttering steps.
LEMMA QuietStep ==
    ASSUME req' = req, reply' = reply,
           \A k \in Keys : row'[k].resource = row[k].resource
    PROVE  UNCHANGED Abstract!vars
BY DEF Abstract!vars, Asked, Result, KeyOf, HashOf

\* An answer that names no order, given by a request that gave none yet.
LEMMA TellStep ==
    ASSUME NEW r \in Requests, reply[r] = Nothing, req' = req, row' = row,
           NEW status \in {"rejected", "error", "conflict", "processing"},
           reply' = [reply EXCEPT ![r] = [status |-> status, order |-> NoOrder]]
    PROVE  Abstract!TellNothing(r)
<1>1. Asked' = Asked /\ Result' = Result
  BY DEF Asked, Result, KeyOf, HashOf
<1>2. reply[r].status = "none"
  BY DEF Nothing
<1> QED
  BY <1>1, <1>2 DEF Abstract!TellNothing, Abstract!Say

\* Every step of the service places an order, answers a request as
\* IdempotentOrders allows, or changes nothing that clients see.
LEMMA RefinementStep ==
    ASSUME SafetyInv, OwnerInv, "handdelete" \notin Faults, [Next]_vars
    PROVE  Abstract!Next \/ UNCHANGED Abstract!vars
<1> DEFINE Goal == Abstract!Next \/ UNCHANGED Abstract!vars
<1> SUFFICES Goal
  OBVIOUS
<1> USE DEF SafetyInv, OwnerInv, TypeOK, KeyOf, HashOf, Goto, AnsweredOnce, Nothing
<1>1. ASSUME NEW r \in Requests, RejectEarly(r) \/ Arrive(r) PROVE Goal
  <2>1. CASE RejectEarly(r)
    <3>1. Abstract!TellNothing(r)
      BY <2>1, TellStep DEF RejectEarly, Finish, Write
    <3> QED
      BY <3>1 DEF Abstract!Next
  <2>2. CASE Arrive(r)
    BY <2>2, QuietStep DEF Arrive
  <2> QED
    BY <1>1, <2>1, <2>2
<1>2. ASSUME NEW r \in Requests, Serve(r) PROVE Goal
  <2>1. CASE ClaimOwned(r)
    BY <2>1, QuietStep DEF ClaimOwned, RowHonest, ClaimInserts, ClaimedBy, ReleaseMatches, Absent, HasKey
  <2>2. CASE ClaimTaken(r)
    BY <2>2, QuietStep DEF ClaimTaken
  <2>3. CASE Lookup(r)
    <3>1. reply[r].status = "none" /\ KeyOf(r) \in Keys
      BY <2>3 DEF Lookup, HasKey
    <3>2. Asked' = Asked /\ Result' = Result
      BY <2>3 DEF Lookup, Asked, Result
    <3>3. CASE reply'[r].status = "replayed"
      <4> DEFINE o == row[KeyOf(r)].resource
      <4>1. /\ reply' = [reply EXCEPT ![r] = [status |-> "replayed", order |-> o]]
            /\ row[KeyOf(r)].state = "completed"
            /\ row[KeyOf(r)].hash = HashOf(r)
        BY <2>3, <3>3, LookupTells
      <4>2. o \in Requests /\ HashOf(o) = HashOf(r)
        BY <3>1, <4>1 DEF RowHonest
      <4>3. Result[Asked[r].key] = o /\ Asked[o].hash = Asked[r].hash /\ Asked[r].key \in Keys
        BY <3>1, <4>2 DEF Result, Asked
      <4>4. Abstract!TellReplayed(r)
        BY <3>1, <3>2, <4>1, <4>2, <4>3, NoOrderAssumption DEF Abstract!TellReplayed, Abstract!Say
      <4> QED
        BY <4>4 DEF Abstract!Next
    <3>4. CASE reply'[r].status # "replayed"
      <4>1. PICK status \in {"error", "conflict", "processing"} :
              reply' = [reply EXCEPT ![r] = [status |-> status, order |-> NoOrder]]
        BY <2>3, <3>4, LookupTells
      <4>2. Abstract!TellNothing(r)
        BY <2>3, <4>1, TellStep DEF Lookup
      <4> QED
        BY <4>2 DEF Abstract!Next
    <3> QED
      BY <3>3, <3>4
  <2>4. CASE Refuse(r)
    <3>1. Abstract!TellNothing(r)
      BY <2>4, TellStep DEF Refuse, Fail, Write
    <3> QED
      BY <3>1 DEF Abstract!Next
  <2>5. CASE Begin(r)
    BY <2>5, QuietStep DEF Begin
  <2>6. CASE WriteOrder(r)
    <3>1. CASE CompleteMatches(KeyOf(r))
      BY <2>6, <3>1, QuietStep DEF WriteOrder
    <3>2. CASE ~CompleteMatches(KeyOf(r))
      <4>1. Abstract!TellNothing(r)
        BY <2>6, <3>2, TellStep DEF WriteOrder, Fail, Write
      <4> QED
        BY <4>1 DEF Abstract!Next
    <3> QED
      BY <3>1, <3>2
  <2>7. CASE SendCommit(r)
    BY <2>7, QuietStep DEF SendCommit
  <2>8. CASE CommitReturns(r)
    BY <2>8, QuietStep DEF CommitReturns
  <2>9. CASE Respond(r)
    <3>1. r \in orders /\ KeyOf(r) \in Keys
      BY <2>9 DEF Respond, AnnouncedExists, HasKey
    <3>2. Result[Asked[r].key] = r /\ Asked[r].key \in Keys /\ Asked' = Asked /\ Result' = Result
      BY <2>9, <3>1 DEF Respond, CompletedIffOrder, Result, Asked
    <3>3. Abstract!TellCreated(r)
      BY <2>9, <3>2 DEF Respond, Finish, Write, Abstract!TellCreated, Abstract!Say
    <3> QED
      BY <3>3 DEF Abstract!Next
  <2>10. CASE Release(r)
    BY <2>10, QuietStep DEF Release, RowHonest, ClaimInserts, ClaimedBy, ReleaseMatches, Absent, HasKey
  <2> QED
    BY <1>2, <2>1, <2>2, <2>3, <2>4, <2>5, <2>6, <2>7, <2>8, <2>9, <2>10 DEF Serve
<1>3. ASSUME NEW r \in Requests, Fault(r) PROVE Goal
  <2>1. CASE ClaimFails(r)
    <3>1. Abstract!TellNothing(r)
      BY <2>1, TellStep DEF ClaimFails, Finish, Write
    <3> QED
      BY <3>1 DEF Abstract!Next
  <2>2. CASE LookupFails(r)
    <3>1. Abstract!TellNothing(r)
      BY <2>2, TellStep DEF LookupFails, Finish, Write
    <3> QED
      BY <3>1 DEF Abstract!Next
  <2>3. CASE BeginFails(r)
    <3>1. Abstract!TellNothing(r)
      BY <2>3, TellStep DEF BeginFails, Fail, Write
    <3> QED
      BY <3>1 DEF Abstract!Next
  <2>4. CASE TxFails(r)
    <3>1. Abstract!TellNothing(r)
      BY <2>4, TellStep DEF TxFails, Fail, Write
    <3> QED
      BY <3>1 DEF Abstract!Next
  <2>5. CASE CommitFails(r)
    <3>1. Abstract!TellNothing(r)
      BY <2>5, TellStep DEF CommitFails, Fail, Write
    <3> QED
      BY <3>1 DEF Abstract!Next
  <2>6. CASE Panic(r)
    <3>1. Abstract!TellNothing(r)
      BY <2>6, TellStep DEF Panic, Write
    <3> QED
      BY <3>1 DEF Abstract!Next
  <2>7. CASE ReleaseFails(r)
    BY <2>7, QuietStep DEF ReleaseFails
  <2>8. CASE Disconnect(r)
    BY <2>8, QuietStep DEF Disconnect
  <2> QED
    BY <1>3, <2>1, <2>2, <2>3, <2>4, <2>5, <2>6, <2>7, <2>8 DEF Fault
<1>4. ASSUME NEW r \in Requests, Database(r) PROVE Goal
  <2>1. CASE CommitApplies(r)
    <3>1. KeyOf(r) \in Keys /\ row[KeyOf(r)].state = "in_progress"
      BY <2>1 DEF CommitApplies, HasKey, RowLocked
    <3>2. Result[Asked[r].key] = NoOrder /\ Asked[r].key \in Keys /\ Asked' = Asked
      BY <2>1, <3>1 DEF CommitApplies, Result, Asked, RowHonest
    <3>3. Result' = [Result EXCEPT ![Asked[r].key] = r]
      BY <2>1, <3>1 DEF CommitApplies, Completed, Result, Asked, Row
    <3>4. reply[r].status \in {"none", "error"} /\ reply' = reply
      BY <2>1 DEF CommitApplies
    <3>5. Abstract!Place(r)
      BY <3>2, <3>3, <3>4 DEF Abstract!Place
    <3> QED
      BY <3>5 DEF Abstract!Next
  <2>2. CASE CommitLost(r)
    BY <2>2, QuietStep DEF CommitLost
  <2>3. CASE ServerAborts(r)
    BY <2>3, QuietStep DEF ServerAborts
  <2>4. CASE StrayRuns(r)
    BY <2>4, QuietStep DEF StrayRuns, RowHonest, ClaimInserts, ClaimedBy, ReleaseMatches, Absent, HasKey
  <2>5. CASE StrayLost(r)
    BY <2>5, QuietStep DEF StrayLost
  <2> QED
    BY <1>4, <2>1, <2>2, <2>3, <2>4, <2>5 DEF Database
<1>5. ASSUME NEW i \in Instances, Crash(i) PROVE Goal
  BY <1>5, QuietStep DEF Crash
<1>6. ASSUME NEW k \in Keys, HandDelete(k) PROVE Goal
  BY <1>6, QuietStep DEF HandDelete, RowHonest, Absent
<1>7. CASE UNCHANGED vars
  BY <1>7, QuietStep DEF vars
<1> QED
  BY <1>1, <1>2, <1>3, <1>4, <1>5, <1>6, <1>7 DEF Next, Quiet

\* What clients of POST /orders see, through every fault but an operator's
\* deletions, is what they could see of IdempotentOrders.
THEOREM Implementation ==
    ASSUME "handdelete" \notin Faults
    PROVE  Spec => ImplementsOrders
<1>1. Init => Abstract!Init
  BY HashAssumption
     DEF Init, Abstract!Init, Asked, Result, KeyOf, HashOf, Request, Nothing, Absent
<1>2. SafetyInv /\ OwnerInv /\ [Next]_vars => [Abstract!Next]_(Abstract!vars)
  BY RefinementStep
<1> QED
  BY <1>1, <1>2, SafetyInvariant, OwnerInvariant, PTL
     DEF Spec, ImplementsOrders, Abstract!Spec

-----------------------------------------------------------------------------
(* A refused request *)

\* A body is refused before Begin, and the answer is kept.
LEMMA RefusedWithoutTxStep ==
    ASSUME SafetyInv, OwnerInv, RejectionInv, [Next]_vars
    PROVE  RefusedWithoutTx'
<1> USE DEF SafetyInv, OwnerInv, RejectionInv, TypeOK, KeyOf, Goto, RefusedWithoutTx, ReadyToCommit, AnsweredOnce, Nothing, Reply
<1>1. ASSUME NEW r \in Requests, RejectEarly(r) \/ Arrive(r) PROVE RefusedWithoutTx'
  <2>1. CASE RejectEarly(r)
    BY <2>1 DEF RejectEarly, Finish, Write
  <2>2. CASE Arrive(r)
    BY <2>2 DEF Arrive
  <2> QED
    BY <1>1, <2>1, <2>2
<1>2. ASSUME NEW r \in Requests, Serve(r) PROVE RefusedWithoutTx'
  <2>1. CASE ClaimOwned(r)
    BY <2>1 DEF ClaimOwned
  <2>2. CASE ClaimTaken(r)
    BY <2>2 DEF ClaimTaken
  <2>3. CASE Lookup(r)
    <3>1. \A s \in Requests : s # r => reply'[s] = reply[s]
      BY <2>3, LookupTells
    <3>2. reply'[r].status # "rejected"
      BY <2>3, LookupTells DEF Lookup
    <3>3. pc' = [pc EXCEPT ![r] = "done"]
          /\ UNCHANGED <<req, gone, row, orders, tx, cut, stray>>
      BY <2>3 DEF Lookup, Finish
    <3> QED
      BY <3>1, <3>2, <3>3
  <2>4. CASE Refuse(r)
    BY <2>4 DEF Refuse, Fail, Write
  <2>5. CASE Begin(r)
    BY <2>5 DEF Begin
  <2>6. CASE WriteOrder(r)
    BY <2>6 DEF WriteOrder, Fail, Write
  <2>7. CASE SendCommit(r)
    BY <2>7 DEF SendCommit
  <2>8. CASE CommitReturns(r)
    BY <2>8 DEF CommitReturns
  <2>9. CASE Respond(r)
    BY <2>9 DEF Respond, Finish, Write
  <2>10. CASE Release(r)
    BY <2>10 DEF Release
  <2> QED
    BY <1>2, <2>1, <2>2, <2>3, <2>4, <2>5, <2>6, <2>7, <2>8, <2>9, <2>10 DEF Serve
<1>3. ASSUME NEW r \in Requests, Fault(r) PROVE RefusedWithoutTx'
  <2>1. CASE ClaimFails(r)
    BY <2>1 DEF ClaimFails, Finish, Write
  <2>2. CASE LookupFails(r)
    BY <2>2 DEF LookupFails, Finish, Write
  <2>3. CASE BeginFails(r)
    BY <2>3 DEF BeginFails, Fail, Write
  <2>4. CASE TxFails(r)
    BY <2>4 DEF TxFails, Fail, Write
  <2>5. CASE CommitFails(r)
    BY <2>5 DEF CommitFails, Fail, Write
  <2>6. CASE Panic(r)
    BY <2>6 DEF Panic, PanicEndsIn, AfterPanic, Write
  <2>7. CASE ReleaseFails(r)
    BY <2>7 DEF ReleaseFails
  <2>8. CASE Disconnect(r)
    BY <2>8 DEF Disconnect
  <2> QED
    BY <1>3, <2>1, <2>2, <2>3, <2>4, <2>5, <2>6, <2>7, <2>8 DEF Fault
<1>4. ASSUME NEW r \in Requests, Database(r) PROVE RefusedWithoutTx'
  <2>1. CASE CommitApplies(r)
    BY <2>1 DEF CommitApplies
  <2>2. CASE CommitLost(r)
    BY <2>2 DEF CommitLost
  <2>3. CASE ServerAborts(r)
    BY <2>3 DEF ServerAborts
  <2>4. CASE StrayRuns(r)
    BY <2>4 DEF StrayRuns
  <2>5. CASE StrayLost(r)
    BY <2>5 DEF StrayLost
  <2> QED
    BY <1>4, <2>1, <2>2, <2>3, <2>4, <2>5 DEF Database
<1>5. ASSUME NEW i \in Instances, Crash(i) PROVE RefusedWithoutTx'
  BY <1>5 DEF Crash
<1>6. ASSUME NEW k \in Keys, HandDelete(k) PROVE RefusedWithoutTx'
  BY <1>6 DEF HandDelete
<1>7. CASE UNCHANGED vars
  BY <1>7 DEF vars
<1> QED
  BY <1>1, <1>2, <1>3, <1>4, <1>5, <1>6, <1>7 DEF Next, Quiet

\* Release frees the key of a refused request, when the database answers.
LEMMA RefusedWithoutRowStep ==
    ASSUME SafetyInv, OwnerInv, RejectionInv, "db" \notin Faults, "handdelete" \notin Faults, [Next]_vars
    PROVE  RefusedWithoutRow'
<1> USE DEF SafetyInv, OwnerInv, RejectionInv, TypeOK, KeyOf, Goto, RefusedWithoutRow, NoRowOf
<1>1. ASSUME NEW r \in Requests, RejectEarly(r) \/ Arrive(r) PROVE RefusedWithoutRow'
  <2>1. CASE RejectEarly(r)
    BY <2>1 DEF RejectEarly, Finish, Write, NoStrayYet
  <2>2. CASE Arrive(r)
    BY <2>2 DEF Arrive
  <2> QED
    BY <1>1, <2>1, <2>2
<1>2. ASSUME NEW r \in Requests, Serve(r) PROVE RefusedWithoutRow'
  <2>1. CASE ClaimOwned(r)
    <3>1. \A k \in Keys : row'[k] = row[k] \/ row'[k].by = r
      BY <2>1 DEF ClaimOwned, ClaimedBy
    <3>2. \A s \in Requests : s # r => pc'[s] = pc[s]
      BY <2>1 DEF ClaimOwned
    <3>3. pc'[r] = "handler" /\ UNCHANGED <<reply, stray>>
      BY <2>1 DEF ClaimOwned
    <3> QED
      BY <3>1, <3>2, <3>3
  <2>2. CASE ClaimTaken(r)
    BY <2>2 DEF ClaimTaken
  <2>3. CASE Lookup(r)
    <3>1. \A s \in Requests : s # r => reply'[s] = reply[s]
      BY <2>3, LookupTells
    <3>2. reply'[r].status # "rejected"
      BY <2>3, LookupTells DEF Lookup
    <3>3. pc' = [pc EXCEPT ![r] = "done"]
          /\ UNCHANGED <<req, gone, row, orders, tx, cut, stray>>
      BY <2>3 DEF Lookup, Finish
    <3> QED
      BY <3>1, <3>2, <3>3
  <2>4. CASE Refuse(r)
    BY <2>4 DEF Refuse, Fail, Write
  <2>5. CASE Begin(r)
    BY <2>5 DEF Begin
  <2>6. CASE WriteOrder(r)
    BY <2>6 DEF WriteOrder, Fail, Write
  <2>7. CASE SendCommit(r)
    BY <2>7 DEF SendCommit
  <2>8. CASE CommitReturns(r)
    BY <2>8 DEF CommitReturns
  <2>9. CASE Respond(r)
    <3>1. reply'[r].status # "rejected"
      BY <2>9 DEF Respond, Finish, Write, Reply
    <3> QED
      BY <2>9, <3>1 DEF Respond, Finish, Write
  <2>10. CASE Release(r)
    <3>1. KeyOf(r) \in Keys
      BY <2>10 DEF Release, HasKey
    <3>2. pc' = [pc EXCEPT ![r] = "done"] /\ UNCHANGED <<reply, stray>>
      BY <2>10 DEF Release
    <3>3. \A k \in Keys : row'[k] = row[k] \/ row'[k].by \notin Requests
      BY <2>10, NoOrderAssumption DEF Release, Absent
    <3>4. ASSUME reply[r].status = "rejected"
          PROVE  NoRowOf(r)' /\ stray[r] = "none"
      <4>1. r \notin orders
        BY <3>4 DEF RefusedWithoutTx
      <4>2. row[KeyOf(r)].state # "completed"
        BY <2>10, <3>1, <4>1 DEF Release, RowHonest, OwnsRow, Owning, CompletedIffOrder
      <4>3. row'[KeyOf(r)].by # r
        BY <2>10, <3>1, <4>2, NoOrderAssumption DEF Release, ReleaseMatches, Absent, RowHonest, Row
      <4>4. \A k \in Keys : k # KeyOf(r) => row[k].by # r
        BY NoOrderAssumption DEF RowHonest, Absent, Row
      <4>5. stray[r] = "none"
        BY <2>10 DEF Release, NoStrayYet
      <4> QED
        BY <3>3, <4>3, <4>4, <4>5
    <3> QED
      BY <3>2, <3>3, <3>4
  <2> QED
    BY <1>2, <2>1, <2>2, <2>3, <2>4, <2>5, <2>6, <2>7, <2>8, <2>9, <2>10 DEF Serve
<1>3. ASSUME NEW r \in Requests, Fault(r) PROVE RefusedWithoutRow'
  <2>1. CASE ClaimFails(r)
    BY <2>1 DEF ClaimFails, Finish, Write
  <2>2. CASE LookupFails(r)
    BY <2>2 DEF LookupFails, Finish, Write
  <2>3. CASE BeginFails(r)
    BY <2>3 DEF BeginFails, Fail, Write
  <2>4. CASE TxFails(r)
    BY <2>4 DEF TxFails, Fail, Write
  <2>5. CASE CommitFails(r)
    BY <2>5 DEF CommitFails, Fail, Write
  <2>6. CASE Panic(r)
    BY <2>6 DEF Panic, PanicEndsIn, AfterPanic, Write
  <2>7. CASE ReleaseFails(r)
    BY <2>7 DEF ReleaseFails
  <2>8. CASE Disconnect(r)
    BY <2>8 DEF Disconnect
  <2> QED
    BY <1>3, <2>1, <2>2, <2>3, <2>4, <2>5, <2>6, <2>7, <2>8 DEF Fault
<1>4. ASSUME NEW r \in Requests, Database(r) PROVE RefusedWithoutRow'
  <2>1. CASE CommitApplies(r)
    <3>1. KeyOf(r) \in Keys
      BY <2>1 DEF CommitApplies, HasKey
    <3>2. \A k \in Keys : row'[k].by = row[k].by
      BY <2>1, <3>1 DEF CommitApplies, Completed
    <3> QED
      BY <2>1, <3>2 DEF CommitApplies
  <2>2. CASE CommitLost(r)
    BY <2>2 DEF CommitLost
  <2>3. CASE ServerAborts(r)
    BY <2>3 DEF ServerAborts
  <2>4. CASE StrayRuns(r)
    <3>1. stray[r] # "none" /\ KeyOf(r) \in Keys
      BY <2>4 DEF StrayRuns, HasKey
    <3>2. \A k \in Keys : row'[k] = row[k] \/ row'[k].by = r \/ row'[k].by \notin Requests
      BY <2>4, <3>1, NoOrderAssumption DEF StrayRuns, ClaimedBy, Absent
    <3>3. pc[r] \in {"done", "dead"}
      BY <3>1 DEF NoStrayYet
    <3> QED
      BY <2>4, <3>1, <3>2, <3>3 DEF StrayRuns
  <2>5. CASE StrayLost(r)
    BY <2>5 DEF StrayLost
  <2> QED
    BY <1>4, <2>1, <2>2, <2>3, <2>4, <2>5 DEF Database
<1>5. ASSUME NEW i \in Instances, Crash(i) PROVE RefusedWithoutRow'
  BY <1>5 DEF Crash
<1>6. ASSUME NEW k \in Keys, HandDelete(k) PROVE RefusedWithoutRow'
  BY <1>6 DEF HandDelete
<1>7. CASE UNCHANGED vars
  BY <1>7 DEF vars
<1> QED
  BY <1>1, <1>2, <1>3, <1>4, <1>5, <1>6, <1>7 DEF Next, Quiet

\* The empty tables satisfy the rejection invariant.
LEMMA RejectionInit == Init => RejectionInv
<1> SUFFICES ASSUME Init PROVE RejectionInv
  OBVIOUS
<1>1. RefusedWithoutTx
  BY DEF Init, RefusedWithoutTx, Nothing
<1>2. RefusedWithoutRow
  BY NoOrderAssumption DEF Init, RefusedWithoutRow, NoRowOf, Nothing, Absent
<1> QED
  BY <1>1, <1>2 DEF RejectionInv

\* "A validation failure records no result, so the client can correct the
\* request and retry under the same key": proved for any requests and keys,
\* across panics, disconnects and crashes, while the database answers.
THEOREM RejectionsFreeKeys ==
    ASSUME "db" \notin Faults, "handdelete" \notin Faults
    PROVE  Spec => []RejectionFreesKey
<1>1. SafetyInv /\ OwnerInv /\ RejectionInv /\ [Next]_vars => RejectionInv'
  BY RefusedWithoutTxStep, RefusedWithoutRowStep DEF RejectionInv
<1>2. RejectionInv => RejectionFreesKey
  BY DEF RejectionInv, RefusedWithoutRow, NoRowOf, RejectionFreesKey
<1> QED
  BY <1>1, <1>2, RejectionInit, OwnerInvariant, SafetyInvariant, PTL DEF Spec
==============================================================================
