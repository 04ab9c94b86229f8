---------------------------- MODULE Idempotency ----------------------------
(***************************************************************************)
(* POST /orders of the order service: the idempotency middleware           *)
(* (internal/idempotency), the Create handler with its use case, and the   *)
(* transaction that writes the order and completes the key.                *)
(*                                                                         *)
(* A step is one database statement, or the code between two of them.  The *)
(* database side of a request lives apart from the request: a COMMIT or a  *)
(* single statement may still be executed after the request stopped        *)
(* waiting for it, and a row lock lasts until the server resolves the      *)
(* transaction, whatever became of the client.                             *)
(***************************************************************************)

CONSTANTS
    Requests,    \* HTTP requests; the order a request creates is named by it
    Keys,        \* Idempotency-Key values
    NoKey,       \* a request without the header
    Bodies,      \* request bodies, as bytes
    Malformed,   \* bodies that json.Unmarshal refuses
    Refused,     \* bodies that parse but that Create answers with a 4xx
    Hashes,
    Hash,        \* the canonical digest of each body
    Instances,   \* processes of the service on one database
    Faults,      \* what may go wrong, see FaultKinds
    NoHash,
    NoOrder

FaultKinds == {"disconnect",  \* the client goes away, its context is cancelled
               "db",          \* any database call may fail, applied or not
               "crash",       \* an instance stops between two steps
               "panic",       \* the handler panics
               "handdelete"}  \* an operator deletes an in-progress row

ASSUME FaultsAssumption == Faults \subseteq FaultKinds
ASSUME HashAssumption == Hash \in [Bodies -> Hashes]
ASSUME BodiesAssumption == Malformed \subseteq Bodies /\ Refused \subseteq Bodies
ASSUME NoOrderAssumption == NoOrder \notin Requests
ASSUME NoKeyAssumption == NoKey \notin Keys

VARIABLES
    req,     \* what each request carries and the instance that serves it
    pc,      \* where the goroutine of each request is
    gone,    \* requests whose context is cancelled
    reply,   \* the answer each request has written
    row,     \* the idempotency_keys table
    orders,  \* the orders table, with their items and OrderCreated events
    tx,      \* the CreateOrder transaction of each request, as the server has it
    cut,     \* requests whose transaction connection died without a rollback
    stray    \* a single statement left running by a call that returned an error

vars == <<req, pc, gone, reply, row, orders, tx, cut, stray>>

-----------------------------------------------------------------------------
(* Types *)

Request == [key: Keys \cup {NoKey}, body: Bodies, inst: Instances]

Row == [state: {"absent", "in_progress", "completed"},
        hash: Hashes \cup {NoHash},
        resource: Requests \cup {NoOrder},
        by: Requests \cup {NoOrder}]      \* by: whose INSERT made the row

Absent == [state |-> "absent", hash |-> NoHash,
           resource |-> NoOrder, by |-> NoOrder]

Status == {"none", "rejected", "error", "conflict", "processing",
           "created", "replayed"}

Reply == [status: Status, order: Requests \cup {NoOrder}]

Nothing == [status |-> "none", order |-> NoOrder]

\* Where a goroutine can be between the claim and the end of Require.
Owning == {"handler", "tx", "commit", "await", "respond", "release"}

PC == {"idle", "claim", "lookup", "done", "dead"} \cup Owning

TxState == {"none", "open", "locked", "committing", "committed", "aborted"}

TypeOK ==
    /\ req \in [Requests -> Request]
    /\ pc \in [Requests -> PC]
    /\ gone \subseteq Requests
    /\ reply \in [Requests -> Reply]
    /\ row \in [Keys -> Row]
    /\ orders \subseteq Requests
    /\ tx \in [Requests -> TxState]
    /\ cut \subseteq Requests
    /\ stray \in [Requests -> {"none", "insert", "delete"}]

Init ==
    /\ req \in [Requests -> Request]
    /\ pc = [r \in Requests |-> "idle"]
    /\ gone = {}
    /\ reply = [r \in Requests |-> Nothing]
    /\ row = [k \in Keys |-> Absent]
    /\ orders = {}
    /\ tx = [r \in Requests |-> "none"]
    /\ cut = {}
    /\ stray = [r \in Requests |-> "none"]

-----------------------------------------------------------------------------
(* Helpers *)

KeyOf(r) == req[r].key
HashOf(r) == Hash[req[r].body]

\* A call under the request's context may return an error.
CallMayFail(r) == r \in gone \/ "db" \in Faults

Goto(r, to) == pc' = [pc EXCEPT ![r] = to]
Write(r, status, order) ==
    reply' = [reply EXCEPT ![r] = [status |-> status, order |-> order]]

\* Write the answer and return from the handler chain.
Finish(r, status, order) == Goto(r, "done") /\ Write(r, status, order)

\* The handler ends without a 2xx: its deferred Release comes next.
Fail(r, status) == Goto(r, "release") /\ Write(r, status, NoOrder)

\* No transaction holds the row lock that Complete's UPDATE takes.
Unlocked(k) ==
    \A r \in Requests : KeyOf(r) = k => tx[r] \notin {"locked", "committing"}

-----------------------------------------------------------------------------
(* Mutated forms of definitions below, as a plausible slip would write them; *)
(* the runs are checked to notice each of them.                              *)

\* INSERT ... ON CONFLICT DO UPDATE: takes over a claim in progress.
ClaimTakesOver(k) == row[k].state # "completed"

\* DELETE and UPDATE without AND state = 'in_progress'.
MatchesAnyState(k) == row[k].state # "absent"

\* The completion forgets which order it stands for.
CompletedUnnamed(r) == [row[KeyOf(r)] EXCEPT !.state = "completed"]

\* The digests are not compared.
OutcomeUnhashed(r, w) == IF w.state = "completed" THEN "replayed" ELSE "processing"

\* A key in progress is replayed.
OutcomeTooEarly(r, w) == IF w.hash # HashOf(r) THEN "conflict" ELSE "replayed"

\* An error of Claim releases the key, whoever holds it.
ClaimFailsReleasing(r) ==
    /\ pc[r] = "claim"
    /\ CallMayFail(r)
    /\ \E s \in {"none", "insert"} : stray' = [stray EXCEPT ![r] = s]
    /\ Fail(r, "error")
    /\ UNCHANGED <<req, gone, row, orders, tx, cut>>

\* A 4xx counts as success, and the claim stays.
RefuseKeepingClaim(r) ==
    /\ pc[r] = "handler"
    /\ req[r].body \in Refused
    /\ Finish(r, "rejected", NoOrder)
    /\ UNCHANGED <<req, gone, row, orders, tx, cut, stray>>

\* The error of Commit is dropped.
CommitErrorIgnored(r) ==
    /\ pc[r] = "await"
    /\ CallMayFail(r) \/ tx[r] = "aborted"
    /\ Goto(r, "respond")
    /\ UNCHANGED <<req, gone, reply, row, orders, tx, cut, stray>>

\* WithTx rolls back on an error only, not on a panic.
PanicLeavesTxOpen(r) == tx[r]

\* Release is called after ServeHTTP instead of being deferred.
PanicSkipsRelease == "done"

-----------------------------------------------------------------------------
(* The statements of idempotency.Store, by what they match and what they do *)

\* INSERT ... ON CONFLICT (key) DO NOTHING inserts only where there is no row.
ClaimInserts(k) == row[k].state = "absent"
ClaimedBy(r) == [state |-> "in_progress", hash |-> HashOf(r),
                 resource |-> NoOrder, by |-> r]

\* DELETE ... WHERE key = $1 AND state = 'in_progress'.
ReleaseMatches(k) == row[k].state = "in_progress"

\* UPDATE ... WHERE key = $1 AND state = 'in_progress', in the transaction.
CompleteMatches(k) == row[k].state = "in_progress"
Completed(r) == [row[KeyOf(r)] EXCEPT !.state = "completed", !.resource = r]

\* DELETE waits for the transaction that updated the row.
ReleaseCanRun(k) == Unlocked(k)

\* What Claim answers when the key already has the row w.
ClaimOutcome(r, w) ==
    IF w.hash # HashOf(r) THEN "conflict"
    ELSE IF w.state = "completed" THEN "replayed" ELSE "processing"

-----------------------------------------------------------------------------
(* Require, before the handler *)

\* No key, or a body that Hash cannot parse: 400 before any claim.
RejectEarly(r) ==
    /\ pc[r] = "idle"
    /\ KeyOf(r) = NoKey \/ req[r].body \in Malformed
    /\ Finish(r, "rejected", NoOrder)
    /\ UNCHANGED <<req, gone, row, orders, tx, cut, stray>>

Arrive(r) ==
    /\ pc[r] = "idle"
    /\ KeyOf(r) # NoKey
    /\ req[r].body \notin Malformed
    /\ Goto(r, "claim")
    /\ UNCHANGED <<req, gone, reply, row, orders, tx, cut, stray>>

ClaimOwned(r) ==
    /\ pc[r] = "claim"
    /\ ClaimInserts(KeyOf(r))
    /\ row' = [row EXCEPT ![KeyOf(r)] = ClaimedBy(r)]
    /\ Goto(r, "handler")
    /\ UNCHANGED <<req, gone, reply, orders, tx, cut, stray>>

ClaimTaken(r) ==
    /\ pc[r] = "claim"
    /\ ~ClaimInserts(KeyOf(r))
    /\ Goto(r, "lookup")
    /\ UNCHANGED <<req, gone, reply, row, orders, tx, cut, stray>>

\* The INSERT returns an error: 500, and nothing is released.  The statement
\* may have been executed, or be executed later, all the same.
ClaimFails(r) ==
    /\ pc[r] = "claim"
    /\ CallMayFail(r)
    /\ \E s \in {"none", "insert"} : stray' = [stray EXCEPT ![r] = s]
    /\ Finish(r, "error", NoOrder)
    /\ UNCHANGED <<req, gone, row, orders, tx, cut>>

\* get, a statement of its own: the row may have gone since the INSERT, or
\* belong to another claim by now.
Lookup(r) ==
    LET w == row[KeyOf(r)] IN
    /\ pc[r] = "lookup"
    /\ IF w.state = "absent"
         THEN Finish(r, "error", NoOrder)
         ELSE LET o == ClaimOutcome(r, w) IN
              Finish(r, o, IF o = "replayed" THEN w.resource ELSE NoOrder)
    /\ UNCHANGED <<req, gone, row, orders, tx, cut, stray>>

LookupFails(r) ==
    /\ pc[r] = "lookup"
    /\ CallMayFail(r)
    /\ Finish(r, "error", NoOrder)
    /\ UNCHANGED <<req, gone, row, orders, tx, cut, stray>>

-----------------------------------------------------------------------------
(* Create, CreateOrder.Execute, Store.CreateOrder and WithTx *)

\* Decode, Validate or UnitPrice refuses the body.
Refuse(r) ==
    /\ pc[r] = "handler"
    /\ req[r].body \in Refused
    /\ Fail(r, "rejected")
    /\ UNCHANGED <<req, gone, row, orders, tx, cut, stray>>

Begin(r) ==
    /\ pc[r] = "handler"
    /\ req[r].body \notin Refused
    /\ r \notin gone
    /\ tx' = [tx EXCEPT ![r] = "open"]
    /\ Goto(r, "tx")
    /\ UNCHANGED <<req, gone, reply, row, orders, cut, stray>>

BeginFails(r) ==
    /\ pc[r] = "handler"
    /\ req[r].body \notin Refused
    /\ CallMayFail(r)
    /\ Fail(r, "error")
    /\ UNCHANGED <<req, gone, row, orders, tx, cut, stray>>

\* INSERT order and items, Append the event, Complete the key.  The UPDATE
\* of Complete waits for the row; when it matches none, WithTx rolls back.
WriteOrder(r) ==
    LET k == KeyOf(r) IN
    /\ pc[r] = "tx"
    /\ Unlocked(k)
    /\ IF CompleteMatches(k)
         THEN /\ tx' = [tx EXCEPT ![r] = "locked"]
              /\ Goto(r, "commit")
              /\ UNCHANGED reply
         ELSE /\ tx' = [tx EXCEPT ![r] = "aborted"]
              /\ Fail(r, "error")
    /\ UNCHANGED <<req, gone, row, orders, cut, stray>>

\* A statement fails, or COMMIT is refused because the context is done.
\* Rollback reaches the server, or the connection is dead and the server
\* has to notice by itself.
TxFails(r) ==
    /\ pc[r] \in {"tx", "commit"}
    /\ CallMayFail(r)
    /\ \/ tx' = [tx EXCEPT ![r] = "aborted"] /\ UNCHANGED cut
       \/ cut' = cut \cup {r} /\ UNCHANGED tx
    /\ Fail(r, "error")
    /\ UNCHANGED <<req, gone, row, orders, stray>>

SendCommit(r) ==
    /\ pc[r] = "commit"
    /\ r \notin gone
    /\ tx' = [tx EXCEPT ![r] = "committing"]
    /\ Goto(r, "await")
    /\ UNCHANGED <<req, gone, reply, row, orders, cut, stray>>

CommitReturns(r) ==
    /\ pc[r] = "await"
    /\ tx[r] = "committed"
    /\ Goto(r, "respond")
    /\ UNCHANGED <<req, gone, reply, row, orders, tx, cut, stray>>

\* Commit returns an error.  The transaction may be committed already, or
\* be committed later: the connection is closed, and Rollback does nothing.
CommitFails(r) ==
    /\ pc[r] = "await"
    /\ CallMayFail(r) \/ tx[r] = "aborted"
    /\ Fail(r, "error")
    /\ UNCHANGED <<req, gone, row, orders, tx, cut, stray>>

\* 202 with the order: succeeded, so the claim is not released.
Respond(r) ==
    /\ pc[r] = "respond"
    /\ Finish(r, "created", r)
    /\ UNCHANGED <<req, gone, row, orders, tx, cut, stray>>

\* The transaction that a panic leaves behind: WithTx rolls back an open one.
AfterPanic(r) == IF pc[r] \in {"tx", "commit"} THEN "aborted" ELSE tx[r]

\* handlerReturned stays false, so the deferred function releases the claim.
PanicEndsIn == "release"

Panic(r) ==
    /\ "panic" \in Faults
    /\ pc[r] \in {"handler", "tx", "commit", "respond"}
    /\ tx' = [tx EXCEPT ![r] = AfterPanic(r)]
    /\ Goto(r, PanicEndsIn)
    /\ Write(r, "error", NoOrder)
    /\ UNCHANGED <<req, gone, row, orders, cut, stray>>

-----------------------------------------------------------------------------
(* Require, after the handler *)

\* The deferred Release, under a context that a disconnect does not cancel.
Release(r) ==
    LET k == KeyOf(r) IN
    /\ pc[r] = "release"
    /\ ReleaseCanRun(k)
    /\ row' = IF ReleaseMatches(k) THEN [row EXCEPT ![k] = Absent] ELSE row
    /\ Goto(r, "done")
    /\ UNCHANGED <<req, gone, reply, orders, tx, cut, stray>>

\* The error of Release is dropped.
ReleaseFails(r) ==
    /\ pc[r] = "release"
    /\ "db" \in Faults
    /\ \E s \in {"none", "delete"} : stray' = [stray EXCEPT ![r] = s]
    /\ Goto(r, "done")
    /\ UNCHANGED <<req, gone, reply, row, orders, tx, cut>>

-----------------------------------------------------------------------------
(* PostgreSQL, as the code relies on it *)

\* The order, its items, its event and the completed key appear at once.
CommitApplies(r) ==
    /\ tx[r] = "committing"
    /\ tx' = [tx EXCEPT ![r] = "committed"]
    /\ orders' = orders \cup {r}
    /\ row' = [row EXCEPT ![KeyOf(r)] = Completed(r)]
    /\ UNCHANGED <<req, pc, gone, reply, cut, stray>>

\* COMMIT never reached the server, which rolls back when it finds out.
CommitLost(r) ==
    /\ tx[r] = "committing"
    /\ pc[r] # "await" \/ "db" \in Faults
    /\ tx' = [tx EXCEPT ![r] = "aborted"]
    /\ UNCHANGED <<req, pc, gone, reply, row, orders, cut, stray>>

\* The server rolls back a transaction whose connection is dead.
ServerAborts(r) ==
    /\ r \in cut
    /\ tx[r] \in {"open", "locked"}
    /\ tx' = [tx EXCEPT ![r] = "aborted"]
    /\ UNCHANGED <<req, pc, gone, reply, row, orders, cut, stray>>

\* A statement whose caller has given up is executed after all ...
StrayRuns(r) ==
    LET k == KeyOf(r) IN
    /\ \/ /\ stray[r] = "insert"
          /\ row' = IF ClaimInserts(k) THEN [row EXCEPT ![k] = ClaimedBy(r)] ELSE row
       \/ /\ stray[r] = "delete"
          /\ ReleaseCanRun(k)
          /\ row' = IF ReleaseMatches(k) THEN [row EXCEPT ![k] = Absent] ELSE row
    /\ stray' = [stray EXCEPT ![r] = "none"]
    /\ UNCHANGED <<req, pc, gone, reply, orders, tx, cut>>

\* ... or never reaches the server.
StrayLost(r) ==
    /\ stray[r] # "none"
    /\ stray' = [stray EXCEPT ![r] = "none"]
    /\ UNCHANGED <<req, pc, gone, reply, row, orders, tx, cut>>

-----------------------------------------------------------------------------
(* What happens to the service *)

\* net/http cancels the request context when the connection goes away.
Disconnect(r) ==
    /\ "disconnect" \in Faults
    /\ pc[r] \notin {"idle", "done", "dead"}
    /\ r \notin gone
    /\ gone' = gone \cup {r}
    /\ UNCHANGED <<req, pc, reply, row, orders, tx, cut, stray>>

\* The statements that requests were in the middle of may still be executed.
Crash(i) ==
    LET hit == {r \in Requests : /\ req[r].inst = i
                                 /\ pc[r] \notin {"idle", "done", "dead"}} IN
    /\ "crash" \in Faults
    /\ hit # {}
    /\ pc' = [r \in Requests |-> IF r \in hit THEN "dead" ELSE pc[r]]
    /\ cut' = cut \cup {r \in hit : pc[r] \in {"tx", "commit"}}
    /\ \E sent \in SUBSET {r \in hit : pc[r] \in {"claim", "release"}} :
         stray' = [r \in Requests |->
                     IF r \notin sent THEN stray[r]
                     ELSE IF pc[r] = "claim" THEN "insert" ELSE "delete"]
    /\ UNCHANGED <<req, gone, reply, row, orders, tx>>

\* The documented recovery of a stuck key, done by an operator who cannot
\* see whether its owner is still running.
HandDelete(k) ==
    /\ "handdelete" \in Faults
    /\ row[k].state = "in_progress"
    /\ Unlocked(k)
    /\ row' = [row EXCEPT ![k] = Absent]
    /\ UNCHANGED <<req, pc, gone, reply, orders, tx, cut, stray>>

-----------------------------------------------------------------------------
(* The specification *)

Serve(r) ==
    \/ ClaimOwned(r) \/ ClaimTaken(r) \/ Lookup(r)
    \/ Refuse(r) \/ Begin(r) \/ WriteOrder(r) \/ SendCommit(r)
    \/ CommitReturns(r) \/ Respond(r) \/ Release(r)

Fault(r) ==
    \/ ClaimFails(r) \/ LookupFails(r) \/ BeginFails(r) \/ TxFails(r)
    \/ CommitFails(r) \/ Panic(r) \/ ReleaseFails(r) \/ Disconnect(r)

Database(r) ==
    \/ CommitApplies(r) \/ CommitLost(r) \/ ServerAborts(r)
    \/ StrayRuns(r) \/ StrayLost(r)

\* The server has nothing left to resolve for r.
Settled(r) ==
    /\ tx[r] # "committing"
    /\ r \in cut => tx[r] \notin {"open", "locked"}
    /\ stray[r] = "none"

\* Every request was answered or died, and nothing is left to happen.
Quiet ==
    /\ \A r \in Requests : pc[r] \in {"done", "dead"} /\ Settled(r)
    /\ UNCHANGED vars

Next ==
    \/ \E r \in Requests : \/ RejectEarly(r) \/ Arrive(r)
                           \/ Serve(r) \/ Fault(r) \/ Database(r)
    \/ \E i \in Instances : Crash(i)
    \/ \E k \in Keys : HandDelete(k)
    \/ Quiet

Spec == Init /\ [][Next]_vars

\* A failure the request cannot avoid: its context is cancelled before the
\* next call, or the server has answered COMMIT with a rollback.
MustFail(r) ==
    \/ r \in gone /\ (BeginFails(r) \/ TxFails(r))
    \/ tx[r] = "aborted" /\ CommitFails(r)

\* A goroutine keeps running, without the help of a fault that need not
\* happen, and the server resolves what it was sent.
Fairness ==
    \A r \in Requests : WF_vars(Serve(r) \/ MustFail(r)) /\ WF_vars(Database(r))

FairSpec == Spec /\ Fairness

-----------------------------------------------------------------------------
(* Properties *)

\* Store.CreateOrder, "the order, its items, the outbox events and the
\* completion commit together": however requests, retries, late commits and
\* crashes interleave, one key never buys two orders -- even when an operator
\* deletes the row of an owner that is still running.
AtMostOneOrder ==
    \A r, s \in orders : KeyOf(r) = KeyOf(s) => r = s

\* OrderStore.CreateOrder, "either all of them exist afterwards or none of
\* them do": a key is completed exactly when the order it names exists, and
\* that order was bought with this key.
CompletedIffOrder ==
    /\ \A k \in Keys : row[k].state = "completed" =>
         row[k].resource \in orders /\ KeyOf(row[k].resource) = k
    /\ \A r \in orders : /\ KeyOf(r) \in Keys
                         /\ row[KeyOf(r)].state = "completed"
                         /\ row[KeyOf(r)].resource = r

\* Require: whoever is told about an order under one key, as its creator or by
\* a replay, is told about the same order, and that order exists.
TellsOrder(r) == reply[r].status \in {"created", "replayed"}

RepliesAgree ==
    \A r, s \in Requests : TellsOrder(r) /\ TellsOrder(s) /\ KeyOf(r) = KeyOf(s) =>
        reply[r].order = reply[s].order /\ reply[r].order \in orders

\* Claim, "exactly one concurrent caller receives OutcomeOwned": two requests
\* are never between the claim of one key and the end of Require together.
\* An operator's deletion of a live owner's row is what this excludes.
OneOwner ==
    \A r, s \in Requests :
        pc[r] \in Owning /\ pc[s] \in Owning /\ KeyOf(r) = KeyOf(s) => r = s

\* Claim, "the key was used with a different request body": a replayed order
\* was bought with a body of the same digest.
ReplayMatchesBody ==
    \A r \in Requests : reply[r].status = "replayed" =>
        HashOf(reply[r].order) = HashOf(r)

\* Require, "a validation failure records no result, so the client can correct
\* the request and retry under the same key": once such an answer is out, no
\* row made by that request is left in the table.
RejectionFreesKey ==
    \A r \in Requests : pc[r] = "done" /\ reply[r].status = "rejected" =>
        \A k \in Keys : row[k].by # r

\* Release, "it never removes a completed key", and nothing else rewrites one:
\* the stored result of a key is there for good.
CompletedIsFinal ==
    [][\A k \in Keys : row[k].state = "completed" => row'[k] = row[k]]_vars

\* Release and Complete name only the key, not the claim: even so, a claim is
\* only ever completed by the transaction of the request that made it, and
\* only ever removed by that request's own DELETE.
OnlyOwnerEndsClaim ==
    [][\A k \in Keys :
         row[k].state = "in_progress" /\ row'[k] # row[k] =>
           LET owner == row[k].by IN
           \/ row'[k] = [row[k] EXCEPT !.state = "completed", !.resource = owner]
           \/ row'[k] = Absent /\ (pc[owner] = "release" \/ stray[owner] = "delete")]_vars

\* Taken together, and without an operator in the tables, the service is the
\* abstract one: a key is decided once, and answers agree with the decision.
Asked == [r \in Requests |-> [key |-> KeyOf(r), hash |-> HashOf(r)]]
Result == [k \in Keys |-> row[k].resource]

Abstract == INSTANCE IdempotentOrders WITH
                asked <- Asked, result <- Result, answer <- reply

ImplementsOrders == Abstract!Spec

\* Every request that reaches the middleware is answered or dies with its
\* instance: no wait for a row lock is for ever.
EveryRequestEnds ==
    \A r \in Requests : pc[r] = "claim" ~> pc[r] \in {"done", "dead"}

\* Require, "releases the claim if the handler fails, so a retry is not
\* permanently blocked by a transient error": a claim is always resolved.
ClaimsResolve ==
    \A k \in Keys : row[k].state = "in_progress" ~> row[k].state # "in_progress"

=============================================================================
