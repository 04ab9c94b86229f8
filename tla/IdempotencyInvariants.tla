----------------------- MODULE IdempotencyInvariants -----------------------
(***************************************************************************)
(* Inductive invariants of Idempotency: what holds between a request, its  *)
(* transaction and the row of its key at every step.  TLC checks them on   *)
(* small instances; the theorems about Idempotency rest on them.           *)
(***************************************************************************)
EXTENDS Idempotency

\* Only a request that carries a key gets past the check of the header.
HasKey ==
    \A r \in Requests :
        \/ pc[r] \notin {"idle", "done", "dead"}
        \/ tx[r] # "none"
        \/ stray[r] # "none"
        => KeyOf(r) \in Keys

\* The row a transaction has updated stays as it found it, and is its alone,
\* until the server resolves that transaction.
RowLocked ==
    \A r \in Requests : tx[r] \in {"locked", "committing"} =>
        /\ row[KeyOf(r)].state = "in_progress"
        /\ \A s \in Requests :
             tx[s] \in {"locked", "committing"} /\ KeyOf(s) = KeyOf(r) => r = s

\* A transaction begins in the handler and not before, and COMMIT is sent by a
\* request whose transaction is alive and holds the row.
ReadyToCommit ==
    \A r \in Requests :
        /\ pc[r] \in {"idle", "claim", "lookup", "handler", "tx", "commit"} => r \notin cut
        /\ pc[r] \in {"idle", "claim", "lookup", "handler"} => tx[r] = "none"
        /\ pc[r] = "commit" => tx[r] = "locked"

\* An order is announced only once it is committed, under its own key.
AnnouncedExists ==
    \A r \in Requests :
        /\ pc[r] = "respond" \/ tx[r] = "committed" => r \in orders
        /\ TellsOrder(r) => /\ reply[r].order \in orders
                            /\ KeyOf(reply[r].order) = KeyOf(r)

SafetyInv ==
    /\ TypeOK
    /\ HasKey
    /\ RowLocked
    /\ ReadyToCommit
    /\ CompletedIffOrder
    /\ AnnouncedExists

\* A row tells which request made it and with which digest.
RowHonest ==
    \A k \in Keys :
        /\ row[k].state = "absent" => row[k] = Absent
        /\ row[k].state # "absent" => /\ row[k].by \in Requests
                                      /\ KeyOf(row[k].by) = k
                                      /\ row[k].hash = HashOf(row[k].by)
        /\ row[k].state = "in_progress" => row[k].resource = NoOrder
        /\ row[k].state = "completed" => row[k].resource = row[k].by

\* Whoever may still end the claim of a key is the one who made it.
OwnsRow ==
    \A r \in Requests :
        \/ pc[r] \in Owning
        \/ stray[r] = "delete"
        \/ tx[r] \in {"locked", "committing"}
        => row[KeyOf(r)].by = r

NoStrayYet ==
    \A r \in Requests : pc[r] \notin {"done", "dead"} => stray[r] = "none"

\* A request writes one answer, and one that may still commit has not yet
\* written any but a 500.
AnsweredOnce ==
    \A r \in Requests :
        /\ pc[r] \notin {"release", "done", "dead"} => reply[r] = Nothing
        /\ tx[r] \in {"locked", "committing"} => reply[r].status \in {"none", "error"}

OwnerInv ==
    /\ RowHonest
    /\ OwnsRow
    /\ NoStrayYet
    /\ AnsweredOnce
    /\ ReplayMatchesBody

\* A request that Create refuses begins no transaction.
RefusedWithoutTx ==
    \A r \in Requests :
        /\ r \in orders => tx[r] # "none"
        /\ reply[r].status = "rejected" =>
             tx[r] = "none" /\ pc[r] \in {"release", "done", "dead"}

\* A request has no row before it claims one, and none after it was refused.
NoRowOf(r) == \A k \in Keys : row[k].by # r

RefusedWithoutRow ==
    \A r \in Requests :
        /\ pc[r] = "idle" => NoRowOf(r)
        /\ pc[r] = "done" /\ reply[r].status = "rejected" =>
             stray[r] = "none" /\ NoRowOf(r)

RejectionInv == RefusedWithoutTx /\ RefusedWithoutRow

=============================================================================
