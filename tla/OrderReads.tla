----------------------------- MODULE OrderReads -----------------------------
(***************************************************************************)
(* GET /orders/{id} beside the transactions that write orders.             *)
(*                                                                         *)
(* CreateOrder writes an order, its items, its event and the completion of *)
(* its key statement by statement, in one transaction; GetOrder reads the  *)
(* order and then its items in two statements on the pool, each with a     *)
(* snapshot of its own.  Clients hear of an order from the 202, from a     *)
(* replay of its key, from its event and from another GET, and then read   *)
(* it.  How keys are claimed and how events are claimed and retried is in  *)
(* Idempotency and Outbox; here every POST carries a key.                  *)
(***************************************************************************)
CONSTANTS
    Orders,     \* each is created by one POST
    Gets,       \* GET requests
    Items,
    ItemsOf     \* the items of each order

ASSUME ItemsAssumption == ItemsOf \in [Orders -> (SUBSET Items) \ {{}}]
ASSUME PartsAssumption == {"order", "event", "key"} \cap Items = {}

VARIABLES
    post,      \* where the goroutine that creates each order is
    written,   \* the rows its transaction has written
    tx,        \* its transaction, as the server has it
    db,        \* the committed rows
    get,       \* each GET: which order, where it is, the items read so far
    rows,      \* the items that its second SELECT returns
    answer,    \* what each GET was told
    known,     \* orders that somebody outside was told of
    due        \* GETs of an order that was known when they began

vars == <<post, written, tx, db, get, rows, answer, known, due>>

\* The rows an order consists of.
Parts(o) == {"order", "event", "key"} \cup ItemsOf[o]

AllParts == {"order", "event", "key"} \cup Items

\* What a SELECT finds of an order.
Visible(o) == {part \in AllParts : <<o, part>> \in db}

Stored == {o \in Orders : <<o, "order">> \in db}

TypeOK ==
    /\ post \in [Orders -> {"writing", "await", "accepted", "failed"}]
    /\ written \in [Orders -> SUBSET AllParts]
    /\ tx \in [Orders -> {"open", "committing", "committed", "aborted"}]
    /\ db \subseteq Orders \X AllParts
    /\ get \in [Gets -> [of: Orders, at: {"start", "order", "items", "rows", "done"},
                         got: SUBSET Items]]
    /\ rows \in [Gets -> SUBSET Items]
    /\ answer \in [Gets -> {"none", "ok", "not_found", "error"}]
    /\ known \subseteq Orders
    /\ due \subseteq Gets

Init ==
    /\ post = [o \in Orders |-> "writing"]
    /\ written = [o \in Orders |-> {}]
    /\ tx = [o \in Orders |-> "open"]
    /\ db = {} /\ known = {} /\ due = {}
    /\ get \in [Gets -> [of: Orders, at: {"start"}, got: {{}}]]
    /\ rows = [g \in Gets |-> {}]
    /\ answer = [g \in Gets |-> "none"]

-----------------------------------------------------------------------------
(* Mutated forms of definitions below, as a plausible slip would write them; *)
(* the runs are checked to notice each of them.                              *)

\* Every error of the first SELECT is reported as an order not found.
OrderErrorIsNotFound == "not_found"

\* The items are left to a second transaction.
DoneAfterOrder(o) == {"order"} \subseteq written[o]

-----------------------------------------------------------------------------
(* CreateOrder *)

Insert(o, part) == written' = [written EXCEPT ![o] = @ \cup {part}] /\ UNCHANGED db

Writing(o) == post[o] = "writing" /\ tx[o] = "open"

InsertOrder(o) ==
    /\ Writing(o)
    /\ written[o] = {}
    /\ Insert(o, "order")
    /\ UNCHANGED <<post, tx, get, rows, answer, known, due>>

InsertItem(o, i) ==
    /\ Writing(o)
    /\ "order" \in written[o] /\ i \notin written[o]
    /\ Insert(o, i)
    /\ UNCHANGED <<post, tx, get, rows, answer, known, due>>

ItemsWritten(o) == {"order"} \cup ItemsOf[o] \subseteq written[o]

Append(o) == Insert(o, "event")

AppendEvent(o) ==
    /\ Writing(o)
    /\ ItemsWritten(o) /\ "event" \notin written[o]
    /\ Append(o)
    /\ UNCHANGED <<post, tx, get, rows, answer, known, due>>

Complete(o) ==
    /\ Writing(o)
    /\ "event" \in written[o] /\ "key" \notin written[o]
    /\ Insert(o, "key")
    /\ UNCHANGED <<post, tx, get, rows, answer, known, due>>

\* fn returns nil.
Done(o) == Parts(o) \subseteq written[o]

SendCommit(o) ==
    /\ Writing(o)
    /\ Done(o)
    /\ tx' = [tx EXCEPT ![o] = "committing"]
    /\ post' = [post EXCEPT ![o] = "await"]
    /\ UNCHANGED <<written, db, get, rows, answer, known, due>>

\* A statement fails, or the process stops: the transaction is rolled back.
StatementFails(o) ==
    /\ Writing(o)
    /\ tx' = [tx EXCEPT ![o] = "aborted"]
    /\ post' = [post EXCEPT ![o] = "failed"]
    /\ UNCHANGED <<written, db, get, rows, answer, known, due>>

\* 202.
Accept(o) ==
    /\ post[o] = "await" /\ tx[o] = "committed"
    /\ post' = [post EXCEPT ![o] = "accepted"]
    /\ known' = known \cup {o}
    /\ UNCHANGED <<written, tx, db, get, rows, answer, due>>

\* The commit returns an error, or the process stops; the server may still
\* execute it.
CommitFails(o) ==
    /\ post[o] = "await"
    /\ post' = [post EXCEPT ![o] = "failed"]
    /\ UNCHANGED <<written, tx, db, get, rows, answer, known, due>>

-----------------------------------------------------------------------------
(* PostgreSQL, and how else the outside hears of an order *)

CommitApplies(o) ==
    /\ tx[o] = "committing"
    /\ tx' = [tx EXCEPT ![o] = "committed"]
    /\ db' = db \cup {<<o, part>> : part \in written[o]}
    /\ UNCHANGED <<post, written, get, rows, answer, known, due>>

CommitLost(o) ==
    /\ tx[o] = "committing" /\ post[o] = "failed"
    /\ tx' = [tx EXCEPT ![o] = "aborted"]
    /\ UNCHANGED <<post, written, db, get, rows, answer, known, due>>

\* Require replays the key, or the publisher delivers the event.
Tell(o) ==
    /\ <<o, "key">> \in db \/ <<o, "event">> \in db
    /\ known' = known \cup {o}
    /\ UNCHANGED <<post, written, tx, db, get, rows, answer, due>>

-----------------------------------------------------------------------------
(* GetOrder *)

At(g, at) == get[g].at = at
Move(g, to) == get' = [get EXCEPT ![g].at = to]

Reply(g, what) ==
    /\ Move(g, "done")
    /\ answer' = [answer EXCEPT ![g] = what]
    /\ known' = IF what = "ok" THEN known \cup {get[g].of} ELSE known

BeginGet(g) ==
    /\ At(g, "start")
    /\ Move(g, "order")
    /\ due' = IF get[g].of \in known THEN due \cup {g} ELSE due
    /\ UNCHANGED <<post, written, tx, db, rows, answer, known>>

SelectOrder(g) ==
    /\ At(g, "order")
    /\ IF get[g].of \in Stored
         THEN Move(g, "items") /\ UNCHANGED <<answer, known>>
         ELSE Reply(g, "not_found")
    /\ UNCHANGED <<post, written, tx, db, rows, due>>

\* What writeDomainError makes of an error that is not a domain one.
OrderError == "error"

SelectOrderFails(g) ==
    /\ At(g, "order")
    /\ Reply(g, OrderError)
    /\ UNCHANGED <<post, written, tx, db, rows, due>>

SelectItems(g) ==
    /\ At(g, "items")
    /\ rows' = [rows EXCEPT ![g] = Visible(get[g].of) \cap Items]
    /\ Move(g, "rows")
    /\ UNCHANGED <<post, written, tx, db, answer, known, due>>

\* The rows arrive one by one, in some order.
NextRow(g, i) ==
    /\ At(g, "rows")
    /\ i \in rows[g] \ get[g].got
    /\ get' = [get EXCEPT ![g].got = @ \cup {i}]
    /\ UNCHANGED <<post, written, tx, db, rows, answer, known, due>>

EndOfRows(g) ==
    /\ At(g, "rows")
    /\ rows[g] \subseteq get[g].got
    /\ Reply(g, "ok")
    /\ UNCHANGED <<post, written, tx, db, rows, due>>

\* rows.Err(), behind a loop that ended too early.
BrokenRows == "error"

RowsFail(g) ==
    /\ \/ At(g, "items") /\ Reply(g, "error")
       \/ At(g, "rows") /\ Reply(g, BrokenRows)
    /\ UNCHANGED <<post, written, tx, db, rows, due>>

-----------------------------------------------------------------------------
(* The specification *)

Create(o) ==
    \/ InsertOrder(o) \/ AppendEvent(o) \/ Complete(o) \/ SendCommit(o) \/ Accept(o)
    \/ StatementFails(o) \/ CommitFails(o)
    \/ \E i \in ItemsOf[o] : InsertItem(o, i)

Outside(o) == CommitApplies(o) \/ CommitLost(o) \/ Tell(o)

Get(g) ==
    \/ BeginGet(g) \/ SelectOrder(g) \/ SelectOrderFails(g)
    \/ SelectItems(g) \/ EndOfRows(g) \/ RowsFail(g)
    \/ \E i \in Items : NextRow(g, i)

Next == \/ \E o \in Orders : Create(o) \/ Outside(o)
        \/ \E g \in Gets : Get(g)

Spec == Init /\ [][Next]_vars

-----------------------------------------------------------------------------
(* Properties *)

\* GetOrder, "returns the order with its items": although the two SELECTs
\* share no snapshot and the rows may break off, a 200 has every item.
GetIsWhole ==
    \A g \in Gets : answer[g] = "ok" => get[g].got = ItemsOf[get[g].of]

\* Execute, "or domain.ErrOrderNotFound": whoever was told of an order, by a
\* 202, a replay, its event or another GET, can read it from then on; a
\* database that fails is an error and never a missing order.
NotFoundIsTrue ==
    \A g \in due : answer[g] # "not_found"

\* CreateOrder, "in one transaction": at no time is there a part of an order
\* without the others.
WholeOrNothing ==
    \A o \in Orders : Visible(o) \in {{}, Parts(o)}

\* AtomicOrders, with an order stored when its row is visible.
Saw == [g \in Gets |-> CASE answer[g] = "none" -> "nothing"
                         [] answer[g] = "not_found" -> "missing"
                         [] answer[g] = "error" -> "error"
                         [] OTHER -> IF get[g].got = ItemsOf[get[g].of]
                                       THEN "whole" ELSE "partial"]

Atomic == INSTANCE AtomicOrders WITH stored <- Stored, saw <- Saw

ImplementsAtomicOrders == Atomic!Spec

-----------------------------------------------------------------------------
(* What makes them inductive *)

\* A transaction writes only parts of its order, and all of them before it
\* commits; what is visible was committed.
Transactions ==
    \A o \in Orders :
        /\ written[o] \subseteq Parts(o)
        /\ tx[o] \in {"committing", "committed"} => written[o] = Parts(o)
        /\ post[o] = "writing" => tx[o] = "open"
        /\ Visible(o) = IF tx[o] = "committed" THEN Parts(o) ELSE {}

\* A GET that is past its first SELECT has seen the order.
Readers ==
    /\ known \subseteq Stored
    /\ \A g \in Gets :
        /\ At(g, "items") \/ At(g, "rows") => get[g].of \in Stored
        /\ At(g, "rows") => rows[g] = ItemsOf[get[g].of]
        /\ get[g].got \subseteq ItemsOf[get[g].of]
        /\ answer[g] # "none" <=> At(g, "done")
        /\ g \in due => get[g].of \in Stored /\ ~At(g, "start")

ReadsInv ==
    TypeOK /\ Transactions /\ Readers /\ GetIsWhole /\ NotFoundIsTrue

=============================================================================
