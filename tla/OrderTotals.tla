---------------------------- MODULE OrderTotals ----------------------------
(***************************************************************************)
(* What an order costs: a command from the decoder over Validate, the      *)
(* catalogue and Total to the constraints of the orders and order_items    *)
(* tables, with the width of its integers.  OrderService has this as the   *)
(* handler of a request.                                                   *)
(*                                                                         *)
(* The decoder admits every quantity that fits a Go int, Total multiplies  *)
(* and adds int64 without looking at the result, and only the tables limit *)
(* what is kept: quantity is a 32-bit column and an order has a SKU once.  *)
(*                                                                         *)
(* The database may fail at every step of the transaction: no connection,  *)
(* an error of a statement, also of the outbox's and of Complete, a        *)
(* context that is cancelled, or a COMMIT that reports an error with or    *)
(* without effect.  What a statement objects to in a text, such as a NUL,  *)
(* is a failure of the database here.                                      *)
(***************************************************************************)
EXTENDS Integers, FiniteSets, Sequences, SequencesExt, FiniteSetsExt

CONSTANTS
    Prices,      \* the catalogue: unit price by SKU, in minor units
    Unlisted,    \* a SKU that it does not have
    Quantities,  \* quantities that a body may hold
    MaxItems,    \* bounds the items of a body
    IntMax,      \* the largest int4
    LongMax      \* the largest int64

SKUs == DOMAIN Prices

\* Go's int and int64 wrap around; the catalogue is small enough for a column.
Longs == (-LongMax - 1)..LongMax

ASSUME WidthAssumption == {MaxItems, IntMax, LongMax} \subseteq Nat
ASSUME QuantitiesAssumption == Quantities \subseteq Longs
ASSUME UnlistedAssumption == Unlisted \notin SKUs

\* Everything the catalogue has, as often as a row can say, fits an int64.
ASSUME CatalogueAssumption ==
    /\ IsFiniteSet(SKUs)
    /\ Prices \in [SKUs -> 0..LongMax]
    /\ MapThenSumSet(LAMBDA sku : Prices[sku] * IntMax, SKUs) <= LongMax

Item == [sku: SKUs \cup {Unlisted}, quantity: Quantities]

Command == [customer: BOOLEAN, payment: BOOLEAN,    \* given or empty
            items: BoundedSeq(Item, MaxItems)]

VARIABLES
    cmd,      \* the command of one POST
    at,       \* where Create is
    total,    \* order.TotalAmount
    header,   \* the total of the row in orders, within the transaction
    lines,    \* the rows in order_items, within the transaction
    answer,   \* the status it is answered with
    database  \* whether it fails the transaction, or leaves its COMMIT in doubt

totalsVars == <<cmd, at, total, header, lines, answer, database>>

Line == [sku: SKUs, quantity: Int, price: Int]

TotalsTypeOK ==
    /\ cmd \in Command
    /\ at \in {"decode", "validate", "price", "order", "items", "done"}
    /\ total \in Longs
    /\ header \in {-1} \cup (0..LongMax)      \* -1: no row
    /\ \A l \in lines : l.sku \in SKUs /\ l.quantity \in 1..IntMax /\ l.price = Prices[l.sku]
    /\ answer \in {"none", "202", "400", "422", "500"}
    /\ database \in {"well", "failed", "in doubt"}

NoCommand == [customer |-> FALSE, payment |-> FALSE, items |-> <<>>]

TotalsInit ==
    /\ cmd = NoCommand
    /\ at = "decode"
    /\ total = 0
    /\ header = -1 /\ lines = {}
    /\ answer = "none" /\ database = "well"

-----------------------------------------------------------------------------
(* Mutated forms of definitions below, as a plausible slip would write them; *)
(* the runs are checked to notice each of them.                              *)

\* Total adds in the width of the column.
Narrow(n) == ((n + IntMax + 1) % (2 * (IntMax + 1))) - IntMax - 1

\* Validate looks at the first quantity only.
FirstIsPositive(items) == items[1].quantity > 0

-----------------------------------------------------------------------------
(* The domain *)

Wrap(n) == ((n + LongMax + 1) % (2 * (LongMax + 1))) - LongMax - 1

Total(items) ==
    FoldLeft(LAMBDA t, it : Wrap(t + Wrap(Prices[it.sku] * it.quantity)), 0, items)

Positive(items) == \A i \in DOMAIN items : items[i].quantity > 0

Valid ==
    cmd.customer /\ cmd.payment /\ cmd.items # <<>> /\ Positive(cmd.items)

Listed == \A i \in DOMAIN cmd.items : cmd.items[i].sku \in SKUs

\* order_items: the int4 column with its CHECK, and the PRIMARY KEY.
FitsColumn(q) == q \in 1..IntMax

NewLine(i) == \A l \in lines : l.sku # cmd.items[i].sku

Answer(status) == at' = "done" /\ answer' = status

-----------------------------------------------------------------------------
(* Create, Execute and CreateOrder *)

Decode ==
    /\ at = "decode"
    /\ \/ cmd' \in Command /\ at' = "validate" /\ UNCHANGED answer
       \/ Answer("400") /\ UNCHANGED cmd
    /\ UNCHANGED <<total, header, lines, database>>

Validate ==
    /\ at = "validate"
    /\ IF Valid THEN at' = "price" /\ UNCHANGED answer ELSE Answer("400")
    /\ UNCHANGED <<cmd, total, header, lines, database>>

Price ==
    /\ at = "price"
    /\ IF Listed
         THEN at' = "order" /\ total' = Total(cmd.items) /\ UNCHANGED answer
         ELSE Answer("422") /\ UNCHANGED total
    /\ UNCHANGED <<cmd, header, lines, database>>

\* What a violated constraint leaves: nothing, the transaction is rolled back.
RollBack == header' = -1 /\ lines' = {}

Rejected == Answer("500") /\ RollBack

InsertOrder ==
    /\ at = "order"
    /\ IF total >= 0
         THEN at' = "items" /\ header' = total /\ UNCHANGED <<lines, answer>>
         ELSE Rejected
    /\ UNCHANGED <<cmd, total, database>>

\* The items in their order; the rows written so far are those before.
InsertItem(i) ==
    LET it == cmd.items[i]
        line == [sku |-> it.sku, quantity |-> it.quantity, price |-> Prices[it.sku]]
    IN
    /\ at = "items" /\ Cardinality(lines) = i - 1
    /\ IF FitsColumn(it.quantity) /\ NewLine(i)
         THEN lines' = {l \in lines : l.sku # it.sku} \cup {line}
              /\ UNCHANGED <<at, header, answer>>
         ELSE Rejected
    /\ UNCHANGED <<cmd, total, database>>

\* WithTx, behind fn: an error of Commit is answered like one of fn, although the
\* transaction may be committed all the same.
Commit ==
    /\ at = "items" /\ Cardinality(lines) = Len(cmd.items)
    /\ \/ Answer("202") /\ UNCHANGED database
       \/ Answer("500") /\ database' = "in doubt"
    /\ UNCHANGED <<cmd, total, header, lines>>

\* Begin, a statement or a COMMIT without effect; the answer is the default of
\* writeDomainError.
DatabaseFails ==
    /\ at \in {"order", "items"}
    /\ Rejected
    /\ database' = "failed"
    /\ UNCHANGED <<cmd, total>>

\* A panic leaves Create, and WithTx if it is inside the transaction.
Abandon ==
    /\ at' = "done"
    /\ IF at = "done" THEN UNCHANGED <<header, lines>> ELSE RollBack
    /\ UNCHANGED <<cmd, total, answer, database>>

TotalsNext ==
    \/ Decode \/ Validate \/ Price \/ InsertOrder \/ Commit \/ DatabaseFails
    \/ \E i \in DOMAIN cmd.items : InsertItem(i)

-----------------------------------------------------------------------------
(* Properties *)

\* The rows are committed.
Exists == at = "done" /\ header # -1

\* Total, "the sum of the line items": although Total may wrap around for
\* quantities that nobody has refused yet, an order that exists, whatever its
\* client was told, costs exactly what its lines add up to, and they are those
\* of the command.
StoredTotalIsSum ==
    Exists =>
        /\ header = MapThenSumSet(LAMBDA l : l.price * l.quantity, lines)
        /\ {<<l.sku, l.quantity>> : l \in lines}
             = {<<cmd.items[i].sku, cmd.items[i].quantity>> : i \in DOMAIN cmd.items}

\* What can be ordered, in the words of the tables: each item once, and as often
\* as the column can say.
Orderable ==
    /\ cmd.customer /\ cmd.payment /\ cmd.items # <<>>
    /\ \A i \in DOMAIN cmd.items :
         cmd.items[i].sku \in SKUs /\ cmd.items[i].quantity \in 1..IntMax
    /\ \A i, j \in DOMAIN cmd.items : cmd.items[i].sku = cmd.items[j].sku => i = j

\* writeDomainError: what is accepted is what can be ordered, and nothing of that
\* is refused unless the database fails, although Total may have wrapped around
\* behind the CHECK on it.  While the database does not fail, a client is told
\* 500, that the server is at fault, only of a quantity beyond its column or of
\* a SKU given twice: Validate and the catalogue find everything else.
RefusalsExplained ==
    answer # "none" =>
        /\ answer = "202" => Orderable
        /\ Orderable => answer = "202" \/ database # "well"
        /\ answer = "500" /\ database = "well" =>
             \/ \E i \in DOMAIN cmd.items : cmd.items[i].quantity > IntMax
             \/ \E i, j \in DOMAIN cmd.items : i # j /\ cmd.items[i].sku = cmd.items[j].sku

=============================================================================
