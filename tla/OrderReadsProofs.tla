-------------------------- MODULE OrderReadsProofs --------------------------
(***************************************************************************)
(* Proofs about OrderReads, for any number of orders, items and GETs: an   *)
(* order is read whole or not at all, and OrderReads implements            *)
(* AtomicOrders.                                                           *)
(***************************************************************************)
EXTENDS OrderReads, TLAPS

\* The parts of an order are rows, and its items are the items among them.
LEMMA PartsAreRows ==
    ASSUME NEW o \in Orders
    PROVE  /\ Parts(o) \subseteq AllParts
           /\ Parts(o) \cap Items = ItemsOf[o]
           /\ ItemsOf[o] \subseteq Items
  BY ItemsAssumption, PartsAssumption DEF Parts, AllParts

\* An order is stored exactly when its transaction is committed.
LEMMA StoredMeansCommitted ==
    ASSUME ReadsInv, NEW o \in Orders
    PROVE  /\ o \in Stored <=> tx[o] = "committed"
           /\ o \in Stored => Visible(o) = Parts(o)
           /\ o \notin Stored => Visible(o) = {}
  BY DEF ReadsInv, Transactions, Stored, Visible, Parts, AllParts

LEMMA InitialInvariant == Init => ReadsInv
<1> SUFFICES ASSUME Init PROVE ReadsInv
  OBVIOUS
<1> USE DEF Init
<1>1. TypeOK
  BY DEF TypeOK
<1>2. Transactions
  BY DEF Transactions, Visible
<1>3. Readers /\ GetIsWhole /\ NotFoundIsTrue
  BY DEF Readers, GetIsWhole, NotFoundIsTrue, At, Stored
<1> QED
  BY <1>1, <1>2, <1>3 DEF ReadsInv

\* A statement of the transaction touches only what it has written.
LEMMA InsertKeeps ==
    ASSUME ReadsInv, NEW o \in Orders, NEW part \in Parts(o),
           Writing(o), Insert(o, part),
           UNCHANGED <<post, tx, get, rows, answer, known, due>>
    PROVE  ReadsInv'
<1> USE DEF ReadsInv, Insert, Writing
<1>1. TypeOK'
  BY PartsAreRows DEF TypeOK
<1>2. Transactions'
  BY DEF TypeOK, Transactions, Visible
<1>3. Readers' /\ GetIsWhole' /\ NotFoundIsTrue'
  BY DEF Readers, GetIsWhole, NotFoundIsTrue, At, Stored
<1> QED
  BY <1>1, <1>2, <1>3

LEMMA CreateKeeps ==
    ASSUME ReadsInv, NEW o \in Orders, Create(o)
    PROVE  ReadsInv'
<1>1. CASE InsertOrder(o) \/ AppendEvent(o) \/ Complete(o)
  BY <1>1, InsertKeeps DEF InsertOrder, AppendEvent, Append, Complete, Parts
<1>2. ASSUME NEW i \in ItemsOf[o], InsertItem(o, i) PROVE ReadsInv'
  BY <1>2, InsertKeeps DEF InsertItem, Parts
<1>3. CASE SendCommit(o)
  <2> USE <1>3 DEF ReadsInv, SendCommit, Writing
  <2>1. written[o] = Parts(o)
    BY DEF Transactions, Done
  <2>2. TypeOK'
    BY DEF TypeOK
  <2>3. Transactions'
    BY <2>1 DEF TypeOK, Transactions, Visible
  <2>4. Readers' /\ GetIsWhole' /\ NotFoundIsTrue'
    BY DEF Readers, GetIsWhole, NotFoundIsTrue, At, Stored
  <2> QED
    BY <2>2, <2>3, <2>4
<1>4. CASE StatementFails(o) \/ CommitFails(o)
  <2> USE <1>4 DEF ReadsInv, StatementFails, CommitFails, Writing
  <2>1. TypeOK'
    BY DEF TypeOK
  <2>2. Transactions'
    BY DEF TypeOK, Transactions, Visible
  <2>3. Readers' /\ GetIsWhole' /\ NotFoundIsTrue'
    BY DEF Readers, GetIsWhole, NotFoundIsTrue, At, Stored
  <2> QED
    BY <2>1, <2>2, <2>3
<1>5. CASE Accept(o)
  <2> USE <1>5 DEF ReadsInv, Accept
  <2>1. o \in Stored
    BY StoredMeansCommitted
  <2>2. TypeOK' /\ Transactions' /\ GetIsWhole' /\ NotFoundIsTrue'
    BY DEF TypeOK, Transactions, GetIsWhole, NotFoundIsTrue, Visible
  <2>3. Readers'
    BY <2>1 DEF Readers, At, Stored
  <2> QED
    BY <2>2, <2>3
<1> QED
  BY <1>1, <1>2, <1>3, <1>4, <1>5 DEF Create

LEMMA OutsideKeeps ==
    ASSUME ReadsInv, NEW o \in Orders, Outside(o)
    PROVE  ReadsInv'
<1>1. CASE CommitApplies(o)
  <2> USE <1>1 DEF ReadsInv, CommitApplies
  <2>1. written[o] = Parts(o) /\ Visible(o) = {}
    BY DEF Transactions
  <2>2. /\ Visible(o)' = Parts(o)
        /\ \A p \in Orders \ {o} : Visible(p)' = Visible(p)
    BY <2>1, PartsAreRows DEF Visible
  <2>3. TypeOK'
    BY <2>1, PartsAreRows DEF TypeOK
  <2>4. Transactions'
    BY <2>1, <2>2 DEF TypeOK, Transactions, Parts
  <2>5. Stored \subseteq Stored'
    BY DEF Stored
  <2>6. Readers' /\ GetIsWhole' /\ NotFoundIsTrue'
    BY <2>5 DEF Readers, GetIsWhole, NotFoundIsTrue, At
  <2> QED
    BY <2>3, <2>4, <2>6
<1>2. CASE CommitLost(o)
  <2> USE <1>2 DEF ReadsInv, CommitLost
  <2>1. TypeOK'
    BY DEF TypeOK
  <2>2. Transactions'
    BY DEF TypeOK, Transactions, Visible
  <2>3. Readers' /\ GetIsWhole' /\ NotFoundIsTrue'
    BY DEF Readers, GetIsWhole, NotFoundIsTrue, At, Stored
  <2> QED
    BY <2>1, <2>2, <2>3
<1>3. CASE Tell(o)
  <2> USE <1>3 DEF ReadsInv, Tell
  <2>1. o \in Stored
    <3>1. Visible(o) # {}
      BY DEF Visible, AllParts
    <3> QED
      BY <3>1, StoredMeansCommitted
  <2>2. TypeOK' /\ Transactions' /\ GetIsWhole' /\ NotFoundIsTrue'
    BY DEF TypeOK, Transactions, GetIsWhole, NotFoundIsTrue, Visible
  <2>3. Readers'
    BY <2>1 DEF Readers, At, Stored
  <2> QED
    BY <2>2, <2>3
<1> QED
  BY <1>1, <1>2, <1>3 DEF Outside

LEMMA GetKeeps ==
    ASSUME ReadsInv, NEW g \in Gets, Get(g)
    PROVE  ReadsInv'
<1> USE DEF ReadsInv
<1>1. get[g] \in [of: Orders, at: {"start", "order", "items", "rows", "done"},
                  got: SUBSET Items]
  BY DEF TypeOK
<1>2. ASSUME UNCHANGED <<post, written, tx, db>> PROVE Transactions'
  BY <1>2 DEF Transactions, Visible
<1>3. CASE BeginGet(g)
  <2> USE <1>1, <1>3 DEF BeginGet, Move, At
  <2>1. TypeOK'
    BY DEF TypeOK
  <2>2. Readers' /\ GetIsWhole' /\ NotFoundIsTrue'
    BY DEF TypeOK, Readers, GetIsWhole, NotFoundIsTrue, Stored
  <2> QED
    BY <1>2, <2>1, <2>2
<1>4. CASE SelectOrder(g)
  <2>1. CASE get[g].of \in Stored
    <3>1. /\ get' = [get EXCEPT ![g].at = "items"]
          /\ get[g].at = "order"
          /\ UNCHANGED <<post, written, tx, db, rows, answer, known, due>>
      BY <1>4, <2>1 DEF SelectOrder, Move, At
    <3>2. TypeOK'
      BY <1>1, <3>1 DEF TypeOK
    <3>3. Readers'
      BY <1>1, <2>1, <3>1 DEF TypeOK, Readers, Stored, At
    <3>4. GetIsWhole' /\ NotFoundIsTrue'
      BY <1>1, <3>1 DEF TypeOK, GetIsWhole, NotFoundIsTrue
    <3> QED
      BY <1>2, <3>1, <3>2, <3>3, <3>4
  <2>2. CASE get[g].of \notin Stored
    <3>1. /\ get' = [get EXCEPT ![g].at = "done"]
          /\ get[g].at = "order"
          /\ answer' = [answer EXCEPT ![g] = "not_found"]
          /\ UNCHANGED <<post, written, tx, db, rows, known, due>>
      BY <1>4, <2>2 DEF SelectOrder, Reply, Move, At
    <3>2. g \notin due
      BY <2>2 DEF Readers
    <3>3. TypeOK'
      BY <1>1, <3>1 DEF TypeOK
    <3>4. Readers'
      BY <1>1, <3>1 DEF TypeOK, Readers, Stored, At
    <3>5. GetIsWhole' /\ NotFoundIsTrue'
      BY <1>1, <3>1, <3>2 DEF TypeOK, GetIsWhole, NotFoundIsTrue
    <3> QED
      BY <1>2, <3>1, <3>3, <3>4, <3>5
  <2> QED
    BY <2>1, <2>2
<1>5. CASE SelectOrderFails(g)
  <2> USE <1>1, <1>5 DEF SelectOrderFails, OrderError, Move, Reply, At
  <2>1. TypeOK'
    BY DEF TypeOK
  <2>2. Readers' /\ GetIsWhole' /\ NotFoundIsTrue'
    BY DEF TypeOK, Readers, GetIsWhole, NotFoundIsTrue, Stored
  <2> QED
    BY <1>2, <2>1, <2>2
<1>6. CASE SelectItems(g)
  <2> USE <1>1, <1>6 DEF SelectItems, Move, At
  <2>1. rows'[g] = ItemsOf[get[g].of]
    BY StoredMeansCommitted, PartsAreRows DEF TypeOK, Readers
  <2>2. TypeOK'
    BY DEF TypeOK
  <2>3. Readers' /\ GetIsWhole' /\ NotFoundIsTrue'
    BY <2>1 DEF TypeOK, Readers, GetIsWhole, NotFoundIsTrue, Stored
  <2> QED
    BY <1>2, <2>2, <2>3
<1>7. ASSUME NEW i \in Items, NextRow(g, i) PROVE ReadsInv'
  <2>1. /\ get' = [get EXCEPT ![g].got = @ \cup {i}]
        /\ get[g].at = "rows" /\ i \in ItemsOf[get[g].of]
        /\ UNCHANGED <<post, written, tx, db, rows, answer, known, due>>
    BY <1>7 DEF NextRow, At, Readers
  <2>2. TypeOK'
    BY <1>1, <2>1 DEF TypeOK
  <2>3. Readers'
    BY <1>1, <2>1 DEF TypeOK, Readers, Stored, At
  <2>4. answer[g] # "ok"
    BY <2>1 DEF Readers, At
  <2>5. GetIsWhole' /\ NotFoundIsTrue'
    BY <1>1, <2>1, <2>4 DEF TypeOK, GetIsWhole, NotFoundIsTrue
  <2> QED
    BY <1>2, <2>1, <2>2, <2>3, <2>5
<1>8. CASE EndOfRows(g)
  <2> USE <1>1, <1>8 DEF EndOfRows, Move, Reply, At
  <2>1. /\ get[g].got = ItemsOf[get[g].of] /\ get[g].of \in Stored
        /\ known' = known \cup {get[g].of}
    BY DEF Readers
  <2>2. TypeOK'
    BY <2>1 DEF TypeOK
  <2>3. Readers'
    BY <2>1 DEF TypeOK, Readers, Stored
  <2>4. GetIsWhole' /\ NotFoundIsTrue'
    BY <2>1 DEF TypeOK, GetIsWhole, NotFoundIsTrue
  <2> QED
    BY <1>2, <2>2, <2>3, <2>4
<1>9. CASE RowsFail(g)
  <2>1. /\ get[g].at \in {"items", "rows"}
        /\ get' = [get EXCEPT ![g].at = "done"]
        /\ answer' = [answer EXCEPT ![g] = "error"]
        /\ UNCHANGED <<post, written, tx, db, rows, known, due>>
    BY <1>9 DEF RowsFail, BrokenRows, Move, Reply, At
  <2>2. TypeOK'
    BY <1>1, <2>1 DEF TypeOK
  <2>3. Readers'
    BY <1>1, <2>1 DEF TypeOK, Readers, Stored, At
  <2>4. GetIsWhole' /\ NotFoundIsTrue'
    BY <1>1, <2>1 DEF TypeOK, GetIsWhole, NotFoundIsTrue
  <2> QED
    BY <1>2, <2>1, <2>2, <2>3, <2>4
<1> QED
  BY <1>3, <1>4, <1>5, <1>6, <1>7, <1>8, <1>9 DEF Get

LEMMA StepKeepsInvariant == ReadsInv /\ [Next]_vars => ReadsInv'
<1> SUFFICES ASSUME ReadsInv, [Next]_vars PROVE ReadsInv'
  OBVIOUS
<1>1. CASE UNCHANGED vars
  BY <1>1 DEF vars, ReadsInv, TypeOK, Transactions, Readers, GetIsWhole, NotFoundIsTrue, Visible,
              Stored, At
<1> QED
  BY <1>1, CreateKeeps, OutsideKeeps, GetKeeps DEF Next

\* Every reachable state is well-typed and satisfies the inductive invariant:
\* what is visible of an order was committed whole.
THEOREM ReadsInvariant == Spec => []ReadsInv
  BY InitialInvariant, StepKeepsInvariant, PTL DEF Spec

\* GetOrder: a 200 has every item of the order.
THEOREM OrdersAreReadWhole == Spec => []GetIsWhole
<1>1. ReadsInv => GetIsWhole
  BY DEF ReadsInv
<1> QED
  BY <1>1, ReadsInvariant, PTL

\* CreateOrder: a part of an order is visible only with all the others.
THEOREM OrdersAreWritten == Spec => []WholeOrNothing
<1>1. ReadsInv => WholeOrNothing
  BY DEF ReadsInv, Transactions, WholeOrNothing
<1> QED
  BY <1>1, ReadsInvariant, PTL

\* Execute: an order that somebody had been told of is never missing.
THEOREM KnownOrdersAreFound == Spec => []NotFoundIsTrue
<1>1. ReadsInv => NotFoundIsTrue
  BY DEF ReadsInv
<1> QED
  BY <1>1, ReadsInvariant, PTL

-----------------------------------------------------------------------------
(* The refinement *)

LEMMA RefinesInit == Init => Atomic!Init
  BY DEF Init, Atomic!Init, Stored, Saw

LEMMA RefinesCreate ==
    ASSUME ReadsInv, NEW o \in Orders, Create(o)
    PROVE  [Atomic!Next]_Atomic!vars
<1>1. UNCHANGED <<get, answer, due>>
  BY DEF Create, InsertOrder, InsertItem, AppendEvent, Complete, SendCommit, Accept,
         StatementFails, CommitFails
<1>2. UNCHANGED Saw
  BY <1>1 DEF Saw
<1>3. UNCHANGED db
  BY DEF Create, InsertOrder, InsertItem, AppendEvent, Append, Complete, Insert,
         SendCommit, Accept, StatementFails, CommitFails
<1>4. CASE Accept(o)
  <2>1. o \in Stored /\ UNCHANGED Stored
    BY <1>3, <1>4, StoredMeansCommitted DEF Accept, Stored
  <2>2. Atomic!Tell(o)
    BY <1>1, <1>2, <1>4, <2>1 DEF Accept, Atomic!Tell
  <2> QED
    BY <2>2 DEF Atomic!Next
<1>5. CASE ~Accept(o)
  <2>1. UNCHANGED known
    BY <1>5 DEF Create, InsertOrder, InsertItem, AppendEvent, Complete, SendCommit,
                StatementFails, CommitFails
  <2> QED
    BY <1>1, <1>2, <1>3, <2>1 DEF Atomic!vars, Stored
<1> QED
  BY <1>4, <1>5

LEMMA RefinesOutside ==
    ASSUME ReadsInv, NEW o \in Orders, Outside(o)
    PROVE  [Atomic!Next]_Atomic!vars
<1>1. UNCHANGED <<get, answer, due>>
  BY DEF Outside, CommitApplies, CommitLost, Tell
<1>2. UNCHANGED Saw
  BY <1>1 DEF Saw
<1>3. CASE CommitApplies(o)
  <2>1. written[o] = Parts(o)
    BY <1>3 DEF CommitApplies, ReadsInv, Transactions
  <2>2. Stored' = Stored \cup {o}
    BY <1>3, <2>1 DEF CommitApplies, Stored, Parts
  <2>3. Atomic!Store(o)
    BY <1>1, <1>2, <1>3, <2>2 DEF CommitApplies, Atomic!Store
  <2> QED
    BY <2>3 DEF Atomic!Next
<1>4. CASE CommitLost(o)
  BY <1>1, <1>2, <1>4 DEF CommitLost, Atomic!vars, Stored
<1>5. CASE Tell(o)
  <2>1. Visible(o) # {}
    BY <1>5 DEF Tell, Visible, AllParts
  <2>2. o \in Stored /\ UNCHANGED Stored
    BY <1>5, <2>1, StoredMeansCommitted DEF Tell, Stored
  <2>3. Atomic!Tell(o)
    BY <1>1, <1>2, <1>5, <2>2 DEF Tell, Atomic!Tell
  <2> QED
    BY <2>3 DEF Atomic!Next
<1> QED
  BY <1>3, <1>4, <1>5 DEF Outside

\* A GET says at one point what it saw: where it finds no order, where a call
\* fails, or where it has read the last row.
LEMMA RefinesGet ==
    ASSUME ReadsInv, ReadsInv', NEW g \in Gets, Get(g)
    PROVE  [Atomic!Next]_Atomic!vars
<1> DEFINE o == get[g].of
           told(what) == CASE what = "not_found" -> "missing"
                           [] what = "error" -> "error"
                           [] OTHER -> "whole"
<1> USE DEF ReadsInv
<1>1. /\ get[g] \in [of: Orders, at: {"start", "order", "items", "rows", "done"},
                     got: SUBSET Items]
      /\ answer \in [Gets -> {"none", "ok", "not_found", "error"}]
  BY DEF TypeOK
<1>2. UNCHANGED db
  BY DEF Get, BeginGet, SelectOrder, SelectOrderFails, SelectItems, EndOfRows,
         RowsFail, NextRow
<1>3. UNCHANGED Stored
  BY <1>2 DEF Stored
<1>4. CASE BeginGet(g)
  <2>1. UNCHANGED Saw
    <3>1. \A h \in Gets : get'[h].of = get[h].of /\ get'[h].got = get[h].got
      BY <1>4 DEF BeginGet, Move, TypeOK
    <3> QED
      BY <1>4, <3>1 DEF BeginGet, Saw
  <2>2. Atomic!Begin(g, o)
    BY <1>3, <1>4, <2>1 DEF BeginGet, Atomic!Begin
  <2> QED
    BY <1>1, <2>2 DEF Atomic!Next
<1>5. ASSUME get[g].at # "done", UNCHANGED <<answer, known, due>>,
             \A h \in Gets \ {g} : get'[h] = get[h]
      PROVE  [Atomic!Next]_Atomic!vars
  <2>1. UNCHANGED Saw
    BY <1>1, <1>5 DEF Saw, Readers, At
  <2> QED
    BY <1>3, <1>5, <2>1 DEF Atomic!vars
<1>6. ASSUME NEW what \in {"ok", "not_found", "error"},
             get[g].at # "done", Reply(g, what)
      PROVE  /\ Saw[g] = "nothing"
             /\ Saw' = [Saw EXCEPT ![g] = told(what)]
             /\ known' = IF what = "ok" THEN known \cup {o} ELSE known
  <2>1. answer[g] = "none" /\ answer' = [answer EXCEPT ![g] = what]
    BY <1>1, <1>6 DEF Readers, At, Reply
  <2>2. what = "ok" => get'[g].got = ItemsOf[get'[g].of]
    BY <1>1, <2>1 DEF GetIsWhole
  <2>3. \A h \in Gets \ {g} : get'[h] = get[h]
    BY <1>6 DEF Reply, Move, TypeOK
  <2>4. known' = IF what = "ok" THEN known \cup {o} ELSE known
    BY <1>6 DEF Reply
  <2>5. Saw[g] = "nothing" /\ Saw'[g] = told(what)
    BY <1>1, <2>1, <2>2 DEF Saw
  <2>6. \A h \in Gets \ {g} : Saw'[h] = Saw[h]
    BY <1>1, <2>1, <2>3 DEF Saw
  <2>7. Saw' = [h \in Gets |-> Saw'[h]] /\ Saw = [h \in Gets |-> Saw[h]]
    BY DEF Saw
  <2> HIDE DEF told
  <2>8. Saw' = [Saw EXCEPT ![g] = told(what)]
    BY <2>5, <2>6, <2>7
  <2> QED
    BY <2>4, <2>5, <2>8
<1>7. CASE SelectOrder(g)
  <2>1. CASE o \in Stored
    BY <1>5, <1>7, <2>1 DEF SelectOrder, At, Move, TypeOK
  <2>2. CASE o \notin Stored
    <3>1. g \notin due
      BY <2>2 DEF Readers
    <3>2. Atomic!Missed(g, o)
      BY <1>3, <1>6, <1>7, <2>2, <3>1 DEF SelectOrder, At, Atomic!Missed, Atomic!See
    <3> QED
      BY <1>1, <3>2 DEF Atomic!Next
  <2> QED
    BY <2>1, <2>2
<1>8. CASE SelectOrderFails(g) \/ RowsFail(g)
  <2>1. get[g].at # "done" /\ Reply(g, "error") /\ UNCHANGED due
    BY <1>8 DEF SelectOrderFails, OrderError, RowsFail, BrokenRows, At
  <2>2. Atomic!Failed(g)
    BY <1>3, <1>6, <2>1 DEF Atomic!Failed, Atomic!See
  <2> QED
    BY <2>2 DEF Atomic!Next
<1>9. CASE SelectItems(g) \/ \E i \in Items : NextRow(g, i)
  BY <1>5, <1>9 DEF SelectItems, NextRow, At, Move, TypeOK
<1>10. CASE EndOfRows(g)
  <2>1. o \in Stored
    BY <1>10 DEF EndOfRows, Readers
  <2>2. Atomic!Found(g, o)
    BY <1>3, <1>6, <1>10, <2>1 DEF EndOfRows, At, Atomic!Found, Atomic!See
  <2> QED
    BY <1>1, <2>2 DEF Atomic!Next
<1> QED
  BY <1>4, <1>7, <1>8, <1>9, <1>10 DEF Get

\* GET /orders/{id}: with an order stored when its row is visible, every step
\* stores, tells or reads an order at once, or changes nothing.
THEOREM ReadsAreAtomic == Spec => ImplementsAtomicOrders
<1>1. ReadsInv /\ ReadsInv' /\ [Next]_vars => [Atomic!Next]_Atomic!vars
  <2> SUFFICES ASSUME ReadsInv, ReadsInv', [Next]_vars
               PROVE  [Atomic!Next]_Atomic!vars
    OBVIOUS
  <2>1. CASE UNCHANGED vars
    BY <2>1 DEF vars, Atomic!vars, Stored, Saw
  <2> QED
    BY <2>1, RefinesCreate, RefinesOutside, RefinesGet DEF Next
<1> QED
  BY <1>1, RefinesInit, ReadsInvariant, PTL DEF Spec, ImplementsAtomicOrders, Atomic!Spec

=============================================================================
