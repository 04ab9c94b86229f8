------------------------- MODULE OrderServiceProofs -------------------------
(***************************************************************************)
(* Theorems about OrderService and its parts, for every catalogue, every   *)
(* set of quantities and of request ids, and every width of the integers:  *)
(* OrderLifecycle, OrderTotals, RequestPipeline and what they are          *)
(* together.                                                               *)
(*                                                                         *)
(* Total and MapThenSumSet are folds, which are recursive functions.  The  *)
(* first two sections have what the proofs need of those: that there is a  *)
(* function that solves the recursion, and what all solutions have in      *)
(* common, by the well-founded order of the subsets of a finite set.       *)
(***************************************************************************)
EXTENDS OrderService, FiniteSetTheorems, TLAPS

-----------------------------------------------------------------------------
(* Induction and folds *)

\* A family of subsets of a finite set that is not empty has a least member.
LEMMA MinimalSubset ==
    ASSUME NEW S, IsFiniteSet(S), NEW F, F \subseteq SUBSET S, F # {}
    PROVE  \E s \in F : \A t \in F : t \subseteq s => t = s
<1>1. IsWellFoundedOn(StrictSubsetOrdering(S), FiniteSubsetsOf(S))
  BY FS_StrictSubsetOrderingWellFounded
<1>2. F \subseteq FiniteSubsetsOf(S)
  BY FS_FiniteSubsetsOfFinite
<1>3. PICK s \in F : \A t \in F : ~ (<<t, s>> \in StrictSubsetOrdering(S))
  BY <1>1, <1>2, WFMin
<1> QED
  BY <1>3 DEF StrictSubsetOrdering

\* Induction up to n.
LEMMA UpTo ==
    ASSUME NEW n \in Nat, NEW T, 0 \in T, \A k \in 0..(n - 1) : k \in T => k + 1 \in T
    PROVE  n \in T
<1> SUFFICES ASSUME n \notin T PROVE FALSE
  OBVIOUS
<1> DEFINE U == 0..n \ T
<1>1. U \subseteq Nat /\ n \in U /\ 0 \notin U
  OBVIOUS
<1>2. PICK k \in U : \A j \in U : ~ (<<j, k>> \in OpToRel(<, Nat))
  <2> HIDE DEF U
  <2> QED
    BY <1>1, NatLessThanWellFounded, WFMin
<1>3. k - 1 \in 0..(n - 1) /\ k - 1 < k /\ k - 1 \in Nat /\ k \in Nat /\ k \notin T
  BY <1>1
<1>4. k - 1 \in U
  BY <1>3
<1> QED
  BY <1>2, <1>3, <1>4 DEF OpToRel

\* g folds F over the subsets of S, taking from each the element that C chooses.
FoldsOver(g, F, C, base, S) ==
    /\ g = [s \in SUBSET S |-> g[s]]
    /\ \A s \in SUBSET S : g[s] = IF s = {} THEN base ELSE F[C[s]][g[s \ {C[s]}]]

Chooses(C, S) == \A s \in SUBSET S : s # {} => C[s] \in s

\* Folds over two sets agree on what is in both.
LEMMA FoldsAgree ==
    ASSUME NEW S, IsFiniteSet(S), NEW F, NEW C, NEW base, Chooses(C, S),
           NEW A \in SUBSET S, NEW B \in SUBSET S, NEW g, NEW h,
           FoldsOver(g, F, C, base, A), FoldsOver(h, F, C, base, B)
    PROVE  \A s \in SUBSET (A \cap B) : g[s] = h[s]
<1> DEFINE Bad == {s \in SUBSET (A \cap B) : g[s] # h[s]}
<1> SUFFICES ASSUME Bad # {} PROVE FALSE
  OBVIOUS
<1>1. Bad \subseteq SUBSET S
  OBVIOUS
<1>2. PICK s \in Bad : \A t \in Bad : t \subseteq s => t = s
  <2> HIDE DEF Bad
  <2> QED
    BY <1>1, MinimalSubset
<1>3. s # {}
  BY DEF FoldsOver
<1>4. C[s] \in s
  BY <1>3 DEF Chooses
<1>5. s \ {C[s]} \in SUBSET (A \cap B) /\ s \ {C[s]} # s
  BY <1>4
<1>6. g[s \ {C[s]}] = h[s \ {C[s]}]
  BY <1>2, <1>5
<1>7. s \in SUBSET A /\ s \in SUBSET B
  OBVIOUS
<1>8. g[s] = F[C[s]][g[s \ {C[s]}]]
  BY <1>3, <1>7 DEF FoldsOver
<1>9. h[s] = F[C[s]][h[s \ {C[s]}]]
  BY <1>3, <1>7 DEF FoldsOver
<1>10. g[s] = h[s]
  BY <1>6, <1>8, <1>9
<1> QED
  BY <1>10

\* There is a fold over every finite set.
LEMMA FoldExists ==
    ASSUME NEW S, IsFiniteSet(S), NEW F, NEW C, NEW base, Chooses(C, S)
    PROVE  \E g : FoldsOver(g, F, C, base, S)
<1> DEFINE Bad == {s \in SUBSET S : \A g : ~FoldsOver(g, F, C, base, s)}
<1> SUFFICES ASSUME Bad # {} PROVE FALSE
  <2>1. S \in SUBSET S
    OBVIOUS
  <2> QED
    BY <2>1
<1>1. PICK s \in Bad : \A t \in Bad : t \subseteq s => t = s
  <2>1. Bad \subseteq SUBSET S
    OBVIOUS
  <2> HIDE DEF Bad
  <2> QED
    BY <2>1, MinimalSubset
<1>2. s \in SUBSET S
  OBVIOUS
<1> DEFINE G(t) == CHOOSE g : FoldsOver(g, F, C, base, t)
<1>3. \A t \in SUBSET s : t # s => FoldsOver(G(t), F, C, base, t)
  <2> SUFFICES ASSUME NEW t \in SUBSET s, t # s PROVE FoldsOver(G(t), F, C, base, t)
    OBVIOUS
  <2>1. PICK g : FoldsOver(g, F, C, base, t)
    BY <1>1, <1>2
  <2> QED
    BY <2>1
<1> DEFINE Below(t) == G(t)[t]
<1> DEFINE h == [t \in SUBSET s |-> IF t = {} THEN base
                                    ELSE IF t = s THEN F[C[s]][Below(s \ {C[s]})]
                                    ELSE Below(t)]
<1>4. ASSUME NEW t \in SUBSET s
      PROVE  h[t] = IF t = {} THEN base ELSE F[C[t]][h[t \ {C[t]}]]
  <2> HIDE DEF G
  <2>1. CASE t = {}
    BY <2>1
  <2>2. CASE t # {}
    <3>1. C[t] \in t /\ t \ {C[t]} \in SUBSET s /\ t \ {C[t]} # s /\ t \ {C[t]} # t
      BY <1>2, <2>2 DEF Chooses
    <3> DEFINE u == t \ {C[t]}
    <3>2. FoldsOver(G(u), F, C, base, u)
      BY <1>3, <3>1
    <3>3. h[u] = Below(u)
      <4>1. u = {} => G(u)[u] = base
        BY <3>2 DEF FoldsOver
      <4> QED
        BY <3>1, <4>1
    <3>4. CASE t = s
      BY <2>2, <3>3, <3>4
    <3>5. CASE t # s
      <4>1. FoldsOver(G(t), F, C, base, t)
        BY <1>3, <3>5
      <4>2. G(t)[t] = F[C[t]][G(t)[u]]
        BY <2>2, <4>1 DEF FoldsOver
      <4>3. G(t)[u] = G(u)[u]
        <5>1. t \in SUBSET S /\ u \in SUBSET S /\ u \in SUBSET (t \cap u)
          BY <1>2, <3>1
        <5> HIDE DEF u
        <5> QED
          BY <3>2, <4>1, <5>1, FoldsAgree
      <4> QED
        BY <2>2, <3>3, <3>5, <4>2, <4>3
    <3> QED
      BY <3>4, <3>5
  <2> QED
    BY <2>1, <2>2
<1>5. FoldsOver(h, F, C, base, s)
  <2>1. h = [t \in SUBSET s |-> h[t]]
    OBVIOUS
  <2> HIDE DEF h
  <2> QED
    BY <1>4, <2>1 DEF FoldsOver
<1> QED
  <2> HIDE DEF h
  <2> QED
    BY <1>5

\* A fold has the values that F computes.
LEMMA FoldType ==
    ASSUME NEW S, IsFiniteSet(S), NEW F, NEW C, NEW base, Chooses(C, S), NEW V,
           base \in V, \A x \in S, v \in V : F[x][v] \in V,
           NEW g, FoldsOver(g, F, C, base, S)
    PROVE  \A s \in SUBSET S : g[s] \in V
<1> DEFINE Bad == {s \in SUBSET S : g[s] \notin V}
<1> SUFFICES ASSUME Bad # {} PROVE FALSE
  OBVIOUS
<1>1. PICK s \in Bad : \A t \in Bad : t \subseteq s => t = s
  <2>1. \A U, G : IsFiniteSet(U) /\ G \subseteq SUBSET U /\ G # {} =>
          \E s \in G : \A t \in G : t \subseteq s => t = s
    BY MinimalSubset
  <2>2. Bad \subseteq SUBSET S
    OBVIOUS
  <2> HIDE DEF Bad
  <2> QED
    BY <2>1, <2>2
<1>2. s # {} /\ C[s] \in s
  BY DEF FoldsOver, Chooses
<1>3. g[s \ {C[s]}] \in V
  BY <1>1, <1>2
<1>4. s \in SUBSET S /\ s # {} /\ C[s] \in S
  BY <1>2
<1>5. g[s] = F[C[s]][g[s \ {C[s]}]]
  BY <1>4 DEF FoldsOver
<1>6. g[s] \in V
  BY <1>3, <1>4, <1>5
<1> QED
  BY <1>6

-----------------------------------------------------------------------------
(* Sums *)

\* g[s] is the sum of w over s, for every subset s of S.
Sums(g, w, S) ==
    /\ g \in [SUBSET S -> Int]
    /\ g[{}] = 0
    /\ \A s \in SUBSET S, x \in S : x \notin s => g[s \cup {x}] = g[s] + w[x]

Pick(s) == CHOOSE x \in s : TRUE

\* g adds w up over the subsets of S as MapThenSumSet does.
Adds(g, w, S) ==
    /\ g = [s \in SUBSET S |-> g[s]]
    /\ \A s \in SUBSET S : g[s] = IF s = {} THEN 0 ELSE w[Pick(s)] + g[s \ {Pick(s)}]

\* What MapThenSumSet computes, element by element, is a sum in any order.
LEMMA SumInAnyOrder ==
    ASSUME NEW S, IsFiniteSet(S), NEW w \in [S -> Int], NEW g, Adds(g, w, S)
    PROVE  Sums(g, w, S)
<1>1. g \in [SUBSET S -> Int]
  <2> DEFINE Bad == {s \in SUBSET S : g[s] \notin Int}
  <2>1. ASSUME Bad # {} PROVE FALSE
    <3>1. PICK s \in Bad : \A t \in Bad : t \subseteq s => t = s
      <4>1. Bad \subseteq SUBSET S
        OBVIOUS
      <4> HIDE DEF Bad
      <4> QED
        BY <2>1, <4>1, MinimalSubset
    <3>0. g[{}] = 0
      BY DEF Adds
    <3>2. s \in SUBSET S /\ s # {} /\ g[s] \notin Int
      BY <3>0
    <3>3. Pick(s) \in s
      BY <3>2 DEF Pick
    <3>4. s \ {Pick(s)} \in SUBSET S /\ s \ {Pick(s)} \notin Bad
      BY <3>1, <3>2, <3>3
    <3>5. g[s \ {Pick(s)}] \in Int /\ w[Pick(s)] \in Int
      BY <3>2, <3>3, <3>4
    <3>6. g[s] = w[Pick(s)] + g[s \ {Pick(s)}]
      BY <3>2 DEF Adds
    <3> QED
      BY <3>2, <3>5, <3>6
  <2>2. g = [s \in SUBSET S |-> g[s]]
    BY DEF Adds
  <2> QED
    BY <2>1, <2>2
<1>2. \A s \in SUBSET S : g[s] = IF s = {} THEN 0 ELSE w[Pick(s)] + g[s \ {Pick(s)}]
  BY DEF Adds
<1> DEFINE Bad == {s \in SUBSET S : \E x \in s : g[s] # g[s \ {x}] + w[x]}
<1>3. ASSUME Bad # {} PROVE FALSE
  <2>1. PICK s \in Bad : \A t \in Bad : t \subseteq s => t = s
    <3>1. Bad \subseteq SUBSET S
      OBVIOUS
    <3> HIDE DEF Bad
    <3> QED
      BY <1>3, <3>1, MinimalSubset
  <2>2. PICK x \in s : g[s] # g[s \ {x}] + w[x]
    OBVIOUS
  <2> DEFINE p == Pick(s)
  <2>3. p \in s
    BY <2>2 DEF Pick
  <2>4. g[s] = w[p] + g[s \ {p}]
    BY <2>3, <1>2
  <2> HIDE DEF p
  <2>5. s \in SUBSET S /\ w[p] \in Int /\ w[x] \in Int
    BY <2>3
  <2>6. \A t \in SUBSET S : g[t] \in Int
    BY <1>1
  <2>7. p # x
    <3> SUFFICES ASSUME p = x PROVE FALSE
      OBVIOUS
    <3>1. g[s \ {x}] \in Int /\ w[x] \in Int
      BY <2>5, <2>6
    <3>2. g[s] = w[x] + g[s \ {x}]
      BY <2>4
    <3> HIDE DEF Bad
    <3> QED
      BY <2>2, <3>1, <3>2
  <2>8. g[s \ {p}] = g[(s \ {p}) \ {x}] + w[x]
    <3>1. s \ {p} \notin Bad /\ s \ {p} \in SUBSET S /\ x \in s \ {p}
      BY <2>1, <2>3, <2>7
    <3> QED
      BY <3>1
  <2>9. g[s \ {x}] = g[(s \ {x}) \ {p}] + w[p]
    <3>1. s \ {x} \notin Bad /\ s \ {x} \in SUBSET S /\ p \in s \ {x}
      BY <2>1, <2>2, <2>3, <2>7
    <3> QED
      BY <3>1
  <2>10. (s \ {p}) \ {x} = (s \ {x}) \ {p}
    OBVIOUS
  <2> DEFINE r == g[(s \ {x}) \ {p}]
  <2>11. r \in Int
    BY <2>6
  <2>12. g[s] = w[p] + (r + w[x]) /\ g[s \ {x}] = r + w[p]
    BY <2>4, <2>8, <2>9, <2>10
  <2> HIDE DEF Bad, r
  <2> QED
    BY <2>2, <2>5, <2>11, <2>12
<1>4. \A s \in SUBSET S, x \in S : x \notin s => g[s \cup {x}] = g[s] + w[x]
  <2> SUFFICES ASSUME NEW s \in SUBSET S, NEW x \in S, x \notin s
               PROVE  g[s \cup {x}] = g[s] + w[x]
    OBVIOUS
  <2>1. s \cup {x} \notin Bad /\ s \cup {x} \in SUBSET S /\ (s \cup {x}) \ {x} = s
    BY <1>3
  <2> QED
    BY <2>1
<1>5. g[{}] = 0
  BY <1>2
<1> QED
  BY <1>4, <1>5, <1>1 DEF Sums

\* Every finite set has its sums, as MapThenSumSet computes them.
LEMMA SumExists ==
    ASSUME NEW S, IsFiniteSet(S), NEW w \in [S -> Int]
    PROVE  \E g : Adds(g, w, S)
<1> DEFINE F == [x \in S |-> [v \in Int |-> w[x] + v]]
           C == [s \in SUBSET S |-> Pick(s)]
<1>1. Chooses(C, S)
  BY DEF Chooses, Pick
<1>2. PICK g : FoldsOver(g, F, C, 0, S)
  <2> HIDE DEF F, C
  <2> QED
    BY <1>1, FoldExists
<1>3. \A x \in S, v \in Int : F[x][v] = w[x] + v /\ F[x][v] \in Int
  OBVIOUS
<1>4. \A s \in SUBSET S : g[s] \in Int
  <2> DEFINE V == Int
  <2>1. 0 \in V /\ \A x \in S, v \in V : F[x][v] \in V
    OBVIOUS
  <2>2. \A s \in SUBSET S : g[s] \in V
    <3> HIDE DEF F, C, V
    <3> QED
      BY <1>1, <1>2, <2>1, FoldType
  <2> QED
    BY <2>2
<1>5. \A s \in SUBSET S : g[s] = IF s = {} THEN 0 ELSE w[Pick(s)] + g[s \ {Pick(s)}]
  <2> SUFFICES ASSUME NEW s \in SUBSET S, s # {}
               PROVE  g[s] = w[Pick(s)] + g[s \ {Pick(s)}]
    BY <1>2 DEF FoldsOver
  <2>1. Pick(s) \in S /\ s \ {Pick(s)} \in SUBSET S /\ C[s] = Pick(s)
    BY DEF Pick
  <2>2. g[s] = F[Pick(s)][g[s \ {Pick(s)}]]
    BY <1>2, <2>1 DEF FoldsOver
  <2> HIDE DEF F, C
  <2> QED
    BY <1>3, <1>4, <2>1, <2>2
<1>6. g = [s \in SUBSET S |-> g[s]]
  BY <1>2 DEF FoldsOver
<1> QED
  BY <1>5, <1>6 DEF Adds

\* A part of a set sums up to no more than the whole, if nothing is negative.
LEMMA SumGrows ==
    ASSUME NEW S, IsFiniteSet(S), NEW w \in [S -> Nat], NEW g, Sums(g, w, S)
    PROVE  \A s \in SUBSET S : g[s] <= g[S]
<1> DEFINE Bad == {u \in SUBSET S : ~(g[S \ u] <= g[S])}
<1>1. ASSUME Bad # {} PROVE FALSE
  <2>1. PICK u \in Bad : \A t \in Bad : t \subseteq u => t = u
    <3>1. Bad \subseteq SUBSET S
      OBVIOUS
    <3> HIDE DEF Bad
    <3> QED
      BY <1>1, <3>1, MinimalSubset
  <2>2. u # {}
    <3>1. S \ {} = S /\ g[S] \in Int
      BY DEF Sums
    <3> QED
      BY <3>1
  <2>3. PICK x \in u : TRUE
    BY <2>2
  <2>4. u \ {x} \notin Bad /\ u \ {x} \in SUBSET S
    BY <2>1, <2>3
  <2>5. S \ (u \ {x}) = (S \ u) \cup {x} /\ x \in S /\ x \notin S \ u
    OBVIOUS
  <2>6. g[S \ (u \ {x})] = g[S \ u] + w[x] /\ w[x] \in Nat
    BY <2>5 DEF Sums
  <2>7. g[S \ u] \in Int /\ g[S] \in Int /\ g[S \ (u \ {x})] \in Int
    BY DEF Sums
  <2> QED
    BY <2>4, <2>6, <2>7
<1> SUFFICES ASSUME NEW s \in SUBSET S PROVE g[s] <= g[S]
  OBVIOUS
<1>2. S \ (S \ s) = s /\ S \ s \in SUBSET S
  OBVIOUS
<1> QED
  BY <1>1, <1>2

-----------------------------------------------------------------------------
(* The status of an order *)

\* The statuses that the legal edges lead through on the way to s.
Before(s) ==
    CASE s = "pending"                 -> {}
      [] s = "inventory_reserved"      -> {"pending"}
      [] s = "payment_pending"         -> {"pending", "inventory_reserved"}
      [] s = "awaiting_reconciliation" -> {"pending", "inventory_reserved", "payment_pending"}
      [] s \in {"payment_succeeded", "payment_failed"} ->
           {"pending", "inventory_reserved", "payment_pending", "awaiting_reconciliation"}
      [] OTHER -> {"pending", "inventory_reserved", "payment_pending", "payment_failed",
                   "payment_succeeded", "awaiting_reconciliation"}

\* What each status says about the past of an order: the table of legal edges,
\* read backwards along whole paths.
PathInv ==
    \A o \in Orders :
        /\ "payment_succeeded" \in past[o] => status[o] \in {"confirmed", "manual_review"}
        /\ "payment_pending" \in past[o] /\ "payment_failed" \notin past[o] =>
             status[o] \in {"payment_succeeded", "payment_failed", "confirmed",
                            "awaiting_reconciliation", "manual_review"}
        /\ past[o] \subseteq Before(status[o])

\* A legal edge leads on: what came before, and the status itself, come before
\* the next one.
LEMMA EdgesLeadOn ==
    ASSUME NEW s \in AllStatuses, NEW next \in transitions(s)
    PROVE  Before(s) \cup {s} \subseteq Before(next)
<1>1. CASE s \in {"pending", "inventory_reserved", "payment_failed"}
  BY <1>1 DEF transitions, Before
<1>2. CASE s \in {"payment_pending", "payment_succeeded", "awaiting_reconciliation"}
  BY <1>2 DEF transitions, Before
<1>3. CASE s \in {"confirmed", "cancelled", "expired", "manual_review"}
  BY <1>3 DEF transitions
<1> QED
  BY <1>1, <1>2, <1>3 DEF AllStatuses

\* A new order has no past.
LEMMA PathStart == Init => TypeOK /\ PathInv
  BY DEF Init, TypeOK, PathInv, AllStatuses, Before

\* TransitionTo keeps the path invariant: checked edge by edge.
LEMMA PathStep == TypeOK /\ PathInv /\ [Next]_vars => (TypeOK /\ PathInv)'
<1> SUFFICES ASSUME TypeOK, PathInv, [Next]_vars PROVE (TypeOK /\ PathInv)'
  OBVIOUS
<1>1. ASSUME NEW o \in Orders, NEW next \in AllStatuses \cup {Unknown}, TransitionTo(o, next)
      PROVE  (TypeOK /\ PathInv)'
  <2>1. next \in transitions(status[o])
    BY <1>1 DEF TransitionTo, CanTransitionTo
  <2>2. status[o] \in AllStatuses /\ next \in AllStatuses
    BY <2>1 DEF TypeOK, transitions, AllStatuses
  <2>3. TypeOK'
    BY <1>1, <2>2 DEF TypeOK, TransitionTo
  <2>4. \A p \in Orders : p # o => status'[p] = status[p] /\ past'[p] = past[p]
    BY <1>1 DEF TypeOK, TransitionTo
  <2>5. status'[o] = next /\ past'[o] = past[o] \cup {status[o]}
    BY <1>1 DEF TypeOK, TransitionTo
  <2>6. status[o] = "payment_succeeded" => next \in {"confirmed", "manual_review"}
    BY <2>1 DEF transitions
  <2>7. status[o] \notin {"confirmed", "manual_review"}
    BY <2>1 DEF transitions
  <2>8. status[o] \in {"payment_pending", "awaiting_reconciliation"} =>
          next \in {"payment_succeeded", "payment_failed", "awaiting_reconciliation",
                    "manual_review"}
    BY <2>1 DEF transitions
  <2>9. past'[o] \subseteq Before(status'[o])
    BY <2>1, <2>2, <2>5, EdgesLeadOn DEF PathInv
  <2>10. PathInv'
    BY <2>4, <2>5, <2>6, <2>7, <2>8, <2>9 DEF PathInv
  <2> QED
    BY <2>3, <2>10
<1>2. ASSUME NEW o \in Orders, NEW next \in AllStatuses \cup {Unknown},
             TransitionRefused(o, next)
      PROVE  (TypeOK /\ PathInv)'
  BY <1>2 DEF TransitionRefused, TypeOK, PathInv
<1>3. CASE UNCHANGED vars
  BY <1>3 DEF vars, TypeOK, PathInv
<1> QED
  BY <1>1, <1>2, <1>3 DEF Next

\* The path invariant holds of every order, whatever its callers ask for.
LEMMA PathInvariant == Spec => [](TypeOK /\ PathInv)
  BY PathStart, PathStep, PTL DEF Spec

\* What the path invariant says of money.
LEMMA PathsAreSafe == PathInv => PaidIsKept /\ CompensationNeedsFailure
  BY DEF PathInv, PaidIsKept, CompensationNeedsFailure

\* TransitionTo keeps every order within the ten statuses of the domain, though
\* callers ask for others.
THEOREM StatusesOfTheDomain == Spec => []TypeOK
  BY PathInvariant, PTL

\* TransitionTo never leads a paid order to a failure, cancellation or expiry.
THEOREM PaidOrdersAreKept == Spec => []PaidIsKept
  BY PathsAreSafe, PathInvariant, PTL

\* TransitionTo never cancels an order whose payment may have been taken.
THEOREM NoBlindCompensation == Spec => []CompensationNeedsFailure
  BY PathsAreSafe, PathInvariant, PTL

\* TransitionTo never leads an order back to a status it has left, along any
\* sequence of legal calls.
THEOREM OrdersMoveOn == Spec => []NoReturn
<1>1. TypeOK /\ PathInv => NoReturn
  <2>1. \A s \in AllStatuses : s \notin Before(s)
    BY DEF AllStatuses, Before
  <2> QED
    BY <2>1 DEF TypeOK, PathInv, NoReturn
<1> QED
  BY <1>1, PathInvariant, PTL
-----------------------------------------------------------------------------
(* Totals *)

LineOf(items, i) ==
    [sku |-> items[i].sku, quantity |-> items[i].quantity, price |-> Prices[items[i].sku]]

LinesUpTo(items, k) == {LineOf(items, i) : i \in 1..k}

\* The tables accept the first k items.
Fits(items, k) ==
    /\ \A i \in 1..k : FitsColumn(items[i].quantity)
    /\ \A i, j \in 1..k : i # j => items[i].sku # items[j].sku

\* Nothing wraps around that an int64 can hold.
LEMMA NoWrap == \A n \in 0..LongMax : Wrap(n) = n
  BY WidthAssumption DEF Wrap

\* Whatever wraps around is an int64.
LEMMA WrapIsLong == \A n \in Int : Wrap(n) \in Longs
  BY WidthAssumption DEF Wrap, Longs

\* The price of an item is an integer, negative quantities included.
LEMMA ItemPrice ==
    ASSUME NEW sku \in SKUs, NEW q \in Quantities
    PROVE  Prices[sku] \in 0..LongMax /\ q \in Int /\ Prices[sku] * q \in Int
<1>1. Prices[sku] \in 0..LongMax /\ LongMax \in Nat
  BY CatalogueAssumption, WidthAssumption
<1>2. q \in Int
  BY WidthAssumption, QuantitiesAssumption DEF Longs
<1> QED
  BY <1>1, <1>2

\* What Total has added up after its first k items.
Running(items, h) ==
    /\ h \in [SUBSET (1..Len(items)) -> Longs]
    /\ h[{}] = 0
    /\ \A k \in 0..(Len(items) - 1) :
         h[1..(k + 1)] = Wrap(h[1..k] + Wrap(Prices[items[k + 1].sku] * items[k + 1].quantity))
    /\ Total(items) = h[1..Len(items)]

\* Max, which folds a sequence from its end, of the first numbers.
LEMMA MaxOfInterval ==
    ASSUME NEW k \in Nat \ {0}
    PROVE  Max(1..k) = k
  BY DEF Max

\* A set of indices that is not empty has a largest one.
LEMMA MaxOfIndices ==
    ASSUME NEW n \in Nat, NEW s \in SUBSET (1..n), s # {}
    PROVE  Max(s) \in s
<1> DEFINE T == {k \in Nat : \A t \in SUBSET (1..k) : t # {} => \E x \in t : \A y \in t : y <= x}
<1>1. 0 \in T
  <2>1. 1..0 = {}
    OBVIOUS
  <2> QED
    BY <2>1
<1>2. ASSUME NEW k \in 0..(n - 1), k \in T PROVE k + 1 \in T
  <2> SUFFICES ASSUME NEW t \in SUBSET (1..(k + 1)), t # {}
               PROVE  \E x \in t : \A y \in t : y <= x
    OBVIOUS
  <2>1. CASE k + 1 \in t
    BY <2>1
  <2>2. CASE k + 1 \notin t
    <3>1. t \in SUBSET (1..k)
      BY <2>2
    <3> QED
      BY <1>2, <3>1
  <2> QED
    BY <2>1, <2>2
<1>3. n \in T
  <2> HIDE DEF T
  <2> QED
    BY <1>1, <1>2, UpTo
<1>4. PICK x \in s : \A y \in s : y <= x
  BY <1>3
<1> QED
  BY <1>4 DEF Max

\* Total goes through the items in their order and wraps around at each.
LEMMA TotalRuns ==
    ASSUME NEW items \in Seq(Item), \A i \in DOMAIN items : items[i].sku \in SKUs
    PROVE  \E h : Running(items, h)
<1> DEFINE n == Len(items)
           D == DOMAIN items
           f(i) == Wrap(Prices[items[i].sku] * items[i].quantity)
           F == [i \in D |-> [v \in Longs |-> Wrap(v + f(i))]]
           C == [s \in SUBSET D |-> Max(s)]
<1>1. n \in Nat /\ D = 1..n /\ IsFiniteSet(D)
  <2>1. n \in Nat /\ D = 1..n
    OBVIOUS
  <2> QED
    BY <2>1, FS_Interval
<1>2. \A s \in SUBSET D : s # {} => C[s] = Max(s) /\ Max(s) \in s
  BY <1>1, MaxOfIndices
<1>3. Chooses(C, D)
  BY <1>2 DEF Chooses
<1>4. \A i \in D : f(i) \in Int
  <2> SUFFICES ASSUME NEW i \in D PROVE f(i) \in Int
    OBVIOUS
  <2>1. items[i] \in Item
    BY <1>1
  <2>2. items[i].sku \in SKUs /\ items[i].quantity \in Quantities
    BY <2>1 DEF Item
  <2>3. Prices[items[i].sku] * items[i].quantity \in Int
    BY <2>2, ItemPrice
  <2> QED
    BY <2>3, WrapIsLong, WidthAssumption DEF Longs
<1>5. \A i \in D, v \in Longs : F[i][v] = Wrap(v + f(i)) /\ F[i][v] \in Longs
  <2> SUFFICES ASSUME NEW i \in D, NEW v \in Longs
               PROVE  F[i][v] = Wrap(v + f(i)) /\ F[i][v] \in Longs
    OBVIOUS
  <2>1. F[i][v] = Wrap(v + f(i))
    OBVIOUS
  <2>2. v + f(i) \in Int
    BY <1>4, WidthAssumption DEF Longs
  <2> QED
    BY <2>1, <2>2, WrapIsLong
<1>6. 0 \in Longs
  BY WidthAssumption DEF Longs
<1>7. PICK h : FoldsOver(h, F, C, 0, D)
  <2> HIDE DEF F, C, D
  <2> QED
    BY <1>1, <1>3, FoldExists
<1>8. \A s \in SUBSET D : h[s] \in Longs
  <2> HIDE DEF F, C, D, f
  <2> QED
    BY <1>1, <1>3, <1>5, <1>6, <1>7, FoldType
<1>9. \A s \in SUBSET D : h[s] = IF s = {} THEN 0 ELSE Wrap(h[s \ {Max(s)}] + f(Max(s)))
  <2> SUFFICES ASSUME NEW s \in SUBSET D, s # {}
               PROVE  h[s] = Wrap(h[s \ {Max(s)}] + f(Max(s)))
    BY <1>7 DEF FoldsOver
  <2>1. C[s] = Max(s) /\ Max(s) \in D /\ s \ {Max(s)} \in SUBSET D
    BY <1>2
  <2>2. h[s] = F[C[s]][h[s \ {C[s]}]]
    BY <1>7 DEF FoldsOver
  <2> HIDE DEF F, C, D, f
  <2> QED
    BY <1>5, <1>8, <2>1, <2>2
<1>10. h = [s \in SUBSET D |-> h[s]]
  BY <1>7 DEF FoldsOver
<1> DEFINE iter == CHOOSE g : g = [s \in SUBSET D |->
                       IF s = {} THEN 0 ELSE Wrap(g[s \ {Max(s)}] + f(Max(s)))]
<1>11. h = [s \in SUBSET D |-> IF s = {} THEN 0 ELSE Wrap(h[s \ {Max(s)}] + f(Max(s)))]
  <2> HIDE DEF D, f
  <2> QED
    BY <1>9, <1>10
<1>12. iter = [s \in SUBSET D |-> IF s = {} THEN 0 ELSE Wrap(iter[s \ {Max(s)}] + f(Max(s)))]
  <2> HIDE DEF D, f
  <2> QED
    BY <1>11
<1>13. Total(items) = iter[D]
  BY DEF Total, FoldLeft, MapThenFoldSet
<1> HIDE DEF iter
<1> DEFINE W == Longs \cup {iter[s] : s \in SUBSET D}
           F2 == [i \in D |-> [v \in W |-> Wrap(v + f(i))]]
<1>14. FoldsOver(iter, F2, C, 0, D)
  <2>1. iter = [s \in SUBSET D |-> iter[s]]
    <3> HIDE DEF D, f
    <3> QED
      BY <1>12
  <2>2. ASSUME NEW s \in SUBSET D, s # {}
        PROVE  iter[s] = F2[C[s]][iter[s \ {C[s]}]]
    <3>1. C[s] = Max(s) /\ Max(s) \in D /\ s \ {Max(s)} \in SUBSET D
      BY <1>2, <2>2
    <3>2. iter[s] = Wrap(iter[s \ {Max(s)}] + f(Max(s)))
      <4> HIDE DEF D, f
      <4> QED
        BY <1>12, <2>2
    <3> HIDE DEF D, f, C
    <3> QED
      BY <3>1, <3>2
  <2>3. iter[{}] = 0
    <3> HIDE DEF D, f
    <3> QED
      BY <1>12
  <2> HIDE DEF D, F2, C
  <2> QED
    BY <2>1, <2>2, <2>3 DEF FoldsOver
<1>15. \A s \in SUBSET D : iter[s] \in Longs
  <2>1. \A i \in D, v \in Longs : F2[i][v] \in Longs
    <3> SUFFICES ASSUME NEW i \in D, NEW v \in Longs PROVE F2[i][v] \in Longs
      OBVIOUS
    <3>1. F2[i][v] = Wrap(v + f(i)) /\ F[i][v] = Wrap(v + f(i))
      OBVIOUS
    <3> QED
      BY <1>5, <3>1
  <2> HIDE DEF F2, C, D
  <2> QED
    BY <1>1, <1>3, <1>6, <1>14, <2>1, FoldType
<1>16. iter \in [SUBSET D -> Longs] /\ iter[{}] = 0
  <2> HIDE DEF D, f
  <2> QED
    BY <1>12, <1>15
<1>17. ASSUME NEW k \in 0..(n - 1)
       PROVE  iter[1..(k + 1)] = Wrap(iter[1..k] + f(k + 1))
  <2>1. Max(1..(k + 1)) = k + 1 /\ (1..(k + 1)) \ {k + 1} = 1..k
    BY MaxOfInterval
  <2> DEFINE s == 1..(k + 1)
  <2>2. s \in SUBSET D /\ s # {}
    BY <1>1
  <2>3. iter[s] = Wrap(iter[s \ {Max(s)}] + f(Max(s)))
    <3> HIDE DEF D, f, s
    <3> QED
      BY <1>12, <2>2
  <2> QED
    BY <2>1, <2>3
<1> QED
  <2> HIDE DEF iter
  <2> QED
    BY <1>1, <1>13, <1>16, <1>17 DEF Running

\* No more than every SKU of the catalogue as often as a row can say.
LEMMA CatalogueSum ==
    \E g : /\ Sums(g, [sku \in SKUs |-> Prices[sku] * IntMax], SKUs)
           /\ g[SKUs] <= LongMax
<1> DEFINE f(sku) == Prices[sku] * IntMax
           w == [sku \in SKUs |-> f(sku)]
<1>1. IsFiniteSet(SKUs)
  BY CatalogueAssumption
<1>2. w \in [SKUs -> Int]
  <2>1. Prices \in [SKUs -> 0..LongMax] /\ IntMax \in Nat /\ LongMax \in Nat
    BY CatalogueAssumption, WidthAssumption
  <2> QED
    BY <2>1
<1>3. PICK g : Adds(g, w, SKUs)
  <2> HIDE DEF w
  <2> QED
    BY <1>1, <1>2, SumExists
<1>4. \A s \in SUBSET SKUs : s # {} => Pick(s) \in SKUs /\ w[Pick(s)] = f(Pick(s))
  BY DEF Pick
<1> DEFINE iter == CHOOSE h : h = [s \in SUBSET SKUs |->
                       IF s = {} THEN 0 ELSE f(Pick(s)) + h[s \ {Pick(s)}]]
<1>5. g = [s \in SUBSET SKUs |-> IF s = {} THEN 0 ELSE f(Pick(s)) + g[s \ {Pick(s)}]]
  <2> HIDE DEF f, w
  <2> QED
    BY <1>3, <1>4 DEF Adds
<1>6. iter = [s \in SUBSET SKUs |-> IF s = {} THEN 0 ELSE f(Pick(s)) + iter[s \ {Pick(s)}]]
  <2> HIDE DEF f
  <2> QED
    BY <1>5
<1>7. MapThenSumSet(LAMBDA sku : f(sku), SKUs) = iter[SKUs]
  BY DEF MapThenSumSet, MapThenFoldSet, Pick
<1> HIDE DEF iter
<1>8. Adds(iter, w, SKUs)
  <2>1. iter = [s \in SUBSET SKUs |-> iter[s]]
    <3> HIDE DEF f
    <3> QED
      BY <1>6
  <2> HIDE DEF f, w
  <2> QED
    BY <1>4, <1>6, <2>1 DEF Adds
<1>9. Sums(iter, w, SKUs)
  <2> HIDE DEF w
  <2> QED
    BY <1>1, <1>2, <1>8, SumInAnyOrder
<1>10. iter[SKUs] <= LongMax
  BY <1>7, CatalogueAssumption
<1> QED
  BY <1>9, <1>10

\* What lines add up to, as the property counts it.
LEMMA LinesSum ==
    ASSUME NEW L, IsFiniteSet(L), \A l \in L : l.price \in Nat /\ l.quantity \in Nat
    PROVE  \E g : /\ Sums(g, [l \in L |-> l.price * l.quantity], L)
                  /\ MapThenSumSet(LAMBDA l : l.price * l.quantity, L) = g[L]
<1> DEFINE f(l) == l.price * l.quantity
           w == [l \in L |-> f(l)]
<1>2. w \in [L -> Int]
  OBVIOUS
<1>3. PICK g : Adds(g, w, L)
  <2> HIDE DEF w
  <2> QED
    BY <1>2, SumExists
<1>4. \A s \in SUBSET L : s # {} => Pick(s) \in L /\ w[Pick(s)] = f(Pick(s))
  BY DEF Pick
<1> DEFINE iter == CHOOSE h : h = [s \in SUBSET L |->
                       IF s = {} THEN 0 ELSE f(Pick(s)) + h[s \ {Pick(s)}]]
<1>5. g = [s \in SUBSET L |-> IF s = {} THEN 0 ELSE f(Pick(s)) + g[s \ {Pick(s)}]]
  <2> HIDE DEF f, w
  <2> QED
    BY <1>3, <1>4 DEF Adds
<1>6. iter = [s \in SUBSET L |-> IF s = {} THEN 0 ELSE f(Pick(s)) + iter[s \ {Pick(s)}]]
  <2> HIDE DEF f
  <2> QED
    BY <1>5
<1>7. MapThenSumSet(LAMBDA l : f(l), L) = iter[L]
  BY DEF MapThenSumSet, MapThenFoldSet, Pick
<1> HIDE DEF iter
<1>8. Adds(iter, w, L)
  <2>1. iter = [s \in SUBSET L |-> iter[s]]
    <3> HIDE DEF f
    <3> QED
      BY <1>6
  <2> HIDE DEF f, w
  <2> QED
    BY <1>4, <1>6, <2>1 DEF Adds
<1>9. Sums(iter, w, L)
  <2> HIDE DEF w
  <2> QED
    BY <1>2, <1>8, SumInAnyOrder
<1> QED
  BY <1>7, <1>9

\* Lines with different SKUs are as many as their items.
LEMMA LinesCounted ==
    ASSUME NEW items, NEW k \in Nat, Fits(items, k)
    PROVE  IsFiniteSet(LinesUpTo(items, k)) /\ Cardinality(LinesUpTo(items, k)) = k
<1> DEFINE L == LinesUpTo(items, k)
           f == [i \in 1..k |-> LineOf(items, i)]
<1>1. f \in [1..k -> L] /\ \A l \in L : \E i \in 1..k : f[i] = l
  BY DEF LinesUpTo
<1>2. \A i, j \in 1..k : f[i] = f[j] => i = j
  <2>1. \A i \in 1..k : f[i].sku = items[i].sku
    BY DEF LineOf
  <2> QED
    BY <2>1 DEF Fits
<1>3. ExistsBijection(1..k, L)
  <2> HIDE DEF L, f
  <2> QED
    <3>1. f \in Surjection(1..k, L)
      BY <1>1 DEF Surjection
    <3>2. f \in Injection(1..k, L)
      BY <1>1, <1>2 DEF Injection, IsInjective
    <3>3. f \in Bijection(1..k, L)
      BY <3>1, <3>2 DEF Bijection
    <3> QED
      BY <3>3 DEF ExistsBijection
<1>4. IsFiniteSet(L)
  <2> HIDE DEF L
  <2> QED
    BY <1>3, FS_NatBijection
<1>5. Cardinality(L) = k
  <2> HIDE DEF L
  <2> QED
    BY <1>3, FS_CountingElements
<1> QED
  BY <1>4, <1>5

\* Total, as long as the tables accept what it is the total of: it does not
\* wrap around, and it is the sum of the lines.
LEMMA TotalExact ==
    ASSUME NEW items \in Seq(Item), \A i \in DOMAIN items : items[i].sku \in SKUs,
           Fits(items, Len(items))
    PROVE  /\ Total(items) \in 0..LongMax
           /\ Total(items) = MapThenSumSet(LAMBDA l : l.price * l.quantity,
                                           LinesUpTo(items, Len(items)))
<1> DEFINE n == Len(items)
           L == LinesUpTo(items, n)
           line(i) == LineOf(items, i)
           sku(i) == items[i].sku
           cost(i) == Prices[items[i].sku] * items[i].quantity
           Skus(k) == {items[i].sku : i \in 1..k}
           wL == [l \in L |-> l.price * l.quantity]
           wC == [s \in SKUs |-> Prices[s] * IntMax]
<1>1. n \in Nat /\ DOMAIN items = 1..n
  OBVIOUS
<1>2. IsFiniteSet(L) /\ IsFiniteSet(SKUs)
  BY <1>1, LinesCounted, CatalogueAssumption
<1>3. PICK h : Running(items, h)
  BY TotalRuns
<1>4. ASSUME NEW i \in 1..n
      PROVE  /\ sku(i) \in SKUs /\ line(i) \in L /\ wL[line(i)] = cost(i)
             /\ cost(i) \in Nat /\ wC[sku(i)] \in Nat /\ cost(i) <= wC[sku(i)]
             /\ line(i).price \in Nat /\ line(i).quantity \in Nat
  <2>1. items[i].sku \in SKUs /\ items[i].quantity \in 1..IntMax
    BY <1>1 DEF Fits, FitsColumn
  <2>2. Prices[items[i].sku] \in Nat /\ IntMax \in Nat
    <3>1. Prices \in [SKUs -> 0..LongMax] /\ IntMax \in Nat /\ LongMax \in Nat
      BY CatalogueAssumption, WidthAssumption
    <3> QED
      BY <2>1, <3>1
  <2>3. line(i) \in L
    BY DEF LinesUpTo
  <2>4. line(i).price = Prices[items[i].sku] /\ line(i).quantity = items[i].quantity
    BY DEF LineOf
  <2>5. wL[line(i)] = cost(i)
    BY <2>3, <2>4
  <2>6. cost(i) \in Nat /\ wC[sku(i)] = Prices[items[i].sku] * IntMax
    BY <2>1, <2>2
  <2>7. cost(i) <= wC[sku(i)] /\ wC[sku(i)] \in Nat
    BY <2>1, <2>2, <2>6
  <2> QED
    BY <2>1, <2>2, <2>3, <2>4, <2>5, <2>6, <2>7
<1>5. PICK gL : Sums(gL, wL, L) /\ MapThenSumSet(LAMBDA l : l.price * l.quantity, L) = gL[L]
  <2>1. \A l \in L : l.price \in Nat /\ l.quantity \in Nat
    <3> SUFFICES ASSUME NEW i \in 1..n PROVE line(i).price \in Nat /\ line(i).quantity \in Nat
      BY DEF LinesUpTo
    <3> QED
      BY <1>4
  <2> HIDE DEF L
  <2> QED
    BY <1>2, <2>1, LinesSum
<1>6. PICK gC : Sums(gC, wC, SKUs) /\ gC[SKUs] <= LongMax
  BY CatalogueSum
<1>7. \A s \in SUBSET SKUs : gC[s] \in Int /\ gC[s] <= LongMax
  <2>1. wC \in [SKUs -> Nat]
    <3>1. Prices \in [SKUs -> 0..LongMax] /\ IntMax \in Nat /\ LongMax \in Nat
      BY CatalogueAssumption, WidthAssumption
    <3> QED
      BY <3>1
  <2>2. gC \in [SUBSET SKUs -> Int]
    BY <1>6 DEF Sums
  <2>3. \A s \in SUBSET SKUs : gC[s] <= gC[SKUs]
    <3> HIDE DEF wC
    <3> QED
      BY <1>2, <1>6, <2>1, SumGrows
  <2>4. LongMax \in Int
    BY WidthAssumption
  <2> QED
    BY <1>6, <2>2, <2>3, <2>4
<1> DEFINE T == {k \in Nat : k <= n => /\ h[1..k] = gL[LinesUpTo(items, k)]
                                       /\ h[1..k] \in 0..LongMax
                                       /\ h[1..k] <= gC[Skus(k)]}
<1>8. 0 \in T
  <2>1. 1..0 = {} /\ LinesUpTo(items, 0) = {} /\ Skus(0) = {}
    BY DEF LinesUpTo
  <2>2. h[{}] = 0 /\ gL[{}] = 0 /\ gC[{}] = 0
    BY <1>3, <1>5, <1>6 DEF Running, Sums
  <2>3. 0 \in 0..LongMax
    BY WidthAssumption
  <2>4. h[1..0] = 0 /\ gL[LinesUpTo(items, 0)] = 0 /\ gC[Skus(0)] = 0
    <3> HIDE DEF Skus
    <3> QED
      BY <2>1, <2>2
  <2> HIDE DEF Skus
  <2> QED
    BY <2>3, <2>4
<1>9. ASSUME NEW k \in 0..(n - 1), k \in T PROVE k + 1 \in T
  <2> DEFINE j == k + 1
             old == h[1..k]
  <2>1. j \in 1..n /\ k \in Nat /\ k <= n
    BY <1>1
  <2>2. /\ old = gL[LinesUpTo(items, k)] /\ old \in 0..LongMax
        /\ old <= gC[Skus(k)]
    BY <1>9, <2>1
  <2>3. h[1..j] = Wrap(old + Wrap(cost(j)))
    BY <1>3 DEF Running
  <2>4. /\ LinesUpTo(items, j) = LinesUpTo(items, k) \cup {line(j)}
        /\ LinesUpTo(items, k) \in SUBSET L /\ line(j) \in L
        /\ line(j) \notin LinesUpTo(items, k)
    <3>1. 1..j = 1..k \cup {j} /\ 1..k \subseteq 1..n
      BY <2>1
    <3>2. \A i \in 1..k : line(i) # line(j)
      <4>1. \A i \in 1..k : i \in 1..n /\ i # j
        BY <2>1
      <4>2. \A i \in 1..k : items[i].sku # items[j].sku
        BY <2>1, <4>1 DEF Fits
      <4> QED
        BY <4>2 DEF LineOf
    <3>3. line(j) \in L
      BY <1>4, <2>1
    <3> QED
      BY <3>1, <3>2, <3>3 DEF LinesUpTo
  <2>5. /\ Skus(j) = Skus(k) \cup {sku(j)}
        /\ Skus(k) \in SUBSET SKUs /\ Skus(j) \in SUBSET SKUs /\ sku(j) \in SKUs
        /\ sku(j) \notin Skus(k)
    <3>1. 1..j = 1..k \cup {j} /\ 1..k \subseteq 1..n /\ 1..j \subseteq 1..n
      BY <2>1
    <3>2. \A i \in 1..k : items[i].sku # items[j].sku
      <4>1. \A i \in 1..k : i \in 1..n /\ i # j
        BY <2>1
      <4> QED
        BY <2>1, <4>1 DEF Fits
    <3>3. \A i \in 1..n : items[i].sku \in SKUs
      BY <1>4
    <3> QED
      BY <2>1, <3>1, <3>2, <3>3
  <2>6. cost(j) \in Nat /\ wC[sku(j)] \in Nat /\ cost(j) <= wC[sku(j)] /\ wL[line(j)] = cost(j)
    BY <1>4, <2>1
  <2>7. gL[LinesUpTo(items, j)] = old + cost(j)
    <3> HIDE DEF L, wL, line, cost
    <3> QED
      BY <1>5, <2>2, <2>4, <2>6 DEF Sums
  <2>8. gC[Skus(j)] = gC[Skus(k)] + wC[sku(j)]
    <3> HIDE DEF wC, Skus, sku
    <3> QED
      BY <1>6, <2>5 DEF Sums
  <2>9. gC[Skus(k)] \in Int /\ gC[Skus(j)] \in Int /\ gC[Skus(j)] <= LongMax /\ LongMax \in Nat
    <3> HIDE DEF Skus
    <3> QED
      BY <1>7, <2>5, WidthAssumption
  <2>10. cost(j) \in 0..LongMax /\ old + cost(j) \in 0..LongMax /\ old + cost(j) <= gC[Skus(j)]
    <3> DEFINE c == cost(j)
               x == gC[Skus(k)]
               y == gC[Skus(j)]
               z == wC[sku(j)]
    <3>1. /\ c \in Nat /\ old \in Nat /\ x \in Int /\ y \in Int /\ z \in Nat
          /\ c <= z /\ old <= x /\ y = x + z /\ y <= LongMax /\ LongMax \in Nat
      BY <2>2, <2>6, <2>8, <2>9
    <3>2. c \in 0..LongMax /\ old + c \in 0..LongMax /\ old + c <= y
      <4> HIDE DEF c, old, x, y, z
      <4> QED
        BY <3>1
    <3> QED
      BY <3>2
  <2>11. h[1..j] = old + cost(j)
    <3> HIDE DEF cost, old
    <3> QED
      BY <2>3, <2>10, NoWrap
  <2> QED
    <3> HIDE DEF cost, old, Skus
    <3> QED
      BY <2>1, <2>7, <2>10, <2>11
<1>10. n \in T
  <2> HIDE DEF T
  <2> QED
    BY <1>1, <1>8, <1>9, UpTo
<1>11. Total(items) = h[1..n]
  BY <1>3 DEF Running
<1>12. h[1..n] = gL[L] /\ h[1..n] \in 0..LongMax
  BY <1>10
<1> QED
  BY <1>5, <1>11, <1>12

\* Every command is one that Total is defined on.
LEMMA CommandItems == \A c \in Command : c.items \in Seq(Item)
<1> SUFFICES ASSUME NEW c \in Command PROVE c.items \in Seq(Item)
  OBVIOUS
<1>1. PICK m \in 0..MaxItems : c.items \in [1..m -> Item]
  BY DEF Command, BoundedSeq, SeqOf
<1> QED
  BY <1>1, WidthAssumption

\* A quantity that the decoder admits is an integer.
LEMMA QuantityIsInt == \A x \in Item : x.quantity \in Int
<1> SUFFICES ASSUME NEW x \in Item PROVE x.quantity \in Int
  OBVIOUS
<1>1. x.quantity \in Longs
  BY QuantitiesAssumption DEF Item
<1>2. LongMax \in Nat
  BY WidthAssumption
<1> QED
  BY <1>1, <1>2 DEF Longs

\* The decoder starts with a command of its own.
LEMMA NoCommandIsCommand == NoCommand \in Command
<1>1. <<>> \in [1..0 -> Item] /\ 0 \in 0..MaxItems
  BY WidthAssumption
<1>2. <<>> \in BoundedSeq(Item, MaxItems)
  BY <1>1 DEF BoundedSeq, SeqOf
<1> QED
  BY <1>2 DEF NoCommand, Command

\* No rows of an order.
Unkept == header = -1 /\ lines = {}

\* The transaction is committed, as its client was told or not.
Kept == answer = "202" \/ database = "in doubt"

All == Len(cmd.items)

\* What each place of Create knows of the command, and of the rows that it has
\* written: those of the first items, which the tables accept.
TotalsInv ==
    /\ cmd \in Command /\ total \in Longs
    /\ at \in {"decode", "validate", "price", "order", "items", "done"}
    /\ answer \in {"none", "202", "400", "422", "500"}
    /\ answer # "none" => at = "done"
    /\ at = "decode" => cmd = NoCommand
    /\ database \in {"well", "failed", "in doubt"}
    /\ database # "well" => answer = "500"
    /\ at # "items" /\ ~Kept => Unkept
    /\ at \in {"price", "order", "items"} => Valid
    /\ at \in {"order", "items"} => Listed /\ total = Total(cmd.items)
    /\ at = "items" =>
         /\ header = total /\ total >= 0
         /\ \E k \in 0..All : lines = LinesUpTo(cmd.items, k) /\ Fits(cmd.items, k)
    /\ answer = "400" => ~Valid
    /\ answer = "422" => Valid /\ ~Listed
    /\ answer = "500" => Valid /\ Listed
    /\ answer = "500" /\ database = "well" => ~Fits(cmd.items, All)
    /\ Kept =>
         /\ Valid /\ Listed /\ Fits(cmd.items, All)
         /\ lines = LinesUpTo(cmd.items, All)
         /\ header = Total(cmd.items) /\ header >= 0

\* The items of the command, whatever Create has made of it.
LEMMA TotalsItems ==
    TotalsInv => /\ cmd.items \in Seq(Item) /\ All \in Nat
                 /\ DOMAIN cmd.items = 1..All /\ All = Len(cmd.items)
<1>1. TotalsInv => cmd \in Command
  BY DEF TotalsInv
<1> QED
  BY <1>1, CommandItems DEF All

\* Create starts with nothing written.
LEMMA TotalsStart == TotalsInit => TotalsInv
  BY NoCommandIsCommand, WidthAssumption DEF TotalsInit, TotalsInv, Unkept, Kept, Longs

\* Total of a command whose SKUs are all listed is an int64.
LEMMA TotalIsLong ==
    ASSUME NEW items \in Seq(Item), \A i \in DOMAIN items : items[i].sku \in SKUs
    PROVE  Total(items) \in Longs
<1>1. PICK h : Running(items, h)
  BY TotalRuns
<1>2. 1..Len(items) \in SUBSET (1..Len(items))
  OBVIOUS
<1> QED
  BY <1>1, <1>2 DEF Running

\* InsertItem keeps the rows of the first items: it accepts one more, or refuses
\* all of them.
LEMMA ItemStep ==
    ASSUME TotalsInv, NEW i \in DOMAIN cmd.items, InsertItem(i)
    PROVE  TotalsInv'
<1> DEFINE items == cmd.items
           it == items[i]
<1>1. items \in Seq(Item) /\ i \in 1..All /\ All \in Nat
  BY TotalsItems
<1>2. /\ at = "items" /\ Cardinality(lines) = i - 1
      /\ UNCHANGED <<cmd, total, database>>
      /\ Valid /\ Listed /\ total = Total(items) /\ header = total /\ total >= 0
      /\ answer = "none" /\ database = "well" /\ cmd \in Command /\ total \in Longs
  BY DEF InsertItem, TotalsInv
<1>3. PICK k \in 0..All : lines = LinesUpTo(items, k) /\ Fits(items, k)
  BY <1>2 DEF TotalsInv
<1>4. k = i - 1 /\ k \in Nat
  BY <1>1, <1>2, <1>3, LinesCounted
<1>5. it \in Item /\ it.quantity \in Int /\ it.quantity > 0
  <2>1. it \in Item
    BY <1>1
  <2>2. it.quantity \in Int
    BY <2>1, QuantityIsInt
  <2> QED
    BY <1>2, <2>1, <2>2 DEF Valid, Positive
<1>6. Valid' /\ Listed' /\ All' = All
  BY <1>2 DEF Valid, Listed, Positive, All
<1>7. CASE FitsColumn(it.quantity) /\ NewLine(i)
  <2>1. UNCHANGED <<at, header, answer>>
    BY <1>7 DEF InsertItem
  <2>2. lines' = {l \in lines : l.sku # it.sku} \cup {LineOf(items, i)}
    BY <1>7 DEF InsertItem, LineOf
  <2>3. \A j \in 1..k : LineOf(items, j).sku = items[j].sku
    BY DEF LineOf
  <2>4. \A j \in 1..k : items[j].sku # it.sku
    <3>1. \A j \in 1..k : LineOf(items, j) \in lines
      BY <1>3 DEF LinesUpTo
    <3> QED
      BY <1>7, <2>3, <3>1 DEF NewLine
  <2>5. 1..i = 1..k \cup {i} /\ i \in 0..All
    BY <1>1, <1>4
  <2>6. lines' = LinesUpTo(items, i)
    <3>1. {l \in lines : l.sku # it.sku} = lines
      BY <1>3, <2>3, <2>4 DEF LinesUpTo
    <3> QED
      BY <1>3, <2>2, <2>5, <3>1 DEF LinesUpTo
  <2>7. Fits(items, i)
    BY <1>3, <1>7, <2>4, <2>5 DEF Fits
  <2> QED
    BY <1>2, <1>6, <2>1, <2>5, <2>6, <2>7 DEF TotalsInv, Unkept, Kept
<1>8. CASE ~(FitsColumn(it.quantity) /\ NewLine(i))
  <2>1. at' = "done" /\ answer' = "500" /\ header' = -1 /\ lines' = {}
    BY <1>8 DEF InsertItem, Rejected, Answer, RollBack
  <2>2. ~Fits(items, All)
    <3>1. CASE ~FitsColumn(it.quantity)
      BY <1>1, <3>1 DEF Fits
    <3>2. CASE ~NewLine(i)
      <4>1. PICK j \in 1..k : LineOf(items, j).sku = it.sku
        BY <1>3, <3>2 DEF NewLine, LinesUpTo
      <4>2. j \in 1..All /\ j # i
        BY <1>1, <1>4
      <4> QED
        BY <1>1, <4>1, <4>2 DEF Fits, LineOf
    <3> QED
      BY <1>8, <3>1, <3>2
  <2> QED
    BY <1>2, <1>6, <2>1, <2>2 DEF TotalsInv, Unkept, Kept
<1> QED
  BY <1>7, <1>8

\* Create, up to its answer, keeps what it knows.
LEMMA TotalsStep ==
    ASSUME TotalsInv, TotalsNext
    PROVE  TotalsInv'
<1>1. CASE Decode
  <2>1. CASE cmd' \in Command /\ at' = "validate" /\ UNCHANGED answer
    BY <1>1, <2>1 DEF Decode, TotalsInv, Unkept, Kept
  <2>2. CASE Answer("400") /\ UNCHANGED cmd
    <3>1. at' = "done" /\ answer' = "400" /\ UNCHANGED <<cmd, total, header, lines, database>>
      BY <1>1, <2>2 DEF Decode, Answer
    <3>2. ~Valid'
      <4>1. cmd = NoCommand
        BY <1>1 DEF Decode, TotalsInv
      <4> QED
        BY <3>1, <4>1 DEF Valid, NoCommand
    <3> QED
      BY <1>1, <3>1, <3>2 DEF Decode, TotalsInv, Unkept, Kept
  <2> QED
    BY <1>1, <2>1, <2>2 DEF Decode
<1>2. CASE Validate
  <2>1. Valid' = Valid
    BY <1>2 DEF Validate, Valid, Positive
  <2> QED
    BY <1>2, <2>1 DEF Validate, Answer, TotalsInv, Unkept, Kept
<1>3. CASE Price
  <2>1. Valid' = Valid /\ Listed' = Listed
    BY <1>3 DEF Price, Valid, Positive, Listed
  <2>2. Listed => Total(cmd.items) \in Longs
    BY CommandItems, TotalIsLong DEF TotalsInv, Listed
  <2> QED
    BY <1>3, <2>1, <2>2 DEF Price, Answer, TotalsInv, Unkept, Kept
<1>4. CASE InsertOrder
  <2>1. /\ Valid' = Valid /\ Listed' = Listed /\ All' = All
        /\ UNCHANGED <<cmd, total, database>>
    BY <1>4 DEF InsertOrder, Valid, Positive, Listed, All
  <2>2. cmd.items \in Seq(Item) /\ All \in Nat
    BY TotalsItems
  <2>3. CASE total >= 0
    <3>1. at' = "items" /\ header' = total /\ UNCHANGED <<lines, answer>>
      BY <1>4, <2>3 DEF InsertOrder
    <3>2. at = "order"
      BY <1>4 DEF InsertOrder
    <3>3. lines = LinesUpTo(cmd.items, 0) /\ Fits(cmd.items, 0) /\ 0 \in 0..All
      <4>1. 1..0 = {}
        OBVIOUS
      <4>2. lines = {}
        BY <3>2 DEF TotalsInv, Unkept, Kept
      <4> QED
        BY <2>2, <4>1, <4>2 DEF LinesUpTo, Fits
    <3>4. lines' = LinesUpTo(cmd'.items, 0) /\ Fits(cmd'.items, 0)
      BY <2>1, <3>1, <3>3
    <3> QED
      BY <2>1, <2>3, <3>1, <3>2, <3>3, <3>4 DEF TotalsInv, Unkept, Kept
  <2>4. CASE ~(total >= 0)
    <3>1. at' = "done" /\ answer' = "500" /\ header' = -1 /\ lines' = {} /\ at = "order"
      BY <1>4, <2>4 DEF InsertOrder, Rejected, Answer, RollBack
    <3>2. ~Fits(cmd.items, All)
      <4> SUFFICES ASSUME Fits(cmd.items, All) PROVE FALSE
        OBVIOUS
      <4>1. Listed /\ total = Total(cmd.items)
        BY <3>1 DEF TotalsInv
      <4>2. Total(cmd.items) \in 0..LongMax
        BY <2>2, <4>1, TotalExact DEF Listed, All
      <4> QED
        BY <2>4, <4>1, <4>2, WidthAssumption
    <3> QED
      BY <2>1, <3>1, <3>2 DEF TotalsInv, Unkept, Kept
  <2> QED
    BY <2>3, <2>4
<1>5. CASE Commit
  <2>1. /\ Valid' = Valid /\ Listed' = Listed /\ All' = All
        /\ at = "items" /\ Cardinality(lines) = All
        /\ at' = "done"
        /\ \/ answer' = "202" /\ UNCHANGED database
           \/ answer' = "500" /\ database' = "in doubt"
        /\ UNCHANGED <<cmd, total, header, lines>>
    BY <1>5 DEF Commit, Answer, Valid, Positive, Listed, All
  <2>2. PICK k \in 0..All : lines = LinesUpTo(cmd.items, k) /\ Fits(cmd.items, k)
    BY <2>1 DEF TotalsInv
  <2>3. All \in Nat
    BY TotalsItems
  <2>4. k = All
    <3>1. k \in Nat /\ Fits(cmd.items, k)
      BY <2>2, <2>3
    <3>2. Cardinality(LinesUpTo(cmd.items, k)) = k
      BY <3>1, LinesCounted
    <3> QED
      BY <2>1, <2>2, <3>2
  <2> QED
    BY <2>1, <2>2, <2>4 DEF TotalsInv, Unkept, Kept
<1>6. ASSUME NEW i \in DOMAIN cmd.items, InsertItem(i) PROVE TotalsInv'
  BY <1>6, ItemStep
<1>7. CASE DatabaseFails
  <2>1. /\ at \in {"order", "items"} /\ UNCHANGED <<cmd, total>>
        /\ at' = "done" /\ answer' = "500" /\ header' = -1 /\ lines' = {}
        /\ database' = "failed"
    BY <1>7 DEF DatabaseFails, Rejected, Answer, RollBack
  <2>2. Valid' = Valid /\ Listed' = Listed /\ All' = All
    BY <2>1 DEF Valid, Positive, Listed, All
  <2> QED
    BY <2>1, <2>2 DEF TotalsInv, Unkept, Kept
<1> QED
  BY <1>1, <1>2, <1>3, <1>4, <1>5, <1>6, <1>7 DEF TotalsNext

\* A panic, wherever it strikes, leaves the whole of a committed order or
\* nothing.
LEMMA TotalsPanic ==
    ASSUME TotalsInv, Abandon
    PROVE  TotalsInv'
<1>1. /\ Valid' = Valid /\ Listed' = Listed /\ All' = All
      /\ UNCHANGED <<cmd, total, answer, database>> /\ at' = "done"
  BY DEF Abandon, Valid, Positive, Listed, All
<1>2. CASE at = "done"
  <2>1. UNCHANGED <<header, lines>>
    BY <1>2 DEF Abandon
  <2> QED
    BY <1>1, <1>2, <2>1 DEF TotalsInv, Unkept, Kept
<1>3. CASE at # "done"
  <2>1. header' = -1 /\ lines' = {} /\ answer = "none"
    BY <1>3 DEF Abandon, RollBack, TotalsInv
  <2> QED
    BY <1>1, <1>3, <2>1 DEF TotalsInv, Unkept, Kept
<1> QED
  BY <1>2, <1>3

\* Whatever is not a step of Create leaves all of it.
LEMMA TotalsStay ==
    ASSUME TotalsInv, UNCHANGED totalsVars
    PROVE  TotalsInv'
<1>1. Valid' = Valid /\ Listed' = Listed /\ All' = All
  BY DEF totalsVars, Valid, Positive, Listed, All
<1> QED
  BY <1>1 DEF TotalsInv, Unkept, Kept, totalsVars

\* What TotalsInv says of an order that is kept, and of one that is refused.
LEMMA TotalsSafe == TotalsInv => TotalsTypeOK /\ StoredTotalIsSum /\ RefusalsExplained
<1> SUFFICES ASSUME TotalsInv PROVE TotalsTypeOK /\ StoredTotalIsSum /\ RefusalsExplained
  OBVIOUS
<1> DEFINE items == cmd.items
<1>1. items \in Seq(Item) /\ All \in Nat /\ DOMAIN items = 1..All
  BY TotalsItems
<1>2. ASSUME NEW k \in 0..All, Listed, Fits(items, k), lines = LinesUpTo(items, k)
      PROVE  \A l \in lines : l.sku \in SKUs /\ l.quantity \in 1..IntMax /\ l.price = Prices[l.sku]
  <2> SUFFICES ASSUME NEW i \in 1..k
               PROVE  /\ LineOf(items, i).sku \in SKUs /\ LineOf(items, i).quantity \in 1..IntMax
                      /\ LineOf(items, i).price = Prices[LineOf(items, i).sku]
    BY <1>2 DEF LinesUpTo
  <2>1. i \in DOMAIN items
    BY <1>1
  <2> QED
    BY <1>2, <2>1 DEF LineOf, Listed, Fits, FitsColumn
<1>3. Kept => /\ Total(items) \in 0..LongMax
              /\ header = MapThenSumSet(LAMBDA l : l.price * l.quantity, lines)
  <2> SUFFICES ASSUME Kept
               PROVE  /\ Total(items) \in 0..LongMax
                      /\ header = MapThenSumSet(LAMBDA l : l.price * l.quantity, lines)
    OBVIOUS
  <2>1. /\ Total(items) \in 0..LongMax
        /\ Total(items) = MapThenSumSet(LAMBDA l : l.price * l.quantity, LinesUpTo(items, All))
    <3>1. Listed /\ Fits(items, All)
      BY DEF TotalsInv
    <3> QED
      BY <1>1, <3>1, TotalExact DEF Listed, All
  <2> QED
    BY <2>1 DEF TotalsInv
<1>4. TotalsTypeOK
  <2>1. header \in {-1} \cup (0..LongMax)
    <3>1. CASE at = "items"
      <4>1. header \in Longs /\ header >= 0 /\ LongMax \in Nat
        BY <3>1, WidthAssumption DEF TotalsInv
      <4> QED
        BY <4>1 DEF Longs
    <3>2. CASE Kept
      BY <1>3, <3>2 DEF TotalsInv
    <3>3. CASE at # "items" /\ ~Kept
      BY <3>3 DEF TotalsInv, Unkept
    <3> QED
      BY <3>1, <3>2, <3>3
  <2>2. \A l \in lines : l.sku \in SKUs /\ l.quantity \in 1..IntMax /\ l.price = Prices[l.sku]
    <3>1. CASE at = "items"
      BY <1>2, <3>1 DEF TotalsInv
    <3>2. CASE Kept
      <4>1. Listed /\ Fits(items, All) /\ lines = LinesUpTo(items, All)
        BY <3>2 DEF TotalsInv
      <4>2. All \in 0..All
        BY <1>1
      <4> QED
        BY <1>2, <4>1, <4>2
    <3>3. CASE at # "items" /\ ~Kept
      BY <3>3 DEF TotalsInv, Unkept
    <3> QED
      BY <3>1, <3>2, <3>3
  <2> QED
    BY <2>1, <2>2 DEF TotalsTypeOK, TotalsInv
<1>5. StoredTotalIsSum
  <2> SUFFICES ASSUME Kept
               PROVE  {<<l.sku, l.quantity>> : l \in lines}
                        = {<<items[i].sku, items[i].quantity>> : i \in DOMAIN items}
    <3>1. Exists => Kept
      BY DEF Exists, TotalsInv, Unkept
    <3> QED
      BY <1>3, <3>1 DEF StoredTotalIsSum
  <2>1. lines = {LineOf(items, i) : i \in DOMAIN items}
    BY <1>1 DEF TotalsInv, LinesUpTo
  <2>2. \A i \in DOMAIN items : /\ LineOf(items, i).sku = items[i].sku
                                /\ LineOf(items, i).quantity = items[i].quantity
    BY DEF LineOf
  <2> HIDE DEF items
  <2> QED
    BY <2>1, <2>2
<1>6. Orderable <=> Valid /\ Listed /\ Fits(items, All)
  <2>1. \A i \in DOMAIN items : items[i].quantity \in Int
    <3>1. \A i \in DOMAIN items : items[i] \in Item
      BY <1>1
    <3> QED
      BY <3>1, QuantityIsInt
  <2>2. ASSUME Orderable PROVE Valid /\ Listed /\ Fits(items, All)
    BY <1>1, <2>1, <2>2 DEF Orderable, Valid, Positive, Listed, Fits, FitsColumn
  <2>3. ASSUME Valid, Listed, Fits(items, All) PROVE Orderable
    BY <1>1, <2>3 DEF Orderable, Valid, Listed, Fits, FitsColumn
  <2> QED
    BY <2>2, <2>3
<1>7. RefusalsExplained
  <2>1. answer = "500" /\ database = "well" =>
          \/ \E i \in DOMAIN items : items[i].quantity > IntMax
          \/ \E i, j \in DOMAIN items : i # j /\ items[i].sku = items[j].sku
    <3> SUFFICES ASSUME answer = "500", database = "well",
                        \A i \in DOMAIN items : ~(items[i].quantity > IntMax),
                        \A i, j \in DOMAIN items : i # j => items[i].sku # items[j].sku
                 PROVE  FALSE
      OBVIOUS
    <3>1. \A i \in DOMAIN items : items[i].quantity \in Int /\ items[i].quantity > 0
      <4>1. \A i \in DOMAIN items : items[i] \in Item
        BY <1>1
      <4>2. Valid
        BY DEF TotalsInv
      <4>3. \A i \in DOMAIN items : items[i].quantity > 0
        BY <4>2 DEF Valid, Positive
      <4> QED
        BY <4>1, <4>3, QuantityIsInt
    <3>2. \A i \in 1..All : FitsColumn(items[i].quantity)
      BY <1>1, <3>1, WidthAssumption DEF FitsColumn
    <3>3. Fits(items, All)
      BY <1>1, <3>2 DEF Fits
    <3> QED
      BY <3>3 DEF TotalsInv
  <2>2. answer = "202" => Orderable
    BY <1>6 DEF TotalsInv, Kept
  <2>3. Orderable => answer \in {"none", "202"} \/ database # "well"
    BY <1>6 DEF TotalsInv
  <2> QED
    BY <2>1, <2>2, <2>3 DEF RefusalsExplained
<1> QED
  BY <1>4, <1>5, <1>7

-----------------------------------------------------------------------------
(* The chain *)

\* The depth of the handler.
Bottom == IF route = "order" THEN 4 ELSE 3

\* The frames of NewServer and of its route, by their depth.
LEMMA Chained ==
    /\ Len(Frames) = Bottom
    /\ Frames[1] = "id" /\ Frames[2] = "log" /\ Frames[3] = "recovery"
    /\ route = "order" => Frames[4] = "require"
<1>1. CASE route = "order"
  <2>1. Len(Frames) = 4
    BY <1>1 DEF Frames, Chain
  <2>2. Frames[1] = "id" /\ Frames[2] = "log" /\ Frames[3] = "recovery" /\ Frames[4] = "require"
    BY <1>1 DEF Frames, Chain
  <2> QED
    BY <1>1, <2>1, <2>2 DEF Bottom
<1>2. CASE route # "order"
  <2>1. Frames = <<"id", "log", "recovery">>
    BY <1>2 DEF Frames, Chain
  <2> QED
    BY <1>2, <2>1 DEF Bottom
<1> QED
  BY <1>1, <1>2

\* Where each frame is entered, and where it is come back to.
LEMMA Places ==
    ASSUME depth \in 0..Bottom
    PROVE  /\ AtFrame("id") <=> depth = 0
           /\ AtFrame("log") <=> depth = 1
           /\ AtFrame("recovery") <=> depth = 2
           /\ AtFrame("require") <=> depth = 3 /\ route = "order"
           /\ BackAt("id") <=> going # "down" /\ depth = 1
           /\ BackAt("log") <=> going # "down" /\ depth = 2
           /\ BackAt("recovery") <=> going # "down" /\ depth = 3
           /\ BackAt("require") <=> going # "down" /\ depth = 4
           /\ InHandler <=> going = "down" /\ depth = Bottom
           /\ Above("log") <=> depth >= 2
           /\ (\E i \in 1..(depth - 1) : Frames[i] = "id") <=> depth >= 2
<1>1. Bottom \in {3, 4} /\ (Bottom = 4 <=> route = "order")
  BY DEF Bottom
<1>2. depth \in 0..4 /\ (depth = 4 => route = "order")
  BY <1>1
<1>3. depth = 0 \/ depth = 1 \/ depth = 2 \/ depth = 3 \/ depth = 4
  BY <1>2
<1>4. /\ AtFrame("id") <=> depth = 0
      /\ AtFrame("log") <=> depth = 1
      /\ AtFrame("recovery") <=> depth = 2
      /\ AtFrame("require") <=> depth = 3 /\ route = "order"
  BY <1>1, <1>2, <1>3, Chained DEF AtFrame
<1>5. /\ BackAt("id") <=> going # "down" /\ depth = 1
      /\ BackAt("log") <=> going # "down" /\ depth = 2
      /\ BackAt("recovery") <=> going # "down" /\ depth = 3
      /\ BackAt("require") <=> going # "down" /\ depth = 4
  BY <1>1, <1>2, <1>3, Chained DEF BackAt
<1>6. InHandler <=> going = "down" /\ depth = Bottom
  BY Chained DEF InHandler
<1>7. Above("log") <=> depth >= 2
  <2>1. ASSUME depth >= 2 PROVE Above("log")
    <3>1. 2 \in 1..depth
      BY <1>2, <2>1
    <3> QED
      BY <3>1, Chained DEF Above
  <2>2. ASSUME Above("log") PROVE depth >= 2
    <3>1. PICK i \in 1..depth : Frames[i] = "log"
      BY <2>2 DEF Above
    <3>2. i # 1
      BY <3>1, Chained
    <3> QED
      BY <1>2, <3>1, <3>2
  <2> QED
    BY <2>1, <2>2
<1>8. (\E i \in 1..(depth - 1) : Frames[i] = "id") <=> depth >= 2
  <2>1. ASSUME depth >= 2 PROVE \E i \in 1..(depth - 1) : Frames[i] = "id"
    <3>1. 1 \in 1..(depth - 1)
      BY <1>2, <2>1
    <3> QED
      BY <3>1, Chained
  <2>2. ASSUME NEW i \in 1..(depth - 1) PROVE depth >= 2
    BY <1>2, <2>2
  <2> QED
    BY <2>1, <2>2
<1> QED
  BY <1>4, <1>5, <1>6, <1>7, <1>8

\* The id of the request, once RequestID has run.
Id == IF inbound = NoId THEN Fresh ELSE inbound

\* The recorder has seen what was sent.
RecordsWire ==
    /\ rec.written = (wire # 0)
    /\ wire # 0 => rec.status = wire

\* On the way down nothing has been sent, claimed or logged above the handler.
Down ==
    /\ echoed = IF depth = 0 THEN NoId ELSE Id
    /\ log = <<>> /\ ~struck.panic
    /\ claim = IF depth = 4 THEN "held" ELSE "none"
    /\ RecordsWire
    /\ depth < Bottom => wire = 0
    /\ capture = IF route = "order" THEN wire ELSE 0
    /\ depth = 4 => wire \in {0, 202, 400, 422, 500}

\* A panic gets as far as Recovery, which is below the logging.
Panicking ==
    /\ depth \in 3..Bottom
    /\ echoed = Id /\ log = <<>>
    /\ struck.panic /\ struck.behind = wire
    /\ RecordsWire
    /\ IF depth = 4 THEN claim = "held" ELSE claim \in {"none", "released"}

\* On the way up everything has been sent, and the claim follows from it.
Up ==
    /\ wire # 0 /\ echoed = Id
    /\ depth >= 2 => log = <<>> /\ RecordsWire
    /\ depth < 2 => log = <<[status |-> wire, id |-> Id]>>
    /\ struck.panic => depth < 3 /\ wire = IF struck.behind = 0 THEN 500 ELSE struck.behind
    /\ depth = 4 => claim = "held" /\ capture = wire /\ wire \in {202, 400, 422, 500}
    /\ depth < 4 => claim \in {"none", "kept", "released"}
    /\ claim = "kept" => wire = 202 /\ ~struck.panic
    /\ claim = "released" => wire \notin 200..299 \/ struck.panic

PipelineInv ==
    /\ PipelineTypeOK /\ struck \in [panic : BOOLEAN, behind : Statuses]
    /\ depth \in 0..Bottom /\ ctxId = echoed
    /\ going = "down" => Down
    /\ going = "panic" => Panicking
    /\ going = "up" => Up

\* A request starts above all frames.
LEMMA PipelineStart == PipelineInit => PipelineInv
<1> SUFFICES ASSUME PipelineInit PROVE PipelineInv
  OBVIOUS
<1>0. rec = [status |-> 200, written |-> FALSE] /\ log = <<>>
  BY DEF PipelineInit, FreshRecorder
<1>1. rec \in [status: Statuses \ {0}, written: BOOLEAN] /\ rec.written = FALSE
  <2>1. 200 \in Statuses \ {0}
    BY DEF Statuses
  <2> QED
    BY <1>0, <2>1
<1>2. log \in Seq([status: Statuses, id: {NoId, Given, Fresh}])
  BY <1>0
<1>3. struck \in [panic : BOOLEAN, behind : Statuses] /\ ~struck.panic /\ struck.behind = 0
  BY DEF PipelineInit, Statuses
<1>4. PipelineTypeOK
  <2>1. /\ route \in Routes /\ inbound \in {NoId, Given} /\ depth \in 0..5
        /\ going \in {"down", "up", "panic"} /\ {echoed, ctxId} \subseteq {NoId, Given, Fresh}
        /\ claim \in {"none", "held", "kept", "released"}
    BY DEF PipelineInit
  <2>2. {wire, capture, struck.behind} \subseteq Statuses
    BY <1>3 DEF PipelineInit, Statuses
  <2> QED
    BY <1>1, <1>2, <2>1, <2>2 DEF PipelineTypeOK
<1>5. Bottom \in {3, 4}
  BY DEF Bottom
<1>6. Down
  <2>1. RecordsWire
    BY <1>1 DEF PipelineInit, RecordsWire
  <2>2. ~struck.panic
    BY <1>3
  <2> QED
    BY <1>0, <1>5, <2>1, <2>2 DEF PipelineInit, Down
<1>7. going = "down" /\ depth \in 0..Bottom /\ ctxId = echoed
  BY <1>5 DEF PipelineInit
<1> QED
  BY <1>3, <1>4, <1>6, <1>7 DEF PipelineInv

\* WriteHeader keeps the recorder and the response in step: the first status is
\* the one that counts.
LEMMA HeaderStep ==
    ASSUME PipelineInv, depth >= 2, RecordsWire, NEW code \in Statuses \ {0}, WriteHeader(code)
    PROVE  /\ wire' = IF wire = 0 THEN code ELSE wire
           /\ rec' \in [status: Statuses \ {0}, written: BOOLEAN]
           /\ rec'.written /\ rec'.status = wire'
           /\ wire' \in Statuses \ {0}
<1>1. rec \in [status: Statuses \ {0}, written: BOOLEAN] /\ wire \in Statuses
  BY DEF PipelineInv, PipelineTypeOK
<1>2. rec' = Recorded(code) /\ wire' = IF wire = 0 THEN code ELSE wire
  BY Places DEF WriteHeader, PipelineInv
<1>3. CASE wire = 0
  BY <1>1, <1>2, <1>3 DEF Recorded, RecordsWire
<1>4. CASE wire # 0
  BY <1>1, <1>2, <1>4 DEF Recorded, RecordsWire
<1> QED
  BY <1>2, <1>3, <1>4

\* What no step of the request changes.
Fixed == UNCHANGED <<route, inbound>>

\* The route decides how deep the handler is.
LEMMA FixedPlaces == Fixed => Bottom' = Bottom /\ Id' = Id
  BY DEF Fixed, Bottom, Id

\* The id that RequestID makes or takes over is one.
LEMMA IdIsGiven ==
    inbound \in {NoId, Given} => Id \in {Given, Fresh} /\ (inbound # NoId => Id = inbound)
  BY DEF Id

\* The way down.
LEMMA DownStep ==
    ASSUME PipelineInv,
           RequestID \/ RequestLogging \/ Recovery \/ Require
    PROVE  PipelineInv'
<1>1. /\ going = "down" /\ depth < Bottom /\ depth \in 0..Bottom /\ Bottom \in {3, 4}
      /\ Down /\ PipelineTypeOK
      /\ depth' = depth + 1
      /\ UNCHANGED <<route, inbound, going, wire, rec, capture, log, struck>>
  <2>1. going = "down" /\ depth \in 0..Bottom /\ Down /\ PipelineTypeOK
    BY DEF PipelineInv, RequestID, RequestLogging, Recovery, Require
  <2>2. Bottom \in {3, 4} /\ (Bottom = 4 <=> route = "order")
    BY DEF Bottom
  <2>3. depth < Bottom
    BY <2>1, <2>2, Places DEF RequestID, RequestLogging, Recovery, Require
  <2> QED
    BY <2>1, <2>2, <2>3 DEF RequestID, RequestLogging, Recovery, Require
<1>2. Bottom' = Bottom /\ Id' = Id
  BY <1>1, FixedPlaces DEF Fixed
<1>3. /\ ctxId' = echoed' /\ echoed' = Id
      /\ claim' = IF depth' = 4 THEN "held" ELSE "none"
  <2>1. CASE RequestID
    <3>1. depth = 0
      BY <1>1, <2>1, Places DEF RequestID
    <3>2. claim = "none" /\ claim' = claim
      BY <1>1, <2>1, <3>1 DEF RequestID, Down
    <3> QED
      BY <1>1, <2>1, <3>1, <3>2 DEF RequestID, Id
  <2>2. CASE RequestLogging \/ Recovery
    <3>1. depth \in {1, 2} /\ UNCHANGED <<ctxId, echoed, claim>>
      BY <1>1, <2>2, Places DEF RequestLogging, Recovery
    <3> QED
      BY <1>1, <3>1 DEF Down, PipelineInv
  <2>3. CASE Require
    <3>1. depth = 3 /\ UNCHANGED <<ctxId, echoed>> /\ claim' = "held"
      BY <1>1, <2>3, Places DEF Require
    <3> QED
      BY <1>1, <3>1 DEF Down, PipelineInv
  <2> QED
    BY <2>1, <2>2, <2>3
<1>4. wire = 0 /\ RecordsWire /\ RecordsWire'
  BY <1>1 DEF Down, RecordsWire
<1>5. Down'
  BY <1>1, <1>2, <1>3, <1>4 DEF Down
<1>6. PipelineTypeOK'
  <2>1. Id \in {NoId, Given, Fresh} /\ depth' \in 0..5
    BY <1>1, IdIsGiven DEF PipelineTypeOK
  <2>2. claim' \in {"none", "held", "kept", "released"}
    BY <1>3
  <2>3. {echoed', ctxId'} \subseteq {NoId, Given, Fresh}
    BY <1>3, <2>1
  <2> QED
    BY <1>1, <2>1, <2>2, <2>3 DEF PipelineTypeOK
<1>7. struck' \in [panic : BOOLEAN, behind : Statuses] /\ depth' \in 0..Bottom' /\ going' = "down"
  BY <1>1, <1>2 DEF PipelineInv
<1> QED
  BY <1>3, <1>5, <1>6, <1>7 DEF PipelineInv

\* Require answers by itself, having claimed nothing.
LEMMA RequireAnswersStep ==
    ASSUME PipelineInv, RequireAnswers
    PROVE  PipelineInv'
<1>1. PICK code \in {400, 409, 202, 500} : WriteHeader(code)
  BY DEF RequireAnswers
<1>2. /\ going = "down" /\ depth = 3 /\ route = "order" /\ depth \in 0..Bottom
      /\ Down /\ PipelineTypeOK
      /\ going' = "up"
      /\ UNCHANGED <<route, inbound, depth, ctxId, echoed, capture, claim, log, struck>>
  BY Places DEF RequireAnswers, PipelineInv
<1>3. Bottom' = Bottom /\ Id' = Id
  BY <1>2, FixedPlaces DEF Fixed
<1>4. code \in Statuses \ {0} /\ RecordsWire /\ depth >= 2
  BY <1>1, <1>2 DEF Statuses, Down
<1>5. /\ rec' \in [status: Statuses \ {0}, written: BOOLEAN]
      /\ rec'.written /\ rec'.status = wire' /\ wire' \in Statuses \ {0}
  BY <1>1, <1>4, HeaderStep
<1>6. RecordsWire'
  BY <1>5 DEF RecordsWire
<1>7. Up'
  BY <1>2, <1>3, <1>5, <1>6 DEF Up, Down
<1>8. PipelineTypeOK'
  BY <1>2, <1>5 DEF PipelineTypeOK
<1>9. struck' \in [panic : BOOLEAN, behind : Statuses] /\ depth' \in 0..Bottom' /\ ctxId' = echoed'
  BY <1>2, <1>3 DEF PipelineInv
<1> QED
  BY <1>2, <1>7, <1>8, <1>9 DEF PipelineInv

\* The handler writes its status once.
LEMMA HandlerWritesStep ==
    ASSUME PipelineInv, HandlerWrites
    PROVE  PipelineInv'
<1>1. PICK code \in Answers : /\ WriteHeader(code)
                                /\ capture' = IF route = "order" THEN code ELSE 0
  BY DEF HandlerWrites
<1>2. /\ going = "down" /\ depth = Bottom /\ wire = 0 /\ depth \in 0..Bottom
      /\ Bottom \in {3, 4} /\ (Bottom = 4 <=> route = "order")
      /\ Down /\ PipelineTypeOK
      /\ UNCHANGED <<route, inbound, depth, going, ctxId, echoed, claim, log, struck>>
  BY Places DEF HandlerWrites, PipelineInv, Bottom
<1>3. Bottom' = Bottom /\ Id' = Id
  BY <1>2, FixedPlaces DEF Fixed
<1>4. /\ code \in Statuses \ {0} /\ RecordsWire /\ depth >= 2
      /\ route = "order" => code \in {202, 400, 422, 500}
  <2>1. route \in {"order", "read", "metrics", "unknown"}
    BY <1>2 DEF PipelineTypeOK, Routes
  <2>2. code \in Statuses \ {0} /\ (route = "order" => code \in {202, 400, 422, 500})
    BY <1>1, <2>1 DEF Answers, Statuses
  <2> QED
    BY <1>2, <2>2 DEF Down
<1>5. /\ rec' \in [status: Statuses \ {0}, written: BOOLEAN]
      /\ rec'.written /\ rec'.status = wire' /\ wire' = code
  BY <1>1, <1>2, <1>4, HeaderStep
<1>6. RecordsWire'
  BY <1>4, <1>5 DEF RecordsWire
<1>7. Down'
  BY <1>1, <1>2, <1>3, <1>4, <1>5, <1>6 DEF Down
<1>8. PipelineTypeOK'
  <2>1. wire' \in Statuses /\ capture' \in Statuses
    BY <1>1, <1>4, <1>5 DEF Statuses
  <2> QED
    BY <1>2, <1>5, <2>1 DEF PipelineTypeOK
<1>9. struck' \in [panic : BOOLEAN, behind : Statuses] /\ depth' \in 0..Bottom' /\ ctxId' = echoed'
  BY <1>2, <1>3 DEF PipelineInv
<1> QED
  BY <1>2, <1>7, <1>8, <1>9 DEF PipelineInv

\* The handler returns, or panics behind whatever it wrote.
LEMMA HandlerEndsStep ==
    ASSUME PipelineInv, HandlerReturns \/ HandlerPanics
    PROVE  PipelineInv'
<1>1. /\ going = "down" /\ depth = Bottom /\ depth \in 0..Bottom
      /\ Bottom \in {3, 4} /\ (Bottom = 4 <=> route = "order")
      /\ Down /\ PipelineTypeOK
      /\ UNCHANGED <<route, inbound, depth, ctxId, echoed, wire, rec, capture, claim, log>>
  BY Places DEF HandlerReturns, HandlerPanics, PipelineInv, Bottom
<1>2. Bottom' = Bottom /\ Id' = Id /\ RecordsWire' /\ wire \in Statuses
  <2>1. RecordsWire'
    BY <1>1 DEF Down, RecordsWire
  <2> QED
    BY <1>1, <2>1, FixedPlaces DEF Fixed, PipelineTypeOK
<1>3. CASE HandlerReturns
  <2>1. going' = "up" /\ wire # 0 /\ struck' = struck
    BY <1>3 DEF HandlerReturns
  <2>2. Up'
    BY <1>1, <1>2, <2>1 DEF Up, Down
  <2>3. PipelineTypeOK'
    BY <1>1, <2>1 DEF PipelineTypeOK
  <2> QED
    BY <1>1, <1>2, <2>1, <2>2, <2>3 DEF PipelineInv
<1>4. CASE HandlerPanics
  <2>1. going' = "panic" /\ struck' = [panic |-> TRUE, behind |-> wire]
    BY <1>4 DEF HandlerPanics
  <2>2. struck' \in [panic : BOOLEAN, behind : Statuses] /\ struck'.panic /\ struck'.behind = wire
    BY <1>2, <2>1
  <2>3. Panicking'
    BY <1>1, <1>2, <2>2 DEF Panicking, Down
  <2>4. PipelineTypeOK'
    BY <1>1, <1>2, <2>1, <2>2 DEF PipelineTypeOK
  <2> QED
    BY <1>1, <1>2, <2>1, <2>2, <2>3, <2>4 DEF PipelineInv
<1> QED
  BY <1>3, <1>4

\* Require settles the claim by the status it has captured, unless the handler
\* panicked.
LEMMA RequireEndsStep ==
    ASSUME PipelineInv, RequireEnds
    PROVE  PipelineInv'
<1>1. /\ going \in {"up", "panic"} /\ depth = 4 /\ depth \in 0..Bottom /\ PipelineTypeOK
      /\ depth' = 3
      /\ UNCHANGED <<route, inbound, going, ctxId, echoed, wire, rec, capture, log, struck>>
  BY Places DEF RequireEnds, PipelineInv, PipelineTypeOK, Pop
<1>2. Bottom' = Bottom /\ Bottom \in {3, 4} /\ Id' = Id
  BY <1>1, FixedPlaces DEF Fixed, Bottom
<1>3. claim = "held"
  BY <1>1 DEF PipelineInv, Up, Panicking
<1>4. claim' = IF going = "up" /\ capture \in 200..299 THEN "kept" ELSE "released"
  BY <1>3 DEF RequireEnds, Succeeded
<1>5. PipelineTypeOK'
  BY <1>1, <1>4 DEF PipelineTypeOK
<1>6. /\ struck' \in [panic : BOOLEAN, behind : Statuses] /\ ctxId' = echoed'
      /\ depth' \in 0..Bottom'
  BY <1>1, <1>2 DEF PipelineInv
<1>7. CASE going = "up"
  <2>1. /\ Up /\ capture = wire /\ wire \in {202, 400, 422, 500} /\ ~struck.panic
        /\ RecordsWire /\ log = <<>>
    BY <1>1, <1>7 DEF PipelineInv, Up
  <2>2. RecordsWire'
    BY <1>1, <2>1 DEF RecordsWire
  <2>3. claim' = "kept" => wire = 202
    BY <1>4, <1>7, <2>1
  <2>4. claim' = "released" => wire \notin 200..299
    BY <1>4, <1>7, <2>1
  <2>5. claim' \in {"kept", "released"}
    BY <1>4
  <2>6. Up'
    BY <1>1, <1>2, <2>1, <2>2, <2>3, <2>4, <2>5 DEF Up
  <2> QED
    BY <1>1, <1>5, <1>6, <1>7, <2>6 DEF PipelineInv
<1>8. CASE going = "panic"
  <2>1. Panicking
    BY <1>8 DEF PipelineInv
  <2>2. RecordsWire' /\ claim' = "released"
    BY <1>1, <1>4, <1>8, <2>1 DEF RecordsWire, Panicking
  <2>3. Panicking'
    BY <1>1, <1>2, <2>1, <2>2 DEF Panicking
  <2> QED
    BY <1>1, <1>5, <1>6, <1>8, <2>3 DEF PipelineInv
<1> QED
  BY <1>1, <1>7, <1>8

\* Recovery turns a panic into a return; its 500 counts if nothing was sent.
LEMMA RecoversStep ==
    ASSUME PipelineInv, Recovers
    PROVE  PipelineInv'
<1>1. /\ going \in {"up", "panic"} /\ depth = 3 /\ depth \in 0..Bottom /\ PipelineTypeOK
      /\ depth' = 2 /\ going' = "up"
      /\ UNCHANGED <<route, inbound, ctxId, echoed, capture, claim, log, struck>>
  BY Places DEF Recovers, PipelineInv, PipelineTypeOK, Pop
<1>2. Bottom' = Bottom /\ Bottom \in {3, 4} /\ Id' = Id
  BY <1>1, FixedPlaces DEF Fixed, Bottom
<1>3. /\ struck' \in [panic : BOOLEAN, behind : Statuses] /\ ctxId' = echoed'
      /\ depth' \in 0..Bottom'
  BY <1>1, <1>2 DEF PipelineInv
<1>4. CASE going = "up"
  <2>1. Up /\ UNCHANGED <<rec, wire>> /\ RecordsWire /\ ~struck.panic
    BY <1>1, <1>4 DEF PipelineInv, Recovers, Up
  <2>2. RecordsWire'
    BY <2>1 DEF RecordsWire
  <2>3. Up'
    BY <1>1, <1>2, <2>1, <2>2 DEF Up
  <2>4. PipelineTypeOK'
    BY <1>1, <2>1 DEF PipelineTypeOK
  <2> QED
    BY <1>1, <1>3, <2>3, <2>4 DEF PipelineInv
<1>5. CASE going = "panic"
  <2>1. Panicking /\ WriteHeader(500) /\ RecordsWire /\ 500 \in Statuses \ {0} /\ depth >= 2
    BY <1>1, <1>5 DEF PipelineInv, Recovers, Panicking, Statuses
  <2>2. /\ wire' = IF wire = 0 THEN 500 ELSE wire
        /\ rec' \in [status: Statuses \ {0}, written: BOOLEAN]
        /\ rec'.written /\ rec'.status = wire' /\ wire' \in Statuses \ {0}
    BY <2>1, HeaderStep
  <2>3. RecordsWire'
    BY <2>2 DEF RecordsWire
  <2>4. /\ struck'.panic /\ wire' = IF struck'.behind = 0 THEN 500 ELSE struck'.behind
        /\ claim' \in {"none", "released"} /\ echoed = Id /\ log = <<>>
    BY <1>1, <2>1, <2>2 DEF Panicking
  <2>5. Up'
    BY <1>1, <1>2, <2>2, <2>3, <2>4 DEF Up
  <2>6. PipelineTypeOK'
    BY <1>1, <2>2 DEF PipelineTypeOK
  <2> QED
    BY <1>1, <1>3, <2>5, <2>6 DEF PipelineInv
<1> QED
  BY <1>1, <1>4, <1>5

\* No panic gets beyond Recovery, so the logging is always come back to, and
\* it logs what was sent.
LEMMA LogsStep ==
    ASSUME PipelineInv, Logs
    PROVE  PipelineInv'
<1>1. /\ going = "up" /\ depth = 2 /\ depth \in 0..Bottom /\ PipelineTypeOK /\ Up
      /\ depth' = 1
      /\ UNCHANGED <<route, inbound, going, ctxId, echoed, wire, rec, capture, claim, struck>>
  <2>1. going # "down" /\ depth = 2 /\ depth \in 0..Bottom /\ PipelineTypeOK
    BY Places DEF Logs, PipelineInv
  <2>2. going = "up"
    BY <2>1 DEF PipelineInv, PipelineTypeOK, Panicking
  <2> QED
    BY <2>1, <2>2 DEF Logs, Pop, PipelineInv
<1>2. Bottom' = Bottom /\ Bottom \in {3, 4} /\ Id' = Id
  BY <1>1, FixedPlaces DEF Fixed, Bottom
<1>3. ctxId = Id /\ log = <<>> /\ rec.status = wire
  BY <1>1 DEF Up, RecordsWire, PipelineInv
<1>4. log' = <<[status |-> wire, id |-> Id]>>
  <2>1. \E i \in 1..(depth - 1) : Frames[i] = "id"
    BY <1>1, Places
  <2>2. log' = Append(log, [status |-> rec.status, id |-> ctxId])
    BY <1>1, <2>1 DEF Logs
  <2> QED
    BY <1>3, <2>2
<1>5. Up'
  BY <1>1, <1>2, <1>4 DEF Up
<1>6. PipelineTypeOK'
  <2>1. [status |-> wire, id |-> Id] \in [status: Statuses, id: {NoId, Given, Fresh}]
    BY <1>1, IdIsGiven DEF PipelineTypeOK
  <2>2. log' \in Seq([status: Statuses, id: {NoId, Given, Fresh}])
    BY <1>4, <2>1
  <2> QED
    BY <1>1, <2>2 DEF PipelineTypeOK
<1>7. struck' \in [panic : BOOLEAN, behind : Statuses] /\ depth' \in 0..Bottom' /\ ctxId' = echoed'
  BY <1>1, <1>2 DEF PipelineInv
<1> QED
  BY <1>1, <1>5, <1>6, <1>7 DEF PipelineInv

\* RequestID has nothing to do on the way up.
LEMMA IdReturnsStep ==
    ASSUME PipelineInv, IdReturns
    PROVE  PipelineInv'
<1>1. /\ going = "up" /\ depth = 1 /\ depth \in 0..Bottom /\ PipelineTypeOK /\ Up
      /\ depth' = 0
      /\ UNCHANGED <<route, inbound, going, ctxId, echoed, wire, rec, capture, claim, log, struck>>
  <2>1. going # "down" /\ depth = 1 /\ depth \in 0..Bottom /\ PipelineTypeOK
    BY Places DEF IdReturns, PipelineInv
  <2>2. going = "up"
    BY <2>1 DEF PipelineInv, PipelineTypeOK, Panicking
  <2> QED
    BY <2>1, <2>2 DEF IdReturns, Pop, PipelineInv
<1>2. Bottom' = Bottom /\ Bottom \in {3, 4} /\ Id' = Id
  BY <1>1, FixedPlaces DEF Fixed, Bottom
<1>3. Up'
  BY <1>1, <1>2 DEF Up
<1>4. PipelineTypeOK'
  BY <1>1 DEF PipelineTypeOK
<1>5. struck' \in [panic : BOOLEAN, behind : Statuses] /\ depth' \in 0..Bottom' /\ ctxId' = echoed'
  BY <1>1, <1>2 DEF PipelineInv
<1> QED
  BY <1>1, <1>3, <1>4, <1>5 DEF PipelineInv

\* Every step of the request keeps the pipeline's invariant.
LEMMA PipelineStep ==
    ASSUME PipelineInv, FrameStep \/ HandlerWrites \/ HandlerPanics
    PROVE  PipelineInv'
  BY DownStep, RequireAnswersStep, HandlerWritesStep, HandlerEndsStep, RequireEndsStep,
     RecoversStep, LogsStep, IdReturnsStep DEF FrameStep

\* Whatever is not a step of the request leaves all of it.
LEMMA PipelineStay ==
    ASSUME PipelineInv, UNCHANGED pipelineVars
    PROVE  PipelineInv'
<1>1. Bottom' = Bottom /\ Id' = Id
  BY FixedPlaces DEF Fixed, pipelineVars
<1> QED
  BY <1>1 DEF pipelineVars, PipelineInv, PipelineTypeOK, Down, Up, Panicking, RecordsWire

\* What the invariant says of a request that is over.
LEMMA PipelineSafe ==
    PipelineInv => /\ PipelineTypeOK /\ PanicIsAnswered /\ LogTellsTruth /\ LogIsTraceable
                   /\ ClaimFollowsAnswer
<1> SUFFICES ASSUME PipelineInv
             PROVE  /\ PipelineTypeOK /\ PanicIsAnswered /\ LogTellsTruth /\ LogIsTraceable
                    /\ ClaimFollowsAnswer
  OBVIOUS
<1>1. PipelineTypeOK /\ Id \in {Given, Fresh} /\ (inbound # NoId => Id = inbound)
  BY IdIsGiven DEF PipelineInv, PipelineTypeOK
<1>2. ASSUME Over PROVE going = "up" /\ depth = 0 /\ Up
  <2>1. going # "panic"
    BY <1>2 DEF Over, PipelineInv, Panicking
  <2> QED
    BY <1>1, <1>2, <2>1 DEF Over, PipelineInv, PipelineTypeOK
<1>3. PanicIsAnswered
  BY <1>2 DEF PanicIsAnswered, Up
<1>4. ASSUME Over
      PROVE  /\ Len(log) = 1 /\ log # <<>> /\ echoed = Id
             /\ log[1] = [status |-> wire, id |-> Id]
  <2>1. log = <<[status |-> wire, id |-> Id]>> /\ echoed = Id
    BY <1>2, <1>4 DEF Up
  <2> QED
    BY <2>1
<1>5. LogTellsTruth /\ LogIsTraceable
  BY <1>1, <1>4, IdsAssumption DEF LogTellsTruth, LogIsTraceable
<1>6. ClaimFollowsAnswer
  BY <1>2 DEF ClaimFollowsAnswer, Up
<1> QED
  BY <1>1, <1>3, <1>5, <1>6

-----------------------------------------------------------------------------
(* The handler in its chain *)

\* Create has not begun, or never will.
Untouched == at = "decode" /\ answer = "none"

\* What the request knows of Create: the status is that of its answer, and once
\* Require has come back to the claim, so is the claim.
HandlerInv ==
    /\ (going = "down" /\ depth < 4) \/ route # "order" => Untouched
    /\ going # "down" => at \in {"decode", "done"}
    /\ going = "down" /\ depth = 4 /\ wire # 0 => answer # "none" /\ wire = StatusOf(answer)
    /\ going = "up" /\ ~struck.panic /\ claim # "none" => answer # "none"
    /\ going = "up" /\ ~struck.panic /\ answer # "none" =>
         /\ wire = StatusOf(answer)
         /\ depth < 4 => claim = IF answer = "202" THEN "kept" ELSE "released"

ServiceIInv == TypeOK /\ PathInv /\ TotalsInv /\ PipelineInv /\ HandlerInv

\* Each outcome has a status of its own.
LEMMA StatusesDiffer ==
    /\ StatusOf("202") = 202 /\ StatusOf("400") = 400
    /\ StatusOf("422") = 422 /\ StatusOf("500") = 500
  BY DEF StatusOf

\* What the frames do outside of the handler.
LEMMA HandlerFrameStep ==
    ASSUME TotalsInv, PipelineInv, HandlerInv, FrameStep, UNCHANGED totalsVars
    PROVE  HandlerInv'
<1>1. /\ UNCHANGED <<at, answer, route>>
      /\ depth \in 0..Bottom /\ Bottom \in {3, 4} /\ (Bottom = 4 <=> route = "order")
      /\ going \in {"down", "up", "panic"}
  <2>1. UNCHANGED route
    BY DEF FrameStep, RequestID, RequestLogging, Recovery, Require, RequireAnswers,
           HandlerReturns, RequireEnds, Recovers, Logs, IdReturns
  <2> QED
    BY <2>1 DEF totalsVars, PipelineInv, PipelineTypeOK, Bottom
<1>2. CASE RequestID \/ RequestLogging \/ Recovery \/ Require
  <2>1. /\ going = "down" /\ going' = "down"
        /\ depth' = depth + 1 /\ depth < 4 /\ wire = 0 /\ wire' = 0
    <3>1. going = "down" /\ depth < Bottom
      BY <1>1, <1>2, Places DEF RequestID, RequestLogging, Recovery, Require
    <3> QED
      BY <1>1, <1>2, <3>1 DEF RequestID, RequestLogging, Recovery, Require, PipelineInv, Down
  <2>2. Untouched'
    BY <1>1, <2>1 DEF HandlerInv, Untouched
  <2> QED
    BY <2>1, <2>2 DEF HandlerInv
<1>3. CASE RequireAnswers
  <2>1. going = "down" /\ going' = "up" /\ depth = 3
    BY <1>1, <1>3, Places DEF RequireAnswers
  <2>2. claim' = "none"
    BY <1>3, <2>1 DEF RequireAnswers, PipelineInv, Down
  <2>3. Untouched'
    BY <1>1, <2>1 DEF HandlerInv, Untouched
  <2> QED
    BY <2>1, <2>2, <2>3 DEF HandlerInv, Untouched
<1>4. CASE HandlerReturns
  <2>1. /\ going = "down" /\ going' = "up" /\ depth = Bottom /\ wire # 0
        /\ UNCHANGED <<depth, wire, claim, struck>>
    BY <1>1, <1>4, Places DEF HandlerReturns
  <2>2. CASE route = "order"
    <3>1. depth = 4 /\ answer # "none" /\ wire = StatusOf(answer) /\ at = "done"
      BY <1>1, <2>1, <2>2 DEF HandlerInv, TotalsInv
    <3> QED
      BY <1>1, <2>1, <2>2, <3>1 DEF HandlerInv
  <2>3. CASE route # "order"
    <3>1. Untouched /\ claim = "none"
      BY <1>1, <2>1, <2>3 DEF HandlerInv, PipelineInv, Down
    <3> QED
      BY <1>1, <2>1, <3>1 DEF HandlerInv, Untouched
  <2> QED
    BY <2>2, <2>3
<1>5. CASE RequireEnds
  <2>1. /\ going # "down" /\ depth = 4 /\ depth' = 3 /\ route = "order"
        /\ UNCHANGED <<going, wire, struck>>
    BY <1>1, <1>5, Places DEF RequireEnds, Pop
  <2>2. CASE going = "up" /\ ~struck.panic
    <3>1. claim = "held" /\ capture = wire /\ wire \in {202, 400, 422, 500}
      BY <2>1, <2>2 DEF PipelineInv, Up
    <3>2. answer # "none" /\ wire = StatusOf(answer) /\ answer \in {"202", "400", "422", "500"}
      BY <2>2, <3>1 DEF HandlerInv, TotalsInv
    <3>3. claim' = IF capture \in 200..299 THEN "kept" ELSE "released"
      BY <1>5, <2>2, <3>1 DEF RequireEnds, Succeeded
    <3>4. claim' = IF answer = "202" THEN "kept" ELSE "released"
      BY <3>1, <3>2, <3>3, StatusesDiffer
    <3> QED
      BY <1>1, <2>1, <2>2, <3>2, <3>4 DEF HandlerInv
  <2>3. CASE ~(going = "up" /\ ~struck.panic)
    BY <1>1, <2>1, <2>3 DEF HandlerInv
  <2> QED
    BY <2>2, <2>3
<1>6. CASE Recovers
  <2>1. going # "down" /\ depth = 3 /\ depth' = 2 /\ going' = "up" /\ UNCHANGED <<claim, struck>>
    BY <1>1, <1>6, Places DEF Recovers, Pop
  <2>2. CASE going = "up"
    <3>1. UNCHANGED wire
      BY <1>6, <2>2 DEF Recovers
    <3> QED
      BY <1>1, <2>1, <2>2, <3>1 DEF HandlerInv, Untouched
  <2>3. CASE going = "panic"
    <3>1. struck.panic
      BY <2>3 DEF PipelineInv, Panicking
    <3> QED
      BY <1>1, <2>1, <2>3, <3>1 DEF HandlerInv, Untouched
  <2> QED
    BY <1>1, <2>1, <2>2, <2>3
<1>7. CASE Logs \/ IdReturns
  <2>1. /\ going # "down" /\ depth \in {1, 2} /\ depth' = depth - 1
        /\ UNCHANGED <<going, wire, claim, struck>>
    BY <1>1, <1>7, Places DEF Logs, IdReturns, Pop
  <2> QED
    BY <1>1, <2>1 DEF HandlerInv, Untouched
<1> QED
  BY <1>2, <1>3, <1>4, <1>5, <1>6, <1>7 DEF FrameStep

\* Create runs in its handler, before anything is written.
LEMMA HandleStep ==
    ASSUME PipelineInv, HandlerInv, Handle
    PROVE  HandlerInv'
<1>1. going = "down" /\ depth = 4 /\ route = "order" /\ wire = 0 /\ UNCHANGED pipelineVars
  BY Places DEF Handle, PipelineInv, Bottom
<1>2. UNCHANGED <<going, depth, route, wire>>
  BY <1>1 DEF pipelineVars
<1> QED
  BY <1>1, <1>2 DEF HandlerInv

\* The status that is written is that of the answer.
LEMMA WriteStep ==
    ASSUME PipelineInv, HandlerInv, Write
    PROVE  HandlerInv'
<1>1. /\ going = "down" /\ depth = Bottom /\ UNCHANGED <<at, answer, route, depth, going>>
      /\ route = "order" => answer # "none" /\ wire' = StatusOf(answer)
  BY Places DEF Write, HandlerWrites, PipelineInv, totalsVars
<1>2. Bottom = 4 <=> route = "order"
  BY DEF Bottom
<1> QED
  BY <1>1, <1>2 DEF HandlerInv, Untouched

\* A panic leaves Create at an end.
LEMMA PanicStep ==
    ASSUME PipelineInv, HandlerInv, Panic
    PROVE  HandlerInv'
<1>1. going' = "panic" /\ UNCHANGED <<route, depth>>
  BY DEF Panic, HandlerPanics
<1>2. CASE route = "order"
  <2>1. at' = "done"
    BY <1>2 DEF Panic, Strike, Abandon
  <2> QED
    BY <1>1, <1>2, <2>1 DEF HandlerInv
<1>3. CASE route # "order"
  <2>1. UNCHANGED <<at, answer>>
    BY <1>3 DEF Panic, totalsVars
  <2> QED
    BY <1>1, <1>3, <2>1 DEF HandlerInv, Untouched
<1> QED
  BY <1>2, <1>3

\* The order that is left behind goes its own way.
LEMMA HandlerStay ==
    ASSUME HandlerInv, UNCHANGED pipelineVars, UNCHANGED totalsVars
    PROVE  HandlerInv'
  BY DEF HandlerInv, Untouched, pipelineVars, totalsVars

\* Every step of the request, of its handler and of the order it leaves keeps
\* the invariant.
LEMMA ServiceStep == ServiceIInv /\ [ServiceNext]_serviceVars => ServiceIInv'
<1> SUFFICES ASSUME ServiceIInv, [ServiceNext]_serviceVars PROVE ServiceIInv'
  OBVIOUS
<1> USE DEF ServiceIInv
<1>1. ASSUME UNCHANGED vars PROVE (TypeOK /\ PathInv)'
  BY <1>1, PathStep
<1>2. CASE Frame
  BY <1>1, <1>2, PipelineStep, HandlerFrameStep, TotalsStay DEF Frame
<1>3. CASE Handle
  BY <1>1, <1>3, PipelineStay, HandleStep, TotalsStep DEF Handle
<1>4. CASE Write
  BY <1>1, <1>4, PipelineStep, WriteStep, TotalsStay DEF Write
<1>5. CASE Panic
  <2>1. TotalsInv'
    BY <1>5, TotalsPanic, TotalsStay DEF Panic, Strike
  <2> QED
    BY <1>1, <1>5, <2>1, PipelineStep, PanicStep DEF Panic
<1>6. CASE Progress
  BY <1>6, PathStep, PipelineStay, HandlerStay, TotalsStay DEF Progress
<1>7. CASE UNCHANGED serviceVars
  BY <1>1, <1>7, PipelineStay, HandlerStay, TotalsStay DEF serviceVars
<1> QED
  BY <1>2, <1>3, <1>4, <1>5, <1>6, <1>7 DEF ServiceNext

\* The invariant of a request with its order, whatever it is and wherever its
\* handler panics.
LEMMA ServiceInvariant == ServiceSpec => []ServiceIInv
<1>1. ServiceInit => ServiceIInv
  <2> SUFFICES ASSUME ServiceInit PROVE ServiceIInv
    OBVIOUS
  <2>1. TypeOK /\ PathInv
    BY PathStart DEF ServiceInit
  <2>2. TotalsInv /\ PipelineInv
    BY TotalsStart, PipelineStart DEF ServiceInit
  <2>3. HandlerInv
    BY DEF ServiceInit, TotalsInit, PipelineInit, HandlerInv, Untouched
  <2> QED
    BY <2>1, <2>2, <2>3 DEF ServiceIInv
<1> QED
  BY <1>1, ServiceStep, PTL DEF ServiceSpec

\* NewServer: every request that ends was answered and left one true record in
\* the log that the client's id finds, also one whose handler panicked, and
\* every part keeps its type.
THEOREM RequestsAreAnswered == ServiceSpec => []ServiceInv
<1>1. ServiceIInv => ServiceInv
  BY PipelineSafe, TotalsSafe DEF ServiceIInv, ServiceInv, ServiceTypeOK
<1> QED
  BY <1>1, ServiceInvariant, PTL

\* Total, CreateOrder and the tables: an order that exists costs what its lines
\* add up to, for every catalogue that fits an int64, although Total may wrap
\* around for quantities that the tables then refuse.
THEOREM StoredTotalsAreSums == ServiceSpec => []StoredTotalIsSum
  BY TotalsSafe, ServiceInvariant, PTL DEF ServiceIInv

\* Validate, writeDomainError and the tables: for every catalogue that fits an
\* int64 and whatever the width of the integers, the commands that are accepted
\* are those that can be ordered unless the database fails, and a 500 while it
\* does not is for a quantity beyond its column or a SKU given twice.
THEOREM RefusalsAreExplained == ServiceSpec => []RefusalsExplained
  BY TotalsSafe, ServiceInvariant, PTL DEF ServiceIInv

\* WithTx, Recovery and Require: what is left of an order is the whole of it, its
\* claim is kept and its client was told, unless the handler panicked behind the
\* commit or COMMIT reported an error and took effect, and no claim is kept
\* without its order.
THEOREM OrdersMatchAnswers == ServiceSpec => []OrderMatchesAnswer
<1>1. ServiceIInv => OrderMatchesAnswer
  <2> SUFFICES ASSUME ServiceIInv, Over
               PROVE  /\ ClaimFollowsAnswer
                      /\ header # -1 => Cardinality(lines) = Len(cmd.items)
                      /\ header = -1 => lines = {} /\ claim # "kept"
                      /\ header # -1 => \/ wire = 202 /\ claim = "kept"
                                        \/ struck.panic
                                        \/ database = "in doubt" /\ wire = 500
    BY DEF OrderMatchesAnswer
  <2>1. TotalsInv /\ PipelineInv /\ HandlerInv /\ ClaimFollowsAnswer
    BY PipelineSafe DEF ServiceIInv
  <2>2. going = "up" /\ depth = 0 /\ Up
    <3>1. going # "panic" /\ going \in {"down", "up", "panic"}
      BY <2>1 DEF Over, PipelineInv, Panicking, PipelineTypeOK
    <3> QED
      BY <2>1, <3>1 DEF Over, PipelineInv
  <2>3. ~Kept => header = -1 /\ lines = {}
    BY <2>1, <2>2 DEF HandlerInv, TotalsInv, Unkept
  <2>4. Kept => header # -1 /\ Cardinality(lines) = Len(cmd.items)
    <3> SUFFICES ASSUME Kept PROVE header # -1 /\ Cardinality(lines) = Len(cmd.items)
      OBVIOUS
    <3>1. /\ header >= 0 /\ header = Total(cmd.items)
          /\ lines = LinesUpTo(cmd.items, All) /\ Fits(cmd.items, All)
      BY <2>1 DEF TotalsInv
    <3>2. All \in Nat /\ All = Len(cmd.items)
      BY <2>1, TotalsItems
    <3> QED
      BY <3>1, <3>2, LinesCounted
  <2>5. claim = "kept" => Kept
    <3> SUFFICES ASSUME claim = "kept" PROVE answer = "202"
      BY DEF Kept
    <3>1. wire = 202 /\ ~struck.panic
      BY <2>2 DEF Up
    <3>2. answer # "none" /\ wire = StatusOf(answer)
      BY <2>1, <2>2, <3>1 DEF HandlerInv
    <3>3. answer \in {"none", "202", "400", "422", "500"}
      BY <2>1 DEF TotalsInv
    <3> QED
      BY <3>1, <3>2, <3>3, StatusesDiffer
  <2>6. answer = "202" /\ ~struck.panic => wire = 202 /\ claim = "kept"
    BY <2>1, <2>2, StatusesDiffer DEF HandlerInv
  <2>7. database = "in doubt" /\ ~struck.panic => wire = 500
    <3> SUFFICES ASSUME database = "in doubt", ~struck.panic PROVE wire = 500
      OBVIOUS
    <3>1. answer = "500"
      BY <2>1 DEF TotalsInv
    <3>2. wire = StatusOf(answer)
      BY <2>1, <2>2, <3>1 DEF HandlerInv
    <3> QED
      BY <3>1, <3>2, StatusesDiffer
  <2> QED
    BY <2>1, <2>3, <2>4, <2>5, <2>6, <2>7 DEF Kept
<1> QED
  BY <1>1, ServiceInvariant, PTL

\* TransitionTo, for the order that a request left behind: a paid one is kept.
THEOREM ServicePaidOrdersAreKept == ServiceSpec => []PaidIsKept
  BY PathsAreSafe, ServiceInvariant, PTL DEF ServiceIInv

\* The same for compensation: no cancellation while the payment is unknown.
THEOREM ServiceNoBlindCompensation == ServiceSpec => []CompensationNeedsFailure
  BY PathsAreSafe, ServiceInvariant, PTL DEF ServiceIInv
=============================================================================
