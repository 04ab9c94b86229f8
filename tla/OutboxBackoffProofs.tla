------------------------ MODULE OutboxBackoffProofs ------------------------
(***************************************************************************)
(* Theorems about OutboxBackoff, for every set of events, number of        *)
(* attempts, backoff, cap of it, batch size and interval.                  *)
(***************************************************************************)
EXTENDS OutboxBackoff, WellFoundedInduction, TLAPS

-----------------------------------------------------------------------------
(* Recursion over the naturals *)

\* Induction up to n.
LEMMA UpTo ==
    ASSUME NEW n \in Nat, NEW T, 0 \in T, \A k \in 0..(n - 1) : k \in T => k + 1 \in T
    PROVE  n \in T
<1> SUFFICES ASSUME n \notin T PROVE FALSE
  OBVIOUS
<1> DEFINE U == 0..n \ T
<1>1. U \subseteq Nat /\ n \in U /\ 0 \notin U
  OBVIOUS
<1>2. PICK k \in U : \A j \in U : ~ (<<j, k>> \in OpToRel(<, Nat))
  <2> HIDE DEF U
  <2> QED
    BY <1>1, NatLessThanWellFounded, WFMin
<1>3. k - 1 \in 0..(n - 1) /\ k - 1 < k /\ k - 1 \in Nat /\ k \in Nat /\ k \notin T
  BY <1>1
<1>4. k - 1 \in U
  BY <1>3
<1> QED
  BY <1>2, <1>3, <1>4 DEF OpToRel

\* g starts with base and goes on with F, up to n.
GoesOn(g, F, base, n) == g[0] = base /\ \A k \in 0..(n - 1) : g[k + 1] = F[k + 1][g[k]]

\* What starts alike and goes on alike is alike.
LEMMA SameSoFar ==
    ASSUME NEW F, NEW base, NEW n \in Nat, NEW g, NEW h,
           GoesOn(g, F, base, n), GoesOn(h, F, base, n)
    PROVE  g[n] = h[n]
<1> DEFINE T == {k \in Nat : g[k] = h[k]}
<1>1. 0 \in T
  BY DEF GoesOn
<1>2. ASSUME NEW k \in 0..(n - 1), k \in T PROVE k + 1 \in T
  <2>1. g[k + 1] = F[k + 1][g[k]] /\ h[k + 1] = F[k + 1][h[k]]
    BY DEF GoesOn
  <2> QED
    BY <1>2, <2>1
<1>3. n \in T
  <2> HIDE DEF T
  <2> QED
    BY <1>1, <1>2, UpTo
<1> QED
  BY <1>3

\* Something goes on up to any number.
LEMMA GoesOnUpTo ==
    ASSUME NEW F, NEW base, NEW n \in Nat
    PROVE  \E g : GoesOn(g, F, base, n)
<1> DEFINE T == {k \in Nat : \E g : GoesOn(g, F, base, k)}
<1>1. 0 \in T
  <2> DEFINE g == [k \in {0} |-> base]
  <2>1. g[0] = base /\ 0..(0 - 1) = {}
    OBVIOUS
  <2>2. GoesOn(g, F, base, 0)
    <3> HIDE DEF g
    <3> QED
      BY <2>1 DEF GoesOn
  <2> QED
    BY <2>2
<1>2. ASSUME NEW k \in 0..(n - 1), k \in T PROVE k + 1 \in T
  <2>1. PICK g : GoesOn(g, F, base, k)
    BY <1>2
  <2> DEFINE h == [i \in 0..(k + 1) |-> IF i = k + 1 THEN F[k + 1][g[k]] ELSE g[i]]
  <2>2. h[k + 1] = F[k + 1][g[k]] /\ \A i \in 0..k : h[i] = g[i]
    OBVIOUS
  <2> HIDE DEF h
  <2>3. h[0] = base
    BY <2>1, <2>2 DEF GoesOn
  <2>4. ASSUME NEW i \in 0..((k + 1) - 1) PROVE h[i + 1] = F[i + 1][h[i]]
    <3>1. CASE i = k
      BY <2>2, <3>1
    <3>2. CASE i # k
      <4>1. i \in 0..(k - 1) /\ i \in 0..k /\ i + 1 \in 0..k
        BY <3>2
      <4>2. g[i + 1] = F[i + 1][g[i]]
        BY <2>1, <4>1 DEF GoesOn
      <4> QED
        BY <2>2, <4>1, <4>2
    <3> QED
      BY <3>1, <3>2
  <2>5. GoesOn(h, F, base, k + 1)
    BY <2>3, <2>4 DEF GoesOn
  <2> QED
    BY <2>5
<1>3. n \in T
  <2> HIDE DEF T
  <2> QED
    BY <1>1, <1>2, UpTo
<1> QED
  BY <1>3

\* h is a sequence of values in V that goes on for good.
Recurs(h, F, base, V) ==
    h \in [Nat -> V] /\ h[0] = base /\ \A n \in Nat : h[n + 1] = F[n + 1][h[n]]

\* There is a sequence that goes on for good, within V if F stays in it.
LEMMA Recursion ==
    ASSUME NEW V, NEW F, NEW base, base \in V, \A n \in Nat, v \in V : F[n][v] \in V
    PROVE  \E h : Recurs(h, F, base, V)
<1> DEFINE G(n) == CHOOSE g : GoesOn(g, F, base, n)
           h == [n \in Nat |-> G(n)[n]]
<1>1. \A n \in Nat : GoesOn(G(n), F, base, n)
  BY GoesOnUpTo
<1>2. h[0] = base
  <2>1. GoesOn(G(0), F, base, 0)
    BY <1>1
  <2>2. G(0)[0] = base
    <3> HIDE DEF G
    <3> QED
      BY <2>1 DEF GoesOn
  <2> QED
    BY <2>2
<1>3. ASSUME NEW n \in Nat PROVE h[n + 1] = F[n + 1][h[n]]
  <2> DEFINE g == G(n + 1)
  <2>1. GoesOn(g, F, base, n + 1)
    BY <1>1
  <2>2. GoesOn(G(n), F, base, n)
    BY <1>1
  <2>3. h[n + 1] = g[n + 1] /\ h[n] = G(n)[n]
    OBVIOUS
  <2> HIDE DEF G, h, g
  <2>4. g[n + 1] = F[n + 1][g[n]]
    BY <2>1 DEF GoesOn
  <2>5. GoesOn(g, F, base, n)
    BY <2>1 DEF GoesOn
  <2>6. g[n] = G(n)[n]
    BY <2>2, <2>5, SameSoFar
  <2> QED
    BY <2>3, <2>4, <2>6
<1>4. ASSUME NEW n \in Nat PROVE h[n] \in V
  <2> DEFINE T == {k \in Nat : h[k] \in V}
  <2> HIDE DEF h
  <2>1. 0 \in T
    BY <1>2
  <2>2. ASSUME NEW k \in 0..(n - 1), k \in T PROVE k + 1 \in T
    <3>1. h[k + 1] = F[k + 1][h[k]] /\ F[k + 1][h[k]] \in V
      BY <1>3, <2>2
    <3> QED
      BY <3>1
  <2>3. n \in T
    <3> HIDE DEF T
    <3> QED
      BY <2>1, <2>2, UpTo
  <2> QED
    BY <2>3
<1>5. h \in [Nat -> V]
  BY <1>4
<1> HIDE DEF h
<1> QED
  BY <1>2, <1>3, <1>5 DEF Recurs

-----------------------------------------------------------------------------
(* The backoff *)

\* A backoff shifted by any number of bits is a number, and doubles with each.
LEMMA ShiftedDoubles ==
    /\ Shifted \in [Nat -> Nat] /\ Shifted[0] = BaseBackoff
    /\ \A n \in Nat : Shifted[n + 1] = 2 * Shifted[n]
<1> DEFINE F == [n \in Nat |-> [v \in Nat |-> 2 * v]]
           sh == CHOOSE g : g = [n \in Nat |-> IF n = 0 THEN BaseBackoff ELSE 2 * g[n - 1]]
<1>1. \A n \in Nat, v \in Nat : F[n][v] = 2 * v /\ F[n][v] \in Nat
  OBVIOUS
<1>2. BaseBackoff \in Nat
  BY LimitsAssumption
<1>3. PICK h \in [Nat -> Nat] : h[0] = BaseBackoff /\ \A n \in Nat : h[n + 1] = F[n + 1][h[n]]
  <2> DEFINE V == Nat
  <2>1. BaseBackoff \in V /\ \A n \in Nat, v \in V : F[n][v] \in V
    BY <1>1, <1>2
  <2>2. \E h : Recurs(h, F, BaseBackoff, V)
    <3> HIDE DEF F, V
    <3> QED
      BY <2>1, Recursion
  <2> QED
    BY <2>2 DEF Recurs
<1>4. h = [n \in Nat |-> IF n = 0 THEN BaseBackoff ELSE 2 * h[n - 1]]
  <2>1. ASSUME NEW n \in Nat, n # 0 PROVE h[n] = 2 * h[n - 1]
    <3>1. n - 1 \in Nat /\ (n - 1) + 1 = n
      BY <2>1
    <3> HIDE DEF F
    <3> QED
      BY <1>1, <1>3, <3>1
  <2> QED
    BY <1>3, <2>1
<1>5. sh = [n \in Nat |-> IF n = 0 THEN BaseBackoff ELSE 2 * sh[n - 1]]
  BY <1>4
<1>6. Shifted = sh
  BY DEF Shifted
<1> HIDE DEF sh
<1>7. ASSUME NEW n \in Nat PROVE sh[n] \in Nat
  <2> DEFINE T == {k \in Nat : sh[k] \in Nat}
  <2>1. 0 \in T
    BY <1>2, <1>5
  <2>2. ASSUME NEW k \in 0..(n - 1), k \in T PROVE k + 1 \in T
    <3>1. sh[k + 1] = 2 * sh[k]
      BY <1>5
    <3> QED
      BY <2>2, <3>1
  <2>3. n \in T
    <3> HIDE DEF T
    <3> QED
      BY <2>1, <2>2, UpTo
  <2> QED
    BY <2>3
<1>8. sh[0] = BaseBackoff /\ \A n \in Nat : sh[n + 1] = 2 * sh[n]
  <2>1. ASSUME NEW n \in Nat PROVE sh[n + 1] = 2 * sh[n]
    <3>1. n + 1 \in Nat /\ n + 1 # 0 /\ (n + 1) - 1 = n
      OBVIOUS
    <3> QED
      BY <1>5, <3>1
  <2> QED
    BY <1>5, <2>1
<1>9. sh \in [Nat -> Nat]
  BY <1>5, <1>7
<1> QED
  BY <1>6, <1>8, <1>9

\* What recordFailure adds to now() is never negative, for any attempt.
LEMMA BackoffType == \A n \in Nat \ {0} : Backoff(n) \in Nat
  BY ShiftedDoubles, LimitsAssumption DEF Backoff

\* The patience with an event grows with each attempt by its backoff.
LEMMA PatienceGrows ==
    /\ Patience \in [Nat -> Nat] /\ Patience[0] = 0
    /\ \A n \in Nat : Patience[n + 1] = Patience[n] + Backoff(n + 1)
<1> DEFINE F == [n \in Nat |-> [v \in Nat |-> v + (IF n = 0 THEN 0 ELSE Backoff(n))]]
           pa == CHOOSE g : g = [n \in Nat |-> IF n = 0 THEN 0 ELSE g[n - 1] + Backoff(n)]
<1>1. \A n \in Nat, v \in Nat : F[n][v] \in Nat /\ (n # 0 => F[n][v] = v + Backoff(n))
  BY BackoffType
<1>2. PICK h \in [Nat -> Nat] : h[0] = 0 /\ \A n \in Nat : h[n + 1] = F[n + 1][h[n]]
  <2> DEFINE V == Nat
  <2>1. 0 \in V /\ \A n \in Nat, v \in V : F[n][v] \in V
    BY <1>1
  <2>2. \E h : Recurs(h, F, 0, V)
    <3> HIDE DEF F, V
    <3> QED
      BY <2>1, Recursion
  <2> QED
    BY <2>2 DEF Recurs
<1>3. h = [n \in Nat |-> IF n = 0 THEN 0 ELSE h[n - 1] + Backoff(n)]
  <2>1. ASSUME NEW n \in Nat, n # 0 PROVE h[n] = h[n - 1] + Backoff(n)
    <3>1. n - 1 \in Nat /\ (n - 1) + 1 = n
      BY <2>1
    <3> HIDE DEF F
    <3> QED
      BY <1>1, <1>2, <2>1, <3>1
  <2> QED
    BY <1>2, <2>1
<1>4. pa = [n \in Nat |-> IF n = 0 THEN 0 ELSE pa[n - 1] + Backoff(n)]
  BY <1>3
<1>5. Patience = pa
  BY DEF Patience
<1> HIDE DEF pa
<1>6. pa[0] = 0 /\ \A n \in Nat : pa[n + 1] = pa[n] + Backoff(n + 1)
  BY <1>4
<1>7. ASSUME NEW n \in Nat PROVE pa[n] \in Nat
  <2> DEFINE T == {k \in Nat : pa[k] \in Nat}
  <2>1. 0 \in T
    BY <1>6
  <2>2. ASSUME NEW k \in 0..(n - 1), k \in T PROVE k + 1 \in T
    <3>1. pa[k + 1] = pa[k] + Backoff(k + 1) /\ Backoff(k + 1) \in Nat
      BY <1>6, BackoffType
    <3> QED
      BY <2>2, <3>1
  <2>3. n \in T
    <3> HIDE DEF T
    <3> QED
      BY <2>1, <2>2, UpTo
  <2> QED
    BY <2>3
<1> QED
  BY <1>4, <1>5, <1>6, <1>7

-----------------------------------------------------------------------------
(* The invariant *)

Row == [status : {"none", "pending", "retrying", "published", "dead_lettered"},
        retries : Nat, next : Nat]

BackoffTypeOK ==
    /\ now \in Nat
    /\ row \in [Events -> Row] /\ wrote \in [Events -> Row]
    /\ began \in {Never} \cup Nat
    /\ left \in SUBSET Events
    /\ first \in [Events -> Int] /\ failedAt \in [Events -> Int]

Open(r) == r.status \in {"pending", "retrying"}

\* From its second failure on a row is not due before all of its backoffs but the
\* first have passed since start, and an event that is given up was tried last
\* when they had.
Waited(r, start, last) ==
    /\ r.status = "none" => r.retries = 0
    /\ r.retries > 0 => start >= 0
    /\ r.retries > 1 => r.next >= start + Patience[r.retries] - Backoff(1)
    /\ Open(r) => r.retries < MaxRetries
    /\ r.status = "dead_lettered" =>
         /\ r.retries = MaxRetries
         /\ last - start >= Patience[MaxRetries - 1] - Backoff(1)

RowInv == \A e \in Events : Waited(row[e], first[e], failedAt[e])

\* Publish failed in the past.
PastInv == \A e \in Events : first[e] <= now /\ failedAt[e] <= now

\* What the open transaction has written for e: what it found, nothing about an
\* event that is younger, or the outcome of an attempt at one that was due.
WroteInv(e) ==
    \/ wrote[e] = row[e]
    \/ wrote[e].status = "none" /\ row[e].status = "pending" /\ row[e].retries = 0
    \/ /\ Open(row[e]) /\ row[e].next <= began
       /\ \/ wrote[e] = [row[e] EXCEPT !.status = "published"]
          \/ wrote[e] = AfterFailure(row[e].retries) /\ failedAt[e] >= began

BatchInv ==
    /\ began = Never => left = {}
    /\ began # Never =>
        /\ began \in Nat /\ began <= now
        /\ \A e \in Events : WroteInv(e) /\ (row[e].retries > 0 => first[e] <= began)
        /\ \A e \in left : wrote[e] = row[e] /\ Open(row[e]) /\ row[e].next <= began

BackoffInv == BackoffTypeOK /\ RowInv /\ PastInv /\ BatchInv

\* An attempt that fails pushes the row out by the next backoff from the start
\* of the batch.
LEMMA AfterFailureRow ==
    ASSUME NEW n \in Nat, began \in Nat
    PROVE  /\ AfterFailure(n) \in Row
           /\ AfterFailure(n).retries = n + 1
           /\ AfterFailure(n).next = began + Backoff(n + 1)
           /\ AfterFailure(n).status = IF n + 1 >= MaxRetries THEN "dead_lettered" ELSE "retrying"
<1>1. Backoff(n + 1) \in Nat
  BY BackoffType
<1> QED
  BY <1>1 DEF AfterFailure, Row

\* No event has a row at first, and no transaction is open.
LEMMA BackoffStart == Init => BackoffInv
<1> SUFFICES ASSUME Init PROVE BackoffInv
  OBVIOUS
<1>1. /\ row \in [Events -> Row] /\ wrote = row
      /\ \A e \in Events : row[e].status = "none" /\ row[e].retries = 0
  BY DEF Init, Row
<1> QED
  BY <1>1 DEF Init, BackoffInv, BackoffTypeOK, RowInv, PastInv, Waited, Open, BatchInv, Never

\* A new row is due at once and has no history.
LEMMA AppendStep ==
    ASSUME BackoffInv, NEW e \in Events, Append(e)
    PROVE  BackoffInv'
<1>1. /\ row[e].status = "none"
      /\ row' = [row EXCEPT ![e] = [status |-> "pending", retries |-> 0, next |-> now]]
      /\ UNCHANGED <<now, began, left, wrote, first, failedAt>>
      /\ BackoffTypeOK /\ RowInv /\ PastInv /\ BatchInv
  BY DEF Append, BackoffInv
<1>2. /\ row' \in [Events -> Row]
      /\ row'[e].status = "pending" /\ row'[e].retries = 0
      /\ \A f \in Events : f # e => row'[f] = row[f]
  BY <1>1 DEF BackoffTypeOK, Row
<1>3. BackoffTypeOK'
  BY <1>1, <1>2 DEF BackoffTypeOK
<1>4. RowInv'
  <2> SUFFICES ASSUME NEW f \in Events PROVE Waited(row'[f], first'[f], failedAt'[f])
    BY DEF RowInv
  <2>1. CASE f = e
    BY <1>1, <1>2, <2>1, LimitsAssumption DEF Waited, Open
  <2>2. CASE f # e
    BY <1>1, <1>2, <2>2 DEF RowInv
  <2> QED
    BY <2>1, <2>2
<1>5. BatchInv'
  <2> SUFFICES ASSUME began # Never PROVE BatchInv'
    BY <1>1 DEF BatchInv
  <2>1. ASSUME NEW f \in Events PROVE WroteInv(f)'
    <3>1. CASE f = e
      <4>1. wrote[e].status = "none"
        <5>1. WroteInv(e)
          BY <1>1, <2>1 DEF BatchInv
        <5> QED
          BY <1>1, <5>1 DEF WroteInv, Open
      <4> QED
        BY <1>1, <1>2, <3>1, <4>1 DEF WroteInv
    <3>2. CASE f # e
      <4>1. WroteInv(f)
        BY <1>1, <2>1 DEF BatchInv
      <4> QED
        BY <1>1, <1>2, <2>1, <3>2, <4>1 DEF WroteInv, AfterFailure
    <3> QED
      BY <3>1, <3>2
  <2>2. \A f \in left : f # e
    BY <1>1 DEF BatchInv, Open
  <2>3. \A f \in left : f \in Events
    BY <1>1 DEF BackoffTypeOK
  <2>4. \A f \in Events : row'[f].retries > 0 => first[f] <= began
    BY <1>1, <1>2 DEF BatchInv
  <2> QED
    BY <1>1, <1>2, <2>1, <2>2, <2>3, <2>4 DEF BatchInv
<1>6. PastInv'
  BY <1>1 DEF PastInv
<1> QED
  BY <1>3, <1>4, <1>5, <1>6 DEF BackoffInv

\* A transaction claims what is due when it begins.
LEMMA ClaimStep ==
    ASSUME BackoffInv, Claim
    PROVE  BackoffInv'
<1>1. /\ began' = now /\ left' = Batch /\ wrote' = row
      /\ UNCHANGED <<now, row, first, failedAt>>
      /\ BackoffTypeOK /\ RowInv /\ PastInv
  BY DEF Claim, BackoffInv
<1>2. Batch \subseteq Events /\ \A e \in Batch : Open(row[e]) /\ row[e].next <= now
  BY DEF Batch, Due, Open
<1>3. BackoffTypeOK'
  BY <1>1, <1>2 DEF BackoffTypeOK
<1>4. RowInv'
  BY <1>1 DEF RowInv
<1>5. BatchInv'
  BY <1>1, <1>2 DEF BatchInv, BackoffTypeOK, PastInv, WroteInv, Never
<1>6. PastInv'
  BY <1>1 DEF PastInv
<1> QED
  BY <1>3, <1>4, <1>5, <1>6 DEF BackoffInv

\* An attempt leaves the rows that are committed and notes its outcome.
LEMMA AttemptStep ==
    ASSUME BackoffInv, NEW e \in Events, Published(e) \/ Failed(e)
    PROVE  BackoffInv'
<1>1. /\ e \in left /\ left' = left \ {e}
      /\ UNCHANGED <<now, row, began, first>>
      /\ BackoffTypeOK /\ RowInv /\ PastInv /\ BatchInv
      /\ began \in Nat /\ began <= now
      /\ wrote[e] = row[e] /\ Open(row[e]) /\ row[e].next <= began
  <2>1. e \in left /\ BatchInv
    BY DEF Published, Failed, Turn, BackoffInv
  <2>2. began # Never
    BY <2>1 DEF BatchInv
  <2> QED
    BY <2>1, <2>2 DEF Published, Failed, BackoffInv, BatchInv
<1>2. row[e] \in Row /\ row[e].retries \in Nat /\ now \in Nat
  BY <1>1 DEF BackoffTypeOK, Row
<1>3. /\ wrote' \in [Events -> Row]
      /\ \A f \in Events : f # e => wrote'[f] = wrote[f]
      /\ failedAt' \in [Events -> Int]
      /\ \A f \in Events : failedAt'[f] >= failedAt[f] \/ failedAt'[f] >= began
      /\ \A f \in Events : f # e => failedAt'[f] = failedAt[f]
      /\ WroteInv(e)'
  <2>1. CASE Published(e)
    <3>1. wrote' = [wrote EXCEPT ![e].status = "published"] /\ failedAt' = failedAt
      BY <2>1 DEF Published
    <3>2. wrote'[e] = [row[e] EXCEPT !.status = "published"] /\ wrote'[e] \in Row
      BY <1>1, <1>2, <3>1 DEF BackoffTypeOK, Row
    <3>3. wrote' \in [Events -> Row] /\ \A f \in Events : f # e => wrote'[f] = wrote[f]
      BY <1>1, <3>1, <3>2 DEF BackoffTypeOK, Row
    <3>4. WroteInv(e)'
      BY <1>1, <3>2 DEF WroteInv, Open
    <3> QED
      BY <1>1, <3>1, <3>3, <3>4 DEF BackoffTypeOK
  <2>2. CASE Failed(e)
    <3>1. /\ wrote' = [wrote EXCEPT ![e] = AfterFailure(row[e].retries)]
          /\ failedAt' = [failedAt EXCEPT ![e] = now]
      BY <2>2 DEF Failed
    <3>2. AfterFailure(row[e].retries) \in Row
      BY <1>1, <1>2, AfterFailureRow
    <3>3. /\ wrote' \in [Events -> Row] /\ \A f \in Events : f # e => wrote'[f] = wrote[f]
          /\ wrote'[e] = AfterFailure(row[e].retries)
      BY <1>1, <3>1, <3>2 DEF BackoffTypeOK
    <3>4. /\ failedAt' \in [Events -> Int] /\ failedAt'[e] = now
          /\ \A f \in Events : f # e => failedAt'[f] = failedAt[f]
      BY <1>1, <1>2, <3>1 DEF BackoffTypeOK
    <3>5. WroteInv(e)'
      BY <1>1, <1>2, <3>3, <3>4 DEF WroteInv, Open, AfterFailure
    <3>6. \A f \in Events : failedAt'[f] >= failedAt[f] \/ failedAt'[f] >= began
      BY <1>1, <1>2, <3>4 DEF BackoffTypeOK
    <3> QED
      BY <3>3, <3>4, <3>5, <3>6
  <2> QED
    BY <2>1, <2>2
<1>4. BackoffTypeOK'
  BY <1>1, <1>3 DEF BackoffTypeOK
<1>5. RowInv'
  <2> SUFFICES ASSUME NEW f \in Events PROVE Waited(row'[f], first'[f], failedAt'[f])
    BY DEF RowInv
  <2>1. Waited(row[f], first[f], failedAt[f])
    BY <1>1 DEF RowInv
  <2>2. CASE f = e
    BY <1>1, <2>1, <2>2 DEF Waited, Open
  <2>3. CASE f # e
    BY <1>1, <1>3, <2>1, <2>3
  <2> QED
    BY <2>2, <2>3
<1>6. BatchInv'
  <2>1. ASSUME NEW f \in Events PROVE WroteInv(f)'
    <3>1. CASE f # e
      <4>1. WroteInv(f)
        BY <1>1, <2>1 DEF BatchInv
      <4> QED
        BY <1>1, <1>3, <2>1, <3>1, <4>1 DEF WroteInv, AfterFailure
    <3> QED
      BY <1>3, <3>1
  <2>2. \A f \in left' : wrote'[f] = row'[f] /\ Open(row'[f]) /\ row'[f].next <= began'
    BY <1>1, <1>3 DEF BatchInv, BackoffTypeOK
  <2>3. \A f \in Events : row'[f].retries > 0 => first'[f] <= began'
    BY <1>1 DEF BatchInv
  <2> QED
    BY <1>1, <2>1, <2>2, <2>3 DEF BatchInv
<1>7. PastInv'
  <2>1. \A f \in Events : failedAt'[f] = failedAt[f] \/ failedAt'[f] = now
    <3>1. CASE Published(e)
      BY <3>1 DEF Published
    <3>2. CASE Failed(e)
      BY <1>1, <3>2 DEF Failed, BackoffTypeOK
    <3> QED
      BY <3>1, <3>2
  <2> QED
    BY <1>1, <1>2, <2>1 DEF PastInv
<1> QED
  BY <1>4, <1>5, <1>6, <1>7 DEF BackoffInv

\* An attempt that is recorded came after all backoffs so far, for what the batch
\* of the first one left of its backoff; from there the next one counts.
LEMMA CommitStep ==
    ASSUME BackoffInv, Commit
    PROVE  BackoffInv'
<1>1. /\ began # Never /\ began \in Nat /\ began <= now /\ began' = Never /\ left = {}
      /\ row' = Committed
      /\ first' = [e \in Events |-> IF row[e].retries = 0 /\ row'[e].retries = 1
                                    THEN failedAt[e] ELSE first[e]]
      /\ UNCHANGED <<now, left, wrote, failedAt>>
      /\ BackoffTypeOK /\ RowInv /\ PastInv /\ BatchInv
  BY DEF Commit, BackoffInv, BatchInv
<1>2. ASSUME NEW e \in Events
      PROVE  /\ row'[e] \in Row /\ row[e] \in Row /\ first[e] \in Int /\ first'[e] \in Int
             /\ failedAt[e] \in Int
             /\ row'[e] = IF row[e].status = "none" \/ wrote[e].status = "none"
                          THEN row[e] ELSE wrote[e]
             /\ first'[e] = IF row[e].retries = 0 /\ row'[e].retries = 1
                            THEN failedAt[e] ELSE first[e]
             /\ WroteInv(e) /\ Waited(row[e], first[e], failedAt[e])
             /\ row[e].retries > 0 => first[e] <= began
  BY <1>1, <1>2 DEF Committed, BackoffTypeOK, RowInv, BatchInv
<1>3. BackoffTypeOK'
  <2>1. row' \in [Events -> Row]
    BY <1>1, <1>2 DEF Committed
  <2>2. first' \in [Events -> Int]
    BY <1>1, <1>2
  <2> QED
    BY <1>1, <2>1, <2>2 DEF BackoffTypeOK
<1>4. RowInv'
  <2> SUFFICES ASSUME NEW e \in Events PROVE Waited(row'[e], first'[e], failedAt'[e])
    BY DEF RowInv
  <2> DEFINE n == row[e].retries
  <2>1. /\ n \in Nat /\ row[e].next \in Nat /\ MaxRetries \in Nat \ {0}
        /\ WroteInv(e) /\ Waited(row[e], first[e], failedAt[e]) /\ failedAt' = failedAt
        /\ n > 0 => first[e] <= began
    BY <1>1, <1>2, LimitsAssumption DEF Row
  <2>2. CASE row'[e] = row[e]
    <3>1. first'[e] = first[e]
      BY <1>2, <2>1, <2>2
    <3> QED
      BY <2>1, <2>2, <3>1
  <2>3. CASE /\ Open(row[e]) /\ row[e].next <= began
             /\ row'[e] = [row[e] EXCEPT !.status = "published"]
    <3>1. row'[e].status = "published" /\ row'[e].retries = n /\ row'[e].next = row[e].next
      BY <1>2, <2>3 DEF Row
    <3>2. first'[e] = first[e]
      BY <1>2, <2>1, <3>1
    <3> QED
      BY <2>1, <3>1, <3>2 DEF Waited, Open
  <2>4. CASE /\ Open(row[e]) /\ row[e].next <= began
             /\ row'[e] = AfterFailure(n) /\ failedAt[e] >= began
    <3>1. /\ row'[e].retries = n + 1 /\ row'[e].next = began + Backoff(n + 1)
          /\ row'[e].status = IF n + 1 >= MaxRetries THEN "dead_lettered" ELSE "retrying"
      BY <1>1, <2>1, <2>4, AfterFailureRow
    <3>2. /\ Backoff(n + 1) \in Nat /\ Backoff(1) \in Nat /\ Patience[n] \in Nat
          /\ Patience[n + 1] = Patience[n] + Backoff(n + 1)
          /\ Patience[0] = 0 /\ Patience[1] = Backoff(1)
      BY <2>1, BackoffType, PatienceGrows
    <3>3. n < MaxRetries
      BY <2>1, <2>4 DEF Waited
    <3>4. first'[e] \in Int /\ failedAt[e] \in Int /\ began \in Nat
      BY <1>1, <1>2
    <3>5. CASE n = 0
      <4>1. first'[e] = failedAt[e] /\ row'[e].retries = 1
        BY <1>2, <2>1, <3>1, <3>5
      <4>2. row'[e].status = "dead_lettered" => MaxRetries = 1
        BY <2>1, <3>1, <3>5
      <4>3. first'[e] >= 0
        BY <2>4, <3>4, <4>1
      <4>4. failedAt[e] - first'[e] >= Patience[0] - Backoff(1)
        BY <3>2, <3>4, <4>1
      <4> QED
        BY <2>1, <3>1, <3>5, <4>1, <4>2, <4>3, <4>4 DEF Waited, Open
    <3>6. CASE n > 0
      <4>1. first'[e] = first[e] /\ first[e] \in Int /\ first[e] >= 0 /\ first[e] <= began
        BY <1>2, <2>1, <3>6 DEF Waited
      <4>2. began >= first[e] + Patience[n] - Backoff(1)
        <5>1. CASE n = 1
          BY <3>2, <3>4, <4>1, <5>1
        <5>2. CASE n > 1
          <6>1. row[e].next >= first[e] + Patience[n] - Backoff(1)
            BY <2>1, <5>2 DEF Waited
          <6> QED
            BY <2>1, <2>4, <3>2, <3>4, <4>1, <6>1
        <5> QED
          BY <2>1, <3>6, <5>1, <5>2
      <4>3. row'[e].retries > 1 /\
            row'[e].next >= first'[e] + Patience[row'[e].retries] - Backoff(1)
        BY <2>1, <3>1, <3>2, <3>4, <3>6, <4>1, <4>2
      <4>4. n + 1 >= MaxRetries => n + 1 = MaxRetries /\ MaxRetries - 1 = n
        BY <2>1, <3>3
      <4>5. failedAt[e] - first'[e] >= Patience[n] - Backoff(1)
        BY <2>4, <3>2, <3>4, <4>1, <4>2
      <4>6. row'[e].status = "dead_lettered" =>
              /\ row'[e].retries = MaxRetries
              /\ failedAt[e] - first'[e] >= Patience[MaxRetries - 1] - Backoff(1)
        BY <3>1, <4>4, <4>5
      <4>7. Open(row'[e]) => row'[e].retries < MaxRetries
        BY <2>1, <3>1 DEF Open
      <4>8. row'[e].status # "none"
        BY <3>1
      <4> QED
        BY <2>1, <4>1, <4>3, <4>6, <4>7, <4>8 DEF Waited
    <3> QED
      BY <2>1, <3>5, <3>6
  <2> QED
    BY <1>2, <2>1, <2>2, <2>3, <2>4 DEF WroteInv
<1>5. BatchInv'
  BY <1>1 DEF BatchInv
<1>6. PastInv'
  <2>1. \A e \in Events : first'[e] = first[e] \/ first'[e] = failedAt[e]
    BY <1>2
  <2> QED
    BY <1>1, <2>1 DEF PastInv
<1> QED
  BY <1>3, <1>4, <1>5, <1>6 DEF BackoffInv

\* Time, and a transaction that is rolled back, leave the rows as they are.
LEMMA OtherSteps ==
    ASSUME BackoffInv, Pass \/ RollBack \/ UNCHANGED vars
    PROVE  BackoffInv'
<1>1. CASE Pass
  BY <1>1 DEF Pass, BackoffInv, BackoffTypeOK, RowInv, PastInv, BatchInv, WroteInv,
              AfterFailure
<1>2. CASE RollBack
  BY <1>2 DEF RollBack, BackoffInv, BackoffTypeOK, RowInv, PastInv, BatchInv
<1>3. CASE UNCHANGED vars
  BY <1>3 DEF vars, BackoffInv, BackoffTypeOK, RowInv, PastInv, BatchInv, WroteInv,
              AfterFailure
<1> QED
  BY <1>1, <1>2, <1>3

\* Every step keeps the invariant.
LEMMA BackoffStep == BackoffInv /\ [Next]_vars => BackoffInv'
<1> SUFFICES ASSUME BackoffInv, [Next]_vars PROVE BackoffInv'
  OBVIOUS
<1>1. CASE \E e \in Events : Append(e)
  BY <1>1, AppendStep
<1>2. CASE Claim
  BY <1>2, ClaimStep
<1>3. CASE \E e \in Events : Published(e) \/ Failed(e)
  BY <1>3, AttemptStep
<1>4. CASE Commit
  BY <1>4, CommitStep
<1>5. CASE Pass \/ RollBack \/ UNCHANGED vars
  BY <1>5, OtherSteps
<1> QED
  BY <1>1, <1>2, <1>3, <1>4, <1>5 DEF Next

\* The invariant holds throughout.
LEMMA BackoffInvariant == Spec => []BackoffInv
<1> QED
  BY BackoffStart, BackoffStep, PTL DEF Spec

\* recordFailure: an event is dead-lettered only after an outage of the sink, from
\* its first recorded failure to its last, that outlasts all of its backoffs but
\* the first, for any backoff, cap, retries, batch size and tick.
THEOREM OutageOutlastsBackoffs == Spec => []OutageOutlasted
<1>1. BackoffInv => OutageOutlasted
  BY DEF BackoffInv, RowInv, Waited, OutageOutlasted
<1> QED
  BY <1>1, BackoffInvariant, PTL

-----------------------------------------------------------------------------
(* How long that is *)

\* Until a backoff has reached its cap, all those before it last as long as it
\* does, but for the first of them.
LEMMA PatienceDoubles ==
    ASSUME NEW n \in 0..(MaxShift + 1)
    PROVE  Patience[n] + BaseBackoff = Shifted[n]
<1> DEFINE T == {k \in Nat : Patience[k] + BaseBackoff = Shifted[k]}
<1>1. 0 \in T
  BY PatienceGrows, ShiftedDoubles, LimitsAssumption
<1>2. ASSUME NEW k \in 0..(n - 1), k \in T PROVE k + 1 \in T
  <2>1. k \in Nat /\ k + 1 \in Nat /\ k <= MaxShift /\ MaxShift \in Nat
    BY LimitsAssumption
  <2>2. Backoff(k + 1) = Shifted[k]
    BY <2>1 DEF Backoff
  <2>3. Patience[k + 1] = Patience[k] + Shifted[k] /\ Shifted[k + 1] = 2 * Shifted[k]
    BY <2>1, <2>2, PatienceGrows, ShiftedDoubles
  <2>4. {Patience[k], Shifted[k], BaseBackoff} \subseteq Nat
    BY <2>1, PatienceGrows, ShiftedDoubles, LimitsAssumption
  <2> QED
    BY <1>2, <2>1, <2>3, <2>4
<1>3. n \in Nat
  BY LimitsAssumption
<1>4. n \in T
  <2> HIDE DEF T
  <2> QED
    BY <1>1, <1>2, <1>3, UpTo
<1> QED
  BY <1>4

\* Beyond it each attempt adds the cap.
LEMMA PatienceGrowsByCap ==
    ASSUME NEW n \in Nat, n >= MaxShift + 1
    PROVE  Patience[n] = Patience[MaxShift + 1] + (n - (MaxShift + 1)) * Shifted[MaxShift]
<1> DEFINE m == MaxShift + 1
           T == {k \in Nat : Patience[m + k] = Patience[m] + k * Shifted[MaxShift]}
<1>1. m \in Nat /\ MaxShift \in Nat /\ Shifted[MaxShift] \in Nat /\ Patience[m] \in Nat
  BY LimitsAssumption, ShiftedDoubles, PatienceGrows
<1> HIDE DEF m
<1>2. 0 \in T
  BY <1>1
<1>3. ASSUME NEW k \in 0..((n - m) - 1), k \in T PROVE k + 1 \in T
  <2>1. k \in Nat /\ m + k \in Nat /\ m + (k + 1) = (m + k) + 1
    BY <1>1
  <2>2. Backoff((m + k) + 1) = Shifted[MaxShift]
    BY <1>1, <2>1 DEF Backoff, m
  <2>3. Patience[m + (k + 1)] = Patience[m + k] + Shifted[MaxShift]
    BY <2>1, <2>2, PatienceGrows
  <2>4. (k + 1) * Shifted[MaxShift] = k * Shifted[MaxShift] + Shifted[MaxShift]
    BY <1>1, <2>1
  <2>5. k * Shifted[MaxShift] \in Nat
    BY <1>1, <2>1
  <2> QED
    BY <1>1, <1>3, <2>1, <2>3, <2>4, <2>5
<1>4. n - m \in Nat
  BY <1>1 DEF m
<1>5. n - m \in T
  <2> HIDE DEF T
  <2> QED
    BY <1>2, <1>3, <1>4, UpTo
<1>6. m + (n - m) = n
  BY <1>1
<1> QED
  BY <1>5, <1>6 DEF m

\* The backoffs between MaxRetries attempts: together they are one less than the
\* next in the doubling, and after MaxShift doublings each adds the cap.
AllBackoffs ==
    IF MaxRetries <= MaxShift + 2
      THEN Shifted[MaxRetries - 1] - BaseBackoff
      ELSE Shifted[MaxShift + 1] - BaseBackoff
             + (MaxRetries - (MaxShift + 2)) * Shifted[MaxShift]

\* That is the sum of them.
LEMMA PatienceInFull == Patience[MaxRetries - 1] = AllBackoffs
<1>1. /\ MaxRetries \in Nat \ {0} /\ MaxRetries - 1 \in Nat
      /\ MaxShift \in Nat /\ BaseBackoff \in Nat
  BY LimitsAssumption
<1>2. CASE MaxRetries <= MaxShift + 2
  <2>1. Patience[MaxRetries - 1] + BaseBackoff = Shifted[MaxRetries - 1]
    BY <1>1, <1>2, PatienceDoubles
  <2>2. Patience[MaxRetries - 1] \in Nat
    BY <1>1, PatienceGrows
  <2> QED
    BY <1>1, <1>2, <2>1, <2>2 DEF AllBackoffs
<1>3. CASE MaxRetries > MaxShift + 2
  <2> DEFINE m == MaxShift + 1
  <2>1. Patience[m] + BaseBackoff = Shifted[m] /\ Patience[m] \in Nat
    BY <1>1, PatienceDoubles, PatienceGrows
  <2>2. (MaxRetries - 1) - m = MaxRetries - (MaxShift + 2)
    BY <1>1
  <2>3. Patience[MaxRetries - 1] =
          Patience[m] + ((MaxRetries - 1) - m) * Shifted[MaxShift]
    BY <1>1, <1>3, PatienceGrowsByCap
  <2>4. AllBackoffs = Shifted[m] - BaseBackoff
                        + (MaxRetries - (MaxShift + 2)) * Shifted[MaxShift]
    BY <1>1, <1>3 DEF AllBackoffs
  <2> HIDE DEF m
  <2>5. Patience[m] = Shifted[m] - BaseBackoff
    BY <1>1, <2>1
  <2> QED
    BY <2>2, <2>3, <2>4, <2>5
<1> QED
  BY <1>1, <1>2, <1>3

\* recordFailure in figures: an event is dead-lettered only when the sink has
\* been out for (2^(MaxRetries-1) - 2) * BaseBackoff, and for a cap more for each
\* attempt beyond MaxShift + 2: the shift of at most 16 bounds the wait between
\* attempts, and not the outage that an event survives.
THEOREM OutageInFigures ==
    Spec => [](\A e \in Events : row[e].status = "dead_lettered" =>
                   failedAt[e] - first[e] >= AllBackoffs - BaseBackoff)
<1>1. BackoffInv =>
        \A e \in Events : row[e].status = "dead_lettered" =>
            failedAt[e] - first[e] >= AllBackoffs - BaseBackoff
  <2> SUFFICES ASSUME BackoffInv, NEW e \in Events, row[e].status = "dead_lettered"
               PROVE  failedAt[e] - first[e] >= AllBackoffs - BaseBackoff
    OBVIOUS
  <2>1. failedAt[e] - first[e] >= Patience[MaxRetries - 1] - Backoff(1)
    BY DEF BackoffInv, RowInv, Waited
  <2>2. Backoff(1) = BaseBackoff
    BY ShiftedDoubles, LimitsAssumption DEF Backoff
  <2> QED
    BY <2>1, <2>2, PatienceInFull
<1> QED
  BY <1>1, BackoffInvariant, PTL

=============================================================================
