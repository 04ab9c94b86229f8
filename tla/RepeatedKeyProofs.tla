------------------------- MODULE RepeatedKeyProofs --------------------------
(***************************************************************************)
(* Theorems about what a client that uses a key again is told: by the      *)
(* service, for bodies of any members in any order (RequestHash), and by   *)
(* labctl, of any set of services and under any faults (DuplicateOrder).   *)
(***************************************************************************)
EXTENDS RequestHash, DuplicateOrder, FiniteSetTheorems, WellFoundedInduction, TLAPS

-----------------------------------------------------------------------------
(* The last of several members *)

\* A set of indices that is not empty has a last one.
LEMMA LastIndex ==
    ASSUME NEW n \in Nat, NEW S, S \subseteq 1..n, S # {}
    PROVE  Max(S) \in S /\ \A i \in S : i <= Max(S)
<1> DEFINE T == {n - i : i \in S}
<1>1. T \subseteq Nat /\ T # {}
  <2>1. \A i \in S : n - i \in Nat
    OBVIOUS
  <2> QED
    BY <2>1
<1>2. PICK t \in T : \A u \in T : ~ (<<u, t>> \in OpToRel(<, Nat))
  <2> HIDE DEF T
  <2> QED
    BY <1>1, NatLessThanWellFounded, WFMin
<1>3. \A u \in T : ~ (u < t)
  <2>1. \A u \in T : <<u, t>> \in Nat \X Nat
    BY <1>1
  <2> HIDE DEF T
  <2> QED
    BY <1>2, <2>1 DEF OpToRel
<1>4. PICK i \in S : \A j \in S : i >= j
  <2>1. PICK i \in S : t = n - i
    OBVIOUS
  <2>2. ASSUME NEW j \in S PROVE i >= j
    <3>1. ~ (n - j < n - i)
      BY <1>3, <2>1
    <3> QED
      BY <2>1, <3>1
  <2> QED
    BY <2>1, <2>2
<1>5. Max(S) \in S /\ \A j \in S : Max(S) >= j
  BY <1>4 DEF Max
<1> QED
  BY <1>5

-----------------------------------------------------------------------------
(* What Hash and Create read *)

\* Member k is the last one that sets field f, in any case.
LastOf(b, f, k) ==
    k \in DOMAIN b /\ Sets(b[k], f) /\ \A i \in DOMAIN b : Sets(b[i], f) => i <= k

\* Create reads the last member that sets a field, or zero without one.
LEMMA CommandIsLast ==
    ASSUME NEW b \in Body, NEW f \in Fields
    PROVE  \/ \E k \in DOMAIN b : LastOf(b, f, k) /\ Command(b)[f] = b[k].lit.val
           \/ Command(b)[f] = 0 /\ \A i \in DOMAIN b : ~ Sets(b[i], f)
<1> DEFINE S == {i \in DOMAIN b : Sets(b[i], f)}
<1>1. Command(b)[f] = IF S = {} THEN 0 ELSE b[Max(S)].lit.val
  BY DEF Command, LastOr
<1>2. CASE S = {}
  BY <1>1, <1>2
<1>3. CASE S # {}
  <2>1. Len(b) \in Nat /\ S \subseteq 1..Len(b)
    BY DEF Body
  <2>2. Max(S) \in S /\ \A i \in S : i <= Max(S)
    <3> HIDE DEF S
    <3> QED
      BY <1>3, <2>1, LastIndex
  <2>3. LastOf(b, f, Max(S))
    BY <2>2 DEF LastOf
  <2> QED
    BY <1>1, <1>3, <2>2, <2>3
<1> QED
  BY <1>2, <1>3

\* Member k is the last of its name.
LastNamed(b, k) == k \in DOMAIN b /\ \A i \in DOMAIN b : Name(b[i]) = Name(b[k]) => i <= k

\* Every name has a last member.
LEMMA NameHasLast ==
    ASSUME NEW b \in Body, NEW i \in DOMAIN b
    PROVE  \E k \in DOMAIN b : LastNamed(b, k) /\ Name(b[k]) = Name(b[i]) /\ i <= k
<1> DEFINE S == {k \in DOMAIN b : Name(b[k]) = Name(b[i])}
<1>1. Len(b) \in Nat /\ S \subseteq 1..Len(b) /\ i \in S
  BY DEF Body
<1>2. Max(S) \in S /\ \A k \in S : k <= Max(S)
  <2> HIDE DEF S
  <2> QED
    BY <1>1, LastIndex
<1>3. LastNamed(b, Max(S)) /\ Name(b[Max(S)]) = Name(b[i]) /\ i <= Max(S)
  BY <1>1, <1>2 DEF LastNamed
<1> QED
  BY <1>2, <1>3

\* Hash sees the last member of a name.
LEMMA DigestIsLast ==
    ASSUME NEW b \in Body, NEW k, LastNamed(b, k)
    PROVE  Name(b[k]) \in DOMAIN Digest(b) /\ Digest(b)[Name(b[k])] = Value(b[k].lit)
<1> DEFINE S == {i \in DOMAIN b : Name(b[i]) = Name(b[k])}
<1>1. Name(b[k]) \in DOMAIN Digest(b)
  BY DEF Digest, LastNamed
<1>2. Digest(b)[Name(b[k])] = IF S = {} THEN 0 ELSE Value(b[Max(S)].lit)
  BY <1>1 DEF Digest, LastOr
<1>3. k \in S /\ Max(S) = k
  <2>1. k \in S /\ \A i \in S : i <= k /\ i \in Nat
    BY DEF Body, LastNamed
  <2> HIDE DEF S
  <2>2. \A x, y \in S : (\A i \in S : x >= i) /\ (\A i \in S : y >= i) => x = y
    BY <2>1
  <2> QED
    BY <2>1, <2>2 DEF Max
<1> QED
  BY <1>1, <1>2, <1>3

\* Up to Exact a number is digested as it is, and no other up to IntMax is
\* digested alike.
LEMMA RoundIsExact ==
    ASSUME NEW m \in Nat, m <= IntMax, NEW n \in Nat, Round(n) = Round(m)
    PROVE  n = m
<1>1. IntMax \in Nat /\ Exact \in Nat /\ IntMax < Exact
  BY WidthAssumption
<1>2. Round(m) = m
  BY <1>1 DEF Round
<1>3. n <= Exact \/ n % 2 = 0 => Round(n) = n
  BY DEF Round
<1>4. CASE n > Exact /\ n % 2 # 0
  <2> DEFINE half == n \div 2
  <2>1. half \in Nat /\ n = 2 * half + 1
    BY <1>4
  <2>2. Round(n) = 2 * half \/ Round(n) = 2 * (half + 1)
    BY <1>1, <1>4 DEF Round
  <2> HIDE DEF half
  <2> QED
    BY <1>1, <1>2, <1>4, <2>1, <2>2
<1> QED
  BY <1>1, <1>2, <1>3, <1>4

\* A literal that its field can hold is told from any other by its digest.
LEMMA ValueIsRead ==
    ASSUME NEW l \in Literal, NEW m \in Literal, Value(l) = Value(m),
           l.kind = m.kind, l.kind \in {"string", "integer"},
           l.kind = "integer" => m.val <= IntMax
    PROVE  l.val = m.val
<1>1. l.val \in Nat /\ m.val \in Nat
  BY WidthAssumption DEF Literal
<1>2. CASE l.kind = "string"
  BY <1>2 DEF Value, Class
<1>3. CASE l.kind = "integer"
  <2>1. Round(l.val) = Round(m.val)
    <3>1. Value(l)[2] = Round(l.val) /\ Value(m)[2] = Round(m.val)
      <4>1. Class(l) = "number" /\ Class(m) = "number"
        BY <1>3 DEF Class
      <4> QED
        BY <4>1 DEF Value
    <3> QED
      BY <3>1
  <2> QED
    BY <1>1, <1>3, <2>1, RoundIsExact
<1> QED
  BY <1>2, <1>3

\* Null has a digest of its own.
LEMMA NullIsTold ==
    ASSUME NEW l \in Literal, NEW m \in Literal, Value(l) = Value(m), l.kind # "null"
    PROVE  m.kind # "null"
<1>1. Class(l) # "null" /\ (m.kind = "null" => Class(m) = "null")
  BY DEF Class
<1>2. Value(l)[1] = Class(l) /\ Value(m)[1] = Class(m)
  BY DEF Value
<1> QED
  BY <1>1, <1>2

\* A body with the digest of one that is created, and that Create can read, says
\* the same.
LEMMA DigestDetermines ==
    ASSUME NEW b \in Body, NEW c \in Body, Outcome(b) = "created",
           Digest(c) = Digest(b), Decodes(c), OneSpelling(c), ValueLast(c)
    PROVE  Command(c) = Command(b)
<1>1. /\ Decodes(b)
      /\ \A f \in Fields : Command(b)[f] # 0
      /\ \A f \in Numeric : ~ (Command(b)[f] > IntMax)
  BY DEF Outcome
<1>2. ASSUME NEW f \in Fields PROVE Command(c)[f] = Command(b)[f]
  <2>1. PICK k \in DOMAIN b : LastOf(b, f, k) /\ Command(b)[f] = b[k].lit.val
    BY <1>1, CommandIsLast
  <2>2. PICK n \in DOMAIN b : LastNamed(b, n) /\ Name(b[n]) = Name(b[k]) /\ k <= n
    BY NameHasLast
  <2>3. Name(b[k]) \in DOMAIN Digest(b) /\ Digest(b)[Name(b[k])] = Value(b[n].lit)
    BY <2>2, DigestIsLast
  <2>4. PICK j \in DOMAIN c : Name(c[j]) = Name(b[k])
    BY <2>3 DEF Digest
  <2>5. c[j].field = f
    BY <2>1, <2>4 DEF LastOf, Sets, Name
  <2>6. PICK l \in DOMAIN c : LastOf(c, f, l) /\ Command(c)[f] = c[l].lit.val
    <3>1. \E i \in DOMAIN c : Sets(c[i], f)
      BY <2>5 DEF ValueLast
    <3> QED
      BY <3>1, CommandIsLast
  <2>7. Name(c[l]) = Name(b[k])
    BY <2>4, <2>5, <2>6 DEF LastOf, Sets, Name, OneSpelling
  <2>8. LastNamed(c, l)
    <3> SUFFICES ASSUME NEW i \in DOMAIN c, Name(c[i]) = Name(c[l]) PROVE i <= l
      BY DEF LastNamed
    <3>1. c[i].field = f
      BY <2>6 DEF Name, LastOf, Sets
    <3>2. PICK m \in DOMAIN c : m >= i /\ Sets(c[m], f)
      BY <3>1 DEF ValueLast
    <3>3. m <= l
      BY <2>6, <3>2 DEF LastOf
    <3>4. i \in Nat /\ m \in Nat /\ l \in Nat
      BY DEF Body
    <3> QED
      BY <3>2, <3>3, <3>4
  <2>9. Value(c[l].lit) = Value(b[n].lit)
    BY <2>3, <2>7, <2>8, DigestIsLast
  <2>10. /\ c[l].lit \in Literal /\ b[n].lit \in Literal
         /\ c[l].field = f /\ b[n].field = f /\ c[l].lit.kind # "null"
    <3>1. c[l] \in Member /\ b[n] \in Member
      BY DEF Body
    <3> QED
      BY <2>1, <2>2, <2>6, <3>1 DEF Member, LastOf, Sets, Name
  <2>11. b[n].lit.kind # "null"
    BY <2>9, <2>10, NullIsTold
  <2>12. n = k
    <3>1. n <= k
      BY <2>1, <2>10, <2>11 DEF LastOf, Sets
    <3>2. n \in Nat /\ k \in Nat
      BY DEF Body
    <3> QED
      BY <2>2, <3>1, <3>2
  <2>13. /\ c[l].lit.kind = b[n].lit.kind
         /\ b[n].lit.kind = IF f \in Numeric THEN "integer" ELSE "string"
    BY <1>1, <2>10, <2>11 DEF Decodes
  <2>14. c[l].lit.kind = "integer" => b[n].lit.val <= IntMax
    <3>1. IntMax \in Nat /\ b[n].lit.val \in Nat
      BY <2>10, WidthAssumption DEF Literal
    <3>2. Command(b)[f] = b[n].lit.val
      BY <2>1, <2>12
    <3> QED
      BY <1>1, <2>13, <3>1, <3>2
  <2>15. c[l].lit.val = b[n].lit.val
    <3>1. c[l].lit.kind \in {"string", "integer"}
      BY <2>13
    <3> QED
      BY <2>9, <2>10, <2>13, <2>14, <3>1, ValueIsRead
  <2> QED
    BY <2>1, <2>6, <2>12, <2>15
<1> QED
  BY <1>2 DEF Command

-----------------------------------------------------------------------------
(* What is rewritten *)

\* In a body with as many names as members, no two members have one name.
LEMMA NamesDistinct ==
    ASSUME NEW b \in Body, Len(b) = Cardinality({Name(b[i]) : i \in DOMAIN b}),
           NEW i \in DOMAIN b, NEW j \in DOMAIN b, Name(b[i]) = Name(b[j])
    PROVE  i = j
<1> DEFINE N == {Name(b[k]) : k \in DOMAIN b}
           D == 1..Len(b)
           f == [k \in D |-> Name(b[k])]
<1>1. D = DOMAIN b /\ Len(b) \in Nat
  BY DEF Body
<1>2. IsFiniteSet(D) /\ Cardinality(D) = Len(b)
  BY <1>1, FS_Interval
<1>3. f \in Surjection(D, N)
  <2>1. f \in [D -> N]
    BY <1>1
  <2>2. \A n \in N : \E k \in D : f[k] = n
    BY <1>1
  <2> QED
    BY <2>1, <2>2 DEF Surjection
<1>4. f \in Injection(D, N)
  <2> HIDE DEF D, N, f
  <2>1. Cardinality(N) = Cardinality(D)
    BY <1>2 DEF N
  <2> QED
    BY <1>2, <1>3, <2>1, FS_Surjection
<1> QED
  <2>1. i \in D /\ j \in D /\ f[i] = f[j]
    BY <1>1
  <2> HIDE DEF D, f
  <2> QED
    BY <1>4, <2>1 DEF Injection, IsInjective

\* Members in another order, and numbers written in another way, have one digest.
LEMMA RewritesAgree ==
    ASSUME NEW b \in Body, NEW c \in Body, Rewrites(b, c)
    PROVE  Digest(c) = Digest(b)
<1> DEFINE As(m) == <<Name(m), Class(m.lit), m.lit.val>>
<1>1. /\ {As(b[i]) : i \in DOMAIN b} = {As(c[i]) : i \in DOMAIN c}
      /\ Len(b) = Len(c)
      /\ Len(b) = Cardinality({Name(b[i]) : i \in DOMAIN b})
  BY DEF Rewrites
<1>2. /\ \A i \in DOMAIN b : \E j \in DOMAIN c : As(c[j]) = As(b[i])
      /\ \A j \in DOMAIN c : \E i \in DOMAIN b : As(c[j]) = As(b[i])
  <2> HIDE DEF As
  <2> QED
    BY <1>1
<1>3. {Name(b[i]) : i \in DOMAIN b} = {Name(c[i]) : i \in DOMAIN c}
  <2>1. \A i \in DOMAIN b, j \in DOMAIN c : As(c[j]) = As(b[i]) => Name(c[j]) = Name(b[i])
    OBVIOUS
  <2> HIDE DEF As
  <2> QED
    BY <1>2, <2>1
<1>4. ASSUME NEW i \in DOMAIN b, NEW j \in DOMAIN c, As(c[j]) = As(b[i])
      PROVE  /\ Digest(b)[Name(b[i])] = Value(b[i].lit)
             /\ Digest(c)[Name(b[i])] = Value(c[j].lit)
             /\ Value(b[i].lit) = Value(c[j].lit)
  <2>1. LastNamed(b, i)
    BY <1>1, NamesDistinct DEF Body, LastNamed
  <2>2. LastNamed(c, j)
    <3>1. Len(c) = Cardinality({Name(c[k]) : k \in DOMAIN c})
      BY <1>1, <1>3
    <3>2. \A k \in DOMAIN c : Name(c[k]) = Name(c[j]) => k = j
      BY <3>1, NamesDistinct
    <3> QED
      BY <3>2 DEF Body, LastNamed
  <2>3. Name(c[j]) = Name(b[i])
    BY <1>4
  <2>4. Value(b[i].lit) = Value(c[j].lit)
    BY <1>4 DEF Value
  <2> QED
    BY <2>1, <2>2, <2>3, <2>4, DigestIsLast
<1>5. ASSUME NEW n \in DOMAIN Digest(b) PROVE Digest(c)[n] = Digest(b)[n]
  <2>1. PICK i \in DOMAIN b : n = Name(b[i])
    BY DEF Digest
  <2> QED
    <3>1. PICK j \in DOMAIN c : As(c[j]) = As(b[i])
      BY <1>2
    <3> HIDE DEF As
    <3> QED
      BY <1>4, <2>1, <3>1
<1>6. DOMAIN Digest(c) = DOMAIN Digest(b)
  BY <1>3 DEF Digest
<1> QED
  BY <1>5, <1>6 DEF Digest

-----------------------------------------------------------------------------
(* The two requests *)

\* The row is of a request that was told "created", and what the second is told
\* depends on the first alone when that is the one.
HashInv ==
    /\ body \in [1..2 -> Bodies]
    /\ answer \in [1..2 -> {"none", "created", "refused", "error", "conflict", "replay"}]
    /\ row \in 0..2
    /\ row # 0 => answer[row] = "created"
    /\ answer[1] = "none" => row = 0 /\ answer[2] = "none"
    /\ answer[1] # "replay"
    /\ answer[1] = "created" => row = 1 /\ Outcome(body[1]) = "created"
    /\ answer[1] = "created" /\ answer[2] # "none" =>
         answer[2] = IF Digest(body[2]) = Digest(body[1]) THEN "replay" ELSE "conflict"
    /\ answer[2] = "replay" => answer[1] = "created"

\* Each answer follows the row that was found.
LEMMA HashStep == HashInv /\ [Next]_vars => HashInv'
<1> SUFFICES ASSUME HashInv, [Next]_vars PROVE HashInv'
  OBVIOUS
<1>1. ASSUME NEW r \in 1..2, Post(r) PROVE HashInv'
  <2>1. /\ answer[r] = "none" /\ body' = body /\ HashInv /\ (r = 2 => answer[1] # "none")
        /\ Outcome(body[r]) \in {"created", "refused", "error"}
    BY <1>1 DEF Post, Outcome
  <2>2. CASE Claimed(r)
    <3>1. /\ row = 0 /\ answer' = [answer EXCEPT ![r] = Outcome(body[r])]
          /\ row' = IF Outcome(body[r]) = "created" THEN r ELSE 0
      BY <2>2 DEF Claimed, Say
    <3> HIDE DEF Outcome
    <3>2. CASE r = 1
      BY <2>1, <3>1, <3>2 DEF HashInv
    <3>3. CASE r = 2
      BY <2>1, <3>1, <3>3 DEF HashInv
    <3> QED
      BY <3>2, <3>3
  <2>3. CASE Found(r)
    <3>1. r = 2 /\ row = 1 /\ row' = row
      BY <2>1, <2>3 DEF Found, HashInv
    <3>2. answer' = [answer EXCEPT ![2] =
                       IF Digest(body[2]) = Digest(body[1]) THEN "replay" ELSE "conflict"]
      BY <2>3, <3>1 DEF Found, Say
    <3> QED
      BY <2>1, <3>1, <3>2 DEF HashInv
  <2> QED
    BY <1>1, <2>2, <2>3 DEF Post
<1>2. CASE UNCHANGED vars
  BY <1>2 DEF vars, HashInv
<1> QED
  BY <1>1, <1>2 DEF Next

\* The invariant holds throughout.
LEMMA HashInvariant == Spec => []HashInv
<1>1. Init => HashInv
  BY DEF Init, HashInv
<1> QED
  BY <1>1, HashStep, PTL DEF Spec

\* Require and Hash: a retry that Create can read, in a body that names each field
\* in one way and does not end it with null, is only replayed for an order of
\* exactly what it asks for, whatever the body of that order.
THEOREM ReplaysAreWhatWasAsked == Spec => []ReplayIsWhatWasAsked
<1>1. HashInv => ReplayIsWhatWasAsked
  <2> SUFFICES ASSUME HashInv, answer[2] = "replay",
                      Decodes(body[2]), OneSpelling(body[2]), ValueLast(body[2])
               PROVE  Command(body[2]) = Command(body[1])
    BY DEF ReplayIsWhatWasAsked
  <2>1. /\ body[1] \in Body /\ body[2] \in Body /\ Outcome(body[1]) = "created"
        /\ Digest(body[2]) = Digest(body[1])
    BY BodiesAssumption DEF HashInv
  <2> QED
    BY <2>1, DigestDetermines
<1> QED
  BY <1>1, HashInvariant, PTL

\* Hash: a request that is serialised again is never refused as another one.
THEOREM RewrittenAreReplayed == Spec => []RewrittenIsReplayed
<1>1. HashInv => RewrittenIsReplayed
  <2> SUFFICES ASSUME HashInv, answer[1] = "created", answer[2] # "none",
                      Rewrites(body[1], body[2])
               PROVE  answer[2] = "replay"
    BY DEF RewrittenIsReplayed
  <2>1. body[1] \in Body /\ body[2] \in Body
    BY BodiesAssumption DEF HashInv
  <2>2. Digest(body[2]) = Digest(body[1])
    BY <2>1, RewritesAgree
  <2> QED
    BY <2>2 DEF HashInv
<1> QED
  BY <1>1, HashInvariant, PTL

-----------------------------------------------------------------------------
(* The invariant of labctl's scenario *)

\* The state of the client, the network and the service.
ScenarioTypeOK ==
    /\ defects \in SUBSET DefectKinds /\ causes \in SUBSET FaultKinds
    /\ up \in BOOLEAN /\ late \in BOOLEAN
    /\ key \in {"absent", "in_progress", "completed"}
    /\ orders \in Nat /\ order \in Nat
    /\ at \in {"poll", "first", "second", "conflict", "get", "pass", "fail"}
    /\ live \in {"none", "new", "claimed"} /\ ghost \in {"none", "new", "claimed"}
    /\ first \in [status: Nat, body: Int, whole: BOOLEAN, marked: BOOLEAN]

\* One delivery at most has claimed the key, and only a broken connection makes
\* two of one POST.
DeliveryInv ==
    /\ live = "claimed" \/ ghost = "claimed" => key = "in_progress" /\ live # ghost
    /\ key = "in_progress" => live = "claimed" \/ ghost = "claimed" \/ at = "fail"
    /\ live = "none" <=> at \in {"poll", "pass", "fail"}
    /\ at = "poll" => ghost = "none" /\ key = "absent"
    /\ at = "get" => live = "new"
    /\ causes = {} => ghost = "none"

\* A key is completed by one order; it stands for another only with a service that
\* answers so, and there are more only with one that handles requests again.
OrdersInv ==
    /\ key # "completed" => orders = 0 /\ order = 0
    /\ key = "completed" =>
         /\ order >= 1 /\ order <= orders
         /\ "again" \notin defects => order = 1
         /\ ~Reorders => orders = 1

\* The first answer is an order of the key, or "processing" if the POST came
\* twice; other bytes than were first sent are those of a defect.
FirstInv ==
    at \in {"second", "conflict", "get", "pass"} =>
        /\ first.status = 202
        /\ \/ at = "second" /\ first.body = 0 /\ causes # {}
           \/ /\ key = "completed" /\ first.body \in 1..order
              /\ first.whole = FALSE =>
                   "rewrites" \in defects /\ (first.marked = TRUE \/ "unmarked" \in defects)

\* What each answer so far has ruled out.
VerdictInv ==
    /\ at \in {"conflict", "get", "pass"} =>
         /\ defects \cap {"again", "renames", "unmarked"} = {}
         /\ "rewrites" \in defects => first.marked = TRUE
    /\ at \in {"get", "pass"} => "hashless" \notin defects
    /\ at = "pass" => "loses" \notin defects
    /\ at = "fail" => defects # {} \/ causes # {}

ScenarioInv == ScenarioTypeOK /\ DeliveryInv /\ OrdersInv /\ FirstInv /\ VerdictInv

-----------------------------------------------------------------------------
(* The steps of the scenario *)

\* The scenario ends with the answer a, or goes on with the call next.
Fails == at' = "fail" /\ live' = "none" /\ first' = first
GoesTo(next) == at' = next /\ live' = "new" /\ first' = first

\* What the scenario makes of an answer, call by call.
LEMMA Heard ==
    ASSUME NEW a, Hear(a), live # "none", ScenarioTypeOK, DeliveryInv
    PROVE  \/ /\ at = "first" /\ a.status = 202
              /\ at' = "second" /\ live' = "new" /\ first' = a
           \/ at = "first" /\ a.status # 202 /\ Fails
           \/ at = "second" /\ IsReplay(a) /\ GoesTo("conflict")
           \/ at = "second" /\ ~IsReplay(a) /\ Fails
           \/ at = "conflict" /\ a.status = 409 /\ GoesTo("get")
           \/ at = "conflict" /\ a.status # 409 /\ Fails
           \/ at = "get" /\ a.status = 200 /\ at' = "pass" /\ live' = "none" /\ first' = first
           \/ at = "get" /\ a.status # 200 /\ Fails
<1>1. at \in {"first", "second", "conflict", "get"}
  BY DEF ScenarioTypeOK, DeliveryInv
<1> USE DEF Hear, Expected, Following, IsConflict, Fails, GoesTo
<1>2. CASE at = "first"
  BY <1>2
<1>3. CASE at = "second"
  BY <1>3
<1>4. CASE at = "conflict"
  BY <1>4
<1>5. CASE at = "get"
  BY <1>5
<1> QED
  BY <1>1, <1>2, <1>3, <1>4, <1>5

\* The scenario begins without a key, an order or a cause.
LEMMA ScenarioStart == ScenarioInit => ScenarioInv
<1> SUFFICES ASSUME ScenarioInit PROVE ScenarioInv
  OBVIOUS
<1>1. ScenarioTypeOK
  <2>1. defects \in SUBSET DefectKinds
    BY DefectsAssumption DEF ScenarioInit
  <2>2. first \in [status: Nat, body: Int, whole: BOOLEAN, marked: BOOLEAN]
    BY DEF ScenarioInit, None
  <2> QED
    BY <2>1, <2>2 DEF ScenarioInit, ScenarioTypeOK
<1>2. DeliveryInv /\ OrdersInv
  BY DEF ScenarioInit, DeliveryInv, OrdersInv, Reorders
<1>3. FirstInv /\ VerdictInv
  BY DEF ScenarioInit, FirstInv, VerdictInv
<1> QED
  BY <1>1, <1>2, <1>3 DEF ScenarioInv

\* A fault that ends the scenario is a cause.
LEMMA FaultStep ==
    ASSUME ScenarioInv, NEW fault \in FaultKinds, Strikes(fault), Fail,
           UNCHANGED <<defects, up, key, orders, late, resent, first, order>>
    PROVE  ScenarioInv'
<1>1. /\ at' = "fail" /\ live' = "none" /\ ghost' = ghost
      /\ causes' \in SUBSET FaultKinds /\ causes' # {}
  BY DEF Strikes, Fail, ScenarioInv, ScenarioTypeOK
<1>2. ScenarioTypeOK'
  BY <1>1 DEF ScenarioInv, ScenarioTypeOK
<1>3. DeliveryInv'
  BY <1>1 DEF ScenarioInv, ScenarioTypeOK, DeliveryInv
<1>4. OrdersInv' /\ FirstInv' /\ VerdictInv'
  BY <1>1 DEF ScenarioInv, OrdersInv, Reorders, FirstInv, VerdictInv
<1> QED
  BY <1>2, <1>3, <1>4 DEF ScenarioInv

\* The client before its first call, and time.
LEMMA WaitStep ==
    ASSUME ScenarioInv, Ready \/ DeadlinePasses \/ Starts
    PROVE  ScenarioInv'
<1> USE DEF ScenarioInv, ScenarioTypeOK, DeliveryInv, OrdersInv, FirstInv, VerdictInv,
            Reorders
<1>1. CASE Ready
  BY <1>1 DEF Ready
<1>2. CASE DeadlinePasses
  BY <1>2 DEF DeadlinePasses
<1>3. CASE Starts
  BY <1>3 DEF Starts
<1> QED
  BY <1>1, <1>2, <1>3

\* The transport sends a POST a second time: from here on there is a cause.
LEMMA ResendStep ==
    ASSUME ScenarioInv, Resends
    PROVE  ScenarioInv'
<1>1. /\ live # "none" /\ at # "get" /\ ghost = "none" /\ ghost' = live /\ live' = "new"
      /\ UNCHANGED <<defects, up, key, orders, at, late, first, order>>
  BY DEF Resends
<1>2. causes' \in SUBSET FaultKinds /\ causes' # {}
  BY DEF Resends, Strikes, ScenarioInv, ScenarioTypeOK, FaultKinds
<1>3. ScenarioTypeOK'
  BY <1>1, <1>2 DEF ScenarioInv, ScenarioTypeOK
<1>4. DeliveryInv'
  BY <1>1, <1>2 DEF ScenarioInv, ScenarioTypeOK, DeliveryInv
<1>5. OrdersInv' /\ FirstInv' /\ VerdictInv'
  BY <1>1, <1>2 DEF ScenarioInv, OrdersInv, Reorders, FirstInv, VerdictInv
<1> QED
  BY <1>3, <1>4, <1>5 DEF ScenarioInv

\* One delivery claims a key that nobody has.
LEMMA ClaimStep ==
    ASSUME ScenarioInv, Claim
    PROVE  ScenarioInv'
<1>1. /\ key = "absent" /\ key' = "in_progress"
      /\ \/ live = "new" /\ at # "get" /\ live' = "claimed" /\ ghost' = ghost
         \/ ghost = "new" /\ ghost' = "claimed" /\ live' = live
      /\ UNCHANGED <<defects, up, orders, at, late, first, order, causes>>
  BY DEF Claim, Claimable
<1>2. ScenarioTypeOK' /\ DeliveryInv'
  BY <1>1 DEF ScenarioInv, ScenarioTypeOK, DeliveryInv
<1>3. OrdersInv' /\ FirstInv' /\ VerdictInv'
  BY <1>1 DEF ScenarioInv, OrdersInv, Reorders, FirstInv, VerdictInv
<1> QED
  BY <1>2, <1>3 DEF ScenarioInv

\* CreateOrder commits: only the first call can be told of it and go on.
LEMMA CompletesStep ==
    ASSUME ScenarioInv, Completes
    PROVE  ScenarioInv'
<1> DEFINE a == [status |-> 202, body |-> order', whole |-> TRUE, marked |-> FALSE]
<1>1. /\ key = "in_progress" /\ key' = "completed" /\ orders = 0 /\ orders' = 1 /\ order' = 1
      /\ UNCHANGED <<defects, up, late, causes>>
  BY DEF Completes, ScenarioInv, OrdersInv, Reorders
<1>2. CASE live = "claimed" /\ Hear(a) /\ ghost' = ghost
  <2>1. \/ at = "first" /\ at' = "second" /\ live' = "new" /\ first' = a
        \/ at \in {"second", "conflict", "get"} /\ Fails
    <3>1. a.status = 202 /\ a.marked = FALSE
      OBVIOUS
    <3> HIDE DEF a
    <3> QED
      BY <1>2, <3>1, Heard DEF ScenarioInv, IsReplay
  <2>2. CASE at = "first" /\ at' = "second" /\ live' = "new" /\ first' = a
    <3>1. /\ first'.status = 202 /\ first'.body = 1 /\ first'.whole = TRUE
          /\ first' \in [status: Nat, body: Int, whole: BOOLEAN, marked: BOOLEAN]
      BY <1>1, <2>2
    <3>2. ScenarioTypeOK' /\ DeliveryInv'
      BY <1>1, <1>2, <2>2, <3>1 DEF ScenarioInv, ScenarioTypeOK, DeliveryInv
    <3>3. OrdersInv' /\ FirstInv' /\ VerdictInv'
      BY <1>1, <2>2, <3>1 DEF ScenarioInv, OrdersInv, Reorders, FirstInv, VerdictInv
    <3> QED
      BY <3>2, <3>3 DEF ScenarioInv
  <2>3. CASE at \in {"second", "conflict", "get"} /\ Fails
    <3>1. defects # {} \/ causes # {}
      BY <1>1, <1>2, <2>3 DEF ScenarioInv, DeliveryInv, FirstInv
    <3>2. ScenarioTypeOK' /\ DeliveryInv'
      BY <1>1, <1>2, <2>3 DEF Fails, ScenarioInv, ScenarioTypeOK, DeliveryInv
    <3>3. OrdersInv' /\ FirstInv' /\ VerdictInv'
      BY <1>1, <2>3, <3>1 DEF Fails, ScenarioInv, OrdersInv, Reorders, FirstInv, VerdictInv
    <3> QED
      BY <3>2, <3>3 DEF ScenarioInv
  <2> QED
    BY <2>1, <2>2, <2>3
<1>3. CASE ghost = "claimed" /\ ghost' = "none" /\ UNCHANGED <<at, live, first>>
  <2>1. ScenarioTypeOK' /\ DeliveryInv'
    BY <1>1, <1>3 DEF ScenarioInv, ScenarioTypeOK, DeliveryInv
  <2>2. OrdersInv' /\ FirstInv' /\ VerdictInv'
    BY <1>1, <1>3 DEF ScenarioInv, OrdersInv, Reorders, FirstInv, VerdictInv
  <2> QED
    BY <2>1, <2>2 DEF ScenarioInv
<1> QED
  BY <1>2, <1>3 DEF Completes

\* An answer of the service that is an error ends the scenario, with a cause.
LEMMA ErrorStep ==
    ASSUME ScenarioInv, HandlerFails \/ StoreFails
    PROVE  ScenarioInv'
<1>1. causes' \in SUBSET FaultKinds /\ causes' # {}
  BY DEF HandlerFails, StoreFails, Strikes, ScenarioInv, ScenarioTypeOK, FaultKinds
<1>2. ASSUME Hear(None), live # "none" PROVE Fails
  <2>1. None.status = 500 /\ None.marked = FALSE
    BY DEF None
  <2> QED
    BY <1>2, <2>1, Heard DEF ScenarioInv, IsReplay
<1>3. /\ orders' = orders /\ order' = order /\ defects' = defects
      /\ up' = up /\ late' = late
  BY DEF HandlerFails, StoreFails
<1>4. \/ /\ Fails /\ ghost' = ghost
         /\ \/ key' = key
            \/ key = "in_progress" /\ key' = "absent" /\ live = "claimed"
         /\ key' = key => live = "new"
      \/ /\ key = "in_progress" /\ key' = "absent"
         /\ ghost = "claimed" /\ ghost' = "none" /\ UNCHANGED <<at, live, first>>
  <2>1. CASE HandlerFails
    BY <1>2, <2>1 DEF HandlerFails
  <2>2. CASE StoreFails
    <3>1. /\ live = "new" /\ Hear(None)
          /\ UNCHANGED <<key, ghost>>
      BY <2>2 DEF StoreFails
    <3>2. Fails
      BY <1>2, <3>1
    <3> QED
      BY <3>1, <3>2
  <2> QED
    BY <2>1, <2>2
<1>5. ScenarioTypeOK'
  BY <1>1, <1>3, <1>4 DEF Fails, ScenarioInv, ScenarioTypeOK
<1>6. DeliveryInv'
  BY <1>1, <1>3, <1>4 DEF Fails, ScenarioInv, ScenarioTypeOK, DeliveryInv
<1>7. OrdersInv'
  BY <1>1, <1>3, <1>4 DEF Fails, ScenarioInv, OrdersInv, Reorders
<1>8. FirstInv' /\ VerdictInv'
  BY <1>1, <1>3, <1>4 DEF Fails, ScenarioInv, FirstInv, VerdictInv
<1> QED
  BY <1>5, <1>6, <1>7, <1>8 DEF ScenarioInv

\* "processing" is an answer that the first call goes on from, and only when
\* the POST came twice.
LEMMA InProgressStep ==
    ASSUME ScenarioInv, InProgress
    PROVE  ScenarioInv'
<1> DEFINE a == [status |-> 202, body |-> 0, whole |-> TRUE, marked |-> FALSE]
<1>1. /\ live = "new" /\ at # "get" /\ key = "in_progress" /\ Hear(a)
      /\ UNCHANGED <<defects, up, key, orders, late, ghost, order, causes>>
  BY DEF InProgress
<1>2. causes # {} /\ ghost = "claimed"
  BY <1>1 DEF ScenarioInv, DeliveryInv
<1>3. \/ at = "first" /\ at' = "second" /\ live' = "new" /\ first' = a
      \/ Fails
  <2>1. a.status = 202 /\ a.marked = FALSE
    OBVIOUS
  <2> HIDE DEF a
  <2> QED
    BY <1>1, <2>1, Heard DEF ScenarioInv, IsReplay
<1>4. first' \in [status: Nat, body: Int, whole: BOOLEAN, marked: BOOLEAN]
  <2>1. a \in [status: Nat, body: Int, whole: BOOLEAN, marked: BOOLEAN]
    OBVIOUS
  <2> HIDE DEF a
  <2> QED
    BY <1>3, <2>1 DEF Fails, ScenarioInv, ScenarioTypeOK
<1>5. ScenarioTypeOK'
  BY <1>1, <1>3, <1>4 DEF Fails, ScenarioInv, ScenarioTypeOK
<1>6. DeliveryInv'
  BY <1>1, <1>2, <1>3 DEF Fails, ScenarioInv, DeliveryInv
<1>7. OrdersInv'
  BY <1>1, <1>3 DEF Fails, ScenarioInv, OrdersInv, Reorders
<1>8. FirstInv' /\ VerdictInv'
  BY <1>1, <1>2, <1>3 DEF Fails, ScenarioInv, FirstInv, VerdictInv
<1> QED
  BY <1>5, <1>6, <1>7, <1>8 DEF ScenarioInv

\* What the service says of a completed key tells the client of its defects.
LEMMA RepeatStep ==
    ASSUME ScenarioInv, Repeat
    PROVE  ScenarioInv'
<1> DEFINE next == IF "again" \in defects THEN orders + 1 ELSE order
           more == IF Reorders THEN orders + 1 ELSE orders
           a == [status |-> IF "renames" \in defects THEN 200 ELSE 202,
                 body |-> next, whole |-> "rewrites" \notin defects,
                 marked |-> "unmarked" \notin defects]
           c == [status |-> 409, body |-> -1, whole |-> TRUE, marked |-> FALSE]
<1>1. /\ live = "new" /\ at \in {"first", "second", "conflict"} /\ key = "completed"
      /\ UNCHANGED <<defects, up, key, late, ghost, causes>>
      /\ orders \in Nat /\ order \in Nat /\ order >= 1 /\ order <= orders
      /\ "again" \notin defects => order = 1
      /\ ~Reorders => orders = 1
      /\ "again" \in defects => Reorders
      /\ "hides" \in defects => Reorders
      /\ Reorders' = Reorders
  BY DEF Repeat, ScenarioInv, ScenarioTypeOK, OrdersInv, Reorders
<1>2. /\ next \in Nat /\ more \in Nat /\ more >= orders
      /\ next >= order /\ next <= more
      /\ "again" \notin defects => next = 1
      /\ "again" \in defects => next > order
      /\ ~Reorders => more = 1
  BY <1>1
<1>3. /\ a.status = IF "renames" \in defects THEN 200 ELSE 202
      /\ a.body = next
      /\ a.whole \in BOOLEAN /\ (a.whole = TRUE <=> "rewrites" \notin defects)
      /\ a.marked \in BOOLEAN /\ (a.marked = TRUE <=> "unmarked" \notin defects)
      /\ a \in [status: Nat, body: Int, whole: BOOLEAN, marked: BOOLEAN]
  <2>1. a.status = (IF "renames" \in defects THEN 200 ELSE 202) /\ a.body = next
    OBVIOUS
  <2>2. a.whole \in BOOLEAN /\ (a.whole = TRUE <=> "rewrites" \notin defects)
    OBVIOUS
  <2>3. a.marked \in BOOLEAN /\ (a.marked = TRUE <=> "unmarked" \notin defects)
    OBVIOUS
  <2>4. a \in [status: Nat, body: Int, whole: BOOLEAN, marked: BOOLEAN]
    BY <1>2
  <2> QED
    BY <2>1, <2>2, <2>3, <2>4
<1>4. \/ /\ at = "conflict" /\ "hashless" \notin defects
         /\ Hear(c) /\ orders' \in {orders, more} /\ order' = order
      \/ /\ at = "conflict" => "hashless" \in defects
         /\ Hear(a) /\ orders' = more /\ order' = next
  <2>1. CASE at = "conflict" /\ "hashless" \notin defects
    <3>1. /\ Hear(c) /\ order' = order
          /\ orders' = IF "hides" \in defects THEN orders + 1 ELSE orders
      BY <2>1 DEF Repeat
    <3> QED
      BY <1>1, <2>1, <3>1
  <2>2. CASE ~ (at = "conflict" /\ "hashless" \notin defects)
    <3> DEFINE a0 == [status |-> IF "renames" \in defects THEN 200 ELSE 202,
                      body |-> order', whole |-> "rewrites" \notin defects,
                      marked |-> "unmarked" \notin defects]
    <3>1. /\ IF Reorders THEN OrderAgain ELSE UNCHANGED <<orders, order>>
          /\ Hear(a0)
      BY <2>2 DEF Repeat
    <3>2. orders' = more /\ order' = next
      <4>1. CASE Reorders
        BY <3>1, <4>1 DEF OrderAgain
      <4>2. CASE ~Reorders
        BY <1>1, <3>1, <4>2
      <4> QED
        BY <4>1, <4>2
    <3>3. a0 = a
      BY <3>2
    <3> QED
      BY <2>2, <3>1, <3>2, <3>3
  <2> QED
    BY <2>1, <2>2
<1> HIDE DEF next, more, a
<1>5. CASE /\ at = "conflict" /\ "hashless" \notin defects /\ Hear(c)
           /\ orders' \in {orders, more} /\ order' = order
  <2>1. GoesTo("get")
    <3>1. c.status = 409
      OBVIOUS
    <3> HIDE DEF c
    <3> QED
      BY <1>1, <1>5, <3>1, Heard DEF ScenarioInv
  <2>2. ScenarioTypeOK' /\ DeliveryInv'
    BY <1>1, <1>2, <1>5, <2>1 DEF GoesTo, ScenarioInv, ScenarioTypeOK, DeliveryInv
  <2>3. OrdersInv' /\ FirstInv' /\ VerdictInv'
    BY <1>1, <1>2, <1>5, <2>1 DEF GoesTo, ScenarioInv, OrdersInv, FirstInv, VerdictInv
  <2> QED
    BY <2>2, <2>3 DEF ScenarioInv
<1>6. CASE /\ at = "conflict" => "hashless" \in defects
           /\ Hear(a) /\ orders' = more /\ order' = next
  <2>1. \/ /\ at = "first" /\ a.status = 202
           /\ at' = "second" /\ live' = "new" /\ first' = a
        \/ at = "second" /\ IsReplay(a) /\ GoesTo("conflict")
        \/ Fails /\ ~ (at = "first" /\ a.status = 202) /\ ~ (at = "second" /\ IsReplay(a))
    BY <1>1, <1>3, <1>6, Heard DEF ScenarioInv
  <2>2. first' \in [status: Nat, body: Int, whole: BOOLEAN, marked: BOOLEAN]
    BY <1>3, <2>1 DEF Fails, GoesTo, ScenarioInv, ScenarioTypeOK
  <2>3. CASE at = "first" /\ a.status = 202 /\ at' = "second" /\ live' = "new" /\ first' = a
    <3>1. ScenarioTypeOK' /\ DeliveryInv'
      BY <1>1, <1>2, <1>6, <2>2, <2>3 DEF ScenarioInv, ScenarioTypeOK, DeliveryInv
    <3>2. OrdersInv' /\ VerdictInv'
      BY <1>1, <1>2, <1>6, <2>3 DEF OrdersInv, VerdictInv
    <3>3. FirstInv'
      BY <1>1, <1>2, <1>3, <1>6, <2>3 DEF FirstInv
    <3> QED
      BY <3>1, <3>2, <3>3 DEF ScenarioInv
  <2>4. CASE at = "second" /\ IsReplay(a) /\ GoesTo("conflict")
    <3>1. /\ first.status = 202 /\ a.status = first.status
          /\ a.body = first.body /\ a.whole = first.whole /\ a.marked = TRUE
      BY <1>3, <2>4 DEF IsReplay, ScenarioInv, FirstInv
    <3>2. /\ first.body \in 1..order
          /\ first.whole = FALSE =>
               "rewrites" \in defects /\ (first.marked = TRUE \/ "unmarked" \in defects)
      BY <1>1, <1>2, <1>3, <2>4, <3>1 DEF ScenarioInv, FirstInv
    <3>3. "again" \notin defects /\ "renames" \notin defects /\ "unmarked" \notin defects
      BY <1>1, <1>2, <1>3, <3>1, <3>2
    <3>4. "rewrites" \in defects => first.marked = TRUE
      BY <1>3, <3>1, <3>2, <3>3
    <3>5. ScenarioTypeOK' /\ DeliveryInv'
      BY <1>1, <1>2, <1>6, <2>4 DEF GoesTo, ScenarioInv, ScenarioTypeOK, DeliveryInv
    <3>6. OrdersInv'
      BY <1>1, <1>2, <1>6, <2>4, <3>3 DEF GoesTo, OrdersInv
    <3>7. FirstInv' /\ VerdictInv'
      BY <1>1, <1>2, <1>6, <2>4, <3>1, <3>2, <3>3, <3>4 DEF GoesTo, FirstInv, VerdictInv
    <3> QED
      BY <3>5, <3>6, <3>7 DEF ScenarioInv
  <2>5. CASE Fails /\ ~ (at = "first" /\ a.status = 202) /\ ~ (at = "second" /\ IsReplay(a))
    <3>1. defects # {} \/ causes # {}
      <4> SUFFICES ASSUME defects = {}, causes = {} PROVE FALSE
        OBVIOUS
      <4>1. at = "second"
        BY <1>1, <1>3, <1>6, <2>5
      <4>2. order = 1 /\ "rewrites" \notin defects
        BY <1>1
      <4>3. first.status = 202 /\ first.body \in 1..order /\ ~(first.whole = FALSE)
        BY <4>1, <4>2 DEF ScenarioInv, FirstInv
      <4>4. first.whole = TRUE
        <5>1. first.whole \in BOOLEAN
          BY DEF ScenarioInv, ScenarioTypeOK
        <5> QED
          BY <4>3, <5>1
      <4>5. first.body = 1
        BY <4>2, <4>3
      <4>6. a.status = 202 /\ a.body = 1 /\ a.whole = TRUE /\ a.marked = TRUE
        BY <1>2, <1>3
      <4>7. IsReplay(a)
        BY <4>3, <4>4, <4>5, <4>6 DEF IsReplay
      <4> QED
        BY <2>5, <4>1, <4>7
    <3>2. ScenarioTypeOK' /\ DeliveryInv'
      BY <1>1, <1>2, <1>6, <2>5 DEF Fails, ScenarioInv, ScenarioTypeOK, DeliveryInv
    <3>3. OrdersInv' /\ FirstInv' /\ VerdictInv'
      BY <1>1, <1>2, <1>6, <2>5, <3>1 DEF Fails, OrdersInv, FirstInv, VerdictInv
    <3> QED
      BY <3>2, <3>3 DEF ScenarioInv
  <2> QED
    BY <2>1, <2>3, <2>4, <2>5
<1> QED
  BY <1>4, <1>5, <1>6

\* A delivery that nobody listens to may be ordered again, by such a service.
LEMMA UnheardStep ==
    ASSUME ScenarioInv, RepeatUnheard
    PROVE  ScenarioInv'
<1>1. /\ ghost = "new" /\ ghost' = "none"
      /\ UNCHANGED <<defects, up, key, at, late, live, first, causes>>
      /\ orders \in Nat /\ order \in Nat /\ Reorders' = Reorders
  BY DEF RepeatUnheard, Reorders, ScenarioInv, ScenarioTypeOK
<1>2. CASE UNCHANGED <<orders, order>>
  <2>1. ScenarioTypeOK' /\ DeliveryInv'
    BY <1>1, <1>2 DEF ScenarioInv, ScenarioTypeOK, DeliveryInv
  <2>2. OrdersInv' /\ FirstInv' /\ VerdictInv'
    BY <1>1, <1>2 DEF ScenarioInv, OrdersInv, FirstInv, VerdictInv
  <2> QED
    BY <2>1, <2>2 DEF ScenarioInv
<1>3. CASE key = "completed" /\ Reorders /\ OrderAgain
  <2>1. /\ orders' = orders + 1
        /\ order' = IF "again" \in defects THEN orders + 1 ELSE order
    BY <1>3 DEF OrderAgain
  <2>2. ScenarioTypeOK' /\ DeliveryInv'
    BY <1>1, <2>1 DEF ScenarioInv, ScenarioTypeOK, DeliveryInv
  <2>3. OrdersInv'
    BY <1>1, <1>3, <2>1 DEF ScenarioInv, OrdersInv
  <2>4. order' >= order
    BY <1>1, <1>3, <2>1 DEF ScenarioInv, OrdersInv
  <2>5. FirstInv' /\ VerdictInv'
    BY <1>1, <1>3, <2>1, <2>4 DEF ScenarioInv, FirstInv, VerdictInv
  <2> QED
    BY <2>2, <2>3, <2>5 DEF ScenarioInv
<1> QED
  BY <1>2, <1>3 DEF RepeatUnheard

\* The order is found unless the service loses it.
LEMMA ReadStep ==
    ASSUME ScenarioInv, Read
    PROVE  ScenarioInv'
<1> DEFINE a == IF first.body \in 1..orders /\ "loses" \notin defects
                THEN [status |-> 200, body |-> first.body, whole |-> TRUE, marked |-> FALSE]
                ELSE [status |-> 404, body |-> -1, whole |-> TRUE, marked |-> FALSE]
<1>1. /\ live = "new" /\ at = "get" /\ Hear(a) /\ first.body \in 1..orders
      /\ UNCHANGED <<defects, up, key, orders, late, ghost, order, causes>>
  BY DEF Read, ScenarioInv, ScenarioTypeOK, FirstInv, OrdersInv
<1>2. \/ "loses" \notin defects /\ at' = "pass" /\ live' = "none" /\ first' = first
      \/ "loses" \in defects /\ Fails
  <2>1. a.status = IF "loses" \in defects THEN 404 ELSE 200
    BY <1>1
  <2> HIDE DEF a
  <2> QED
    BY <1>1, <2>1, Heard DEF ScenarioInv
<1>3. ScenarioTypeOK' /\ DeliveryInv'
  BY <1>1, <1>2 DEF Fails, ScenarioInv, ScenarioTypeOK, DeliveryInv
<1>4. OrdersInv' /\ FirstInv' /\ VerdictInv'
  BY <1>1, <1>2 DEF Fails, ScenarioInv, OrdersInv, Reorders, FirstInv, VerdictInv
<1> QED
  BY <1>3, <1>4 DEF ScenarioInv

\* Every step of the client, the network and the service keeps the invariant.
LEMMA ScenarioStep == ScenarioInv /\ [ScenarioNext]_scenarioVars => ScenarioInv'
<1> SUFFICES ASSUME ScenarioInv, [ScenarioNext]_scenarioVars PROVE ScenarioInv'
  OBVIOUS
<1>1. CASE Ready \/ DeadlinePasses \/ Starts
  BY <1>1, WaitStep
<1>2. CASE NotReady \/ TimesOut \/ Breaks \/ Cancel
  BY <1>2, FaultStep DEF NotReady, TimesOut, Breaks, Cancel, FaultKinds
<1>3. CASE Resends
  BY <1>3, ResendStep
<1>4. CASE Service
  BY <1>4, ClaimStep, CompletesStep, InProgressStep, RepeatStep, UnheardStep, ReadStep
     DEF Service
<1>5. CASE HandlerFails \/ StoreFails
  BY <1>5, ErrorStep
<1>6. CASE UNCHANGED scenarioVars
  BY <1>6 DEF scenarioVars, ScenarioInv, ScenarioTypeOK, DeliveryInv, OrdersInv, FirstInv,
     VerdictInv, Reorders
<1> QED
  BY <1>1, <1>2, <1>3, <1>4, <1>5, <1>6 DEF ScenarioNext, Verdict

\* The invariant holds throughout.
LEMMA ScenarioInvariant == ScenarioSpec => []ScenarioInv
<1> QED
  BY ScenarioStart, ScenarioStep, PTL DEF ScenarioSpec

-----------------------------------------------------------------------------
(* What the verdicts mean *)

\* runDuplicateOrder says PASS only of a service that answers by its contract, but
\* for what two replays have in common and orders that no answer names, for every
\* set of services and of faults.
THEOREM PassIsDeserved == ScenarioSpec => []PassMeansContract
<1>1. ScenarioInv => PassMeansContract
  <2> SUFFICES ASSUME ScenarioInv, at = "pass"
               PROVE  /\ first.body = order
                      /\ defects \subseteq {"rewrites", "hides"}
                      /\ "rewrites" \in defects => first.marked
                      /\ orders > 1 => "hides" \in defects
    BY DEF PassMeansContract
  <2>1. /\ defects \subseteq {"rewrites", "hides"}
        /\ "again" \notin defects
        /\ "rewrites" \in defects => first.marked = TRUE
    BY DEF ScenarioInv, ScenarioTypeOK, VerdictInv, DefectKinds
  <2>2. key = "completed" /\ first.body \in 1..order /\ order = 1
    BY <2>1 DEF ScenarioInv, FirstInv, OrdersInv
  <2>3. first.body = order
    BY <2>2
  <2>4. orders > 1 => "hides" \in defects
    BY <2>1, <2>2 DEF ScenarioInv, OrdersInv, Reorders
  <2>5. "rewrites" \in defects => first.marked
    BY <2>1, Zenon
  <2> QED
    BY <2>1, <2>3, <2>4, <2>5
<1> QED
  BY <1>1, ScenarioInvariant, PTL

\* runDuplicateOrder says FAIL only with a defect or a fault to show for it.
THEOREM FailIsDeserved == ScenarioSpec => []FailHasCause
<1>1. ScenarioInv => FailHasCause
  BY DEF ScenarioInv, VerdictInv, FailHasCause
<1> QED
  BY <1>1, ScenarioInvariant, PTL

=============================================================================
