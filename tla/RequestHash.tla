---------------------------- MODULE RequestHash ----------------------------
(***************************************************************************)
(* What the digest of a body identifies, and what Create reads in it.      *)
(*                                                                         *)
(* Require digests the body as a map of values: the last of several        *)
(* members with one name counts, be it null, their order does not, and     *)
(* every number is a float64.  Create decodes the same bytes into a        *)
(* struct: names match in any case, the last one that is not null counts,  *)
(* and a quantity must be written as an integer.  Two requests use one     *)
(* key, one after the other; requests that overlap are in Idempotency.     *)
(*                                                                         *)
(* A body is flat: the treatment of members is the same at every level of  *)
(* it, and the members of each element of items are fields of their own.   *)
(* A body that gives items twice is out of the model: Hash takes the       *)
(* second array, Create decodes it over the elements of the first.         *)
(***************************************************************************)
EXTENDS Naturals, FiniteSets, Sequences, FiniteSetsExt

CONSTANTS
    Bodies,    \* the bodies that are sent, see Body
    Fields,    \* the fields of the struct
    Numeric,   \* those of them that hold a number
    Other,     \* a member that is no field
    Spellings, \* of a name: as the struct has it, or in another case
    IntMax,    \* the largest quantity that can be stored
    Exact      \* float64 holds every integer up to here

ASSUME FieldsAssumption == Numeric \subseteq Fields /\ Other \notin Fields
ASSUME WidthAssumption == {IntMax, Exact} \subseteq Nat /\ IntMax < Exact

Literal == [kind: {"null", "string", "integer", "decimal"}, val: 0..(2 * Exact)]

Member == [field: Fields \cup {Other}, spelling: Spellings, lit: Literal]

Body == Seq(Member)

ASSUME BodiesAssumption == \A b \in Bodies : b \in Body

VARIABLES
    body,     \* of the two requests
    row,      \* the request that the row in idempotency_keys is of, 0 for none
    answer    \* what each request was told: none, created, refused,
             \* error, conflict or replay

vars == <<body, row, answer>>

Init ==
    /\ body \in [1..2 -> Bodies]
    /\ row = 0
    /\ answer = [r \in 1..2 |-> "none"]

-----------------------------------------------------------------------------
(* Mutated forms of definitions below, as a plausible slip would write them; *)
(* the runs are checked to notice each of them.                              *)

\* The bytes are digested as they are.
BytesOf(b) == b

\* Numbers are held in a float that is too short for a quantity.
RoundShort(n) == IF n < IntMax THEN n ELSE IntMax

-----------------------------------------------------------------------------
(* Hash *)

\* To the nearest float64 and, halfway, to the even one.
Round(n) ==
    IF n <= Exact \/ n % 2 = 0 THEN n
    ELSE LET half == n \div 2 IN 2 * (IF half % 2 = 0 THEN half ELSE half + 1)

\* A number is one however it is written.
Class(lit) == IF lit.kind \in {"integer", "decimal"} THEN "number" ELSE lit.kind

Value(lit) == <<Class(lit), CASE Class(lit) = "number" -> Round(lit.val)
                              [] Class(lit) = "string" -> lit.val
                              [] Class(lit) = "null" -> 0>>

\* The value of the last member among those that IsIt selects, or default.
LastOr(b, IsIt(_), Of(_), default) ==
    LET them == {i \in DOMAIN b : IsIt(b[i])}
    IN IF them = {} THEN default ELSE Of(b[Max(them)].lit)

Name(m) == <<m.field, m.spelling>>

Digest(b) ==
    [name \in {Name(b[i]) : i \in DOMAIN b} |->
        LastOr(b, LAMBDA m : Name(m) = name, Value, 0)]

-----------------------------------------------------------------------------
(* Create *)

\* DisallowUnknownFields, and a value that its field can hold; null is one.
Decodes(b) ==
    \A i \in DOMAIN b :
        /\ b[i].field \in Fields
        /\ b[i].lit.kind \in {"null", IF b[i].field \in Numeric THEN "integer" ELSE "string"}

\* Null leaves a field as it is.
Sets(m, f) == m.field = f /\ m.lit.kind # "null"

\* The command, zero where the body says nothing.
Command(b) == [f \in Fields |-> LastOr(b, LAMBDA m : Sets(m, f), LAMBDA lit : lit.val, 0)]

\* Validate and the catalogue want every field, the tables a quantity that fits.
Outcome(b) ==
    IF ~Decodes(b) \/ \E f \in Fields : Command(b)[f] = 0 THEN "refused"
    ELSE IF \E f \in Numeric : Command(b)[f] > IntMax THEN "error" ELSE "created"

-----------------------------------------------------------------------------
(* Require *)

Say(r, what) == answer' = [answer EXCEPT ![r] = what]

\* The claim is won; a handler that does not answer 2xx releases it.
Claimed(r) ==
    /\ row = 0
    /\ Say(r, Outcome(body[r]))
    /\ row' = IF Outcome(body[r]) = "created" THEN r ELSE 0

Found(r) ==
    /\ row # 0
    /\ Say(r, IF Digest(body[r]) = Digest(body[row]) THEN "replay" ELSE "conflict")
    /\ UNCHANGED row

Post(r) ==
    /\ answer[r] = "none"
    /\ r = 2 => answer[1] # "none"
    /\ Claimed(r) \/ Found(r)
    /\ UNCHANGED body

Next == \E r \in 1..2 : Post(r)

Spec == Init /\ [][Next]_vars

-----------------------------------------------------------------------------
(* Properties *)

\* A body in which no field is spelled in two ways.  With two spellings the
\* order of the members is nothing to Hash and decides what Create reads.
OneSpelling(b) ==
    \A i, j \in DOMAIN b : b[i].field = b[j].field => b[i].spelling = b[j].spelling

\* A body in which the last member of a field is not null.  Hash would take the
\* null, and Create the value before it.
ValueLast(b) ==
    \A i \in DOMAIN b : \E j \in DOMAIN b : j >= i /\ Sets(b[j], b[i].field)

\* The post on idempotency keys, "for an order body carrying customer ids, skus
\* and small quantities that is harmless": although integers beyond float64
\* share digests, a retry in a body that names each field in one way and does
\* not end it with null is replayed only for an order of exactly what it asks
\* for, or when Create would not have read it at all.  This asks nothing of the
\* body that the order was made from.
ReplayIsWhatWasAsked ==
    answer[2] = "replay" /\ Decodes(body[2]) /\ OneSpelling(body[2]) /\ ValueLast(body[2]) =>
        Command(body[2]) = Command(body[1])

\* Hash, "a client that reserialises an identical request does not trip a false
\* conflict": members in another order, or an integer written with a fraction
\* of zero, are the same request.
Rewrites(b, c) ==
    LET as(m) == <<Name(m), Class(m.lit), m.lit.val>>
        names(s) == {Name(s[i]) : i \in DOMAIN s}
    IN /\ {as(b[i]) : i \in DOMAIN b} = {as(c[i]) : i \in DOMAIN c}
       /\ Len(b) = Len(c) /\ Len(b) = Cardinality(names(b))

RewrittenIsReplayed ==
    answer[1] = "created" /\ answer[2] # "none" /\ Rewrites(body[1], body[2]) =>
        answer[2] = "replay"

=============================================================================
