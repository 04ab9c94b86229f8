--------------------------- MODULE MCRequestHash ---------------------------
(* Instances of RequestHash for TLC. *)
EXTENDS RequestHash, SequencesExt

CONSTANTS quantity, sku, other

Quantity(spelling, kind, n) ==
    [field |-> quantity, spelling |-> spelling, lit |-> [kind |-> kind, val |-> n]]

\* Both sides of the largest quantity and of the largest exact integer.
QuantityMembers ==
    {Quantity("as is", "integer", n) : n \in {3, 4, 5, 8, 9}}
      \cup {Quantity("upper", "integer", n) : n \in {1, 4}}
      \cup {Quantity("as is", "decimal", 4), Quantity("as is", "null", 0)}

OtherMembers ==
    {[field |-> sku, spelling |-> "as is", lit |-> [kind |-> "string", val |-> n]] : n \in {1, 2}}
      \cup {[field |-> other, spelling |-> "as is", lit |-> [kind |-> "string", val |-> 1]]}

\* One member besides the quantities.
SmallBodies ==
    {b \in BoundedSeq(QuantityMembers \cup OtherMembers, 3) :
        Cardinality({i \in DOMAIN b : b[i] \in OtherMembers}) = 1}

=============================================================================
