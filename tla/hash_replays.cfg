SPECIFICATION Spec
CONSTANTS
    quantity = quantity  sku = sku  other = other
    Bodies <- SmallBodies
    Fields = {quantity, sku}
    Numeric = {quantity}
    Other = other
    Spellings = {"as is", "upper"}
    IntMax = 4
    Exact = 8
CHECK_DEADLOCK FALSE
INVARIANTS ReplayIsWhatWasAsked RewrittenIsReplayed
