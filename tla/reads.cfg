SPECIFICATION Spec
CONSTANTS
    first = first  second = second  x = x  y = y  g = g  h = h
    Orders = {first, second}
    Gets = {g, h}
    Items = {x, y}
    ItemsOf <- TwoAndOne
CHECK_DEADLOCK FALSE
INVARIANT WholeOrNothing
PROPERTY ImplementsAtomicOrders
