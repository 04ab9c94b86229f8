SPECIFICATION ServiceSpec
CONSTANTS
    console = console  game = game  unlisted = unlisted  order = order
    Given = "given"
    Fresh = "fresh"
    Prices <- Catalogue
    Unlisted = unlisted
    Quantities <- Boundaries
    MaxItems = 2
    IntMax = 3
    LongMax = 15
    Orders = {order}
CHECK_DEADLOCK FALSE
INVARIANTS ServiceInv StoredTotalIsSum RefusalsExplained OrderMatchesAnswer CompensationNeedsFailure PaidIsKept
