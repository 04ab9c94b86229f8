SPECIFICATION FairSpec
CONSTANTS
    r1 = r1  r2 = r2  r3 = r3  p = p
    Requests = {r1, r2}
    Publisher = p
    MaxConns = 1
    ListenMayFail = TRUE
INVARIANTS ShutdownInv ExitZeroIsClean NoTransactionCut
PROPERTIES SignalEndsProcess ListenFailureEndsProcess RequestsGetConnections
