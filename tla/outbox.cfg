SPECIFICATION FairSpec
CONSTANTS
    p1 = p1  p2 = p2  p3 = p3
    Publishers = {p1, p2}
    Events = {1, 2}
    BatchSize = 2
    MaxRetries = 2
    SentCap = 1
    Faults = {"sink", "db", "stop", "crash"}
    Reliable = {p1}
INVARIANT RetriesAreReal
PROPERTIES SettledIsFinal ImplementsAtLeastOnce EventsSettle
