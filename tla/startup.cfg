SPECIFICATION FairSpec
CONSTANTS
    a = a  b = b  Free = Free
    Replicas = {a, b}
    Reliable = {a}
    Environments <- OneWrong
    Last = 2
    Faults = {"signal", "telemetry", "db", "slow", "crash"}
INVARIANTS StartupInv MigrationsApart FailedStartCleansUp BadValuesAreHarmless
PROPERTY ReliableStarts
