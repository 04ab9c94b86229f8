SPECIFICATION Spec
CONSTANTS
    Events = {1, 2}
    BatchSize = 2
    MaxRetries = 4
    Interval = 1
    BaseBackoff = 1
    MaxShift = 1
    Horizon = 9
CHECK_DEADLOCK FALSE
INVARIANT OutageOutlasted
