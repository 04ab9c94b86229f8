SPECIFICATION FairSpec
CONSTANTS
    Defects <- Services
    Faults = {"down", "cancel", "timeout", "broken", "error"}
INVARIANTS PassMeansContract FailHasCause
PROPERTY ScenarioEnds
