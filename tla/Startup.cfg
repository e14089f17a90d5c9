\* Every driver and API server, three changes or crashes.
CONSTANTS
    MaxChanges = 3
    ArgChoices <- Manifests
    Limits = {0, 1}
SPECIFICATION FairSpec
INVARIANTS
    TypeOK
    RunsConnected
PROPERTY StartsUp
CHECK_DEADLOCK FALSE
