\* The flags of config/manager/manager.yaml; nothing fails.
CONSTANTS
    MaxChanges = 0
    ArgChoices <- Elected
    Limits = {1}
SPECIFICATION FairSpec
PROPERTY
    ElectsLeader
CHECK_DEADLOCK FALSE
