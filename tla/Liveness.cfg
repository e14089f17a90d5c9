\* One member and any one disturbance; the user may stop at any time.
CONSTANTS
    m1 = m1
    m2 = m2
    Members <- OneMember
    Selections <- AllOfOne
    Selectors = {"one", "both"}
    Classes = {"Delete", "Retain", "Foreign", "Missing"}
    MaxUID = 1
    MaxGroups = 1
    MaxFaults = 1
    Disturbances = {"api", "reply", "touch", "members", "driver", "pvc", "crash", "tombstone", "class"}
SPECIFICATION FairSpec
PROPERTIES
    ReconcileReturns
    DeletionEnds
    
CHECK_DEADLOCK FALSE
