\* Retained snapshots, the object re-created, and one request that fails.
CONSTANTS
    m1 = m1
    m2 = m2
    Members <- TwoMembers
    Selections <- AllOfTwo
    Selectors = {"one"}
    Classes = {"Retain"}
    MaxUID = 2
    MaxGroups = 2
    MaxFaults = 1
    Disturbances = {"api"}
SPECIFICATION Spec
PROPERTY CompleteIsOneMoment
CHECK_DEADLOCK FALSE
