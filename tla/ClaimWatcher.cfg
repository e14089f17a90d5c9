\* The user deletes one snapshot or content.
CONSTANTS
    m1 = m1
    m2 = m2
    Members <- TwoMembers
    Selections <- AllOfTwo
    Selectors = {"one"}
    Classes = {"Delete"}
    MaxUID = 1
    MaxGroups = 1
    MaxFaults = 1
    Disturbances = {"members"}
SPECIFICATION Spec
PROPERTY WatcherDeletesEmptyGroups
CHECK_DEADLOCK FALSE
