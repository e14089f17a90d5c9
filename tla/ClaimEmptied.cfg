\* The user deletes the only member of a group.
CONSTANTS
    m1 = m1
    m2 = m2
    Members <- OneMember
    Selections <- AllOfOne
    Selectors = {"one"}
    Classes = {"Delete"}
    MaxUID = 1
    MaxGroups = 1
    MaxFaults = 1
    Disturbances = {"members"}
SPECIFICATION FairSpec
PROPERTY EmptiedGroupGoes
CHECK_DEADLOCK FALSE
