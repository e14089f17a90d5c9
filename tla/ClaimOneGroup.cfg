\* The user edits the object once.
CONSTANTS
    m1 = m1
    m2 = m2
    Members <- OneMember
    Selections <- AllOfOne
    Selectors = {"one"}
    Classes = {"Delete"}
    MaxUID = 1
    MaxGroups = 2
    MaxFaults = 1
    Disturbances = {"touch"}
SPECIFICATION Spec
INVARIANT OneGroupPerObject
CHECK_DEADLOCK FALSE
