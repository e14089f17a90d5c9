\* An undisturbed creation.
CONSTANTS
    m1 = m1
    m2 = m2
    Members <- TwoMembers
    Selections <- AllOfTwo
    Selectors = {"one"}
    Classes = {"Delete"}
    MaxUID = 1
    MaxGroups = 1
    MaxFaults = 0
    Disturbances = {}
SPECIFICATION Spec
PROPERTY CompleteMeansReady
CHECK_DEADLOCK FALSE
