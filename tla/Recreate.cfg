\* One member, the object re-created under its name, a snapshot informer that
\* lags behind, and a watch that may break.
CONSTANTS
    m1 = m1
    m2 = m2
    Members <- OneMember
    Selections <- AllOfOne
    Selectors = {"one"}
    Classes = {"Delete"}
    MaxUID = 2
    MaxGroups = 2
    MaxFaults = 1
    Disturbances = {"relist", "memberlag"}
SPECIFICATION Spec
INVARIANTS
    GroupBelongs
    NothingForgotten
PROPERTIES
    CompleteIsFinal
    
    ContentsMoveForward
CHECK_DEADLOCK FALSE
