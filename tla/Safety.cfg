\* Two members, every write may conflict with an edit, fail, or lose its
\* reply, and the process may crash.
CONSTANTS
    m1 = m1
    m2 = m2
    Members <- TwoMembers
    Selections <- AllOfTwo
    Selectors = {"one", "both"}
    Classes = {"Delete", "Retain"}
    MaxUID = 1
    MaxGroups = 2
    MaxFaults = 1
    Disturbances = {"api", "reply", "touch", "members", "driver", "pvc", "crash", "tombstone", "class"}
SYMMETRY MemberSymmetry
SPECIFICATION Spec
INVARIANTS
    TypeOK
    CompleteIsProtected
    NothingForgotten
PROPERTIES
    CompleteIsFinal
    GroupIsSticky
    
    MomentIsKept
    AttemptsMoveOn
    Lifecycle
CHECK_DEADLOCK FALSE
