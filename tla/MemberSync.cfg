\* Two contents, two classes, two groups; two failures, deletions or crashes.
CONSTANTS
    MaxContents = 2
    MaxWant = 2
    MaxFaults = 2
    Classes = {"a", "b"}
    Timeouts = {0, 1, 3, 5}
    Default = 2
    Second = 2
    Half = 8
SPECIFICATION Spec
INVARIANTS
    TypeOK
    OrphansAreTold
PROPERTIES
    MovesTheRightOne
    WaitsAsAsked
    ContentsLive
CHECK_DEADLOCK FALSE
