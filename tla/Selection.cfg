\* Two claims in every state, and one volume that changes meanwhile.
CONSTANTS
    c1 = c1
    c2 = c2
    Claims = {c1, c2}
    Tokens <- SomeTokens
    Handles <- SomeHandles
    Requests <- SomeRequests
    MaxChanges = 1
SPECIFICATION Spec
INVARIANTS
    TypeOK
    OneArray
    EachOnce
    NothingMissed
PROPERTY RefusedForAReason
CHECK_DEADLOCK FALSE
