CONSTANTS
    Readers = {r1, r2}
    Writers = {w1}
    Timeouts = {1, 2}
    Scale = 2
    MaxCalls = 2
SPECIFICATION Spec
INVARIANTS
    HashConsistent
    LeaseBacked
PROPERTY
    OwnerFrees
SYMMETRY Symmetry
CHECK_DEADLOCK FALSE
