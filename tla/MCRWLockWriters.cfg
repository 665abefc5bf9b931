CONSTANTS
    Readers = {r1}
    Writers = {w1, w2}
    Timeouts = {1, 2}
    Scale = 2
    MaxCalls = 2
SPECIFICATION FairSpec
INVARIANTS
    TypeOK
    Exclusion
PROPERTY
    WaiterServed
CHECK_DEADLOCK FALSE
