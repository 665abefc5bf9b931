CONSTANTS
    Factories = {f1, f2}
    Customers = {c1, c2, c3}
    MaxInStock = 2
    Batch = 3
SPECIFICATION FairSpec
INVARIANTS
    TypeOK
    NoLostWakeUp
PROPERTIES
    BufferSpec
    CustomersLeave
    DeliveredOrStranded
CHECK_DEADLOCK FALSE
