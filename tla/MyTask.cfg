CONSTANTS
    PoolSize = 2
    Jobs = 2
    Rounds = 2
    Scenarios = {{"waitall", "twice"}, {"iterate", "chain"}, {"count", "twice"}}
SPECIFICATION FairSpec
INVARIANTS
    TypeOK
    CompletesOnce
    Causality
    ExactlyOnce
PROPERTY
    ClientsEnd
CHECK_DEADLOCK FALSE
