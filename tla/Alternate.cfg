CONSTANT
    Rounds = 20
SPECIFICATION Spec
INVARIANT
    PrintsInOrder
CHECK_DEADLOCK FALSE
