CONSTANTS
    Keys = {k1, k2, k3, k4}
    Values = {0, 1}
    Capacity = 3
    Nodes = {n1, n2, n3, n4}
    HeaderNode = header
    TailNode = tail
    Null = null
SPECIFICATION Spec
INVARIANTS
    TypeOK
    Consistent
PROPERTY
    PolicySpec
SYMMETRY Symmetry
