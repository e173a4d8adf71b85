SPECIFICATION MCSpec
CONSTANTS
    n1 = n1
    n2 = n2
    m1 = m1
    m2 = m2
    d1 = d1
    d2 = d2
    coder = coder
    writer = writer
    r1 = r1
INVARIANTS
    OneLoadPerNode
PROPERTIES
    
    TargetIsReached
CHECK_DEADLOCK FALSE
