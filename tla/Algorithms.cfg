SPECIFICATION Spec
CONSTANTS
    Unit = 4
    Scale = 8
    MaxU32 = 100
INVARIANTS
    RoutingIsSound
    
    ModelsAreMeasuredRight
CHECK_DEADLOCK FALSE
