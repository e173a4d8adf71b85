SPECIFICATION MCSpec
INVARIANTS
    
    
    PlacedIsVerified
    
    SavedIsOneEngine

    
CHECK_DEADLOCK FALSE
