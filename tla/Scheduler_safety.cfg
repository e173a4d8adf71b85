SPECIFICATION MCSpec
CONSTANTS
    Requests = {r1, r2, r3}
    Peers = {p1, p2}
    Swaps = {s1}
    MaxCapacity = 2
    Last = r3
    Mixes <- Everybody
SYMMETRY Symmetry
INVARIANTS
    SlotOwnership
    NoIdleSlot
    NoLostWakeup
PROPERTIES
    SlotGateRefinement
    AgedNeverOvertaken
