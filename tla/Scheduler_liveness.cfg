SPECIFICATION MCFairSpec
CONSTANTS
    Requests = {r1, r2, r3}
    Peers = {p1, p2}
    Swaps = {s1}
    MaxCapacity = 1
    Last = r3
    Mixes <- InTwoMixes
PROPERTIES
    NobodyWaitsForever
