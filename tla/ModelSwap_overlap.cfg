SPECIFICATION MCSpec
CONSTANTS
    Requests = {r1, r2}
    Loads = {l1}
    Unloads = {u1}
    Removes = {x1}
    Renames = {a1}
    Models = {m1, m2}
    Aliases = {n1}
    MaxCapacity = 2
    MaxInstance = 2
    Alone = r1
INVARIANT
    NoGenerationCut
