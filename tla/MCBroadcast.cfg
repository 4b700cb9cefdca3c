SPECIFICATION Spec
CONSTANTS
    u1 = u1
    u2 = u2
    w1 = w1
    w2 = w2
    Users = {u1, u2}
    Writers = {w1, w2}
    Chunks = 2
    MaxSent = 1
    None = None
SYMMETRY Symmetric
INVARIANTS InterleavedWhole SameOrder ReachesAll VisitsOnlyMembers
