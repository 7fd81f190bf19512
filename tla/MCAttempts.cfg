CONSTANTS
    Visitors = {v1, v2}
    Keys = {k1, k2, k3}
    Payloads = {p1, p2}
    Requests = {r1, r2}
    MaxRows = 3
    MaxReplies = 2
SPECIFICATION Spec
SYMMETRY Symmetry
CONSTRAINT Bounded
INVARIANTS
    TypeOK
    OneOfficial
    OrdinalsDense
    RepliesAgree
CHECK_DEADLOCK FALSE
