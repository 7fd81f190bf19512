CONSTANTS
    LastTick = 3
    Limit = 2
    Window = 2
    RotateAge = 1
    Lifetime = 2
    b1 = b1
    b2 = b2
    r1 = r1
    r2 = r2
    here = here
    Browsers = {b1, b2}
    Addresses = {here}
    AddressOf <- OneAddress
    Requests = {r1, r2}
    MaxTokens = 4
    MaxBlank = 2
    None = None
SPECIFICATION Spec
CONSTRAINT Bounded
SYMMETRY Symmetry
INVARIANTS
    SameVisitor
    GuestsCounted
    BurstBounded
PROPERTIES
    RefusedForCause
CHECK_DEADLOCK FALSE
