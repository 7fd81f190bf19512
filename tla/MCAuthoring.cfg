CONSTANTS
    LastDay = 1
    v1 = v1
    v2 = v2
    o1 = o1
    o2 = o2
    Versions = {v1, v2}
    Operators = {o1, o2}
    None = None
    OwnDate <- OneOwnDate
SPECIFICATION Spec
SYMMETRY Symmetry
INVARIANTS
    NotBeforeItsEve
    DarkOnlyAfterFailure
PROPERTIES
    CommandsKeepCalendar
    SuccessMeansPlaced
CHECK_DEADLOCK FALSE
