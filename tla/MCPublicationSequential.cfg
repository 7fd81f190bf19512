CONSTANTS
    v1 = v1  v2 = v2  v3 = v3  p1 = p1  p2 = p2
    Versions = {v1, v2, v3}
    Spots = {p1, p2}
    SpotOf <- MCSpotOf
    Number <- MCNumber
    Dates = {d1, d2}
    Orders = {1, 2}
    SlotIds = {s1, s2, s3}
    Txs = {t1}
    None = None
SPECIFICATION Spec
SYMMETRY Symmetry
INVARIANTS
    CalendarAgrees
PROPERTIES
    ImplementsCalendar
CHECK_DEADLOCK FALSE
