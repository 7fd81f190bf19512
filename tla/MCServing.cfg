CONSTANTS
    LastDay = 3
    Orders = {1, 2}
    v1 = v1
    v2 = v2
    v3 = v3
    Versions = {v1, v2, v3}
    Ids = {1, 2, 3}
    PageSize = 1
    MaxRetired = 1
    MaxChanges = 2
    None = None
    Calendars <- AllCalendars
SPECIFICATION Spec
CONSTRAINT Bounded
INVARIANTS
    GameIsCurrent
    MarksTrue
    ProgressPoints
    HistoryComplete
    StreaksCount
CHECK_DEADLOCK FALSE
