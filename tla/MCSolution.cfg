CONSTANTS
    Total = 6
    PointUnit = 2
    MinReach = 2
    ManyCombos = 3
    MaxHands = 2
    None = None
    Items <- AllItems
    LegacySpots <- EarlyRows
    Submissions <- AllSubmissions
SPECIFICATION Spec
INVARIANTS
    FairlyApportioned
    OnlySoundSolves
    ReadersSeeTheStory
    AdmittedHandsScore
    PointsReflectHands
CHECK_DEADLOCK FALSE
