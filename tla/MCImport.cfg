CONSTANTS
    Importers = {p1, p2, p3}
    Items <- MCItems
    None = None
SPECIFICATION Spec
SYMMETRY Symmetry
INVARIANTS
    TypeOK
    ArchivedBeforeStored
    RejectedLeavesNoRows
    NumbersDense
    BackedByItsRun
    StoredWhenDone
    RunOwnedByItsJob
CHECK_DEADLOCK FALSE
