SPECIFICATION Spec
CONSTANTS
    e1 = e1  e2 = e2  e3 = e3  k1 = k1  k2 = k2
    c1 = c1  c2 = c2  c3 = c3
    None = None
    CellExecs = {e1, e2, e3}
    CodeExecs = {k1}
    Resumed = {}
    Cells = {c1, c2, c3}
    CellOf <- OwnCells
    Tolerant = {c2}
    QueueIds <- OneQueue
    MaxDisruptions = 2
INVARIANTS
    TypeOK
    NothingLost
    InOrder
    ErrorStopsCells
PROPERTIES
    DropsOnlySettled
CHECK_DEADLOCK FALSE
