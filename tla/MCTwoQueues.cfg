SPECIFICATION Spec
CONSTANTS
    e1 = e1  e2 = e2  e3 = e3  k1 = k1  k2 = k2
    c1 = c1  c2 = c2  c3 = c3
    None = None
    CellExecs = {e1, e2, e3}
    CodeExecs = {}
    Resumed = {e3}
    Cells = {c1, c2}
    CellOf <- FirstCellTwice
    Tolerant = {c2}
    QueueIds <- TwoQueues
    MaxDisruptions = 2
INVARIANTS
    UsableQueueIsServed
    NoStuckSpinner
    StoppedCellsStayStopped
PROPERTY KeepsContract
CHECK_DEADLOCK FALSE
