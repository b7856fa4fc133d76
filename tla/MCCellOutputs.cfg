SPECIFICATION OutputsSpec
CONSTANTS
    c1 = c1  c2 = c2  d1 = d1  d2 = d2
    None = None
    Cells = {c1, c2}
    Resumed = {c2}
    DisplayIds = {d1}
    Streams = {"stdout", "stderr"}
    MaxMessages = 4
    Lags = {1, 2}
    Unusual = {}
INVARIANTS
    OutputsTypeOK
    ReadsExactly
    TextIsKept
    UpdatableWhileShown
    TextAtTheEnd
CHECK_DEADLOCK FALSE
