SPECIFICATION FairSpec
CONSTANTS
    s1 = s1  s2 = s2  r1 = r1  r2 = r2  i1 = i1  i2 = i2
    None = None
    Starts = {s1, s2}
    Restarts = {r1}
    Interrupts = {i1}
    Overlapping = FALSE
PROPERTIES
    DisposeEndsEventually
CHECK_DEADLOCK FALSE
