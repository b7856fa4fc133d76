SPECIFICATION ServicesSpec
CONSTANTS
    jupyter = jupyter  python = python  run = run  debug = debug
    Controllers = {jupyter, python}
    Callers = {run, debug}
    MaxTroubles = 2
    MaxRawRestarts = 3
    Hasty = FALSE
    MaxMoments = 3
    Slow = FALSE
    None = None
    MaxMessages = 4
    MaxRestarts = 1
INVARIANTS
    KernelsTypeOK
    OneKernel
    ClosedLeavesNone
    OneConnection
    RawTypeOK
    DiesWithSession
    ResumedTypeOK
    NothingToRestore
    EndedMeansOver
    WidgetTypeOK
    HookedIsAsked
PROPERTIES
    EveryoneAnswered
    SessionEnds
    FollowedEnds
    AllPassedOn
CHECK_DEADLOCK FALSE
