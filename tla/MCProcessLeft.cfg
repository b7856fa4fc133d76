SPECIFICATION ServicesSpec
CONSTANTS
    jupyter = jupyter  python = python  run = run  debug = debug
    Controllers = {jupyter, python}
    Callers = {run, debug}
    MaxTroubles = 0
    MaxRawRestarts = 3
    Hasty = TRUE
    MaxMoments = 3
    Slow = FALSE
    None = None
    MaxMessages = 0
    MaxRestarts = 0
INVARIANT DiesWithSession
CHECK_DEADLOCK FALSE
