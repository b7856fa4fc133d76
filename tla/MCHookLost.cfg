SPECIFICATION WidgetSpec
CONSTANTS
    None = None
    MaxMessages = 6
    MaxRestarts = 0
INVARIANT CalledBeforeRemoval
CHECK_DEADLOCK FALSE
