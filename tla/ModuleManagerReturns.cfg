CONSTANTS
    Threads = {t1}
    Names = {loop, http}
    NoName = NoName
    MaxHeld = 2
SPECIFICATION Spec
INVARIANT AlwaysReturns
CHECK_DEADLOCK FALSE
