CONSTANTS
    Threads = {t1, t2}
    Names = {loop, http}
    NoName = NoName
    MaxHeld = 2
SPECIFICATION OrderlySpec
INVARIANTS OpenedIffListed HeldModulesAreLoaded
PROPERTIES LockIsReturned ImplementsRefs
CHECK_DEADLOCK FALSE
