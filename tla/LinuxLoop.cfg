CONSTANTS
    Regs = {r1, r2, r3}
    NoReg = NoReg
SPECIFICATION LoopSpec
INVARIANTS WrapperLives
PROPERTIES ImplementsApi TimeoutsAreCalled
CHECK_DEADLOCK FALSE
