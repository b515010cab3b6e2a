CONSTANTS
    Regs = {r1, r2, r3}
    NoReg = NoReg
    Kinds = {"timeout", "periodic", "watch", "idle"}
    IdLimit = 2
    SelfRemoval = TRUE
SPECIFICATION Spec
INVARIANTS VectorsHoldActive
PROPERTIES OthersKeepRunning
CHECK_DEADLOCK FALSE
