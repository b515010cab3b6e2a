CONSTANTS
    Apps = {a1}
    Loop = Loop
    SeThreads = {Loop}
    Ids = {1, 2}
    MaxCalls = 2
    MaxRef = 2
SPECIFICATION Spec
INVARIANTS EngineDuringTransfer
PROPERTIES AnsweredOnce AsyncAnswered
CHECK_DEADLOCK FALSE
