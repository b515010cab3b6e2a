CONSTANTS
    Wsis = {w1, w2}
    NoWsi = NoWsi
    MaxMsgs = 2
    MaxOpens = 2
    PongTimeout = "shorter"
    Unusual = {"burst", "null", "reset"}
SPECIFICATION WsSpec
INVARIANTS TimersEndWithStream InOrder
PROPERTIES AcceptedOnlyWhileConnected EndIsReported
CHECK_DEADLOCK FALSE
