CONSTANTS
    QIds = {1, 2, 3}
    QSessions = {s1}
    QTokens = {t1, t2}
    Timeouts = {1, 2}
    MaxRetransmit = 1
    MaxTime = 3
    Peers = {p1, p2}
    Mids = {0, 1}
    SrvRetransmit = 1
    MaxIdle = 1
    MaxFail = 1
    MaxNon = 1
    MaxWaiting = 2
    SrvUnusual = {}
    CliMsgs = {1, 2, 3}
    MaxConns = 3
    CliUnusual = {}
SPECIFICATION CoapSpec
INVARIANTS OnTime RefsExact SessionsHeld
PROPERTY ObserversSeeChange
CHECK_DEADLOCK FALSE
