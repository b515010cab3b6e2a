CONSTANTS
    Clients = {c1, c2}
    Others = {o1}
    Addrs = {1, 2}
    NoMac = NoMac
    MaxDiscover = 2
    MaxRequest = 2
    OfferTime = 1
    DeclineTime = 1
    LeaseTime = 2
    Margin = 1
    MaxQueue = 2
    MaxStarts = 2
    MaxForeign = 1
    DhcpClock = 2
    DhcpUnusual = {}
INIT DhcpInit
NEXT DhcpNext
INVARIANT NoSharedAddress
SYMMETRY Symmetry
CHECK_DEADLOCK FALSE
