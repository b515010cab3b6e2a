CONSTANTS
    Clients = {c1}
    Servers = {s1}
    Ids = {1, 2}
    Paths = {p1}
    MaxBlocks = 2
    Unusual = {}
SPECIFICATION Spec
INVARIANTS DriverAlive ContinuesItsRequest
PROPERTIES RequestReported ChangeNotified
CHECK_DEADLOCK FALSE
