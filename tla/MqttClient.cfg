CONSTANTS
    Clients = {c1, c2}
    TlsClients = {c1}
    NoClient = NoClient
    MaxConnects = 4
    Impatient = {c2}
SPECIFICATION MqttSpec
INVARIANTS ClientsAreSeparate
PROPERTIES LossIsReported StrayHandlersEnd
CHECK_DEADLOCK FALSE
