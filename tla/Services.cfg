INIT ServicesInit
NEXT ServicesNext
INVARIANTS SecurityIsExact WifiIsExact Lwm2mIsServed BluetoothIsTold HeldForAnswers ClientsAreExact SystemIsKept DevicesAreOwned MessagesAreExact PeersAreServed
CHECK_DEADLOCK FALSE
CONSTANTS
    SecHandles = {h1, h2}  SecNames = {n1}  MaxChunks = 2  SecUnusual = {}
    Ssids = {"net", "network"}  Inside <- MCInside  MaxOpens = 2  MaxProfiles = 3
    LtThreads = {1, 2, 3}  LtUnusual = {}
    LlMaxSources = 4  LlUnusual = {}
    BtDevs = {d1, d2}  BtMaxSignals = 3  BtMaxRefs = 2  BtUnusual = {}
    GsMaxLen = 2  GsMaxObjects = 6  GsUnusual = {}
    FtMax = 3  FtMaxSessions = 2  FtMaxIn = 9  FtUnusual = {}
    BoOptions = {"o1", "o2"}  BoMax = 3  AdUsers = {u1, u2}  BoUnusual = {}
    PnDevs = {"d1", "d2"}  GnChars <- MCChars  AvPlayers <- MCPlayers  AvFolders <- MCFolders  AvMax = 6  RmUnusual = {}
    ClRequests = {r1, r2}  ClStreams = {s1, s2}  ClMaxSec = 2  ClUnusual = {}
    WcHeaders <- MCHeaders  WcBodies <- MCBodies  WcBufLen = 5  WcMaxHops = 1
    TwCallers = {a1, a2}  TwWatches = {w1, w2}  TwUnusual = {}
    PePins = {1, 2}  PePorts = {1}  PeChannels = {1}  PeAdcs = {0, 1}  PeChannelsRead = 2
    PeMaxFd = 6  PeFiles = 2  PeUnusual = {}
    BsSlaves <- MCSlaves  BsSpis <- MCSpis  BsRegs = 2  BsTexts <- MCBusTexts  BsUnusual = {}
    TgPins = {p1, p2}  TgThreads = {1, 2, 3, 4}  TgUnusual = {}
    TvArrays = {1, 2, 3}  TvCounts = {1, 2}  TvUnusual = {}
    TsHandles = {h1, h2}  TsMaxData = 3  TsWord = 8  TsSignatures <- MCSignatures  TsTexts = {"x", "y"}  TsUnusual = {}
    ZbDevices <- MCDevices  ZbHandles = {1}  ZbLargest = 2  ZbUnusual = {}
    CtPeers = {"p1", "p2"}  CtMaxIdle = 1  CtMaxIn = 2  CtMaxAssoc = 3  CtMsgs = {m1, m2}  CtUnusual = {}
    SkHandles = {"h1", "h2"}  SkMax = 2  SkUnusual = {}  MqClients = {"c1"}  MqMaxEvents = 3  MqUnusual = {}
    CkThreads = {t1, t2}  CkHours = 4  CkMonths <- MCMonths  CkMaxDay = 3  CkZones = {0, 3}  CkDates <- MCDates
    CkDelays = {2, 20}  CkStamps = {7, 13, 21, 35}  CkLast = 12  CkMaxTicks = 2  CkScale = 2  CkWord = 32  CkUnusual = {}
    NcConfigs <- MCConfigs  NcLeases <- MCLeases  NcPids = {1, 9, 19}  NcBytes = {0, 1, 3}  NcByte = 4  NcTimeouts = {0, 1, 3}  NcUnusual = {}
    CoTexts <- MCTexts  CoNumbers <- MCNumbers  CoByte = 4  CoMaxOptions = 2  CoUnusual = {}
    RqPaths = {"p1", "p2"}  RqUnusual = {}
    WkServers <- MCCoapServers  WkQueries <- MCQueries  WkShift = 1  WkMaxSzx = 4  WkChunk = 20  WkOverhead = 4
    CnUris <- MCUris  CnMaxPort = 65535  CnMax = 2  CnUnusual = {}
    RsPaths <- MCPaths  RsRequests <- MCRequests  RsSessions = {"s1"}  RsTokens = {"t1"}  RsMax = 2  RsUnusual = {}
    KyCerts <- MCCerts  KyKeys <- MCKeys  KyUnusual = {}
