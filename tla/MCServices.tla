----------------------------- MODULE MCServices -----------------------------
(* The services of the SDK that share no state with each other: a behaviour *)
(* explores one of them, the others stay as they were initialised.          *)
EXTENDS Security, Wifi, Lwm2m, BtLink, GattServer, BtFtp, BtProfiles, BtRemote,
        Cloud, WebClient, TizenRtWatch, Peripherals, TizenRtWifi, TizenRtSecurity, Zigbee,
        CoapTransport, Clocks, TizenRtClients, NetConfig, CoapMessages, CoapConnect,
        CoapResources

VARIABLE focus   \* the part this behaviour is about

(* One of the names is part of the other, as strstr sees them.              *)
MCInside == {<<s, s>> : s \in Ssids} \cup {<<"net", "network">>}

(* What a server answers with: no header, one, or a redirection; bodies     *)
(* that are empty, or hold line ends and what looks like a status line.     *)
MCHeaders == {<<>>, <<"x", CR, NL>>, <<"loc", CR, NL, "x", CR, NL>>}
MCBodies == {<<>>, <<"b">>, <<CR, NL, "b">>, <<"b", "H", NL>>}

(* Characteristics of two devices, players, and a folder inside another.    *)
Char(d, u) == [dev |-> d, srv |-> "s1", uuid |-> u]
MCChars == {Char("d1", "u1"), Char("d1", "u2"), Char("d2", "u1")}
MCPlayers == <<"p1", "p2">>
MCFolders == [playlist |-> <<"song1", "folder">>, folder |-> <<"song2">>]

(* Two chip selects of one SPI bus, and another bus; slaves of I2C.         *)
Spi(b, cs, m) == [bus |-> b, cs |-> cs, mode |-> m, rate |-> m]
MCSpis == {Spi(1, 0, 1), Spi(1, 0, 2), Spi(1, 1, 2), Spi(2, 0, 1)}
MCSlaves == {[id |-> 1, address |-> "a"]}
MCBusTexts == {<<>>, <<7>>, <<5, 6>>}

(* A signature that is right, and others that differ from it in one field.  *)
Cert(issuer, subject, serial, signs) ==
    [issuer |-> issuer, subject |-> subject, serial |-> serial, key |-> serial, long |-> TRUE, signs |-> signs]
Ca == Cert("root", "ca", 1, FALSE)
Signer == Cert("ca", "signer", 2, TRUE)
Sibling == Cert("ca", "other", 3, TRUE)
Signature ==
    [certs |-> <<Ca, Signer>>, digests |-> <<"sha256">>, signer_alg |-> "sha256", enc |-> "ecdsa",
     attrs |-> <<"content", "time", "digest">>, issuer |-> "ca", serial |-> 2,
     digest |-> <<"x", "y">>, key |-> 2, time |-> 1, shape |-> TRUE]
MCChains == {<<Signer, Ca>>, <<Signer>>, <<>>, <<Ca>>, <<[Ca EXCEPT !.long = FALSE], Signer>>,
             <<Ca, [Signer EXCEPT !.signs = FALSE]>>, <<Ca, Sibling, Signer>>, <<Ca, Signer, Sibling>>}
MCDigests == {<<>>, <<"md2">>, <<"sha256", "sha1">>, <<"sha1">>}
MCAttributes == {<<"time", "digest">>, <<"digest", "content", "time", "digest">>,
                 <<"content", "time", "digest", "odd">>}
MCSignatures ==
    {Signature}
    \cup {[Signature EXCEPT !.certs = c] : c \in MCChains}
    \cup {[Signature EXCEPT !.digests = d] : d \in MCDigests}
    \cup {[Signature EXCEPT !.attrs = a] : a \in MCAttributes}
    \cup {[Signature EXCEPT !.digests = <<"sha1">>, !.signer_alg = "sha1"],
          [Signature EXCEPT !.enc = "rsa"], [Signature EXCEPT !.key = 3], [Signature EXCEPT !.shape = FALSE],
          [Signature EXCEPT !.time = 2], [Signature EXCEPT !.digest = <<>>]}

(* ZigBee devices: one that controls, one that is controlled, one of each.  *)
MCDevices ==
    [dimmer     |-> [server |-> {"basic", "identify"},
                     client |-> {"basic", "identify", "on_off", "level_control", "illuminance", "occupancy"}],
     light      |-> [server |-> {"groups", "on_off", "level_control", "color_control"}, client |-> {}],
     thermostat |-> [server |-> {"thermostat", "fan_control"}, client |-> {"temperature", "occupancy"}]]

(* Dates with an hour and days that do not exist, and one that is not in    *)
(* its month.                                                               *)
Date(m, d, h) == [month |-> m, day |-> d, hour |-> h]
MCMonths == <<0, 3, 5>>
MCDates == {Date(1, 1, 1), Date(1, 3, 3), Date(2, 1, 0), Date(2, 3, 2), Date(2, 2, 4), Date(2, 0, 1)}

(* Configurations that are right, with and without a second name server,    *)
(* and others with a wrong or a missing address.                            *)
Config(a, m, g, d, e) == [addr |-> a, mask |-> m, gw |-> g, dns |-> <<d, e>>, start |-> "s1"]
MCConfigs ==
    {Config("a1", "m1", "g1", "d1", "d2"), Config("a2", "m2", "g1", "d2", "d1"), Config("a1", "m2", "g2", "d1", ""),
     Config("a2", "m1", "g2", "bad", "d2"), Config("a2", "m1", "g2", "d3", "bad"),
     Config("a1", "bad", "g1", "d1", "d2"), Config("a1", "m1", "", "d1", "d2"),
     [Config("a2", "m2", "g1", "d1", "d2") EXCEPT !.start = "bad"]}
MCLeases == {[addr |-> "a3", mask |-> "m1", gw |-> "g1"], [addr |-> "a4", mask |-> "m2", gw |-> "g2"]}

(* Numbers of one to four bytes of two bits.                                *)
MCNumbers == {<<>>, <<3>>, <<1, 2>>, <<1, 2, 3>>, <<1, 0, 2, 3>>}
MCTexts == {<<"a">>, <<"b", "c">>}

(* Resources with and without attributes, whose link is cut by the blocks.  *)
R1 == [uri |-> <<"a">>, attrs |-> <<>>, observable |-> FALSE]
R2 == [uri |-> <<"a", "b">>, attrs |-> <<[name |-> <<"rt">>, value |-> <<"x", " ", "y", "z">>]>>,
       observable |-> FALSE]
R3 == [uri |-> <<"c">>, attrs |-> <<[name |-> <<"ct">>, value |-> <<"x">>],
                                    [name |-> <<"rt">>, value |-> <<>>]>>, observable |-> TRUE]
MCCoapServers == {<<>>, <<R1>>, <<R2>>, <<R3, R1>>, <<R1, R2>>, <<R1, R2, R3>>, <<R1, R1, R1, R1>>}
MCQueries ==
         [name : {<<"href">>}, pattern : {<<"a">>}, prefix : BOOLEAN]
    \cup [name : {<<"rt">>}, pattern : {<<"x">>, <<"y">>, <<"y", "z">>, <<"z", "a">>}, prefix : BOOLEAN]
    \cup [name : {<<"ct">>}, pattern : {<<"x">>}, prefix : {FALSE}]

(* The largest port and the one after it, with and without a host.          *)
MCUris == [secure : BOOLEAN, bracket : BOOLEAN, host : {<<>>, <<"h", "o">>},
           port : {<<>>, <<"9">>, <<"6", "5", "5", "3", "5">>, <<"6", "5", "5", "3", "6">>},
           path : {<<>>, <<"p", "/", "q">>}, query : {<<>>, <<"x">>}]

(* Paths with a dot in them, requests that share segments with them.        *)
MCPaths == {<<"a">>, <<"a", "/", "b">>, <<"a", "/", ".", "/", "c">>}
MCRequests == {<<<<"a">>>>, <<<<"a">>, <<"b">>>>, <<<<"a", "b">>>>, <<<<"c">>>>, <<<<"a">>, <<"c">>>>,
               WellKnown}

(* Points that hold the bytes of tags and of zero.                          *)
Points == {<<4, 1, 2, 3, 4>>, <<4, 0, 2, 0, 4>>, <<4, 1, 2, 3, 9>>, <<2, 1, 2>>}
LongPoints == {<<4, 1, 2, 3, 4, 5, 6>>}
MCCerts == [alg : {"ec"}, curve : {"p256"}, point : Points]
      \cup [alg : {"ec"}, curve : {"p384"}, point : LongPoints]
      \cup [alg : {"rsa"}, curve : {"none"}, point : {<<4>>, <<0, 4>>}]
MCKeys == [d : {<<1>>, <<0, 9, 4>>}, curve : {"p256"}, point : Points \cup {<<>>}]
     \cup [d : {<<4, 3>>}, curve : {"p384"}, point : LongPoints]

BaseVars == <<secvars, wifivars, clvars, pevars, bsvars, zbvars>>
Lwm2mVars == <<ltvars, llvars>>
BtLinkVars == <<btvars, gsvars>>
BtObjectVars == <<ftvars, bovars, advars>>
BtRemoteVars == <<pnvars, gnvars, avvars>>
BluetoothVars == <<BtLinkVars, BtObjectVars, BtRemoteVars>>
TizenRtVars == <<wcvars, twvars, tgvars, tvvars, tsvars, pvvars>>
TransportVars == <<ctvars, ccvars, skvars, mqvars, ckvars, ncvars>>

msgvars == <<covars, rqvars, wkvars, cnvars, rsvars, kyvars>>

(* The parts with inputs in their initial states are set only in focus.     *)
OptionsStart ==
    IF focus = "options" THEN CoInit
    ELSE /\ co_platform = "idle" /\ co_options = "idle" /\ co_observe = "idle"
         /\ co_asked = "idle"
         /\ co_packet = "idle" /\ co_reported = "idle" /\ co_phase = "idle"

WellKnownStart ==
    IF focus = "wellknown" THEN WkInit
    ELSE /\ wk_resources = "idle" /\ wk_query = "idle" /\ wk_answer = "idle" /\ wk_got = "idle"
         /\ wk_whole = "idle"

ConnectStart ==
    IF focus = "connect" THEN CnInit
    ELSE /\ cn_parts = "idle" /\ cn_cred = "idle" /\ cn_mem = "idle" /\ cn_connected = "idle"
         /\ cn_calls = "idle" /\ cn_sess = "idle" /\ cn_state = "idle" /\ cn_peer = "idle"
         /\ cn_made = "idle" /\ cn_live = "idle" /\ cn_fds = "idle" /\ cn_tls = "idle"
         /\ cn_result = "idle"

ResourcesStart ==
    IF focus = "resources" THEN RsInit
    ELSE /\ rs_platform = "idle" /\ rs_list = "idle" /\ rs_obs = "idle" /\ rs_twice = "idle"
         /\ rs_request = "idle" /\ rs_called = "idle" /\ rs_answer = "idle"

KeysStart ==
    IF focus = "keys" THEN KyInit
    ELSE /\ ky_platform = "idle" /\ ky_role = "idle" /\ ky_cert = "idle" /\ ky_key = "idle"
         /\ ky_result = "idle" /\ ky_keys = "idle" /\ ky_context = "idle"

Messages == {"options", "requests", "wellknown", "connect", "resources", "keys"}

MessagesInit == RqInit /\ OptionsStart /\ WellKnownStart /\ ConnectStart /\ ResourcesStart /\ KeysStart

MessagesNext ==
    \/ focus = "options"   /\ CoNext /\ UNCHANGED <<rqvars, wkvars, cnvars, rsvars, kyvars>>
    \/ focus = "requests"  /\ RqNext /\ UNCHANGED <<covars, wkvars, cnvars, rsvars, kyvars>>
    \/ focus = "wellknown" /\ WkNext /\ UNCHANGED <<covars, rqvars, cnvars, rsvars, kyvars>>
    \/ focus = "connect"   /\ CnNext /\ UNCHANGED <<covars, rqvars, wkvars, rsvars, kyvars>>
    \/ focus = "resources" /\ RsNext /\ UNCHANGED <<covars, rqvars, wkvars, cnvars, kyvars>>
    \/ focus = "keys"      /\ KyNext /\ UNCHANGED <<covars, rqvars, wkvars, cnvars, rsvars>>

ServicesInit ==
    /\ focus \in {"security", "wifi", "lwm2m_thread", "lwm2m_loop", "bluetooth", "gatt", "ftp",
                  "profiles", "advertisements", "pan", "notify", "avrcp", "cloud", "webclient",
                  "watch", "peripherals", "buses", "gpio", "tizenrt_wifi", "see", "pkcs7", "zigbee",
                  "dtls_server", "coap_session", "stream", "mqtt", "clock", "network"} \cup Messages
    /\ SecInit /\ WifiInit /\ LtInit /\ LlInit /\ BtInitState /\ GsInit /\ ClInit /\ WcInit
    /\ FtInit /\ BoInit /\ AdInit /\ PnInit /\ GnInit /\ AvInit
    /\ focus # "ftp" => ~ obexd_running
    /\ focus # "profiles" => bo_kind = "agent"
    /\ focus # "avrcp" => av_connected = {}
    /\ TwInit /\ PeInit /\ BsInit /\ TgInit /\ TvInit /\ TsInit /\ PvInit /\ ZbInit
    /\ CtInit /\ CcInit /\ SkInit /\ MqInit /\ CkInit /\ NcInit /\ MessagesInit
    /\ focus # "mqtt" => \A c \in MqClients : mq_config[c].tls = "none"
    /\ focus \notin {"peripherals", "buses"} => pe_os = "linux"
    /\ focus # "clock" => ck_os = "linux"
    /\ focus # "network" => nc_os = "linux"

BaseNext ==
    \/ focus = "security"    /\ SecNext  /\ UNCHANGED <<wifivars, clvars, pevars, bsvars, zbvars>>
    \/ focus = "wifi"        /\ WifiNext /\ UNCHANGED <<secvars, clvars, pevars, bsvars, zbvars>>
    \/ focus = "cloud"       /\ ClNext   /\ UNCHANGED <<secvars, wifivars, pevars, bsvars, zbvars>>
    \/ focus = "peripherals" /\ PeNext   /\ UNCHANGED <<secvars, wifivars, clvars, bsvars, zbvars>>
    \/ focus = "buses"       /\ BsNext   /\ UNCHANGED <<secvars, wifivars, clvars, pevars, zbvars>>
    \/ focus = "zigbee"      /\ ZbNext   /\ UNCHANGED <<secvars, wifivars, clvars, pevars, bsvars>>

Lwm2mNext ==
    \/ focus = "lwm2m_thread" /\ LtNext /\ UNCHANGED llvars
    \/ focus = "lwm2m_loop"   /\ LlNext /\ UNCHANGED ltvars

BtLinkNext ==
    \/ focus = "bluetooth" /\ BtNext /\ UNCHANGED gsvars
    \/ focus = "gatt"      /\ GsNext /\ UNCHANGED btvars

BtObjectNext ==
    \/ focus = "ftp"            /\ FtNext /\ UNCHANGED <<bovars, advars>>
    \/ focus = "profiles"       /\ BoNext /\ UNCHANGED <<ftvars, advars>>
    \/ focus = "advertisements" /\ AdNext /\ UNCHANGED <<ftvars, bovars>>

BtRemoteNext ==
    \/ focus = "pan"    /\ PnNext /\ UNCHANGED <<gnvars, avvars>>
    \/ focus = "notify" /\ GnNext /\ UNCHANGED <<pnvars, avvars>>
    \/ focus = "avrcp"  /\ AvNext /\ UNCHANGED <<pnvars, gnvars>>

BluetoothNext ==
    \/ BtLinkNext   /\ UNCHANGED <<BtObjectVars, BtRemoteVars>>
    \/ BtObjectNext /\ UNCHANGED <<BtLinkVars, BtRemoteVars>>
    \/ BtRemoteNext /\ UNCHANGED <<BtLinkVars, BtObjectVars>>

TizenRtNext ==
    \/ focus = "webclient"    /\ WcNext /\ UNCHANGED <<twvars, tgvars, tvvars, tsvars, pvvars>>
    \/ focus = "watch"        /\ TwNext /\ UNCHANGED <<wcvars, tgvars, tvvars, tsvars, pvvars>>
    \/ focus = "gpio"         /\ TgNext /\ UNCHANGED <<wcvars, twvars, tvvars, tsvars, pvvars>>
    \/ focus = "tizenrt_wifi" /\ TvNext /\ UNCHANGED <<wcvars, twvars, tgvars, tsvars, pvvars>>
    \/ focus = "see"          /\ TsNext /\ UNCHANGED <<wcvars, twvars, tgvars, tvvars, pvvars>>
    \/ focus = "pkcs7"        /\ PvNext /\ UNCHANGED <<wcvars, twvars, tgvars, tvvars, tsvars>>

TransportNext ==
    \/ focus = "dtls_server"  /\ CtNext /\ UNCHANGED <<ccvars, skvars, mqvars, ckvars, ncvars>>
    \/ focus = "coap_session" /\ CcNext /\ UNCHANGED <<ctvars, skvars, mqvars, ckvars, ncvars>>
    \/ focus = "stream"       /\ SkNext /\ UNCHANGED <<ctvars, ccvars, mqvars, ckvars, ncvars>>
    \/ focus = "mqtt"         /\ MqNext /\ UNCHANGED <<ctvars, ccvars, skvars, ckvars, ncvars>>
    \/ focus = "clock"        /\ CkNext /\ UNCHANGED <<ctvars, ccvars, skvars, mqvars, ncvars>>
    \/ focus = "network"      /\ NcNext /\ UNCHANGED <<ctvars, ccvars, skvars, mqvars, ckvars>>

ServicesNext ==
    /\ UNCHANGED focus
    /\ \/ BaseNext      /\ UNCHANGED <<Lwm2mVars, BluetoothVars, TizenRtVars, TransportVars, msgvars>>
       \/ Lwm2mNext     /\ UNCHANGED <<BaseVars, BluetoothVars, TizenRtVars, TransportVars, msgvars>>
       \/ BluetoothNext /\ UNCHANGED <<BaseVars, Lwm2mVars, TizenRtVars, TransportVars, msgvars>>
       \/ TizenRtNext   /\ UNCHANGED <<BaseVars, Lwm2mVars, BluetoothVars, TransportVars, msgvars>>
       \/ TransportNext /\ UNCHANGED <<BaseVars, Lwm2mVars, BluetoothVars, TizenRtVars, msgvars>>
       \/ MessagesNext  /\ UNCHANGED <<BaseVars, Lwm2mVars, BluetoothVars, TizenRtVars, TransportVars>>

servicesvars == <<focus, BaseVars, Lwm2mVars, BluetoothVars, TizenRtVars, TransportVars, msgvars>>

ServicesSpec == ServicesInit /\ [][ServicesNext]_servicesvars

-----------------------------------------------------------------------------
(* Each part's property is evaluated in the behaviours that explore it: in  *)
(* the others its variables keep the values of an initial state.            *)

(* Bluetooth on Linux: once BlueZ has told everything, the application has  *)
(* heard the latest state of every device; and the ids of services,         *)
(* characteristics and descriptors lead to the objects they were given for. *)
(* The application learns how every file transfer ended; agent, profiles    *)
(* and advertisements are what BlueZ has registered; and what is kept of a  *)
(* device's network, notifications and media items is what the device has.  *)
BluetoothIsTold ==
    /\ focus = "bluetooth"      => EventsConverge
    /\ focus = "gatt"           => PathsFollowIds
    /\ focus = "ftp"            => TransfersAreTold
    /\ focus = "profiles"       => ObjectsAreServed
    /\ focus = "advertisements" => AdvertisementsAreKept
    /\ focus = "pan"            => NetworkIsKnown
    /\ focus = "notify"         => NotificationsAreRouted
    /\ focus = "avrcp"          => ItemsAreCurrent

(* Wi-Fi on Linux and on TizenRT: the connections to wpa_supplicant that    *)
(* are open are live ones with a reader, and every array of results has one *)
(* owner, the module or the application.                                    *)
WifiIsExact ==
    /\ focus = "wifi"         => ControlIsLive
    /\ focus = "tizenrt_wifi" => ResultsHaveOneOwner

(* On TizenRT and on Linux, what services an LWM2M client, a thread or a    *)
(* periodic callback and its idle ones, uses it only while it exists, and   *)
(* goes on as long as the client is connected.                              *)
Lwm2mIsServed ==
    /\ focus = "lwm2m_thread" => ThreadOwnsClient
    /\ focus = "lwm2m_loop"   => ServiceEndsWithClient

(* On Linux and on TizenRT, descriptors, watches and threads of peripherals *)
(* belong to handles that exist, and none is left when its handle is gone;  *)
(* what goes over a bus is what the handle's caller meant; and ZigBee's     *)
(* calls are those its local endpoints can make.                            *)
DevicesAreOwned ==
    /\ focus = "peripherals" => HandlesOwnFiles
    /\ focus = "buses"       => TransfersAreExact
    /\ focus = "gpio"        => ThreadHasPin
    /\ focus = "zigbee"      => CallsMatchEndpoints

(* On Linux and on TizenRT, every handle has the device behind it, which is *)
(* gone with the last one, and what was stored is read.                     *)
SecurityIsExact ==
    /\ focus = "security" => DeviceServesHandles
    /\ focus = "see"      => DeviceIsShared

(* On TizenRT, watches of the online status are served while they exist,    *)
(* and the libraries behind websocket and MQTT clients work for clients     *)
(* that exist and tell them how their connections are.                      *)
ClientsAreExact ==
    /\ focus = "watch"  => WatchIsServed
    /\ focus = "stream" => StreamsAreServed
    /\ focus = "mqtt"   => ClientsAreServed

(* CoAP on TizenRT: a server's sessions are the associations of its peers   *)
(* and subscriptions, and what a client accepted was sent.                  *)
PeersAreServed ==
    /\ focus = "dtls_server"  => SessionsAreCurrent
    /\ focus = "coap_session" => AcceptedIsSent

(* CoAP: a client is connected to the host and port, and with the keys, its *)
(* URI and configuration name; a request reaches the callback of the        *)
(* resource with its path, and its answer the client; raw keys are those of *)
(* the certificate and key they are taken from.                             *)
PeersAreRight ==
    /\ focus = "connect"   => ConnectsAsAsked
    /\ focus = "resources" => RequestsReach
    /\ focus = "keys"      => KeysBelong

(* What is sent says what was meant, and what is received is taken for what *)
(* it says: the options added to a packet are those the other side reports, *)
(* a request continued for its next block names the resource it began with, *)
(* the blocks of /.well-known/core join to the listing of the resources the *)
(* query selects, the body of a response reaches the application whole, and *)
(* signatures are accepted exactly when they are right; echoes and DHCP     *)
(* options are understood, and dates become timestamps and dates again.     *)
MessagesAreExact ==
    /\ focus = "options"   => OptionsArrive
    /\ focus = "requests"  => TargetsKept
    /\ focus = "wellknown" => BlocksJoin
    /\ focus = "webclient" => BodyIsDelivered
    /\ focus = "pkcs7"     => SignaturesAreJudged
    /\ PeersAreRight
    /\ focus = "network"   => PacketsAreUnderstood
    /\ focus = "clock"     => ConversionsAreInverse

(* Interfaces, routes and name servers are as they were configured, and     *)
(* whoever started a DHCP server or client finds its address there; the     *)
(* clock is read and set in the caller's zone, and alarms are called in     *)
(* time.                                                                    *)
SystemIsKept ==
    /\ focus = "network" => ConfigIsExact /\ ServersAreAddressed
    /\ focus = "clock"   => ClockIsRight
=============================================================================
