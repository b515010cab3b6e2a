-------------------------- MODULE MCServicesProofs --------------------------
(***************************************************************************)
(* Proofs about MCServices, whose behaviours explore one service at a time: *)
(* what the services promise, from the invariants of each one.             *)
(*                                                                         *)
(* A step of the services is one of the service in focus (BaseFocus,       *)
(* BluetoothFocus, TizenRtFocus), and the others stay as they are, so that *)
(* the invariant of the one in focus is all that has to be kept.  The      *)
(* theorems assume what the ...Calm of their parts say of the constants: it *)
(* is what Services.cfg gives them.                                        *)
(***************************************************************************)
EXTENDS LinuxProofs, ServicesProofs, MCServices

-----------------------------------------------------------------------------
(* The services together.                                                  *)

\* A step of the services is one of the service in focus.
LEMMA BaseFocus ==
    ASSUME ServicesNext
    PROVE  /\ focus' = focus
           /\ focus = "security" => SecNext
           /\ focus = "wifi" => WifiNext
           /\ focus = "peripherals" => PeNext
           /\ focus = "buses" => BsNext /\ UNCHANGED pe_os
           /\ focus = "zigbee" => ZbNext
           /\ focus = "lwm2m_thread" => LtNext
           /\ focus = "lwm2m_loop" => LlNext
BY DEF ServicesNext, BaseNext, Lwm2mNext, BluetoothNext, BtLinkNext, BtObjectNext, BtRemoteNext,
       TizenRtNext, TransportNext, MessagesNext, pevars

LEMMA BluetoothFocus ==
    ASSUME ServicesNext
    PROVE  /\ focus' = focus
           /\ focus = "bluetooth" => BtNext
           /\ focus = "gatt" => GsNext
           /\ focus = "ftp" => FtNext
           /\ focus = "profiles" => BoNext
           /\ focus = "advertisements" => AdNext
           /\ focus = "pan" => PnNext
           /\ focus = "notify" => GnNext
           /\ focus = "avrcp" => AvNext
BY DEF ServicesNext, BaseNext, Lwm2mNext, BluetoothNext, BtLinkNext, BtObjectNext, BtRemoteNext,
       TizenRtNext, TransportNext, MessagesNext

LEMMA TizenRtFocus ==
    ASSUME ServicesNext
    PROVE  /\ focus' = focus
           /\ focus = "watch" => TwNext
           /\ focus = "gpio" => TgNext
           /\ focus = "tizenrt_wifi" => TvNext
           /\ focus = "see" => TsNext
           /\ focus = "dtls_server" => CtNext
           /\ focus = "coap_session" => CcNext
           /\ focus = "stream" => SkNext
           /\ focus = "mqtt" => MqNext
           /\ focus = "clock" => CkNext
           /\ focus = "network" => NcNext
BY DEF ServicesNext, BaseNext, Lwm2mNext, BluetoothNext, BtLinkNext, BtObjectNext, BtRemoteNext,
       TizenRtNext, TransportNext, MessagesNext

\* What is invariant of the parts of WifiIsExact.
WifiParts ==
    /\ focus = "wifi"         => WifiInv
    /\ focus = "tizenrt_wifi" => TvInv

LEMMA WifiPartsStep ==
    ASSUME TvCalm, WifiParts, [ServicesNext]_servicesvars
    PROVE  WifiParts'
<1>0. CASE ServicesNext
  <2>1. focus = "wifi" => WifiInv'
    BY <1>0, BaseFocus, TizenRtFocus, WifiSteps DEF WifiParts
  <2>2. focus = "tizenrt_wifi" => TvInv'
    BY <1>0, BaseFocus, TizenRtFocus, TvSteps DEF WifiParts
  <2> QED BY <1>0, <2>1, <2>2, BaseFocus, TizenRtFocus DEF WifiParts
<1>1. CASE UNCHANGED servicesvars
  <2>0. UNCHANGED <<focus, wifivars, tvvars>>
    BY <1>1 DEF servicesvars, BaseVars, TizenRtVars
  <2>1. focus = "wifi" => WifiInv'
    BY <2>0, WifiSteps DEF WifiParts
  <2>2. focus = "tizenrt_wifi" => TvInv'
    BY <2>0, TvSteps DEF WifiParts
  <2> QED BY <2>0, <2>1, <2>2 DEF WifiParts
<1> QED BY <1>0, <1>1

\* Wi-Fi: on Linux the connections to wpa_supplicant that are open are live and have a
\* reader; on TizenRT every array of scan results has one owner, the module or the
\* application (os_wifi_get_scan_result, _scan_result).
THEOREM WifiExact ==
    ASSUME TvCalm
    PROVE  ServicesSpec => []WifiIsExact
<1>1. ServicesInit => WifiParts
  BY WifiStarts, TvStarts DEF ServicesInit, WifiParts
<1>2. WifiParts /\ [ServicesNext]_servicesvars => WifiParts'
  BY WifiPartsStep
<1>3. WifiParts => WifiIsExact
  BY WifiGives DEF WifiParts, WifiIsExact, TvInv
<1> QED BY <1>1, <1>2, <1>3, PTL DEF ServicesSpec

\* What is invariant of the parts of Lwm2mIsServed.
Lwm2mParts ==
    /\ focus = "lwm2m_thread" => LtInv
    /\ focus = "lwm2m_loop"   => LlInv

LEMMA Lwm2mPartsStep ==
    ASSUME LtCalm, LlCalm, Lwm2mParts, [ServicesNext]_servicesvars
    PROVE  Lwm2mParts'
<1>0. CASE ServicesNext
  <2>1. focus = "lwm2m_thread" => LtInv'
    BY <1>0, BaseFocus, LtSteps DEF Lwm2mParts
  <2>2. focus = "lwm2m_loop" => LlInv'
    BY <1>0, BaseFocus, LlSteps DEF Lwm2mParts
  <2> QED BY <1>0, <2>1, <2>2, BaseFocus DEF Lwm2mParts
<1>1. CASE UNCHANGED servicesvars
  <2>0. UNCHANGED <<focus, ltvars, llvars>>
    BY <1>1 DEF servicesvars, Lwm2mVars
  <2>1. focus = "lwm2m_thread" => LtInv'
    BY <2>0, LtSteps DEF Lwm2mParts
  <2>2. focus = "lwm2m_loop" => LlInv'
    BY <2>0, LlSteps DEF Lwm2mParts
  <2> QED BY <2>0, <2>1, <2>2 DEF Lwm2mParts
<1> QED BY <1>0, <1>1

\* LWM2M: the thread on TizenRT, and the callbacks on Linux, that service a client use it
\* only while it exists, and go on as long as the client is connected.
THEOREM Lwm2mServed ==
    ASSUME LtCalm, LlCalm
    PROVE  ServicesSpec => []Lwm2mIsServed
<1>1. ServicesInit => Lwm2mParts
  BY LtStarts, LlStarts DEF ServicesInit, Lwm2mParts
<1>2. Lwm2mParts /\ [ServicesNext]_servicesvars => Lwm2mParts'
  BY Lwm2mPartsStep
<1>3. Lwm2mParts => Lwm2mIsServed
  BY LtGives DEF Lwm2mParts, Lwm2mIsServed, LlInv
<1> QED BY <1>1, <1>2, <1>3, PTL DEF ServicesSpec

\* What is invariant of the parts of SecurityIsExact.
SecurityParts ==
    /\ focus = "security" => DeviceServesHandles
    /\ focus = "see"      => TsInv

LEMMA SecurityPartsStep ==
    ASSUME SecCalm, TsCalm, SecurityParts, [ServicesNext]_servicesvars
    PROVE  SecurityParts'
<1>0. CASE ServicesNext
  <2>1. focus = "security" => DeviceServesHandles'
    BY <1>0, BaseFocus, TizenRtFocus, SecSteps DEF SecurityParts
  <2>2. focus = "see" => TsInv'
    BY <1>0, BaseFocus, TizenRtFocus, TsSteps DEF SecurityParts
  <2> QED BY <1>0, <2>1, <2>2, BaseFocus, TizenRtFocus DEF SecurityParts
<1>1. CASE UNCHANGED servicesvars
  <2>0. UNCHANGED <<focus, secvars, tsvars>>
    BY <1>1 DEF servicesvars, BaseVars, TizenRtVars
  <2>1. focus = "security" => DeviceServesHandles'
    BY <2>0, SecSteps DEF SecurityParts
  <2>2. focus = "see" => TsInv'
    BY <2>0, TsUnchanged DEF SecurityParts
  <2> QED BY <2>0, <2>1, <2>2 DEF SecurityParts
<1> QED BY <1>0, <1>1

\* Security: every handle has the device behind it, which is gone with the last one, and
\* what was stored is read (os_security_request, os_security_release, read_secure_storage).
THEOREM SecurityExact ==
    ASSUME SecCalm, TsCalm
    PROVE  ServicesSpec => []SecurityIsExact
<1>1. ServicesInit => SecurityParts
  BY SecStarts, TsStarts DEF ServicesInit, SecurityParts
<1>2. SecurityParts /\ [ServicesNext]_servicesvars => SecurityParts'
  BY SecurityPartsStep
<1>3. SecurityParts => SecurityIsExact
  BY TsGives DEF SecurityParts, SecurityIsExact
<1> QED BY <1>1, <1>2, <1>3, PTL DEF ServicesSpec

\* What is invariant of the parts of DevicesAreOwned.
DevicesParts ==
    /\ focus = "peripherals" => PeInv
    /\ focus = "buses"       => BsInv
    /\ focus = "gpio"        => TgInv
    /\ focus = "zigbee"      => ZbInv

LEMMA DevicesPartsStep ==
    ASSUME PeCalm, BsCalm, TgCalm, ZbCalm, DevicesParts, [ServicesNext]_servicesvars
    PROVE  DevicesParts'
<1>0. CASE ServicesNext
  <2>1. focus = "peripherals" => PeInv'
    BY <1>0, BaseFocus, TizenRtFocus, PeSteps DEF DevicesParts
  <2>2. focus = "buses" => BsInv'
    BY <1>0, BaseFocus, TizenRtFocus, BsSteps DEF DevicesParts
  <2>3. focus = "gpio" => TgInv'
    BY <1>0, BaseFocus, TizenRtFocus, TgSteps DEF DevicesParts
  <2>4. focus = "zigbee" => ZbInv'
    BY <1>0, BaseFocus, TizenRtFocus, ZbSteps DEF DevicesParts
  <2> QED BY <1>0, <2>1, <2>2, <2>3, <2>4, BaseFocus, TizenRtFocus DEF DevicesParts
<1>1. CASE UNCHANGED servicesvars
  <2>0. UNCHANGED <<focus, pevars, bsvars, pe_os, tgvars, zbvars>>
    BY <1>1 DEF servicesvars, BaseVars, pevars, TizenRtVars
  <2>1. focus = "peripherals" => PeInv'
    BY <2>0, PeSteps DEF DevicesParts
  <2>2. focus = "buses" => BsInv'
    BY <2>0, BsUnchanged DEF DevicesParts
  <2>3. focus = "gpio" => TgInv'
    BY <2>0, TgSteps DEF DevicesParts
  <2>4. focus = "zigbee" => ZbInv'
    BY <2>0, ZbSteps DEF DevicesParts
  <2> QED BY <2>0, <2>1, <2>2, <2>3, <2>4 DEF DevicesParts
<1> QED BY <1>0, <1>1

\* Peripherals and ZigBee: descriptors, watches and threads belong to handles that exist,
\* what goes over a bus is what the caller meant, and ZigBee's calls are those its local
\* endpoints can make.
THEOREM DevicesOwned ==
    ASSUME PeCalm, BsCalm, TgCalm, ZbCalm
    PROVE  ServicesSpec => []DevicesAreOwned
<1>1. ServicesInit => DevicesParts
  BY PeStarts, BsStarts, TgStarts, ZbStarts DEF ServicesInit, DevicesParts
<1>2. DevicesParts /\ [ServicesNext]_servicesvars => DevicesParts'
  BY DevicesPartsStep
<1>3. DevicesParts => DevicesAreOwned
  BY PeGives, BsGives DEF DevicesParts, DevicesAreOwned, TgInv, ZbInv
<1> QED BY <1>1, <1>2, <1>3, PTL DEF ServicesSpec

\* What is invariant of the parts of ClientsAreExact.
ClientsParts ==
    /\ focus = "watch"  => TwInv
    /\ focus = "stream" => SkInv
    /\ focus = "mqtt"   => MqInv

LEMMA ClientsPartsStep ==
    ASSUME TwCalm, SkCalm, MqCalm, ClientsParts, [ServicesNext]_servicesvars
    PROVE  ClientsParts'
<1>0. CASE ServicesNext
  <2>1. focus = "watch" => TwInv'
    BY <1>0, TizenRtFocus, TwSteps DEF ClientsParts
  <2>2. focus = "stream" => SkInv'
    BY <1>0, TizenRtFocus, SkSteps DEF ClientsParts
  <2>3. focus = "mqtt" => MqInv'
    BY <1>0, TizenRtFocus, MqSteps DEF ClientsParts
  <2> QED BY <1>0, <2>1, <2>2, <2>3, TizenRtFocus DEF ClientsParts
<1>1. CASE UNCHANGED servicesvars
  <2>0. UNCHANGED <<focus, twvars, skvars, mqvars>>
    BY <1>1 DEF servicesvars, TizenRtVars, TransportVars
  <2>1. focus = "watch" => TwInv'
    BY <2>0, TwSteps DEF ClientsParts
  <2>2. focus = "stream" => SkInv'
    BY <2>0, SkSteps DEF ClientsParts
  <2>3. focus = "mqtt" => MqInv'
    BY <2>0, MqSteps DEF ClientsParts
  <2> QED BY <2>0, <2>1, <2>2, <2>3 DEF ClientsParts
<1> QED BY <1>0, <1>1

\* TizenRT: watches of the online status are served while they exist, and the libraries
\* behind websocket and MQTT clients work for clients that exist and tell them how their
\* connections are.
THEOREM ClientsExact ==
    ASSUME TwCalm, SkCalm, MqCalm
    PROVE  ServicesSpec => []ClientsAreExact
<1>1. ServicesInit => ClientsParts
  BY TwStarts, SkStarts, MqStarts DEF ServicesInit, ClientsParts
<1>2. ClientsParts /\ [ServicesNext]_servicesvars => ClientsParts'
  BY ClientsPartsStep
<1>3. ClientsParts => ClientsAreExact
  BY TwGives, SkGives, MqGives DEF ClientsParts, ClientsAreExact
<1> QED BY <1>1, <1>2, <1>3, PTL DEF ServicesSpec

\* What is invariant of the parts of PeersAreServed.
PeersParts ==
    /\ focus = "dtls_server"  => CtInv
    /\ focus = "coap_session" => CcInv

LEMMA PeersPartsStep ==
    ASSUME CtCalm, PeersParts, [ServicesNext]_servicesvars
    PROVE  PeersParts'
<1>0. CASE ServicesNext
  <2>1. focus = "dtls_server" => CtInv'
    BY <1>0, TizenRtFocus, CtSteps DEF PeersParts
  <2>2. focus = "coap_session" => CcInv'
    BY <1>0, TizenRtFocus, CcSteps DEF PeersParts
  <2> QED BY <1>0, <2>1, <2>2, TizenRtFocus DEF PeersParts
<1>1. CASE UNCHANGED servicesvars
  <2>0. UNCHANGED <<focus, ctvars, ccvars>>
    BY <1>1 DEF servicesvars, TransportVars
  <2>1. focus = "dtls_server" => CtInv'
    BY <2>0, CtSteps DEF PeersParts
  <2>2. focus = "coap_session" => CcInv'
    BY <2>0, CcSteps DEF PeersParts
  <2> QED BY <2>0, <2>1, <2>2 DEF PeersParts
<1> QED BY <1>0, <1>1

\* CoAP on TizenRT: a server's sessions are the associations of its peers and
\* subscriptions, and what a client accepted was sent.
THEOREM PeersServed ==
    ASSUME CtCalm
    PROVE  ServicesSpec => []PeersAreServed
<1>1. ServicesInit => PeersParts
  BY CtStarts, CcStarts DEF ServicesInit, PeersParts
<1>2. PeersParts /\ [ServicesNext]_servicesvars => PeersParts'
  BY PeersPartsStep
<1>3. PeersParts => PeersAreServed
  BY CtGives, CcGives DEF PeersParts, PeersAreServed
<1> QED BY <1>1, <1>2, <1>3, PTL DEF ServicesSpec

\* What is invariant of the parts of SystemIsKept.
SystemParts ==
    /\ focus = "clock"   => CkInv
    /\ focus = "network" => NcInv

LEMMA SystemPartsStep ==
    ASSUME CkCalm, NcCalm, SystemParts, [ServicesNext]_servicesvars
    PROVE  SystemParts'
<1>0. CASE ServicesNext
  <2>1. focus = "clock" => CkInv'
    BY <1>0, TizenRtFocus, CkSteps DEF SystemParts
  <2>2. focus = "network" => NcInv'
    BY <1>0, TizenRtFocus, NcSteps DEF SystemParts
  <2> QED BY <1>0, <2>1, <2>2, TizenRtFocus DEF SystemParts
<1>1. CASE UNCHANGED servicesvars
  <2>0. UNCHANGED <<focus, ckvars, ncvars>>
    BY <1>1 DEF servicesvars, TransportVars
  <2>1. focus = "clock" => CkInv'
    BY <2>0, CkSteps DEF SystemParts
  <2>2. focus = "network" => NcInv'
    BY <2>0, NcSteps DEF SystemParts
  <2> QED BY <2>0, <2>1, <2>2 DEF SystemParts
<1> QED BY <1>0, <1>1

\* The system: a configuration of the network that was accepted is what is read, and its
\* DHCP servers and clients have their addresses; the clock is read and set in the caller's
\* zone, and alarms are called when their date is reached.
THEOREM SystemKept ==
    ASSUME CkCalm, NcCalm
    PROVE  ServicesSpec => []SystemIsKept
<1>1. ServicesInit => SystemParts
  BY CkStarts, NcStarts DEF ServicesInit, SystemParts
<1>2. SystemParts /\ [ServicesNext]_servicesvars => SystemParts'
  BY SystemPartsStep
<1>3. SystemParts => SystemIsKept
  BY NcGives DEF SystemParts, SystemIsKept, CkInv
<1> QED BY <1>1, <1>2, <1>3, PTL DEF ServicesSpec

\* What is invariant of the parts of BluetoothIsTold.
BluetoothParts ==
    /\ focus = "bluetooth"      => BtInv
    /\ focus = "gatt"           => GsInv
    /\ focus = "ftp"            => FtInv
    /\ focus = "profiles"       => BoInv
    /\ focus = "advertisements" => AdInv
    /\ focus = "pan"            => NetworkIsKnown
    /\ focus = "notify"         => GnInv
    /\ focus = "avrcp"          => AvInv

LEMMA BluetoothPartsStep ==
    ASSUME BtCalm, GsCalm, FtCalm, BoCalm, RmCalm, BluetoothParts, [ServicesNext]_servicesvars
    PROVE  BluetoothParts'
<1>0. CASE ServicesNext
  <2>1. focus = "bluetooth" => BtInv'
    BY <1>0, BluetoothFocus, BtSteps DEF BluetoothParts
  <2>2. focus = "gatt" => GsInv'
    BY <1>0, BluetoothFocus, GsSteps DEF BluetoothParts
  <2>3. focus = "ftp" => FtInv'
    BY <1>0, BluetoothFocus, FtSteps DEF BluetoothParts
  <2>4. focus = "profiles" => BoInv'
    BY <1>0, BluetoothFocus, BoSteps DEF BluetoothParts
  <2>5. focus = "advertisements" => AdInv'
    BY <1>0, BluetoothFocus, AdSteps DEF BluetoothParts
  <2>6. focus = "pan" => NetworkIsKnown'
    BY <1>0, BluetoothFocus, PnSteps DEF BluetoothParts
  <2>7. focus = "notify" => GnInv'
    BY <1>0, BluetoothFocus, GnSteps DEF BluetoothParts
  <2>8. focus = "avrcp" => AvInv'
    BY <1>0, BluetoothFocus, AvSteps DEF BluetoothParts
  <2> QED BY <1>0, <2>1, <2>2, <2>3, <2>4, <2>5, <2>6, <2>7, <2>8, BluetoothFocus DEF BluetoothParts
<1>1. CASE UNCHANGED servicesvars
  <2>0. UNCHANGED <<focus, btvars, gsvars, ftvars, bovars, advars, pnvars, gnvars, avvars>>
    BY <1>1 DEF servicesvars, BluetoothVars, BtLinkVars, BtObjectVars, BtRemoteVars
  <2>1. focus = "bluetooth" => BtInv'
    BY <2>0, BtUnchanged DEF BluetoothParts
  <2>2. focus = "gatt" => GsInv'
    BY <2>0, GsUnchanged DEF BluetoothParts
  <2>3. focus = "ftp" => FtInv'
    BY <2>0, FtUnchanged DEF BluetoothParts
  <2>4. focus = "profiles" => BoInv'
    BY <2>0, BoSteps DEF BluetoothParts
  <2>5. focus = "advertisements" => AdInv'
    BY <2>0, AdSteps DEF BluetoothParts
  <2>6. focus = "pan" => NetworkIsKnown'
    BY <2>0, PnSteps DEF BluetoothParts
  <2>7. focus = "notify" => GnInv'
    BY <2>0, GnSteps DEF BluetoothParts
  <2>8. focus = "avrcp" => AvInv'
    BY <2>0, AvSteps DEF BluetoothParts
  <2> QED BY <2>0, <2>1, <2>2, <2>3, <2>4, <2>5, <2>6, <2>7, <2>8 DEF BluetoothParts
<1> QED BY <1>0, <1>1

\* Bluetooth on Linux: once BlueZ has told everything, the application has heard the latest
\* state of every device; ids lead to the objects they were given for; the application
\* learns how every transfer ended; and what is registered, and what is kept of a device,
\* is what BlueZ has.
THEOREM BluetoothTold ==
    ASSUME BtCalm, GsCalm, FtCalm, BoCalm, RmCalm
    PROVE  ServicesSpec => []BluetoothIsTold
<1>1. ServicesInit => BluetoothParts
  BY BtStarts, GsStarts, FtStarts, BoStarts, AdStarts, PnStarts, GnStarts, AvStarts DEF ServicesInit, BluetoothParts
<1>2. BluetoothParts /\ [ServicesNext]_servicesvars => BluetoothParts'
  BY BluetoothPartsStep
<1>3. BluetoothParts => BluetoothIsTold
  BY BtGives, GsGives, FtGives, AdGives, GnGives, AvGives DEF BluetoothParts, BluetoothIsTold, BoInv
<1> QED BY <1>1, <1>2, <1>3, PTL DEF ServicesSpec
=============================================================================
