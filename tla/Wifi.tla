-------------------------------- MODULE Wifi --------------------------------
(***************************************************************************)
(* Wi-Fi on Linux: the module's state (wifi/linux/linux_wifi.c), the       *)
(* commands (wifi.c) and the two control connections to wpa_supplicant     *)
(* with their events and callbacks (wpas/wpa_cli.c).                       *)
(*                                                                         *)
(* wpa_supplicant and hostapd are external: the first keeps the profiles   *)
(* of networks, is associated with one of them and sends events, the       *)
(* second turns the access point on and off.  A control connection is      *)
(* named by the number of the call that opened it.                         *)
(***************************************************************************)
EXTENDS Naturals, Sequences

CONSTANTS Ssids,        \* network names
          Inside,       \* pairs <<a, b>>: name a is a part of name b
          MaxOpens,     \* bound of the number of control connections
          MaxProfiles   \* bound of the number of profiles

ASSUME WifiAssumption ==
    /\ MaxOpens \in Nat
    /\ Inside \subseteq Ssids \X Ssids
    /\ \A a \in Ssids : <<a, a>> \in Inside
    /\ \A a, b, c \in Ssids : <<a, b>> \in Inside /\ <<b, c>> \in Inside
                                  => <<a, c>> \in Inside

NoSsid == "none"

VARIABLES wifi_initialized, wifi_connected, wifi_mode,
          ctrl_ifname,   \* a name is set: wifi_initialize was called
          opens,         \* number of control connections so far
          ctrl_conn,     \* wpa_cli.c: the connection for commands, 0 if NULL
          ctrl_copy,     \* wifi.c: its copy
          monitored,     \* wpa_cli.c: mon_conn is attached
          active_scan,
          callbacks,     \* the callbacks that are set
          idles,         \* idle callbacks of wpa_cli_force_connect_callback
          idle_cb_id,
          profiles,      \* wpa_supplicant: the name of each network
          associated,    \* wpa_supplicant: the network it is associated with
          access_point,  \* hostapd: on or off
          left,          \* history: since wifi.c took its copy, wpa_supplicant
                         \* ended or the application stopped without disconnecting
          stale_use      \* history: else a command went to a closed connection

wifivars == <<wifi_initialized, wifi_connected, wifi_mode, ctrl_ifname, opens,
              ctrl_conn, ctrl_copy, monitored, active_scan, callbacks, idles,
              idle_cb_id, profiles, associated, access_point, left, stale_use>>

WifiTypeOK ==
    /\ wifi_initialized \in BOOLEAN /\ wifi_connected \in BOOLEAN
    /\ wifi_mode \in {"none", "station", "ap"}
    /\ ctrl_ifname \in BOOLEAN
    /\ opens \in 0 .. MaxOpens
    /\ ctrl_conn \in 0 .. opens /\ ctrl_copy \in 0 .. opens
    /\ monitored \in BOOLEAN /\ active_scan \in BOOLEAN
    /\ callbacks \subseteq {"scan", "connect"}
    /\ idles \subseteq {1, 2} /\ idle_cb_id \in 0 .. 2
    /\ profiles \in Seq(Ssids)
    /\ associated \in Ssids \cup {NoSsid}
    /\ access_point \in BOOLEAN /\ left \in BOOLEAN /\ stale_use \in BOOLEAN

WifiInit ==
    /\ wifi_initialized = FALSE /\ wifi_connected = FALSE /\ wifi_mode = "none"
    /\ ctrl_ifname = FALSE
    /\ opens = 0 /\ ctrl_conn = 0 /\ ctrl_copy = 0
    /\ monitored = FALSE /\ active_scan = FALSE
    /\ callbacks = {}
    /\ idles = {} /\ idle_cb_id = 0
    /\ profiles = <<>> /\ associated = NoSsid
    /\ access_point = FALSE /\ left = FALSE /\ stale_use = FALSE

-----------------------------------------------------------------------------
(* The connection *)

Supplicant == <<profiles, associated, access_point>>

\* wpa_cli_open_connection: both connections, or the one for commands only, or
\* none (the monitor could not be attached, or nothing could be opened).
OpenConnection(result) ==
    /\ opens < MaxOpens
    /\ opens' = opens + 1
    /\ ctrl_conn' = IF result = "none" THEN 0 ELSE opens + 1
    /\ monitored' = (result = "both")

CloseConnection == ctrl_conn' = 0 /\ monitored' = FALSE

MutTakeControl == ctrl_copy' = IF ctrl_copy = 0 THEN ctrl_conn' ELSE ctrl_copy

\* wifi_initialize copies what get_ctrl returns.
TakeControl == ctrl_copy' = ctrl_conn'

\* _wifi_send_cmd: the copy is used whether or not it is still open.
SendCmd == /\ stale_use' = (stale_use \/ (~left /\ ctrl_copy # 0 /\ ctrl_copy # ctrl_conn))
           /\ UNCHANGED left

\* The socket of a closed connection refuses the command.
Answered == ctrl_copy # 0 /\ ctrl_copy = ctrl_conn

-----------------------------------------------------------------------------
(* Calls of the application *)

\* wifi_initialize keeps the name of the interface when it fails: the next call
\* finds it and fails too.
WifiStart(mode, result) ==
    /\ ~wifi_initialized
    /\ IF mode = "ap"
       THEN /\ wifi_initialized' = TRUE /\ wifi_mode' = "ap"
            /\ UNCHANGED <<ctrl_ifname, opens, ctrl_conn, monitored, ctrl_copy,
                           active_scan, left>>
       ELSE /\ ~ctrl_ifname
            /\ ctrl_ifname' = TRUE
            /\ OpenConnection(result)
            /\ IF result = "none"
               THEN UNCHANGED <<ctrl_copy, active_scan, left, wifi_initialized,
                                wifi_mode>>
               ELSE /\ TakeControl
                    /\ active_scan' = FALSE /\ left' = FALSE
                    /\ wifi_initialized' = TRUE /\ wifi_mode' = "station"
    /\ UNCHANGED <<wifi_connected, callbacks, idles, idle_cb_id, Supplicant, stale_use>>

\* wifi_connected, the callbacks and wifi.c's copy of the connection stay.
WifiStop ==
    /\ wifi_initialized
    /\ wifi_initialized' = FALSE /\ wifi_mode' = "none"
    /\ IF wifi_mode # "ap"
       THEN ctrl_ifname' = FALSE /\ CloseConnection
       ELSE UNCHANGED <<ctrl_ifname, ctrl_conn, monitored>>
    /\ left' = (left \/ wifi_connected)
    /\ UNCHANGED <<wifi_connected, opens, ctrl_copy, active_scan, callbacks, idles,
                   idle_cb_id, Supplicant, stale_use>>

WifiScanRequest(accepted) ==
    /\ wifi_mode = "station"
    /\ SendCmd
    /\ active_scan' = (active_scan \/ (Answered /\ accepted))
    /\ UNCHANGED <<wifi_initialized, wifi_connected, wifi_mode, ctrl_ifname, opens,
                   ctrl_conn, ctrl_copy, monitored, callbacks, idles, idle_cb_id,
                   Supplicant>>

\* get_scan_result and get_info ask and change nothing.
WifiQuery ==
    /\ wifi_mode = "station"
    /\ SendCmd
    /\ UNCHANGED <<wifi_initialized, wifi_connected, wifi_mode, ctrl_ifname, opens,
                   ctrl_conn, ctrl_copy, monitored, active_scan, callbacks, idles,
                   idle_cb_id, Supplicant>>

\* wpa_cli_force_connect_callback: the id of an earlier callback is overwritten.
ForceConnectCallback ==
    IF "connect" \in callbacks
    THEN /\ \E i \in {1, 2} \ idles : idles' = idles \cup {i} /\ idle_cb_id' = i
    ELSE UNCHANGED <<idles, idle_cb_id>>

MutConfigured(s) ==
    LET equal == {i \in DOMAIN profiles : profiles[i] = s}
        later == {i \in DOMAIN profiles : <<s, profiles[i]>> \in Inside}
        k == IF equal # {} \/ later = {} THEN 0
             ELSE CHOOSE i \in later : \A j \in later : i <= j
    IN  IF k = 0 THEN Append(profiles, s) ELSE [profiles EXCEPT ![k] = s]

\* wifi_connect takes the first line of the list of networks in which the name
\* occurs, and otherwise adds a network; then it sets the name.
Configured(s) ==
    LET hits == {i \in DOMAIN profiles : <<s, profiles[i]>> \in Inside}
    IN  IF hits = {} THEN Append(profiles, s)
        ELSE [profiles EXCEPT ![CHOOSE i \in hits : \A j \in hits : i <= j] = s]

\* done: every command was acknowledged; otherwise the network may have been
\* added or set when a later one fails.
WifiConnect(s, done) ==
    /\ wifi_mode = "station"
    /\ SendCmd
    /\ IF ~Answered
       THEN UNCHANGED <<wifi_connected, idles, idle_cb_id, profiles>>
       ELSE IF associated = s
       THEN /\ wifi_connected' = TRUE
            /\ ForceConnectCallback
            /\ UNCHANGED profiles
       ELSE /\ Len(Configured(s)) <= MaxProfiles
            /\ profiles' = Configured(s)
            /\ wifi_connected' = (wifi_connected \/ done)
            /\ UNCHANGED <<idles, idle_cb_id>>
    /\ UNCHANGED <<wifi_initialized, wifi_mode, ctrl_ifname, opens, ctrl_conn,
                   ctrl_copy, monitored, active_scan, callbacks, associated,
                   access_point>>

\* The mode is reset too: after that only deinit is accepted.
WifiDisconnect ==
    /\ wifi_connected
    /\ SendCmd
    /\ IF Answered
       THEN wifi_connected' = FALSE /\ wifi_mode' = "none"
       ELSE UNCHANGED <<wifi_connected, wifi_mode>>
    /\ UNCHANGED <<wifi_initialized, ctrl_ifname, opens, ctrl_conn, ctrl_copy,
                   monitored, active_scan, callbacks, idles, idle_cb_id, Supplicant>>

\* Over a connection of its own: the point is disabled, set up and enabled; a
\* command that fails ends the call.
WifiStartAp(disabled, enabled) ==
    /\ wifi_mode = "ap"
    /\ enabled => disabled
    /\ access_point' = IF disabled THEN enabled ELSE access_point
    /\ UNCHANGED <<wifi_initialized, wifi_connected, wifi_mode, ctrl_ifname, opens,
                   ctrl_conn, ctrl_copy, monitored, active_scan, callbacks, idles,
                   idle_cb_id, profiles, associated, left, stale_use>>

WifiSetCallback(c) ==
    /\ \/ callbacks' = callbacks \cup {c}
       \/ callbacks' = callbacks \ {c}
    /\ UNCHANGED <<wifi_initialized, wifi_connected, wifi_mode, ctrl_ifname, opens,
                   ctrl_conn, ctrl_copy, monitored, active_scan, idles, idle_cb_id,
                   Supplicant, left, stale_use>>

-----------------------------------------------------------------------------
(* Events *)

\* check_event: results of a scan are reported if one is active, whoever asked.
ScanResults ==
    /\ monitored
    /\ active_scan' = FALSE
    /\ UNCHANGED <<wifi_initialized, wifi_connected, wifi_mode, ctrl_ifname, opens,
                   ctrl_conn, ctrl_copy, monitored, callbacks, idles, idle_cb_id,
                   Supplicant, left, stale_use>>

\* CONNECTED and DISCONNECTED only reach the callback: wifi_connected says what
\* the application asked for.
LinkEvent ==
    /\ \E i \in DOMAIN profiles \cup {0} :
          associated' = IF i = 0 THEN NoSsid ELSE profiles[i]
    /\ UNCHANGED <<wifi_initialized, wifi_connected, wifi_mode, ctrl_ifname, opens,
                   ctrl_conn, ctrl_copy, monitored, active_scan, callbacks, idles,
                   idle_cb_id, profiles, access_point, left, stale_use>>

\* wpa_supplicant says that it terminates (check_terminating).
Terminating ==
    /\ monitored /\ left' = TRUE
    /\ CloseConnection
    /\ associated' = NoSsid
    /\ UNCHANGED <<wifi_initialized, wifi_connected, wifi_mode, ctrl_ifname, opens,
                   ctrl_copy, active_scan, callbacks, idles, idle_cb_id, profiles,
                   access_point, stale_use>>

\* The monitor fails: wpa_cli_reconnect.
Reconnect(result) ==
    /\ monitored /\ left' = TRUE
    /\ OpenConnection(result)
    /\ UNCHANGED <<wifi_initialized, wifi_connected, wifi_mode, ctrl_ifname,
                   ctrl_copy, active_scan, callbacks, idles, idle_cb_id,
                   Supplicant, stale_use>>

\* on_connect_force_callback removes idle_cb_id, and itself by its result.
ForcedCallback(i) ==
    /\ i \in idles
    /\ idles' = IF "connect" \in callbacks THEN idles \ {i, idle_cb_id} ELSE idles \ {i}
    /\ UNCHANGED <<wifi_initialized, wifi_connected, wifi_mode, ctrl_ifname, opens,
                   ctrl_conn, ctrl_copy, monitored, active_scan, callbacks,
                   idle_cb_id, Supplicant, left, stale_use>>

-----------------------------------------------------------------------------

WifiNext ==
    \/ \E result \in {"both", "mute", "none"} :
          \/ \E mode \in {"station", "ap"} : WifiStart(mode, result)
          \/ Reconnect(result)
    \/ WifiStop \/ WifiQuery \/ WifiDisconnect
    \/ \E b \in BOOLEAN : \/ WifiScanRequest(b)
                          \/ \E s \in Ssids : WifiConnect(s, b)
                          \/ \E e \in BOOLEAN : WifiStartAp(b, e)
    \/ \E c \in {"scan", "connect"} : WifiSetCallback(c)
    \/ ScanResults \/ LinkEvent \/ Terminating
    \/ \E i \in {1, 2} : ForcedCallback(i)

\* While the module takes commands, wifi.c's copy is the open connection, and no
\* command goes to one that was closed, except after the end of wpa_supplicant or
\* of an application that did not disconnect; the next initialization as a station
\* repairs that.  And though the search by substring reuses a profile whose name
\* merely contains the new one, no network has two profiles.
ControlIsLive ==
    /\ WifiTypeOK
    /\ ~stale_use
    /\ ~left /\ (wifi_mode = "station" \/ wifi_connected) => Answered
    /\ \A i, j \in DOMAIN profiles : profiles[i] = profiles[j] => i = j
=============================================================================
