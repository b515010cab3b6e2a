----------------------------- MODULE BtProfiles -----------------------------
(***************************************************************************)
(* Objects that this process exports on D-Bus and registers with BlueZ:    *)
(* the pairing agent, the serial port profile, the A2DP endpoint           *)
(* (bluetooth/linux/agent.c, spp.c, a2dp.c), and advertisements            *)
(* (advertisement.c).                                                      *)
(*                                                                         *)
(* BlueZ and GDBus are external: a path is exported once, BlueZ accepts a  *)
(* registration once, and calls what is registered.  bo_kind is which of   *)
(* the three objects a behaviour is about; their files differ in the order *)
(* of export and registration.  Options, capabilities and the like are one *)
(* value out of BoOptions.                                                 *)
(***************************************************************************)
EXTENDS Naturals, Sequences, FiniteSets, SequencesExt

CONSTANTS BoOptions,      \* options of a registration
          BoMax,          \* bound of the number of exports
          AdUsers,        \* advertisements of the application
          BoUnusual       \* "refused": BlueZ refuses to register an agent or an advertisement,
                          \* "other": an endpoint is registered with other options after a failure,
                          \* "twice": an agent is registered twice,
                          \* "restart": BlueZ forgets what is registered,
                          \* "early": BlueZ calls what is not exported yet,
                          \* "silent": an endpoint without callbacks,
                          \* "stale": a transport is acquired after it was cleared,
                          \* "several": two advertisements at a time

NoOption == "none"

ASSUME BoAssumption == BoMax \in Nat /\ NoOption \notin BoOptions

VARIABLES bo_kind,
          bo_exported,    \* GDBus: the id of the object at the path, 0 if none
          bo_last,        \* GDBus: the latest id
          bo_id,          \* registration_id
          bo_node,        \* _introspection_data
          bo_nodes,       \* introspection data that were not freed
          bo_endpoint,    \* a2dp.c: options of _endpoint, NoOption for NULL
          bo_half,        \* registered and not exported yet
          bo_bluez,       \* BlueZ: the options it has
          bo_app,         \* the options the application believes registered
          bo_callback,    \* the application has set its callbacks
          bo_open,        \* calls of BlueZ without an answer
          bo_handed,      \* those whose handle the application holds
          bo_fault,       \* "none", "freed": data freed twice, "lost": a call found no
                          \* object, "null": an error's missing result was read
          bo_transport,   \* _endpoint->transport_path, 0 for NULL
          a2dp_path,      \* core.c: the transport the signals tell of, 0 if empty
          bo_live,        \* BlueZ: the transport of the endpoint, 0 if none
          bo_made,        \* BlueZ: how many transports there were
          bo_signals      \* signals of transports that were not handled yet

bovars == <<bo_kind, bo_exported, bo_last, bo_id, bo_node, bo_nodes, bo_endpoint, bo_half,
            bo_bluez, bo_app, bo_callback, bo_open, bo_handed, bo_fault,
            bo_transport, a2dp_path, bo_live, bo_made, bo_signals>>

BoTransports == <<bo_transport, a2dp_path, bo_live, bo_made, bo_signals>>
BoExports == <<bo_exported, bo_last, bo_id, bo_node, bo_nodes>>
BoRequests == <<bo_callback, bo_open, bo_handed>>

BoInit ==
    /\ bo_kind \in {"agent", "spp", "a2dp"}
    /\ bo_exported = 0 /\ bo_last = 0 /\ bo_id = 0 /\ bo_node = 0 /\ bo_nodes = {}
    /\ bo_endpoint = NoOption /\ bo_half = FALSE /\ bo_bluez = NoOption /\ bo_app = NoOption
    /\ bo_callback = FALSE /\ bo_open = {} /\ bo_handed = {} /\ bo_fault = "none"
    /\ bo_transport = 0 /\ a2dp_path = 0 /\ bo_live = 0 /\ bo_made = 0 /\ bo_signals = <<>>

(* New introspection data, and an object with them: with the path in use    *)
(* the id becomes 0.                                                        *)
RegisterObject ==
    /\ bo_last < BoMax
    /\ bo_last' = bo_last + 1
    /\ bo_node' = bo_last + 1 /\ bo_nodes' = bo_nodes \cup {bo_last + 1}
    /\ bo_id' = IF bo_exported = 0 THEN bo_last + 1 ELSE 0
    /\ bo_exported' = IF bo_exported = 0 THEN bo_last + 1 ELSE bo_exported

(* The id is left as it is; freeing data twice is a fault.                  *)
UnregisterObject ==
    /\ bo_exported' = IF bo_id = bo_exported THEN 0 ELSE bo_exported
    /\ bo_nodes' = bo_nodes \ {bo_node}
    /\ bo_fault' = IF bo_node \in bo_nodes THEN bo_fault ELSE "freed"
    /\ UNCHANGED <<bo_last, bo_id, bo_node>>

-----------------------------------------------------------------------------
(* The agent: the object first, then BlueZ.                                 *)
bt_agent_register_capability(o, refused) ==
    LET registers == bo_exported = 0 /\ bo_bluez = NoOption /\ ~ refused IN
    /\ bo_kind = "agent"
    /\ "twice" \in BoUnusual \/ bo_exported = 0
    /\ "refused" \in BoUnusual \/ ~ refused
    /\ RegisterObject
    /\ bo_bluez' = IF registers THEN o ELSE bo_bluez
    /\ bo_app' = IF registers THEN o ELSE bo_app
    /\ UNCHANGED <<bo_kind, bo_endpoint, bo_half, BoRequests, bo_fault, BoTransports>>

bt_agent_unregister ==
    /\ bo_kind = "agent"
    /\ bo_bluez # NoOption
    /\ UnregisterObject
    /\ bo_bluez' = NoOption /\ bo_app' = NoOption
    /\ UNCHANGED <<bo_kind, bo_endpoint, bo_half, BoRequests, BoTransports>>

(* Profile and endpoint: BlueZ first, then the object.                      *)
bt_spp_register_profile(o) ==
    /\ bo_kind = "spp" /\ ~ bo_half
    /\ bo_bluez = NoOption
    /\ bo_bluez' = o /\ bo_half' = TRUE
    /\ UNCHANGED <<bo_kind, BoExports, bo_endpoint, bo_app, BoRequests, bo_fault, BoTransports>>

(* An endpoint that is there is kept, whatever the options.                 *)
bt_a2dp_source_create(o) == IF bo_endpoint = NoOption THEN o ELSE bo_endpoint

bt_a2dp_source_register(o, refused) ==
    LET registers == bo_bluez = NoOption /\ ~ refused IN
    /\ bo_kind = "a2dp" /\ ~ bo_half
    /\ "other" \in BoUnusual \/ bo_endpoint \in {NoOption, o}
    /\ bo_endpoint' = bt_a2dp_source_create(o)
    /\ bo_bluez' = IF registers THEN bt_a2dp_source_create(o) ELSE bo_bluez
    /\ bo_app' = IF registers THEN o ELSE bo_app
    /\ bo_half' = registers
    /\ UNCHANGED <<bo_kind, BoExports, BoRequests, bo_fault, BoTransports>>

_register_spp_object ==
    /\ bo_kind = "spp" /\ bo_half
    /\ RegisterObject
    /\ bo_half' = FALSE
    /\ bo_app' = IF bo_exported = 0 THEN bo_bluez ELSE bo_app
    /\ UNCHANGED <<bo_kind, bo_endpoint, bo_bluez, BoRequests, bo_fault, BoTransports>>

_register_a2dp_object ==
    /\ bo_kind = "a2dp" /\ bo_half
    /\ RegisterObject
    /\ bo_half' = FALSE
    /\ bo_app' = IF bo_exported = 0 THEN bo_app ELSE NoOption
    /\ UNCHANGED <<bo_kind, bo_endpoint, bo_bluez, BoRequests, bo_fault, BoTransports>>

bt_spp_unregister_profile ==
    /\ bo_kind = "spp" /\ ~ bo_half
    /\ bo_bluez # NoOption
    /\ UnregisterObject
    /\ bo_bluez' = NoOption /\ bo_app' = NoOption
    /\ UNCHANGED <<bo_kind, bo_endpoint, bo_half, BoRequests, BoTransports>>

(* BlueZ: the transport goes, and a signal tells.                           *)
TransportGoes ==
    /\ bo_live' = 0
    /\ bo_signals' = IF bo_live = 0 THEN bo_signals ELSE Append(bo_signals, 0)

UnsetTransport == bo_transport' = 0 /\ TransportGoes

(* The object stays exported.                                               *)
MutSourceUnregister ==
    /\ bo_kind = "a2dp" /\ ~ bo_half
    /\ bo_bluez # NoOption
    /\ bo_bluez' = NoOption /\ bo_app' = NoOption
    /\ bo_endpoint' = NoOption /\ bo_callback' = FALSE
    /\ UNCHANGED <<bo_kind, BoExports, bo_half, bo_open, bo_handed, bo_fault, a2dp_path, bo_made>>
    /\ UnsetTransport

(* The endpoint goes with its callbacks.                                    *)
bt_a2dp_source_unregister ==
    /\ bo_kind = "a2dp" /\ ~ bo_half
    /\ bo_bluez # NoOption
    /\ UnregisterObject
    /\ bo_bluez' = NoOption /\ bo_app' = NoOption
    /\ bo_endpoint' = NoOption /\ bo_callback' = FALSE
    /\ UNCHANGED <<bo_kind, bo_half, bo_open, bo_handed, a2dp_path, bo_made>>
    /\ UnsetTransport

-----------------------------------------------------------------------------
(* Calls of BlueZ.  The endpoint's callbacks need the endpoint.             *)

bt_a2dp_source_set_callback ==
    /\ ~ bo_callback
    /\ bo_kind = "a2dp" => bo_endpoint # NoOption
    /\ bo_callback' = TRUE
    /\ UNCHANGED <<bo_kind, BoExports, bo_endpoint, bo_half, bo_bluez, bo_app, bo_open, bo_handed, bo_fault, BoTransports>>

(* The defaults answer at once.                                             *)
default_request == UNCHANGED <<bo_open, bo_handed>>

(* Requests of pin code, passkey, confirmation and authorization are handed *)
(* to the application, or answered by the defaults.                         *)
_agent_callback(c) ==
    IF bo_callback
    THEN bo_open' = bo_open \cup {c} /\ bo_handed' = bo_handed \cup {c}
    ELSE default_request

(* The profile answers every call after the application's callback.         *)
_handle_method_call == UNCHANGED <<bo_open, bo_handed>>

(* A selection is answered with what the callback returns, or not at all.   *)
_handle_select_configuration(c) ==
    /\ bo_open' = IF bo_callback THEN bo_open ELSE bo_open \cup {c}
    /\ UNCHANGED bo_handed

handle_method_call(c) ==
    \/ bo_kind = "agent" /\ _agent_callback(c)
    \/ bo_kind = "spp"   /\ _handle_method_call
    \/ bo_kind = "a2dp"  /\ _handle_select_configuration(c)

BluezCalls(c) ==
    /\ bo_bluez # NoOption /\ c \notin bo_open
    /\ "early" \in BoUnusual \/ ~ bo_half
    /\ "silent" \in BoUnusual \/ bo_kind # "a2dp" \/ bo_callback
    /\ IF bo_exported # 0 THEN handle_method_call(c) /\ UNCHANGED bo_fault
       ELSE bo_fault' = "lost" /\ UNCHANGED <<bo_open, bo_handed>>
    /\ UNCHANGED <<bo_kind, BoExports, bo_endpoint, bo_half, bo_bluez, bo_app, bo_callback, BoTransports>>

(* A pin code, a passkey, an error or an empty answer.                      *)
send_response(c) ==
    /\ c \in bo_handed
    /\ bo_handed' = bo_handed \ {c} /\ bo_open' = bo_open \ {c}
    /\ UNCHANGED <<bo_kind, BoExports, bo_endpoint, bo_half, bo_bluez, bo_app, bo_callback, bo_fault, BoTransports>>

BluezRestarts ==
    /\ ~ bo_half /\ bo_live = 0
    /\ "restart" \in BoUnusual \/ bo_bluez = NoOption
    /\ bo_bluez' = NoOption
    /\ UNCHANGED <<bo_kind, BoExports, bo_endpoint, bo_half, bo_app, BoRequests, bo_fault, BoTransports>>

-----------------------------------------------------------------------------
(* The endpoint's transport.                                                *)

TransportStep == UNCHANGED <<bo_kind, BoExports, bo_endpoint, bo_half, bo_bluez, bo_app, BoRequests>>

(* A device connects: BlueZ makes a transport and hands it to the endpoint. *)
_handle_set_configuration ==
    /\ bo_kind = "a2dp" /\ bo_bluez # NoOption /\ ~ bo_half /\ bo_exported # 0
    /\ bo_live = 0 /\ bo_made < BoMax
    /\ bo_made' = bo_made + 1 /\ bo_live' = bo_made + 1
    /\ bo_transport' = bo_made + 1
    /\ bo_signals' = Append(bo_signals, bo_made + 1)
    /\ TransportStep /\ UNCHANGED <<a2dp_path, bo_fault>>

(* The path is kept.                                                        *)
_handle_clear_configuration ==
    /\ bo_live # 0
    /\ TransportGoes
    /\ TransportStep /\ UNCHANGED <<bo_transport, a2dp_path, bo_made, bo_fault>>

(* Signals that a transport was added, or removed (0).                      *)
TransportSignal ==
    /\ bo_signals # <<>>
    /\ a2dp_path' = Head(bo_signals) /\ bo_signals' = Tail(bo_signals)
    /\ TransportStep /\ UNCHANGED <<bo_transport, bo_live, bo_made, bo_fault>>

(* The state is read from the transport that is kept; that BlueZ has none   *)
(* such is logged, and the result that is missing is read.                  *)
bt_a2dp_source_acquire ==
    /\ bo_endpoint # NoOption /\ bo_transport # 0
    /\ "stale" \in BoUnusual \/ bo_transport = bo_live
    /\ bo_fault' = IF bo_transport = bo_live THEN bo_fault ELSE "null"
    /\ TransportStep /\ UNCHANGED BoTransports

(* The state of the transport is asked for under the path of the signals,   *)
(* or, if that is empty, under the one BlueZ lists.                         *)
_get_media_transport_path ==
    /\ bo_kind = "a2dp" /\ a2dp_path = 0
    /\ a2dp_path' = bo_live
    /\ TransportStep /\ UNCHANGED <<bo_transport, bo_live, bo_made, bo_signals, bo_fault>>

BoNext ==
    \/ \E o \in BoOptions : \/ \E r \in BOOLEAN : \/ bt_agent_register_capability(o, r)
                                                  \/ bt_a2dp_source_register(o, r)
                            \/ bt_spp_register_profile(o)
    \/ _register_spp_object \/ _register_a2dp_object
    \/ bt_agent_unregister \/ bt_spp_unregister_profile \/ bt_a2dp_source_unregister
    \/ bt_a2dp_source_set_callback
    \/ \E c \in {1, 2} : BluezCalls(c) \/ send_response(c)
    \/ BluezRestarts
    \/ _handle_set_configuration \/ _handle_clear_configuration \/ TransportSignal
    \/ bt_a2dp_source_acquire \/ _get_media_transport_path

-----------------------------------------------------------------------------
(* Advertisements: an id is the length of the list when it was given.       *)

VARIABLES ad_list,        \* hci.advertisements: user and number of the path
          ad_ids,         \* the id the application has of each, AdNone if none
          ad_asked,       \* paths whose registration BlueZ has not answered
          ad_bluez,       \* BlueZ: paths it advertises
          ad_node, ad_nodes, ad_fault

advars == <<ad_list, ad_ids, ad_asked, ad_bluez, ad_node, ad_nodes, ad_fault>>

AdNone == 99
AdPaths == {ad_list[i].path : i \in DOMAIN ad_list}

AdInit ==
    /\ ad_list = <<>> /\ ad_ids = [u \in AdUsers |-> AdNone] /\ ad_asked = <<>> /\ ad_bluez = {}
    /\ ad_node = 0 /\ ad_nodes = {} /\ ad_fault = FALSE

bt_register_advertisement(u) ==
    LET path == Len(ad_list) IN
    /\ ad_ids[u] = AdNone /\ ad_node < BoMax
    /\ "several" \in BoUnusual \/ ad_list = <<>>
    /\ ad_node' = ad_node + 1 /\ ad_nodes' = ad_nodes \cup {ad_node + 1}
    /\ IF path \in AdPaths THEN UNCHANGED <<ad_list, ad_ids, ad_asked>>
       ELSE /\ ad_list' = Append(ad_list, [user |-> u, path |-> path])
            /\ ad_ids' = [ad_ids EXCEPT ![u] = path]
            /\ ad_asked' = Append(ad_asked, path)
    /\ UNCHANGED <<ad_bluez, ad_fault>>

(* BlueZ answers, and the application hears of it.                          *)
_asyn_ready_cb(ready) ==
    /\ ad_asked # <<>>
    /\ "refused" \in BoUnusual \/ ready
    /\ ad_asked' = Tail(ad_asked)
    /\ ad_bluez' = IF ready THEN ad_bluez \cup {Head(ad_asked)} ELSE ad_bluez
    /\ UNCHANGED <<ad_list, ad_ids, ad_node, ad_nodes, ad_fault>>

bt_unregister_advertisement(u) ==
    LET id == ad_ids[u] IN
    /\ id # AdNone /\ id < Len(ad_list)
    /\ ad_list[id + 1].path \in ad_bluez
    /\ ad_bluez' = ad_bluez \ {ad_list[id + 1].path}
    /\ ad_list' = RemoveAt(ad_list, id + 1)
    /\ ad_ids' = [ad_ids EXCEPT ![u] = AdNone]
    /\ ad_nodes' = ad_nodes \ {ad_node}
    /\ ad_fault' = (ad_fault \/ ad_node \notin ad_nodes)
    /\ UNCHANGED <<ad_asked, ad_node>>

AdNext ==
    \/ \E u \in AdUsers : bt_register_advertisement(u) \/ bt_unregister_advertisement(u)
    \/ \E ready \in BOOLEAN : _asyn_ready_cb(ready)

-----------------------------------------------------------------------------
(* Between two calls of the application, what BlueZ has registered is what  *)
(* the application believes, it is exported, and its id is known, so that   *)
(* it can be taken back; no call of BlueZ is lost, or left without somebody *)
(* to answer it.  Once the signals are handled the transport that is asked  *)
(* for its state is the one there is.                                       *)
ObjectsAreServed ==
    /\ bo_fault = "none"
    /\ bo_open = bo_handed
    /\ bo_exported # 0 => bo_id = bo_exported
    /\ ~ bo_half => bo_app = bo_bluez /\ (bo_bluez # NoOption <=> bo_exported # 0)
    /\ bo_signals = <<>> => a2dp_path \in {0, bo_live}

(* The id of an advertisement leads to it, and what is listed is advertised *)
(* once BlueZ has answered.                                                 *)
AdvertisementsAreKept ==
    /\ ~ ad_fault
    /\ \A u \in AdUsers : ad_ids[u] # AdNone =>
          /\ ad_ids[u] < Len(ad_list)
          /\ ad_list[ad_ids[u] + 1].user = u
    /\ ad_asked = <<>> => ad_bluez = AdPaths
=============================================================================
