------------------------------- MODULE Zigbee -------------------------------
(***************************************************************************)
(* The ZigBee module (zigbee/artik_zigbee.c, linux/linux_zigbee.c): calls  *)
(* of the ZigBee library, each after a check that the local endpoint has   *)
(* the cluster the call is about, on the side it is made from.             *)
(*                                                                         *)
(* The library is external: it has the local endpoints, the network, the   *)
(* scan, attributes, bindings and reports of a remote device, and any call *)
(* of it may fail.  Values of attributes and what a command asks for are   *)
(* left out.                                                               *)
(***************************************************************************)
EXTENDS Integers, FiniteSets

CONSTANTS ZbDevices,      \* the clusters a type of device has: as server, as client
          ZbHandles,      \* handles of local endpoints
          ZbLargest,      \* the largest threshold of a report
          ZbUnusual       \* "color": colours are controlled from a device without that cluster,
                          \* "replaced": endpoints are replaced while they have reports

ASSUME ZbAssumption == ZbLargest \in Nat

Clusters == {"basic", "identify", "groups", "on_off", "level_control", "color_control", "illuminance",
             "occupancy", "temperature", "thermostat", "fan_control"}
ReportTypes == {"thermostat", "occupancy", "illuminance", "temperature"}

VARIABLES zb_local,       \* the type of the device at each local endpoint
          zb_net,         \* "none", "joined", "no_parent"
          zb_scan,        \* a scan runs
          zb_set,         \* endpoints with attributes that were set
          zb_bound,       \* the binding table is not empty
          zb_reports,     \* reports a remote device makes: endpoint and type
          zb_last         \* the call before: what it was about, and whether it succeeded

zbvars == <<zb_local, zb_net, zb_scan, zb_set, zb_bound, zb_reports, zb_last>>

ZbLast(call, h, cluster, side, ok) == [call |-> call, h |-> h, cluster |-> cluster, side |-> side, ok |-> ok]

ZbInit ==
    /\ zb_local = [h \in {} |-> "none"] /\ zb_net = "none" /\ zb_scan = FALSE
    /\ zb_set = {} /\ zb_bound = FALSE /\ zb_reports = {}
    /\ zb_last = ZbLast("init", 0, "none", "none", FALSE)

(* zigbee_check_cluster, after the handle was found.                        *)
CheckCluster(h, cluster, side) == h \in DOMAIN zb_local /\ cluster \in ZbDevices[zb_local[h]][side]

(* A call that is not about an endpoint: what it changes is said beside it. *)
PlainCall(call, ok) == zb_last' = ZbLast(call, 0, "none", "none", ok)

-----------------------------------------------------------------------------
(* Endpoints and the network.                                               *)

os_set_local_endpoint(types) ==
    /\ "replaced" \in ZbUnusual \/ zb_reports = {}
    /\ zb_local' = types
    /\ zb_set' = {}
    /\ PlainCall("set_local_endpoint", TRUE)
    /\ UNCHANGED <<zb_net, zb_scan, zb_bound, zb_reports>>

(* Starts, forms and joins; a network that is joined is searched for        *)
(* devices.                                                                 *)
os_zigbee_network_start(net) ==
    /\ zb_net = "none"
    /\ zb_net' = net /\ zb_scan' = (zb_scan \/ net = "joined")
    /\ PlainCall("start", TRUE)
    /\ UNCHANGED <<zb_local, zb_set, zb_bound, zb_reports>>

os_zigbee_network_form_or_join ==
    /\ zb_net = "none"
    /\ zb_net' = "joined"
    /\ PlainCall("form", TRUE)
    /\ UNCHANGED <<zb_local, zb_scan, zb_set, zb_bound, zb_reports>>

os_zigbee_network_leave ==
    /\ zb_net # "none"
    /\ zb_net' = "none"
    /\ PlainCall("leave", TRUE)
    /\ UNCHANGED <<zb_local, zb_scan, zb_set, zb_bound, zb_reports>>

os_zigbee_network_find ==
    /\ zb_scan' = TRUE
    /\ PlainCall("find", TRUE)
    /\ UNCHANGED <<zb_local, zb_net, zb_set, zb_bound, zb_reports>>

os_zigbee_network_stop_scan ==
    /\ zb_scan' = FALSE
    /\ PlainCall("stop_scan", TRUE)
    /\ UNCHANGED <<zb_local, zb_net, zb_set, zb_bound, zb_reports>>

(* The parent of an end device goes, and comes back.                        *)
ParentChanges ==
    /\ zb_net # "none"
    /\ zb_net' \in {"joined", "no_parent"} \ {zb_net}
    /\ UNCHANGED <<zb_local, zb_scan, zb_set, zb_bound, zb_reports, zb_last>>

(* Commissioning, find and bind, and the binding table itself.              *)
Binds(h) ==
    /\ h \in DOMAIN zb_local
    /\ zb_bound' = TRUE
    /\ PlainCall("bind", TRUE)
    /\ UNCHANGED <<zb_local, zb_net, zb_scan, zb_set, zb_reports>>

os_ezmode_commissioning(h) == Binds(h)
os_find_bind(h) == Binds(h)
os_zigbee_end_device_bind_request(h) == Binds(h)

os_zigbee_clear_binding ==
    /\ zb_bound' = FALSE
    /\ PlainCall("clear_binding", TRUE)
    /\ UNCHANGED <<zb_local, zb_net, zb_scan, zb_set, zb_reports>>

(* The network is left only when there was none.                            *)
MutMustLeave == zb_net = "none"

MustLeave == zb_net \in {"joined", "no_parent"}

(* Scan, attributes of each endpoint, network and bindings, in this order;  *)
(* fails: the step at which the library fails, after which nothing follows. *)
os_reset_local(fails) ==
    /\ zb_scan' = (zb_scan /\ fails = "scan")
    /\ \/ fails = "attr" /\ DOMAIN zb_local # {} /\ zb_set' \in SUBSET zb_set
       \/ fails = "scan" /\ UNCHANGED zb_set
       \/ fails \notin {"scan", "attr"} /\ zb_set' = {}
    /\ zb_net' = IF fails \in {"bindings", "nothing"} /\ MustLeave THEN "none" ELSE zb_net
    /\ zb_bound' = (zb_bound /\ fails # "nothing")
    /\ PlainCall("reset_local", fails = "nothing")
    /\ UNCHANGED <<zb_local, zb_reports>>

-----------------------------------------------------------------------------
(* Calls about a cluster: checked is the one that is looked for, cluster    *)
(* the one of the call.  A command goes to a remote device and needs the    *)
(* client's side, an attribute of our own the server's.                     *)
SendsCommand(h, checked, cluster) ==
    /\ "color" \in ZbUnusual \/ CheckCluster(h, checked, "client") = CheckCluster(h, cluster, "client")
    /\ zb_last' = ZbLast("command", h, cluster, "client", CheckCluster(h, checked, "client"))
    /\ UNCHANGED <<zb_local, zb_net, zb_scan, zb_set, zb_bound, zb_reports>>

Gets(h, cluster) ==
    /\ zb_last' = ZbLast("get", h, cluster, "server", CheckCluster(h, cluster, "server"))
    /\ UNCHANGED <<zb_local, zb_net, zb_scan, zb_set, zb_bound, zb_reports>>

Sets(h, cluster) ==
    /\ zb_last' = ZbLast("set", h, cluster, "server", CheckCluster(h, cluster, "server"))
    /\ zb_set' = IF CheckCluster(h, cluster, "server") THEN zb_set \cup {h} ELSE zb_set
    /\ UNCHANGED <<zb_local, zb_net, zb_scan, zb_bound, zb_reports>>

os_identify_request(h) == SendsCommand(h, "identify", "identify")
os_onoff_command(h) == SendsCommand(h, "on_off", "on_off")
os_level_control_request(h) == SendsCommand(h, "level_control", "level_control")
os_color_control_request(h) == SendsCommand(h, "level_control", "color_control")
os_reset_to_factory_default(h) == SendsCommand(h, "basic", "basic")
os_fan_write_or_read(h) == SendsCommand(h, "fan_control", "fan_control")
os_thermostat_request_setpoint(h) == SendsCommand(h, "thermostat", "thermostat")
os_thermostat_write_or_read(h) == SendsCommand(h, "thermostat", "thermostat")

os_onoff_get_value(h) == Gets(h, "on_off")
os_level_control_get_value(h) == Gets(h, "level_control")
os_color_control_get_value(h) == Gets(h, "color_control")
os_thermostat_get_setpoint(h) == Gets(h, "thermostat")
os_fan_get_mode(h) == Gets(h, "fan_control")
os_thermostat_get_local_temperature(h) == Gets(h, "thermostat")
os_thermostat_get_occupancy_status(h) == Gets(h, "thermostat")
os_thermostat_get_system_mode(h) == Gets(h, "thermostat")
os_thermostat_get_control_sequence(h) == Gets(h, "thermostat")
os_illum_get_measured_value(h) == Gets(h, "illuminance")
os_groups_get_local_name_support(h) == Gets(h, "groups")

os_groups_set_local_name_support(h) == Sets(h, "groups")
os_illum_set_measured_value(h) == Sets(h, "illuminance")
os_occupancy_set_type_or_value(h) == Sets(h, "occupancy")
os_thermostat_set_local_temperature(h) == Sets(h, "thermostat")
os_thermostat_set_setpoint_or_mode(h) == Sets(h, "thermostat")
os_thermostat_set_occupancy_status(h) == Sets(h, "thermostat")
os_thermostat_set_control_sequence(h) == Sets(h, "thermostat")
os_temperature_set_measured_value(h) == Sets(h, "temperature")

-----------------------------------------------------------------------------
(* Reports of a remote device.                                              *)

(* Occupancy has no threshold; 0 is the one that stops a report.            *)
ThresholdFits(type, threshold) == type = "occupancy" \/ threshold \in 0 .. ZbLargest

ReportPasses(h, type, min, max, threshold) ==
    /\ min <= max /\ ThresholdFits(type, threshold)
    /\ CheckCluster(h, type, "client")

os_request_reporting(h, type, min, max, threshold) ==
    LET ok == ReportPasses(h, type, min, max, threshold) IN
    /\ zb_reports' = IF ok THEN zb_reports \cup {<<h, type>>} ELSE zb_reports
    /\ zb_last' = ZbLast("report", h, type, "client", ok)
    /\ UNCHANGED <<zb_local, zb_net, zb_scan, zb_set, zb_bound>>

StopPasses(h, type) == ReportPasses(h, type, 0, 65535, 0)

os_stop_reporting(h, type) ==
    /\ zb_reports' = IF StopPasses(h, type) THEN zb_reports \ {<<h, type>>} ELSE zb_reports
    /\ zb_last' = ZbLast("report", h, type, "client", StopPasses(h, type))
    /\ UNCHANGED <<zb_local, zb_net, zb_scan, zb_set, zb_bound>>

zigbee_module ==
    \/ \E hs \in SUBSET ZbHandles : \E types \in [hs -> DOMAIN ZbDevices] : os_set_local_endpoint(types)
    \/ \E net \in {"none", "joined", "no_parent"} : os_zigbee_network_start(net)
    \/ os_zigbee_network_form_or_join \/ os_zigbee_network_leave
    \/ os_zigbee_network_find \/ os_zigbee_network_stop_scan
    \/ os_zigbee_clear_binding
    \/ \E fails \in {"scan", "attr", "state", "leave", "bindings", "nothing"} : os_reset_local(fails)

device_functions(h) ==
    \/ os_identify_request(h) \/ os_onoff_command(h) \/ os_level_control_request(h) \/ os_color_control_request(h)
    \/ os_reset_to_factory_default(h) \/ os_fan_write_or_read(h) \/ os_thermostat_request_setpoint(h)
    \/ os_thermostat_write_or_read(h)
    \/ os_onoff_get_value(h) \/ os_level_control_get_value(h) \/ os_color_control_get_value(h)
    \/ os_thermostat_get_setpoint(h) \/ os_fan_get_mode(h) \/ os_groups_get_local_name_support(h)
    \/ os_thermostat_get_local_temperature(h) \/ os_thermostat_get_occupancy_status(h)
    \/ os_thermostat_get_system_mode(h) \/ os_thermostat_get_control_sequence(h) \/ os_illum_get_measured_value(h)
    \/ os_groups_set_local_name_support(h) \/ os_illum_set_measured_value(h) \/ os_occupancy_set_type_or_value(h)
    \/ os_thermostat_set_local_temperature(h) \/ os_thermostat_set_setpoint_or_mode(h)
    \/ os_thermostat_set_occupancy_status(h) \/ os_thermostat_set_control_sequence(h)
    \/ os_temperature_set_measured_value(h)
    \/ os_ezmode_commissioning(h) \/ os_find_bind(h) \/ os_zigbee_end_device_bind_request(h)
    \/ \E type \in ReportTypes : \/ os_stop_reporting(h, type)
                                 \/ \E min, max \in {0, 1}, threshold \in {-1, 0, ZbLargest, ZbLargest + 1} :
                                       os_request_reporting(h, type, min, max, threshold)

ZbNext ==
    \/ zigbee_module
    \/ \E h \in ZbHandles : device_functions(h)
    \/ ParentChanges

(* A call that succeeds was made from an endpoint that has the cluster on   *)
(* the side the call is made from; a report that was asked for can be       *)
(* stopped; and a reset that succeeds has left nothing.                     *)
CallsMatchEndpoints ==
    /\ zb_last.ok /\ zb_last.side # "none" => CheckCluster(zb_last.h, zb_last.cluster, zb_last.side)
    /\ \A r \in zb_reports : StopPasses(r[1], r[2])
    /\ zb_last.call = "reset_local" /\ zb_last.ok => zb_net = "none" /\ ~ zb_scan /\ zb_set = {} /\ ~ zb_bound
=============================================================================
