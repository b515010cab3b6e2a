--------------------------- MODULE TizenRtClients ---------------------------
(***************************************************************************)
(* The websocket client and the MQTT client on TizenRT                     *)
(* (tizenrt_websocket.c below artik_websocket.c, and mqtt/tizenrt/         *)
(* mqtt_client.c below os_mqtt.c).  Each hands its structures to a library *)
(* whose thread calls back until the connection has ended.  The two share  *)
(* nothing and have next-state relations of their own.                     *)
(*                                                                         *)
(* The libraries, sockets and brokers are external.  queue_close and       *)
(* deinit_client return when the library's thread is done with the client. *)
(***************************************************************************)
EXTENDS Naturals, Sequences

CONSTANTS SkHandles,      \* websocket handles
          SkMax,          \* bound of the streams
          SkUnusual,      \* "credentials": TLS is configured for the secure element without a certificate,
                          \* "reuse": another thread is given the memory that cleanup has freed and still clears,
                          \* "twice": a handle's stream is opened again,
                          \* "released": a handle is released while its stream is open,
                          \* "again": a stream is used after it was closed,
                          \* "late": the library's thread outlives its close,
                          \* "early": a stream has ended before its connection callback is set
          MqClients,      \* MQTT configurations
          MqMaxEvents,    \* bound of the library's events
          MqUnusual       \* "unknown": disconnecting with a handle that is not one,
                          \* "inside": a callback destroys its client,
                          \* "will": a will is configured,
                          \* "optional": credentials are configured, verification is not required

-----------------------------------------------------------------------------
(* Websockets.                                                              *)

VARIABLES sk_handles,     \* requested_node
          sk_private,     \* handle -> its config.private_data: a stream, 0 for NULL
          sk_streams,     \* the private structures and the library's clients in them
          sk_view,        \* handle -> what the connection callback has told
          sk_fault        \* "none", "freed": memory was used that had been freed, "double": freed twice

skvars == <<sk_handles, sk_private, sk_streams, sk_view, sk_fault>>

SkInit ==
    /\ sk_handles = {} /\ sk_streams = <<>> /\ sk_fault = "none"
    /\ sk_private = [h \in SkHandles |-> 0]
    /\ sk_view = [h \in SkHandles |-> "nothing"]

Stream(h, tls) == [alive |-> TRUE, runs |-> TRUE, conn_cb |-> FALSE, rx_cb |-> FALSE, tls |-> tls, handle |-> h]

artik_websocket_request(h) ==
    /\ h \notin sk_handles
    /\ sk_handles' = sk_handles \cup {h}
    /\ sk_private' = [sk_private EXCEPT ![h] = 0]
    /\ sk_view' = [sk_view EXCEPT ![h] = "nothing"]
    /\ UNCHANGED <<sk_streams, sk_fault>>

IsOpen(h) == sk_private[h] # 0 /\ sk_streams[sk_private[h]].alive

(* The stream, if there is one, is left to its library.                     *)
artik_websocket_release(h) ==
    /\ h \in sk_handles
    /\ IsOpen(h) => "released" \in SkUnusual
    /\ sk_handles' = sk_handles \ {h}
    /\ UNCHANGED <<sk_private, sk_streams, sk_view, sk_fault>>

(* Options and credentials are freed and then cleared, their pointers stay. *)
ssl_cleanup(tls, reused) == IF tls /\ reused THEN "freed" ELSE sk_fault

(* The secure element needs a certificate.  A setup that failed has cleaned *)
(* up, and its caller does it again.                                        *)
ssl_setup(tls, cert) == tls => cert

(* connects: the library has opened the stream, whose thread runs now.      *)
os_websocket_open_stream(h, tls, cert, connects, reused) ==
    /\ h \in sk_handles /\ Len(sk_streams) < SkMax
    /\ IsOpen(h) => "twice" \in SkUnusual
    /\ tls /\ ~ cert => "credentials" \in SkUnusual
    /\ reused => tls /\ "reuse" \in SkUnusual
    /\ IF ssl_setup(tls, cert) /\ connects
       THEN /\ sk_streams' = Append(sk_streams, Stream(h, tls))
            /\ sk_private' = [sk_private EXCEPT ![h] = Len(sk_streams) + 1]
            /\ sk_view' = [sk_view EXCEPT ![h] = "nothing"]
            /\ UNCHANGED sk_fault
       ELSE /\ sk_fault' = IF ssl_setup(tls, cert) THEN ssl_cleanup(tls, reused) ELSE "double"
            /\ UNCHANGED <<sk_streams, sk_private, sk_view>>
    /\ UNCHANGED sk_handles

(* A call that finds private_data, which closing leaves as it was.          *)
Uses(h) == h \in sk_handles /\ sk_private[h] # 0 /\ (IsOpen(h) \/ "again" \in SkUnusual)

UseFault(h) == IF IsOpen(h) THEN sk_fault ELSE "freed"

(* A stream that is connected already is reported at once.                  *)
os_websocket_set_connection_callback(h) ==
    LET i == sk_private[h] IN
    /\ Uses(h)
    /\ sk_streams[i].runs \/ "early" \in SkUnusual
    /\ sk_streams' = [sk_streams EXCEPT ![i].conn_cb = TRUE]
    /\ sk_view' = IF sk_streams[i].runs THEN [sk_view EXCEPT ![h] = "connected"] ELSE sk_view
    /\ sk_fault' = UseFault(h)
    /\ UNCHANGED <<sk_handles, sk_private>>

os_websocket_set_receive_callback(h) ==
    /\ Uses(h)
    /\ sk_streams' = [sk_streams EXCEPT ![sk_private[h]].rx_cb = TRUE]
    /\ sk_fault' = UseFault(h)
    /\ UNCHANGED <<sk_handles, sk_private, sk_view>>

os_websocket_write_stream(h) ==
    /\ Uses(h)
    /\ sk_fault' = UseFault(h)
    /\ UNCHANGED <<sk_handles, sk_private, sk_streams, sk_view>>

(* The connection callback, if the library's client still has its data.     *)
Told(i, state) ==
    LET s == sk_streams[i] IN
    IF s.alive /\ s.conn_cb THEN [sk_view EXCEPT ![s.handle] = state] ELSE sk_view

(* The library is not asked to close.                                       *)
MutSkClosed(i, late) == [sk_streams EXCEPT ![i].alive = FALSE]

(* The library ends the stream, then everything is freed.                   *)
SkClosed(i, late) == [sk_streams EXCEPT ![i].alive = FALSE, ![i].runs = @ /\ late]

os_websocket_close_stream(h, late, reused) ==
    LET i == sk_private[h] IN
    /\ Uses(h)
    /\ late => sk_streams[i].runs /\ "late" \in SkUnusual
    /\ reused => sk_streams[i].tls /\ "reuse" \in SkUnusual
    /\ sk_view' = IF sk_streams[i].runs /\ ~ late THEN Told(i, "closed") ELSE sk_view
    /\ sk_streams' = SkClosed(i, late)
    /\ sk_fault' = IF IsOpen(h) THEN ssl_cleanup(sk_streams[i].tls, reused) ELSE "freed"
    /\ UNCHANGED <<sk_handles, sk_private>>

(* What becomes of a transfer that was to be repeated n times before its    *)
(* outcome: it is tried four times; TLS repeats whatever fails.             *)
Transfer(tls, sends, n, outcome) ==
    CASE n > 3 \/ outcome = "fails"                      -> "error"
      [] n <= 3 /\ outcome = "nothing" /\ (tls \/ ~ sends) -> "error"
      [] OTHER                                           -> "done"

(* The thread of the library: an error ends the stream, a message is given  *)
(* to the application.                                                      *)
LibraryTransfers(i, sends, n, outcome) ==
    /\ sk_streams[i].runs
    /\ LET error == Transfer(sk_streams[i].tls, sends, n, outcome) = "error" IN
       /\ sk_streams' = [sk_streams EXCEPT ![i].runs = ~ error]
       /\ sk_view' = IF error THEN Told(i, "closed") ELSE sk_view
    /\ sk_fault' = IF sk_streams[i].alive THEN sk_fault ELSE "freed"
    /\ UNCHANGED <<sk_handles, sk_private>>

SkNext ==
    \/ \E h \in SkHandles :
          \/ artik_websocket_request(h) \/ artik_websocket_release(h)
          \/ \E tls, cert, connects, reused \in BOOLEAN : os_websocket_open_stream(h, tls, cert, connects, reused)
          \/ os_websocket_set_connection_callback(h) \/ os_websocket_set_receive_callback(h)
          \/ os_websocket_write_stream(h)
          \/ \E late, reused \in BOOLEAN : os_websocket_close_stream(h, late, reused)
    \/ \E i \in DOMAIN sk_streams, sends \in BOOLEAN, n \in {0, 4}, outcome \in {"moved", "nothing", "fails"} :
          LibraryTransfers(i, sends, n, outcome)

(* A stream the library serves is one a handle can still close, nothing is  *)
(* used or freed after it was freed, and an application with a connection   *)
(* callback knows whether its stream is connected.                          *)
StreamsAreServed ==
    /\ sk_fault = "none"
    /\ \A i \in DOMAIN sk_streams :
          LET s == sk_streams[i] IN
          /\ s.runs => s.alive /\ s.handle \in sk_handles /\ sk_private[s.handle] = i
          /\ s.alive /\ s.conn_cb /\ sk_private[s.handle] = i
             => sk_view[s.handle] = IF s.runs THEN "connected" ELSE "closed"

-----------------------------------------------------------------------------
(* MQTT.                                                                    *)

VARIABLES mq_nodes,       \* configurations whose client is in requested_node
          mq_callbacks,   \* client -> the callbacks that are set
          mq_config,      \* client -> its configuration
          mq_library,     \* client -> the library's connection, with what the broker was given
          mq_events,      \* client -> what the library's thread has to report
          mq_view,        \* client -> what the application was told last
          mq_fault        \* "none", "null", "freed"

mqvars == <<mq_nodes, mq_callbacks, mq_config, mq_library, mq_events, mq_view, mq_fault>>

MqKinds == {"connect", "disconnect", "subscribe", "unsubscribe", "publish", "message"}

(* will: a will message is configured; tls: "none", and with credentials    *)
(* "required" or "optional" verification.                                   *)
MqInit ==
    /\ mq_nodes = {}
    /\ mq_callbacks = [c \in MqClients |-> {}]
    /\ mq_config \in [MqClients -> [will : {FALSE}, tls : {"none", "required", "optional"}]]
    /\ \A c \in MqClients : mq_config[c].tls = "optional" => "optional" \in MqUnusual
    /\ mq_library = [c \in MqClients |-> [connected |-> FALSE, will |-> FALSE, credentials |-> FALSE]]
    /\ mq_events = [c \in MqClients |-> <<>>]
    /\ mq_view = [c \in MqClients |-> "disconnect"]
    /\ mq_fault = "none"

(* Certificates and key are passed on when verification is required only.   *)
Credentials(c) == mq_config[c].tls = "required"

mqtt_create_client(c, inits) ==
    /\ c \notin mq_nodes /\ mq_events[c] = <<>>
    /\ mq_nodes' = IF inits THEN mq_nodes \cup {c} ELSE mq_nodes
    /\ mq_callbacks' = [mq_callbacks EXCEPT ![c] = {}]
    /\ mq_library' = [mq_library EXCEPT ![c] = [connected |-> FALSE, will |-> FALSE, credentials |-> inits /\ Credentials(c)]]
    /\ mq_view' = [mq_view EXCEPT ![c] = "disconnect"]
    /\ UNCHANGED <<mq_config, mq_events, mq_fault>>

(* The client stays with its library.                                       *)
MutDeinit(c, inside) == UNCHANGED <<mq_library, mq_events>>

(* Waits for the thread, unless it runs in it.                              *)
Deinit(c, inside) ==
    IF inside THEN UNCHANGED <<mq_library, mq_events>>
    ELSE /\ mq_library' = [mq_library EXCEPT ![c].connected = FALSE]
         /\ mq_events' = [mq_events EXCEPT ![c] = <<>>]

mqtt_client_destroy_client(c, inside) ==
    /\ c \in mq_nodes
    /\ inside => mq_events[c] # <<>> /\ "inside" \in MqUnusual
    /\ Deinit(c, inside)
    /\ mq_nodes' = mq_nodes \ {c}
    /\ UNCHANGED <<mq_callbacks, mq_config, mq_view, mq_fault>>

(* The will is kept in the configuration, and nothing hands it on.          *)
mqtt_client_set_willmsg(c) ==
    /\ "will" \in MqUnusual \/ ~ mq_library[c].connected
    /\ mq_config' = [mq_config EXCEPT ![c].will = TRUE]
    /\ UNCHANGED <<mq_nodes, mq_callbacks, mq_library, mq_events, mq_view, mq_fault>>

mqtt_client_free_willmsg(c) ==
    /\ mq_config' = [mq_config EXCEPT ![c].will = FALSE]
    /\ UNCHANGED <<mq_nodes, mq_callbacks, mq_library, mq_events, mq_view, mq_fault>>

mqtt_client_clear_willmsg(c) ==
    /\ c \in mq_nodes
    /\ mq_config' = [mq_config EXCEPT ![c].will = FALSE]
    /\ mq_library' = [mq_library EXCEPT ![c].will = FALSE]
    /\ UNCHANGED <<mq_nodes, mq_callbacks, mq_events, mq_view, mq_fault>>

mqtt_client_set_callbacks(c) ==
    /\ c \in mq_nodes /\ ~ mq_library[c].connected /\ mq_events[c] = <<>>
    /\ mq_callbacks' = [mq_callbacks EXCEPT ![c] = MqKinds]
    /\ UNCHANGED <<mq_nodes, mq_config, mq_library, mq_events, mq_view, mq_fault>>

Reports(c, kind) == Len(mq_events[c]) < MqMaxEvents /\ mq_events' = [mq_events EXCEPT ![c] = Append(@, kind)]

(* The connection is made or refused; its thread reports it.                *)
mqtt_client_connect(c, ok) ==
    /\ c \in mq_nodes /\ ~ mq_library[c].connected
    /\ mq_config[c].will => "will" \in MqUnusual
    /\ IF ok THEN Reports(c, "connect") /\ mq_library' = [mq_library EXCEPT ![c].connected = TRUE]
       ELSE UNCHANGED <<mq_events, mq_library>>
    /\ UNCHANGED <<mq_nodes, mq_callbacks, mq_config, mq_view, mq_fault>>

(* The handle is used without a check.                                      *)
mqtt_client_disconnect(c) ==
    /\ c \in mq_nodes \/ "unknown" \in MqUnusual
    /\ IF c \in mq_nodes /\ mq_library[c].connected
       THEN Reports(c, "disconnect") /\ mq_library' = [mq_library EXCEPT ![c].connected = FALSE]
       ELSE UNCHANGED <<mq_events, mq_library>>
    /\ mq_fault' = IF c \in mq_nodes THEN mq_fault ELSE "null"
    /\ UNCHANGED <<mq_nodes, mq_callbacks, mq_config, mq_view>>

(* Subscribe, unsubscribe and publish are confirmed, messages arrive.       *)
BrokerAnswers(c, kind) ==
    /\ c \in mq_nodes /\ mq_library[c].connected
    /\ kind \in {"subscribe", "unsubscribe", "publish", "message"}
    /\ Reports(c, kind)
    /\ UNCHANGED <<mq_nodes, mq_callbacks, mq_config, mq_library, mq_view, mq_fault>>

ConnectionIsLost(c) ==
    /\ mq_library[c].connected
    /\ Reports(c, "disconnect")
    /\ mq_library' = [mq_library EXCEPT ![c].connected = FALSE]
    /\ UNCHANGED <<mq_nodes, mq_callbacks, mq_config, mq_view, mq_fault>>

(* The thread of the library finds the client by the data of its own.       *)
ThreadReports(c) ==
    /\ mq_events[c] # <<>>
    /\ mq_events' = [mq_events EXCEPT ![c] = Tail(@)]
    /\ mq_fault' = IF c \in mq_nodes THEN mq_fault ELSE "freed"
    /\ LET kind == Head(mq_events[c]) IN
       mq_view' = IF kind \in {"connect", "disconnect"} \cap mq_callbacks[c]
                  THEN [mq_view EXCEPT ![c] = kind] ELSE mq_view
    /\ UNCHANGED <<mq_nodes, mq_callbacks, mq_config, mq_library>>

MqNext ==
    \E c \in MqClients :
        \/ \E inits \in BOOLEAN : mqtt_create_client(c, inits)
        \/ \E inside \in BOOLEAN : mqtt_client_destroy_client(c, inside)
        \/ mqtt_client_set_willmsg(c) \/ mqtt_client_free_willmsg(c) \/ mqtt_client_clear_willmsg(c)
        \/ mqtt_client_set_callbacks(c)
        \/ \E ok \in BOOLEAN : mqtt_client_connect(c, ok)
        \/ mqtt_client_disconnect(c)
        \/ \E kind \in MqKinds : BrokerAnswers(c, kind)
        \/ ConnectionIsLost(c) \/ ThreadReports(c)

(* The library's thread finds the client it works for; the application      *)
(* hears in order how its connection began and ended; and the broker is     *)
(* given the credentials and the will of the configuration.                 *)
ClientsAreServed ==
    /\ mq_fault = "none"
    /\ \A c \in MqClients :
          /\ mq_library[c].connected \/ mq_events[c] # <<>> => c \in mq_nodes
          /\ c \in mq_nodes /\ mq_events[c] = <<>> /\ mq_callbacks[c] = MqKinds
             => mq_view[c] = IF mq_library[c].connected THEN "connect" ELSE "disconnect"
          /\ mq_library[c].connected
             => /\ mq_library[c].will = mq_config[c].will
                /\ mq_library[c].credentials = (mq_config[c].tls # "none")
=============================================================================
