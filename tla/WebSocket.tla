----------------------------- MODULE WebSocket -----------------------------
(***************************************************************************)
(* The websocket client on Linux                                           *)
(* (src/modules/connectivity/websocket/linux_websocket.c and the handles   *)
(* of artik_websocket.c): one handle whose stream is opened and closed     *)
(* again and again.  Everything runs in the thread of the event loop: the  *)
(* application's calls, the idle callback that lets libwebsockets call     *)
(* lws_callback, the watches of the five eventfds through which            *)
(* lws_callback tells the application what happened, the ping timer and    *)
(* the pong timeouts.                                                      *)
(*                                                                         *)
(* libwebsockets is external.  A wsi is the address of its connection      *)
(* object; the address of a destroyed one may be used again for the next.  *)
(* Messages are numbered in the order in which they are written, or sent   *)
(* by the peer.                                                            *)
(***************************************************************************)
EXTENDS Naturals, Sequences

CONSTANTS Wsis,         \* addresses of connection objects
          NoWsi,
          MaxMsgs,      \* bound: messages in each direction
          MaxOpens,     \* bound: streams opened on the handle
          PongTimeout,  \* "zero", "shorter" or "equal" to ping_period, or "no ping"
          Unusual       \* which unusual conduct occurs, a subset of Conduct

\* "stall": the loop is late, ping and pong timers are due together;
\* "reset": the application sets its connection callback again or clears it;
\* "null": lws_client_connect_via_info fails at once;
\* "burst": messages follow each other faster than the loop handles them.
Conduct == {"stall", "reset", "null", "burst"}

Events == {"CLOSE", "CONNECT", "RECEIVE", "ERROR", "CONNECTION_ERROR"}
ConnectionEvents == Events \ {"RECEIVE"}

ASSUME WebSocketAssumption ==
    /\ NoWsi \notin Wsis
    /\ MaxMsgs \in Nat /\ MaxOpens \in Nat
    /\ PongTimeout \in {"zero", "shorter", "equal", "no ping"}
    /\ Unusual \subseteq Conduct

VARIABLES
    handle,         \* the handle is requested
    stream,         \* config->private_data is not NULL
    opens,          \* streams opened so far
    wsi,            \* interface->wsi
    link,           \* link[w]: "free", "connecting" or "up"
    nodes,          \* requested_node: [wsi, error_connect], oldest first
    send_message,   \* the slot of the message to send, 0 if NULL
    receive_message,\* the slot of the message received, 0 if NULL
    efd,            \* eventfds that have been written and not read
    callbacks,      \* events whose data[].callback is not NULL
    watches,        \* watches[e]: fd watches the loop has for event e
    ping,           \* the ping periodic callback is registered
    timers,         \* pong timeouts registered
    timeout_id,     \* container.timeout_id names the latest of them
    orphans,        \* registrations left in the loop for freed memory
    crashed,        \* a NULL callback was called
    dangling,       \* a timer used a wsi that libwebsockets had destroyed
    told,           \* the end of the connection was reported
    written,        \* messages that write_stream accepted
    sent,           \* messages passed to lws_write, in order
    arrived,        \* messages received from the peer
    delivered       \* messages given to the receive callback, in order

conn == <<handle, stream, opens, wsi, link, nodes>>
loop == <<efd, callbacks, watches, ping, timers, timeout_id>>
data == <<send_message, receive_message, written, sent, arrived, delivered>>
wsvars == <<conn, loop, data, orphans, crashed, dangling, told>>

WsTypeOK ==
    /\ {handle, stream, ping, timeout_id, crashed, dangling, told} \subseteq BOOLEAN
    /\ opens \in 0..MaxOpens
    /\ wsi \in Wsis \cup {NoWsi}
    /\ link \in [Wsis -> {"free", "connecting", "up"}]
    /\ nodes \in Seq([wsi : Wsis, error_connect : BOOLEAN])
    /\ {send_message, receive_message} \subseteq 0..MaxMsgs
    /\ efd \subseteq Events /\ callbacks \subseteq Events
    /\ watches \in [Events -> 0..2]
    /\ timers \in 0..2
    /\ orphans \subseteq {"watch", "timer", "periodic", "idle"}
    /\ written \in 0..MaxMsgs /\ arrived \in 0..MaxMsgs
    /\ sent \in Seq(1..MaxMsgs) /\ delivered \in Seq(1..MaxMsgs)

WsInit == /\ handle = FALSE /\ stream = FALSE /\ opens = 0
          /\ wsi = NoWsi
          /\ link = [w \in Wsis |-> "free"]
          /\ nodes = <<>>
          /\ send_message = 0 /\ receive_message = 0
          /\ efd = {} /\ callbacks = {}
          /\ watches = [e \in Events |-> 0]
          /\ ping = FALSE /\ timers = 0 /\ timeout_id = FALSE
          /\ orphans = {} /\ crashed = FALSE /\ dangling = FALSE /\ told = FALSE
          /\ written = 0 /\ sent = <<>> /\ arrived = 0 /\ delivered = <<>>

-----------------------------------------------------------------------------
(* The list of interfaces.                                                 *)

\* artik_list_get_by_handle: the oldest node with that address.
NodeOf(w) == {i \in DOMAIN nodes : /\ nodes[i].wsi = w
                                   /\ \A j \in 1..(i - 1) : nodes[j].wsi # w}

\* Mutant of Failed: the connection is not marked.
MutFailed(w) == nodes

\* The node's copy of the interface is marked when its wsi is destroyed.
Failed(w) == [i \in DOMAIN nodes |->
                 IF i \in NodeOf(w) THEN [nodes[i] EXCEPT !.error_connect = TRUE]
                 ELSE nodes[i]]

-----------------------------------------------------------------------------
(* The application's calls.                                                *)

Request == /\ ~handle
           /\ handle' = TRUE
           /\ UNCHANGED <<stream, opens, wsi, link, nodes, loop, data, orphans,
                          crashed, dangling, told>>

\* The application closes its stream before it gives the handle back.
ReleaseHandle == /\ handle /\ ~stream
                 /\ handle' = FALSE
                 /\ UNCHANGED <<stream, opens, wsi, link, nodes, loop, data, orphans,
                                crashed, dangling, told>>

CanOpen == handle /\ ~stream /\ opens < MaxOpens

\* A fresh interface: eventfds empty, no callback, no timer.
Fresh == /\ send_message' = 0 /\ receive_message' = 0
         /\ efd' = {} /\ callbacks' = {}
         /\ watches' = [e \in Events |-> 0]
         /\ ping' = FALSE /\ timers' = 0 /\ timeout_id' = FALSE

\* setup_ssl_ctx, lws_create_context and lws_client_connect_via_info
\* succeed; the idle callback is registered.
Open(w) ==
    /\ CanOpen
    /\ link[w] = "free"
    /\ stream' = TRUE
    /\ opens' = opens + 1
    /\ wsi' = w
    /\ link' = [link EXCEPT ![w] = "connecting"]
    /\ nodes' = Append(nodes, [wsi |-> w, error_connect |-> FALSE])
    /\ Fresh
    /\ told' = FALSE
    /\ UNCHANGED <<handle, written, sent, arrived, delivered, orphans,
                   crashed, dangling>>

\* lws_client_connect_via_info returns NULL: the interface is freed, and its
\* idle callback stays registered.
OpenConnectFails ==
    /\ CanOpen
    /\ "null" \in Unusual
    /\ opens' = opens + 1
    /\ orphans' = orphans \cup {"idle"}
    /\ UNCHANGED <<handle, stream, wsi, link, nodes, loop, data, crashed, dangling, told>>

\* os_websocket_write_stream: refused when the node is marked, otherwise the
\* message takes the slot, whatever the slot held.
Write ==
    /\ stream
    /\ written < MaxMsgs
    /\ "burst" \notin Unusual => send_message = 0
    /\ \E i \in NodeOf(wsi) :
         \/ /\ nodes[i].error_connect
            /\ UNCHANGED <<send_message, written>>
         \/ /\ ~nodes[i].error_connect
            /\ written' = written + 1
            /\ send_message' = written + 1
    /\ UNCHANGED <<conn, loop, receive_message, sent, arrived, delivered,
                   orphans, crashed, dangling, told>>

\* os_websocket_set_connection_callback(callback): the watches of CLOSE,
\* CONNECT and ERROR are replaced, that of CONNECTION_ERROR is added to the
\* one that may be there.
SetConnectionCallback ==
    /\ stream
    /\ "reset" \notin Unusual => watches["CLOSE"] = 0
    /\ watches["CONNECTION_ERROR"] < 2
    /\ callbacks' = callbacks \cup ConnectionEvents
    /\ watches' = [e \in Events |->
                     CASE e \in {"CLOSE", "CONNECT", "ERROR"} -> 1
                       [] e = "CONNECTION_ERROR" -> watches[e] + 1
                       [] OTHER -> watches[e]]
    /\ UNCHANGED <<conn, efd, ping, timers, timeout_id, data, orphans, crashed, dangling, told>>

\* The same with NULL: the watch of CONNECTION_ERROR stays.
ClearConnectionCallback ==
    /\ stream
    /\ "reset" \in Unusual
    /\ callbacks' = callbacks \ ConnectionEvents
    /\ watches' = [e \in Events |->
                     IF e \in {"CLOSE", "CONNECT", "ERROR"} THEN 0 ELSE watches[e]]
    /\ UNCHANGED <<conn, efd, ping, timers, timeout_id, data, orphans, crashed, dangling, told>>

SetReceiveCallback(set) ==
    /\ stream
    /\ callbacks' = IF set THEN callbacks \cup {"RECEIVE"} ELSE callbacks \ {"RECEIVE"}
    /\ watches' = [watches EXCEPT !["RECEIVE"] = IF set THEN 1 ELSE 0]
    /\ UNCHANGED <<conn, efd, ping, timers, timeout_id, data, orphans, crashed, dangling, told>>

\* Mutant of Leftovers: lws_cleanup forgets the ping callback.
MutLeftovers == IF ping THEN {"periodic"} ELSE {}

\* What lws_cleanup does not remove: it removes one watch per event, the
\* idle and the ping callback, and the pong timeout that timeout_id names
\* if pong_timeout is not 0.
Leftovers ==
    LET removed == IF timeout_id /\ PongTimeout # "zero" THEN 1 ELSE 0 IN
    {x \in {"watch", "timer"} :
        \/ x = "watch" /\ \E e \in Events : watches[e] > 1
        \/ x = "timer" /\ timers > removed}

\* os_websocket_close_stream: lws_context_destroy destroys a wsi that is
\* still there, which marks its node; then everything is freed.
Close ==
    /\ stream
    /\ stream' = FALSE
    /\ orphans' = orphans \cup Leftovers
    /\ nodes' = IF link[wsi] = "free" THEN nodes ELSE Failed(wsi)
    /\ link' = [link EXCEPT ![wsi] = "free"]
    /\ wsi' = NoWsi
    /\ Fresh
    /\ UNCHANGED <<handle, opens, written, sent, arrived, delivered,
                   crashed, dangling, told>>

-----------------------------------------------------------------------------
(* lws_callback, called from lws_service in the idle callback.             *)

Service(state) == stream /\ link[wsi] = state

\* LWS_CALLBACK_CLIENT_ESTABLISHED
Established ==
    /\ Service("connecting")
    /\ link' = [link EXCEPT ![wsi] = "up"]
    /\ efd' = efd \cup {"CONNECT"}
    /\ ping' = (PongTimeout # "no ping")
    /\ UNCHANGED <<handle, stream, opens, wsi, nodes, callbacks, watches, timers,
                   timeout_id, data, orphans, crashed, dangling, told>>

\* LWS_CALLBACK_CLIENT_WRITEABLE
Writeable ==
    /\ Service("up")
    /\ send_message # 0
    /\ sent' = Append(sent, send_message)
    /\ send_message' = 0
    /\ UNCHANGED <<conn, loop, receive_message, written, arrived, delivered,
                   orphans, crashed, dangling, told>>

\* LWS_CALLBACK_CLIENT_RECEIVE
Receive ==
    /\ Service("up")
    /\ arrived < MaxMsgs
    /\ "burst" \notin Unusual => "RECEIVE" \notin efd
    /\ arrived' = arrived + 1
    /\ receive_message' = arrived + 1
    /\ efd' = efd \cup {"RECEIVE"}
    /\ UNCHANGED <<conn, callbacks, watches, ping, timers, timeout_id,
                   send_message, written, sent, delivered, orphans,
                   crashed, dangling, told>>

\* LWS_CALLBACK_CLIENT_RECEIVE_PONG
ReceivePong ==
    /\ Service("up")
    /\ timeout_id
    /\ PongTimeout # "zero"
    /\ timers' = timers - 1
    /\ timeout_id' = FALSE
    /\ UNCHANGED <<conn, efd, callbacks, watches, ping, data, orphans, crashed, dangling, told>>

\* ssl_ctx_info_callback: a fatal alert during the handshake.
SslAlert ==
    /\ Service("connecting")
    /\ efd' = efd \cup {"ERROR"}
    /\ UNCHANGED <<conn, callbacks, watches, ping, timers, timeout_id, data,
                   orphans, crashed, dangling, told>>

\* Mutant of Destroyed: LWS_CALLBACK_WSI_DESTROY writes no event.
MutDestroyed(events) ==
    /\ nodes' = Failed(wsi)
    /\ efd' = efd \cup events
    /\ link' = [link EXCEPT ![wsi] = "free"]
    /\ UNCHANGED <<handle, stream, opens, wsi, callbacks, watches, ping, timers,
                   timeout_id, data, orphans, crashed, dangling, told>>

\* LWS_CALLBACK_WSI_DESTROY, which follows in the same lws_service call.
Destroyed(events) ==
    /\ nodes' = Failed(wsi)
    /\ efd' = efd \cup events \cup {"CLOSE"}
    /\ link' = [link EXCEPT ![wsi] = "free"]
    /\ UNCHANGED <<handle, stream, opens, wsi, callbacks, watches, ping, timers,
                   timeout_id, data, orphans, crashed, dangling, told>>

\* LWS_CALLBACK_CLIENT_CONNECTION_ERROR and LWS_CALLBACK_CLOSED.
ConnectionError == Service("connecting") /\ Destroyed({"CONNECTION_ERROR"})
PeerCloses == Service("up") /\ Destroyed({"CLOSE"})

-----------------------------------------------------------------------------
(* The event loop.                                                         *)

\* ping_periodic_callback: a ping is sent and its pong timeout registered,
\* over the id of the previous one.  Without a stall that one has fired or
\* was removed when the period has elapsed.
Ping ==
    /\ stream /\ ping
    /\ link[wsi] = "up"
    /\ timers < 2
    /\ timers = 0 \/ PongTimeout = "equal" \/ "stall" \in Unusual
    /\ timers' = timers + 1
    /\ timeout_id' = TRUE
    /\ UNCHANGED <<conn, efd, callbacks, watches, ping, data, orphans, crashed,
                   dangling, told>>

\* pong_timeout_callback
PongTimeoutFires ==
    /\ stream /\ timers > 0
    /\ link[wsi] = "up"
    /\ timers' = timers - 1
    /\ timeout_id' = FALSE
    /\ efd' = efd \cup {"CONNECTION_ERROR"}
    /\ UNCHANGED <<conn, callbacks, watches, ping, data, orphans, crashed,
                   dangling, told>>

\* Nothing stops the two timers when the connection ends: they go on with
\* the address of the destroyed wsi.
TimerAfterEnd ==
    /\ stream /\ link[wsi] = "free"
    /\ ping \/ timers > 0
    /\ dangling' = TRUE
    /\ UNCHANGED <<conn, loop, data, orphans, crashed, told>>

\* The watch of a connection event reads the eventfd and calls back.  Of two
\* watches of CONNECTION_ERROR the second finds the eventfd empty and ends.
Notify(e) ==
    /\ stream /\ e \in efd \cap ConnectionEvents
    /\ watches[e] > 0
    /\ efd' = efd \ {e}
    /\ watches' = [watches EXCEPT ![e] = 1]
    /\ crashed' = (e \notin callbacks)
    /\ told' = (told \/ e = "CLOSE")
    /\ UNCHANGED <<conn, callbacks, ping, timers, timeout_id, data, orphans,
                   dangling>>

NotifyClose == Notify("CLOSE")
NotifyConnect == Notify("CONNECT")
NotifyError == Notify("ERROR")
NotifyConnectionError == Notify("CONNECTION_ERROR")

\* Mutant of Deliver: the callback gets the message again and again.
MutDeliver ==
    /\ stream /\ "RECEIVE" \in efd
    /\ watches["RECEIVE"] > 0
    /\ receive_message # 0
    /\ Len(delivered) < MaxMsgs
    /\ delivered' = Append(delivered, receive_message)
    /\ UNCHANGED <<conn, efd, callbacks, watches, ping, timers, timeout_id,
                   send_message, receive_message, written, sent, arrived,
                   orphans, crashed, dangling, told>>

\* os_websocket_receive_callback; the slot is neither freed nor cleared.
Deliver ==
    /\ stream /\ "RECEIVE" \in efd
    /\ watches["RECEIVE"] > 0
    /\ receive_message # 0
    /\ efd' = efd \ {"RECEIVE"}
    /\ delivered' = Append(delivered, receive_message)
    /\ UNCHANGED <<conn, callbacks, watches, ping, timers, timeout_id,
                   send_message, receive_message, written, sent, arrived,
                   orphans, crashed, dangling, told>>

App == \/ Request \/ ReleaseHandle \/ OpenConnectFails \/ Write \/ Close
       \/ \E w \in Wsis : Open(w)
       \/ SetConnectionCallback \/ ClearConnectionCallback
       \/ \E set \in BOOLEAN : SetReceiveCallback(set)

Lws == \/ Established \/ Writeable \/ Receive \/ ReceivePong \/ SslAlert
       \/ ConnectionError \/ PeerCloses

LoopRuns == \/ Ping \/ PongTimeoutFires \/ TimerAfterEnd \/ Deliver
            \/ NotifyClose \/ NotifyConnect \/ NotifyError \/ NotifyConnectionError

\* A NULL call or a use of freed memory ends what can be said.
Defined == ~crashed /\ ~dangling

WsNext == Defined /\ (App \/ Lws \/ LoopRuns)

\* The loop dispatches every ready watch; what the network and the
\* application do is up to them, except that libwebsockets writes when it
\* can.
WsFairness == /\ \A e \in ConnectionEvents : WF_wsvars(Defined /\ Notify(e))
              /\ WF_wsvars(Defined /\ Deliver)
              /\ WF_wsvars(Defined /\ Writeable)

WsSpec == WsInit /\ [][WsNext]_wsvars /\ WsFairness

-----------------------------------------------------------------------------
(* Properties.                                                             *)

\* When a stream is closed none of its timers stays behind to run on the
\* freed interface, however pings, pongs and timeouts fell before.
TimersEndWithStream == WsTypeOK /\ orphans \cap {"timer", "periodic"} = {}

\* Messages go out, and come in, at most once and in the order in which
\* they were written, although each direction has a single slot.
Increasing(s) == \A i, j \in DOMAIN s : i < j => s[i] < s[j]
InOrder == Increasing(sent) /\ Increasing(delivered)

\* No message is accepted for a connection that has been destroyed, even
\* when its address was used before: the marks in requested_node stay.
AcceptedOnlyWhileConnected ==
    [][written' > written => link[wsi] # "free"]_wsvars

\* The application is told of the end of every connection, however it
\* ended, unless it closes the stream itself or has no callback.
EndIsReported ==
    (stream /\ link[wsi] = "free" /\ "CLOSE" \in callbacks)
        ~> (told \/ ~stream \/ "CLOSE" \notin callbacks \/ ~Defined)
=============================================================================
