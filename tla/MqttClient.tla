----------------------------- MODULE MqttClient -----------------------------
(***************************************************************************)
(* The MQTT client on Linux (src/modules/mqtt/linux/mqtt_client.c):        *)
(* clients of libmosquitto that an fd watch and a periodic callback of the *)
(* event loop drive.  Everything runs in the thread of the loop.           *)
(*                                                                         *)
(* A client is the address of its mqtt_handle_client, which a later client *)
(* may have again.  libmosquitto is external: socket[c] is the state of    *)
(* its socket; it reads the files with the certificates when it connects. *)
(***************************************************************************)
EXTENDS Naturals, FiniteSets

CONSTANTS Clients,      \* addresses of mqtt_handle_client
          TlsClients,   \* those whose configuration has tls set
          NoClient,
          MaxConnects,  \* bound: calls of connect that register handlers
          Impatient     \* clients the application connects again as soon as
                        \* it is told of an error, in the callback; it waits
                        \* with the others until both handlers have ended

ASSUME MqttAssumption == /\ TlsClients \subseteq Clients
                         /\ NoClient \notin Clients
                         /\ MaxConnects \in Nat
                         /\ Impatient \subseteq Clients

VARIABLES
    requested_node, \* clients in the list
    socket,         \* "down" (none), "connecting", "up" or "lost"
    regs,           \* handlers registered in the loop
    watch_id,       \* watch_id[c], 0 for none
    periodic_id,    \* periodic_id[c], 0 for none
    connects,       \* calls of connect that registered handlers
    reported,       \* on_connect(E_MQTT_ERROR) since the connection was lost
    files,          \* the client whose certificates are in the temporary files
    undefined       \* freed memory was left in the list, or was written

mqttvars == <<requested_node, socket, regs, watch_id, periodic_id, connects, reported,
              files, undefined>>

MqttIds == 0..(2 * MaxConnects)
Regs == [id : MqttIds \ {0}, kind : {"watch", "periodic"}, client : Clients]

MqttTypeOK == /\ requested_node \subseteq Clients
              /\ socket \in [Clients -> {"down", "connecting", "up", "lost"}]
              /\ regs \subseteq Regs
              /\ watch_id \in [Clients -> MqttIds]
              /\ periodic_id \in [Clients -> MqttIds]
              /\ connects \in 0..MaxConnects
              /\ reported \subseteq Clients
              /\ files \in Clients \cup {NoClient}
              /\ undefined \in BOOLEAN

MqttInit == /\ requested_node = {}
            /\ socket = [c \in Clients |-> "down"]
            /\ regs = {}
            /\ watch_id = [c \in Clients |-> 0]
            /\ periodic_id = [c \in Clients |-> 0]
            /\ connects = 0
            /\ reported = {}
            /\ files = NoClient
            /\ undefined = FALSE

HandlersOf(c) == {r \in regs : r.client = c}

-----------------------------------------------------------------------------
(* The application's calls.                                                *)

\* mqtt_create_client succeeds; tls_write_temp_cert_files writes the files
\* of this client over those of the others.
Create(c) ==
    /\ c \notin requested_node
    /\ requested_node' = requested_node \cup {c}
    /\ watch_id' = [watch_id EXCEPT ![c] = 0]
    /\ periodic_id' = [periodic_id EXCEPT ![c] = 0]
    /\ reported' = reported \ {c}
    /\ files' = IF c \in TlsClients THEN c ELSE files
    /\ UNCHANGED <<socket, regs, connects, undefined>>

\* A parameter is refused after mosquitto_new: the node is deleted again,
\* and the files with it.
CreateRefused(c) ==
    /\ c \notin requested_node
    /\ files' = IF c \in TlsClients THEN NoClient ELSE files
    /\ UNCHANGED <<requested_node, socket, regs, watch_id, periodic_id, connects,
                   reported, undefined>>

\* mosquitto_new returns NULL: the client is freed while it is in the list.
CreateNoMosq(c) ==
    /\ c \notin requested_node
    /\ undefined' = TRUE
    /\ UNCHANGED <<requested_node, socket, regs, watch_id, periodic_id, connects,
                   reported, files>>

\* Mutant of Removed: the periodic callback is forgotten.
MutRemoved(c) == {r \in regs : r.kind = "watch" /\ r.id = watch_id[c]}

\* The handlers that the two ids name.
Removed(c) == {r \in regs : \/ r.kind = "watch" /\ r.id = watch_id[c]
                            \/ r.kind = "periodic" /\ r.id = periodic_id[c]}

\* Mutant of CleanUp: the files go whether or not this client uses TLS.
MutCleanUp(c) == NoClient

\* tls_cleanup_temp_cert_files, if config->tls.
CleanUp(c) == IF c \in TlsClients THEN NoClient ELSE files

\* mqtt_client_destroy_client
Destroy(c) ==
    /\ c \in requested_node
    /\ requested_node' = requested_node \ {c}
    /\ regs' = regs \ Removed(c)
    /\ socket' = [socket EXCEPT ![c] = "down"]
    /\ files' = CleanUp(c)
    /\ UNCHANGED <<watch_id, periodic_id, connects, reported, undefined>>

\* A fresh pair of handlers for the client's new socket.
NewWatch(c) == [id |-> 2 * connects + 1, kind |-> "watch", client |-> c]
NewPeriodic(c) == [id |-> 2 * connects + 2, kind |-> "periodic", client |-> c]

\* mosquitto_connect(_async) returns a socket, which is watched; the
\* periodic callback is registered for the pings.
Registers(c) ==
    /\ connects < MaxConnects
    /\ connects' = connects + 1
    /\ socket' = [socket EXCEPT ![c] = "connecting"]

\* The library only gets a socket for a TLS client if it finds the files.
Ready(c) == c \in TlsClients => files # NoClient

\* mqtt_client_connect
Connect(c) ==
    /\ c \in requested_node /\ socket[c] = "down" /\ HandlersOf(c) = {}
    /\ Ready(c)
    /\ Registers(c)
    /\ regs' = regs \cup {NewWatch(c), NewPeriodic(c)}
    /\ watch_id' = [watch_id EXCEPT ![c] = NewWatch(c).id]
    /\ periodic_id' = [periodic_id EXCEPT ![c] = NewPeriodic(c).id]
    /\ UNCHANGED <<requested_node, reported, files, undefined>>

\* The library reports success and has no socket: the client is destroyed.
ConnectNoSocket(c) ==
    /\ socket[c] = "down" /\ HandlersOf(c) = {}
    /\ Destroy(c)

\* mqtt_client_disconnect: the library closes the socket.
Disconnect(c) ==
    /\ c \in requested_node
    /\ socket[c] # "down"
    /\ socket' = [socket EXCEPT ![c] = "down"]
    /\ UNCHANGED <<requested_node, regs, watch_id, periodic_id, connects,
                   reported, files, undefined>>

-----------------------------------------------------------------------------
(* The handlers.  Each looks its client up in the list first.              *)

\* Mutant of HandlerGone: a handler without client stays registered.
MutHandlerGone(r) ==
    /\ r.client \notin requested_node
    /\ UNCHANGED mqttvars

\* No client of that address: the handler ends itself.
HandlerGone(r) ==
    /\ r.client \notin requested_node
    /\ regs' = regs \ {r}
    /\ UNCHANGED <<requested_node, socket, watch_id, periodic_id, connects,
                   reported, files, undefined>>

\* The library's calls in loop_handler succeed; the broker may have
\* answered, which it tells on_connect_callback.
LoopHandlerOk(r) ==
    LET c == r.client IN
    /\ r.kind = "watch" /\ c \in requested_node
    /\ socket[c] = "connecting"
    /\ socket' = [socket EXCEPT ![c] = "up"]
    /\ UNCHANGED <<requested_node, regs, watch_id, periodic_id, connects,
                   reported, files, undefined>>

\* Mutant of Reported: an error is never reported.
MutReported(c, silent) == reported

\* loop_handle_mosquitto_error: only MOSQ_ERR_NO_CONN, which is what a
\* library without a socket returns, and MOSQ_ERR_CONN_LOST are reported.
Reported(c, silent) == IF silent THEN reported ELSE reported \cup {c}

\* The two ids when handler r returns: it clears its own.
Clears(r, watch, periodic) ==
    /\ watch_id' = [watch_id EXCEPT ![r.client] = IF r.kind = "watch" THEN 0 ELSE watch]
    /\ periodic_id' = [periodic_id EXCEPT ![r.client] =
                          IF r.kind = "periodic" THEN 0 ELSE periodic]

\* One of the library's calls fails in handler r, and the socket is closed
\* if it was not already.
HandlerError(r) ==
    LET c == r.client IN
    /\ c \in requested_node
    /\ socket[c] \in {"lost", "down"}
    /\ \E silent \in BOOLEAN :
         /\ silent => socket[c] = "lost"
         /\ reported' = Reported(c, silent)
    /\ socket' = [socket EXCEPT ![c] = "down"]
    /\ regs' = regs \ {r}
    /\ Clears(r, watch_id[c], periodic_id[c])
    /\ UNCHANGED <<requested_node, connects, files, undefined>>

\* The same; told, the application connects again before the handler
\* returns, and the id that it clears is that of a new registration.
HandlerReconnects(r) ==
    LET c == r.client IN
    /\ c \in requested_node \cap Impatient
    /\ socket[c] \in {"lost", "down"}
    /\ Ready(c)
    /\ Registers(c)
    /\ regs' = (regs \ {r}) \cup {NewWatch(c), NewPeriodic(c)}
    /\ Clears(r, NewWatch(c).id, NewPeriodic(c).id)
    /\ reported' = Reported(c, FALSE)
    /\ UNCHANGED <<requested_node, files, undefined>>

\* The same; told, the application destroys the client, and the handler clears
\* its id in the freed structure.
HandlerDestroys(r) ==
    LET c == r.client IN
    /\ c \in requested_node
    /\ socket[c] \in {"lost", "down"}
    /\ requested_node' = requested_node \ {c}
    /\ regs' = regs \ (Removed(c) \cup {r})
    /\ socket' = [socket EXCEPT ![c] = "down"]
    /\ files' = CleanUp(c)
    /\ reported' = Reported(c, FALSE)
    /\ undefined' = TRUE
    /\ UNCHANGED <<watch_id, periodic_id, connects>>

HandlerFails(r) == HandlerError(r) \/ HandlerReconnects(r) \/ HandlerDestroys(r)

LoopHandlerError(r) == r.kind = "watch" /\ HandlerFails(r)
MiscHandlerError(r) == r.kind = "periodic" /\ HandlerFails(r)

\* The peer or the network ends the connection.
ConnectionLost(c) ==
    /\ socket[c] \in {"connecting", "up"}
    /\ socket' = [socket EXCEPT ![c] = "lost"]
    /\ reported' = reported \ {c}
    /\ UNCHANGED <<requested_node, regs, watch_id, periodic_id, connects, files, undefined>>

MqttNext == /\ ~undefined
            /\ \/ \E c \in Clients :
                    \/ Create(c) \/ CreateRefused(c) \/ CreateNoMosq(c)
                    \/ Destroy(c) \/ Connect(c) \/ ConnectNoSocket(c)
                    \/ Disconnect(c) \/ ConnectionLost(c)
               \/ \E r \in regs : \/ HandlerGone(r) \/ LoopHandlerOk(r)
                                  \/ LoopHandlerError(r) \/ MiscHandlerError(r)

\* The loop calls the handlers whose socket is ready or closed and whose
\* period has elapsed.
MqttFairness ==
    \A c \in Clients, k \in {"watch", "periodic"} :
        WF_mqttvars(/\ ~undefined
                /\ \E r \in HandlersOf(c) :
                     /\ r.kind = k
                     /\ HandlerGone(r) \/ LoopHandlerError(r) \/ MiscHandlerError(r))

MqttSpec == MqttInit /\ [][MqttNext]_mqttvars /\ MqttFairness

-----------------------------------------------------------------------------
(* Properties.                                                             *)

\* Clients that come and go do not disturb each other.  A handler in the
\* loop belongs to a client in the list: destroying a client leaves none
\* behind that would drive a later client at the same address, unless its
\* application is impatient.  As long as a TLS client exists its
\* certificates are in the temporary files, from which libmosquitto reads
\* them whenever it connects, although all clients have the same files:
\* another client that comes and goes without TLS does not touch them.
ClientsAreSeparate ==
    /\ MqttTypeOK
    /\ \A r \in regs : r.client \in requested_node \cup Impatient
    /\ \A c \in TlsClients \cap requested_node : files = c

\* A connection that is lost is reported, although loop_handler swallows
\* every error but two: the other handler then meets the closed socket.
LossIsReported ==
    \A c \in Clients : socket[c] = "lost"
        ~> (c \in reported \/ c \notin requested_node \/ undefined)

\* The handlers that an impatient application left behind end when they
\* find no client at their address.
StrayHandlersEnd ==
    \A c \in Clients : c \notin requested_node
        ~> (HandlersOf(c) = {} \/ c \in requested_node \/ undefined)
=============================================================================
