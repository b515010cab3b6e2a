------------------------------- MODULE Cloud -------------------------------
(***************************************************************************)
(* The cloud module (connectivity/cloud/artik_cloud.c): requests to the    *)
(* REST interface over the HTTP module, the secure registration of a       *)
(* device, and streams over the websocket module.                          *)
(*                                                                         *)
(* Every operation takes a reference of the module it uses from the module *)
(* manager and gives it back; an asynchronous request keeps that of the    *)
(* HTTP module until http_response_callback.  The HTTP and the websocket   *)
(* clients are HttpClient and WebSocket, reduced here to what this module  *)
(* sees of them: a request is refused or answered once, a stream comes up, *)
(* fails or goes down, and holds one message to send.  URLs, headers and   *)
(* bodies are copied by the HTTP client and left out.                      *)
(***************************************************************************)
EXTENDS Naturals, FiniteSets

CONSTANTS ClRequests,   \* asynchronous requests
          ClStreams,    \* handles of streams
          ClMaxSec,     \* bound of the security handles that were requested
          ClUnusual     \* "unknown": a call with a handle that has no node
                        \* "burst": a message is sent before the registration
                        \*   message has left

ASSUME CloudAssumption == ClMaxSec \in Nat

VARIABLES cl_refs,      \* references held: cl_refs["http"], cl_refs["websocket"]
          cl_call,      \* synchronous calls of the HTTP module: 0 or 1
          cl_pending,   \* asynchronous requests the HTTP module has accepted
          cl_answering, \* the request whose callback runs
          cl_answers,   \* cl_answers[r]: calls of the callback of r
          cl_accepted,  \* history: requests that were accepted
          cl_sec,       \* nodes of the security module's list
          cl_nodes,     \* requested_node
          cl_told,      \* streams whose application was told CONNECTED
          cl_link,      \* websocket: "none", "opening", "up", "down"
          cl_events,    \* websocket: events the stream's watches will report
          cl_slot,      \* websocket: the message to send
          cl_first      \* the first message of the stream that was sent

clhttp == <<cl_call, cl_pending, cl_answering, cl_answers, cl_accepted, cl_sec>>
clstreams == <<cl_nodes, cl_told, cl_link, cl_events, cl_slot, cl_first>>
clvars == <<cl_refs, clhttp, clstreams>>

ClMessages == {"none", "register", "message"}

ClTypeOK ==
    /\ cl_refs \in [{"http", "websocket"} -> Nat]
    /\ cl_call \in 0 .. 1 /\ cl_sec \in 0 .. ClMaxSec
    /\ cl_pending \subseteq ClRequests /\ cl_answering \subseteq ClRequests
    /\ cl_accepted \subseteq ClRequests
    /\ cl_answers \in [ClRequests -> Nat]
    /\ cl_nodes \subseteq ClStreams /\ cl_told \subseteq cl_nodes
    /\ cl_link \in [ClStreams -> {"none", "opening", "up", "down"}]
    /\ cl_events \in [ClStreams -> SUBSET {"CONNECTED", "CLOSED", "ERROR"}]
    /\ cl_slot \in [ClStreams -> ClMessages] /\ cl_first \in [ClStreams -> ClMessages]

ClInit ==
    /\ cl_refs = [m \in {"http", "websocket"} |-> 0]
    /\ cl_call = 0 /\ cl_pending = {} /\ cl_answering = {} /\ cl_accepted = {}
    /\ cl_answers = [r \in ClRequests |-> 0] /\ cl_sec = 0
    /\ cl_nodes = {} /\ cl_told = {}
    /\ cl_link = [h \in ClStreams |-> "none"]
    /\ cl_events = [h \in ClStreams |-> {}]
    /\ cl_slot = [h \in ClStreams |-> "none"]
    /\ cl_first = [h \in ClStreams |-> "none"]

-----------------------------------------------------------------------------
(* Requests.  The application calls from its own code or from a callback   *)
(* (cl_answering): not while a synchronous call runs.  r is "sync" or an   *)
(* asynchronous request.                                                   *)

\* artik_request_api_module("http"), then the call.  Refused at once, it gives
\* the reference back, with no answer to come: nothing is left.
Performs(r) ==
    /\ cl_call = 0
    /\ IF r = "sync"
       THEN cl_call' = 1 /\ UNCHANGED <<cl_pending, cl_accepted>>
       ELSE /\ r \notin cl_accepted
            /\ cl_pending' = cl_pending \cup {r}
            /\ cl_accepted' = cl_accepted \cup {r}
            /\ UNCHANGED cl_call
    /\ cl_refs' = [cl_refs EXCEPT !["http"] = @ + 1]
    /\ UNCHANGED <<cl_answering, cl_answers, clstreams>>

\* _artik_cloud_del, _put, _post and _get.
ClDel(r) == Performs(r)

ClPut(r) == Performs(r)

ClPost(r) == Performs(r)

ClGet(r) == Performs(r)

\* The synchronous call returns, with any status; the reference goes back.
SyncReturns ==
    /\ cl_call = 1
    /\ cl_call' = 0
    /\ cl_refs' = [cl_refs EXCEPT !["http"] = @ - 1]
    /\ UNCHANGED <<cl_pending, cl_answering, cl_answers, cl_accepted, cl_sec, clstreams>>

\* http_response_callback up to the application's callback ...
HttpResponds(r) ==
    /\ cl_call = 0 /\ cl_answering = {}
    /\ r \in cl_pending
    /\ cl_pending' = cl_pending \ {r}
    /\ cl_answering' = {r}
    /\ cl_answers' = [cl_answers EXCEPT ![r] = @ + 1]
    /\ UNCHANGED <<cl_refs, cl_call, cl_accepted, cl_sec, clstreams>>

MutCallbackReturns ==
    /\ cl_call = 0 /\ cl_answering # {}
    /\ cl_answering' = {}
    /\ UNCHANGED <<cl_refs, cl_call, cl_pending, cl_answers, cl_accepted, cl_sec, clstreams>>

\* ... and from there on.
CallbackReturns ==
    /\ cl_call = 0 /\ cl_answering # {}
    /\ cl_answering' = {}
    /\ cl_refs' = [cl_refs EXCEPT !["http"] = @ - 1]
    /\ UNCHANGED <<cl_call, cl_pending, cl_answers, cl_accepted, cl_sec, clstreams>>

GetCurrentUserProfile(r) == ClGet(r) /\ UNCHANGED cl_sec

GetUserDevices(r) == ClGet(r) /\ UNCHANGED cl_sec

GetUserDeviceTypes(r) == ClGet(r) /\ UNCHANGED cl_sec

GetUserApplicationProperties(r) == ClGet(r) /\ UNCHANGED cl_sec

GetDevice(r) == ClGet(r) /\ UNCHANGED cl_sec

GetDeviceToken(r) == ClGet(r) /\ UNCHANGED cl_sec

GetDeviceProperties(r) == ClGet(r) /\ UNCHANGED cl_sec

AddDevice(r) == ClPost(r) /\ UNCHANGED cl_sec

SendMessage(r) == ClPost(r) /\ UNCHANGED cl_sec

SendAction(r) == ClPost(r) /\ UNCHANGED cl_sec

SetDeviceServerProperties(r) == ClPost(r) /\ UNCHANGED cl_sec

UpdateDeviceToken(r) == ClPut(r) /\ UNCHANGED cl_sec

DeleteDeviceToken(r) == ClDel(r) /\ UNCHANGED cl_sec

DeleteDevice(r) == ClDel(r) /\ UNCHANGED cl_sec

\* _sdr_fill_ssl_config: security->release gets the address of the handle's
\* variable, which no node has, and removes nothing.
SdrFillSslConfig == cl_sec < ClMaxSec /\ cl_sec' = cl_sec + 1

SdrStartRegistration(r) == SdrFillSslConfig /\ ClPost(r)

SdrRegistrationStatus(r) == SdrFillSslConfig /\ ClGet(r)

SdrCompleteRegistration(r) == SdrFillSslConfig /\ ClPut(r)

\* The certificate is not in the device: no request.
SdrFails ==
    /\ cl_call = 0
    /\ SdrFillSslConfig
    /\ UNCHANGED <<cl_refs, cl_call, cl_pending, cl_answering, cl_answers,
                   cl_accepted, clstreams>>

-----------------------------------------------------------------------------
(* Streams *)

\* A failure of one of its steps leaves nothing and is left out.  The stream is
\* opened before its node and its callback are there: what happens to it waits
\* for the watches.
OpenStream(h) ==
    /\ cl_call = 0
    /\ cl_link[h] = "none"
    /\ cl_link' = [cl_link EXCEPT ![h] = "opening"]
    /\ cl_nodes' = cl_nodes \cup {h}
    /\ UNCHANGED <<cl_refs, clhttp, cl_told, cl_events, cl_slot, cl_first>>

\* websocket_write_stream: a connection that has ended refuses the message, any
\* other one takes it in place of the one it holds.
Written(h, m) ==
    cl_slot' = IF cl_link[h] \in {"opening", "up"} THEN [cl_slot EXCEPT ![h] = m]
               ELSE cl_slot

MutConnectionCallback(h, e) ==
    /\ cl_call = 0
    /\ e \in cl_events[h]
    /\ cl_events' = [cl_events EXCEPT ![h] = @ \ {e}]
    /\ cl_told' = IF e = "CONNECTED" THEN cl_told \cup {h} ELSE cl_told
    /\ UNCHANGED <<cl_refs, clhttp, cl_nodes, cl_link, cl_slot, cl_first>>

\* websocket_connection_callback: the registration message comes before the
\* application's callback.
ConnectionCallback(h, e) ==
    /\ cl_call = 0
    /\ e \in cl_events[h]
    /\ cl_events' = [cl_events EXCEPT ![h] = @ \ {e}]
    /\ IF e = "CONNECTED"
       THEN Written(h, "register") /\ cl_told' = cl_told \cup {h}
       ELSE UNCHANGED <<cl_slot, cl_told>>
    /\ UNCHANGED <<cl_refs, clhttp, cl_nodes, cl_link, cl_first>>

\* A handle without a node: the module is not given back.
Unknown ==
    /\ "unknown" \in ClUnusual
    /\ cl_refs["websocket"] < ClMaxSec
    /\ cl_refs' = [cl_refs EXCEPT !["websocket"] = @ + 1]
    /\ UNCHANGED <<clhttp, clstreams>>

SendStreamMessage(h) ==
    /\ cl_call = 0
    /\ IF h \in cl_nodes
       THEN /\ "burst" \notin ClUnusual => h \in cl_told /\ cl_slot[h] = "none"
            /\ Written(h, "message")
            /\ UNCHANGED <<cl_refs, clhttp, cl_nodes, cl_told, cl_link, cl_events, cl_first>>
       ELSE Unknown

\* The node goes first, then the stream with its watches, then the handle.
CloseStream(h) ==
    /\ cl_call = 0
    /\ IF h \in cl_nodes
       THEN /\ cl_nodes' = cl_nodes \ {h} /\ cl_told' = cl_told \ {h}
            /\ cl_link' = [cl_link EXCEPT ![h] = "none"]
            /\ cl_events' = [cl_events EXCEPT ![h] = {}]
            /\ cl_slot' = [cl_slot EXCEPT ![h] = "none"]
            /\ cl_first' = [cl_first EXCEPT ![h] = "none"]
            /\ UNCHANGED <<cl_refs, clhttp>>
       ELSE Unknown

\* The websocket client: the connection comes up, fails or ends.
StreamChanges(h, from, to, e) ==
    /\ cl_link[h] = from
    /\ cl_link' = [cl_link EXCEPT ![h] = to]
    /\ cl_events' = [cl_events EXCEPT ![h] = @ \cup {e}]
    /\ UNCHANGED <<cl_refs, clhttp, cl_nodes, cl_told, cl_slot, cl_first>>

\* The websocket client: the socket is writeable.
StreamSends(h) ==
    /\ cl_link[h] = "up" /\ cl_slot[h] # "none"
    /\ cl_slot' = [cl_slot EXCEPT ![h] = "none"]
    /\ cl_first' = IF cl_first[h] = "none" THEN [cl_first EXCEPT ![h] = cl_slot[h]]
                   ELSE cl_first
    /\ UNCHANGED <<cl_refs, clhttp, cl_nodes, cl_told, cl_link, cl_events>>

-----------------------------------------------------------------------------

ClNext ==
    \/ \E r \in ClRequests \cup {"sync"} :
          \/ GetCurrentUserProfile(r) \/ GetUserDevices(r) \/ GetUserDeviceTypes(r)
          \/ GetUserApplicationProperties(r) \/ GetDevice(r) \/ GetDeviceToken(r)
          \/ GetDeviceProperties(r) \/ AddDevice(r) \/ SendMessage(r) \/ SendAction(r)
          \/ SetDeviceServerProperties(r) \/ UpdateDeviceToken(r)
          \/ DeleteDeviceToken(r) \/ DeleteDevice(r)
          \/ SdrStartRegistration(r) \/ SdrRegistrationStatus(r)
          \/ SdrCompleteRegistration(r)
    \/ SyncReturns \/ CallbackReturns \/ SdrFails
    \/ \E r \in ClRequests : HttpResponds(r)
    \/ \E h \in ClStreams :
          \/ OpenStream(h) \/ SendStreamMessage(h) \/ CloseStream(h)
          \/ \E e \in {"CONNECTED", "CLOSED", "ERROR"} : ConnectionCallback(h, e)
          \/ StreamChanges(h, "opening", "up", "CONNECTED")
          \/ StreamChanges(h, "opening", "down", "ERROR")
          \/ StreamChanges(h, "up", "down", "CLOSED")
          \/ StreamSends(h)

\* The HTTP module stays loaded until the last answer was handed over and is
\* given back then, whatever the application does inside its callbacks: the
\* module holds one reference for each asynchronous request without an answer,
\* for the callback that runs and for the synchronous call, and no other; every
\* request that was accepted is answered once.  And the first message the cloud
\* gets over a stream is the registration of the device: every message of the
\* application would be refused before it.
HeldForAnswers ==
    /\ ClTypeOK
    /\ cl_refs["http"] = Cardinality(cl_pending) + Cardinality(cl_answering) + cl_call
    /\ cl_refs["websocket"] = 0
    /\ \A r \in cl_accepted : cl_answers[r] = IF r \in cl_pending THEN 0 ELSE 1
    /\ \A h \in ClStreams : cl_first[h] # "message"
=============================================================================
