----------------------------- MODULE CoapHandles -----------------------------
(***************************************************************************)
(* CoAP clients and servers on Linux (src/modules/coap/linux/linux_coap.c) *)
(* on top of libcoap, which is external.                                   *)
(*                                                                         *)
(* A connected client and a started server are driven by an idle callback  *)
(* of the event loop that runs the handle's libcoap context.  The callback *)
(* gets a heap block (coap_data); blocks are numbered in the order of      *)
(* their allocation.  All calls are made in the thread of the loop: from   *)
(* the outside, or from the callbacks that message_handler and             *)
(* nack_handler make, which is where `handler' is set.                     *)
(***************************************************************************)
EXTENDS Naturals

CONSTANTS Clients, Servers,
          Ids,          \* requests of a client, each with its token
          Paths,        \* resources of a server
          MaxBlocks,    \* bound: coap_data blocks allocated
          Unusual       \* which unusual conduct occurs, a subset of Conduct

\* "in_nack": the callback that reports a nack connects, disconnects or
\* destroys its client.  "in_message": the one that reports a response
\* destroys its client.  "pipelines": a request is sent while another one of
\* the client is outstanding or observes.  "late": responses come twice, or
\* after the request was given up.
Conduct == {"in_nack", "in_message", "pipelines", "late"}

ASSUME CoapAssumption == /\ Clients \cap Servers = {}
                         /\ 0 \notin Ids
                         /\ MaxBlocks \in Nat
                         /\ Unusual \subseteq Conduct

Handles == Clients \cup Servers
Blocks == 1..MaxBlocks

VARIABLES
    node,               \* handles in requested_node, with a context
    session,            \* clients whose session is not NULL
    connected,          \* clients whose connected is true
    started,            \* servers whose started is true
    coap_data,          \* coap_data[h]: the block, 0 if NULL
    blocks,             \* blocks allocated so far
    freed,              \* blocks that were freed
    twice,              \* a block was freed twice
    idle,               \* idle[h]: blocks whose idle callback is registered
    send_cb,            \* clients whose send_cb is set
    observe_cb,         \* clients whose observe_cb is set
    optlist,            \* optlist[c]: the request whose options it holds
    method,             \* method[c]: the request whose method and type it holds
    pending,            \* pending[c]: requests in c's context without answer
    observing,          \* observing[c]: observations not cancelled
    con,                \* requests that are confirmable
    mixed,              \* a block request had another request's options
    handler,            \* the handler that libcoap is in, or NoHandler; told:
                        \* the request that its callbacks report, if any
    resources,          \* resources[s]: paths in requested_resource_node
    dirty               \* dirty[s]: resources that observers wait for

heap == <<coap_data, blocks, freed, twice, idle>>
callbacks == <<send_cb, observe_cb>>
latest == <<optlist, method>>
requests == <<pending, observing, con, mixed>>
client == <<session, connected, callbacks, latest, requests>>
server == <<started, resources, dirty>>
vars == <<node, heap, client, handler, server>>

Reasons == {"retries", "undeliverable", "tls", "rst"}
NoHandler == [h |-> "none", kind |-> "none", error |-> "none", told |-> {}]

TypeOK == /\ node \subseteq Handles
          /\ session \subseteq Clients /\ connected \subseteq Clients
          /\ started \subseteq Servers
          /\ coap_data \in [Handles -> 0..blocks] /\ blocks \in 0..MaxBlocks
          /\ freed \subseteq 1..blocks /\ twice \in BOOLEAN
          /\ idle \in [Handles -> SUBSET (1..blocks)]
          /\ send_cb \subseteq Clients /\ observe_cb \subseteq Clients
          /\ optlist \in [Clients -> Ids \cup {0}]
          /\ method \in [Clients -> Ids \cup {0}]
          /\ pending \in [Clients -> SUBSET Ids]
          /\ observing \in [Clients -> SUBSET Ids]
          /\ con \subseteq Ids
          /\ mixed \in BOOLEAN
          /\ handler \in {NoHandler}
                \cup [h : Clients, kind : {"message"}, error : {"none"},
                      told : SUBSET Ids]
                \cup [h : Clients, kind : {"nack"}, error : Reasons,
                      told : SUBSET Ids]
          /\ resources \in [Servers -> SUBSET Paths]
          /\ dirty \in [Servers -> SUBSET Paths]

Init == /\ node = {} /\ session = {} /\ connected = {} /\ started = {}
        /\ coap_data = [h \in Handles |-> 0]
        /\ blocks = 0 /\ freed = {} /\ twice = FALSE
        /\ idle = [h \in Handles |-> {}]
        /\ send_cb = {} /\ observe_cb = {}
        /\ optlist = [c \in Clients |-> 0] /\ method = [c \in Clients |-> 0]
        /\ pending = [c \in Clients |-> {}]
        /\ observing = [c \in Clients |-> {}]
        /\ con = {} /\ mixed = FALSE
        /\ handler = NoHandler
        /\ resources = [s \in Servers |-> {}]
        /\ dirty = [s \in Servers |-> {}]

\* Handles of libcoap's callback that the application is in.
In(h, kind) == handler.h = h /\ handler.kind = kind

-----------------------------------------------------------------------------
(* The driver: coap_data and its idle callback.                            *)

\* malloc may fail (1), or add_idle_callback (2); after 3 the driver runs.
Outcomes == 1..3

AddDriver(h, outcome) ==
    LET block == blocks + 1 IN
    IF outcome = 1
      THEN /\ coap_data' = [coap_data EXCEPT ![h] = 0]
           /\ UNCHANGED <<blocks, freed, twice, idle>>
      ELSE /\ blocks < MaxBlocks
           /\ blocks' = block
           /\ coap_data' = [coap_data EXCEPT ![h] = block]
           /\ idle' = IF outcome = 3 THEN [idle EXCEPT ![h] = @ \cup {block}]
                                     ELSE idle
           /\ UNCHANGED <<freed, twice>>

\* remove_idle_callback and free; the pointer is not cleared.
RemoveDriver(h) ==
    /\ idle' = [idle EXCEPT ![h] = @ \ {coap_data[h]}]
    /\ freed' = freed \cup {coap_data[h]}
    /\ twice' = (twice \/ coap_data[h] \in freed)
    /\ UNCHANGED <<coap_data, blocks>>

-----------------------------------------------------------------------------
(* Calls on a client.                                                      *)

CreateClient(c) ==
    /\ c \notin node
    /\ node' = node \cup {c}
    /\ coap_data' = [coap_data EXCEPT ![c] = 0]
    /\ optlist' = [optlist EXCEPT ![c] = 0]
    /\ method' = [method EXCEPT ![c] = 0]
    /\ UNCHANGED <<session, connected, callbacks, requests, blocks, freed, twice,
                   idle, handler, server>>

\* The calls that the application makes, in a callback only as Unusual says.
MayReconnect(c) == In(c, "nack") => "in_nack" \in Unusual
MayDestroy(c) == /\ MayReconnect(c)
                 /\ In(c, "message") => "in_message" \in Unusual

\* Mutant of DestroyClient: the test of connected is left out.
MutDestroyClient(c) ==
    /\ c \in node
    /\ MayDestroy(c)
    /\ node' = node \ {c}
    /\ session' = session \ {c}
    /\ optlist' = [optlist EXCEPT ![c] = 0]
    /\ pending' = [pending EXCEPT ![c] = {}]
    /\ observing' = [observing EXCEPT ![c] = {}]
    /\ send_cb' = send_cb \ {c} /\ observe_cb' = observe_cb \ {c}
    /\ UNCHANGED <<connected, method, con, mixed, heap,
                   handler, server>>

\* The context goes with its queue of messages.
DestroyClient(c) ==
    /\ c \in node
    /\ MayDestroy(c)
    /\ c \notin connected
    /\ node' = node \ {c}
    /\ session' = session \ {c}
    /\ optlist' = [optlist EXCEPT ![c] = 0]
    /\ pending' = [pending EXCEPT ![c] = {}]
    /\ observing' = [observing EXCEPT ![c] = {}]
    /\ send_cb' = send_cb \ {c} /\ observe_cb' = observe_cb \ {c}
    /\ UNCHANGED <<connected, method, con, mixed, heap,
                   handler, server>>

\* Mutant of Connect: the test of connected is left out.
MutConnect(c) ==
    /\ c \in node /\ MayReconnect(c)
    /\ session' = session \cup {c}
    /\ \E outcome \in Outcomes :
         /\ AddDriver(c, outcome)
         /\ connected' = IF outcome = 3 THEN connected \cup {c} ELSE connected
    /\ UNCHANGED <<node, callbacks, latest, requests, handler, server>>

\* The URI is good, its host known and the session made (otherwise nothing
\* changes).  An old session is not released, its requests stay queued.
Connect(c) ==
    /\ c \in node /\ MayReconnect(c)
    /\ c \notin connected
    /\ session' = session \cup {c}
    /\ \E outcome \in Outcomes :
         /\ AddDriver(c, outcome)
         /\ connected' = IF outcome = 3 THEN connected \cup {c} ELSE connected
    /\ UNCHANGED <<node, callbacks, latest, requests, handler, server>>

\* libcoap keeps confirmable messages in the context's queue until they are
\* answered or given up; the others go with the session.
Disconnect(c) ==
    /\ c \in node /\ MayReconnect(c)
    /\ c \in connected
    /\ session' = session \ {c}
    /\ \/ /\ c \in session /\ coap_data[c] # 0
          /\ RemoveDriver(c)
          /\ connected' = connected \ {c}
       \/ /\ c \notin session \/ coap_data[c] = 0
          /\ UNCHANGED <<connected, heap>>
    /\ pending' = [pending EXCEPT ![c] = @ \cap con]
    /\ observing' = [observing EXCEPT ![c] = {}]
    /\ UNCHANGED <<node, callbacks, latest, con, mixed,
                   handler, server>>

SetSendCallback(c) ==
    /\ c \in node
    /\ send_cb' = send_cb \cup {c}
    /\ UNCHANGED <<node, session, connected, observe_cb, latest, requests, heap,
                   handler, server>>

SetObserveCallback(c) ==
    /\ c \in node
    /\ observe_cb' = observe_cb \cup {c}
    /\ UNCHANGED <<node, session, connected, send_cb, latest, requests, heap,
                   handler, server>>

-----------------------------------------------------------------------------
(* Requests.                                                               *)

\* The application has one request at a time, unless it pipelines.
MaySend(c, i) == \/ "pipelines" \in Unusual
                 \/ pending[c] \cup observing[c] \subseteq {i}

\* Mutant of Keeps: the options of an earlier request stay.
MutKeeps(c, i) == /\ optlist' = [optlist EXCEPT ![c] = IF @ = 0 THEN i ELSE @]
                  /\ method' = [method EXCEPT ![c] = i]

\* The options, method and type of the latest request are kept for
\* message_handler.
Keeps(c, i) == /\ optlist' = [optlist EXCEPT ![c] = i]
               /\ method' = [method EXCEPT ![c] = i]

\* The request goes out.  That session is not NULL does not mean that the
\* client is connected: a nack leaves it.
Sends(c, i) ==
    /\ c \in node /\ c \in session
    /\ MaySend(c, i)
    /\ Keeps(c, i)
    /\ pending' = [pending EXCEPT ![c] = @ \cup {i}]

\* A token is used again only when nothing is to come for it.
Unused(i) == \A c \in Clients : i \notin pending[c] \cup observing[c]

SendMessage(c, i) ==
    /\ Unused(i)
    /\ Sends(c, i)
    /\ con' \in {con \ {i}, con \cup {i}}
    /\ UNCHANGED <<node, session, connected, callbacks, observing, mixed,
                   heap, handler, server>>

Observe(c, i) ==
    /\ Unused(i)
    /\ Sends(c, i)
    /\ observing' = [observing EXCEPT ![c] = @ \cup {i}]
    /\ con' \in {con \ {i}, con \cup {i}}
    /\ UNCHANGED <<node, session, connected, callbacks, mixed,
                   heap, handler, server>>

\* A GET with the path and token of the observation, always confirmable.
CancelObserve(c, i) ==
    /\ i \in observing[c]
    /\ Sends(c, i)
    /\ observing' = [observing EXCEPT ![c] = @ \ {i}]
    /\ con' = con \cup {i}
    /\ UNCHANGED <<node, session, connected, callbacks, mixed,
                   heap, handler, server>>

\* The three fail: the options are bad or no message can be made, and the
\* method is that of the request before; or coap_send fails.
SendFails(c) ==
    /\ c \in node /\ c \in session
    /\ MaySend(c, 0)
    /\ optlist' = [optlist EXCEPT ![c] = 0]
    /\ method' \in {method, [method EXCEPT ![c] = 0]}
    /\ UNCHANGED <<node, session, connected, callbacks, requests, heap, handler,
                   server>>

-----------------------------------------------------------------------------
(* client_loop_handler: libcoap calls message_handler or nack_handler.     *)

Runs(c) == handler = NoHandler /\ idle[c] # {}

\* A block request for the next part of i's response, sent with i's token
\* and the options, method and type of the latest request.
Continue(c, i) ==
    /\ mixed' = (mixed \/ optlist[c] # i \/ method[c] # i)
    /\ con' = IF method[c] \in con THEN con \cup {i} ELSE con \ {i}
    /\ pending' = [pending EXCEPT ![c] = @ \cup {i}]

\* Nothing more is requested, or coap_send fails.
Ends(c, i) ==
    /\ pending' = [pending EXCEPT ![c] = @ \ {i}]
    /\ UNCHANGED <<mixed, con>>

\* A response: with an Observe option or not; whole, or a block that is the
\* last one or not; an error code or not.
Responses == [observe : BOOLEAN, block : {"no", "last", "more"}, bad : BOOLEAN]

ToObserveCb(c, r) == c \in observe_cb /\ (r.observe \/ r.block # "no" \/ r.bad)

\* Mutant of ToSendCb: the negation is lost.
MutToSendCb(c, r) == c \in send_cb /\ r.observe

ToSendCb(c, r) == c \in send_cb /\ ~r.observe

MessageHandler(c, i) ==
    /\ Runs(c)
    /\ \/ i \in pending[c] \cup observing[c]
       \/ "late" \in Unusual
    /\ \E r \in Responses :
         /\ r.observe => i \in observing[c]
         /\ \/ r.block = "more" /\ Continue(c, i)
            \/ Ends(c, i)
         /\ handler' = [h |-> c, kind |-> "message", error |-> "none",
                        told |-> IF ToObserveCb(c, r) \/ ToSendCb(c, r)
                                   THEN {i} ELSE {}]
    /\ UNCHANGED <<node, session, connected, callbacks, latest, observing, heap,
                   server>>

\* The error that the callbacks get.
NackError(reason) == reason

\* Everything that is queued may be given up at once: the nacks after the
\* first one find the client not connected.
NackHandler(c, i) ==
    /\ Runs(c) /\ c \in connected
    /\ i \in pending[c] \cap con
    /\ \E reason \in Reasons, others \in SUBSET (pending[c] \cap con) :
         /\ reason = "rst" => others = {}
         /\ connected' = IF reason = "rst" THEN connected ELSE connected \ {c}
         /\ pending' = [pending EXCEPT ![c] = @ \ (others \cup {i})]
         /\ observing' = [observing EXCEPT ![c] = @ \ (others \cup {i})]
         /\ handler' = [h |-> c, kind |-> "nack", error |-> NackError(reason),
                        told |-> IF c \in send_cb \cup observe_cb THEN {i} ELSE {}]
    /\ UNCHANGED <<node, session, callbacks, latest, con, mixed, heap, server>>

\* The callbacks have returned.
MessageReturns(c) ==
    /\ In(c, "message")
    /\ handler' = NoHandler
    /\ UNCHANGED <<node, heap, client, server>>

\* nack_handler goes on with the node as the callbacks left it.
NackReturns(c) ==
    /\ In(c, "nack")
    /\ IF coap_data[c] # 0 /\ c \notin connected THEN RemoveDriver(c)
                                                 ELSE UNCHANGED heap
    /\ handler' = NoHandler
    /\ UNCHANGED <<node, client, server>>

-----------------------------------------------------------------------------
(* Servers.                                                                *)

CreateServer(s) ==
    /\ s \notin node
    /\ node' = node \cup {s}
    /\ coap_data' = [coap_data EXCEPT ![s] = 0]
    /\ UNCHANGED <<client, server, blocks, freed, twice, idle, handler>>

\* The context and the resources go.
DestroyServer(s) ==
    /\ s \in node /\ s \notin started
    /\ node' = node \ {s}
    /\ resources' = [resources EXCEPT ![s] = {}]
    /\ dirty' = [dirty EXCEPT ![s] = {}]
    /\ UNCHANGED <<client, started, heap, handler>>

\* Those before the first one that fails stay.
InitResources(s) ==
    /\ s \in node
    /\ \E new \in SUBSET Paths :
         resources' = [resources EXCEPT ![s] = @ \cup new]
    /\ UNCHANGED <<node, client, started, dirty, heap, handler>>

StartServer(s) ==
    /\ s \in node /\ s \notin started
    /\ \E outcome \in Outcomes :
         /\ AddDriver(s, outcome)
         /\ started' = IF outcome = 3 THEN started \cup {s} ELSE started
    /\ UNCHANGED <<node, client, resources, dirty, handler>>

StopServer(s) ==
    /\ s \in node /\ s \in started /\ coap_data[s] # 0
    /\ RemoveDriver(s)
    /\ started' = started \ {s}
    /\ UNCHANGED <<node, client, resources, dirty, handler>>

NotifyResourceChanged(s, p) ==
    /\ s \in node /\ p \in resources[s]
    /\ dirty' = [dirty EXCEPT ![s] = @ \cup {p}]
    /\ UNCHANGED <<node, client, started, resources, heap, handler>>

\* Mutant of ServerLoopHandler: coap_check_notify is not called.
MutServerLoopHandler(s) ==
    /\ handler = NoHandler /\ idle[s] # {}
    /\ \E p \in resources[s] : dirty' = [dirty EXCEPT ![s] = @ \cup {p}]
    /\ UNCHANGED <<node, client, started, resources, heap, handler>>

\* server_loop_handler: a request may come in, whose resource handler calls
\* the application, which may say that resources changed; coap_check_notify
\* then tells all observers.
ServerLoopHandler(s) ==
    /\ handler = NoHandler /\ idle[s] # {}
    /\ dirty' = [dirty EXCEPT ![s] = {}]
    /\ UNCHANGED <<node, client, started, resources, heap, handler>>

-----------------------------------------------------------------------------
Resolve(c, i) == MessageHandler(c, i) \/ NackHandler(c, i)
Returns(c) == MessageReturns(c) \/ NackReturns(c)

Next == \/ \E c \in Clients :
             \/ CreateClient(c) \/ DestroyClient(c)
             \/ Connect(c) \/ Disconnect(c)
             \/ SetSendCallback(c) \/ SetObserveCallback(c)
             \/ SendFails(c) \/ Returns(c)
             \/ \E i \in Ids : \/ SendMessage(c, i) \/ Observe(c, i)
                               \/ CancelObserve(c, i) \/ Resolve(c, i)
        \/ \E s \in Servers :
             \/ CreateServer(s) \/ DestroyServer(s) \/ InitResources(s)
             \/ StartServer(s) \/ StopServer(s) \/ ServerLoopHandler(s)
             \/ \E p \in Paths : NotifyResourceChanged(s, p)

\* Callbacks return; the loop calls every idle callback again and again; and
\* libcoap answers a confirmable request or gives it up after its last
\* retransmission, in one of the calls.
Fairness == /\ \A c \in Clients : WF_vars(Returns(c))
            /\ \A c \in Clients, i \in Ids : SF_vars(Resolve(c, i))
            /\ \A s \in Servers : SF_vars(ServerLoopHandler(s))

Spec == Init /\ [][Next]_vars /\ Fairness

-----------------------------------------------------------------------------
(* Properties.                                                             *)

Active(h) == h \in connected \cup started

\* A connected client and a started server have exactly one idle callback,
\* the one of their coap_data; any other handle has none.  Connections that
\* are made, lost by a nack and made again never add up.
\* An idle callback never finds its coap_data or its context freed, nor does
\* a handler find its node gone, and no block is freed twice, though the
\* pointer is kept after the free.
DriverAlive ==
    /\ TypeOK
    /\ handler = NoHandler =>
         \A h \in Handles : idle[h] = IF Active(h) THEN {coap_data[h]} ELSE {}
    /\ ~twice
    /\ \A h \in Handles : /\ idle[h] \cap freed = {}
                          /\ idle[h] # {} => h \in node
    /\ handler # NoHandler => handler.h \in node

\* A block request asks for the next part of the response that its token
\* belongs to, though its options and method are those of the latest request.
ContinuesItsRequest == ~mixed

\* A confirmable request of a client that has both callbacks is reported to
\* one of them, unless the connection goes down.
RequestReported ==
    \A c \in Clients, i \in Ids :
        (i \in pending[c] \cap con /\ c \in connected \cap send_cb \cap observe_cb)
          ~> (i \in handler.told \/ c \notin connected)

\* A change of a resource reaches the observers of a server that stays up.
ChangeNotified ==
    \A s \in Servers, p \in Paths :
        (p \in dirty[s] /\ s \in started) ~> (p \notin dirty[s] \/ s \notin started)
=============================================================================
