-------------------------- MODULE CoapHandlesProofs --------------------------
(***************************************************************************)
(* Proofs about CoapHandles, for every number of clients, servers,         *)
(* requests and blocks.                                                    *)
(*                                                                         *)
(* DriverAlive is proved for applications that neither connect, disconnect *)
(* nor destroy a client in its callbacks (Usual).  Between the moment when *)
(* a nack takes a client from the connected ones and the end of its        *)
(* handler the driver is still there: a handle is driven when it is active *)
(* or in nack_handler, and no two handles have the same block (DriverInv). *)
(* ContinuesItsRequest is proved for clients that have one request at a    *)
(* time and get no late responses: its options are then those that are     *)
(* kept (KeptInv).                                                         *)
(***************************************************************************)
EXTENDS CoapHandles, TLAPS

\* The application leaves its client alone in a callback.
Usual == "in_nack" \notin Unusual /\ "in_message" \notin Unusual

Driven(h) == h \in connected \/ h \in started \/ In(h, "nack")

\* A handle is driven by the idle callback of its block; blocks that are in use
\* are neither freed nor shared.
DriverInv ==
    /\ node \subseteq Handles
    /\ connected \subseteq Clients \cap node /\ started \subseteq Servers \cap node
    /\ blocks \in Nat /\ blocks <= MaxBlocks
    /\ coap_data \in [Handles -> 0..blocks]
    /\ freed \subseteq 1..blocks
    /\ twice = FALSE
    /\ idle = [h \in Handles |-> IF Driven(h) THEN {coap_data[h]} ELSE {}]
    /\ \A h \in Handles : Driven(h) => coap_data[h] # 0 /\ coap_data[h] \notin freed
    /\ \A g, h \in Handles : g # h /\ coap_data[g] = coap_data[h] => coap_data[g] = 0
    /\ handler # NoHandler => /\ handler.h \in Clients \cap node
                              /\ handler.kind \in {"message", "nack"}

driver == <<node, connected, started, heap, handler>>

-----------------------------------------------------------------------------
(* The driver.                                                             *)

LEMMA Bounds == MaxBlocks \in Nat /\ Clients \cap Servers = {}
BY CoapAssumption

LEMMA DriverInit == Init => DriverInv
<1> SUFFICES ASSUME Init PROVE DriverInv
  OBVIOUS
<1>1. blocks = 0 /\ coap_data = [h \in Handles |-> 0] /\ idle = [h \in Handles |-> {}]
  BY DEF Init
<1>2. \A h \in Handles : ~Driven(h)
  BY DEF Init, Driven, In, NoHandler
<1>3. coap_data \in [Handles -> 0..blocks] /\ blocks \in Nat /\ blocks <= MaxBlocks
  BY <1>1, Bounds
<1> QED BY <1>1, <1>2, <1>3 DEF Init, DriverInv

\* A new block is allocated for h, and its idle callback registered.
LEMMA AddStep ==
    ASSUME DriverInv, NEW h \in node, NEW outcome \in Outcomes, AddDriver(h, outcome),
           ~Driven(h), ~Driven(h)' \/ outcome = 3, Driven(h)' \/ outcome # 3,
           \A g \in Handles \ {h} : Driven(g)' <=> Driven(g),
           UNCHANGED <<node, handler>>,
           connected' \subseteq Clients \cap node, started' \subseteq Servers \cap node
    PROVE  DriverInv'
<1>1. h \in Handles
  BY DEF DriverInv
<1>2. CASE outcome = 1
  <2>1. /\ coap_data' = [coap_data EXCEPT ![h] = 0] /\ idle' = idle
        /\ UNCHANGED <<blocks, freed, twice>>
    BY <1>2 DEF AddDriver
  <2>2. coap_data' \in [Handles -> 0..blocks'] /\ blocks' \in Nat /\ blocks' <= MaxBlocks
    BY <1>1, <2>1, Bounds DEF DriverInv
  <2>3. \A g \in Handles : Driven(g)' => coap_data'[g] = coap_data[g] /\ Driven(g)
    BY <1>1, <1>2, <2>1 DEF DriverInv
  <2>4. idle' = [g \in Handles |-> IF Driven(g)' THEN {coap_data'[g]} ELSE {}]
    <3>1. \A g \in Handles : Driven(g)' <=> Driven(g)
      BY <1>2
    <3>2. \A g \in Handles : idle[g] = IF Driven(g)' THEN {coap_data'[g]} ELSE {}
      BY <2>3, <3>1 DEF DriverInv
    <3>3. idle = [g \in Handles |-> idle[g]]
      BY DEF DriverInv
    <3> QED BY <2>1, <3>2, <3>3
  <2>5. \A g \in Handles : Driven(g)' => coap_data'[g] # 0 /\ coap_data'[g] \notin freed'
    BY <2>1, <2>3 DEF DriverInv
  <2>6. \A g, k \in Handles : g # k /\ coap_data'[g] = coap_data'[k] => coap_data'[g] = 0
    BY <1>1, <2>1 DEF DriverInv
  <2> QED BY <2>1, <2>2, <2>4, <2>5, <2>6 DEF DriverInv
<1>3. CASE outcome # 1
  <2> DEFINE block == blocks + 1
  <2>1. /\ blocks < MaxBlocks /\ blocks' = block /\ UNCHANGED <<freed, twice>>
        /\ coap_data' = [coap_data EXCEPT ![h] = block]
        /\ idle' = IF outcome = 3 THEN [idle EXCEPT ![h] = @ \cup {block}] ELSE idle
    BY <1>3 DEF AddDriver
  <2>2. blocks \in Nat /\ block \in Nat /\ block # 0 /\ block \notin freed /\ block <= MaxBlocks
        /\ \A g \in Handles : coap_data[g] # block
    BY <2>1, Bounds DEF DriverInv
  <2>3. coap_data' \in [Handles -> 0..blocks'] /\ freed' \subseteq 1..blocks'
    BY <1>1, <2>1, <2>2 DEF DriverInv
  <2> HIDE DEF block
  <2>4. idle' = [g \in Handles |-> IF Driven(g)' THEN {coap_data'[g]} ELSE {}]
    <3>1. idle[h] = {} /\ coap_data'[h] = block
      BY <1>1, <2>1 DEF DriverInv
    <3>2. \A g \in Handles \ {h} : idle'[g] = IF Driven(g)' THEN {coap_data'[g]} ELSE {}
      BY <2>1 DEF DriverInv
    <3>3. idle'[h] = IF Driven(h)' THEN {coap_data'[h]} ELSE {}
      <4>1. idle' = IF outcome = 3 THEN [idle EXCEPT ![h] = {} \cup {block}] ELSE idle
        BY <2>1, <3>1
      <4>2. CASE outcome = 3
        BY <1>1, <3>1, <4>1, <4>2 DEF DriverInv
      <4>3. CASE outcome # 3
        BY <3>1, <4>1, <4>3
      <4> QED BY <4>2, <4>3
    <3>4. \A g \in Handles : idle'[g] = IF Driven(g)' THEN {coap_data'[g]} ELSE {}
      BY <3>2, <3>3
    <3>5. idle' = [g \in Handles |-> idle'[g]]
      BY <2>1 DEF DriverInv
    <3> QED BY <3>4, <3>5
  <2>5. \A g \in Handles : Driven(g)' => coap_data'[g] # 0 /\ coap_data'[g] \notin freed'
    BY <1>1, <2>1, <2>2 DEF DriverInv
  <2>6. \A g, k \in Handles : g # k /\ coap_data'[g] = coap_data'[k] => coap_data'[g] = 0
    BY <1>1, <2>1, <2>2 DEF DriverInv
  <2> QED BY <2>1, <2>2, <2>3, <2>4, <2>5, <2>6 DEF DriverInv
<1> QED BY <1>2, <1>3

\* The idle callback of h is removed and its block freed, once.
LEMMA RemoveStep ==
    ASSUME DriverInv, NEW h \in Handles, RemoveDriver(h), Driven(h), ~Driven(h)',
           \A g \in Handles \ {h} : Driven(g)' <=> Driven(g), node' = node,
           connected' \subseteq Clients \cap node, started' \subseteq Servers \cap node,
           handler' \in {NoHandler, handler}
    PROVE  DriverInv'
<1>1. /\ idle' = [idle EXCEPT ![h] = @ \ {coap_data[h]}]
      /\ freed' = freed \cup {coap_data[h]}
      /\ UNCHANGED <<coap_data, blocks>>
  BY DEF RemoveDriver
<1>2. twice' = FALSE
  BY DEF RemoveDriver, DriverInv
<1>3. idle' = [g \in Handles |-> IF Driven(g)' THEN {coap_data'[g]} ELSE {}]
  <2>1. \A g \in Handles \ {h} : idle'[g] = IF Driven(g)' THEN {coap_data'[g]} ELSE {}
    BY <1>1 DEF DriverInv
  <2>2. idle'[h] = {}
    BY <1>1 DEF DriverInv
  <2>3. \A g \in Handles : idle'[g] = IF Driven(g)' THEN {coap_data'[g]} ELSE {}
    BY <2>1, <2>2
  <2>4. idle' = [g \in Handles |-> idle'[g]]
    BY <1>1 DEF DriverInv
  <2> QED BY <2>3, <2>4
<1>4. \A g \in Handles : Driven(g)' => coap_data'[g] # 0 /\ coap_data'[g] \notin freed'
  BY <1>1 DEF DriverInv
<1>5. freed' \subseteq 1..blocks'
  <2>1. coap_data[h] \in 0..blocks /\ coap_data[h] # 0 /\ blocks \in Nat
    BY DEF DriverInv
  <2>2. coap_data[h] \in 1..blocks
    BY <2>1
  <2> QED BY <1>1, <2>2 DEF DriverInv
<1> QED BY <1>1, <1>2, <1>3, <1>4, <1>5 DEF DriverInv

\* Handles are made and destroyed when nothing drives them.
LEMMA HandleStep ==
    ASSUME DriverInv, NEW h \in Handles, ~Driven(h),
           \/ /\ node' = node \cup {h}
              /\ coap_data' = [coap_data EXCEPT ![h] = 0]
           \/ /\ node' = node \ {h} /\ coap_data' = coap_data
              /\ handler # NoHandler => handler.h # h,
           UNCHANGED <<blocks, freed, twice, idle, connected, started, handler>>
    PROVE  DriverInv'
<1>1. \A g \in Handles : (Driven(g)' <=> Driven(g)) /\ (Driven(g) => coap_data'[g] = coap_data[g])
  BY DEF Driven, In, DriverInv
<1>2. coap_data' \in [Handles -> 0..blocks']
  BY DEF DriverInv
<1>3. idle' = [g \in Handles |-> IF Driven(g)' THEN {coap_data'[g]} ELSE {}]
  <2>1. \A g \in Handles : idle[g] = IF Driven(g)' THEN {coap_data'[g]} ELSE {}
    BY <1>1 DEF DriverInv
  <2>2. idle = [g \in Handles |-> idle[g]]
    BY DEF DriverInv
  <2> QED BY <2>1, <2>2
<1>4. connected \subseteq node' /\ started \subseteq node'
  BY DEF Driven, DriverInv
<1>5. \A g \in Handles : Driven(g)' => coap_data'[g] # 0 /\ coap_data'[g] \notin freed'
  BY <1>1 DEF DriverInv
<1>6. \A g, k \in Handles : g # k /\ coap_data'[g] = coap_data'[k] => coap_data'[g] = 0
  BY DEF DriverInv
<1>7. handler' # NoHandler => /\ handler'.h \in Clients \cap node'
                              /\ handler'.kind \in {"message", "nack"}
  BY DEF DriverInv
<1>8. node' \subseteq Handles
  BY DEF DriverInv
<1> QED BY <1>2, <1>3, <1>4, <1>5, <1>6, <1>7, <1>8 DEF DriverInv

\* libcoap calls a handler, or the handler returns, and everything that was
\* driven still is.
LEMMA HandlerStep ==
    ASSUME DriverInv, \A h \in Handles : Driven(h)' <=> Driven(h),
           connected' \subseteq connected, UNCHANGED <<node, started, heap>>,
           handler' # NoHandler => /\ handler'.h \in Clients \cap node
                                   /\ handler'.kind \in {"message", "nack"}
    PROVE  DriverInv'
<1>1. idle' = [g \in Handles |-> IF Driven(g)' THEN {coap_data'[g]} ELSE {}]
  BY DEF DriverInv, heap
<1> QED BY <1>1 DEF DriverInv, heap

\* The actions that leave the driver alone.
LEMMA DriverStays == ASSUME DriverInv, UNCHANGED driver PROVE DriverInv'
BY DEF driver, heap, DriverInv, Driven, In

LEMMA Kinds == ASSUME DriverInv PROVE
    /\ \A c \in Clients : c \notin started /\ c \in Handles
    /\ \A s \in Servers : s \notin connected /\ ~In(s, "nack") /\ s \in Handles
    /\ \A h \in Handles : In(h, "nack") \/ In(h, "message") => handler # NoHandler /\ handler.h = h
    /\ NoHandler.h = "none" /\ NoHandler.kind = "none"
BY Bounds DEF DriverInv, In, NoHandler, Handles

LEMMA ClientCalls ==
    ASSUME DriverInv, Usual, NEW c \in Clients,
           CreateClient(c) \/ DestroyClient(c) \/ Connect(c) \/ Disconnect(c)
    PROVE  DriverInv'
<1> USE Kinds
<1>1. CASE CreateClient(c)
  <2>1. ~Driven(c)
    BY <1>1 DEF CreateClient, Driven, DriverInv
  <2> QED BY <1>1, <2>1, HandleStep DEF CreateClient, server
<1>2. CASE DestroyClient(c)
  <2>1. ~In(c, "nack") /\ ~In(c, "message")
    BY <1>2 DEF DestroyClient, MayDestroy, MayReconnect, Usual
  <2>2. ~Driven(c) /\ (handler # NoHandler => handler.h # c)
    BY <1>2, <2>1 DEF DestroyClient, Driven, DriverInv, In
  <2> QED BY <1>2, <2>2, HandleStep DEF DestroyClient, server, heap
<1>3. CASE Connect(c)
  <2>1. c \in node /\ c \notin connected /\ ~In(c, "nack") /\ UNCHANGED <<node, started, handler>>
    BY <1>3 DEF Connect, MayReconnect, Usual, server
  <2>2. PICK outcome \in Outcomes :
          /\ AddDriver(c, outcome)
          /\ connected' = IF outcome = 3 THEN connected \cup {c} ELSE connected
    BY <1>3 DEF Connect
  <2>3. ~Driven(c) /\ (Driven(c)' <=> outcome = 3)
    BY <2>1, <2>2 DEF Driven, In
  <2>4. \A g \in Handles \ {c} : Driven(g)' <=> Driven(g)
    BY <2>1, <2>2 DEF Driven, In
  <2>5. connected' \subseteq Clients \cap node /\ started' \subseteq Servers \cap node
    BY <2>1, <2>2 DEF DriverInv
  <2> QED BY <2>1, <2>2, <2>3, <2>4, <2>5, AddStep
<1>4. CASE Disconnect(c)
  <2>1. /\ c \in node /\ c \in connected /\ ~In(c, "nack")
        /\ UNCHANGED <<node, started, handler>>
    BY <1>4 DEF Disconnect, MayReconnect, Usual, server
  <2>2. CASE RemoveDriver(c) /\ connected' = connected \ {c}
    <3>1. Driven(c) /\ ~Driven(c)'
      BY <2>1, <2>2 DEF Driven, In
    <3>2. \A g \in Handles \ {c} : Driven(g)' <=> Driven(g)
      BY <2>1, <2>2 DEF Driven, In
    <3>3. connected' \subseteq Clients \cap node /\ started' \subseteq Servers \cap node
      BY <2>1, <2>2 DEF DriverInv
    <3> QED BY <2>1, <2>2, <3>1, <3>2, <3>3, RemoveStep
  <2>3. CASE UNCHANGED <<connected, heap>>
    BY <2>1, <2>3, DriverStays DEF driver
  <2> QED BY <1>4, <2>2, <2>3 DEF Disconnect
<1> QED BY <1>1, <1>2, <1>3, <1>4

LEMMA HandlerCalls ==
    ASSUME DriverInv, Usual, NEW c \in Clients,
           Returns(c) \/ \E i \in Ids : Resolve(c, i)
    PROVE  DriverInv'
<1> USE Kinds
<1>1. ASSUME Runs(c) PROVE handler = NoHandler /\ c \in connected /\ c \in node
  BY <1>1 DEF Runs, DriverInv, Driven, In, NoHandler
<1>2. ASSUME NEW i \in Ids, MessageHandler(c, i) PROVE DriverInv'
  <2>1. handler = NoHandler /\ c \in node /\ UNCHANGED <<node, connected, started, heap>>
    BY <1>1, <1>2 DEF MessageHandler, server
  <2>2. handler'.h = c /\ handler'.kind = "message"
    BY <1>2 DEF MessageHandler
  <2>3. \A h \in Handles : Driven(h)' <=> Driven(h)
    BY <2>1, <2>2 DEF Driven, In
  <2> QED BY <2>1, <2>2, <2>3, HandlerStep
<1>3. ASSUME NEW i \in Ids, NackHandler(c, i) PROVE DriverInv'
  <2>1. /\ handler = NoHandler /\ c \in connected /\ c \in node
        /\ UNCHANGED <<node, started, heap>>
    BY <1>1, <1>3 DEF NackHandler, server
  <2>2. /\ handler'.h = c /\ handler'.kind = "nack"
        /\ connected' = connected \/ connected' = connected \ {c}
    BY <1>3 DEF NackHandler
  <2>3. \A h \in Handles : Driven(h)' <=> Driven(h)
    BY <2>1, <2>2 DEF Driven, In
  <2> QED BY <2>1, <2>2, <2>3, HandlerStep
<1>4. CASE MessageReturns(c)
  <2>1. \A h \in Handles : Driven(h)' <=> Driven(h)
    BY <1>4 DEF MessageReturns, Driven, In, client, server, NoHandler
  <2> QED BY <1>4, <2>1, HandlerStep DEF MessageReturns, client, server
<1>5. CASE NackReturns(c)
  <2>1. /\ In(c, "nack") /\ handler' = NoHandler /\ UNCHANGED <<node, connected, started>>
    BY <1>5 DEF NackReturns, client, server
  <2>2. \A h \in Handles \ {c} : Driven(h)' <=> Driven(h)
    BY <2>1 DEF Driven, In
  <2>3. Driven(c) /\ (Driven(c)' <=> c \in connected) /\ coap_data[c] # 0
    BY <2>1 DEF Driven, In, DriverInv
  <2>4. CASE c \notin connected
    <3>1. RemoveDriver(c)
      BY <1>5, <2>3, <2>4 DEF NackReturns
    <3>2. connected' \subseteq Clients \cap node /\ started' \subseteq Servers \cap node
      BY <2>1 DEF DriverInv
    <3> QED BY <2>1, <2>2, <2>3, <2>4, <3>1, <3>2, RemoveStep
  <2>5. CASE c \in connected
    <3>1. UNCHANGED heap
      BY <1>5, <2>5 DEF NackReturns
    <3>2. \A h \in Handles : Driven(h)' <=> Driven(h)
      BY <2>2, <2>3, <2>5
    <3> QED BY <2>1, <3>1, <3>2, HandlerStep
  <2> QED BY <2>4, <2>5
<1> QED BY <1>2, <1>3, <1>4, <1>5 DEF Returns, Resolve

LEMMA ServerCalls ==
    ASSUME DriverInv, NEW s \in Servers,
           CreateServer(s) \/ DestroyServer(s) \/ StartServer(s) \/ StopServer(s)
    PROVE  DriverInv'
<1> USE Kinds
<1>1. CASE CreateServer(s)
  <2>1. ~Driven(s)
    BY <1>1 DEF CreateServer, Driven, DriverInv
  <2> QED BY <1>1, <2>1, HandleStep DEF CreateServer, client, server
<1>2. CASE DestroyServer(s)
  <2>1. ~Driven(s) /\ (handler # NoHandler => handler.h # s)
    BY <1>2, Bounds DEF DestroyServer, Driven, DriverInv
  <2> QED BY <1>2, <2>1, HandleStep DEF DestroyServer, client, heap
<1>3. CASE StartServer(s)
  <2>1. s \in node /\ s \notin started /\ UNCHANGED <<node, connected, handler>>
    BY <1>3 DEF StartServer, client
  <2>2. PICK outcome \in Outcomes :
          /\ AddDriver(s, outcome)
          /\ started' = IF outcome = 3 THEN started \cup {s} ELSE started
    BY <1>3 DEF StartServer
  <2>3. ~Driven(s) /\ (Driven(s)' <=> outcome = 3)
    BY <2>1, <2>2 DEF Driven, In
  <2>4. \A g \in Handles \ {s} : Driven(g)' <=> Driven(g)
    BY <2>1, <2>2 DEF Driven, In
  <2>5. connected' \subseteq Clients \cap node /\ started' \subseteq Servers \cap node
    BY <2>1, <2>2 DEF DriverInv
  <2> QED BY <2>1, <2>2, <2>3, <2>4, <2>5, AddStep
<1>4. CASE StopServer(s)
  <2>1. /\ s \in node /\ s \in started /\ RemoveDriver(s) /\ started' = started \ {s}
        /\ UNCHANGED <<node, connected, handler>>
    BY <1>4 DEF StopServer, client
  <2>2. Driven(s) /\ ~Driven(s)'
    BY <2>1 DEF Driven, In
  <2>3. \A g \in Handles \ {s} : Driven(g)' <=> Driven(g)
    BY <2>1 DEF Driven, In
  <2>4. connected' \subseteq Clients \cap node /\ started' \subseteq Servers \cap node
    BY <2>1 DEF DriverInv
  <2> QED BY <2>1, <2>2, <2>3, <2>4, RemoveStep
<1> QED BY <1>1, <1>2, <1>3, <1>4

LEMMA DriverStep == ASSUME DriverInv, Usual, [Next]_vars PROVE DriverInv'
<1>1. ASSUME NEW c \in Clients,
             \/ SetSendCallback(c) \/ SetObserveCallback(c) \/ SendFails(c)
             \/ \E i \in Ids : SendMessage(c, i) \/ Observe(c, i) \/ CancelObserve(c, i)
      PROVE  UNCHANGED driver
  BY <1>1 DEF SetSendCallback, SetObserveCallback, SendFails, SendMessage, Observe,
              CancelObserve, driver, server
<1>2. ASSUME NEW s \in Servers,
             \/ InitResources(s) \/ ServerLoopHandler(s)
             \/ \E p \in Paths : NotifyResourceChanged(s, p)
      PROVE  UNCHANGED driver
  BY <1>2 DEF InitResources, ServerLoopHandler, NotifyResourceChanged, driver, client
<1>3. CASE UNCHANGED vars
  BY <1>3, DriverStays DEF vars, driver, client, server
<1> QED BY <1>1, <1>2, <1>3, DriverStays, ClientCalls, HandlerCalls, ServerCalls
        DEF Next

-----------------------------------------------------------------------------
(* The requests.                                                           *)

\* The types of what DriverInv does not speak of.
RequestTypes ==
    /\ session \subseteq Clients
    /\ send_cb \subseteq Clients /\ observe_cb \subseteq Clients
    /\ optlist \in [Clients -> Ids \cup {0}]
    /\ method \in [Clients -> Ids \cup {0}]
    /\ pending \in [Clients -> SUBSET Ids]
    /\ observing \in [Clients -> SUBSET Ids]
    /\ con \subseteq Ids
    /\ mixed \in BOOLEAN

HandlerType ==
    handler \in {NoHandler}
        \cup [h : Clients, kind : {"message"}, error : {"none"}, told : SUBSET Ids]
        \cup [h : Clients, kind : {"nack"}, error : Reasons, told : SUBSET Ids]

ServerTypes ==
    /\ resources \in [Servers -> SUBSET Paths]
    /\ dirty \in [Servers -> SUBSET Paths]

LEMMA TypesInit == Init => RequestTypes /\ HandlerType /\ ServerTypes
BY DEF Init, RequestTypes, HandlerType, ServerTypes

LEMMA ServerTypesStep == ASSUME ServerTypes, [Next]_vars PROVE ServerTypes'
<1>1. ASSUME NEW s \in Servers, InitResources(s) PROVE ServerTypes'
  BY <1>1 DEF InitResources, ServerTypes
<1>2. ASSUME NEW s \in Servers, NEW p \in Paths, NotifyResourceChanged(s, p)
      PROVE  ServerTypes'
  BY <1>2 DEF NotifyResourceChanged, ServerTypes
<1>3. ASSUME NEW s \in Servers, CreateServer(s) \/ DestroyServer(s) \/ StartServer(s)
                                \/ StopServer(s) \/ ServerLoopHandler(s)
      PROVE  ServerTypes'
  BY <1>3 DEF CreateServer, DestroyServer, StartServer, StopServer,
              ServerLoopHandler, server, ServerTypes
<1>4. ASSUME UNCHANGED server PROVE ServerTypes'
  BY <1>4 DEF server, ServerTypes
<1>5. ASSUME NEW c \in Clients,
             \/ CreateClient(c) \/ DestroyClient(c) \/ Connect(c) \/ Disconnect(c)
             \/ SetSendCallback(c) \/ SetObserveCallback(c) \/ SendFails(c) \/ Returns(c)
             \/ \E i \in Ids : \/ SendMessage(c, i) \/ Observe(c, i)
                               \/ CancelObserve(c, i) \/ Resolve(c, i)
      PROVE  UNCHANGED server
  BY <1>5 DEF CreateClient, DestroyClient, Connect, Disconnect, SetSendCallback,
              SetObserveCallback, SendFails, Returns, MessageReturns, NackReturns,
              SendMessage, Observe, CancelObserve, Resolve, MessageHandler, NackHandler
<1> QED BY <1>1, <1>2, <1>3, <1>4, <1>5 DEF Next, vars

LEMMA HandlerTypeStep == ASSUME HandlerType, [Next]_vars PROVE HandlerType'
<1>1. ASSUME NEW c \in Clients, NEW i \in Ids, MessageHandler(c, i) PROVE HandlerType'
  BY <1>1 DEF MessageHandler, HandlerType
<1>2. ASSUME NEW c \in Clients, NEW i \in Ids, NackHandler(c, i) PROVE HandlerType'
  BY <1>2 DEF NackHandler, NackError, HandlerType
<1>3. ASSUME handler' \in {handler, NoHandler} PROVE HandlerType'
  BY <1>3 DEF HandlerType
<1>4. ASSUME NEW c \in Clients,
             \/ CreateClient(c) \/ DestroyClient(c) \/ Connect(c) \/ Disconnect(c)
             \/ SetSendCallback(c) \/ SetObserveCallback(c) \/ SendFails(c) \/ Returns(c)
             \/ \E i \in Ids : SendMessage(c, i) \/ Observe(c, i) \/ CancelObserve(c, i)
      PROVE  handler' \in {handler, NoHandler}
  BY <1>4 DEF CreateClient, DestroyClient, Connect, Disconnect, SetSendCallback,
              SetObserveCallback, SendFails, Returns, MessageReturns, NackReturns,
              SendMessage, Observe, CancelObserve
<1>5. ASSUME NEW s \in Servers,
             \/ CreateServer(s) \/ DestroyServer(s) \/ InitResources(s)
             \/ StartServer(s) \/ StopServer(s) \/ ServerLoopHandler(s)
             \/ \E p \in Paths : NotifyResourceChanged(s, p)
      PROVE  handler' \in {handler, NoHandler}
  BY <1>5 DEF CreateServer, DestroyServer, InitResources, StartServer, StopServer,
              ServerLoopHandler, NotifyResourceChanged
<1> QED BY <1>1, <1>2, <1>3, <1>4, <1>5 DEF Next, Resolve, vars

\* Every action of a client keeps the types of its requests.
LEMMA RequestTypesStep == ASSUME RequestTypes, [Next]_vars PROVE RequestTypes'
<1>1. ASSUME NEW c \in Clients, NEW i \in Ids,
             SendMessage(c, i) \/ Observe(c, i) \/ CancelObserve(c, i)
      PROVE  RequestTypes'
  BY <1>1 DEF SendMessage, Observe, CancelObserve, Sends, Keeps, callbacks, RequestTypes
<1>2. ASSUME NEW c \in Clients, NEW i \in Ids, MessageHandler(c, i) PROVE RequestTypes'
  <2>1. mixed' \in BOOLEAN
    BY <1>2, Zenon DEF MessageHandler, Continue, Ends, RequestTypes
  <2>2. con' \subseteq Ids /\ pending' \in [Clients -> SUBSET Ids]
    BY <1>2 DEF MessageHandler, Continue, Ends, RequestTypes
  <2> QED BY <1>2, <2>1, <2>2 DEF MessageHandler, callbacks, latest, RequestTypes
<1>3. ASSUME NEW c \in Clients, NEW i \in Ids, NackHandler(c, i) PROVE RequestTypes'
  BY <1>3 DEF NackHandler, callbacks, latest, RequestTypes
<1>4. ASSUME NEW c \in Clients, CreateClient(c) \/ DestroyClient(c) \/ Disconnect(c)
      PROVE  RequestTypes'
  BY <1>4 DEF CreateClient, DestroyClient, Disconnect, callbacks, latest, requests,
              RequestTypes
<1>5. ASSUME NEW c \in Clients,
             Connect(c) \/ SetSendCallback(c) \/ SetObserveCallback(c) \/ SendFails(c)
      PROVE  RequestTypes'
  BY <1>5 DEF Connect, SetSendCallback, SetObserveCallback, SendFails, callbacks,
              latest, requests, RequestTypes
<1>6. ASSUME UNCHANGED client PROVE RequestTypes'
  BY <1>6 DEF client, callbacks, latest, requests, RequestTypes
<1>7. ASSUME NEW c \in Clients, Returns(c) PROVE UNCHANGED client
  BY <1>7 DEF Returns, MessageReturns, NackReturns
<1>8. ASSUME NEW s \in Servers,
             \/ CreateServer(s) \/ DestroyServer(s) \/ InitResources(s)
             \/ StartServer(s) \/ StopServer(s) \/ ServerLoopHandler(s)
             \/ \E p \in Paths : NotifyResourceChanged(s, p)
      PROVE  connected' = connected => UNCHANGED client
  BY <1>8 DEF CreateServer, DestroyServer, InitResources, StartServer, StopServer,
              ServerLoopHandler, NotifyResourceChanged
<1>9. ASSUME NEW s \in Servers,
             \/ CreateServer(s) \/ DestroyServer(s) \/ InitResources(s)
             \/ StartServer(s) \/ StopServer(s) \/ ServerLoopHandler(s)
             \/ \E p \in Paths : NotifyResourceChanged(s, p)
      PROVE  connected' = connected
  BY <1>9 DEF CreateServer, DestroyServer, InitResources, StartServer, StopServer,
              ServerLoopHandler, NotifyResourceChanged, client
<1> QED BY <1>1, <1>2, <1>3, <1>4, <1>5, <1>6, <1>7, <1>8, <1>9 DEF Next, Resolve, vars

\* Together they are the type invariant.
LEMMA Typed == ASSUME DriverInv, RequestTypes, HandlerType, ServerTypes PROVE TypeOK
<1>1. idle \in [Handles -> SUBSET (1..blocks)]
  <2>1. \A h \in Handles : Driven(h) => coap_data[h] \in 1..blocks
    BY DEF DriverInv
  <2>2. \A h \in Handles : (IF Driven(h) THEN {coap_data[h]} ELSE {}) \in SUBSET (1..blocks)
    BY <2>1
  <2> QED BY <2>2 DEF DriverInv
<1>2. blocks \in 0..MaxBlocks
  BY Bounds DEF DriverInv
<1> QED BY <1>1, <1>2 DEF DriverInv, RequestTypes, HandlerType, ServerTypes, TypeOK

\* Of an application that leaves its client alone in the client's callbacks:
\* a connected client and a started server have exactly the idle callback of
\* their coap_data, no callback finds its block or its node freed, and no
\* block is freed twice, whatever connections are made, lost and made again.
THEOREM HandlesDriven == ASSUME Usual PROVE Spec => []DriverAlive
<1> DEFINE IInv == DriverInv /\ RequestTypes /\ HandlerType /\ ServerTypes
<1>1. Init => IInv
  BY DriverInit, TypesInit
<1>2. IInv /\ [Next]_vars => IInv'
  BY DriverStep, RequestTypesStep, HandlerTypeStep, ServerTypesStep
<1>3. IInv => DriverAlive
  <2> SUFFICES ASSUME IInv PROVE DriverAlive
    OBVIOUS
  <2>1. TypeOK
    BY Typed
  <2>2. handler = NoHandler =>
          \A h \in Handles : idle[h] = IF Active(h) THEN {coap_data[h]} ELSE {}
    BY Kinds DEF DriverInv, Driven, Active
  <2>3. \A h \in Handles : idle[h] \cap freed = {} /\ (idle[h] # {} => h \in node)
    BY DEF DriverInv, Driven, In, NoHandler, Handles
  <2> QED BY <2>1, <2>2, <2>3 DEF DriverInv, DriverAlive
<1> QED BY <1>1, <1>2, <1>3, PTL DEF Spec

-----------------------------------------------------------------------------
(* One request at a time.                                                  *)

OneAtATime == "pipelines" \notin Unusual /\ "late" \notin Unusual

\* The request that is outstanding or observes is the one whose options and
\* method are kept.
KeptInv ==
    /\ \A c \in Clients : \A i \in pending[c] \cup observing[c] :
         optlist[c] = i /\ method[c] = i /\ c \in node
    /\ mixed = FALSE

LEMMA KeptStep == ASSUME OneAtATime, RequestTypes, KeptInv, [Next]_vars PROVE KeptInv'
<1>0. 0 \notin Ids
  BY CoapAssumption
<1>1. ASSUME NEW c \in Clients, NEW i \in Ids,
             SendMessage(c, i) \/ Observe(c, i) \/ CancelObserve(c, i)
      PROVE  KeptInv'
  <2>1. /\ c \in node /\ pending[c] \cup observing[c] \subseteq {i}
        /\ optlist' = [optlist EXCEPT ![c] = i] /\ method' = [method EXCEPT ![c] = i]
        /\ pending' = [pending EXCEPT ![c] = @ \cup {i}]
    BY <1>1 DEF SendMessage, Observe, CancelObserve, Sends, Keeps, MaySend, OneAtATime
  <2>2. /\ UNCHANGED <<node, mixed>>
        /\ observing' \in {observing, [observing EXCEPT ![c] = @ \cup {i}],
                           [observing EXCEPT ![c] = @ \ {i}]}
    BY <1>1 DEF SendMessage, Observe, CancelObserve
  <2> QED BY <2>1, <2>2 DEF KeptInv, RequestTypes
<1>2. ASSUME NEW c \in Clients, NEW i \in Ids, MessageHandler(c, i) PROVE KeptInv'
  <2>1. i \in pending[c] \cup observing[c] /\ UNCHANGED <<node, optlist, method, observing>>
    BY <1>2 DEF MessageHandler, OneAtATime, latest
  <2>2. optlist[c] = i /\ method[c] = i
    BY <2>1 DEF KeptInv
  <2>3. mixed' = FALSE
    BY <1>2, <2>2 DEF MessageHandler, Continue, Ends, KeptInv
  <2>4. pending' \in {[pending EXCEPT ![c] = @ \cup {i}], [pending EXCEPT ![c] = @ \ {i}]}
    BY <1>2 DEF MessageHandler, Continue, Ends
  <2> QED BY <2>1, <2>2, <2>3, <2>4 DEF KeptInv, RequestTypes
<1>3. ASSUME NEW c \in Clients, NEW i \in Ids, NackHandler(c, i) PROVE KeptInv'
  BY <1>3 DEF NackHandler, latest, KeptInv, RequestTypes
<1>4. ASSUME NEW c \in Clients, CreateClient(c) \/ DestroyClient(c) \/ Disconnect(c)
      PROVE  KeptInv'
  BY <1>4 DEF CreateClient, DestroyClient, Disconnect, latest, requests, KeptInv,
              RequestTypes
<1>5. ASSUME NEW c \in Clients, SendFails(c) PROVE KeptInv'
  <2>1. pending[c] \cup observing[c] = {}
    BY <1>0, <1>5 DEF SendFails, MaySend, OneAtATime, RequestTypes
  <2> QED BY <1>5, <2>1 DEF SendFails, requests, KeptInv, RequestTypes
<1>6. ASSUME NEW c \in Clients,
             Connect(c) \/ SetSendCallback(c) \/ SetObserveCallback(c) \/ Returns(c)
      PROVE  UNCHANGED <<node, latest, requests>>
  BY <1>6 DEF Connect, SetSendCallback, SetObserveCallback, Returns, MessageReturns,
              NackReturns, client
<1>7. ASSUME NEW s \in Servers, CreateServer(s) \/ DestroyServer(s)
      PROVE  KeptInv'
  <2>1. \A c \in Clients : c \in node' <=> c \in node
    BY <1>7, Bounds DEF CreateServer, DestroyServer
  <2> QED BY <1>7, <2>1 DEF CreateServer, DestroyServer, client, latest, requests,
                            KeptInv, RequestTypes
<1>8. ASSUME NEW s \in Servers,
             \/ InitResources(s) \/ StartServer(s) \/ StopServer(s) \/ ServerLoopHandler(s)
             \/ \E p \in Paths : NotifyResourceChanged(s, p)
      PROVE  UNCHANGED <<node, latest, requests>>
  BY <1>8 DEF InitResources, StartServer, StopServer, ServerLoopHandler,
              NotifyResourceChanged, client
<1>9. ASSUME UNCHANGED <<node, latest, requests>> PROVE KeptInv'
  BY <1>9 DEF latest, requests, KeptInv
<1>10. CASE UNCHANGED vars
  BY <1>9, <1>10 DEF vars, client
<1> QED BY <1>1, <1>2, <1>3, <1>4, <1>5, <1>6, <1>7, <1>8, <1>9, <1>10 DEF Next, Resolve

\* A client that has one request at a time, of a peer that does not answer
\* twice, asks for the next block of a response with the options and the
\* method of the request that the response belongs to.
THEOREM BlocksBelong == ASSUME OneAtATime PROVE Spec => []ContinuesItsRequest
<1>1. Init => RequestTypes /\ KeptInv
  BY TypesInit DEF Init, KeptInv
<1>2. RequestTypes /\ KeptInv /\ [Next]_vars => (RequestTypes /\ KeptInv)'
  BY RequestTypesStep, KeptStep
<1>3. KeptInv => ContinuesItsRequest
  BY DEF KeptInv, ContinuesItsRequest
<1> QED BY <1>1, <1>2, <1>3, PTL DEF Spec
=============================================================================
