------------------------------ MODULE CoapClient ------------------------------
(***************************************************************************)
(* A CoAP client of TizenRT (coap/tizenrt/tizenrt_coap.c): its node in the *)
(* list of handles, its service thread, the sessions of its connections    *)
(* with their references (coap_session.c) and the confirmable requests     *)
(* that wait in the send queue of its context (coap.c).                    *)
(*                                                                         *)
(* Session k is the one of the k-th call of connect.  The times of the     *)
(* queue are the subject of CoapQueue: here any node may be given up.  A   *)
(* request that is not confirmable, or that cannot be sent, changes        *)
(* nothing.                                                                *)
(***************************************************************************)
EXTENDS Naturals, FiniteSets

CONSTANTS CliMsgs,      \* confirmable requests, by their message id
          MaxConns,     \* bound of the number of calls of connect
          CliUnusual    \* "late": disconnect with requests in the queue

ASSUME CliAssumption == MaxConns \in Nat

VARIABLES handle,       \* the client is in requested_node
          connected,    \* node->interface.connected
          session,      \* node->interface.session, 0 before the first connect
          conns,        \* number of sessions that were made
          cref,         \* session->ref
          freed,        \* sessions that were freed
          sent,         \* context->sendqueue: a set of nodes
          thread,       \* "none", "runs"
          leaked,       \* history: sessions whose first reference has no owner
          misused       \* history: a freed session was released

clivars == <<handle, connected, session, conns, cref, freed, sent, thread,
             leaked, misused>>

Sessions == 1 .. MaxConns

CliTypeOK ==
    /\ handle \in BOOLEAN /\ connected \in BOOLEAN
    /\ session \in 0 .. MaxConns /\ conns \in 0 .. MaxConns
    /\ cref \in [Sessions -> Nat]
    /\ freed \subseteq Sessions /\ leaked \subseteq Sessions
    /\ sent \subseteq [s : Sessions, m : CliMsgs]
    /\ thread \in {"none", "runs"}
    /\ misused \in BOOLEAN

CliInit ==
    /\ handle = FALSE /\ connected = FALSE
    /\ session = 0 /\ conns = 0
    /\ cref = [s \in Sessions |-> 0]
    /\ freed = {} /\ leaked = {}
    /\ sent = {}
    /\ thread = "none"
    /\ misused = FALSE

-----------------------------------------------------------------------------
(* Helpers *)

Of(q, s) == Cardinality({n \in q : n.s = s})

\* coap_session_release, k[s] times: the session is freed with its last
\* reference (coap_session_free).
Release(k) ==
    /\ cref' = [s \in Sessions |-> IF cref[s] > k[s] THEN cref[s] - k[s] ELSE 0]
    /\ freed' = freed \cup {s \in Sessions : k[s] > 0 /\ cref[s] <= k[s]}
    /\ misused' = (misused \/ \E s \in Sessions : k[s] > cref[s])

\* The number of nodes of each session in q (artik_coap_delete_all).
Nodes(q) == [s \in Sessions |-> Of(q, s)]

\* artik_coap_remove_from_queue: the first node is compared with session and
\* id, any other one with session or id; which node is the first one is open.
Matches(s, m) == {n \in sent : (n.s = s /\ n.m = m)
                               \/ (Cardinality(sent) > 1 /\ (n.s = s \/ n.m = m))}

-----------------------------------------------------------------------------
(* Calls of the application *)

CliCreate ==
    /\ ~handle
    /\ handle' = TRUE
    /\ UNCHANGED <<connected, session, conns, cref, freed, sent, thread, leaked, misused>>

CliDestroy ==
    /\ handle /\ ~connected
    /\ handle' = FALSE
    /\ sent' = {}
    /\ Release(Nodes(sent))
    /\ UNCHANGED <<connected, session, conns, thread, leaked>>

\* ok: the thread was started; without it the session stays.
CliConnect(ok) ==
    /\ handle /\ ~connected
    /\ conns < MaxConns
    /\ conns' = conns + 1
    /\ session' = conns + 1
    /\ cref' = [cref EXCEPT ![conns + 1] = 1]
    /\ connected' = ok
    /\ thread' = IF ok THEN "runs" ELSE thread
    /\ leaked' = IF ok THEN leaked ELSE leaked \cup {conns + 1}
    /\ UNCHANGED <<handle, freed, sent, misused>>

\* The thread is joined, the reference of the connection given back.
CliDisconnect ==
    /\ handle /\ connected
    /\ sent # {} => "late" \in CliUnusual
    /\ connected' = FALSE
    /\ thread' = "none"
    /\ Release([s \in Sessions |-> IF s = session THEN 1 ELSE 0])
    /\ UNCHANGED <<handle, session, conns, sent, leaked>>

\* send_message, observe and cancel_observe end in artik_coap_send.
CliSend(m) ==
    /\ handle /\ connected
    /\ \A n \in sent : n.m # m
    /\ sent' = sent \cup {[s |-> session, m |-> m]}
    /\ cref' = [cref EXCEPT ![session] = @ + 1]
    /\ UNCHANGED <<handle, connected, session, conns, freed, thread, leaked, misused>>

-----------------------------------------------------------------------------
(* The service thread *)

\* An acknowledgement or a reset of request m, perhaps late or repeated; the
\* handlers it is given to make no call.
CliDispatch(m) ==
    /\ thread = "runs"
    /\ \E n \in Matches(session, m) :
          /\ sent' = sent \ {n}
          /\ Release(Nodes({n}))
    /\ UNCHANGED <<handle, connected, session, conns, thread, leaked>>

\* handle_response of a separate response with the token of n.
CliResponse(n) ==
    /\ thread = "runs" /\ n \in sent
    /\ sent' = sent \ {n}
    /\ Release(Nodes({n}))
    /\ UNCHANGED <<handle, connected, session, conns, thread, leaked>>

MutGivenUp(n) ==
    /\ sent' = {}
    /\ Release(Nodes(sent))

\* What nack_handler and then artik_coap_retransmit do to the session of n,
\* which was taken out of the queue: the other nodes are deleted with the
\* context, then the session is released once for the connection and once for
\* the node.
GivenUp(n) ==
    /\ sent' = {}
    /\ Release([s \in Sessions |-> IF s = n.s THEN Of(sent, s) + 1 ELSE Of(sent, s)])

\* The last retransmission was not answered.  The handler ends the connection,
\* sets quit, fails to join its own thread and frees coap_data, context and
\* node; the thread goes back to the library, touches the freed context and ends
\* when it reads quit in the freed coap_data, which nobody has overwritten.
CliGivesUp(n) ==
    /\ thread = "runs" /\ n \in sent
    /\ handle' = FALSE /\ connected' = FALSE
    /\ thread' = "none"
    /\ GivenUp(n)
    /\ leaked' = IF n.s = session THEN leaked ELSE leaked \cup {session}
    /\ UNCHANGED <<session, conns>>

-----------------------------------------------------------------------------

CliNext ==
    \/ CliCreate \/ CliDestroy \/ CliDisconnect
    \/ \E ok \in BOOLEAN : CliConnect(ok)
    \/ \E m \in CliMsgs : CliSend(m) \/ CliDispatch(m)
    \/ \E n \in sent : CliResponse(n) \/ CliGivesUp(n)

\* Every queued request and the connection hold one reference of their session,
\* also across the release on two levels of a request that is given up; no
\* session is freed while it is held or released after it was freed, and only a
\* failed connect leaves one behind.
SessionsHeld ==
    /\ CliTypeOK
    /\ ~misused
    /\ \A s \in Sessions :
          /\ cref[s] = Of(sent, s) + (IF connected /\ session = s THEN 1 ELSE 0)
                       + (IF s \in leaked THEN 1 ELSE 0)
          /\ (cref[s] = 0 /\ s <= conns) <=> s \in freed
=============================================================================
