---------------------------- MODULE CoapTransport ----------------------------
(***************************************************************************)
(* Datagrams and DTLS below TizenRT's CoAP (coap_session.c, coap_socket.c, *)
(* coap_dtls.c and the reading and sending of coap.c): the endpoint of a   *)
(* DTLS server with its sessions, and the session of a client.  The two    *)
(* share nothing and have next-state relations of their own.               *)
(*                                                                         *)
(* Sockets, mbedTLS and the peers are external.  An association is the     *)
(* number of its handshake; a datagram belongs to one, or begins one.  All *)
(* sessions of an endpoint read the endpoint's socket.  UDP servers are    *)
(* the subject of CoapServer; memory that runs out is left out.            *)
(***************************************************************************)
EXTENDS Naturals, Sequences, FiniteSets, SequencesExt

CONSTANTS CtPeers,        \* addresses of peers
          CtMaxIdle,      \* max_idle_sessions
          CtMaxIn,        \* bound of the datagrams in the socket
          CtMaxAssoc,     \* bound of the number of handshakes
          CtMsgs,         \* messages of a client
          CtUnusual       \* "same": a peer begins anew at an address the server has a session of,
                          \* "closes": a peer closes its association,
                          \* "stop": the server is stopped while it has sessions,
                          \* "sendfails": a send of the server fails for good,
                          \* "refused": nobody listens at the address of the client's server,
                          \* "alert": the client's server closes the association

-----------------------------------------------------------------------------
(* The endpoint of a server.                                                *)

VARIABLES ct_open,        \* the endpoint is in the context
          ct_sessions,    \* its sessions, the one used least recently first
          ct_in,          \* datagrams that wait in its socket
          ct_peers,       \* the association each peer believes in, 0 for none
          ct_observers,   \* peers whose sessions a subscription refers to
          ct_made,        \* handshakes so far
          ct_shut,        \* history: peers whose first datagram an old session swallowed
          ct_fault        \* "none", "null": a handler that is not set was called,
                          \* "freed": the list was followed through a freed session

ctvars == <<ct_open, ct_sessions, ct_in, ct_peers, ct_observers, ct_made, ct_shut, ct_fault>>

CtInit ==
    /\ ct_open = FALSE /\ ct_sessions = <<>> /\ ct_in = <<>>
    /\ ct_peers = [p \in CtPeers |-> 0]
    /\ ct_observers = {} /\ ct_made = 0 /\ ct_shut = {} /\ ct_fault = "none"

coap_make_session(p, assoc) == [peer |-> p, assoc |-> assoc, ref |-> 0, dead |-> FALSE]

(* The place of the session with an address, 0 for none.                    *)
SessionOf(list, p) == SelectInSeq(list, LAMBDA s : s.peer = p)

coap_session_reference(s) == [s EXCEPT !.ref = @ + 1]

(* A server's session stays when its last reference goes.                   *)
coap_session_release(s) == [s EXCEPT !.ref = IF @ > 0 THEN @ - 1 ELSE 0]

(* References are not looked at.                                            *)
MutIdle(s) == TRUE

CtIdle(s) == s.ref = 0

(* Frees the oldest session without references when there are too many.     *)
Evicted(list) ==
    LET oldest == SelectInSeq(list, CtIdle) IN
    IF CtMaxIdle > 0 /\ Len(SelectSeq(list, CtIdle)) >= CtMaxIdle THEN RemoveAt(list, oldest) ELSE list

coap_new_endpoint ==
    /\ ~ ct_open
    /\ ct_open' = TRUE
    /\ UNCHANGED <<ct_sessions, ct_in, ct_peers, ct_observers, ct_made, ct_shut, ct_fault>>

(* Resources and their subscriptions went before, and gave their references *)
(* back.  The next session is read out of one that was freed.               *)
coap_free_endpoint ==
    /\ ct_open
    /\ "stop" \in CtUnusual \/ ct_sessions = <<>>
    /\ ct_open' = FALSE /\ ct_sessions' = <<>> /\ ct_in' = <<>> /\ ct_observers' = {}
    /\ ct_fault' = IF ct_sessions = <<>> THEN ct_fault ELSE "freed"
    /\ UNCHANGED <<ct_peers, ct_made, ct_shut>>

(* A session not used for a time, and without references.                   *)
coap_write ==
    \E i \in DOMAIN ct_sessions :
        /\ CtIdle(ct_sessions[i]) /\ \A j \in 1 .. i - 1 : ~ CtIdle(ct_sessions[j])
        /\ ct_sessions' = RemoveAt(ct_sessions, i)
        /\ UNCHANGED <<ct_open, ct_in, ct_peers, ct_observers, ct_made, ct_shut, ct_fault>>

(* A message that was decrypted: a request is answered and leaves nothing,  *)
(* observing adds a subscription with a reference, once.                    *)
coap_handle_message(kind, s) ==
    CASE kind = "observe" /\ s.peer \notin ct_observers -> coap_session_reference(s)
      [] kind = "cancel" /\ s.peer \in ct_observers     -> coap_session_release(s)
      [] OTHER                                          -> s

(* TLSRecv drops what does not belong to the association; an alert ends it, *)
(* and so does whatever follows.                                            *)
coap_dtls_receive(d, s) ==
    CASE s.dead \/ (d.kind = "alert" /\ d.assoc = s.assoc) -> coap_session_release([s EXCEPT !.dead = TRUE])
      [] ~ s.dead /\ d.kind \in {"get", "observe", "cancel"} /\ d.assoc = s.assoc -> coap_handle_message(d.kind, s)
      [] OTHER -> s

(* The answer to a request: on an error that is fatal the handler for nacks *)
(* is called, which a server does not set.                                  *)
coap_dtls_send(d, fails) ==
    LET i == SessionOf(ct_sessions, d.src) IN
    IF fails /\ i # 0 /\ d.kind = "get" THEN "null" ELSE ct_fault

Observing(d, s) ==
    LET heard == ~ s.dead /\ d.assoc = s.assoc IN
    CASE heard /\ d.kind = "observe" -> ct_observers \cup {d.src}
      [] heard /\ d.kind = "cancel"  -> ct_observers \ {d.src}
      [] OTHER                       -> ct_observers

(* The sender is peeked at.  A session is found by the addresses and reads  *)
(* the datagram.                                                            *)
ReadKnown(d, i) ==
    LET s == ct_sessions[i] IN
    /\ ct_sessions' = Append(RemoveAt(ct_sessions, i), coap_dtls_receive(d, s))
    /\ ct_observers' = Observing(d, s)
    /\ ct_shut' = IF d.kind = "hello" THEN ct_shut \cup {d.src} ELSE ct_shut
    /\ UNCHANGED <<ct_peers, ct_made>>

(* Or a session is made, after an idle one was given up: the handshake      *)
(* reads the datagram, and fails when it does not begin one.                *)
ReadUnknown(d) ==
    /\ IF d.kind = "hello"
       THEN /\ ct_made < CtMaxAssoc
            /\ ct_made' = ct_made + 1
            /\ ct_sessions' = Append(Evicted(ct_sessions), coap_make_session(d.src, ct_made + 1))
            /\ ct_peers' = [ct_peers EXCEPT ![d.src] = ct_made + 1]
       ELSE ct_sessions' = Evicted(ct_sessions) /\ UNCHANGED <<ct_made, ct_peers>>
    /\ UNCHANGED <<ct_observers, ct_shut>>

coap_endpoint_get_session(d) ==
    LET i == SessionOf(ct_sessions, d.src) IN
    IF i # 0 THEN ReadKnown(d, i) ELSE ReadUnknown(d)

coap_read_endpoint(fails) ==
    /\ ct_open /\ ct_in # <<>>
    /\ fails => "sendfails" \in CtUnusual
    /\ ct_in' = Tail(ct_in)
    /\ coap_endpoint_get_session(Head(ct_in))
    /\ ct_fault' = coap_dtls_send(Head(ct_in), fails)
    /\ UNCHANGED ct_open

PeerSends(p, kind) ==
    /\ ct_open /\ Len(ct_in) < CtMaxIn
    /\ kind = "hello" => "same" \in CtUnusual \/ SessionOf(ct_sessions, p) = 0
    /\ kind = "hello" => \A i \in DOMAIN ct_in : ct_in[i].src # p
    /\ kind # "hello" => ct_peers[p] # 0
    /\ kind = "alert" => "closes" \in CtUnusual
    /\ ct_in' = Append(ct_in, [src |-> p, kind |-> kind, assoc |-> ct_peers[p]])
    /\ ct_peers' = IF kind \in {"hello", "alert"} THEN [ct_peers EXCEPT ![p] = 0] ELSE ct_peers
    /\ UNCHANGED <<ct_open, ct_sessions, ct_observers, ct_made, ct_shut, ct_fault>>

DatagramIsLost ==
    /\ \E i \in DOMAIN ct_in : ct_in' = RemoveAt(ct_in, i)
    /\ UNCHANGED <<ct_open, ct_sessions, ct_peers, ct_observers, ct_made, ct_shut, ct_fault>>

CtNext ==
    \/ coap_new_endpoint \/ coap_free_endpoint \/ coap_write
    \/ \E fails \in BOOLEAN : coap_read_endpoint(fails)
    \/ \E p \in CtPeers, kind \in {"hello", "get", "observe", "cancel", "alert"} : PeerSends(p, kind)
    \/ DatagramIsLost

(* However sessions are given up for others and datagrams come late, a      *)
(* subscription has its session, with exactly its reference; a peer that    *)
(* begins is heard; and an association both sides know is one that works.   *)
SessionsAreCurrent ==
    /\ ct_fault = "none" /\ ct_shut = {}
    /\ \A p \in ct_observers : SessionOf(ct_sessions, p) # 0
    /\ \A i \in DOMAIN ct_sessions :
          LET s == ct_sessions[i] IN
          /\ s.ref = IF s.peer \in ct_observers THEN 1 ELSE 0
          /\ ct_peers[s.peer] \in {0, s.assoc}
          /\ ct_peers[s.peer] = s.assoc => ~ s.dead

-----------------------------------------------------------------------------
(* The session of a client.                                                 *)

VARIABLES cc_proto,       \* "udp", "dtls"
          cc_connected,   \* node->interface.connected
          cc_state,       \* session->state: "NONE", "ESTABLISHED"
          cc_tls,         \* session->tls # NULL
          cc_waiting,     \* context->sendqueue: confirmable messages
          cc_delayed,     \* session->sendqueue
          cc_error,       \* what the next read of the socket says: "none", "refused", "bad", "alert"
          cc_freed        \* the context was freed under its service thread

ccvars == <<cc_proto, cc_connected, cc_state, cc_tls, cc_waiting, cc_delayed, cc_error, cc_freed>>

CcInit ==
    /\ cc_proto = "udp" /\ cc_connected = FALSE /\ cc_state = "NONE" /\ cc_tls = FALSE
    /\ cc_waiting = {} /\ cc_delayed = {} /\ cc_error = "none" /\ cc_freed = FALSE

(* ok: address resolved, socket connected, and for DTLS the handshake done. *)
coap_session_connect(proto, ok) ==
    /\ ~ cc_connected
    /\ cc_connected' = ok
    /\ cc_proto' = proto
    /\ cc_state' = IF ok THEN "ESTABLISHED" ELSE "NONE"
    /\ cc_tls' = (ok /\ proto = "dtls")
    /\ cc_waiting' = {} /\ cc_delayed' = {} /\ cc_error' = "none"
    /\ UNCHANGED cc_freed

coap_session_free ==
    /\ cc_connected' = FALSE /\ cc_state' = "NONE" /\ cc_tls' = FALSE
    /\ cc_waiting' = {} /\ cc_delayed' = {} /\ cc_error' = "none"
    /\ UNCHANGED cc_proto

CcDisconnect == cc_connected /\ cc_waiting = {} /\ coap_session_free /\ UNCHANGED cc_freed

(* What coap_send_packet does with a packet.  A session without association *)
(* begins one and delays the packet until it is connected, of which nobody  *)
(* tells it.                                                                *)
coap_send_packet ==
    CASE cc_state = "ESTABLISHED"           -> "sent"
      [] cc_state = "NONE" /\ cc_proto = "dtls" /\ ~ cc_tls -> "delayed"
      [] OTHER                              -> "failed"

(* A confirmable message waits for its acknowledgement once it was sent;    *)
(* written: whether the socket, or TLSSend, took it.                        *)
artik_coap_send(m, con, written) ==
    /\ cc_connected /\ m \notin cc_waiting
    /\ con /\ cc_error = "refused" => "refused" \in CtUnusual
    /\ cc_delayed' = IF coap_send_packet = "delayed" THEN cc_delayed \cup {m} ELSE cc_delayed
    /\ cc_state' = IF coap_send_packet = "delayed" THEN "ESTABLISHED" ELSE cc_state
    /\ cc_tls' = (cc_tls \/ coap_send_packet = "delayed")
    /\ cc_waiting' = IF coap_send_packet = "sent" /\ con /\ written THEN cc_waiting \cup {m} ELSE cc_waiting
    /\ UNCHANGED <<cc_proto, cc_connected, cc_error, cc_freed>>

AnswerArrives(m) ==
    /\ m \in cc_waiting
    /\ cc_waiting' = cc_waiting \ {m}
    /\ UNCHANGED <<cc_proto, cc_connected, cc_state, cc_tls, cc_delayed, cc_error, cc_freed>>

(* Nobody listens any more; or a datagram that is not one of the server's;  *)
(* or the server closes.                                                    *)
SocketSays(error) ==
    /\ cc_connected /\ cc_error = "none"
    /\ error = "refused" => cc_proto = "udp" /\ (cc_waiting = {} \/ error \in CtUnusual)
    /\ error = "bad" => cc_proto = "dtls"
    /\ error = "alert" => cc_proto = "dtls" /\ error \in CtUnusual
    /\ cc_error' = error
    /\ UNCHANGED <<cc_proto, cc_connected, cc_state, cc_tls, cc_waiting, cc_delayed, cc_freed>>

(* Whoever is not reached is reset, whatever its protocol.                  *)
MutIsReset(error) == error \in {"refused", "bad"}

IsReset(error) == error = "refused"

(* Every confirmable message is nacked; the first nack ends the connection, *)
(* from its own thread, and frees the context the loop goes on with.        *)
coap_session_reset ==
    IF cc_waiting # {} THEN coap_session_free /\ cc_freed' = TRUE
    ELSE /\ cc_state' = "NONE" /\ cc_tls' = FALSE /\ cc_delayed' = {} /\ cc_error' = "none"
         /\ UNCHANGED <<cc_proto, cc_connected, cc_waiting, cc_freed>>

(* An alert is nacked in the same way, with or without waiting messages.    *)
coap_read_session ==
    /\ cc_error # "none"
    /\ IF IsReset(cc_error) THEN coap_session_reset
       ELSE IF cc_error = "alert" THEN coap_session_free /\ cc_freed' = TRUE
       ELSE /\ cc_error' = "none"
            /\ UNCHANGED <<cc_proto, cc_connected, cc_state, cc_tls, cc_waiting, cc_delayed, cc_freed>>

CcNext ==
    \/ \E proto \in {"udp", "dtls"}, ok \in BOOLEAN : coap_session_connect(proto, ok)
    \/ CcDisconnect
    \/ \E m \in CtMsgs : AnswerArrives(m) \/ \E con, written \in BOOLEAN : artik_coap_send(m, con, written)
    \/ \E error \in {"refused", "bad", "alert"} : SocketSays(error)
    \/ coap_read_session

(* Whatever the socket says, a message that was accepted was sent: none is  *)
(* delayed for an event that does not come, none waits in a session that    *)
(* has ended, and no context goes while its thread is at work.              *)
AcceptedIsSent ==
    /\ cc_delayed = {} /\ ~ cc_freed
    /\ cc_waiting # {} => cc_connected /\ (cc_state = "ESTABLISHED" \/ cc_error # "none")
=============================================================================
