------------------------------ MODULE CoapServer ------------------------------
(***************************************************************************)
(* A CoAP server of TizenRT: its handle and service thread                 *)
(* (tizenrt_coap.c), the sessions of its endpoint with their references    *)
(* (coap_session.c, coap_socket.c), the observers of one resource          *)
(* (coap_resource.c) and the notifications that wait for an                *)
(* acknowledgement (coap.c; their times are the subject of CoapQueue, here *)
(* a node is inserted anywhere).                                           *)
(*                                                                         *)
(* A session is named by its peer, an observation uses one token per peer. *)
(* Peers may send any request, acknowledgement or reset at any time, as    *)
(* lost, repeated and late datagrams make possible.                        *)
(***************************************************************************)
EXTENDS Naturals, Sequences, FiniteSets, SequencesExt

CONSTANTS Peers,          \* remote addresses
          Mids,           \* message ids, 0 .. 65535 in the code
          SrvRetransmit,  \* COAP_DEFAULT_MAX_RETRANSMIT
          MaxIdle,        \* MAX_IDLE_SESSIONS
          MaxFail,        \* COAP_OBS_MAX_FAIL
          MaxNon,         \* COAP_OBS_MAX_NON
          MaxWaiting,     \* bound of the send queue
          SrvUnusual      \* "midway": a change while observers are notified

ASSUME SrvAssumption == /\ IsFiniteSet(Peers)
                        /\ {SrvRetransmit, MaxFail, MaxNon} \subseteq Nat

VARIABLES server,       \* "none", "created", "started"
          observable,   \* init_resources has added the resource
          notify_con,   \* flag COAP_RESOURCE_FLAGS_NOTIFY_CON of the resource
          live,         \* endpoint->sessions
          ref,          \* session->ref
          waiting,      \* context->sendqueue
          subscribers,  \* resource->subscribers: a record for each peer
          dirty,        \* resource->dirty
          notifying,    \* the thread is in coap_notify_observers
          stale         \* history: peers that have not seen the latest change

srvvars == <<server, observable, notify_con, live, ref, waiting, subscribers,
             dirty, notifying, stale>>

\* A notification in the queue.
Notification == [s : Peers, id : Mids, cnt : 0 .. SrvRetransmit]

Subscription == [on : BOOLEAN, fail_cnt : 0 .. MaxFail, non_cnt : 0 .. MaxNon,
                 dirty : BOOLEAN]

NoSubscription == [on |-> FALSE, fail_cnt |-> 0, non_cnt |-> 0, dirty |-> FALSE]

Observers == {p \in Peers : subscribers[p].on}

SrvTypeOK ==
    /\ server \in {"none", "created", "started"}
    /\ observable \in BOOLEAN /\ notify_con \in BOOLEAN
    /\ live \subseteq Peers
    /\ ref \in [Peers -> Nat]
    /\ waiting \in Seq(Notification)
    /\ subscribers \in [Peers -> Subscription]
    /\ dirty \in BOOLEAN /\ notifying \in BOOLEAN
    /\ stale \subseteq Peers

SrvInit ==
    /\ server = "none" /\ observable = FALSE /\ notify_con = FALSE
    /\ live = {} /\ ref = [p \in Peers |-> 0]
    /\ waiting = <<>>
    /\ subscribers = [p \in Peers |-> NoSubscription]
    /\ dirty = FALSE /\ notifying = FALSE
    /\ stale = {}

-----------------------------------------------------------------------------
(* Helpers *)

Transport == <<live, ref, waiting, subscribers, dirty, notifying, stale>>

\* Sessions that the endpoint may give up: no reference.
Idle == {p \in live : ref[p] = 0}

\* coap_endpoint_get_session: the sessions after a datagram of p has arrived;
\* a new one may push out the oldest idle one.
GetSession(p) ==
    IF p \in live THEN {live}
    ELSE IF Cardinality(Idle) >= MaxIdle /\ MaxIdle > 0
         THEN {(live \ {o}) \cup {p} : o \in Idle}
         ELSE {live \cup {p}}

Released(r, p, n) == [r EXCEPT ![p] = IF @ > n THEN @ - n ELSE 0]

NodesOf(q, p) == Cardinality({k \in DOMAIN q : q[k].s = p})

\* Order-preserving maps of 1 .. n to S.
Ascents(n, S) == {at \in [1 .. n -> S] : \A i, j \in 1 .. n : i < j => at[i] < at[j]}

\* artik_coap_cancel_all_messages for the token of p: the other nodes stay in
\* their order (a set of one queue).
Cancelled(q, p) ==
    LET kept == {k \in DOMAIN q : q[k].s # p}
    IN  {[i \in DOMAIN at |-> q[at[i]]] :
            at \in {f \in Ascents(Cardinality(kept), kept) : Range(f) = kept}}

\* artik_coap_remove_from_queue: where it stops.
Position(p, i) ==
    LET rest == {k \in 2 .. Len(waiting) : waiting[k].s = p \/ waiting[k].id = i}
    IN  IF waiting # <<>> /\ waiting[1].s = p /\ waiting[1].id = i THEN 1
        ELSE IF rest = {} THEN 0
        ELSE CHOOSE k \in rest : \A l \in rest : k <= l

Serving == server = "started" /\ ~notifying

-----------------------------------------------------------------------------
(* Calls of the application *)

CreateServer ==
    /\ server = "none"
    /\ server' = "created"
    /\ UNCHANGED <<observable, notify_con, Transport>>

SrvInitResources ==
    /\ server # "none" /\ ~observable
    /\ observable' = TRUE
    /\ notify_con' \in BOOLEAN
    /\ UNCHANGED <<server, Transport>>

\* The endpoint of an earlier start is still in the context.
StartServer ==
    /\ server = "created"
    /\ server' = "started"
    /\ UNCHANGED <<observable, notify_con, Transport>>

\* Sets quit and joins the thread, which finishes its turn first.
StopServer ==
    /\ Serving
    /\ server' = "created"
    /\ UNCHANGED <<observable, notify_con, Transport>>

\* artik_coap_free_context deletes the queue and the resource, each with its
\* references, then the sessions that have none left.
DestroyServer ==
    /\ server = "created"
    /\ server' = "none"
    /\ observable' = FALSE /\ notify_con' = FALSE
    /\ LET r == [p \in Peers |-> ref[p] - NodesOf(waiting, p)
                                        - (IF subscribers[p].on THEN 1 ELSE 0)]
       IN  /\ live' = {p \in live : r[p] # 0}
           /\ ref' = r
    /\ waiting' = <<>>
    /\ subscribers' = [p \in Peers |-> NoSubscription]
    /\ dirty' = FALSE /\ stale' = {}
    /\ UNCHANGED notifying

\* coap_resource_set_dirty without a query.
SrvNotifyResourceChanged ==
    /\ server # "none" /\ observable
    /\ notifying => "midway" \in SrvUnusual
    /\ dirty' = TRUE
    /\ stale' = Observers
    /\ UNCHANGED <<server, observable, notify_con, live, ref, waiting,
                   subscribers, notifying>>

-----------------------------------------------------------------------------
(* Requests *)

\* artik_coap_add_observer takes a reference for a new one; the observer is
\* touched.
AddObserver(p) ==
    /\ subscribers' = [subscribers EXCEPT ![p] =
                           IF @.on THEN [@ EXCEPT !.fail_cnt = 0]
                           ELSE [NoSubscription EXCEPT !.on = TRUE]]
    /\ ref' = [ref EXCEPT ![p] = IF subscribers[p].on THEN @ ELSE @ + 1]

MutDeleteObserver(p) ==
    /\ subscribers' = [subscribers EXCEPT ![p] = NoSubscription]
    /\ ref' = Released(ref, p, 1)

\* artik_coap_delete_observer gives the reference back if there is one.
DeleteObserver(p) ==
    /\ subscribers' = [subscribers EXCEPT ![p] = NoSubscription]
    /\ ref' = IF subscribers[p].on THEN Released(ref, p, 1) ELSE ref

\* artik_handle_request: a request to observe, to end an observation or a plain
\* one.  An observer that is refused (a code above class 2) is deleted again.
HandleRequest(p, kind, refused) ==
    /\ Serving
    /\ kind # "plain" => observable
    /\ \E S \in GetSession(p) : live' = S
    /\ \/ kind = "observe" /\ ~refused /\ AddObserver(p)
       \/ kind = "observe" /\ refused /\ DeleteObserver(p)
       \/ kind = "cancel" /\ DeleteObserver(p)
       \/ kind = "plain" /\ UNCHANGED <<subscribers, ref>>
    /\ stale' = IF subscribers'[p].on /\ subscribers[p].on THEN stale ELSE stale \ {p}
    /\ UNCHANGED <<server, observable, notify_con, waiting, dirty, notifying>>

\* An empty acknowledgement: the node it removes gives its reference back.
HandleAck(p, i) ==
    /\ Serving
    /\ \E S \in GetSession(p) : live' = S
    /\ LET k == Position(p, i)
       IN  IF k = 0 THEN UNCHANGED <<waiting, ref>>
           ELSE /\ waiting' = RemoveAt(waiting, k)
                /\ ref' = Released(ref, waiting[k].s, 1)
    /\ UNCHANGED <<server, observable, notify_con, subscribers, dirty, notifying, stale>>

\* A reset ends the observation that the removed notification belongs to, with
\* all its notifications (coap_cancel).
HandleReset(p, i) ==
    /\ Serving
    /\ \E S \in GetSession(p) : live' = S
    /\ LET k == Position(p, i)
           o == waiting[k].s
           q == RemoveAt(waiting, k)
       IN  IF k = 0 THEN UNCHANGED <<waiting, ref, subscribers, stale>>
           ELSE IF ~observable
           THEN /\ waiting' = q
                /\ ref' = Released(ref, o, 1)
                /\ UNCHANGED <<subscribers, stale>>
           ELSE /\ waiting' \in Cancelled(q, o)
                /\ subscribers' = [subscribers EXCEPT ![o] = NoSubscription]
                /\ ref' = Released(ref, o, 1 + NodesOf(q, o)
                                      + (IF subscribers[o].on THEN 1 ELSE 0))
                /\ stale' = stale \ {o}
    /\ UNCHANGED <<server, observable, notify_con, dirty, notifying>>

-----------------------------------------------------------------------------
(* Time *)

\* coap_write frees a session without references that was silent for long.
SessionExpires(p) ==
    /\ Serving
    /\ p \in Idle
    /\ live' = live \ {p}
    /\ UNCHANGED <<server, observable, notify_con, ref, waiting, subscribers,
                   dirty, notifying, stale>>

\* The first node is sent again, or given up: then its observer has failed once
\* more, and the one that fails too often is deleted with its notifications
\* (coap_remove_failed_observers).
SrvRetransmits ==
    /\ Serving /\ waiting # <<>>
    /\ LET n == Head(waiting)
           q == Tail(waiting)
           p == n.s
       IN  IF n.cnt < SrvRetransmit
           THEN /\ \E k \in 1 .. Len(q) + 1 :
                       waiting' = InsertAt(q, k, [n EXCEPT !.cnt = @ + 1])
                /\ UNCHANGED <<subscribers, ref, stale>>
           ELSE IF subscribers[p].on /\ subscribers[p].fail_cnt < MaxFail
           THEN /\ waiting' = q
                /\ subscribers' = [subscribers EXCEPT ![p].fail_cnt = @ + 1]
                /\ ref' = Released(ref, p, 1)
                /\ UNCHANGED stale
           ELSE IF subscribers[p].on
           THEN /\ waiting' \in Cancelled(q, p)
                /\ subscribers' = [subscribers EXCEPT ![p] = NoSubscription]
                /\ ref' = Released(ref, p, 2 + NodesOf(q, p))
                /\ stale' = stale \ {p}
           ELSE /\ waiting' = q
                /\ ref' = Released(ref, p, 1)
                /\ UNCHANGED <<subscribers, stale>>
    /\ UNCHANGED <<server, observable, notify_con, live, dirty, notifying>>

\* The queues that hold q and, in any places, a confirmable notification for
\* each peer in S.
Enqueue(q, S) ==
    LET N == Len(q) + Cardinality(S)
        notified == [s : S, id : Mids, cnt : {0}]
    IN  {r \in [1 .. N -> Range(q) \cup notified] :
           \E at \in Ascents(Len(q), 1 .. N), new \in [S -> 1 .. N] :
              /\ \A i \in 1 .. Len(q) : r[at[i]] = q[i]
              /\ \A p \in S : r[new[p]] \in notified /\ r[new[p]].s = p
              /\ Range(at) \cup Range(new) = 1 .. N
              /\ Range(at) \cap Range(new) = {}}

MutToNotify == {p \in Observers : dirty}

\* Who is notified in this round, and which notifications are confirmable.
ToNotify == {p \in Observers : dirty \/ subscribers[p].dirty}

Confirmable(p) == notify_con \/ subscribers[p].non_cnt >= MaxNon

\* coap_notify_observers: the loop over the observers.  A notification that
\* cannot be sent (failed) marks its observer; one that is confirmable waits in
\* the queue with a reference.
NotifyObservers(failed) ==
    /\ Serving /\ observable
    /\ dirty \/ \E p \in Observers : subscribers[p].dirty
    /\ failed \subseteq ToNotify
    /\ LET confirmed == {p \in ToNotify \ failed : Confirmable(p)}
       IN  /\ Len(waiting) + Cardinality(confirmed) <= MaxWaiting
           /\ waiting' \in Enqueue(waiting, confirmed)
           /\ ref' = [p \in Peers |-> IF p \in confirmed THEN ref[p] + 1 ELSE ref[p]]
    /\ subscribers' = [p \in Peers |->
           IF p \notin ToNotify THEN subscribers[p]
           ELSE [subscribers[p] EXCEPT
                    !.non_cnt = IF Confirmable(p) THEN 0 ELSE @ + 1,
                    !.dirty = p \in failed]]
    /\ stale' = stale \ (ToNotify \ failed)
    /\ notifying' = TRUE
    /\ UNCHANGED <<server, observable, notify_con, live, dirty>>

\* Its end: the flag of the resource is reset.
NotifyEnds ==
    /\ notifying
    /\ notifying' = FALSE
    /\ dirty' = FALSE
    /\ UNCHANGED <<server, observable, notify_con, live, ref, waiting,
                   subscribers, stale>>

-----------------------------------------------------------------------------

SrvNext ==
    \/ CreateServer \/ SrvInitResources \/ StartServer \/ StopServer
    \/ DestroyServer \/ SrvNotifyResourceChanged
    \/ \E p \in Peers :
          \/ \E kind \in {"observe", "cancel", "plain"}, refused \in BOOLEAN :
                HandleRequest(p, kind, refused)
          \/ \E i \in Mids : HandleAck(p, i) \/ HandleReset(p, i)
          \/ SessionExpires(p)
    \/ SrvRetransmits
    \/ \E failed \in SUBSET Peers : NotifyObservers(failed)
    \/ NotifyEnds

\* A notification that is sent to p, whatever happens to the others.
Reaches(p) == \E failed \in SUBSET (Peers \ {p}) :
                  p \in ToNotify /\ NotifyObservers(failed)

\* The service thread runs while the server is started and comes to the queue
\* and to the notifications in every turn; sending to a peer does not fail for
\* ever.
SrvFairness == /\ WF_srvvars(NotifyEnds)
               /\ SF_srvvars(SrvRetransmits)
               /\ \A p \in Peers : SF_srvvars(Reaches(p))

SrvSpec == SrvInit /\ [][SrvNext]_srvvars /\ SrvFairness

-----------------------------------------------------------------------------

\* Every reference to a session is counted, and only those: a queued
\* notification or an observer never points to a session that was freed by the
\* idle limit or the session timeout, and no session survives its server.
RefsExact ==
    /\ SrvTypeOK
    /\ \A p \in Peers :
          ref[p] = NodesOf(waiting, p) + (IF subscribers[p].on THEN 1 ELSE 0)
    /\ \A p \in Peers : ref[p] > 0 => p \in live
    /\ server = "none" => live = {}

\* A change of the resource reaches every observer, unless the observation
\* ends, the server stops, or the change is followed by another one.
ObserversSeeChange ==
    \A p \in Peers : (p \in stale /\ server = "started") ~>
                         (p \notin stale \/ server # "started")
=============================================================================
