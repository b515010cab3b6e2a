---------------------------- MODULE OnlineWatch ----------------------------
(***************************************************************************)
(* The online status watches of the network module on Linux                *)
(* (src/modules/connectivity/network/linux_network.c, lines 373 to 756).   *)
(* Each watch probes its host again and again: it looks the name up if it  *)
(* is not resolved, sends an echo request and waits for the reply or for a *)
(* timeout, reports a change, and waits for the interval.  A change of the *)
(* network starts the next probe at once.  Everything runs in the thread   *)
(* of the event loop; lookups end in it too.                               *)
(*                                                                         *)
(* A node is the address of a watch_online_node_t.  Its timers are split   *)
(* in the one that timeout_echo_id names and others that are still in the  *)
(* loop.                                                                   *)
(***************************************************************************)
EXTENDS Naturals, Sequences, Functions

CONSTANTS Nodes,        \* addresses of watch_online_node_t
          SeqWrap,      \* seqno is counted modulo SeqWrap (2^16 in the code)
          MaxChanges,   \* bound: changes of the hosts' reachability
          Unusual       \* which unusual conduct occurs, a subset of Conduct

\* "same": all watches are for one host; "late": a reply may come after its
\* timeout; "hasty": a watch may be removed while its name is looked up.
Conduct == {"same", "late", "hasty"}

ASSUME OnlineAssumption == /\ SeqWrap \in Nat \ {0, 1}
                           /\ MaxChanges \in Nat
                           /\ Unusual \subseteq Conduct

Host(n) == IF "same" \in Unusual THEN CHOOSE m \in Nodes : TRUE ELSE n
Hosts == {Host(n) : n \in Nodes}

VARIABLES
    root,           \* watch_online_status->root, <<>> if it is NULL
    online_status,  \* nodes whose online_status is true
    updating,       \* nodes whose update_online_status is true
    resolved,       \* nodes whose resolved is true
    force,          \* nodes whose force is true
    to,             \* nodes whose address has been set
    seqno,          \* seqno[n]
    timer,          \* timer[n]: kind of the timer timeout_echo_id names
    forgotten,      \* forgotten[n]: kinds of timers no id names any more
    lookups,        \* nodes whose name is being looked up
    replies,        \* echo replies on their way
    up,             \* hosts that answer
    changes,        \* changes of up so far
    undefined       \* a freed node was used

nodestate == <<online_status, updating, resolved, force, to, seqno>>
vars == <<root, nodestate, timer, forgotten, lookups, replies, up, changes,
          undefined>>

Kinds == {"send", "receive"}
Replies == [host : Hosts, seq : 0..(SeqWrap - 1)]

TypeOK == /\ root \in Seq(Nodes)
          /\ {online_status, updating, resolved, force, to, lookups} \subseteq SUBSET Nodes
          /\ seqno \in [Nodes -> 0..(SeqWrap - 1)]
          /\ timer \in [Nodes -> Kinds \cup {"none"}]
          /\ forgotten \in [Nodes -> SUBSET Kinds]
          /\ replies \subseteq Replies
          /\ up \subseteq Hosts
          /\ changes \in 0..MaxChanges
          /\ undefined \in BOOLEAN

Init == /\ root = <<>>
        /\ online_status = {} /\ updating = {} /\ resolved = {}
        /\ force = {} /\ to = {}
        /\ seqno = [n \in Nodes |-> 0]
        /\ timer = [n \in Nodes |-> "none"]
        /\ forgotten = [n \in Nodes |-> {}]
        /\ lookups = {} /\ replies = {}
        /\ up \in SUBSET Hosts
        /\ changes = 0
        /\ undefined = FALSE

Watched == Range(root)

\* The sequence number of the latest request.
Latest(n) == (seqno[n] + SeqWrap - 1) % SeqWrap

NextSeq(n) == (seqno[n] + 1) % SeqWrap

-----------------------------------------------------------------------------
(* Parts of the handlers.                                                  *)

Set(S, n, b) == IF b THEN S \cup {n} ELSE S \ {n}

\* Mutant of Notify: the probe is not marked as over.
MutNotify(n, status) ==
    /\ updating' = updating
    /\ resolved' = Set(resolved, n, status)
    /\ timer' = [timer EXCEPT ![n] = "send"]
    /\ force' = force \ {n}
    /\ online_status' = Set(online_status, n, status)
    /\ UNCHANGED <<to, seqno>>

\* notify_online_status_change: the timer that the id names is replaced by
\* the one for the next probe, and a change is reported.
Notify(n, status) ==
    /\ updating' = updating \ {n}
    /\ resolved' = Set(resolved, n, status)
    /\ timer' = [timer EXCEPT ![n] = "send"]
    /\ force' = force \ {n}
    /\ online_status' = Set(online_status, n, status)
    /\ UNCHANGED <<to, seqno>>

\* send_echo_request for the nodes of S, whose timers are now t: a host that
\* is up answers.  The id of a timer that still runs is overwritten.
SendEcho(S, t, f) ==
    /\ timer' = [n \in Nodes |-> IF n \in S THEN "receive" ELSE t[n]]
    /\ forgotten' = [n \in Nodes |-> IF n \in S THEN f[n] \cup ({t[n]} \ {"none"})
                                     ELSE f[n]]
    /\ replies' = replies \cup {[host |-> Host(n), seq |-> seqno[n]] :
                                  n \in {m \in S : Host(m) \in up}}
    /\ seqno' = [n \in Nodes |-> IF n \in S THEN NextSeq(n) ELSE seqno[n]]

\* update_online_status for the nodes of S.
Update(S, t, f) ==
    /\ updating' = updating \cup S
    /\ lookups' = lookups \cup (S \ resolved)
    /\ SendEcho(S \cap resolved, t, f)

-----------------------------------------------------------------------------
(* The application.                                                        *)

\* os_network_add_watch_online_status; the first watch opens the sockets.
AddWatch(n) ==
    /\ n \notin Watched
    /\ timer[n] = "none" /\ forgotten[n] = {} /\ n \notin lookups
    /\ root' = Append(root, n)
    /\ online_status' = online_status \ {n}
    /\ force' = force \cup {n}
    /\ resolved' = resolved \ {n}
    /\ to' = to \ {n}
    /\ seqno' = [seqno EXCEPT ![n] = 0]
    /\ updating' = updating \cup {n}
    /\ lookups' = lookups \cup {n}
    /\ UNCHANGED <<timer, forgotten, replies, up, changes, undefined>>

\* Mutant of RemoveTimer: the timer of a removed watch goes on.
MutRemoveTimer(n) == timer

RemoveTimer(n) == [timer EXCEPT ![n] = "none"]

\* clean_watch_online_status: replies to the closed socket are lost.
Clean(list) == IF list = <<>> THEN {} ELSE replies

\* artik_list_delete_handle: the node at place k goes.
Unlinked(list, k) ==
    [i \in 1..(Len(list) - 1) |-> IF i < k THEN list[i] ELSE list[i + 1]]

\* os_network_remove_watch_online_status; with the last watch the sockets
\* are closed.
RemoveWatch(n) ==
    /\ "hasty" \in Unusual \/ n \notin lookups
    /\ \E k \in DOMAIN root : root[k] = n /\ root' = Unlinked(root, k)
    /\ timer' = RemoveTimer(n)
    /\ replies' = Clean(root')
    /\ UNCHANGED <<nodestate, forgotten, lookups, up, changes, undefined>>

-----------------------------------------------------------------------------
(* The event loop.                                                         *)

\* A timer of kind k fires, the named one or a forgotten one: what is left.
Left(n, k) ==
    (IF timer[n] = k THEN {<<[timer EXCEPT ![n] = "none"], forgotten>>} ELSE {})
    \cup
    (IF k \in forgotten[n] THEN {<<timer, [forgotten EXCEPT ![n] = @ \ {k}]>>} ELSE {})

\* What a handler does with a node that was freed is undefined.
Freed(n) == /\ n \notin Watched
            /\ undefined' = TRUE
            /\ UNCHANGED <<root, nodestate, timer, forgotten, lookups, replies,
                           up, changes>>

\* timeout_send_echo_callback
SendTimeout(n) ==
    /\ Left(n, "send") # {}
    /\ \/ Freed(n)
       \/ /\ n \in Watched
          /\ \E p \in Left(n, "send") : Update({n}, p[1], p[2])
          /\ UNCHANGED <<root, online_status, resolved, force, to, up, changes,
                         undefined>>

\* timeout_receive_er_callback: the reply to the latest request is not on
\* its way, or late.
ReceiveTimeout(n) ==
    /\ Left(n, "receive") # {}
    /\ [host |-> Host(n), seq |-> Latest(n)] \notin replies \/ "late" \in Unusual
    /\ \/ Freed(n)
       \/ /\ n \in Watched
          /\ \E p \in Left(n, "receive") : forgotten' = p[2]
          /\ Notify(n, FALSE)
          /\ UNCHANGED <<root, lookups, replies, up, changes, undefined>>

\* get_addresses: the name of a host that is up has an IPv4 address.
LookupSucceeds(n) ==
    /\ n \in lookups
    /\ \/ Freed(n)
       \/ /\ n \in Watched
          /\ lookups' = lookups \ {n}
          /\ resolved' = resolved \cup {n}
          /\ to' = to \cup {n}
          /\ SendEcho({n}, timer, forgotten)
          /\ UNCHANGED <<root, online_status, updating, force, up, changes,
                         undefined>>

LookupFails(n) ==
    /\ n \in lookups /\ Host(n) \notin up
    /\ n \in Watched
    /\ lookups' = lookups \ {n}
    /\ Notify(n, FALSE)
    /\ UNCHANGED <<root, forgotten, replies, up, changes, undefined>>

\* search_node_with_sockaddr: the oldest watch of that address.
NodeOf(h) == {n \in Watched \cap to :
                /\ Host(n) = h
                /\ \A i, j \in DOMAIN root :
                     root[i] = n /\ j < i => root[j] \notin to \/ Host(root[j]) # h}

\* echo_response_watch: only the reply to the latest request counts.
EchoReply(r) ==
    /\ replies' = replies \ {r}
    /\ \/ /\ \A n \in NodeOf(r.host) : Latest(n) # r.seq
          /\ UNCHANGED <<nodestate, timer>>
       \/ \E n \in NodeOf(r.host) : Latest(n) = r.seq /\ Notify(n, TRUE)
    /\ UNCHANGED <<root, forgotten, lookups, up, changes, undefined>>

\* Mutant of Probed: a probe is started although one is going on.
MutProbed(status) == {n \in Watched : (n \in online_status) # status}

\* The watches that network_connection probes at once.
Probed(status) == {n \in Watched \ updating : (n \in online_status) # status}

\* network_connection: a link, an address or a route came or went.
NetworkChanges(status) ==
    /\ root # <<>>
    /\ Update(Probed(status),
              [n \in Nodes |-> IF n \in Probed(status) THEN "none" ELSE timer[n]],
              forgotten)
    /\ UNCHANGED <<root, online_status, resolved, force, to, up, changes, undefined>>

\* A host becomes reachable or unreachable.
PeerChanges(h) ==
    /\ changes < MaxChanges
    /\ changes' = changes + 1
    /\ up' = Set(up, h, h \notin up)
    /\ UNCHANGED <<root, nodestate, timer, forgotten, lookups, replies, undefined>>

Next == /\ ~undefined
        /\ \/ \E n \in Nodes : \/ AddWatch(n) \/ RemoveWatch(n)
                               \/ SendTimeout(n) \/ ReceiveTimeout(n)
                               \/ LookupSucceeds(n) \/ LookupFails(n)
           \/ \E r \in replies : EchoReply(r)
           \/ \E status \in BOOLEAN : NetworkChanges(status)
           \/ \E h \in Hosts : PeerChanges(h)

\* Timers fire, lookups end, and what is on its way arrives.
Fairness == /\ \A n \in Nodes : /\ WF_vars(~undefined /\ SendTimeout(n))
                                /\ WF_vars(~undefined /\ ReceiveTimeout(n))
                                /\ WF_vars(~undefined /\ LookupSucceeds(n))
            /\ \A r \in Replies : WF_vars(~undefined /\ r \in replies /\ EchoReply(r))

Spec == Init /\ [][Next]_vars /\ Fairness

-----------------------------------------------------------------------------
(* Properties.                                                             *)

\* A watch is in one phase of its probe at a time: its name is looked up,
\* or it waits for a reply, or for the next probe.  No timer is forgotten,
\* and nothing is left of a watch that was removed.
OnePhase ==
    /\ TypeOK
    /\ \A n \in Watched :
         /\ forgotten[n] = {}
         /\ n \in lookups <=> timer[n] = "none"
         /\ n \in updating <=> timer[n] # "send"
    /\ \A n \in Nodes \ Watched :
         timer[n] = "none" /\ forgotten[n] = {} /\ n \notin lookups

\* When a host stays up, or stays down, the status of its watch becomes and
\* remains right ("Call func when the online status of addr change occurs").
BecomesRight ==
    \A n \in Nodes :
        /\ <>[](n \in Watched /\ Host(n) \in up) => <>[](n \in online_status)
        /\ <>[](n \in Watched /\ Host(n) \notin up) => <>[](n \notin online_status)
=============================================================================
