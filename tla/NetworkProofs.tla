--------------------------- MODULE NetworkProofs ---------------------------
(***************************************************************************)
(* Proofs about the modules of the network: OnlineWatch, Cloud and Dhcp.   *)
(* The three share no state.                                               *)
(*                                                                         *)
(* OnePhase is proved for watches of different hosts that are not removed  *)
(* during a lookup, and for replies that come before their timeouts        *)
(* (Plain); each of the three is needed.  Then a reply that would end a    *)
(* probe of a watch whose name has been set is not on its way unless the   *)
(* watch waits for one (Awaited), also if the sequence numbers have        *)
(* wrapped, or the reply was meant for a watch of this host that was       *)
(* removed.                                                                *)
(*                                                                         *)
(* HeldForAnswers is proved for applications that neither use handles of   *)
(* closed streams nor write before they were told of the connection        *)
(* (Polite).  That the registration comes first needs what is known of the *)
(* stream until then: an application that was told has a stream whose      *)
(* slot holds the registration, or that has sent it (Registered).          *)
(*                                                                         *)
(* NoSharedAddress is proved for a server that is not restarted and for    *)
(* devices that answer pings (Punctual).  An address that was acknowledged *)
(* is reserved for its client (Reserved), the address of a bound client is *)
(* leased to no other (Separate), and a device has one entry (OneEntry).   *)
(***************************************************************************)
EXTENDS OnlineWatch, Cloud, Dhcp, FiniteSetTheorems, TLAPS

-----------------------------------------------------------------------------
(* OnlineWatch.                                                            *)

Plain == "same" \notin Unusual /\ "late" \notin Unusual /\ "hasty" \notin Unusual

\* Every watch is in the list once.
ListInv == /\ root \in Seq(Nodes)
           /\ \A i, j \in DOMAIN root : root[i] = root[j] => i = j

SetTypes == /\ {online_status, updating, resolved, force, to, lookups} \subseteq SUBSET Nodes
            /\ replies \subseteq Replies
            /\ up \subseteq Hosts
            /\ undefined \in BOOLEAN

SeqType == seqno \in [Nodes -> 0..(SeqWrap - 1)]

ChangesType == changes \in 0..MaxChanges

PhaseInv ==
    /\ timer \in [Nodes -> Kinds \cup {"none"}]
    /\ forgotten = [n \in Nodes |-> {}]
    /\ lookups \subseteq Nodes
    /\ \A n \in Watched : /\ n \in lookups <=> timer[n] = "none"
                          /\ n \in updating <=> timer[n] # "send"
    /\ \A n \in Nodes \ Watched : timer[n] = "none" /\ n \notin lookups

\* The reply that would end a probe is awaited.
Awaited == \A n \in Watched \cap to :
              [host |-> n, seq |-> Latest(n)] \in replies => timer[n] = "receive"

-----------------------------------------------------------------------------
(* The list.                                                               *)

\* Each watch has a host of its own.
LEMMA HostIsNode == ASSUME Plain PROVE \A n : Host(n) = n
BY DEF Plain, Host

\* artik_list_add of a watch.
LEMMA AppendListed ==
    ASSUME ListInv, NEW n \in Nodes, n \notin Watched, root' = Append(root, n)
    PROVE  ListInv' /\ Watched' = Watched \cup {n}
<1>1. /\ root \in Seq(Nodes) /\ Len(root) \in Nat /\ DOMAIN root = 1..Len(root)
      /\ root' \in Seq(Nodes) /\ DOMAIN root' = 1..(Len(root) + 1)
      /\ \A i \in 1..Len(root) : root'[i] = root[i]
      /\ root'[Len(root) + 1] = n
  BY DEF ListInv
<1>2. \A i \in 1..Len(root) : root[i] # n
  BY <1>1 DEF Watched, Range
<1>3. \A i \in DOMAIN root' : i \in 1..Len(root) \/ i = Len(root) + 1
  BY <1>1
<1>4. ListInv'
  <2>1. ASSUME NEW i \in DOMAIN root', NEW j \in DOMAIN root', root'[i] = root'[j] PROVE i = j
    BY <1>1, <1>2, <1>3, <2>1 DEF ListInv
  <2> QED BY <1>1, <2>1 DEF ListInv
<1>5. Watched' = Watched \cup {n}
  <2>1. ASSUME NEW m \in Watched' PROVE m \in Watched \cup {n}
    BY <1>1, <1>3 DEF Watched, Range
  <2>2. ASSUME NEW m \in Watched \cup {n} PROVE m \in Watched'
    <3>1. CASE m = n
      BY <1>1, <3>1 DEF Watched, Range
    <3>2. CASE m \in Watched
      <4>1. PICK i \in DOMAIN root : root[i] = m
        BY <3>2 DEF Watched, Range
      <4>2. i \in DOMAIN root' /\ root'[i] = m
        BY <1>1, <4>1
      <4> QED BY <4>2 DEF Watched, Range
    <3> QED BY <3>1, <3>2
  <2> QED BY <2>1, <2>2
<1> QED BY <1>4, <1>5

\* artik_list_delete_node of a watch.
LEMMA UnlinkListed ==
    ASSUME ListInv, NEW k \in DOMAIN root, root' = Unlinked(root, k)
    PROVE  ListInv' /\ Watched' = Watched \ {root[k]} /\ root[k] \in Watched
<1>1. /\ root \in Seq(Nodes) /\ Len(root) \in Nat /\ DOMAIN root = 1..Len(root)
      /\ k \in 1..Len(root)
  BY DEF ListInv
<1> DEFINE L == Len(root)
           From(i) == IF i < k THEN i ELSE i + 1
<1>2. /\ DOMAIN root' = 1..(L - 1) /\ root' \in [1..(L - 1) -> Nodes]
      /\ \A i \in 1..(L - 1) : From(i) \in 1..L /\ From(i) # k /\ root'[i] = root[From(i)]
  <2>1. \A i \in 1..(L - 1) : From(i) \in 1..L /\ From(i) # k
    BY <1>1
  <2>2. \A i \in 1..L : root[i] \in Nodes
    BY <1>1
  <2>3. root' = [i \in 1..(L - 1) |-> IF i < k THEN root[i] ELSE root[i + 1]]
    BY DEF Unlinked
  <2>4. root' = [i \in 1..(L - 1) |-> root[From(i)]]
    BY <2>3
  <2> HIDE DEF From
  <2> QED BY <2>1, <2>2, <2>4
<1>3. root' \in Seq(Nodes)
  <2>1. L - 1 \in Nat
    BY <1>1
  <2> QED BY <1>2, <2>1
<1>4. ListInv'
  <2>1. ASSUME NEW i \in DOMAIN root', NEW j \in DOMAIN root', root'[i] = root'[j] PROVE i = j
    <3>1. From(i) \in DOMAIN root /\ From(j) \in DOMAIN root /\ root[From(i)] = root[From(j)]
      <4> HIDE DEF From
      <4> QED BY <1>1, <1>2, <2>1
    <3>2. From(i) = From(j)
      <4> HIDE DEF From
      <4> QED BY <3>1 DEF ListInv
    <3>3. i \in 1..(L - 1) /\ j \in 1..(L - 1)
      BY <1>2
    <3> QED BY <1>1, <3>2, <3>3
  <2> QED BY <1>3, <2>1 DEF ListInv
<1>5. Watched' = Watched \ {root[k]}
  <2>1. ASSUME NEW m \in Watched' PROVE m \in Watched \ {root[k]}
    <3>1. PICK i \in 1..(L - 1) : root'[i] = m
      BY <1>2, <2>1 DEF Watched, Range
    <3> QED BY <1>1, <1>2, <3>1 DEF Watched, Range, ListInv
  <2>2. ASSUME NEW m \in Watched \ {root[k]} PROVE m \in Watched'
    <3>1. PICK i \in 1..L : root[i] = m /\ i # k
      BY <1>1, <2>2 DEF Watched, Range
    <3>2. CASE i < k
      <4>1. i \in 1..(L - 1) /\ From(i) = i
        BY <1>1, <3>1, <3>2
      <4> QED BY <1>2, <3>1, <4>1 DEF Watched, Range
    <3>3. CASE k < i
      <4>1. i - 1 \in 1..(L - 1) /\ From(i - 1) = i
        BY <1>1, <3>1, <3>3
      <4> QED BY <1>2, <3>1, <4>1 DEF Watched, Range
    <3> QED BY <1>1, <3>1, <3>2, <3>3
  <2> QED BY <2>1, <2>2
<1> QED BY <1>4, <1>5 DEF Watched, Range

-----------------------------------------------------------------------------
(* Types.                                                                  *)

Types == SetTypes /\ SeqType /\ ChangesType

\* Sequence numbers wrap.
LEMMA NextSeqInRange ==
    ASSUME NEW n \in Nodes, SeqType
    PROVE  NextSeq(n) \in 0..(SeqWrap - 1)
<1>1. seqno[n] + 1 \in Nat /\ SeqWrap \in Nat /\ SeqWrap > 0
  BY OnlineAssumption DEF SeqType
<1> QED BY <1>1 DEF NextSeq

LEMMA SendEchoTypes ==
    ASSUME Types, NEW S \in SUBSET Nodes, NEW t, NEW f, SendEcho(S, t, f)
    PROVE  SeqType' /\ replies' \subseteq Replies
<1>1. SeqType'
  <2>1. \A n \in Nodes : (IF n \in S THEN NextSeq(n) ELSE seqno[n]) \in 0..(SeqWrap - 1)
    <3>1. \A n \in Nodes : NextSeq(n) \in 0..(SeqWrap - 1)
      BY NextSeqInRange DEF Types
    <3>2. \A n \in Nodes : seqno[n] \in 0..(SeqWrap - 1)
      BY DEF Types, SeqType
    <3> QED BY <3>1, <3>2
  <2>2. seqno' = [n \in Nodes |-> IF n \in S THEN NextSeq(n) ELSE seqno[n]]
    BY DEF SendEcho
  <2> QED BY <2>1, <2>2 DEF SeqType
<1>2. ASSUME NEW n \in Nodes PROVE [host |-> Host(n), seq |-> seqno[n]] \in Replies
  <2>1. seqno[n] \in 0..(SeqWrap - 1) /\ Host(n) \in Hosts
    BY DEF Types, SeqType, Hosts
  <2> QED BY <2>1 DEF Replies
<1>3. replies' = replies \cup {[host |-> Host(n), seq |-> seqno[n]] :
                                  n \in {m \in S : Host(m) \in up}}
  BY DEF SendEcho
<1> QED BY <1>1, <1>2, <1>3 DEF Types, SetTypes

LEMMA NotifyTypes ==
    ASSUME Types, NEW n \in Nodes, NEW b \in BOOLEAN, Notify(n, b)
    PROVE  /\ {online_status, updating, resolved, force, to}' \subseteq SUBSET Nodes
           /\ SeqType'
<1>1. {online_status, updating, resolved, force, to} \subseteq SUBSET Nodes
  BY DEF Types, SetTypes
<1>2. online_status' \subseteq Nodes /\ resolved' \subseteq Nodes
  BY <1>1 DEF Notify, Set
<1>3. updating' \subseteq Nodes /\ force' \subseteq Nodes /\ to' \subseteq Nodes
  BY <1>1 DEF Notify
<1>4. seqno' = seqno
  BY DEF Notify
<1> QED BY <1>2, <1>3, <1>4 DEF Types, SeqType

LEMMA TypesStep == ASSUME ListInv, Types, [Next]_vars PROVE Types'
<1> USE DEF Types
<1>0. /\ online_status \subseteq Nodes /\ updating \subseteq Nodes /\ resolved \subseteq Nodes
      /\ force \subseteq Nodes /\ to \subseteq Nodes /\ lookups \subseteq Nodes
      /\ replies \subseteq Replies /\ up \subseteq Hosts /\ undefined \in BOOLEAN
      /\ Watched \subseteq Nodes
  BY DEF SetTypes, ListInv, Watched, Range
<1>1. ASSUME NEW n \in Nodes, AddWatch(n) PROVE Types'
  <2>1. SetTypes'
    BY <1>0, <1>1 DEF AddWatch, SetTypes
  <2>2. SeqType'
    <3>1. seqno' = [seqno EXCEPT ![n] = 0] /\ 0 \in 0..(SeqWrap - 1)
      BY <1>1, OnlineAssumption DEF AddWatch
    <3> QED BY <3>1 DEF SeqType
  <2> QED BY <1>1, <2>1, <2>2 DEF AddWatch, ChangesType
<1>2. ASSUME NEW n \in Nodes, RemoveWatch(n) PROVE Types'
  <2>1. replies' \subseteq replies
    BY <1>2 DEF RemoveWatch, Clean
  <2> QED BY <1>0, <1>2, <2>1 DEF RemoveWatch, nodestate, SetTypes, SeqType, ChangesType
<1>3. ASSUME NEW n, Freed(n) PROVE Types'
  BY <1>0, <1>3 DEF Freed, nodestate, SetTypes, SeqType, ChangesType
<1>4. ASSUME NEW S \in SUBSET Nodes, NEW t, NEW f, Update(S, t, f),
             UNCHANGED <<root, online_status, resolved, force, to, up, changes, undefined>>
      PROVE  Types'
  <2>1. S \cap resolved \in SUBSET Nodes /\ SendEcho(S \cap resolved, t, f)
    BY <1>4 DEF Update
  <2>2. SeqType' /\ replies' \subseteq Replies
    BY <2>1, SendEchoTypes
  <2>3. updating' \subseteq Nodes /\ lookups' \subseteq Nodes
    BY <1>0, <1>4 DEF Update
  <2> QED BY <1>0, <1>4, <2>2, <2>3 DEF SetTypes, ChangesType
<1>5. ASSUME NEW n \in Nodes, SendTimeout(n) PROVE Types'
  BY <1>3, <1>4, <1>5 DEF SendTimeout
<1>6. ASSUME NEW n \in Nodes, ReceiveTimeout(n) PROVE Types'
  <2>1. CASE Freed(n)
    BY <1>3, <2>1
  <2>2. CASE Notify(n, FALSE) /\ UNCHANGED <<root, lookups, replies, up, changes, undefined>>
    BY <1>0, <2>2, NotifyTypes DEF SetTypes, ChangesType
  <2> QED BY <1>6, <2>1, <2>2 DEF ReceiveTimeout
<1>7. ASSUME NEW n \in Nodes, LookupSucceeds(n) PROVE Types'
  <2>1. CASE Freed(n)
    BY <1>3, <2>1
  <2>2. CASE /\ lookups' = lookups \ {n} /\ resolved' = resolved \cup {n} /\ to' = to \cup {n}
             /\ SendEcho({n}, timer, forgotten)
             /\ UNCHANGED <<root, online_status, updating, force, up, changes, undefined>>
    <3>1. SeqType' /\ replies' \subseteq Replies
      BY <2>2, SendEchoTypes
    <3> QED BY <1>0, <2>2, <3>1 DEF SetTypes, ChangesType
  <2> QED BY <1>7, <2>1, <2>2 DEF LookupSucceeds
<1>8. ASSUME NEW n \in Nodes, LookupFails(n) PROVE Types'
  BY <1>0, <1>8, NotifyTypes DEF LookupFails, SetTypes, ChangesType
<1>9. ASSUME NEW r \in replies, EchoReply(r) PROVE Types'
  <2>1. replies' \subseteq Replies /\ lookups' = lookups /\ up' = up /\ undefined' = undefined
        /\ changes' = changes
    BY <1>0, <1>9 DEF EchoReply
  <2>2. CASE UNCHANGED nodestate
    BY <1>0, <2>1, <2>2 DEF nodestate, SetTypes, SeqType, ChangesType
  <2>3. ASSUME NEW n \in NodeOf(r.host), Notify(n, TRUE) PROVE Types'
    BY <1>0, <2>1, <2>3, NotifyTypes DEF NodeOf, SetTypes, ChangesType
  <2> QED BY <1>9, <2>2, <2>3 DEF EchoReply
<1>10. ASSUME NEW b \in BOOLEAN, NetworkChanges(b) PROVE Types'
  BY <1>0, <1>4, <1>10 DEF NetworkChanges, Probed
<1>11. ASSUME NEW h \in Hosts, PeerChanges(h) PROVE Types'
  <2>1. up' \subseteq Hosts
    BY <1>0, <1>11 DEF PeerChanges, Set
  <2>2. ChangesType'
    BY <1>11, OnlineAssumption DEF PeerChanges, ChangesType
  <2> QED BY <1>0, <1>11, <2>1, <2>2 DEF PeerChanges, nodestate, SetTypes, SeqType
<1>12. CASE UNCHANGED vars
  BY <1>12 DEF vars, nodestate, SetTypes, SeqType, ChangesType
<1> QED
  <2> HIDE DEF Types
  <2> QED BY <1>1, <1>2, <1>5, <1>6, <1>7, <1>8, <1>9, <1>10, <1>11, <1>12 DEF Next

-----------------------------------------------------------------------------
(* The phases of a probe.                                                  *)

Phases == PhaseInv /\ Awaited

\* The probes of the watches of S start, whose timers are for the next probe.
LEMMA ProbeStep ==
    ASSUME Plain, ListInv, Types, Phases, NEW S \in SUBSET Watched, NEW t,
           \A n \in S : timer[n] = "send",
           t = [n \in Nodes |-> IF n \in S THEN "none" ELSE timer[n]],
           Update(S, t, forgotten), UNCHANGED <<root, resolved, to>>
    PROVE  Phases'
<1>0. Watched \subseteq Nodes /\ Watched' = Watched
  BY DEF ListInv, Watched, Range
<1>1. \A n \in Nodes : timer'[n] = IF n \in S THEN (IF n \in resolved THEN "receive" ELSE "none")
                                  ELSE timer[n]
  BY <1>0 DEF Update, SendEcho
<1>2. timer' \in [Nodes -> Kinds \cup {"none"}]
  <2>1. timer' = [n \in Nodes |-> IF n \in S \cap resolved THEN "receive" ELSE t[n]]
    BY DEF Update, SendEcho
  <2>2. \A n \in Nodes : (IF n \in S \cap resolved THEN "receive" ELSE t[n]) \in Kinds \cup {"none"}
    BY DEF Phases, PhaseInv, Kinds
  <2> QED BY <2>1, <2>2
<1>3. forgotten' = [n \in Nodes |-> {}]
  <2>1. forgotten' = [n \in Nodes |-> IF n \in S \cap resolved
                                         THEN forgotten[n] \cup ({t[n]} \ {"none"})
                                         ELSE forgotten[n]]
    BY DEF Update, SendEcho
  <2>2. \A n \in Nodes : (IF n \in S \cap resolved
                             THEN forgotten[n] \cup ({t[n]} \ {"none"})
                             ELSE forgotten[n]) = {}
    BY DEF Phases, PhaseInv
  <2> QED BY <2>1, <2>2
<1>4. lookups' = lookups \cup (S \ resolved) /\ updating' = updating \cup S
  BY DEF Update
<1>5. PhaseInv'
  <2>1. ASSUME NEW n \in Watched
        PROVE  /\ n \in lookups' <=> timer'[n] = "none"
               /\ n \in updating' <=> timer'[n] # "send"
    <3>1. (n \in lookups <=> timer[n] = "none") /\ (n \in updating <=> timer[n] # "send")
      BY DEF Phases, PhaseInv
    <3>2. CASE n \in S
      BY <1>0, <1>1, <1>4, <3>1, <3>2
    <3>3. CASE n \notin S
      BY <1>0, <1>1, <1>4, <3>1, <3>3
    <3> QED BY <3>2, <3>3
  <2>2. \A n \in Nodes \ Watched : timer'[n] = "none" /\ n \notin lookups'
    BY <1>0, <1>1, <1>4 DEF Phases, PhaseInv
  <2>3. lookups' \subseteq Nodes
    BY <1>0, <1>4 DEF Phases, PhaseInv
  <2> QED BY <1>0, <1>2, <1>3, <2>1, <2>2, <2>3 DEF PhaseInv
<1>6. Awaited'
  <2>1. ASSUME NEW n \in Watched \cap to, timer'[n] # "receive"
        PROVE  [host |-> n, seq |-> Latest(n)'] \notin replies'
    <3>1. n \in Nodes /\ n \notin S \cap resolved /\ timer[n] # "receive"
      BY <1>0, <1>1, <2>1
    <3>2. seqno'[n] = seqno[n]
      BY <3>1 DEF Update, SendEcho
    <3>3. Latest(n)' = Latest(n)
      BY <3>2 DEF Latest
    <3>4. [host |-> n, seq |-> Latest(n)] \notin replies
      BY <2>1, <3>1 DEF Phases, Awaited
    <3>5. ASSUME NEW r \in replies' \ replies PROVE r.host \in S \cap resolved
      <4>1. PICK m \in S \cap resolved : r = [host |-> Host(m), seq |-> seqno[m]]
        BY DEF Update, SendEcho
      <4> QED BY <4>1, HostIsNode
    <3> QED BY <3>1, <3>3, <3>4, <3>5
  <2> QED BY <1>0, <2>1 DEF Awaited
<1> QED BY <1>5, <1>6 DEF Phases

\* The probe of a watch ends, and no reply to its latest request is left.
LEMMA NotifyStep ==
    ASSUME ListInv, Types, Phases, NEW n \in Watched, NEW b, Notify(n, b),
           UNCHANGED <<root, forgotten>>,
           replies' \subseteq replies, lookups' = lookups \ {n},
           n \in to => [host |-> n, seq |-> Latest(n)] \notin replies'
    PROVE  Phases'
<1>0. n \in Nodes /\ Watched \subseteq Nodes /\ Watched' = Watched
  BY DEF ListInv, Watched, Range
<1>1. timer' = [timer EXCEPT ![n] = "send"] /\ updating' = updating \ {n}
      /\ seqno' = seqno /\ to' = to
  BY DEF Notify
<1>2. \A m \in Nodes : timer'[m] = IF m = n THEN "send" ELSE timer[m]
  BY <1>0, <1>1 DEF Phases, PhaseInv
<1>3. timer' \in [Nodes -> Kinds \cup {"none"}]
  BY <1>1 DEF Phases, PhaseInv, Kinds
<1>4. PhaseInv'
  <2>1. ASSUME NEW m \in Watched
        PROVE  /\ m \in lookups' <=> timer'[m] = "none"
               /\ m \in updating' <=> timer'[m] # "send"
    <3>1. (m \in lookups <=> timer[m] = "none") /\ (m \in updating <=> timer[m] # "send")
      BY DEF Phases, PhaseInv
    <3>2. CASE m = n
      BY <1>0, <1>1, <1>2, <3>2
    <3>3. CASE m # n
      BY <1>0, <1>1, <1>2, <3>1, <3>3
    <3> QED BY <3>2, <3>3
  <2>2. \A m \in Nodes \ Watched : timer'[m] = "none" /\ m \notin lookups'
    BY <1>0, <1>2 DEF Phases, PhaseInv
  <2> QED BY <1>0, <1>3, <2>1, <2>2 DEF Phases, PhaseInv
<1>5. Awaited'
  <2>1. \A m : Latest(m)' = Latest(m)
    BY <1>1 DEF Latest
  <2>2. ASSUME NEW m \in Watched \cap to, [host |-> m, seq |-> Latest(m)] \in replies'
        PROVE  timer'[m] = "receive"
    <3>1. m # n
      BY <2>2
    <3>2. timer[m] = "receive"
      BY <2>2 DEF Phases, Awaited
    <3> QED BY <1>0, <1>2, <3>1, <3>2
  <2> QED BY <1>0, <1>1, <2>1, <2>2 DEF Awaited
<1> QED BY <1>4, <1>5 DEF Phases

LEMMA PhasesStep == ASSUME Plain, ListInv, Types, Phases, [Next]_vars PROVE ListInv' /\ Phases'
<1>0. /\ Watched \subseteq Nodes
      /\ timer \in [Nodes -> Kinds \cup {"none"}] /\ forgotten = [n \in Nodes |-> {}]
      /\ \A n \in Watched : /\ n \in lookups <=> timer[n] = "none"
                            /\ n \in updating <=> timer[n] # "send"
      /\ \A n \in Nodes \ Watched : timer[n] = "none" /\ n \notin lookups
      /\ \A n \in Watched \cap to :
            [host |-> n, seq |-> Latest(n)] \in replies => timer[n] = "receive"
  <2>1. Watched \subseteq Nodes
    BY DEF ListInv, Watched, Range
  <2>2. PhaseInv /\ Awaited
    BY DEF Phases
  <2> QED BY <2>1, <2>2, Zenon DEF PhaseInv, Awaited
<1>1. ASSUME UNCHANGED root PROVE ListInv' /\ Watched' = Watched
  BY <1>1 DEF ListInv, Watched
<1>2. ASSUME NEW n \in Nodes, NEW k \in Kinds, Left(n, k) # {}
      PROVE  /\ n \in Watched /\ timer[n] = k
             /\ Left(n, k) = {<<[timer EXCEPT ![n] = "none"], forgotten>>}
  <2>1. forgotten[n] = {}
    BY <1>0
  <2>2. timer[n] = k
    BY <1>2, <2>1 DEF Left
  <2>3. Left(n, k) = {<<[timer EXCEPT ![n] = "none"], forgotten>>}
    BY <2>1, <2>2 DEF Left
  <2>4. k # "none"
    BY DEF Kinds
  <2> QED BY <1>0, <2>2, <2>3, <2>4
<1>3. \A n : Freed(n) => n \notin Watched
  BY DEF Freed
<1>4. ASSUME NEW n \in Nodes, AddWatch(n) PROVE ListInv' /\ Phases'
  <2>1. ListInv' /\ Watched' = Watched \cup {n}
    BY <1>4, AppendListed DEF AddWatch
  <2>2. /\ n \notin Watched /\ timer' = timer /\ forgotten' = forgotten /\ replies' = replies
        /\ to' = to \ {n} /\ updating' = updating \cup {n} /\ lookups' = lookups \cup {n}
        /\ timer[n] = "none"
    BY <1>4 DEF AddWatch
  <2>3. PhaseInv'
    <3>1. \A m \in Watched' : /\ m \in lookups' <=> timer'[m] = "none"
                              /\ m \in updating' <=> timer'[m] # "send"
      <4>1. ASSUME NEW m \in Watched'
            PROVE  (m \in lookups' <=> timer'[m] = "none") /\ (m \in updating' <=> timer'[m] # "send")
        <5>1. CASE m = n
          BY <2>2, <5>1
        <5>2. CASE m # n
          <6>1. m \in Watched
            BY <2>1, <5>2
          <6>2. (m \in lookups <=> timer[m] = "none") /\ (m \in updating <=> timer[m] # "send")
            BY <1>0, <6>1
          <6> QED BY <2>2, <5>2, <6>2
        <5> QED BY <5>1, <5>2
      <4> QED BY <4>1
    <3>2. lookups' \subseteq Nodes
      BY <2>2 DEF Phases, PhaseInv
    <3> QED BY <1>0, <2>1, <2>2, <3>1, <3>2 DEF PhaseInv
  <2>4. Awaited'
    <3>1. ASSUME NEW m \in Watched' \cap to', [host |-> m, seq |-> Latest(m)'] \in replies'
          PROVE  timer'[m] = "receive"
      <4>1. m \in Watched \cap to /\ m # n /\ m \in Nodes
        BY <1>0, <2>1, <2>2, <3>1
      <4>2. seqno'[m] = seqno[m]
        BY <1>4, <4>1 DEF AddWatch, Types, SeqType
      <4>3. Latest(m)' = Latest(m)
        BY <4>2 DEF Latest
      <4> QED BY <1>0, <2>2, <3>1, <4>1, <4>3
    <3> QED BY <3>1 DEF Awaited
  <2> QED BY <2>1, <2>3, <2>4 DEF Phases
<1>5. ASSUME NEW n \in Nodes, RemoveWatch(n) PROVE ListInv' /\ Phases'
  <2>1. PICK k \in DOMAIN root : root[k] = n /\ root' = Unlinked(root, k)
    BY <1>5 DEF RemoveWatch
  <2>2. ListInv' /\ Watched' = Watched \ {n} /\ n \in Watched
    BY <2>1, UnlinkListed
  <2>3. /\ n \notin lookups /\ timer' = [timer EXCEPT ![n] = "none"]
        /\ forgotten' = forgotten /\ lookups' = lookups /\ updating' = updating
        /\ to' = to /\ seqno' = seqno /\ replies' \subseteq replies
    BY <1>5 DEF RemoveWatch, RemoveTimer, Clean, nodestate, Plain
  <2>4. \A m \in Nodes : timer'[m] = IF m = n THEN "none" ELSE timer[m]
    BY <1>0, <2>3
  <2>5. timer' \in [Nodes -> Kinds \cup {"none"}]
    BY <1>0, <2>3
  <2>6. PhaseInv'
    <3>1. \A m \in Watched' : /\ m \in lookups' <=> timer'[m] = "none"
                              /\ m \in updating' <=> timer'[m] # "send"
      <4>1. ASSUME NEW m \in Watched'
            PROVE  (m \in lookups' <=> timer'[m] = "none") /\ (m \in updating' <=> timer'[m] # "send")
        <5>1. m \in Watched /\ m # n /\ m \in Nodes
          BY <1>0, <2>2
        <5>2. (m \in lookups <=> timer[m] = "none") /\ (m \in updating <=> timer[m] # "send")
          BY <1>0, <5>1
        <5> QED BY <2>3, <2>4, <5>1, <5>2
      <4> QED BY <4>1
    <3>2. \A m \in Nodes \ Watched' : timer'[m] = "none" /\ m \notin lookups'
      BY <1>0, <2>2, <2>3, <2>4
    <3> QED BY <1>0, <2>3, <2>5, <3>1, <3>2 DEF PhaseInv, Phases
  <2>7. Awaited'
    <3>1. \A m : Latest(m)' = Latest(m)
      BY <2>3 DEF Latest
    <3> QED BY <1>0, <2>2, <2>3, <2>4, <3>1 DEF Awaited
  <2> QED BY <2>2, <2>6, <2>7 DEF Phases
<1>6. ASSUME NEW n \in Nodes, SendTimeout(n) PROVE ListInv' /\ Phases'
  <2>1. /\ n \in Watched /\ timer[n] = "send"
        /\ Left(n, "send") = {<<[timer EXCEPT ![n] = "none"], forgotten>>}
    BY <1>2, <1>6 DEF SendTimeout, Kinds
  <2>2. /\ \E p \in Left(n, "send") : Update({n}, p[1], p[2])
        /\ UNCHANGED <<root, resolved, to>>
    BY <1>3, <1>6, <2>1 DEF SendTimeout
  <2>3. Update({n}, [timer EXCEPT ![n] = "none"], forgotten)
    BY <2>1, <2>2
  <2>4. [timer EXCEPT ![n] = "none"] = [m \in Nodes |-> IF m \in {n} THEN "none" ELSE timer[m]]
    BY <1>0
  <2> QED BY <1>1, <2>1, <2>2, <2>3, <2>4, ProbeStep
<1>7. ASSUME NEW n \in Nodes, ReceiveTimeout(n) PROVE ListInv' /\ Phases'
  <2>1. /\ n \in Watched /\ timer[n] = "receive"
        /\ Left(n, "receive") = {<<[timer EXCEPT ![n] = "none"], forgotten>>}
    BY <1>2, <1>7 DEF ReceiveTimeout, Kinds
  <2>2. /\ \E p \in Left(n, "receive") : forgotten' = p[2]
        /\ Notify(n, FALSE)
        /\ UNCHANGED <<root, lookups, replies>>
    BY <1>3, <1>7, <2>1 DEF ReceiveTimeout
  <2>3. forgotten' = forgotten
    BY <2>1, <2>2
  <2>4. [host |-> n, seq |-> Latest(n)] \notin replies
    BY <1>7, HostIsNode DEF ReceiveTimeout, Plain
  <2>5. n \notin lookups
    BY <1>0, <2>1
  <2> QED BY <1>1, <2>1, <2>2, <2>3, <2>4, <2>5, NotifyStep
<1>8. ASSUME NEW n \in Nodes, LookupSucceeds(n) PROVE ListInv' /\ Phases'
  <2>1. n \in Watched /\ timer[n] = "none" /\ n \in updating
    <3>1. n \in lookups
      BY <1>8 DEF LookupSucceeds
    <3>2. n \in Watched
      BY <1>0, <3>1
    <3>3. (n \in lookups <=> timer[n] = "none") /\ (n \in updating <=> timer[n] # "send")
      BY <1>0, <3>2
    <3> QED BY <3>1, <3>2, <3>3
  <2>2. /\ lookups' = lookups \ {n} /\ to' = to \cup {n}
        /\ SendEcho({n}, timer, forgotten)
        /\ UNCHANGED <<root, updating>>
    BY <1>3, <1>8, <2>1 DEF LookupSucceeds
  <2>3. timer' = [m \in Nodes |-> IF m \in {n} THEN "receive" ELSE timer[m]]
    BY <2>2 DEF SendEcho
  <2>4. \A m \in Nodes : timer'[m] = IF m = n THEN "receive" ELSE timer[m]
    BY <2>3
  <2>5. forgotten' = [m \in Nodes |-> {}]
    <3>1. forgotten' = [m \in Nodes |-> IF m \in {n} THEN forgotten[m] \cup ({timer[m]} \ {"none"})
                                        ELSE forgotten[m]]
      BY <2>2 DEF SendEcho
    <3>2. \A m \in Nodes : (IF m \in {n} THEN forgotten[m] \cup ({timer[m]} \ {"none"})
                                        ELSE forgotten[m]) = {}
      BY <1>0, <2>1
    <3> QED BY <3>1, <3>2
  <2>6. timer' \in [Nodes -> Kinds \cup {"none"}]
    BY <1>0, <2>3 DEF Kinds
  <2>7. PhaseInv'
    <3>1. \A m \in Watched : /\ m \in lookups' <=> timer'[m] = "none"
                             /\ m \in updating' <=> timer'[m] # "send"
      <4>1. ASSUME NEW m \in Watched
            PROVE  (m \in lookups' <=> timer'[m] = "none") /\ (m \in updating' <=> timer'[m] # "send")
        <5>1. m \in Nodes
          BY <1>0
        <5>2. (m \in lookups <=> timer[m] = "none") /\ (m \in updating <=> timer[m] # "send")
          BY <1>0
        <5>3. CASE m = n
          BY <2>1, <2>2, <2>4, <5>1, <5>3
        <5>4. CASE m # n
          BY <2>2, <2>4, <5>1, <5>2, <5>4
        <5> QED BY <5>3, <5>4
      <4> QED BY <4>1
    <3>2. \A m \in Nodes \ Watched : timer'[m] = "none" /\ m \notin lookups'
      BY <1>0, <2>1, <2>2, <2>4
    <3> QED BY <1>1, <2>2, <2>5, <2>6, <3>1, <3>2 DEF PhaseInv, Phases
  <2>8. Awaited'
    <3>1. ASSUME NEW m \in Watched \cap to', timer'[m] # "receive"
          PROVE  [host |-> m, seq |-> Latest(m)'] \notin replies'
      <4>1. m \in Nodes /\ m # n /\ timer[m] # "receive" /\ m \in to
        BY <1>0, <2>2, <2>4, <3>1
      <4>2. seqno'[m] = seqno[m]
        BY <2>2, <4>1 DEF SendEcho
      <4>3. Latest(m)' = Latest(m)
        BY <4>2 DEF Latest
      <4>4. \A r \in replies' \ replies : r.host = n
        BY <2>2, HostIsNode DEF SendEcho
      <4> QED BY <1>0, <3>1, <4>1, <4>3, <4>4
    <3> QED BY <1>1, <2>2, <3>1 DEF Awaited
  <2> QED BY <1>1, <2>2, <2>7, <2>8 DEF Phases
<1>9. ASSUME NEW n \in Nodes, LookupFails(n) PROVE ListInv' /\ Phases'
  <2>1. /\ n \in Watched /\ timer[n] = "none" /\ lookups' = lookups \ {n} /\ Notify(n, FALSE)
        /\ UNCHANGED <<root, forgotten, replies>>
    <3>1. n \in lookups /\ n \in Watched
      BY <1>9 DEF LookupFails
    <3>2. n \in lookups <=> timer[n] = "none"
      BY <1>0, <3>1
    <3> QED BY <1>9, <3>1, <3>2 DEF LookupFails
  <2>2. n \in to => [host |-> n, seq |-> Latest(n)] \notin replies
    BY <1>0, <2>1
  <2> QED BY <1>1, <2>1, <2>2, NotifyStep
<1>10. ASSUME NEW r \in replies, EchoReply(r) PROVE ListInv' /\ Phases'
  <2>1. replies' = replies \ {r} /\ UNCHANGED <<root, forgotten, lookups>>
    BY <1>10 DEF EchoReply
  <2>2. CASE UNCHANGED <<nodestate, timer>>
    <3>1. timer' = timer /\ seqno' = seqno /\ to' = to /\ updating' = updating
      BY <2>2 DEF nodestate
    <3>2. PhaseInv'
      BY <1>1, <2>1, <3>1 DEF Phases, PhaseInv
    <3>3. \A m : Latest(m)' = Latest(m)
      BY <3>1 DEF Latest
    <3>4. Awaited'
      BY <1>0, <1>1, <2>1, <3>1, <3>3 DEF Awaited
    <3> QED BY <1>1, <2>1, <3>2, <3>4 DEF Phases
  <2>3. ASSUME NEW n \in NodeOf(r.host), Latest(n) = r.seq, Notify(n, TRUE) PROVE ListInv' /\ Phases'
    <3>1. n \in Watched \cap to /\ r.host = n
      BY HostIsNode DEF NodeOf
    <3>2. r = [host |-> n, seq |-> Latest(n)]
      BY <2>3, <3>1 DEF Types, SetTypes, Replies
    <3>3. timer[n] = "receive" /\ n \notin lookups
      BY <1>0, <3>1, <3>2
    <3> QED BY <1>1, <2>1, <2>3, <3>1, <3>2, <3>3, NotifyStep
  <2> QED BY <1>10, <2>2, <2>3 DEF EchoReply
<1>11. ASSUME NEW b \in BOOLEAN, NetworkChanges(b) PROVE ListInv' /\ Phases'
  <2>1. Probed(b) \in SUBSET Watched /\ \A n \in Probed(b) : timer[n] = "send"
    <3>1. ASSUME NEW n \in Probed(b) PROVE timer[n] = "send"
      <4>1. n \in Watched /\ n \notin updating
        BY DEF Probed
      <4>2. n \in updating <=> timer[n] # "send"
        BY <1>0, <4>1
      <4> QED BY <4>1, <4>2
    <3> QED BY <3>1 DEF Probed
  <2> DEFINE t == [n \in Nodes |-> IF n \in Probed(b) THEN "none" ELSE timer[n]]
  <2>2. Update(Probed(b), t, forgotten) /\ UNCHANGED <<root, resolved, to>>
    BY <1>11 DEF NetworkChanges
  <2> HIDE DEF t
  <2>3. Phases'
    BY <2>1, <2>2, ProbeStep DEF t
  <2> QED BY <1>1, <2>2, <2>3
<1>12. ASSUME UNCHANGED <<root, nodestate, timer, forgotten, lookups, replies>>
       PROVE  ListInv' /\ Phases'
  <2>1. timer' = timer /\ seqno' = seqno /\ to' = to /\ updating' = updating
        /\ root' = root /\ replies' = replies /\ lookups' = lookups /\ forgotten' = forgotten
    BY <1>12 DEF nodestate
  <2>2. PhaseInv'
    BY <1>1, <2>1 DEF Phases, PhaseInv
  <2>3. \A m : Latest(m)' = Latest(m)
    BY <2>1 DEF Latest
  <2>4. Awaited'
    BY <1>0, <1>1, <2>1, <2>3 DEF Awaited
  <2> QED BY <1>1, <2>1, <2>2, <2>4 DEF Phases
<1>13. ASSUME NEW h \in Hosts, PeerChanges(h) PROVE ListInv' /\ Phases'
  BY <1>12, <1>13 DEF PeerChanges
<1>14. CASE UNCHANGED vars
  BY <1>12, <1>14 DEF vars
<1> QED BY <1>4, <1>5, <1>6, <1>7, <1>8, <1>9, <1>10, <1>11, <1>13, <1>14 DEF Next

-----------------------------------------------------------------------------
(* The theorem.                                                            *)

LEMMA InitInv == Init => ListInv /\ Types /\ Phases
<1> SUFFICES ASSUME Init PROVE ListInv /\ Types /\ Phases
  OBVIOUS
<1>1. root = <<>> /\ Watched = {} /\ ListInv
  BY DEF Init, ListInv, Watched, Range
<1>2. SetTypes
  BY DEF Init, SetTypes
<1>3. SeqType /\ ChangesType
  <2>1. 0 \in 0..(SeqWrap - 1) /\ 0 \in 0..MaxChanges
    BY OnlineAssumption
  <2> QED BY <2>1 DEF Init, SeqType, ChangesType
<1>4. PhaseInv /\ Awaited
  BY <1>1 DEF Init, PhaseInv, Awaited, Kinds
<1> QED BY <1>1, <1>2, <1>3, <1>4 DEF Types, Phases

\* A watch is in one phase of its probe at a time, no timer is forgotten, and
\* nothing is left of a watch that was removed (linux_network.c: the ids of
\* the timers in watch_online_node_t), if Plain.
THEOREM OnePhaseInvariant == ASSUME Plain PROVE Spec => []OnePhase
<1>1. Init => ListInv /\ Types /\ Phases
  BY InitInv
<1>2. ListInv /\ Types /\ Phases /\ [Next]_vars => (ListInv /\ Types /\ Phases)'
  BY TypesStep, PhasesStep
<1>3. ListInv /\ Types /\ Phases => OnePhase
  <2> SUFFICES ASSUME ListInv, Types, Phases PROVE OnePhase
    OBVIOUS
  <2>1. TypeOK
    BY DEF ListInv, Types, SetTypes, SeqType, ChangesType, Phases, PhaseInv, TypeOK
  <2>2. Watched \subseteq Nodes /\ \A n \in Nodes : forgotten[n] = {}
    BY DEF ListInv, Watched, Range, Phases, PhaseInv
  <2> QED BY <2>1, <2>2 DEF OnePhase, Phases, PhaseInv
<1> QED BY <1>1, <1>2, <1>3, PTL DEF Spec

-----------------------------------------------------------------------------
(* Cloud.                                                                  *)

Polite == "unknown" \notin ClUnusual /\ "burst" \notin ClUnusual

\* References of the HTTP module and answers.
HttpRefs ==
    /\ cl_call \in 0 .. 1
    /\ cl_pending \subseteq cl_accepted /\ cl_accepted \subseteq ClRequests
    /\ cl_answering \subseteq ClRequests
    /\ IsFiniteSet(cl_pending)
    /\ IsFiniteSet(cl_answering) /\ Cardinality(cl_answering) <= 1
    /\ cl_answers \in [ClRequests -> Nat]
    /\ \A r \in ClRequests : cl_answers[r] = IF r \in cl_accepted \ cl_pending THEN 1 ELSE 0

Counts ==
    /\ cl_refs \in [{"http", "websocket"} -> Int]
    /\ cl_refs["http"] = Cardinality(cl_pending) + Cardinality(cl_answering) + cl_call
    /\ cl_refs["websocket"] = 0

StreamTypes ==
    /\ cl_nodes \subseteq ClStreams /\ cl_told \subseteq cl_nodes
    /\ cl_link \in [ClStreams -> {"none", "opening", "up", "down"}]
    /\ cl_events \in [ClStreams -> SUBSET {"CONNECTED", "CLOSED", "ERROR"}]
    /\ cl_slot \in [ClStreams -> ClMessages] /\ cl_first \in [ClStreams -> ClMessages]

\* The registration of a stream comes before any message.
Registered ==
    \A h \in ClStreams :
        /\ cl_link[h] = "none" <=> h \notin cl_nodes
        /\ cl_link[h] = "none" =>
             cl_events[h] = {} /\ cl_slot[h] = "none" /\ cl_first[h] = "none"
        /\ h \in cl_told /\ cl_link[h] \in {"opening", "up"} =>
             cl_slot[h] = "register" \/ cl_first[h] = "register"
        /\ cl_slot[h] = "message" => cl_first[h] = "register"
        /\ cl_first[h] # "message"

SecBound == cl_sec \in 0 .. ClMaxSec

LEMMA CloudInit == ClInit => HttpRefs /\ Counts /\ StreamTypes /\ Registered /\ SecBound
<1> SUFFICES ASSUME ClInit PROVE HttpRefs /\ Counts /\ StreamTypes /\ Registered /\ SecBound
  OBVIOUS
<1>1. HttpRefs
  BY FS_EmptySet DEF ClInit, HttpRefs
<1>2. Counts
  BY FS_EmptySet DEF ClInit, Counts
<1>3. StreamTypes /\ Registered
  BY DEF ClInit, StreamTypes, Registered, ClMessages
<1>4. SecBound
  BY CloudAssumption DEF ClInit, SecBound
<1> QED BY <1>1, <1>2, <1>3, <1>4

StreamSteps(h) ==
    \/ OpenStream(h) \/ SendStreamMessage(h) \/ CloseStream(h)
    \/ \E e \in {"CONNECTED", "CLOSED", "ERROR"} : ConnectionCallback(h, e)
    \/ StreamChanges(h, "opening", "up", "CONNECTED")
    \/ StreamChanges(h, "opening", "down", "ERROR")
    \/ StreamChanges(h, "up", "down", "CLOSED")
    \/ StreamSends(h)

\* Every operation is a request over the HTTP module, perhaps after the request
\* of a security handle, or concerns one stream.
LEMMA CloudSteps ==
    ASSUME [ClNext]_clvars
    PROVE  \/ \E r \in ClRequests \cup {"sync"} :
                 Performs(r) /\ (UNCHANGED cl_sec \/ SdrFillSslConfig)
           \/ SyncReturns \/ CallbackReturns \/ SdrFails
           \/ \E r \in ClRequests : HttpResponds(r)
           \/ \E h \in ClStreams : StreamSteps(h)
           \/ UNCHANGED clvars
BY DEF ClNext, ClDel, ClPut, ClPost, ClGet, GetCurrentUserProfile, GetUserDevices,
       GetUserDeviceTypes, GetUserApplicationProperties, GetDevice, GetDeviceToken,
       GetDeviceProperties, AddDevice, SendMessage, SendAction,
       SetDeviceServerProperties, UpdateDeviceToken, DeleteDeviceToken, DeleteDevice,
       SdrStartRegistration, SdrRegistrationStatus, SdrCompleteRegistration, StreamSteps

\* The references of the HTTP module, whatever is asked and answered.
LEMMA AnswersStep ==
    ASSUME Polite, HttpRefs, Counts, SecBound, [ClNext]_clvars
    PROVE  HttpRefs' /\ Counts' /\ SecBound'
<1> DEFINE P == Cardinality(cl_pending)
           A == Cardinality(cl_answering)
<1>0. P \in Nat /\ A \in Nat /\ cl_call \in 0 .. 1
  BY FS_CardinalityType DEF HttpRefs
<1>1. ASSUME NEW r \in ClRequests \cup {"sync"}, Performs(r) PROVE HttpRefs' /\ Counts'
  <2>1. CASE r = "sync"
    <3>1. /\ cl_call = 0 /\ cl_call' = 1
          /\ UNCHANGED <<cl_pending, cl_accepted, cl_answering, cl_answers>>
      BY <1>1, <2>1 DEF Performs
    <3>2. HttpRefs'
      BY <3>1 DEF HttpRefs
    <3>3. Counts'
      BY <1>0, <1>1, <3>1 DEF Performs, Counts
    <3> QED BY <3>2, <3>3
  <2>2. CASE r # "sync"
    <3>1. /\ r \in ClRequests /\ r \notin cl_accepted
          /\ cl_pending' = cl_pending \cup {r} /\ cl_accepted' = cl_accepted \cup {r}
          /\ UNCHANGED <<cl_call, cl_answering, cl_answers>>
      BY <1>1, <2>2 DEF Performs
    <3>2. IsFiniteSet(cl_pending') /\ Cardinality(cl_pending') = P + 1
      BY <3>1, FS_AddElement DEF HttpRefs
    <3>3. HttpRefs'
      BY <3>1, <3>2 DEF HttpRefs
    <3>4. cl_refs' = [cl_refs EXCEPT !["http"] = @ + 1]
      BY <1>1 DEF Performs
    <3>5. Counts'
      BY <1>0, <3>1, <3>2, <3>4 DEF Counts
    <3> QED BY <3>3, <3>5
  <2> QED BY <2>1, <2>2
<1>2. CASE SyncReturns
  <2>1. HttpRefs'
    BY <1>2 DEF SyncReturns, HttpRefs
  <2>2. Counts' /\ cl_sec' = cl_sec
    BY <1>0, <1>2 DEF SyncReturns, Counts
  <2> QED BY <2>1, <2>2 DEF SecBound
<1>3. CASE CallbackReturns
  <2>0. A = 1
    <3>1. cl_answering # {} /\ IsFiniteSet(cl_answering) /\ A <= 1
      BY <1>3 DEF CallbackReturns, HttpRefs
    <3> QED BY <1>0, <3>1, FS_EmptySet
  <2>1. HttpRefs'
    BY <1>3, FS_EmptySet DEF CallbackReturns, HttpRefs
  <2>2. Counts' /\ cl_sec' = cl_sec
    BY <1>0, <1>3, <2>0, FS_EmptySet DEF CallbackReturns, Counts
  <2> QED BY <2>1, <2>2 DEF SecBound
<1>4. ASSUME NEW r \in ClRequests, HttpResponds(r) PROVE HttpRefs' /\ Counts' /\ SecBound'
  <2>1. /\ r \in cl_pending /\ cl_answering = {} /\ cl_answering' = {r}
        /\ cl_pending' = cl_pending \ {r}
        /\ UNCHANGED <<cl_refs, cl_call, cl_accepted, cl_sec>>
    BY <1>4 DEF HttpResponds
  <2>2. IsFiniteSet(cl_pending') /\ Cardinality(cl_pending') = P - 1
    BY <2>1, FS_RemoveElement DEF HttpRefs
  <2>3. IsFiniteSet(cl_answering') /\ Cardinality(cl_answering') = 1 /\ A = 0
    BY <2>1, FS_Singleton, FS_EmptySet
  <2>4. HttpRefs'
    BY <1>4, <2>1, <2>2, <2>3 DEF HttpResponds, HttpRefs
  <2>5. Counts'
    BY <1>0, <2>1, <2>2, <2>3 DEF Counts
  <2> QED BY <2>1, <2>4, <2>5 DEF SecBound
<1>5. CASE SdrFails
  BY <1>5, CloudAssumption DEF SdrFails, SdrFillSslConfig, HttpRefs, Counts, SecBound
<1>6. ASSUME NEW h \in ClStreams, StreamSteps(h) PROVE UNCHANGED <<cl_refs, clhttp>>
  BY <1>6 DEF StreamSteps, Polite, OpenStream, SendStreamMessage, CloseStream, Unknown,
              ConnectionCallback, StreamChanges, StreamSends
<1>7. CASE UNCHANGED <<cl_refs, clhttp>>
  BY <1>7 DEF clhttp, HttpRefs, Counts, SecBound
<1>8. ASSUME UNCHANGED cl_sec \/ SdrFillSslConfig PROVE SecBound'
  <2>1. cl_sec \in 0 .. ClMaxSec /\ (cl_sec' = cl_sec \/ (cl_sec < ClMaxSec /\ cl_sec' = cl_sec + 1))
    BY <1>8 DEF SdrFillSslConfig, SecBound
  <2>2. cl_sec' \in 0 .. ClMaxSec
    BY <2>1, CloudAssumption
  <2> QED BY <2>2 DEF SecBound
<1> QED BY <1>1, <1>2, <1>3, <1>4, <1>5, <1>6, <1>7, <1>8, CloudSteps DEF clvars

\* The streams, whatever they are sent and told.
LEMMA StreamStep ==
    ASSUME Polite, StreamTypes, Registered, [ClNext]_clvars
    PROVE  StreamTypes' /\ Registered'
<1>1. ASSUME NEW h \in ClStreams, OpenStream(h) PROVE StreamTypes' /\ Registered'
  BY <1>1 DEF OpenStream, StreamTypes, Registered
<1>2. ASSUME NEW h \in ClStreams, SendStreamMessage(h) PROVE StreamTypes' /\ Registered'
  <2>1. /\ h \in cl_told /\ cl_slot[h] = "none" /\ h \in cl_nodes
        /\ UNCHANGED <<cl_nodes, cl_told, cl_link, cl_events, cl_first>>
        /\ cl_slot' = IF cl_link[h] \in {"opening", "up"}
                        THEN [cl_slot EXCEPT ![h] = "message"] ELSE cl_slot
    BY <1>2 DEF SendStreamMessage, Unknown, Written, Polite
  <2>2. StreamTypes'
    BY <2>1 DEF StreamTypes, ClMessages
  <2>3. cl_link[h] \in {"opening", "up"} => cl_first[h] = "register"
    BY <2>1 DEF Registered
  <2>4. Registered'
    BY <2>1, <2>3 DEF Registered, StreamTypes
  <2> QED BY <2>2, <2>4
<1>3. ASSUME NEW h \in ClStreams, CloseStream(h) PROVE StreamTypes' /\ Registered'
  <2>1. /\ h \in cl_nodes
        /\ cl_nodes' = cl_nodes \ {h} /\ cl_told' = cl_told \ {h}
        /\ cl_link' = [cl_link EXCEPT ![h] = "none"]
        /\ cl_events' = [cl_events EXCEPT ![h] = {}]
        /\ cl_slot' = [cl_slot EXCEPT ![h] = "none"]
        /\ cl_first' = [cl_first EXCEPT ![h] = "none"]
    BY <1>3 DEF CloseStream, Unknown, Polite
  <2>2. StreamTypes'
    BY <2>1 DEF StreamTypes, ClMessages
  <2>3. Registered'
    BY <2>1 DEF Registered, StreamTypes
  <2> QED BY <2>2, <2>3
<1>4. ASSUME NEW h \in ClStreams, NEW e \in {"CONNECTED", "CLOSED", "ERROR"},
             ConnectionCallback(h, e)
      PROVE  StreamTypes' /\ Registered'
  <2>1. /\ cl_events[h] # {} /\ cl_events' = [cl_events EXCEPT ![h] = @ \ {e}]
        /\ UNCHANGED <<cl_nodes, cl_link, cl_first>>
        /\ \/ UNCHANGED <<cl_slot, cl_told>>
           \/ /\ cl_told' = cl_told \cup {h}
              /\ cl_slot' = IF cl_link[h] \in {"opening", "up"}
                              THEN [cl_slot EXCEPT ![h] = "register"] ELSE cl_slot
    BY <1>4 DEF ConnectionCallback, Written
  <2>2. h \in cl_nodes
    BY <2>1 DEF Registered
  <2>3. StreamTypes'
    BY <2>1, <2>2 DEF StreamTypes, ClMessages
  <2>4. Registered'
    BY <2>1, <2>2 DEF Registered, StreamTypes
  <2> QED BY <2>3, <2>4
<1>5. ASSUME NEW h \in ClStreams,
             NEW from \in {"opening", "up"}, NEW next \in {"up", "down"},
             NEW e \in {"CONNECTED", "CLOSED", "ERROR"}, from = "up" => next = "down",
             StreamChanges(h, from, next, e)
      PROVE  StreamTypes' /\ Registered'
  BY <1>5 DEF StreamChanges, StreamTypes, Registered
<1>6. ASSUME NEW h \in ClStreams, StreamSends(h) PROVE StreamTypes' /\ Registered'
  <2>1. /\ cl_link[h] = "up" /\ cl_slot[h] # "none"
        /\ cl_slot' = [cl_slot EXCEPT ![h] = "none"]
        /\ cl_first' = IF cl_first[h] = "none" THEN [cl_first EXCEPT ![h] = cl_slot[h]]
                       ELSE cl_first
        /\ UNCHANGED <<cl_nodes, cl_told, cl_link, cl_events>>
    BY <1>6 DEF StreamSends
  <2>2. StreamTypes'
    BY <2>1 DEF StreamTypes, ClMessages
  <2>3. cl_first'[h] # "message" /\ (h \in cl_told => cl_first'[h] = "register")
    BY <2>1 DEF Registered, StreamTypes, ClMessages
  <2>4. Registered'
    BY <2>1, <2>3 DEF Registered, StreamTypes
  <2> QED BY <2>2, <2>4
<1>7. CASE UNCHANGED clstreams
  BY <1>7 DEF clstreams, StreamTypes, Registered
<1>8. ASSUME NEW h \in ClStreams, StreamSteps(h) PROVE StreamTypes' /\ Registered'
  BY <1>1, <1>2, <1>3, <1>4, <1>5, <1>6, <1>8 DEF StreamSteps
<1>9. ASSUME NEW r, Performs(r) \/ HttpResponds(r) \/ SyncReturns \/ CallbackReturns \/ SdrFails
      PROVE  UNCHANGED clstreams
  BY <1>9 DEF Performs, HttpResponds, SyncReturns, CallbackReturns, SdrFails
<1> QED BY <1>7, <1>8, <1>9, CloudSteps DEF clvars

\* The HTTP module is held once for each request without an answer and for the
\* callback that runs, each accepted request is answered once, and the
\* registration of a device is the first message of its stream.
THEOREM ModulesHeldForAnswers ==
    ASSUME Polite
    PROVE  ClInit /\ [][ClNext]_clvars => []HeldForAnswers
<1> DEFINE Inv == HttpRefs /\ Counts /\ StreamTypes /\ Registered /\ SecBound
<1>1. ClInit => Inv
  BY CloudInit
<1>2. Inv /\ [ClNext]_clvars => Inv'
  BY AnswersStep, StreamStep
<1>3. Inv => HeldForAnswers
  <2> SUFFICES ASSUME Inv PROVE HeldForAnswers
    OBVIOUS
  <2>1. cl_refs["http"] \in Nat /\ cl_refs["websocket"] \in Nat
    BY FS_CardinalityType DEF HttpRefs, Counts
  <2>2. cl_refs \in [{"http", "websocket"} -> Nat]
    BY <2>1 DEF Counts
  <2>3. ClTypeOK
    BY <2>2 DEF ClTypeOK, HttpRefs, SecBound, StreamTypes
  <2> QED BY <2>3 DEF HttpRefs, Counts, Registered, HeldForAnswers
<1> QED BY <1>1, <1>2, <1>3, PTL

-----------------------------------------------------------------------------
(* Least elements.                                                         *)

\* A set of natural numbers that is not empty has a least element: otherwise
\* what is below all of it would be closed under successors, and bounded, so
\* that the successor would map it one-to-one onto less than itself.
LEMMA LeastNatural ==
    ASSUME NEW S \in SUBSET Nat, S # {}
    PROVE  \E m \in S : \A k \in S : m <= k
<1> SUFFICES ASSUME \A m \in S : \E k \in S : k < m PROVE FALSE
  OBVIOUS
<1> DEFINE Lower == {k \in Nat : \A s \in S : k < s}
           next == [k \in Lower |-> k + 1]
<1>1. 0 \in Lower
  BY DEF Lower
<1>2. ASSUME NEW k \in Lower PROVE k + 1 \in Lower
  <2>1. SUFFICES ASSUME NEW s \in S, ~(k + 1 < s) PROVE FALSE
    BY DEF Lower
  <2>2. s = k + 1
    BY <2>1 DEF Lower
  <2>3. PICK r \in S : r < s
    OBVIOUS
  <2>4. k < r
    BY DEF Lower
  <2> QED BY <2>2, <2>3, <2>4
<1>3. PICK x \in S : TRUE
  OBVIOUS
<1>4. IsFiniteSet(Lower)
  <2>1. IsFiniteSet(0 .. x) 
    BY FS_Interval, <1>3
  <2>2. Lower \subseteq 0 .. x
    BY <1>3 DEF Lower
  <2> QED BY <2>1, <2>2, FS_Subset
<1>5. /\ IsFiniteSet(Lower \ {0})
      /\ Cardinality(Lower \ {0}) = Cardinality(Lower) - 1
      /\ Cardinality(Lower) \in Nat
  BY <1>1, <1>4, FS_RemoveElement, FS_CardinalityType
<1>6. next \in [Lower -> Lower \ {0}]
  <2>1. \A k \in Lower : k + 1 \in Lower \ {0}
    BY <1>2 DEF Lower
  <2> QED BY <2>1
<1> HIDE DEF Lower
<1>7. \E j, k \in Lower : j # k /\ next[j] = next[k]
  <2>1. Cardinality(Lower \ {0}) < Cardinality(Lower)
    BY <1>5
  <2> HIDE DEF next
  <2> QED BY <1>4, <1>5, <1>6, <2>1, FS_PigeonHole
<1> QED BY <1>7 DEF Lower

LEMMA LeastIsMember == ASSUME NEW S \in SUBSET Nat, S # {} PROVE Least(S) \in S
BY LeastNatural DEF Least

LEMMA LeastOfOne == ASSUME NEW a \in Nat PROVE Least({a}) = a
BY DEF Least

-----------------------------------------------------------------------------
(* DHCP.                                                                   *)

Punctual == "restart" \notin DhcpUnusual /\ "silent" \notin DhcpUnusual

Bound(c) == phase[c] \in {"bound", "broken"}

\* The addresses that are acknowledged to a client.
Acked(c) == {socket[c][i].ip : i \in {j \in DOMAIN socket[c] : socket[c][j].type = "ACK"}}

\* What is sent to the server: a client never asks for an address before it was
\* offered one, and gives none back.
ToServer ==
    {m \in [type : {"DISCOVER", "REQUEST", "DECLINE", "RELEASE"}, mac : Macs, req : AnyAddr,
            sid : ServerIds, ci : AnyAddr] :
        m.mac \in Clients => m.type # "RELEASE" /\ (m.type = "DISCOVER" => m.req = 0)}

ToClient ==
    {m \in [type : {"OFFER", "ACK", "NAK"}, ip : AnyAddr, until : Nat] :
        m.type # "NAK" => m.ip \in Addrs}

Entries == [mac : Macs \cup {NoMac}, allocated : BOOLEAN, expiry : 0 .. DhcpClock + LeaseTime]
Stages == {"off", "selecting", "requesting", "bound", "broken"}

ServerTypes == /\ serving \in BOOLEAN
               /\ leases \in [Addrs -> Entries]
               /\ clock \in 0 .. DhcpClock
               /\ inbox \in Seq(ToServer)

ClientTypes == /\ phase \in [Clients -> Stages]
               /\ ifaddr \in [Clients -> AnyAddr] /\ oldaddr \in [Clients -> AnyAddr]
               /\ offered \in [Clients -> AnyAddr]

Counters == count \in [Clients -> 0 .. MaxDiscover] /\ retries \in [Clients -> 0 .. MaxRequest]

Sockets == socket \in [Clients -> Seq(ToClient)]

\* Only a client that listens, to a server that runs, has messages.
Quiet == \A c \in Clients : ~Listening(c) \/ ~serving => socket[c] = <<>>

OneEntry == \A a, b \in Addrs :
               leases[a].mac = leases[b].mac /\ leases[a].mac \in Macs => a = b

\* An address that was acknowledged is reserved for its client, though perhaps
\* by an entry that has lost its owner, and for nobody else.
Reserved ==
    /\ \A c \in Clients : \A a \in Acked(c) :
         a \in Addrs /\ leases[a].mac \in {c, NoMac} /\ leases[a].allocated /\ ~Expired(a)
    /\ \A c, d \in Clients : c # d => Acked(c) \cap Acked(d) = {}
    /\ \A c, d \in Clients : Bound(d) => ifaddr[d] \notin Acked(c)

\* The address of a client is leased to no other client.
Separate ==
    /\ \A c \in Clients : Bound(c) => ifaddr[c] \in Addrs
    /\ \A c, d \in Clients : Bound(c) /\ c # d => leases[ifaddr[c]].mac # d
    /\ \A c, d \in Clients : Bound(c) /\ Bound(d) /\ c # d => ifaddr[c] # ifaddr[d]

\* The numbers of DhcpAssumption that the proofs use.
LEMMA DhcpBounds ==
    /\ \A n \in {OfferTime, DeclineTime, LeaseTime} :
         clock \in 0 .. DhcpClock => clock + n \in 0 .. DhcpClock + LeaseTime /\ clock + n \in Nat
    /\ \A n \in {OfferTime, DeclineTime, LeaseTime} : clock \in 0 .. DhcpClock => ~(clock + n <= clock)
    /\ 0 \in 0 .. DhcpClock + LeaseTime /\ 0 \in 0 .. DhcpClock
    /\ \A a \in Addrs : a \in Nat /\ a # 0
    /\ 0 \notin Addrs
    /\ NoMac \notin Macs /\ \A o \in Others : o \notin Clients
<1>1. /\ OfferTime \in Nat /\ OfferTime > 0 /\ DeclineTime \in Nat /\ DeclineTime > 0
      /\ LeaseTime \in Nat /\ LeaseTime > OfferTime /\ LeaseTime > DeclineTime /\ DhcpClock \in Nat
  BY DhcpAssumption
<1>2. /\ Addrs \subseteq Nat \ {0}
      /\ NoMac \notin Macs /\ \A o \in Others : o \notin Clients
  BY DhcpAssumption DEF Macs
<1> QED BY <1>1, <1>2

LEMMA FreeEntry == Free \in Entries /\ Free.mac = NoMac
BY DhcpBounds DEF Free, Entries

-----------------------------------------------------------------------------
(* What is sent to the server.                                             *)

LEMMA MessageTypes ==
    ASSUME NEW c \in Clients, NEW a \in AnyAddr
    PROVE  {DiscoverMsg(c), RequestMsg(c, a), DeclineMsg(c, a)} \subseteq ToServer
<1>1. 0 \in AnyAddr /\ c \in Macs
  BY DEF AnyAddr, Macs
<1> QED BY <1>1 DEF DiscoverMsg, RequestMsg, DeclineMsg, Message, ToServer, ServerIds

\* Of the messages that are sent all arrive, one or none.
LEMMA SendsTypes ==
    ASSUME inbox \in Seq(ToServer), NEW ms \in Seq(ToServer), Sends(ms)
    PROVE  inbox' \in Seq(ToServer)
<1>1. PICK arriving \in {<<>>, ms} \cup {<<ms[k]>> : k \in DOMAIN ms} : inbox' = inbox \o arriving
  BY DEF Sends
<1>2. arriving \in Seq(ToServer)
  <2>1. \A k \in DOMAIN ms : ms[k] \in ToServer
    OBVIOUS
  <2>2. CASE arriving = <<>>
    BY <2>2
  <2>3. CASE \E k \in DOMAIN ms : arriving = <<ms[k]>>
    BY <2>1, <2>3
  <2> QED BY <1>1, <2>2, <2>3
<1> QED BY <1>1, <1>2

-----------------------------------------------------------------------------
(* What is sent to the clients.                                            *)

\* Reading takes the first message.
LEMMA AckedRead == ASSUME NEW c \in Clients, Sockets, socket[c] # <<>>
                   PROVE  /\ Head(socket[c]) \in ToClient
                          /\ Head(socket[c]).type = "ACK" => Head(socket[c]).ip \in Acked(c)
                          /\ Tail(socket[c]) \in Seq(ToClient)
<1>1. socket[c] \in Seq(ToClient) /\ 1 \in DOMAIN socket[c] /\ Head(socket[c]) = socket[c][1]
  BY DEF Sockets
<1> QED BY <1>1 DEF Acked

\* A client that takes messages from its socket, or throws all away.
LEMMA AckedShrinks ==
    ASSUME Sockets, NEW c \in Clients, NEW s,
           s = <<>> \/ (socket[c] # <<>> /\ s = Tail(socket[c])) \/ s = socket[c],
           socket' = [socket EXCEPT ![c] = s]
    PROVE  /\ Sockets' /\ s \in Seq(ToClient)
           /\ Acked(c)' \subseteq Acked(c) /\ (s = <<>> => Acked(c)' = {})
           /\ \A d \in Clients : d # c => Acked(d)' = Acked(d) /\ socket'[d] = socket[d]
           /\ socket'[c] = s
<1>1. s \in Seq(ToClient) /\ socket[c] \in Seq(ToClient)
  <2>1. socket[c] \in Seq(ToClient)
    BY DEF Sockets
  <2>2. CASE s = <<>>
    BY <2>1, <2>2
  <2>3. CASE socket[c] # <<>> /\ s = Tail(socket[c])
    BY <2>1, <2>3
  <2>4. CASE s = socket[c]
    BY <2>1, <2>4
  <2> QED BY <2>1, <2>2, <2>3, <2>4
<1>2. Sockets' /\ socket'[c] = s /\ \A d \in Clients : d # c => socket'[d] = socket[d]
  BY <1>1 DEF Sockets
<1>3. \A d \in Clients : d # c => Acked(d)' = Acked(d)
  BY <1>2 DEF Acked
<1>4. s = <<>> => Acked(c)' = {}
  BY <1>2 DEF Acked
<1>5. ASSUME NEW a \in Acked(c)' PROVE a \in Acked(c)
  <2>1. PICK i \in DOMAIN s : s[i].type = "ACK" /\ s[i].ip = a
    BY <1>2 DEF Acked
  <2>2. CASE s = <<>>
    BY <2>1, <2>2
  <2>3. CASE s = socket[c]
    BY <2>1, <2>3 DEF Acked
  <2>4. CASE socket[c] # <<>> /\ s = Tail(socket[c])
    <3>1. i + 1 \in DOMAIN socket[c] /\ s[i] = socket[c][i + 1]
      BY <1>1, <2>1, <2>4
    <3> QED BY <2>1, <3>1 DEF Acked
  <2> QED BY <2>2, <2>3, <2>4
<1> QED BY <1>1, <1>2, <1>3, <1>4, <1>5

\* Delivering an answer can only acknowledge its address.
LEMMA AckedDelivered ==
    ASSUME Sockets, NEW m \in ToClient, NEW cs \in SUBSET Clients, Deliver(m, cs)
    PROVE  /\ Sockets'
           /\ \A c \in Clients : /\ ~Listening(c) => socket'[c] = socket[c]
                                 /\ c \notin cs \/ m.type # "ACK" => Acked(c)' = Acked(c)
                                 /\ Acked(c)' \subseteq Acked(c) \cup {m.ip}
<1>1. PICK arrives \in SUBSET {c \in cs : Listening(c) /\ Len(socket[c]) < MaxQueue} :
         socket' = [c \in Clients |-> IF c \in arrives THEN Append(socket[c], m) ELSE socket[c]]
  BY DEF Deliver
<1>2. ASSUME NEW c \in Clients
      PROVE  /\ socket[c] \in Seq(ToClient)
             /\ socket'[c] = IF c \in arrives THEN Append(socket[c], m) ELSE socket[c]
             /\ socket'[c] \in Seq(ToClient)
  BY <1>1 DEF Sockets
<1>3. Sockets'
  BY <1>1, <1>2 DEF Sockets
<1>4. ASSUME NEW c \in Clients
      PROVE  /\ ~Listening(c) => socket'[c] = socket[c]
             /\ c \notin cs \/ m.type # "ACK" => Acked(c)' = Acked(c)
             /\ Acked(c)' \subseteq Acked(c) \cup {m.ip}
  <2>1. CASE c \notin arrives
    BY <1>2, <2>1 DEF Acked
  <2>2. CASE c \in arrives
    <3>1. /\ c \in cs /\ Listening(c)
          /\ DOMAIN socket'[c] = 1 .. Len(socket[c]) + 1 /\ DOMAIN socket[c] = 1 .. Len(socket[c])
          /\ Len(socket[c]) \in Nat
          /\ socket'[c][Len(socket[c]) + 1] = m
          /\ \A i \in DOMAIN socket[c] : socket'[c][i] = socket[c][i]
      BY <1>1, <1>2, <2>2
    <3>2. \A i \in DOMAIN socket'[c] : i \in DOMAIN socket[c] \/ i = Len(socket[c]) + 1
      BY <3>1
    <3>3. ASSUME NEW a \in Acked(c)' PROVE a \in Acked(c) \/ (m.type = "ACK" /\ a = m.ip)
      <4>1. PICK i \in DOMAIN socket'[c] : socket'[c][i].type = "ACK" /\ socket'[c][i].ip = a
        BY DEF Acked
      <4>2. CASE i \in DOMAIN socket[c]
        BY <3>1, <4>1, <4>2 DEF Acked
      <4>3. CASE i = Len(socket[c]) + 1
        BY <3>1, <4>1, <4>3
      <4> QED BY <3>2, <4>2, <4>3
    <3>4. ASSUME NEW a \in Acked(c) PROVE a \in Acked(c)'
      <4>1. PICK i \in DOMAIN socket[c] : socket[c][i].type = "ACK" /\ socket[c][i].ip = a
        BY DEF Acked
      <4>2. i \in DOMAIN socket'[c]
        BY <3>1
      <4> QED BY <3>1, <4>1, <4>2 DEF Acked
    <3> QED BY <3>1, <3>3, <3>4
  <2> QED BY <2>1, <2>2
<1> QED BY <1>3, <1>4

-----------------------------------------------------------------------------
(* The table of leases.                                                    *)

\* Entries l keep what Reserved and Separate say of the table.
KeepReserved(l) == \A c \in Clients : \A a \in Acked(c) :
    a \in Addrs /\ l[a].mac \in {c, NoMac} /\ l[a].allocated /\ ~(l[a].expiry <= clock)

KeepSeparate(l) == \A c, d \in Clients : Bound(c) /\ c # d => l[ifaddr[c]].mac # d

\* dhcpd_findbymac finds the entry of a device, which has no other.
LEMMA OneEntryIsLeast ==
    ASSUME OneEntry, NEW mac \in Macs, NEW a \in EntriesOf(mac)
    PROVE  a \in Addrs /\ leases[a].mac = mac /\ EntriesOf(mac) = {a} /\ Least(EntriesOf(mac)) = a
<1>1. a \in Addrs /\ leases[a].mac = mac /\ EntriesOf(mac) = {a}
  BY DEF OneEntry, EntriesOf
<1>2. a \in Nat
  BY <1>1, DhcpBounds
<1> QED BY <1>1, <1>2, LeastOfOne

\* dhcpd_setlease for the device that has the entry, or for one that has none
\* if nobody has the address.
LEMMA SetLeaseStep ==
    ASSUME ServerTypes, OneEntry, Reserved, Separate,
           NEW a \in Addrs, NEW mac \in Macs, NEW n \in {OfferTime, LeaseTime},
           SetLease(a, mac, n),
           \/ a \in EntriesOf(mac)
           \/ /\ EntriesOf(mac) = {} /\ Available(a)
              /\ mac \in Clients => \A c \in Clients : ifaddr[c] # a
    PROVE  /\ leases' \in [Addrs -> Entries] /\ OneEntry'
           /\ KeepReserved(leases') /\ KeepSeparate(leases')
           /\ leases'[a].mac = mac /\ leases'[a].allocated /\ ~(leases'[a].expiry <= clock)
<1> DEFINE e == [mac |-> mac, allocated |-> TRUE, expiry |-> clock + n]
<1>1. leases' = [leases EXCEPT ![a] = e] /\ leases \in [Addrs -> Entries]
  BY DEF SetLease, ServerTypes
<1>2. clock + n \in 0 .. DhcpClock + LeaseTime /\ ~(clock + n <= clock)
  BY DhcpBounds DEF ServerTypes
<1>3. e \in Entries /\ e.mac = mac /\ e.allocated /\ ~(e.expiry <= clock)
  BY <1>2 DEF Entries
<1> HIDE DEF e
<1>4. leases' \in [Addrs -> Entries] /\ \A b \in Addrs : leases'[b] = IF b = a THEN e ELSE leases[b]
  BY <1>1, <1>3
<1>5. OneEntry'
  <2>1. ASSUME NEW b \in Addrs, NEW d \in Addrs,
               leases'[b].mac = leases'[d].mac, leases'[b].mac \in Macs
        PROVE  b = d
    <3>1. ASSUME NEW x \in Addrs, x # a PROVE leases[x].mac # mac
      BY <3>1 DEF EntriesOf, OneEntry
    <3> QED BY <1>3, <1>4, <2>1, <3>1 DEF OneEntry
  <2> QED BY <2>1 DEF OneEntry
<1>6. KeepReserved(leases')
  <2>1. ASSUME NEW c \in Clients, NEW b \in Acked(c)
        PROVE  b \in Addrs /\ leases'[b].mac \in {c, NoMac} /\ leases'[b].allocated
               /\ ~(leases'[b].expiry <= clock)
    <3>1. b \in Addrs /\ leases[b].mac \in {c, NoMac} /\ leases[b].allocated /\ ~(leases[b].expiry <= clock)
      BY DEF Reserved, Expired
    <3>2. CASE b # a
      BY <1>4, <3>1, <3>2
    <3>3. CASE b = a
      <4>1. a \in EntriesOf(mac)
        BY <3>1, <3>3 DEF Available, Expired
      <4>2. leases[a].mac = mac /\ mac # NoMac
        BY <4>1, DhcpBounds DEF EntriesOf
      <4>3. mac = c
        BY <3>1, <3>3, <4>2
      <4> QED BY <1>3, <1>4, <3>1, <3>3, <4>3
    <3> QED BY <3>2, <3>3
  <2> QED BY <2>1 DEF KeepReserved
<1>7. KeepSeparate(leases')
  <2>1. ASSUME NEW c \in Clients, NEW d \in Clients, Bound(c), c # d PROVE leases'[ifaddr[c]].mac # d
    <3>1. ifaddr[c] \in Addrs /\ leases[ifaddr[c]].mac # d
      BY <2>1 DEF Separate
    <3>2. CASE ifaddr[c] # a
      BY <1>4, <3>1, <3>2
    <3>3. CASE ifaddr[c] = a
      <4>1. mac # d
        BY <3>1, <3>3 DEF EntriesOf
      <4> QED BY <1>3, <1>4, <3>3, <4>1
    <3> QED BY <3>2, <3>3
  <2> QED BY <2>1 DEF KeepSeparate
<1> QED BY <1>3, <1>4, <1>5, <1>6, <1>7

\* A device loses its entry, or the owner of its entry, but is no client whose
\* address was acknowledged, or the entry stays reserved or has expired.
LEMMA LoseEntryStep ==
    ASSUME ServerTypes, OneEntry, Reserved, Separate,
           NEW a \in Addrs, NEW e \in Entries, e.mac = NoMac,
           leases' = [leases EXCEPT ![a] = e],
           \/ leases[a].mac \in Others
           \/ e.allocated = leases[a].allocated /\ ~(e.expiry <= clock)
           \/ leases[a].expiry <= clock
    PROVE  /\ leases' \in [Addrs -> Entries] /\ OneEntry'
           /\ KeepReserved(leases') /\ KeepSeparate(leases')
<1>1. /\ leases' \in [Addrs -> Entries]
      /\ \A b \in Addrs : leases'[b] = IF b = a THEN e ELSE leases[b]
  BY DEF ServerTypes
<1>2. OneEntry'
  <2>1. ASSUME NEW b \in Addrs, NEW d \in Addrs,
               leases'[b].mac = leases'[d].mac, leases'[b].mac \in Macs
        PROVE  b = d
    BY <1>1, <2>1, DhcpBounds DEF OneEntry
  <2> QED BY <2>1 DEF OneEntry
<1>3. KeepReserved(leases')
  <2>1. ASSUME NEW c \in Clients, NEW b \in Acked(c)
        PROVE  b \in Addrs /\ leases'[b].mac \in {c, NoMac} /\ leases'[b].allocated
               /\ ~(leases'[b].expiry <= clock)
    <3>1. b \in Addrs /\ leases[b].mac \in {c, NoMac} /\ leases[b].allocated /\ ~(leases[b].expiry <= clock)
      BY DEF Reserved, Expired
    <3>2. CASE b # a
      BY <1>1, <3>1, <3>2
    <3>3. CASE b = a
      <4>1. leases[a].mac \notin Others
        BY <3>1, <3>3, DhcpBounds DEF Macs
      <4> QED BY <1>1, <3>1, <3>3, <4>1
    <3> QED BY <3>2, <3>3
  <2> QED BY <2>1 DEF KeepReserved
<1>4. KeepSeparate(leases')
  <2>1. ASSUME NEW c \in Clients, NEW d \in Clients, Bound(c), c # d PROVE leases'[ifaddr[c]].mac # d
    <3>1. ifaddr[c] \in Addrs /\ leases[ifaddr[c]].mac # d /\ NoMac # d
      BY <2>1, DhcpBounds DEF Separate, Macs
    <3> QED BY <1>1, <3>1
  <2> QED BY <2>1 DEF KeepSeparate
<1> QED BY <1>1, <1>2, <1>3, <1>4

\* The server answers, with no acknowledgement.
LEMMA AfterAnswer ==
    ASSUME Reserved, Separate, KeepReserved(leases'), KeepSeparate(leases'),
           UNCHANGED <<phase, ifaddr, clock>>, \A c \in Clients : Acked(c)' = Acked(c)
    PROVE  Reserved' /\ Separate'
<1>1. \A c : Bound(c)' = Bound(c)
  BY DEF Bound
<1>2. Reserved'
  BY <1>1 DEF Reserved, KeepReserved, Expired
<1>3. Separate'
  BY <1>1 DEF Separate, KeepSeparate
<1> QED BY <1>2, <1>3

\* The server acknowledges address a to client k.
LEMMA AfterAck ==
    ASSUME Reserved, Separate, KeepReserved(leases'), KeepSeparate(leases'),
           UNCHANGED <<phase, ifaddr, clock>>,
           NEW k \in Clients, NEW a \in Addrs, leases[a].mac = k, leases'[a].mac = k,
           leases'[a].allocated, ~(leases'[a].expiry <= clock),
           Acked(k)' \subseteq Acked(k) \cup {a}, Bound(k) => Acked(k)' = Acked(k),
           \A c \in Clients : c # k => Acked(c)' = Acked(c)
    PROVE  Reserved' /\ Separate'
<1>1. \A c : Bound(c)' = Bound(c)
  BY DEF Bound
<1>2. Separate'
  BY <1>1 DEF Separate, KeepSeparate
<1>3. \A c \in Clients : c # k => a \notin Acked(c)
  BY DhcpBounds DEF Reserved, Macs
<1>4. ASSUME NEW c \in Clients, NEW b \in Acked(c)'
      PROVE  b \in Addrs /\ leases'[b].mac \in {c, NoMac} /\ leases'[b].allocated
             /\ ~(leases'[b].expiry <= clock)
  <2>1. CASE b \in Acked(c)
    BY <2>1 DEF KeepReserved
  <2>2. CASE b \notin Acked(c)
    BY <2>2
  <2> QED BY <2>1, <2>2
<1>5. ASSUME NEW c \in Clients, NEW d \in Clients, c # d PROVE Acked(c)' \cap Acked(d)' = {}
  <2>1. Acked(c) \cap Acked(d) = {}
    BY <1>5 DEF Reserved
  <2>2. CASE c = k
    BY <1>3, <1>5, <2>1, <2>2
  <2>3. CASE d = k
    BY <1>3, <1>5, <2>1, <2>3
  <2>4. CASE c # k /\ d # k
    BY <2>1, <2>4
  <2> QED BY <2>2, <2>3, <2>4
<1>6. ASSUME NEW c \in Clients, NEW d \in Clients, Bound(d) PROVE ifaddr[d] \notin Acked(c)'
  <2>1. ifaddr[d] \notin Acked(c)
    BY <1>6 DEF Reserved
  <2>2. CASE c # k
    BY <2>1, <2>2
  <2>3. CASE c = k /\ d = k
    BY <1>6, <2>1, <2>3
  <2>4. CASE c = k /\ d # k
    <3>1. ifaddr[d] # a
      BY <1>6, <2>4 DEF Separate
    <3> QED BY <2>1, <2>4, <3>1
  <2> QED BY <2>2, <2>3, <2>4
<1>7. Reserved'
  <2>1. \A c \in Clients : \A b \in Acked(c)' :
          b \in Addrs /\ leases'[b].mac \in {c, NoMac} /\ leases'[b].allocated /\ ~Expired(b)'
    BY <1>4 DEF Expired
  <2> QED BY <1>1, <1>5, <1>6, <2>1 DEF Reserved
<1> QED BY <1>2, <1>7

-----------------------------------------------------------------------------
(* The steps of the server.                                                *)

Typed == ServerTypes /\ ClientTypes /\ Counters /\ Sockets

DhcpInv == Typed /\ Quiet /\ OneEntry /\ Reserved /\ Separate

\* What is offered is the device's own entry, or an address that is neither
\* allocated nor answers the ping: no client has it.
LEMMA OfferForIsFree ==
    ASSUME Punctual, ServerTypes, OneEntry, NEW m \in ToServer, m.type = "DISCOVER",
           NEW answer \in [Addrs -> BOOLEAN], \A a \in Addrs : answer[a] \in Answers(a),
           NEW a, a = OfferFor(m, answer), a # 0
    PROVE  /\ a \in Addrs
           /\ \/ a \in EntriesOf(m.mac)
              \/ /\ EntriesOf(m.mac) = {} /\ Available(a)
                 /\ m.mac \in Clients => \A c \in Clients : ifaddr[c] # a
<1>0. m.mac \in Macs
  BY DEF ToServer
<1>1. CASE EntriesOf(m.mac) # {}
  <2>1. PICK b \in EntriesOf(m.mac) : TRUE
    BY <1>1
  <2> QED BY <1>0, <1>1, <2>1, OneEntryIsLeast DEF OfferFor
<1>2. CASE EntriesOf(m.mac) = {} /\ VerifyReqIp(m.req)
  <2>1. a = m.req /\ a \in Addrs /\ Available(a)
    BY <1>2 DEF OfferFor, VerifyReqIp
  <2>2. m.mac \notin Clients
    BY <2>1, DhcpBounds DEF ToServer
  <2> QED BY <1>2, <2>1, <2>2
<1>3. CASE EntriesOf(m.mac) = {} /\ ~VerifyReqIp(m.req)
  <2> DEFINE free == {b \in Addrs : ~answer[b] /\ Available(b)}
  <2>1. a = AllocIpAddr(answer)
    BY <1>3 DEF OfferFor
  <2>2. free # {} /\ a = Least(free)
    BY <2>1 DEF AllocIpAddr
  <2>3. free \in SUBSET Nat
    BY DhcpBounds
  <2>4. a \in free
    <3> HIDE DEF free
    <3> QED BY <2>2, <2>3, LeastIsMember
  <2>5. a \in Addrs /\ ~answer[a] /\ Available(a)
    BY <2>4
  <2>6. ASSUME NEW c \in Clients, ifaddr[c] = a PROVE FALSE
    <3>1. Answers(a) = {TRUE}
      BY <2>6 DEF Answers, Punctual
    <3> QED BY <2>5, <3>1
  <2> QED BY <1>3, <2>5, <2>6
<1> QED BY <1>1, <1>2, <1>3

\* dhcpd_discover.
LEMMA DiscoverStep ==
    ASSUME Punctual, DhcpInv, NEW m \in ToServer, m.type = "DISCOVER", Discover(m),
           UNCHANGED <<phase, ifaddr, clock>>
    PROVE  /\ leases' \in [Addrs -> Entries] /\ Sockets' /\ OneEntry' /\ Reserved' /\ Separate'
           /\ \A c \in Clients : ~Listening(c) => socket'[c] = socket[c]
<1> USE DEF DhcpInv, Typed
<1>1. PICK answer \in [Addrs -> BOOLEAN] :
         /\ \A a \in Addrs : answer[a] \in Answers(a)
         /\ LET a == OfferFor(m, answer)
            IN  IF a = 0 THEN UNCHANGED <<leases, socket>>
                ELSE /\ SetLease(a, m.mac, OfferTime)
                     /\ Broadcast([type |-> "OFFER", ip |-> a, until |-> 0])
  BY DEF Discover
<1>2. PICK a : a = OfferFor(m, answer)
  OBVIOUS
<1>3. CASE a = 0
  <2>1. leases' = leases /\ socket' = socket
    BY <1>1, <1>2, <1>3
  <2>2. Sockets' /\ \A c \in Clients : Acked(c)' = Acked(c)
    BY <2>1 DEF Sockets, Acked
  <2>3. KeepReserved(leases') /\ KeepSeparate(leases')
    BY <2>1 DEF Reserved, Separate, KeepReserved, KeepSeparate, Expired
  <2>4. Reserved' /\ Separate'
    BY <2>2, <2>3, AfterAnswer
  <2> QED BY <2>1, <2>2, <2>4 DEF ServerTypes, OneEntry
<1>4. CASE a # 0
  <2>1. SetLease(a, m.mac, OfferTime) /\ Broadcast([type |-> "OFFER", ip |-> a, until |-> 0])
    BY <1>1, <1>2, <1>4
  <2>2. /\ a \in Addrs /\ m.mac \in Macs
        /\ \/ a \in EntriesOf(m.mac)
           \/ /\ EntriesOf(m.mac) = {} /\ Available(a)
              /\ m.mac \in Clients => \A c \in Clients : ifaddr[c] # a
    BY <1>1, <1>2, <1>4, OfferForIsFree DEF ToServer
  <2>3. /\ leases' \in [Addrs -> Entries] /\ OneEntry'
        /\ KeepReserved(leases') /\ KeepSeparate(leases')
    BY <2>1, <2>2, SetLeaseStep
  <2>4. [type |-> "OFFER", ip |-> a, until |-> 0] \in ToClient
    BY <2>2 DEF ToClient, AnyAddr
  <2>5. /\ Sockets'
        /\ \A c \in Clients : /\ ~Listening(c) => socket'[c] = socket[c]
                              /\ Acked(c)' = Acked(c)
    BY <2>1, <2>4, AckedDelivered DEF Broadcast
  <2> QED BY <2>3, <2>5, AfterAnswer
<1> QED BY <1>3, <1>4

\* dhcpd_request.
LEMMA RequestStep ==
    ASSUME DhcpInv, NEW m \in ToServer, Request(m), UNCHANGED <<phase, ifaddr, clock>>
    PROVE  /\ leases' \in [Addrs -> Entries] /\ Sockets' /\ OneEntry' /\ Reserved' /\ Separate'
           /\ \A c \in Clients : ~Listening(c) => socket'[c] = socket[c]
<1> USE DEF DhcpInv, Typed
<1> DEFINE own == EntriesOf(m.mac)
           a == Least(own)
           nak == [type |-> "NAK", ip |-> 0, until |-> 0]
           ack == [type |-> "ACK", ip |-> a, until |-> clock + LeaseTime]
<1>0. m.mac \in Macs
  BY DEF ToServer
<1>1. ASSUME leases' = leases, Broadcast(nak) \/ UNCHANGED socket
      PROVE  /\ leases' \in [Addrs -> Entries] /\ Sockets' /\ OneEntry' /\ Reserved' /\ Separate'
             /\ \A c \in Clients : ~Listening(c) => socket'[c] = socket[c]
  <2>1. nak \in ToClient
    BY DEF ToClient, AnyAddr
  <2>2. /\ Sockets'
        /\ \A c \in Clients : /\ ~Listening(c) => socket'[c] = socket[c]
                              /\ Acked(c)' = Acked(c)
    <3>1. CASE UNCHANGED socket
      BY <3>1 DEF Sockets, Acked
    <3>2. CASE Broadcast(nak)
      <4>1. Clients \in SUBSET Clients /\ nak.type # "ACK" /\ Deliver(nak, Clients)
        BY <3>2 DEF Broadcast
      <4> HIDE DEF nak
      <4> QED BY <2>1, <4>1, AckedDelivered
    <3> QED BY <1>1, <3>1, <3>2
  <2>3. KeepReserved(leases') /\ KeepSeparate(leases')
    BY <1>1 DEF Reserved, Separate, KeepReserved, KeepSeparate, Expired
  <2>4. Reserved' /\ Separate'
    BY <2>2, <2>3, AfterAnswer
  <2> QED BY <1>1, <2>2, <2>4 DEF ServerTypes, OneEntry
<1>2. ASSUME own # {}, SetLease(a, m.mac, LeaseTime), Deliver(ack, {m.mac} \cap Clients)
      PROVE  /\ leases' \in [Addrs -> Entries] /\ Sockets' /\ OneEntry' /\ Reserved' /\ Separate'
             /\ \A c \in Clients : ~Listening(c) => socket'[c] = socket[c]
  <2>1. a \in Addrs /\ leases[a].mac = m.mac /\ a \in own
    BY <1>0, <1>2, OneEntryIsLeast
  <2>2. ack \in ToClient
    <3>1. clock + LeaseTime \in Nat
      BY DhcpBounds DEF ServerTypes
    <3> QED BY <2>1, <3>1 DEF ToClient, AnyAddr
  <2> HIDE DEF a, own
  <2>3. /\ leases' \in [Addrs -> Entries] /\ OneEntry'
        /\ KeepReserved(leases') /\ KeepSeparate(leases')
        /\ leases'[a].mac = m.mac /\ leases'[a].allocated /\ ~(leases'[a].expiry <= clock)
    BY <1>0, <1>2, <2>1, SetLeaseStep DEF own
  <2>4. ack.ip = a /\ {m.mac} \cap Clients \in SUBSET Clients
    OBVIOUS
  <2> HIDE DEF ack
  <2>5. /\ Sockets'
        /\ \A c \in Clients : /\ ~Listening(c) => socket'[c] = socket[c]
                              /\ c # m.mac => Acked(c)' = Acked(c)
                              /\ Acked(c)' \subseteq Acked(c) \cup {a}
    BY <1>2, <2>2, <2>4, AckedDelivered
  <2>6. CASE m.mac \in Clients
    <3>1. Bound(m.mac) => Acked(m.mac)' = Acked(m.mac)
      BY <2>5, <2>6 DEF Bound, Listening, Acked
    <3> QED BY <2>1, <2>3, <2>5, <2>6, <3>1, AfterAck
  <2>7. CASE m.mac \notin Clients
    BY <2>3, <2>5, <2>7, AfterAnswer
  <2> QED BY <2>6, <2>7
<1>3. ASSUME m.req \in Addrs, Available(m.req), leases[m.req].allocated,
             leases' = [leases EXCEPT ![m.req] = Free], UNCHANGED socket
      PROVE  /\ leases' \in [Addrs -> Entries] /\ Sockets' /\ OneEntry' /\ Reserved' /\ Separate'
             /\ \A c \in Clients : ~Listening(c) => socket'[c] = socket[c]
  <2>1. leases[m.req].expiry <= clock
    BY <1>3 DEF Available, Expired
  <2>2. /\ leases' \in [Addrs -> Entries] /\ OneEntry'
        /\ KeepReserved(leases') /\ KeepSeparate(leases')
    BY <1>3, <2>1, FreeEntry, LoseEntryStep
  <2>3. Sockets' /\ \A c \in Clients : Acked(c)' = Acked(c)
    BY <1>3 DEF Sockets, Acked
  <2> QED BY <1>3, <2>2, <2>3, AfterAnswer
<1>4. CASE own # {}
  BY <1>1, <1>2, <1>4 DEF Request, RequestOwned
<1>5. CASE own = {}
  <2>1. RequestUnowned(m)
    BY <1>5 DEF Request
  <2> QED BY <1>1, <1>3, <2>1 DEF RequestUnowned
<1> QED BY <1>4, <1>5

\* dhcpd_decline and dhcpd_release: the entry loses its owner.
LEMMA DeclineStep ==
    ASSUME DhcpInv, NEW m \in ToServer, UNCHANGED <<phase, ifaddr, clock>>,
           Decline(m) \/ (ReleaseLease(m) /\ m.type = "RELEASE")
    PROVE  /\ leases' \in [Addrs -> Entries] /\ Sockets' /\ OneEntry' /\ Reserved' /\ Separate'
           /\ socket' = socket
<1> USE DEF DhcpInv, Typed
<1>0. m.mac \in Macs /\ socket' = socket /\ Sockets'
      /\ \A c \in Clients : Acked(c)' = Acked(c)
  BY DEF ToServer, Decline, ReleaseLease, Sockets, Acked
<1>1. CASE EntriesOf(m.mac) = {}
  <2>1. leases' = leases
    BY <1>1 DEF Decline, ReleaseLease
  <2> QED BY <1>0, <2>1 DEF ServerTypes, OneEntry, Reserved, Separate, Expired, Bound
<1>2. CASE EntriesOf(m.mac) # {}
  <2>1. PICK a \in EntriesOf(m.mac) : TRUE
    BY <1>2
  <2>2. a \in Addrs /\ leases[a].mac = m.mac /\ Least(EntriesOf(m.mac)) = a /\ leases[a] \in Entries
    BY <1>0, <2>1, OneEntryIsLeast DEF ServerTypes
  <2>3. /\ leases' \in [Addrs -> Entries] /\ OneEntry'
        /\ KeepReserved(leases') /\ KeepSeparate(leases')
    <3>1. CASE Decline(m)
      <4> DEFINE e == [leases[a] EXCEPT !.mac = NoMac, !.expiry = clock + DeclineTime]
      <4>1. leases' = [leases EXCEPT ![a] = e]
        BY <1>2, <2>2, <3>1 DEF Decline
      <4>2. e \in Entries /\ e.mac = NoMac /\ e.allocated = leases[a].allocated
            /\ e.expiry = clock + DeclineTime
        BY <2>2, DhcpBounds DEF Entries, ServerTypes
      <4>3. ~(clock + DeclineTime <= clock)
        BY DhcpBounds DEF ServerTypes
      <4> HIDE DEF e
      <4> QED BY <2>2, <4>1, <4>2, <4>3, LoseEntryStep
    <3>2. CASE ReleaseLease(m) /\ m.type = "RELEASE"
      <4>1. leases' = [leases EXCEPT ![a] = Free] /\ leases[a].mac \in Others
        BY <1>0, <1>2, <2>2, <3>2 DEF ReleaseLease, ToServer, Macs
      <4> QED BY <2>2, <4>1, FreeEntry, LoseEntryStep
    <3> QED BY <3>1, <3>2
  <2> QED BY <1>0, <2>3, AfterAnswer
<1> QED BY <1>1, <1>2

\* The steps of the server together.
LEMMA ServerStep ==
    ASSUME Punctual, DhcpInv, DhcpServerStart \/ DhcpServerStop \/ DhcpServerReads
    PROVE  DhcpInv'
<1> USE DEF DhcpInv, Typed
<1>0. /\ UNCHANGED <<phase, ifaddr, clock>> /\ ClientTypes' /\ Counters'
      /\ \A c : Listening(c)' = Listening(c) /\ Bound(c)' = Bound(c)
  BY DEF DhcpServerStart, DhcpServerStop, DhcpServerReads, client_, ClientTypes, Counters,
         Listening, Bound
<1>1. CASE DhcpServerStart
  <2>1. /\ serving' = TRUE /\ ~serving /\ leases' = [a \in Addrs |-> Free]
        /\ inbox' = inbox /\ socket' = socket
    BY <1>1 DEF DhcpServerStart
  <2>2. ServerTypes' /\ Sockets'
    BY <1>0, <2>1, FreeEntry DEF ServerTypes, Sockets
  <2>3. Quiet' /\ \A c \in Clients : Acked(c)' = {}
    BY <1>0, <2>1 DEF Quiet, Acked
  <2>4. OneEntry' /\ Reserved' /\ Separate'
    <3>1. \A a \in Addrs : leases'[a].mac = NoMac
      BY <2>1, FreeEntry
    <3> QED BY <1>0, <2>3, <3>1, DhcpBounds DEF OneEntry, Reserved, Separate, Macs
  <2> QED BY <1>0, <2>2, <2>3, <2>4
<1>2. CASE DhcpServerStop
  <2>1. /\ serving' = FALSE /\ leases' = leases /\ socket' = socket /\ inbox' = <<>>
        /\ \A c \in Clients : ~Listening(c)
    BY <1>2 DEF DhcpServerStop, Punctual
  <2>2. ServerTypes' /\ Sockets'
    <3>1. <<>> \in Seq(ToServer)
      OBVIOUS
    <3> QED BY <1>0, <2>1, <3>1 DEF ServerTypes, Sockets
  <2>3. Quiet' /\ \A c \in Clients : Acked(c)' = Acked(c)
    BY <1>0, <2>1 DEF Quiet, Acked
  <2> QED BY <1>0, <2>1, <2>2, <2>3 DEF OneEntry, Reserved, Separate, Expired
<1>3. CASE DhcpServerReads
  <2> DEFINE m == Head(inbox)
  <2>1. /\ inbox # <<>> /\ inbox' = Tail(inbox) /\ serving' = serving /\ serving
        /\ \/ m.type = "DISCOVER" /\ Discover(m)
           \/ m.type = "REQUEST"  /\ Request(m)
           \/ m.type = "DECLINE"  /\ Decline(m)
           \/ m.type = "RELEASE"  /\ ReleaseLease(m)
    BY <1>3 DEF DhcpServerReads
  <2>2. m \in ToServer /\ inbox' \in Seq(ToServer)
    BY <2>1 DEF ServerTypes
  <2> HIDE DEF m
  <2>3. /\ leases' \in [Addrs -> Entries] /\ Sockets' /\ OneEntry' /\ Reserved' /\ Separate'
        /\ \A c \in Clients : ~Listening(c) => socket'[c] = socket[c]
    BY <1>0, <2>1, <2>2, DiscoverStep, RequestStep, DeclineStep
  <2>4. Quiet'
    BY <1>0, <2>1, <2>3 DEF Quiet
  <2>5. ServerTypes'
    BY <1>0, <2>1, <2>2, <2>3 DEF ServerTypes
  <2> QED BY <1>0, <2>3, <2>4, <2>5
<1> QED BY <1>1, <1>2, <1>3

-----------------------------------------------------------------------------
(* The steps of the clients.                                               *)

\* A client that does not get bound.
LEMMA ClientMoves ==
    ASSUME Reserved, Separate, NEW c \in Clients, leases' = leases, clock' = clock,
           \A d \in Clients : d # c => /\ phase'[d] = phase[d] /\ ifaddr'[d] = ifaddr[d]
                                       /\ Acked(d)' = Acked(d),
           Acked(c)' \subseteq Acked(c), Bound(c)' => Bound(c) /\ ifaddr'[c] = ifaddr[c]
    PROVE  Reserved' /\ Separate'
<1>1. \A d \in Clients : /\ Acked(d)' \subseteq Acked(d)
                         /\ Bound(d)' => Bound(d) /\ ifaddr'[d] = ifaddr[d]
  BY DEF Bound
<1>2. Reserved'
  <2>1. \A d \in Clients : \A a \in Acked(d)' :
          a \in Addrs /\ leases[a].mac \in {d, NoMac} /\ leases[a].allocated /\ ~Expired(a)
    BY <1>1 DEF Reserved
  <2>2. \A d, e \in Clients : d # e => Acked(d)' \cap Acked(e)' = {}
    <3>1. ASSUME NEW d \in Clients, NEW e \in Clients, d # e PROVE Acked(d) \cap Acked(e) = {}
      BY <3>1 DEF Reserved
    <3> QED BY <1>1, <3>1
  <2>3. \A d, e \in Clients : Bound(e)' => ifaddr'[e] \notin Acked(d)'
    BY <1>1 DEF Reserved
  <2> QED BY <2>1, <2>2, <2>3 DEF Reserved, Expired
<1>3. Separate'
  BY <1>1 DEF Separate
<1> QED BY <1>2, <1>3

\* The client takes the address of the acknowledgement that it reads.
LEMMA BindStep ==
    ASSUME DhcpInv, NEW c \in Clients, socket[c] # <<>>, Head(socket[c]).type = "ACK",
           Bind(c, Head(socket[c])), leases' = leases, clock' = clock
    PROVE  Reserved' /\ Separate' /\ Sockets' /\ socket'[c] = <<>>
           /\ \A d \in Clients : d # c => socket'[d] = socket[d]
<1> USE DEF DhcpInv, Typed
<1> DEFINE a == Head(socket[c]).ip
<1>1. a \in Acked(c)
  BY AckedRead
<1>2. /\ phase' = [phase EXCEPT ![c] = "bound"] /\ ifaddr' = [ifaddr EXCEPT ![c] = a]
      /\ socket' = [socket EXCEPT ![c] = <<>>]
  BY DEF Bind
<1> HIDE DEF a
<1>3. /\ Sockets' /\ socket'[c] = <<>> /\ Acked(c)' = {}
      /\ \A d \in Clients : d # c => Acked(d)' = Acked(d) /\ socket'[d] = socket[d]
  BY <1>2, AckedShrinks
<1>4. \A d \in Clients : /\ ifaddr'[d] = IF d = c THEN a ELSE ifaddr[d]
                         /\ Bound(d)' <=> d = c \/ Bound(d)
  BY <1>2 DEF ClientTypes, Bound
<1>5. a \in Addrs /\ leases[a].mac \in {c, NoMac}
  BY <1>1 DEF Reserved
<1>6. \A d \in Clients : d # c => a \notin Acked(d)
  <2>1. \A d \in Clients : d # c => Acked(c) \cap Acked(d) = {}
    BY DEF Reserved
  <2> QED BY <1>1, <2>1
<1>7. \A d \in Clients : Bound(d) => ifaddr[d] # a
  BY <1>1 DEF Reserved
<1>8. Separate'
  <2>1. \A d \in Clients : Bound(d)' => ifaddr'[d] \in Addrs
    BY <1>4, <1>5 DEF Separate
  <2>2. ASSUME NEW d \in Clients, NEW e \in Clients, Bound(d)', d # e
        PROVE  leases[ifaddr'[d]].mac # e
    <3>1. CASE d = c
      BY <1>4, <1>5, <2>2, <3>1, DhcpBounds DEF Macs
    <3>2. CASE d # c
      BY <1>4, <2>2, <3>2 DEF Separate
    <3> QED BY <3>1, <3>2
  <2>3. ASSUME NEW d \in Clients, NEW e \in Clients, Bound(d)', Bound(e)', d # e
        PROVE  ifaddr'[d] # ifaddr'[e]
    <3>1. CASE d # c /\ e # c
      BY <1>4, <2>3, <3>1 DEF Separate
    <3>2. CASE d = c
      BY <1>4, <1>7, <2>3, <3>2
    <3>3. CASE e = c
      BY <1>4, <1>7, <2>3, <3>3
    <3> QED BY <3>1, <3>2, <3>3
  <2> QED BY <2>1, <2>2, <2>3 DEF Separate
<1>9. Reserved'
  <2>1. \A d \in Clients : \A b \in Acked(d)' :
          b \in Addrs /\ leases[b].mac \in {d, NoMac} /\ leases[b].allocated /\ ~Expired(b)
    BY <1>3 DEF Reserved
  <2>2. \A d, e \in Clients : d # e => Acked(d)' \cap Acked(e)' = {}
    <3>1. ASSUME NEW d \in Clients, NEW e \in Clients, d # e PROVE Acked(d) \cap Acked(e) = {}
      BY <3>1 DEF Reserved
    <3>2. \A d \in Clients : Acked(d)' \subseteq Acked(d)
      BY <1>3
    <3> QED BY <3>1, <3>2
  <2>3. ASSUME NEW d \in Clients, NEW e \in Clients, Bound(e)' PROVE ifaddr'[e] \notin Acked(d)'
    <3>1. CASE d = c
      BY <1>3, <3>1
    <3>2. CASE d # c /\ e = c
      BY <1>3, <1>4, <1>6, <3>2
    <3>3. CASE d # c /\ e # c
      BY <1>3, <1>4, <2>3, <3>3 DEF Reserved
    <3> QED BY <3>1, <3>2, <3>3
  <2> QED BY <2>1, <2>2, <2>3 DEF Reserved, Expired
<1> QED BY <1>3, <1>8, <1>9

\* What the variables of client c, and the server's socket, become in a step
\* of c.
ClientOnly(c) ==
    /\ phase' \in [Clients -> Stages] /\ \A d \in Clients : d # c => phase'[d] = phase[d]
    /\ ifaddr' \in [Clients -> AnyAddr] /\ \A d \in Clients : d # c => ifaddr'[d] = ifaddr[d]
    /\ oldaddr' \in [Clients -> AnyAddr] /\ offered' \in [Clients -> AnyAddr]
    /\ inbox' \in Seq(ToServer)
    /\ Counters'

\* The client sends DISCOVER, again, or gives up.
LEMMA SelectStep ==
    ASSUME Typed, NEW c \in Clients, NEW ms \in Seq(ToServer), Select(c, ms)
    PROVE  /\ ClientOnly(c) /\ phase'[c] \in {"selecting", "off"}
           /\ \E s : /\ s = <<>> \/ (socket[c] # <<>> /\ s = Tail(socket[c]))
                     /\ phase'[c] = "off" => s = <<>>
                     /\ socket' = [socket EXCEPT ![c] = s]
<1> USE DEF Typed
<1>0. 0 \in AnyAddr /\ 0 \in 0 .. MaxRequest /\ 0 \in 0 .. MaxDiscover
  BY DhcpAssumption DEF AnyAddr
<1>1. inbox' \in Seq(ToServer)
  <2>1. DiscoverMsg(c) \in ToServer
    BY <1>0, MessageTypes
  <2>2. Append(ms, DiscoverMsg(c)) \in Seq(ToServer) /\ Sends(Append(ms, DiscoverMsg(c)))
    BY <2>1 DEF Select
  <2> QED BY <2>2, SendsTypes DEF ServerTypes
<1>2. /\ phase' = [phase EXCEPT ![c] = IF count[c] > 0 THEN "selecting" ELSE "off"]
      /\ ifaddr' = [ifaddr EXCEPT ![c] = IF count[c] > 0 THEN 0 ELSE oldaddr[c]]
      /\ count' = [count EXCEPT ![c] = IF @ > 0 THEN @ - 1 ELSE 0]
      /\ retries' = [retries EXCEPT ![c] = 0]
      /\ offered' = [offered EXCEPT ![c] = 0]
      /\ oldaddr' = [oldaddr EXCEPT ![c] = IF count[c] > 0 THEN @ ELSE 0]
      /\ socket' = [socket EXCEPT ![c] = IF count[c] = 0 \/ @ = <<>> THEN <<>> ELSE Tail(@)]
  BY DEF Select
<1>3. phase' \in [Clients -> Stages] /\ phase'[c] = (IF count[c] > 0 THEN "selecting" ELSE "off")
      /\ \A d \in Clients : d # c => phase'[d] = phase[d]
  BY <1>2 DEF ClientTypes, Stages
<1>4. /\ ifaddr' \in [Clients -> AnyAddr] /\ oldaddr' \in [Clients -> AnyAddr]
      /\ offered' \in [Clients -> AnyAddr]
      /\ \A d \in Clients : d # c => ifaddr'[d] = ifaddr[d]
  BY <1>0, <1>2 DEF ClientTypes
<1>5. count[c] \in 0 .. MaxDiscover /\ MaxDiscover \in Nat
  BY DhcpAssumption DEF Counters
<1>6. Counters'
  <2>1. (IF count[c] > 0 THEN count[c] - 1 ELSE 0) \in 0 .. MaxDiscover
    BY <1>5
  <2> QED BY <1>0, <1>2, <2>1 DEF Counters
<1>7. (count[c] > 0) <=> ~(count[c] = 0)
  BY <1>5
<1> DEFINE s == IF count[c] = 0 \/ socket[c] = <<>> THEN <<>> ELSE Tail(socket[c])
<1>8. /\ s = <<>> \/ (socket[c] # <<>> /\ s = Tail(socket[c]))
      /\ phase'[c] = "off" => s = <<>>
      /\ socket' = [socket EXCEPT ![c] = s]
  BY <1>2, <1>3, <1>7
<1> QED BY <1>1, <1>3, <1>4, <1>6, <1>8 DEF ClientOnly

\* The client sends REQUEST or DECLINE, and perhaps starts again.
LEMMA AskAgainStep ==
    ASSUME Typed, NEW c \in Clients, NEW ms \in Seq(ToServer), AskAgain(c, ms), Listening(c)
    PROVE  /\ ClientOnly(c) /\ phase'[c] \in {"selecting", "off", "requesting"}
           /\ \E s : /\ s = <<>> \/ (socket[c] # <<>> /\ s = Tail(socket[c]))
                     /\ phase'[c] = "off" => s = <<>>
                     /\ socket' = [socket EXCEPT ![c] = s]
<1> USE DEF Typed
<1>1. CASE retries[c] < MaxRequest
  <2>1. /\ Sends(Append(ms, RequestMsg(c, offered[c])))
        /\ retries' = [retries EXCEPT ![c] = @ + 1]
        /\ socket' = [socket EXCEPT ![c] = IF @ = <<>> THEN <<>> ELSE Tail(@)]
        /\ UNCHANGED <<phase, ifaddr, oldaddr, offered, count>>
    BY <1>1 DEF AskAgain
  <2>2. inbox' \in Seq(ToServer)
    <3>1. RequestMsg(c, offered[c]) \in ToServer
      BY MessageTypes DEF ClientTypes
    <3>2. Append(ms, RequestMsg(c, offered[c])) \in Seq(ToServer)
      BY <3>1
    <3> QED BY <2>1, <3>2, SendsTypes DEF ServerTypes
  <2>3. Counters'
    <3>1. retries[c] + 1 \in 0 .. MaxRequest
      BY <1>1, DhcpAssumption DEF Counters
    <3> QED BY <2>1, <3>1 DEF Counters
  <2>4. phase[c] \in {"selecting", "requesting"}
    BY DEF Listening
  <2>5. ClientOnly(c)
    BY <2>1, <2>2, <2>3 DEF ClientOnly, ClientTypes
  <2> DEFINE s == IF socket[c] = <<>> THEN <<>> ELSE Tail(socket[c])
  <2>6. /\ s = <<>> \/ (socket[c] # <<>> /\ s = Tail(socket[c]))
        /\ phase'[c] = "off" => s = <<>>
        /\ socket' = [socket EXCEPT ![c] = s]
    BY <2>1, <2>4
  <2> QED BY <2>1, <2>4, <2>5, <2>6
<1>2. CASE ~(retries[c] < MaxRequest)
  BY <1>2, SelectStep DEF AskAgain
<1> QED BY <1>1, <1>2

\* A client that reads a message, or none, and is not bound afterwards.
LEMMA ReadsStep ==
    ASSUME DhcpInv, NEW c \in Clients, ClientOnly(c), UNCHANGED <<server_, clock>>, Listening(c),
           phase'[c] \in {"selecting", "off", "requesting"},
           \E s : /\ s = <<>> \/ (socket[c] # <<>> /\ s = Tail(socket[c]))
                  /\ phase'[c] = "off" => s = <<>>
                  /\ socket' = [socket EXCEPT ![c] = s]
    PROVE  DhcpInv'
<1> USE DEF DhcpInv, Typed
<1>1. PICK s : /\ s = <<>> \/ (socket[c] # <<>> /\ s = Tail(socket[c]))
               /\ phase'[c] = "off" => s = <<>>
               /\ socket' = [socket EXCEPT ![c] = s]
  OBVIOUS
<1>2. /\ Sockets' /\ Acked(c)' \subseteq Acked(c) /\ socket'[c] = s
      /\ \A d \in Clients : d # c => Acked(d)' = Acked(d) /\ socket'[d] = socket[d]
  BY <1>1, AckedShrinks
<1>3. leases' = leases /\ serving' = serving /\ clock' = clock
  BY DEF server_
<1>4. ~Bound(c)' /\ \A d \in Clients : d # c => phase'[d] = phase[d] /\ ifaddr'[d] = ifaddr[d]
  BY DEF Bound, ClientOnly
<1>5. Reserved' /\ Separate'
  BY <1>2, <1>3, <1>4, ClientMoves
<1>6. Quiet'
  <2>1. ASSUME NEW d \in Clients, ~Listening(d)' \/ ~serving' PROVE socket'[d] = <<>>
    <3>1. CASE d # c
      <4>1. Listening(d)' = Listening(d)
        BY <1>4, <3>1 DEF Listening
      <4> QED BY <1>2, <1>3, <2>1, <3>1, <4>1 DEF Quiet
    <3>2. CASE d = c /\ ~serving
      <4>1. socket[c] = <<>>
        BY <3>2 DEF Quiet
      <4> QED BY <1>1, <1>2, <3>2, <4>1
    <3>3. CASE d = c /\ serving
      <4>1. phase'[c] = "off"
        BY <1>3, <2>1, <3>3 DEF Listening
      <4> QED BY <1>1, <1>2, <3>3, <4>1
    <3> QED BY <1>3, <3>1, <3>2, <3>3 DEF ServerTypes
  <2> QED BY <2>1 DEF Quiet
<1>7. ServerTypes' /\ ClientTypes' /\ Counters' /\ OneEntry'
  BY <1>3 DEF ServerTypes, ClientTypes, ClientOnly, OneEntry
<1> QED BY <1>2, <1>5, <1>6, <1>7

\* A client that does not listen, and whose socket stays.
LEMMA IdleStep ==
    ASSUME DhcpInv, NEW c \in Clients, ClientOnly(c), UNCHANGED <<server_, clock, socket>>,
           ~Listening(c), Bound(c)' => Bound(c) /\ ifaddr'[c] = ifaddr[c]
    PROVE  DhcpInv'
<1> USE DEF DhcpInv, Typed
<1>1. leases' = leases /\ serving' = serving /\ clock' = clock /\ socket' = socket
  BY DEF server_
<1>2. Sockets' /\ \A d \in Clients : Acked(d)' = Acked(d)
  BY <1>1 DEF Sockets, Acked
<1>3. \A d \in Clients : d # c => phase'[d] = phase[d] /\ ifaddr'[d] = ifaddr[d]
  BY DEF ClientOnly
<1>4. Reserved' /\ Separate'
  BY <1>1, <1>2, <1>3, ClientMoves
<1>5. Quiet'
  <2>1. \A d \in Clients : d # c => Listening(d)' = Listening(d)
    BY <1>3 DEF Listening
  <2> QED BY <1>1, <2>1 DEF Quiet
<1>6. ServerTypes' /\ ClientTypes' /\ Counters' /\ OneEntry'
  BY <1>1 DEF ServerTypes, ClientTypes, ClientOnly, OneEntry
<1> QED BY <1>2, <1>4, <1>5, <1>6

\* The steps of a client together.
LEMMA ClientStep ==
    ASSUME DhcpInv, NEW c \in Clients,
           \/ DhcpClientStart(c) \/ Timeout(c) \/ ReceiveOffer(c)
           \/ ReceiveAnswer(c) \/ DhcpClientStop(c) \/ RenewCallback(c)
    PROVE  DhcpInv'
<1> USE DEF DhcpInv, Typed
<1>0. 0 \in AnyAddr /\ 0 \in 0 .. MaxRequest /\ 1 \in 0 .. MaxRequest /\ 0 \in 0 .. MaxDiscover
      /\ MaxDiscover - 1 \in 0 .. MaxDiscover
  BY DhcpAssumption DEF AnyAddr
<1>n. <<>> \in Seq(ToServer)
  OBVIOUS
<1>1. CASE DhcpClientStart(c)
  <2>1. /\ phase[c] = "off" /\ phase' = [phase EXCEPT ![c] = "selecting"]
        /\ oldaddr' = [oldaddr EXCEPT ![c] = ifaddr[c]]
        /\ ifaddr' = [ifaddr EXCEPT ![c] = 0]
        /\ count' = [count EXCEPT ![c] = MaxDiscover - 1]
        /\ retries' = [retries EXCEPT ![c] = 0]
        /\ Sends(<<DiscoverMsg(c)>>)
        /\ UNCHANGED <<server_, clock, socket, offered>>
    BY <1>1 DEF DhcpClientStart
  <2>2. inbox' \in Seq(ToServer)
    <3>1. DiscoverMsg(c) \in ToServer
      BY <1>0, MessageTypes
    <3>2. <<DiscoverMsg(c)>> \in Seq(ToServer)
      BY <3>1
    <3> QED BY <2>1, <3>2, SendsTypes DEF ServerTypes
  <2>3. Counters'
    BY <1>0, <2>1 DEF Counters
  <2>4. ~Listening(c) /\ ~Bound(c)' /\ phase' \in [Clients -> Stages]
    BY <2>1 DEF Listening, Bound, ClientTypes, Stages
  <2>5. ClientOnly(c)
    BY <1>0, <2>1, <2>2, <2>3, <2>4 DEF ClientOnly, ClientTypes
  <2> QED BY <2>1, <2>4, <2>5, IdleStep
<1>2. CASE Timeout(c)
  <2>1. /\ Listening(c) /\ UNCHANGED <<server_, clock>>
        /\ Select(c, <<>>) \/ AskAgain(c, <<>>)
    BY <1>2 DEF Timeout
  <2>2. CASE Select(c, <<>>)
    BY <1>n, <2>1, <2>2, SelectStep, ReadsStep
  <2>3. CASE AskAgain(c, <<>>)
    BY <1>n, <2>1, <2>3, AskAgainStep, ReadsStep
  <2> QED BY <2>1, <2>2, <2>3
<1>3. CASE ReceiveOffer(c)
  <2> DEFINE m == Head(socket[c])
  <2>1. /\ phase[c] = "selecting" /\ socket[c] # <<>> /\ UNCHANGED <<server_, clock>>
        /\ Listening(c) /\ m \in ToClient
    BY <1>3, AckedRead DEF ReceiveOffer, Listening
  <2>2. CASE m.type = "OFFER"
    <3>1. /\ phase' = [phase EXCEPT ![c] = "requesting"]
          /\ ifaddr' = [ifaddr EXCEPT ![c] = m.ip]
          /\ offered' = [offered EXCEPT ![c] = m.ip]
          /\ retries' = [retries EXCEPT ![c] = 1]
          /\ Sends(<<RequestMsg(c, m.ip)>>)
          /\ socket' = [socket EXCEPT ![c] = Tail(@)]
          /\ UNCHANGED <<oldaddr, count>>
      BY <1>3, <2>2 DEF ReceiveOffer
    <3>2. m.ip \in AnyAddr
      BY <2>1 DEF ToClient
    <3>3. inbox' \in Seq(ToServer)
      <4>1. RequestMsg(c, m.ip) \in ToServer
        BY <3>2, MessageTypes
      <4>2. <<RequestMsg(c, m.ip)>> \in Seq(ToServer)
        BY <4>1
      <4> QED BY <3>1, <4>2, SendsTypes DEF ServerTypes
    <3>4. Counters'
      BY <1>0, <3>1 DEF Counters
    <3>5. phase' \in [Clients -> Stages] /\ phase'[c] = "requesting"
      BY <3>1 DEF ClientTypes, Stages
    <3>6. ClientOnly(c)
      BY <3>1, <3>2, <3>3, <3>4, <3>5 DEF ClientOnly, ClientTypes
    <3>7. socket' = [socket EXCEPT ![c] = Tail(socket[c])]
      BY <3>1
    <3> QED BY <2>1, <3>5, <3>6, <3>7, ReadsStep
  <2>3. CASE m.type # "OFFER"
    <3>1. Select(c, <<>>)
      BY <1>3, <2>3 DEF ReceiveOffer
    <3> QED BY <1>n, <2>1, <3>1, SelectStep, ReadsStep
  <2> QED BY <2>2, <2>3
<1>4. CASE ReceiveAnswer(c)
  <2> DEFINE m == Head(socket[c])
  <2>1. /\ phase[c] = "requesting" /\ socket[c] # <<>> /\ UNCHANGED <<server_, clock>>
        /\ Listening(c) /\ m \in ToClient
    BY <1>4, AckedRead DEF ReceiveAnswer, Listening
  <2>2. CASE m.type = "ACK" /\ Bind(c, m)
    <3>1. leases' = leases /\ serving' = serving /\ clock' = clock
      BY <2>1 DEF server_
    <3>2. Reserved' /\ Separate' /\ Sockets' /\ socket'[c] = <<>>
          /\ \A d \in Clients : d # c => socket'[d] = socket[d]
      BY <2>1, <2>2, <3>1, BindStep
    <3>3. /\ phase' = [phase EXCEPT ![c] = "bound"] /\ ifaddr' = [ifaddr EXCEPT ![c] = m.ip]
          /\ offered' = [offered EXCEPT ![c] = 0] /\ oldaddr' = [oldaddr EXCEPT ![c] = 0]
          /\ count' = [count EXCEPT ![c] = 0] /\ retries' = [retries EXCEPT ![c] = 0]
          /\ inbox' = inbox
      BY <2>2 DEF Bind
    <3>4. Counters'
      BY <1>0, <3>3 DEF Counters
    <3>5. m.ip \in AnyAddr
      BY <2>1 DEF ToClient
    <3>6. ClientTypes'
      BY <1>0, <3>3, <3>5 DEF ClientTypes, Stages
    <3>7. Quiet'
      <4>1. \A d \in Clients : d # c => Listening(d)' = Listening(d)
        BY <3>3 DEF Listening, ClientTypes
      <4> QED BY <3>1, <3>2, <4>1 DEF Quiet
    <3> QED BY <3>1, <3>2, <3>3, <3>4, <3>6, <3>7 DEF ServerTypes, OneEntry
  <2>3. CASE Select(c, <<>>)
    BY <1>n, <2>1, <2>3, SelectStep, ReadsStep
  <2>4. CASE AskAgain(c, <<DeclineMsg(c, m.ip)>>)
    <3>1. DeclineMsg(c, m.ip) \in ToServer
      BY <2>1, MessageTypes DEF ToClient
    <3>2. <<DeclineMsg(c, m.ip)>> \in Seq(ToServer)
      BY <3>1
    <3> QED BY <2>1, <2>4, <3>2, AskAgainStep, ReadsStep
  <2> QED BY <1>4, <2>2, <2>3, <2>4 DEF ReceiveAnswer
<1>5. CASE DhcpClientStop(c) \/ RenewCallback(c)
  <2>1. /\ UNCHANGED <<server_, clock, socket, inbox, ifaddr, oldaddr, offered, count, retries>>
        /\ ~Listening(c)
    BY <1>5 DEF DhcpClientStop, RenewCallback, Listening
  <2>2. phase' = [phase EXCEPT ![c] = "off"]
        \/ phase' = [phase EXCEPT ![c] = IF @ = "bound" THEN "broken" ELSE @]
    BY <1>5 DEF DhcpClientStop, RenewCallback
  <2>3. phase' \in [Clients -> Stages] /\ (Bound(c)' => Bound(c))
        /\ \A d \in Clients : d # c => phase'[d] = phase[d]
    BY <2>2 DEF ClientTypes, Stages, Bound
  <2>4. ClientOnly(c)
    BY <2>1, <2>3 DEF ClientOnly, ClientTypes, ServerTypes, Counters
  <2> QED BY <2>1, <2>3, <2>4, IdleStep
<1> QED BY <1>1, <1>2, <1>3, <1>4, <1>5

-----------------------------------------------------------------------------
(* The theorem.                                                            *)

\* Other software sends what it likes; time passes and leases end.
LEMMA NetworkStep ==
    ASSUME DhcpInv, TimePasses \/ \E o \in Others : OtherSends(o)
    PROVE  DhcpInv'
<1> USE DEF DhcpInv, Typed
<1>0. /\ leases' = leases /\ serving' = serving /\ socket' = socket
      /\ phase' = phase /\ ifaddr' = ifaddr /\ oldaddr' = oldaddr /\ offered' = offered
      /\ count' = count /\ retries' = retries
  BY DEF TimePasses, OtherSends, server_, client_
<1>1. /\ ClientTypes' /\ Counters' /\ Sockets' /\ OneEntry'
      /\ \A c : Acked(c)' = Acked(c) /\ Bound(c)' = Bound(c) /\ Listening(c)' = Listening(c)
  BY <1>0 DEF ClientTypes, Counters, Sockets, OneEntry, Acked, Bound, Listening
<1>2. Quiet' /\ Separate'
  BY <1>0, <1>1 DEF Quiet, Separate
<1>3. CASE TimePasses
  <2>1. /\ \A c \in Clients : ~Listening(c)
        /\ inbox' = inbox /\ clock' = clock + 1 /\ clock < DhcpClock
    BY <1>3 DEF TimePasses
  <2>2. \A c \in Clients : Acked(c) = {}
    BY <2>1 DEF Quiet, Acked
  <2>3. Reserved'
    BY <1>0, <1>1, <2>2 DEF Reserved
  <2>4. ServerTypes'
    <3>1. clock + 1 \in 0 .. DhcpClock
      BY <2>1, DhcpAssumption DEF ServerTypes
    <3> QED BY <1>0, <2>1, <3>1 DEF ServerTypes
  <2> QED BY <1>1, <1>2, <2>3, <2>4
<1>4. ASSUME NEW o \in Others, OtherSends(o) PROVE DhcpInv'
  <2>1. PICK req \in AnyAddr, sid \in ServerIds :
          \E m \in {Message("DISCOVER", o, req, "none", 0), Message("REQUEST", o, req, sid, 0),
                    Message("DECLINE", o, 0, "this", 0), Message("RELEASE", o, 0, "this", 0)} :
             inbox' = Append(inbox, m)
    BY <1>4 DEF OtherSends
  <2>2. PICK m \in {Message("DISCOVER", o, req, "none", 0), Message("REQUEST", o, req, sid, 0),
                    Message("DECLINE", o, 0, "this", 0), Message("RELEASE", o, 0, "this", 0)} :
             inbox' = Append(inbox, m)
    BY <2>1
  <2>3. o \in Macs /\ o \notin Clients /\ 0 \in AnyAddr
    BY DhcpBounds DEF Macs, AnyAddr
  <2>4. m \in ToServer
    <3>1. Message("DISCOVER", o, req, "none", 0) \in ToServer
      BY <2>3 DEF Message, ToServer, ServerIds
    <3>2. Message("REQUEST", o, req, sid, 0) \in ToServer
      BY <2>3 DEF Message, ToServer, ServerIds
    <3>3. Message("DECLINE", o, 0, "this", 0) \in ToServer
      BY <2>3 DEF Message, ToServer, ServerIds
    <3>4. Message("RELEASE", o, 0, "this", 0) \in ToServer
      BY <2>3 DEF Message, ToServer, ServerIds
    <3> QED BY <2>2, <3>1, <3>2, <3>3, <3>4
  <2>5. clock' = clock
    BY <1>4 DEF OtherSends
  <2>6. ServerTypes'
    BY <1>0, <2>2, <2>4, <2>5 DEF ServerTypes
  <2>7. Reserved'
    BY <1>0, <1>1, <2>5 DEF Reserved, Expired
  <2> QED BY <1>1, <1>2, <2>6, <2>7
<1> QED BY <1>3, <1>4

LEMMA DhcpInitInv == DhcpInit => DhcpInv
<1> SUFFICES ASSUME DhcpInit PROVE DhcpInv
  OBVIOUS
<1> USE DEF DhcpInit
<1>1. ServerTypes /\ OneEntry
  <2>1. leases \in [Addrs -> Entries] /\ \A a \in Addrs : leases[a].mac = NoMac
    BY FreeEntry
  <2>2. <<>> \in Seq(ToServer) /\ 0 \in 0 .. DhcpClock /\ NoMac \notin Macs
    BY DhcpBounds
  <2> QED BY <2>1, <2>2 DEF ServerTypes, OneEntry
<1>2. ClientTypes
  BY DEF ClientTypes, Stages, AnyAddr
<1>3. Counters
  <2>1. 0 \in 0 .. MaxDiscover /\ 0 \in 0 .. MaxRequest
    BY DhcpAssumption
  <2> QED BY <2>1 DEF Counters
<1>4. Sockets
  <2>1. <<>> \in Seq(ToClient)
    OBVIOUS
  <2> QED BY <2>1 DEF Sockets
<1>5. \A c \in Clients : socket[c] = <<>> /\ Acked(c) = {} /\ ~Bound(c)
  BY DEF Acked, Bound
<1>6. Quiet /\ Reserved /\ Separate
  BY <1>5 DEF Quiet, Reserved, Separate
<1> QED BY <1>1, <1>2, <1>3, <1>4, <1>6 DEF DhcpInv, Typed

\* No address belongs to two clients, and a device has one entry in the server's
\* table at most (dhcpd.c, dhcpc.c), if the server is not restarted during an
\* exchange and pings are answered.
THEOREM AddressesSeparate ==
    ASSUME Punctual
    PROVE  DhcpInit /\ [][DhcpNext]_dhcpvars => []NoSharedAddress
<1>1. DhcpInit => DhcpInv
  BY DhcpInitInv
<1>2. DhcpInv /\ [DhcpNext]_dhcpvars => DhcpInv'
  <2> SUFFICES ASSUME DhcpInv, [DhcpNext]_dhcpvars PROVE DhcpInv'
    OBVIOUS
  <2>1. CASE UNCHANGED dhcpvars
    <3>1. \A c : Acked(c)' = Acked(c) /\ Bound(c)' = Bound(c) /\ Listening(c)' = Listening(c)
      BY <2>1 DEF dhcpvars, Acked, Bound, Listening
    <3>2. Typed' /\ OneEntry'
      BY <2>1 DEF dhcpvars, DhcpInv, Typed, ServerTypes, ClientTypes, Counters, Sockets, OneEntry
    <3>3. Quiet' /\ Separate'
      BY <2>1, <3>1 DEF dhcpvars, DhcpInv, Quiet, Separate
    <3>4. Reserved'
      BY <2>1, <3>1 DEF dhcpvars, DhcpInv, Reserved, Expired
    <3> QED BY <3>2, <3>3, <3>4 DEF DhcpInv
  <2> QED BY <2>1, ServerStep, ClientStep, NetworkStep DEF DhcpNext
<1>3. DhcpInv => NoSharedAddress
  <2> SUFFICES ASSUME DhcpInv PROVE NoSharedAddress
    OBVIOUS
  <2>1. DhcpTypeOK
    BY DEF DhcpInv, Typed, ServerTypes, ClientTypes, Counters, DhcpTypeOK, Entries, Stages
  <2>2. \A c, d \in Clients : c # d /\ HasLease(c) /\ HasLease(d) => ifaddr[c] # ifaddr[d]
    BY DEF DhcpInv, Separate, Bound, HasLease
  <2>3. ASSUME NEW m \in Macs PROVE Cardinality(EntriesOf(m)) <= 1
    <3>1. CASE EntriesOf(m) = {}
      BY <3>1, FS_EmptySet
    <3>2. CASE EntriesOf(m) # {}
      <4>1. PICK a \in EntriesOf(m) : TRUE
        BY <3>2
      <4>2. EntriesOf(m) = {a}
        BY <4>1, OneEntryIsLeast DEF DhcpInv
      <4> QED BY <4>2, FS_Singleton
    <3> QED BY <3>1, <3>2
  <2> QED BY <2>1, <2>2, <2>3 DEF NoSharedAddress
<1> QED BY <1>1, <1>2, <1>3, PTL

=============================================================================
