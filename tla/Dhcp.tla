--------------------------------- MODULE Dhcp ---------------------------------
(***************************************************************************)
(* The DHCP server of a device (netutils/dhcpd.c) and the DHCP clients of  *)
(* other devices on its network (netutils/dhcpc.c, with their handles and  *)
(* renewal timers in linux_network.c).  Devices that run other software    *)
(* (Others) send the server any message.                                   *)
(*                                                                         *)
(* Messages to the server wait in one queue, its socket; those to a client *)
(* in its socket.  Any message may be lost; order is kept.  Time passes    *)
(* in large units (the server's reservations last an hour, its leases ten  *)
(* days); a client waits ten seconds for an answer.                        *)
(***************************************************************************)
EXTENDS Integers, Sequences, FiniteSets, TLC

CONSTANTS Clients,     \* devices with this SDK's client
          Others,      \* other devices
          Addrs,       \* the addresses that the server leases, 1 .. n
          NoMac,       \* an entry without an owner
          MaxDiscover, \* DISCOVER messages that may still be sent, 5
          MaxRequest,  \* REQUEST messages for one offer, 3
          OfferTime, DeclineTime, LeaseTime,
          Margin,      \* renewal comes this long before the end, 30 s
          MaxQueue,    \* bound of the sockets
          MaxStarts,   \* bound of the calls of dhcp_client_start
          MaxForeign,  \* bound of the messages of other devices
          DhcpClock,   \* bound of the time
          DhcpUnusual  \* "restart": the server is stopped during an exchange;
                       \* "silent": a device does not answer a ping

ASSUME DhcpAssumption ==
    /\ Clients \cap Others = {} /\ NoMac \notin Clients \cup Others
    /\ Addrs \subseteq Nat \ {0} /\ IsFiniteSet(Addrs)
    /\ {MaxDiscover, MaxRequest, OfferTime, DeclineTime} \subseteq Nat \ {0}
    /\ {LeaseTime, Margin, MaxQueue, MaxStarts, MaxForeign, DhcpClock} \subseteq Nat
    /\ Margin < LeaseTime /\ OfferTime < LeaseTime /\ DeclineTime < LeaseTime

VARIABLES serving,     \* the server runs
          leases,      \* g_state.ds_leases
          inbox,       \* messages in the server's socket
          socket,      \* messages in each client's socket
          phase,       \* where each client is in dhcpc_request
          ifaddr,      \* address of the client's interface, 0 if none
          oldaddr,     \* locals of dhcpc_request, 0 outside: the first address,
          offered,     \*   pdhcpc->ipaddr,
          count,       \*   DISCOVER messages left,
          retries,     \*   REQUEST messages sent for this offer
          renewals,    \* due times of the client's renewal timers
          until,       \* history: end of the lease that the server granted
          starts,      \* history: number of calls of dhcp_client_start
          foreign,     \* history: number of messages of other devices
          clock

dhcpvars == <<serving, leases, inbox, socket, phase, ifaddr, oldaddr, offered,
              count, retries, renewals, until, starts, foreign, clock>>

server_ == <<serving, leases>>
client_ == <<phase, ifaddr, oldaddr, offered, count, retries, renewals, until, starts,
             foreign>>

Macs == Clients \cup Others
AnyAddr == {0} \cup Addrs

\* to the server: req is the option "requested address" (0: none), sid the option
\* "server identifier": absent, this server or another one; ci is the field ciaddr.
Message(type, mac, req, sid, ci) ==
    [type |-> type, mac |-> mac, req |-> req, sid |-> sid, ci |-> ci]

ServerIds == {"none", "this", "other"}

Free == [mac |-> NoMac, allocated |-> FALSE, expiry |-> 0]

DhcpTypeOK ==
    /\ serving \in BOOLEAN
    /\ leases \in [Addrs -> [mac : Macs \cup {NoMac}, allocated : BOOLEAN,
                             expiry : 0 .. DhcpClock + LeaseTime]]
    /\ phase \in [Clients -> {"off", "selecting", "requesting", "bound", "broken"}]
    /\ ifaddr \in [Clients -> AnyAddr] /\ oldaddr \in [Clients -> AnyAddr]
    /\ offered \in [Clients -> AnyAddr]
    /\ count \in [Clients -> 0 .. MaxDiscover]
    /\ retries \in [Clients -> 0 .. MaxRequest]
    /\ clock \in 0 .. DhcpClock

DhcpInit ==
    /\ serving = FALSE
    /\ leases = [a \in Addrs |-> Free]
    /\ inbox = <<>> /\ socket = [c \in Clients |-> <<>>]
    /\ phase = [c \in Clients |-> "off"]
    /\ ifaddr = [c \in Clients |-> 0] /\ oldaddr = [c \in Clients |-> 0]
    /\ offered = [c \in Clients |-> 0]
    /\ count = [c \in Clients |-> 0] /\ retries = [c \in Clients |-> 0]
    /\ renewals = [c \in Clients |-> {}]
    /\ until = [c \in Clients |-> 0]
    /\ starts = 0 /\ foreign = 0
    /\ clock = 0

-----------------------------------------------------------------------------
(* The table of leases *)

Least(S) == CHOOSE a \in S : \A b \in S : a <= b

\* dhcpd_leaseexpired.  It clears an entry that has expired: those who offer its
\* address write it next, Request leaves it so.
Expired(a) == leases[a].expiry <= clock

\* dhcpd_findbymac: the entries of mac, of which the first one is taken.
EntriesOf(mac) == {a \in Addrs : leases[a].mac = mac}

\* dhcpd_findbyipaddr finds no entry, or one that has expired.
Available(a) == ~leases[a].allocated \/ Expired(a)

\* dhcpd_setlease
SetLease(a, mac, time) ==
    leases' = [leases EXCEPT ![a] = [mac |-> mac, allocated |-> TRUE,
                                     expiry |-> clock + time]]

\* verify_ipv4addr_in_used: whether the ping of address a is answered.
Answers(a) ==
    IF \E c \in Clients : ifaddr[c] = a
    THEN IF "silent" \in DhcpUnusual THEN BOOLEAN ELSE {TRUE}
    ELSE {FALSE}

MutAllocIpAddr(answer) ==
    LET free == {a \in Addrs : Available(a)}
    IN  IF free = {} THEN 0 ELSE Least(free)

\* dhcpd_allocipaddr: the first address that nobody answers for and that is not
\* leased; 0 if there is none.
AllocIpAddr(answer) ==
    LET free == {a \in Addrs : ~answer[a] /\ Available(a)}
    IN  IF free = {} THEN 0 ELSE Least(free)

\* dhcpd_verifyreqip
VerifyReqIp(req) == req \in Addrs /\ Available(req)

-----------------------------------------------------------------------------
(* The server *)

Listening(c) == phase[c] \in {"selecting", "requesting"}

\* Message m arrives at some of the clients of the set to that read their
\* sockets.
Deliver(m, to) ==
    \E arrives \in SUBSET {c \in to : Listening(c) /\ Len(socket[c]) < MaxQueue} :
        socket' = [c \in Clients |-> IF c \in arrives THEN Append(socket[c], m)
                                                      ELSE socket[c]]

\* A client does not compare the hardware address of a broadcast with its own.
Broadcast(m) == Deliver(m, Clients)

DhcpServerStart ==
    /\ ~serving
    /\ serving' = TRUE
    /\ leases' = [a \in Addrs |-> Free]
    /\ UNCHANGED <<inbox, socket, client_, clock>>

\* The table is freed; a later start begins with an empty one.
DhcpServerStop ==
    /\ serving
    /\ "restart" \in DhcpUnusual \/ \A c \in Clients : ~Listening(c)
    /\ serving' = FALSE
    /\ inbox' = <<>>
    /\ UNCHANGED <<leases, socket, client_, clock>>

MutOfferFor(m, answer) ==
    IF VerifyReqIp(m.req) THEN m.req ELSE AllocIpAddr(answer)

\* The address that a DISCOVER is answered with, 0 if there is none.
OfferFor(m, answer) ==
    IF EntriesOf(m.mac) # {} THEN Least(EntriesOf(m.mac))
    ELSE IF VerifyReqIp(m.req) THEN m.req
    ELSE AllocIpAddr(answer)

\* dhcpd_discover and dhcpd_sendoffer
Discover(m) ==
    \E answer \in [Addrs -> BOOLEAN] :
       /\ \A a \in Addrs : answer[a] \in Answers(a)
       /\ LET a == OfferFor(m, answer)
          IN  IF a = 0 THEN UNCHANGED <<leases, socket>>
              ELSE /\ SetLease(a, m.mac, OfferTime)
                   /\ Broadcast([type |-> "OFFER", ip |-> a, until |-> 0])

\* dhcpd_request: is the answer to a device with the entry a an ACK?
Acknowledges(m, a) ==
    IF m.sid # "none" THEN m.sid = "this" /\ m.req # 0
    ELSE IF m.req # 0 THEN m.req = a
    ELSE m.ci = a

\* An ACK is sent to the address in ciaddr, which the client already uses.
RequestOwned(m, a) ==
    IF Acknowledges(m, a)
    THEN /\ SetLease(a, m.mac, LeaseTime)
         /\ Deliver([type |-> "ACK", ip |-> a, until |-> clock + LeaseTime],
                    {m.mac} \cap Clients)
    ELSE /\ Broadcast([type |-> "NAK", ip |-> 0, until |-> 0])
         /\ UNCHANGED leases

\* A device without an entry asks for an address: NAK if it is taken or out of
\* range.  An entry that has expired is cleared, and there is no answer.
RequestUnowned(m) ==
    IF m.req = 0 \/ m.sid # "none" THEN UNCHANGED <<leases, socket>>
    ELSE IF m.req \notin Addrs \/ ~Available(m.req)
    THEN /\ Broadcast([type |-> "NAK", ip |-> 0, until |-> 0])
         /\ UNCHANGED leases
    ELSE /\ leases' = IF leases[m.req].allocated THEN [leases EXCEPT ![m.req] = Free]
                      ELSE leases
         /\ UNCHANGED socket

\* dhcpd_request
Request(m) ==
    LET own == EntriesOf(m.mac)
    IN  IF own # {} THEN RequestOwned(m, Least(own)) ELSE RequestUnowned(m)

\* dhcpd_decline: the entry loses its owner and stays taken for a while.
Decline(m) ==
    /\ leases' = IF EntriesOf(m.mac) = {} THEN leases
                 ELSE [leases EXCEPT ![Least(EntriesOf(m.mac))] =
                          [@ EXCEPT !.mac = NoMac, !.expiry = clock + DeclineTime]]
    /\ UNCHANGED socket

\* dhcpd_release
ReleaseLease(m) ==
    /\ leases' = IF EntriesOf(m.mac) = {} THEN leases
                 ELSE [leases EXCEPT ![Least(EntriesOf(m.mac))] = Free]
    /\ UNCHANGED socket

\* loop_handler
DhcpServerReads ==
    /\ serving /\ inbox # <<>>
    /\ LET m == Head(inbox)
       IN  \/ m.type = "DISCOVER" /\ Discover(m)
           \/ m.type = "REQUEST"  /\ Request(m)
           \/ m.type = "DECLINE"  /\ Decline(m)
           \/ m.type = "RELEASE"  /\ ReleaseLease(m)
    /\ inbox' = Tail(inbox)
    /\ UNCHANGED <<serving, client_, clock>>

-----------------------------------------------------------------------------
(* The client *)

\* dhcpc_sendmsg of one or two messages, any of which may be lost.
Sends(ms) ==
    \E arriving \in {<<>>, ms} \cup {<<ms[k]>> : k \in DOMAIN ms} :
        /\ arriving # <<>> => serving /\ Len(inbox) + Len(arriving) <= MaxQueue
        /\ inbox' = inbox \o arriving

DiscoverMsg(c) == Message("DISCOVER", c, 0, "none", 0)
RequestMsg(c, a) == Message("REQUEST", c, a, "this", a)
DeclineMsg(c, a) == Message("DECLINE", c, 0, "this", a)

\* The head of the outer loop with the messages ms before it: the interface
\* loses its address and DISCOVER is sent, unless that was done too often.
Select(c, ms) ==
    /\ Sends(Append(ms, DiscoverMsg(c)))
    /\ phase' = [phase EXCEPT ![c] = IF count[c] > 0 THEN "selecting" ELSE "off"]
    /\ ifaddr' = [ifaddr EXCEPT ![c] = IF count[c] > 0 THEN 0 ELSE oldaddr[c]]
    /\ count' = [count EXCEPT ![c] = IF @ > 0 THEN @ - 1 ELSE 0]
    /\ retries' = [retries EXCEPT ![c] = 0]
    /\ offered' = [offered EXCEPT ![c] = 0]
    /\ oldaddr' = [oldaddr EXCEPT ![c] = IF count[c] > 0 THEN @ ELSE 0]
    /\ socket' = [socket EXCEPT ![c] = IF count[c] = 0 \/ @ = <<>> THEN <<>> ELSE Tail(@)]
    /\ UNCHANGED <<renewals, until, starts, foreign>>

\* REQUEST is sent for the offer after the messages ms, or has been sent often
\* enough.
AskAgain(c, ms) ==
    IF retries[c] < MaxRequest
    THEN /\ Sends(Append(ms, RequestMsg(c, offered[c])))
         /\ retries' = [retries EXCEPT ![c] = @ + 1]
         /\ socket' = [socket EXCEPT ![c] = IF @ = <<>> THEN <<>> ELSE Tail(@)]
         /\ UNCHANGED <<phase, ifaddr, oldaddr, offered, count, renewals, until, starts, foreign>>
    ELSE Select(c, ms)

\* os_dhcp_client_start up to the first DISCOVER.
DhcpClientStart(c) ==
    /\ phase[c] = "off"
    /\ starts < MaxStarts
    /\ starts' = starts + 1
    /\ phase' = [phase EXCEPT ![c] = "selecting"]
    /\ oldaddr' = [oldaddr EXCEPT ![c] = ifaddr[c]]
    /\ ifaddr' = [ifaddr EXCEPT ![c] = 0]
    /\ count' = [count EXCEPT ![c] = MaxDiscover - 1]
    /\ retries' = [retries EXCEPT ![c] = 0]
    /\ Sends(<<DiscoverMsg(c)>>)
    /\ UNCHANGED <<server_, socket, offered, renewals, until, foreign, clock>>

\* Nothing is received for ten seconds.
Timeout(c) ==
    /\ Listening(c) /\ socket[c] = <<>>
    /\ IF phase[c] = "selecting" THEN Select(c, <<>>) ELSE AskAgain(c, <<>>)
    /\ UNCHANGED <<server_, clock>>

\* dhcpc_request while it waits for an offer.
ReceiveOffer(c) ==
    /\ phase[c] = "selecting" /\ socket[c] # <<>>
    /\ LET m == Head(socket[c])
       IN  IF m.type = "OFFER"
           THEN /\ phase' = [phase EXCEPT ![c] = "requesting"]
                /\ ifaddr' = [ifaddr EXCEPT ![c] = m.ip]
                /\ offered' = [offered EXCEPT ![c] = m.ip]
                /\ retries' = [retries EXCEPT ![c] = 1]
                /\ Sends(<<RequestMsg(c, m.ip)>>)
                /\ socket' = [socket EXCEPT ![c] = Tail(@)]
                /\ UNCHANGED <<oldaddr, count, renewals, until, starts, foreign>>
           ELSE Select(c, <<>>)
    /\ UNCHANGED <<server_, clock>>

\* The end of os_dhcp_client_start: address and renewal timer are set.
Bind(c, m) ==
    /\ phase' = [phase EXCEPT ![c] = "bound"]
    /\ ifaddr' = [ifaddr EXCEPT ![c] = m.ip]
    /\ renewals' = [renewals EXCEPT ![c] = @ \cup {clock + LeaseTime - Margin}]
    /\ until' = [until EXCEPT ![c] = m.until]
    /\ socket' = [socket EXCEPT ![c] = <<>>]
    /\ offered' = [offered EXCEPT ![c] = 0]
    /\ oldaddr' = [oldaddr EXCEPT ![c] = 0]
    /\ count' = [count EXCEPT ![c] = 0] /\ retries' = [retries EXCEPT ![c] = 0]
    /\ UNCHANGED <<inbox, starts, foreign>>

\* dhcpc_request while it waits for the answer to its REQUEST.
ReceiveAnswer(c) ==
    /\ phase[c] = "requesting" /\ socket[c] # <<>>
    /\ LET m == Head(socket[c])
       IN  \/ m.type = "ACK"   /\ Bind(c, m)
           \/ m.type = "NAK"   /\ Select(c, <<>>)
           \/ m.type = "OFFER" /\ AskAgain(c, <<DeclineMsg(c, m.ip)>>)
    /\ UNCHANGED <<server_, clock>>

\* The timer and the address stay.
DhcpClientStop(c) ==
    /\ phase[c] = "bound"
    /\ phase' = [phase EXCEPT ![c] = "off"]
    /\ until' = [until EXCEPT ![c] = 0]
    /\ UNCHANGED <<server_, inbox, socket, ifaddr, oldaddr, offered, count,
                   retries, renewals, starts, foreign, clock>>

\* on_dhcp_client_renew_callback.  The handle is looked up in the caller's
\* variable.  dhcp_client_renew gives dhcpc_request the list node in place of
\* the client's state: the message is written over the node and what follows it
\* and sent on descriptor 0, so that the renewal fails, and the name of the
\* interface is lost, so that the address stays.  If the process survives this,
\* it has no timer any more.
RenewCallback(c) ==
    /\ ~Listening(c)
    /\ \E t \in renewals[c] :
          /\ t <= clock
          /\ renewals' = [renewals EXCEPT ![c] = @ \ {t}]
    /\ phase' = [phase EXCEPT ![c] = IF @ = "bound" THEN "broken" ELSE @]
    /\ UNCHANGED <<server_, inbox, socket, ifaddr, oldaddr, offered, count,
                   retries, until, starts, foreign, clock>>

-----------------------------------------------------------------------------
(* The network *)

OtherSends(o) ==
    /\ serving /\ Len(inbox) < MaxQueue
    /\ foreign < MaxForeign
    /\ foreign' = foreign + 1
    /\ \E req \in AnyAddr, sid \in ServerIds :
          \E m \in {Message("DISCOVER", o, req, "none", 0), Message("REQUEST", o, req, sid, 0),
                    Message("DECLINE", o, 0, "this", 0), Message("RELEASE", o, 0, "this", 0)} :
             inbox' = Append(inbox, m)
    /\ UNCHANGED <<server_, socket, phase, ifaddr, oldaddr, offered, count,
                   retries, renewals, until, starts, clock>>

\* An exchange of messages takes seconds: time goes on when none is under way.
TimePasses ==
    /\ clock < DhcpClock
    /\ inbox = <<>> /\ \A c \in Clients : ~Listening(c)
    /\ clock' = clock + 1
    /\ UNCHANGED <<server_, inbox, socket, client_>>

DhcpNext ==
    \/ DhcpServerStart \/ DhcpServerStop \/ DhcpServerReads
    \/ \E c \in Clients : \/ DhcpClientStart(c) \/ Timeout(c) \/ ReceiveOffer(c)
                          \/ ReceiveAnswer(c) \/ DhcpClientStop(c)
                          \/ RenewCallback(c)
    \/ \E o \in Others : OtherSends(o)
    \/ TimePasses

-----------------------------------------------------------------------------

\* The lease that the server has granted to c has not ended.
HasLease(c) == phase[c] \in {"bound", "broken"} /\ clock < until[c]

\* No address belongs to two clients at a time.  Two clients may take each
\* other's offers, a slow server may answer two DISCOVERs of a client, whose
\* DECLINE of the second answer makes it forget the lease, and any device may
\* ask for any address: the ping of dhcpd_allocipaddr keeps it from giving the
\* address away.  A device has one entry in the table at most, so that the first
\* one with its hardware address is its only one.
NoSharedAddress ==
    /\ DhcpTypeOK
    /\ \A c, d \in Clients : c # d /\ HasLease(c) /\ HasLease(d) => ifaddr[c] # ifaddr[d]
    /\ \A m \in Macs : Cardinality(EntriesOf(m)) <= 1

\* The names of the clients do not matter (a symmetry set for model checking).
Symmetry == Permutations(Clients)
=============================================================================
