------------------------------ MODULE NetConfig ------------------------------
(***************************************************************************)
(* The configuration of the network's interfaces (linux_network.c with     *)
(* netlib.c, tizenrt_network.c with dns_utils.c): addresses, the default   *)
(* route and name servers set and read, DHCP servers and TizenRT's DHCP    *)
(* client started and stopped, each in several calls of the system of      *)
(* which any may fail.  And the packets of the network module: echo        *)
(* requests with their checksum (common_network.c), and the options of the *)
(* DHCP server's answers as its client reads them.                         *)
(*                                                                         *)
(* The kernel and lwIP are external: a new address or mask takes the       *)
(* routes of the interface with it, and there is one default route.        *)
(***************************************************************************)
EXTENDS Integers, Sequences, FiniteSets, SequencesExt

CONSTANTS NcConfigs,      \* configurations the application gives
          NcLeases,       \* answers of TizenRT's DHCP client
          NcPids,         \* process ids
          NcBytes,        \* bytes of a packet, below NcByte
          NcByte,
          NcTimeouts,     \* timeouts of an echo, in tries
          NcUnusual       \* "fails": the system refuses one of the calls,
                          \* "again": the configuration an interface has is set again,
                          \* "both": an interface is set up while the other has the default route,
                          \* "under": an interface is set up under its DHCP server or lease,
                          \* "servers": a DHCP server is started while one runs,
                          \* "users": two users start TizenRT's client, one stops it,
                          \* "names": on TizenRT the second name server is wrong or left out,
                          \* "slots": lwIP has three name servers,
                          \* "pid": a process id of more than 16 bits,
                          \* "stray": somebody else's echo arrives first

VARIABLES nc_os,          \* "linux", "tizenrt"
          nc_net,         \* interfaces, the default route, and the name servers
          nc_servers,     \* interface -> the configuration of its DHCP server, if it runs
          nc_leases,      \* the interface whose server has g_state's table, "none", "freed"
          nc_users,       \* who has started TizenRT's client
          nc_lease,       \* what its server gave last
          nc_told         \* the last call, with what it found and what it returned

ncvars == <<nc_os, nc_net, nc_servers, nc_leases, nc_users, nc_lease, nc_told>>

AnyAddr == "0.0.0.0"
Off == [addr |-> AnyAddr, mask |-> AnyAddr, gw |-> AnyAddr]
NoServer == [addr |-> "none"]
NoRoute == [dev |-> "none", gw |-> AnyAddr]
Error == [error |-> TRUE]
NothingTold == [kind |-> "nothing"]

(* MAX_DNS_ADDRESSES, and lwIP's table.                                     *)
MaxDns == 2
Slots == IF "slots" \in NcUnusual THEN 3 ELSE 2

(* CONFIG_NETUTILS_DHCPD_LEASETIME and its bounds, scaled down.             *)
LeaseTime == 5
MinLease == 3
MaxLease == 8

Interfaces == {"wlan0", "eth0"}

(* What a configuration gives may be missing ("") or wrong; no address in   *)
(* it is the one that means none.  A server's answer misses nothing.        *)
Addresses == STRING \ {AnyAddr, "none"}
Leased == Addresses \ {""}

ASSUME NcAssumption ==
    /\ NcConfigs \subseteq [addr : Addresses, mask : Addresses, gw : Addresses,
                            dns : [1 .. MaxDns -> Addresses], start : STRING]
    /\ NcLeases \subseteq [addr : Leased, mask : Leased, gw : Leased]

NcInit ==
    /\ nc_os \in {"linux", "tizenrt"}
    /\ nc_net = [ifs |-> [i \in Interfaces |-> Off], route |-> NoRoute,
                 dns |-> IF nc_os = "linux" THEN <<>> ELSE [n \in 1 .. Slots |-> AnyAddr]]
    /\ nc_servers = [i \in Interfaces |-> NoServer]
    /\ nc_leases = "none" /\ nc_users = 0 /\ nc_lease = Off
    /\ nc_told = NothingTold

-----------------------------------------------------------------------------
(* Calls of the system: each takes and gives a network, or an error.        *)

Unrouted(net, i) == IF net.route.dev = i THEN NoRoute ELSE net.route

Changed(net, i, new) == [net EXCEPT !.ifs[i] = new, !.route = Unrouted(net, i)]

(* On Linux an address brings its own mask and peer, and takes them along.  *)
set_ipv4addr(os, net, i, a) ==
    IF os = "tizenrt" THEN [net EXCEPT !.ifs[i].addr = a]
    ELSE IF net.ifs[i].addr = a THEN net
    ELSE Changed(net, i, IF a = AnyAddr THEN Off ELSE [addr |-> a, mask |-> "class", gw |-> a])

SetOf(os, net, i, new) ==
    IF os = "tizenrt" THEN [net EXCEPT !.ifs[i] = new]
    ELSE IF net.ifs[i].addr = AnyAddr THEN Error
    ELSE IF net.ifs[i] = new THEN net
    ELSE Changed(net, i, new)

set_ipv4netmask(os, net, i, a) == SetOf(os, net, i, [net.ifs[i] EXCEPT !.mask = a])
set_dripv4addr(os, net, i, a) == SetOf(os, net, i, [net.ifs[i] EXCEPT !.gw = a])

set_defaultroute(net, i, gw) ==
    IF net.route # NoRoute THEN Error ELSE [net EXCEPT !.route = [dev |-> i, gw |-> gw]]

del_allroutes_interface(net, i) == [net EXCEPT !.route = Unrouted(net, i)]

(* Name servers are never replaced, only added.                             *)
MutDnsAddNameserver(net, a, append) == [net EXCEPT !.dns = Append(@, a)]

(* A line of /etc/resolv.conf, the first one in a new file.                 *)
dns_add_nameserver(net, a, append) ==
    [net EXCEPT !.dns = IF append THEN Append(@, a) ELSE <<a>>]

(* lwIP's first free entry.                                                 *)
AddToTable(net, a) ==
    LET free == {n \in DOMAIN net.dns : net.dns[n] = AnyAddr} IN
    IF free = {} THEN Error
    ELSE [net EXCEPT !.dns[CHOOSE n \in free : \A m \in free : n <= m] = a]

Call(os, net, i, c) ==
    CASE c.op = "addr"   -> set_ipv4addr(os, net, i, c.arg)
      [] c.op = "mask"   -> set_ipv4netmask(os, net, i, c.arg)
      [] c.op = "router" -> set_dripv4addr(os, net, i, c.arg)
      [] c.op = "route"  -> set_defaultroute(net, i, c.arg)
      [] c.op = "flush"  -> del_allroutes_interface(net, i)
      [] c.op = "dns"    -> IF os = "linux" THEN dns_add_nameserver(net, c.arg, FALSE) ELSE AddToTable(net, c.arg)
      [] c.op = "more"   -> IF os = "linux" THEN dns_add_nameserver(net, c.arg, TRUE) ELSE AddToTable(net, c.arg)

(* The n-th of a function's calls, after the ones before: it is left out if *)
(* one of them failed or there is nothing to set, and the one numbered      *)
(* fails is refused.                                                        *)
Made(os, i, calls, fails, n, done) ==
    LET after == Call(os, done.net, i, calls[n]) IN
    IF n > Len(calls) \/ ~ done.ok \/ calls[n].arg = "" THEN done
    ELSE IF n = fails \/ after = Error THEN [done EXCEPT !.ok = FALSE]
    ELSE [done EXCEPT !.net = after]

(* All of them, six at most; what was done before a failure stays.          *)
Calls(os, net, i, calls, fails) ==
    LET Then(n, done) == Made(os, i, calls, fails, n, done) IN
    Then(6, Then(5, Then(4, Then(3, Then(2, Then(1, [ok |-> TRUE, net |-> net]))))))

Op(op, arg) == [op |-> op, arg |-> arg]

-----------------------------------------------------------------------------
(* Configurations.                                                          *)

(* The last one may be empty, the others are addresses.                     *)
check_network_config(c) == "" \notin {c.addr, c.mask, c.gw, c.dns[1]} /\ "bad" \notin {c.addr, c.mask, c.gw} \cup ToSet(c.dns)

check_dhcp_server_config(c) == check_network_config(c) /\ c.start \notin {"", "bad"}

(* On TizenRT the entries are emptied one by one while the addresses are    *)
(* checked, as many as were right.                                          *)
RightNames(c) ==
    Cardinality({n \in DOMAIN c.dns : c.dns[n] # "" /\ "bad" \notin {c.dns[m] : m \in 1 .. n}})

Emptied(net, count) == [net EXCEPT !.dns = [n \in DOMAIN @ |-> IF n <= count THEN AnyAddr ELSE @[n]]]

(* What the call is refused for, before anything is done.                   *)
Accepted(os, i, c) ==
    IF os = "linux" THEN check_network_config(c)
    ELSE i = "wlan0" /\ {c.addr, c.mask, c.gw} \cap {"", "bad"} = {}

linux_set_network_config(net, i, c, fails) ==
    IF ~ Accepted("linux", i, c) THEN [ok |-> FALSE, net |-> net]
    ELSE Calls("linux", net, i, <<Op("addr", c.addr), Op("mask", c.mask), Op("router", c.gw), Op("route", c.gw),
                                  Op("dns", c.dns[1]), Op("more", c.dns[2])>>, fails)

tizenrt_set_network_config(net, i, c, fails) ==
    IF ~ Accepted("tizenrt", i, c) THEN [ok |-> FALSE, net |-> net]
    ELSE IF "bad" \in ToSet(c.dns) THEN [ok |-> FALSE, net |-> Emptied(net, RightNames(c))]
    ELSE Calls("tizenrt", Emptied(net, RightNames(c)), i,
               <<Op("addr", c.addr), Op("router", c.gw), Op("mask", c.mask),
                 Op("dns", c.dns[1]), Op("more", c.dns[2])>>, fails)

(* After so many entries one more is taken: as many as the configuration    *)
(* has room for, and another one.                                           *)
add_nameserver(count) == count <= MaxDns

(* lwIP's table has no end mark: every entry is told, also an empty one.    *)
dns_foreach_nameserver(net) == [n \in {n \in DOMAIN net.dns : add_nameserver(n - 1)} |-> net.dns[n]]

(* The first lines of /etc/resolv.conf.                                     *)
get_ipv4dnsaddr(net) == [n \in 1 .. MaxDns |-> IF n \in DOMAIN net.dns THEN net.dns[n] ELSE AnyAddr]

get_ipv4addr(net, i) == net.ifs[i].addr
get_ipv4netmask(net, i) == net.ifs[i].mask
get_dripv4addr(net, i) == net.ifs[i].gw

(* An interface without an address has nothing to be read.                  *)
linux_get_network_config(net, i) ==
    IF get_ipv4addr(net, i) = AnyAddr THEN Error
    ELSE [addr |-> get_ipv4addr(net, i), mask |-> get_ipv4netmask(net, i), gw |-> get_dripv4addr(net, i),
          dns |-> get_ipv4dnsaddr(net)]

tizenrt_get_network_config(net, i) ==
    [addr |-> net.ifs[i].addr, mask |-> net.ifs[i].mask, gw |-> net.ifs[i].gw, dns |-> dns_foreach_nameserver(net)]

Returns(kind, i, c, done) == nc_told' = [kind |-> kind, dev |-> i, config |-> c, ok |-> done.ok, before |-> nc_net]

Held(i) == nc_servers[i] # NoServer \/ (nc_os = "tizenrt" /\ i = "wlan0" /\ nc_users > 0)

os_set_network_config(i, c, fails) ==
    LET done == IF nc_os = "linux" THEN linux_set_network_config(nc_net, i, c, fails)
                ELSE tizenrt_set_network_config(nc_net, i, c, fails) IN
    /\ fails = 0 \/ "fails" \in NcUnusual
    /\ nc_os = "linux" /\ nc_net.route # NoRoute
       => IF nc_net.route.dev # i THEN "both" \in NcUnusual
          ELSE [addr |-> c.addr, mask |-> c.mask, gw |-> c.gw] # nc_net.ifs[i] \/ "again" \in NcUnusual
    /\ nc_os = "tizenrt" => {"", "bad"} \cap ToSet(c.dns) = {} \/ "names" \in NcUnusual
    /\ Held(i) => "under" \in NcUnusual
    /\ nc_net' = done.net
    /\ Returns("set", i, c, done)
    /\ UNCHANGED <<nc_os, nc_servers, nc_leases, nc_users, nc_lease>>

-----------------------------------------------------------------------------
(* DHCP servers and TizenRT's client.                                       *)

(* One server runs at a time.                                               *)
Free(i) == nc_servers = [j \in Interfaces |-> NoServer] \/ "servers" \in NcUnusual

(* On Linux the table of leases is one of the process.                      *)
os_dhcp_server_start(i, c, fails) ==
    LET done == Calls("linux", nc_net, i, <<Op("flush", AnyAddr), Op("addr", c.addr), Op("mask", c.mask),
                                            Op("router", c.gw), Op("route", AnyAddr)>>, fails) IN
    /\ nc_os = "linux" /\ Free(i)
    /\ fails = 0 \/ "fails" \in NcUnusual
    /\ nc_net.route.dev \in {"none", i} \/ "both" \in NcUnusual
    /\ LET ok == check_dhcp_server_config(c) /\ done.ok IN
       /\ nc_net' = IF check_dhcp_server_config(c) THEN done.net ELSE nc_net
       /\ nc_servers' = IF ok THEN [nc_servers EXCEPT ![i] = c] ELSE nc_servers
       /\ nc_leases' = IF ok THEN i ELSE nc_leases
       /\ Returns("start", i, c, [ok |-> ok])
    /\ UNCHANGED <<nc_os, nc_users, nc_lease>>

(* Whatever fails, the handle is gone.                                      *)
os_dhcp_server_stop(i, fails) ==
    LET done == Calls("linux", nc_net, i, <<Op("flush", AnyAddr), Op("route", AnyAddr), Op("addr", AnyAddr)>>, fails) IN
    /\ nc_os = "linux" /\ nc_servers[i] # NoServer
    /\ fails = 0 \/ "fails" \in NcUnusual
    /\ nc_net.route.dev \in {"none", i} \/ "both" \in NcUnusual
    /\ nc_net' = done.net
    /\ nc_servers' = [nc_servers EXCEPT ![i] = NoServer]
    /\ nc_leases' = IF nc_leases \in Interfaces THEN "none" ELSE "freed"
    /\ Returns("stop", i, Off, done)
    /\ UNCHANGED <<nc_os, nc_users, nc_lease>>

(* The configuration is not looked at; a server that cannot be started, or  *)
(* runs already, costs the interface its address.                           *)
tizenrt_dhcp_server_start(starts) ==
    /\ nc_os = "tizenrt" /\ Free("wlan0") /\ nc_users = 0
    /\ starts \/ "fails" \in NcUnusual
    /\ LET ok == starts /\ nc_servers["wlan0"] = NoServer IN
       /\ nc_net' = IF ok THEN nc_net ELSE set_ipv4addr("tizenrt", nc_net, "wlan0", AnyAddr)
       /\ nc_servers' = IF ok THEN [nc_servers EXCEPT !["wlan0"] = [addr |-> nc_net.ifs["wlan0"].addr]] ELSE nc_servers
       /\ Returns("start", "wlan0", Off, [ok |-> ok])
    /\ UNCHANGED <<nc_os, nc_leases, nc_users, nc_lease>>

tizenrt_dhcp_server_stop ==
    /\ nc_os = "tizenrt" /\ nc_servers["wlan0"] # NoServer
    /\ nc_net' = set_ipv4addr("tizenrt", nc_net, "wlan0", AnyAddr)
    /\ nc_servers' = [nc_servers EXCEPT !["wlan0"] = NoServer]
    /\ Returns("stop", "wlan0", Off, [ok |-> TRUE])
    /\ UNCHANGED <<nc_os, nc_leases, nc_users, nc_lease>>

Addressed(net, i, l) ==
    Calls("tizenrt", net, i, <<Op("addr", l.addr), Op("mask", l.mask), Op("router", l.gw)>>, 0).net

tizenrt_dhcp_client_start(lease, ok) ==
    /\ nc_os = "tizenrt" /\ nc_servers["wlan0"] = NoServer
    /\ nc_users = 0 \/ (nc_users < 2 /\ "users" \in NcUnusual)
    /\ nc_net' = IF ok THEN Addressed(nc_net, "wlan0", lease) ELSE nc_net
    /\ nc_users' = IF ok THEN nc_users + 1 ELSE nc_users
    /\ nc_lease' = IF ok THEN lease ELSE nc_lease
    /\ Returns("lease", "wlan0", lease, [ok |-> ok])
    /\ UNCHANGED <<nc_os, nc_servers, nc_leases>>

(* The handle is a constant.                                                *)
tizenrt_dhcp_client_stop ==
    /\ nc_os = "tizenrt" /\ nc_users > 0
    /\ nc_net' = Addressed(nc_net, "wlan0", Off)
    /\ nc_users' = nc_users - 1
    /\ Returns("stop", "wlan0", Off, [ok |-> TRUE])
    /\ UNCHANGED <<nc_os, nc_servers, nc_leases, nc_lease>>

-----------------------------------------------------------------------------
(* Packets.                                                                 *)

Word == NcByte * NcByte

(* The carry that the first addition makes is lost.                         *)
MutCarried(acc) == ((acc \div Word) + (acc % Word)) % Word

(* Carries are added until none is left, which takes twice at most.         *)
Carried(acc) ==
    LET once == (acc \div Word) + (acc % Word) IN
    IF once >= Word THEN (once \div Word) + (once % Word) ELSE once

(* Words with their high byte first, a last byte as a high one.             *)
chksum(bytes) ==
    Carried(FoldLeftDomain(LAMBDA acc, n : acc + IF n % 2 = 1 THEN bytes[n] * NcByte ELSE bytes[n], 0, bytes))

(* The id in a packet has 16 bits.                                          *)
os_send_echo(pid, seqno) == [type |-> "request", id |-> pid % Word, seqno |-> seqno]

(* The id in the packet is compared with all of the process id.             *)
linux_check_echo_response(packet, pid, seqno) ==
    packet.type = "reply" /\ packet.seqno = seqno /\ packet.id = pid

tizenrt_check_echo_response(packet, pid, seqno) ==
    packet.type = "reply" /\ packet.seqno = seqno /\ packet.id = pid % Word

os_check_echo_response(os, packet, pid, seqno) ==
    IF os = "linux" THEN linux_check_echo_response(packet, pid, seqno)
    ELSE tizenrt_check_echo_response(packet, pid, seqno)

Echoed(packet) == [packet EXCEPT !.type = "reply"]

Nothing == [type |-> "nothing"]

(* arrives: what each try gets, a packet or nothing until its time is over. *)
(* Without a timeout the first try waits.                                   *)
artik_get_online_status(os, pid, timeout, arrives) ==
    LET decides(n) == arrives[n] # Nothing \/ (timeout > 0 /\ n > timeout)
        tries == {n \in DOMAIN arrives : decides(n)} IN
    IF tries = {} THEN "waits"
    ELSE LET n == CHOOSE n \in tries : \A m \in tries : n <= m IN
         IF arrives[n] = Nothing THEN "timeout"
         ELSE IF os_check_echo_response(os, arrives[n], pid, 0) THEN "online" ELSE "error"

(* An option of a DHCP server's answer; the mark of the end follows.        *)
dhcpd_addoption(options, code, value) == Append(options, Op(code, value))

dhcpd_initpacket(mtype, serverip) ==
    dhcpd_addoption(dhcpd_addoption(<<>>, "type", mtype), "server", serverip)

(* Zero asks for nothing.                                                   *)
dhcpd_verifyreqleasetime(asked) ==
    CASE asked = 0         -> LeaseTime
      [] asked > MaxLease  -> MaxLease
      [] asked \in 1 .. MinLease -> MinLease
      [] OTHER             -> asked

htonl(a) == IF a = AnyAddr THEN AnyAddr ELSE <<"swapped", a>>

(* Name servers are in the network's byte order: an offer swaps them again. *)
Names(mtype, c) ==
    LET dns == [n \in DOMAIN c.dns |-> IF c.dns[n] = "" THEN AnyAddr ELSE c.dns[n]] IN
    SelectSeq([n \in DOMAIN dns |-> IF mtype = "offer" THEN htonl(dns[n]) ELSE dns[n]], LAMBDA a : a # AnyAddr)

dhcpd_sendack(mtype, c, asked) ==
    FoldLeft(LAMBDA options, o : dhcpd_addoption(options, o.op, o.arg),
             dhcpd_initpacket(mtype, c.addr),
             <<Op("time", dhcpd_verifyreqleasetime(asked)), Op("mask", c.mask), Op("router", c.gw)>>
             \o [n \in DOMAIN Names(mtype, c) |-> Op("dns", Names(mtype, c)[n])])

(* A client's state: each option it knows replaces what was there.          *)
dhcpc_parseoptions(state, options) ==
    FoldLeft(LAMBDA s, o : [f \in DOMAIN s |-> IF f = o.op THEN o.arg ELSE s[f]], state, options)

-----------------------------------------------------------------------------
NcNext ==
    \/ \E i \in Interfaces, c \in NcConfigs, fails \in 0 .. 6 :
          \/ os_set_network_config(i, c, fails) \/ os_dhcp_server_start(i, c, fails)
    \/ \E i \in Interfaces, fails \in 0 .. 3 : os_dhcp_server_stop(i, fails)
    \/ \E ok \in BOOLEAN : tizenrt_dhcp_server_start(ok) \/ \E l \in NcLeases : tizenrt_dhcp_client_start(l, ok)
    \/ tizenrt_dhcp_server_stop \/ tizenrt_dhcp_client_stop

(* A call that succeeded leaves the interface, the route and the name       *)
(* servers as its configuration has them, and they are read as such; one    *)
(* that failed leaves everything as it was, and a right configuration does  *)
(* not fail.                                                                *)
ConfigIsExact ==
    LET t == nc_told
        read == IF nc_os = "linux" THEN linux_get_network_config(nc_net, t.dev)
                ELSE tizenrt_get_network_config(nc_net, t.dev) IN
    t.kind \in {"set", "start", "lease"} =>
        IF ~ t.ok THEN nc_net = t.before /\ (t.kind = "set" => ~ Accepted(nc_os, t.dev, t.config))
        ELSE t.config # Off =>
             /\ read.addr = t.config.addr /\ read.mask = t.config.mask /\ read.gw = t.config.gw
             /\ Len(read.dns) <= MaxDns
             /\ nc_os = "linux" => nc_net.route = [dev |-> t.dev, gw |-> IF t.kind = "set" THEN t.config.gw ELSE AnyAddr]
             /\ t.kind = "set" => read.dns = [n \in 1 .. MaxDns |-> IF t.config.dns[n] = "" THEN AnyAddr ELSE t.config.dns[n]]

(* Whoever has started a DHCP server or client and not stopped it has its   *)
(* address on the interface, and its server the table of leases, which is   *)
(* freed once.                                                              *)
ServersAreAddressed ==
    /\ \A i \in Interfaces :
          nc_servers[i] # NoServer => /\ nc_net.ifs[i].addr = nc_servers[i].addr
                                      /\ nc_os = "linux" => nc_leases = i
    /\ nc_users > 0 => nc_net.ifs["wlan0"] = nc_lease
    /\ nc_leases # "freed"

(* A packet with its checksum adds up to all ones; the answer to an echo is *)
(* recognised, and nobody else's; the status is online exactly if it came   *)
(* in time; and from an acknowledgement a client has the network its server *)
(* is configured with.  None of it depends on what was called.              *)
PacketsAreUnderstood ==
    nc_told = NothingTold =>
    /\ \A bytes \in SeqOf(NcBytes, 6) :
          LET sum == FoldLeftDomain(LAMBDA acc, n : acc + IF n % 2 = 1 THEN bytes[n] * NcByte ELSE bytes[n], 0, bytes) IN
          (sum + Word - 1 - chksum(bytes)) % (Word - 1) = 0 /\ chksum(bytes) < Word
    /\ \A pid \in NcPids, other \in NcPids, timeout \in NcTimeouts, late \in 0 .. 2 :
          LET mine == Echoed(os_send_echo(pid, 0))
              strays == IF "stray" \in NcUnusual THEN <<Echoed(os_send_echo(other, 1))>> ELSE <<>>
              arrives == [n \in 1 .. late |-> Nothing] \o strays \o <<mine>> IN
          pid < Word \/ "pid" \in NcUnusual =>
              artik_get_online_status(nc_os, pid, timeout, arrives) = IF timeout = 0 \/ late <= timeout THEN "online" ELSE "timeout"
    /\ \A pid, other \in NcPids :
          os_check_echo_response(nc_os, Echoed(os_send_echo(other, 0)), pid, 0) => pid % Word = other % Word
    /\ \A c \in {c \in NcConfigs : check_dhcp_server_config(c)}, asked \in {0, 1, 4, 9} :
          LET empty == [f \in {"type", "server", "time", "mask", "router", "dns"} |-> "unknown"]
              offered == dhcpc_parseoptions(empty, dhcpd_sendack("offer", c, asked))
              given == dhcpc_parseoptions(offered, dhcpd_sendack("ack", c, asked)) IN
          /\ given.type = "ack" /\ given.server = c.addr /\ given.mask = c.mask /\ given.router = c.gw
          /\ given.dns \in ToSet(c.dns)
          /\ given.time \in MinLease .. MaxLease /\ (asked \in MinLease .. MaxLease => given.time = asked)
=============================================================================
