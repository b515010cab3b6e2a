# Verification of the ARTIK SDK

TLA+ specifications of the ARTIK SDK, the TLC runs that check them on small
instances, and proofs that TLAPS checks for every instance: about the module manager,
both event loops, the websocket, HTTP, MQTT and CoAP clients and servers, the DHCP
server, the cloud module, the online watches, Bluetooth, Wi-Fi, LWM2M, the secure
element, the peripherals and ZigBee. Paths below are relative to `src/` of
the repository; `PROJECT.json` maps every definition to the lines that it models, and
lists the runs, the mutants that show what each property depends on, the findings, and
the hazards that the properties are aimed at.

## 1. The system

The SDK is a C library of *modules*, tables of functions that an application
gets by name (`artik_request_api_module("http")`) and gives back when it is done.
A module is a thin wrapper (`artik_*.c`) over an implementation for the platform
(`linux_*.c`, `tizenrt_*.c`). Most modules keep a list of handles in a static
variable without a lock and are driven by callbacks of the *loop module*: the
SDK is written for one thread that runs the loop and calls the modules, and what
is hard in it is the order in which callbacks, timers, removals and answers
meet.

| part | state | operations | depends on | hard |
|---|---|---|---|---|
| module manager | list of requested modules, handles of shared objects, mutex | request, release | dynamic linker | called by any thread; first call initialises the mutex; failed loads |
| event loop (Linux) | GLib sources, each with a wrapper | add and remove timeout, periodic, watch, idle, signal; run, quit | GLib | removal inside a callback, starvation, life of the wrapper |
| event loop (TizenRT) | four vectors of structures, four wrapping counters | the same without signals | libuv | ids read from freed structures, ids reused after a wrap |
| websocket client | interface, node per connection, eventfds, message slots, ping timer | open, write, set callbacks, close | loop, libwebsockets, security | late events, reused addresses, one slot per direction |
| HTTP client (Linux) | mutex, interface per asynchronous request | get, post, put, delete, get_stream, each also asynchronous | loop, libcurl, security | threads, error returns under the mutex, shared engine |
| HTTP client (TizenRT) | a request with its socket and parser | the same | sockets, mbedTLS, a thread per asynchronous request | a response cut anywhere, redirections, who frees the arguments |
| MQTT client | list of clients, handlers in the loop, certificate files | create, connect, publish, subscribe, disconnect, destroy | loop, libmosquitto | handlers that outlive their client, calls in callbacks |
| CoAP (Linux) | list of handles, session, idle callback, options of the latest request | connect, send, observe, start, notify, stop | loop, libcoap | nacks, calls in callbacks, block transfers |
| CoAP (TizenRT) | the same and a copy of libcoap: send queue, sessions with references, observers | the same | a service thread per context | times relative to the predecessor, sessions freed under their users |
| network: online watches | list of watches, timers, raw socket; a thread on TizenRT | add, remove | loop, netlink, resolver, threads | replies against timeouts, network changes during a probe, adding while the thread ends |
| network: DHCP | server's table of leases; clients with lease and renewal timer | start, renew, stop | loop, sockets | lost and repeated messages, two clients and one address |
| security | handles, library of the secure element, OpenSSL engine and its count | request, release, load, unload, cryptography | secure element | failed requests, shared engine |
| cloud | references to the modules it uses, the streams | REST calls, device registration, streams | http, websocket, security | a reference per answer, calls in callbacks |
| LWM2M client | client, its state and its service (a thread on TizenRT, idle callbacks on Linux) | request, connect, write, notify, disconnect, release | loop, threads, Wakaama | the client ends itself while it is used |
| Wi-Fi | mode, control connections, scan results | scan, connect, disconnect, callbacks | wpa_supplicant, driver's thread | end of wpa_supplicant, results while others are taken |
| Bluetooth | D-Bus subscriptions, one state for all devices, GATT objects | scan, bond, connect, GATT server, profiles | BlueZ | signals of other devices during a bonding, ids used again |
| peripherals | handle per device, descriptors, sysfs entries, watches; a polling thread on TizenRT | request, read, write, callbacks, release | kernel, loop | half-made requests, watch after release |
| time | the process's time zone, alarms | read and set the clock, alarms, synchronise, convert | C library, loop | a zone for all threads, alarms that are deleted |
| network: addresses | interfaces, routes, name servers of the system | set and read, DHCP on and off, echo packets | kernel or lwIP | half-made configurations, packets read as they were not meant |
| websocket and MQTT clients (TizenRT) | structures shared with a library's thread | open, write, close; create, connect, disconnect, destroy | the library | memory freed under the thread, callbacks not set yet |
| ZigBee | the local endpoint of the last call | commands, scan, bindings, reset | a ZigBee library outside the repository | checks of clusters, a reset in five calls |
| sensors, media, log, utils | handles of the layer below | read; play; format | peripherals, GStreamer, C library | little of their own |

What makes the parts correct, in one line each: a module stays loaded while
somebody holds it; a callback is called until it is over and never afterwards;
whoever registers a callback over a heap block removes it before the block goes;
a request is answered or reported, once; a connection that ends is reported;
what belongs to one handle is not changed by another one.

## 2. Modules and how they correspond to the code

| module | models | run |
|---|---|---|
| `ModuleManager` | `base/module/linux_module.c`, `inc/base/artik_list.h` | `manager`, `manager_returns` |
| `ModuleRefs` | what the manager promises: reference counting | `manager` (refinement) |
| `LinuxLoop` | `base/loop/linux_loop.c` | `linux_loop` |
| `EventLoopApi` | what `inc/base/artik_loop.h` promises | `linux_loop` (refinement) |
| `TizenRtLoop` | `base/loop/tizenrt_loop.c` | `tizenrt_loop` |
| `WebSocket` | `connectivity/websocket/linux_websocket.c`, `artik_websocket.c` | `websocket` |
| `HttpClient` | `connectivity/http/linux_http.c` and the engine of `base/security/linux_security.c` | `http` |
| `MqttClient` | `mqtt/linux/mqtt_client.c` | `mqtt` |
| `OnlineWatch` | `connectivity/network/linux_network.c`, lines 373 to 756 | `online_watch` |
| `CoapHandles` | `coap/linux/linux_coap.c` | `coap` |
| `CoapQueue`, `CoapServer`, `CoapClient`, composed in `MCTizenRtCoap` | `coap/tizenrt/coap.c`, `coap_session.c`, `coap_socket.c`, `coap_resource.c`, `tizenrt_coap.c` | `tizenrt_coap` |
| `Dhcp` | `connectivity/network/netutils/dhcpd.c`, `dhcpc.c`, `linux_network.c` from line 756 | `dhcp` |
| `Security` | `base/security/linux_security.c` | `services` |
| `Wifi`, `TizenRtWifi` | `wifi/linux` (`linux_wifi.c`, `wifi.c`, `wpas/wpa_cli.c`), `wifi/tizenrt` | `services` |
| `Lwm2m` | `lwm2m/tizenrt_lwm2m.c`, `lwm2m/linux_lwm2m.c` | `services` |
| `BtLink`, `GattServer` | `bluetooth/linux` (`core.c`, `device.c`, `adapter.c`, `bt.c`; `gatt_server.c`) | `services` |
| `BtFtp`, `BtProfiles`, `BtRemote` | `bluetooth/linux` (`ftp.c`; `agent.c`, `spp.c`, `a2dp.c`, `advertisement.c`; `pan.c`, `gatt_client.c`, `avrcp.c`) | `services` |
| `TizenRtSecurity` | `base/security/tizenrt_security.c`, `tizenrt/mbedtls_pkcs7_parser.c` | `services` |
| `Zigbee` | `zigbee/artik_zigbee.c`, `linux/linux_zigbee.c` | `services` |
| `CoapTransport` | `coap/tizenrt/coap_session.c`, `coap_socket.c`, `coap_dtls.c`, reading and sending of `coap.c` | `services` |
| `Clocks` | `base/time/linux_time.c`, `tizenrt_time.c` | `services` |
| `TizenRtClients` | `connectivity/websocket/tizenrt_websocket.c`, `mqtt/tizenrt/mqtt_client.c` | `services` |
| `NetConfig` | `connectivity/network` (`linux_network.c`, `tizenrt_network.c`, `common_network.c`, `netlib.c`, `dns_utils.c`, the options of `dhcpd.c` and `dhcpc.c`) | `services` |
| `Cloud` | `connectivity/cloud/artik_cloud.c` | `services` |
| `WebClient` | `connectivity/http/tizenrt` (`webclient.c`), `tizenrt_http.c` | `services` |
| `TizenRtWatch` | `connectivity/network/tizenrt_network.c` | `services` |
| `Peripherals` | `systemio/*/linux_*.c`, `tizenrt_*.c`, `artik_*.c` | `services` |
| `CoapMessages`, `CoapConnect`, `CoapResources` | what CoAP messages are made of: `coap/tizenrt/tizenrt_coap.c`, `coap.c`, `coap_resource.c`, `coap_uri.c`, `coap_session.c`, `coap/linux/linux_coap.c` | `services` |
| `MCServices` | puts the modules from `Security` on in one run | `services` |
| `ModuleManagerProofs`, `CoapHandlesProofs` | theorems about the module they are named after, with their proofs | TLAPS |
| `ClientsProofs` | theorems about `HttpClient`, `WebSocket` and `MqttClient` | TLAPS |
| `LinuxProofs` | theorems about `LinuxLoop`; invariants of `BtLink`, `GattServer`, `BtFtp`, `BtProfiles`, `BtRemote` and `CoapTransport` | TLAPS |
| `ServicesProofs` | invariants of `Wifi`, `TizenRtWifi`, `Lwm2m`, `Security`, `TizenRtSecurity`, `Peripherals`, `Zigbee`, `TizenRtClients`, `TizenRtWatch`, `Clocks` and `NetConfig` | TLAPS |
| `MCServicesProofs` | theorems about `MCServices`, from the invariants of `LinuxProofs` and `ServicesProofs` | TLAPS |
| `NetworkProofs` | theorems about `OnlineWatch`, `Cloud` and `Dhcp` | TLAPS |
| `TizenRtProofs` | theorems about `TizenRtLoop`, `CoapQueue`, `CoapServer` and `CoapClient` | TLAPS |

Variables have the names of the C variables or fields where there is one.
Libraries (GLib, libuv, libcurl, libwebsockets, libmosquitto, libcoap, the
dynamic linker) are modelled by what the code of the SDK relies on.

**ModuleManager.** Each thread goes through `mutex_lock()` in three steps (test
`lock_initialized`, initialise, lock), so that the race of two first calls is in
the model; the body under the mutex is one step. `requested_node` is the list as
a sequence of names; a node left by a failed request is `NoName`, and a walk that
meets it faults (`crashed`). Actions: the calls, a release of a module nobody
holds (`CallStrayRelease`), the lock, and one action per outcome of the bodies.

**LinuxLoop, EventLoopApi.** A registration is the id of its GLib source. An
iteration collects the ready sources of the highest priority in `batch`; they are
dispatched one by one; a source destroyed meanwhile is skipped; the wrapper is
freed by the destroy notification. `EventLoopApi` is the life of a registration:
new, armed, called, leaving, over.

**TizenRtLoop.** `vector[k]` is the vector of each kind, `next_id[k]` its counter.
A structure that is done is zeroed, freed and then read for its id; the outcome
modelled is the one of an allocator that leaves the zeroes in place. The `id` of
an idle structure is uninitialised in the code: any value.

**WebSocket.** One handle opened again and again. `link[w]` is the connection
object of libwebsockets at address w, `nodes` the list that marks connections
with errors, `efd` the eventfds, `send_message` and `receive_message` the two
slots. Every event of `lws_callback`, every watch and both timers are actions.

**HttpClient.** A request is a walk of its thread through `mutex_lock()`, the
transfer and the release of the engine, in the order of each function: get_stream
and post give the engine back under the mutex, get, put and delete after it.
Asynchronous requests are idle callbacks of the loop's thread. `Load`, `Release`,
`ReleaseTests` and `ReleaseFrees` are the engine's functions, which have no lock.

**MqttClient.** `regs` are the handlers in the loop, each with the id and the
address of its client. The handler's error path may reconnect inside the callback
of an `Impatient` application, or destroy the client.

**OnlineWatch.** A watch has a timer that `timeout_echo_id` names and `forgotten`
ones that are in the loop without a name; replies travel with their sequence
number modulo `SeqWrap`.

**CoapHandles.** Clients and servers with the heap block (`coap_data`) and the
idle callback that drive them. libcoap calls `message_handler` and
`nack_handler`; each is two steps, so that the application's calls can fall into
the callbacks that it makes. `optlist` and `method` hold the number of the request
whose options and method the handle keeps.

**CoapQueue, CoapServer, CoapClient.** `sendqueue` is the list whose nodes hold
times relative to their predecessor; `due` is the time that was asked for. A
server has its service thread, the sessions of its endpoint (`ref`, `live`), the
observers of one resource and the notifications that wait; peers send what they
like. A client has the sessions of its connections and what it sent on them. Each
of the three is the whole of a behaviour (`focus` in `MCTizenRtCoap`): they share
no context.

**CoapMessages, CoapResources.** Options go from an application into a
packet and out of one, on both platforms: text as the parts between separators,
numbers as bytes that are loaded, swapped and reported. A TizenRT client keeps path,
query and options of a request for the requests of its next blocks. The listing of
resources is printed from an offset for every block; text is a sequence of symbols.

**CoapConnect, CoapResources.** The URI of a configuration is taken apart
in place and leads to a session with its socket, keys and DTLS session. A request
finds a resource by the hash of its path, the hash being the joined segments, and
is answered or not according to what the callback returns. Raw keys are found by
stepping through the DER of a certificate and a private key, with the real tags and
short numbers.

**Dhcp.** The server's table, its socket and its ping before it gives an address
out; clients that repeat DISCOVER and REQUEST a bounded number of times, take the
first answer, decline what they did not ask for and renew by a timer; devices with
other software; loss of any message.

**Security.** The list of handles, the library of the secure element that the
first handle opens, what the device stores, and the three calls of a verification.

**Wifi, TizenRtWifi.** On Linux wifi.c keeps a copy of one of the two control
connections of wpa_cli.c; the copy is compared with what is open. Profiles are
found by substring, so names can be part of each other (`Inside`). On TizenRT the
driver's thread writes the scan results that the application takes: reading and
writing the pointer and the count are steps apart.

**Lwm2m.** The service of a client by a thread with a recursive
mutex, and by an idle callback together with those that carry events.

**BtLink, GattServer.** Signals of BlueZ wait in a queue while calls are made;
`hci.state` is one for all devices. `view` is what the application was told. In the
GATT server an id is the length of the list the element joins, and paths are made
of ids; addresses tell objects apart.

**Cloud.** Every call counts the references it takes from and gives back to the
module manager; the secure registration is three answers deep. The HTTP and the
websocket client are reduced to what this module sees of them.

**WebClient.** A response is a sequence of symbols that arrives in pieces of any
length, and the parser goes over each piece as the code does, with the state it
keeps between two of them.

**TizenRtWatch, Peripherals.** The thread that pings, created by the first watch
and joined by the removal of the last, and the thread that polls a pin: what is
read before the lock or after the unlock is a step of its own.

**Peripherals.** One table of descriptors, the lowest free one is opened; behind
every handle are the descriptors, sysfs entries and watches that its request made,
with each failure on the way. `pe_os` is the platform: on TizenRT (names with `Rt`)
a descriptor is the whole of the data. I2C and SPI have a relation of their own
(`BsNext`): a slave is registers and the number of the one it is at, which the
messages of a call (`bs_slave`) move and fill as the call means it (`bs_meant`).

**BtFtp, BtProfiles, BtRemote.** obexd's process with its sessions and transfers,
whose signals and answers arrive in order and are joined with what the module keeps;
the objects that BlueZ calls, exported and registered in the order of each file; what
is kept of objects of remote devices, which change by themselves. `bo_kind` tells which
of three files with one shape a behaviour is about.

**TizenRtSecurity.** Handles share one device, and storage has data of a length; a
signature is a record of the fields that the parser goes through and the verification
compares, so that those which differ from a right one in one field are tried.

**Zigbee.** Every call is made or refused by the clusters of the local endpoint; the
library has network, scan, bindings and reports, and may fail at each.

**CoapTransport.** The endpoint of a DTLS server reads the datagrams of all its peers
from one socket: a session is an association, which its peer may begin anew; a client's
session sends and is answered over lossy datagrams, by UDP or DTLS.

**Clocks.** Time is counted in hours of a small calendar (`CkHours`, `CkMonths`,
`CkWord`): the zone is one variable of the process on Linux, and an addition of hours,
with its carries, on TizenRT.

**TizenRtClients.** A library's thread calls back until its connection has ended; the
handle's structures are freed by the application's calls.

**NetConfig.** A configuration is a sequence of calls of the system, of which the first
that fails ends it; the state is what the system has then. Packets are built and read
as sequences of bytes: an echo's checksum is added up as the code does, with words of a
byte's size `NcByte`.

## 3. What the runs show

Runs that pass:

- **manager** (2 threads, 2 modules, up to 2 references per thread): an object is
  open exactly while a node refers to it (`OpenedIffListed`) and while somebody
  holds it, with one thread at a time in the bodies (`HeldModulesAreLoaded`); every
  path unlocks (`LockIsReturned`); the list implements reference counting
  (`ImplementsRefs`). Two threads and two names are what it takes for one thread to
  release what another shares, and for a walk to pass a node of another name. The
  specification is `OrderlySpec`: the first call of the process returns before a
  second thread calls (the code initialises its mutex without protection), and
  nobody requests what another thread is releasing without holding it.
- **linux_loop** (3 registrations of any kind): a wrapper is allocated as long as
  it is used and freed afterwards (`WrapperLives`), the loop implements
  `EventLoopApi` (`ImplementsApi`), idle callbacks cannot starve timeouts
  (`TimeoutsAreCalled`). Three registrations: one being called, one it removes, one
  that must not notice.
- **tizenrt_loop** (3 registrations, counters that wrap at 2): the vectors hold
  exactly the active structures and what was removed is not called
  (`VectorsHoldActive`); a registration with an id other than 0 is not ended by
  another and a timeout is called (`OthersKeepRunning`). A wrap at 2 makes ids
  repeat among three registrations, as a wrap at 255 does among 256.
- **websocket** (2 addresses, 2 messages per direction, 2 streams): no timer
  survives a close (`TimersEndWithStream`), messages keep their order (`InOrder`),
  no write is accepted for a destroyed connection (`AcceptedOnlyWhileConnected`),
  the end of a connection is reported (`EndIsReported`). Two streams over two
  addresses make both a reused and a fresh address happen.
- **http** (1 application thread and the loop, 2 asynchronous requests, 2
  synchronous calls): no two threads are in libcurl and the engine is loaded while
  a connection uses it (`EngineDuringTransfer`), an asynchronous request is
  answered exactly once (`AnsweredOnce`, `AsyncAnswered`). Requests with the secure
  element are made in the loop's thread only.
- **mqtt** (2 clients, one with TLS, one impatient, 4 connections): no handler
  outlives its client and certificates stay (`ClientsAreSeparate`), losses are
  reported (`LossIsReported`), handlers left behind end (`StrayHandlersEnd`).
- **online_watch** (2 watches of 2 hosts, sequence numbers modulo 3, 2 changes of
  reachability): one timer or lookup per watch and nothing left of a removed one
  (`OnePhase`), and the status becomes and stays right (`BecomesRight`). Two changes
  give up, down and up again; three numbers tell the latest request from the
  previous one.
- **coap** (1 client, 1 server, 2 requests whose tokens are used again and again,
  2 blocks): an active handle has one idle callback, others none, over live memory
  (`DriverAlive`); a block request continues its own transfer
  (`ContinuesItsRequest`); confirmable requests are reported (`RequestReported`) and
  changes notified (`ChangeNotified`). Two blocks are two connections, or one and a
  server: a stale block can meet a new one.
- **tizenrt_coap** (3 messages with timeouts of 1 and 2; 2 peers, 2 message ids, 1
  retransmission; 3 connections): the relative times of the send queue add up to the
  times asked for (`OnTime`); references to sessions are exact on the server
  (`RefsExact`) and on the client (`SessionsHeld`); a change reaches every observer
  (`ObserversSeeChange`). Three messages are the least for one in the middle to
  leave; an idle limit of 1 makes the second peer evict the first.
- **dhcp** (2 clients, another device, 2 addresses, 2 repetitions): no address is
  leased to two clients, and a device has one entry (`NoSharedAddress`). Clients are
  symmetric. Two addresses and three devices make the table overflow.
- **services** (bounds in `Services.cfg`): the parts that share no state, one in each
  behaviour (`focus`); a property has a conjunct for each part it speaks of, which is
  looked at in the behaviours of that part. Every handle of the secure element whose request succeeded has its
  device, which is gone with the last one (`SecurityIsExact`: `DeviceServesHandles`,
  `DeviceIsShared`); wifi.c's connection is the open one and scan results have one owner
  (`WifiIsExact`); an LWM2M client is serviced exactly while it exists
  (`Lwm2mIsServed`); Bluetooth's events converge to the present links and bonds, a GATT
  path leads to the object with its ids, the end of a transfer is told, registrations
  are BlueZ's, and what is kept of a device is what it has (`BluetoothIsTold`: eight
  parts); the cloud's references match the answers it owes (`HeldForAnswers`); a watch on
  TizenRT has its thread, and a library's thread finds its client (`ClientsAreExact`:
  `WatchIsServed`, `StreamsAreServed`, `ClientsAreServed`); a DTLS server's sessions are
  the associations of its peers, and what a client accepted was sent (`PeersAreServed`:
  `SessionsAreCurrent`, `AcceptedIsSent`); descriptors, watches and threads of peripherals
  have their handle, buses carry what was meant and ZigBee's calls fit the endpoint
  (`DevicesAreOwned`: `HandlesOwnFiles`, `TransfersAreExact`, `ThreadHasPin`,
  `CallsMatchEndpoints`); interfaces are as configured and the clock is right in its zone
  (`SystemIsKept`: `ConfigIsExact`, `ServersAreAddressed`, `ClockIsRight`); and data say
  what they mean (`MessagesAreExact`): CoAP options, continued requests and listings
  arrive as they were meant, echoes and the answers of DHCP servers are understood
  (`PacketsAreUnderstood`), dates survive their conversion (`ConversionsAreInverse`),
  connections, requests and keys belong to whom they should, a body is
  delivered however the response is cut, and signatures are accepted exactly when they are
  right. Each bound
  lets something be released, its number be used again and a third party look on: two
  handles and a third request, names of which one is in the other, lists of two; a
  calendar of four hours and three months has every carry.

Run that ends in a violation, a disagreement between code and documentation
(section "findings" of `PROJECT.json` quotes both):

- **manager_returns**: a request whose shared object is missing leaves a node of
  NULL pointers, and the next call that walks the list faults.

Three more disagreements are in the models, as conduct the code has:
a TizenRT timeout that ends cancels the one with id 0 (`tizenrt_loop.c:301` against
`artik_loop.h:98`); a second websocket write replaces the first message
(`linux_websocket.c:984`); of two watches of one host only the first sees replies
(`linux_network.c:492`).

Deadlock is not checked: an application may stop calling, and the counters of
calls, connections and messages are bounded in the guards.

### Fairness

- threads inside the manager or a request go on (`WF` on their steps): nothing in
  the SDK suspends a thread; callers need not call.
- the loop dispatches what is ready, callbacks return, timers expire (`WF`). On
  TizenRT calls have `SF`: libuv calls every due timer in each iteration, and a
  callback in progress only delays it.
- websocket, MQTT, online watch: `WF` on the loop's callbacks only. The peer and
  the network owe nothing, except that a lookup ends and, in `OnlineWatch`, an
  echo reply that is on its way arrives.
- HTTP: a transfer ends, since libcurl gives up in the end.
- CoAP: `SF` on libcoap's answer or nack for each request (its retransmission
  timer expires, and one of the repeated calls of the idle callback handles it)
  and on the server's idle callback.
- TizenRT CoAP server: the service thread goes on (`WF` on the end of a round of
  notifications), and comes to the queue and to each observer in every turn (`SF`:
  the turn may find the queue empty or the send may fail, but not for ever).
- DHCP and the services are checked for invariants only.

### What holds only under a condition

The models have a constant (`Unusual`, `Impatient`, `SeThreads`, `SelfRemoval`,
`Orderly`, in the later modules a prefix and `Unusual`) for conduct that the code does not withstand; the passing runs state
the condition, and changing the constant gives the counterexample.

- manager: two first calls in two threads race for the mutex.
- TizenRT loop: quit does not end the run; the id of an idle callback is never
  assigned, so that removing one may remove another or none.
- websocket: the slot of received messages is overwritten; an address that is
  used again is refused for writing if its predecessor failed; a pong timeout of 0,
  or a late loop ("stall"), lets the timeout ping a destroyed connection; a failed
  connect leaves the idle callback registered.
- HTTP: the count of the engine drifts below the number of users when TLS is
  never reached; with users in two threads the engine can be freed under one of
  them; get_stream_async keeps pointers into the caller's headers; a request made in
  a stream callback waits for its own mutex.
- MQTT: two TLS clients share their files; reconnecting in the error callback
  leaves handlers behind for a while. Two ways end in freed memory, after which the
  model makes no step (`undefined`): a failure of `mosquitto_new` leaves a freed client
  in the list, and the handler writes the id of a client that is destroyed in the error
  callback (`mqtt_client.c:612`, also `:603`, `:620`, `:628` and `:651`).
- online watch: a reply after its timeout, removal during a lookup.
- CoAP: connect, disconnect or destroy inside the callback of a nack, destroy
  inside that of a response ("in_nack", "in_message"): double free, stray idle
  callback, use of the freed node. Several requests at a time, or late responses
  ("pipelines", "late"): block requests carry another request's options. After a
  nack the session is still set and requests are accepted that nothing drives.
- TizenRT CoAP: a change during a round of notifications ("midway") is lost for
  observers already served; disconnecting with requests in the queue ("late") leaves
  them to a session nobody names.
- CoAP messages: a query of separators only ("separators") is reported as a part; on
  TizenRT the first bytes of a pointer are reported as the value of an accept option
  ("accept", `tizenrt_coap.c:765`), where `artik_coap.h:88` says it is a number. On
  Linux an observe option is sent without its data (`linux_coap.c:200`), and so
  `Expected` says;
  requests between the blocks of another, without a callback or with a path among
  their options ("mixed", "uncalled", "options") leave their target to the next one; a
  second connect with a URI that has a port or brackets ("again") reads what the first
  has cut; paths that differ only in their slashes ("collide") share a key; an observer
  that registers again ("renew") has its query freed twice; keys without a public part
  or with a compressed point ("bare", "compressed") are misread.
- DHCP: a device that does not answer a ping ("silent"), or a server that is
  restarted, and forgets its table, during an exchange ("restart").
- LWM2M: release or connect after an event ended the connection and before its
  thread did ("early"); connect twice ("again"); release while a source refers to
  the node ("busy"); an event whose callback runs before its id is stored ("thread").
- Wi-Fi: the copy of the control connection is out of date from the end of
  wpa_supplicant until the next initialization (the invariant excludes that time);
  on TizenRT results that arrive while others are taken ("race").
- Bluetooth: another link changes during a bonding ("others"), bonding over an
  existing link ("linked"), a bonding that fails without a link ("nolink"), removal
  or scan during a bonding ("removed"), init after deinit ("again"): the one state
  for all devices hides the signal. GATT: an object added after the last one of its
  kind was removed ("again") meets introspection data that were freed.
- Cloud: a handle that is not known ("unknown"); messages before the registration
  has left ("burst"), a consequence of the websocket's one slot.
- TizenRT watches: calls of two threads ("race"), an unknown handle ("unknown"), a
  failure of the first add ("fails", "nomem") that keeps the mutex or leaks.
- Peripherals: release with a callback set ("watched"), a second callback
  ("twice"), unsetting that of a serial port ("unset"), a failure in the middle of a
  PWM or ADC request, or of TizenRT's PWM release, which keeps the handle without its
  descriptor ("pwmfails", "adcfails"), fewer ADC samples than channels ("short");
  TizenRT GPIO: "watched", "fails". TizenRT's buses: reads and writes return counts
  ("counts"), registers of 16 bits ("words") take twice the caller's length, a driver
  that starts anew for a second message ("restarts") writes the wrong register, a second
  SPI bus ("buses") takes over the first one's transfers.
- Bluetooth's file transfers: a second session ("retry", "swift"), transfers that meet a
  cancelled one or each other ("again", "crowd", "overlap"), one that begins before the
  end of the last was heard ("hasty"), a failure while suspended ("dropped"). Agent,
  endpoints, advertisements: a refusal of BlueZ or its restart ("refused", "restart"),
  registering twice or otherwise ("twice", "other", "several"), calls before the export
  ("early"), without callbacks ("silent") or after the transport was cleared ("stale").
  Remote objects: an address that connect has cut ("reuse"), calls that fail ("refused",
  "failing"), devices that go or change by themselves ("lost", "elsewhere"), one UUID in
  two places ("same"), a list used too long ("keeps").
- security on Linux: a request made while the handle of a failed one is still listed
  ("unreleased") succeeds without a library or a device (`linux_security.c:572`).
- TizenRT security: no device ("missing"); reads behind the data or of none ("beyond",
  "absent"); several certificates of one issuer ("siblings"), a short one before another
  ("short").
- ZigBee: colours without their cluster ("color"), endpoints replaced under their
  reports ("replaced").
- TizenRT CoAP transport: a peer that begins anew or closes ("same", "closes"), a stop
  with sessions ("stop"), sends that fail ("sendfails", "refused"), a server that closes
  ("alert").
- time: two threads ("threads"); alarms far away, deleted early or pending while the
  clock is set ("long", "delete", "set"); timestamps or a long of 32 bits ("far",
  "small"); TizenRT's zone on another date, or set in ("midnight", "zone").
- TizenRT websocket: no certificate with the secure element's key ("credentials"), memory
  used by another thread ("reuse"), calls on open or closed streams ("twice", "released",
  "again"), a thread that goes on ("late"), an end before the callback is set ("early").
  TizenRT MQTT: an unknown handle ("unknown"), destroying in a callback ("inside"), a will
  ("will"), credentials with optional verification ("optional").
- network: a call of the system that fails ("fails"), a configuration set again
  ("again"), two interfaces ("both"), interfaces under a DHCP server or lease ("under"),
  two servers or users of the client ("servers", "users"), name servers on TizenRT
  ("names", "slots"), process ids above 16 bits ("pid"), others' echoes ("stray").

Known limits of the code that no property states, because the code makes no claim
they would contradict:

- TizenRT loop: quit goes on while handles are active (`tizenrt_loop.c:421`); a
  timeout that removes itself ends in a stop of a NULL handle (`:296`).
- HTTP: a request inside a stream callback waits for its own mutex
  (`linux_http.c:382`); the model's stream callbacks make no requests.
- DHCP: the renewal timer survives a stop (`linux_network.c:1046`); a renewal is
  made with the list node in the place of the connection, and so never succeeds
  (`:821`, phase "broken" in the model); the timer's delay wraps for leases of 30
  seconds or less, or of more than 49 days (`:890`, excluded by `DhcpAssumption`).
- TizenRT CoAP: a nack joins the thread it runs in (`tizenrt_coap.c:1690`); a
  cancelled message takes its share of the relative time with it, so that its
  successors are sent too early (`coap.c:1566`; `OnTime` asks that none is late).
- TizenRT security: copying from stored data trusts the offset
  (`tizenrt_security.c:763`, excluded by "beyond"); a DHCP server started twice takes its
  own address away (`tizenrt_network.c:149`, excluded by "servers").
- Wi-Fi: a `wifi_initialize` that failed is final (`wifi.c:547`).
- LWM2M: a callback that disconnects waits for its own thread
  (`tizenrt_lwm2m.c:609`); callbacks make no calls in the model.
- TizenRT HTTP: a server that closes early makes a request succeed with a part of
  the body (`webclient.c:806`).

## 4. What is proved

Every theorem is about all values of the constants that the module's `ASSUME` admits
(finite sets of threads, clients or peers where something is counted, positive limits,
names that are not each other). Most of them are of the form `Spec => []Inv`; the
hypothesis of a theorem, if it has one, is the condition under which the run is made
too (section 3 says what breaks without it).

| theorem | proves | if |
|---|---|---|
| `ModuleManagerProofs!OrderlyInvariant` | `TypeOK`, `OpenedIffListed`, `MutualExclusion` | `OrderlySpec` |
| `ModuleManagerProofs!HeldAreLoaded` | `HeldModulesAreLoaded` | `OrderlySpec` |
| `ModuleManagerProofs!ListImplementsRefs` | `ImplementsRefs`: the list refines `ModuleRefs` | `OrderlySpec` |
| `LinuxProofs!WrappersLive` | `WrapperLives` | |
| `LinuxProofs!LoopImplementsApi` | `ImplementsApi`: the loop refines `EventLoopApi` | |
| `TizenRtProofs!VectorsHold` | `VectorsHoldActive` | |
| `TizenRtProofs!NoneEndsAnother` | `EndsByItself`, the action part of `OthersKeepRunning` | |
| `ClientsProofs!MessagesInOrder` | `InOrder` | |
| `ClientsProofs!AcceptsWhileConnected` | `AcceptedOnlyWhileConnected` | |
| `ClientsProofs!NoTimerLeft` | `TimersEndWithStream` | a pong timeout between 0 and the period of the pings, or no pings; no "stall" |
| `ClientsProofs!EachAnsweredOnce` | `AnsweredOnce` | |
| `ClientsProofs!EngineStays` | `EngineDuringTransfer` | the secure element is used in the loop's thread only |
| `ClientsProofs!ClientsStaySeparate` | `ClientsAreSeparate` | at most one client with TLS |
| `NetworkProofs!OnePhaseInvariant` | `OnePhase` | no "same", "late", "hasty" |
| `NetworkProofs!ModulesHeldForAnswers` | `HeldForAnswers` | no "unknown", "burst" |
| `NetworkProofs!AddressesSeparate` | `NoSharedAddress` | no "silent", "restart" |
| `CoapHandlesProofs!HandlesDriven` | `DriverAlive` | no "in_nack", "in_message" |
| `CoapHandlesProofs!BlocksBelong` | `ContinuesItsRequest` | no "pipelines", "late" |
| `TizenRtProofs!QueueOnTime` | `OnTime` | |
| `TizenRtProofs!ReferencesExact` | `RefsExact` | |
| `TizenRtProofs!SessionsAreHeld` | `SessionsHeld` | no "late" |
| `MCServicesProofs!BluetoothTold` | `BluetoothIsTold` | `BtUnusual`, `GsUnusual`, `FtUnusual`, `BoUnusual`, `RmUnusual` empty |
| `MCServicesProofs!DevicesOwned` | `DevicesAreOwned` | `PeUnusual`, `BsUnusual`, `TgUnusual`, `ZbUnusual` empty |
| `MCServicesProofs!WifiExact` | `WifiIsExact` | TizenRT: no "race", "nomem" |
| `MCServicesProofs!Lwm2mServed` | `Lwm2mIsServed` | `LtUnusual`, `LlUnusual` empty |
| `MCServicesProofs!SecurityExact` | `SecurityIsExact` | Linux: no "unreleased"; TizenRT: no "missing", "beyond", "absent" |
| `MCServicesProofs!ClientsExact` | `ClientsAreExact` | `TwUnusual`, `SkUnusual`, `MqUnusual` empty |
| `MCServicesProofs!PeersServed` | `PeersAreServed` | `CtUnusual` empty |
| `MCServicesProofs!SystemKept` | `SystemIsKept` | `CkUnusual`, `NcUnusual` empty |

The hypotheses of the last eight are named `BtCalm`, `GsCalm` and so on in the proofs,
and say what `Services.cfg` gives the constants: each member of these sets is conduct that
breaks the property (section 3 has the list), or, as an allocation that fails, conduct
after which the code promises nothing. On Linux, `Wifi` needs none.

Where the property was not inductive, what was missing is the argument:

- **Module manager.** `LockInv`: a thread between the lock and the unlock holds the
  mutex, and until the mutex is initialised at most one thread is in the manager
  (otherwise the initialisation could reset a mutex that is held). A walk finds a name
  exactly when it is listed (`FoundIffListed`), an added node makes its name listed and
  no other (`AppendListed`), unlinking leaves the others (`UnlinkListed`). `CountInv`:
  the list has a node for each reference that was handed out and is not given back, and
  a module is released once too often only while nobody has a reference; so a release
  leaves the nodes of all others. For the refinement the list is seen as the number of
  nodes of each name: a body that adds or unlinks a node is the abstract step, every
  other step a stutter.
- **Linux loop.** Only an attached source is dispatched (`DispatchedOnce`). Then the
  life of a registration (new, armed, called, leaving, over) follows from its source,
  and every step of the loop changes it as one step of `EventLoopApi`, for all ways in
  which a callback removes itself or others.
- **TizenRT loop.** `LoopInv`: each vector holds the active structures of its kind once
  (`Kept`), the `id` field of one that is not idle is the number that was given out
  (`Numbers`), and a removed number is over (`AskedEnded`). That a cleanup takes out
  what it frees and leaves the order of the rest (`WithoutKeeps`) does not depend on the
  ids being different: no hypothesis about wraps is needed.
- **Websocket.** A message in a slot is newer than those that went through it
  (`SlotInv`); the oldest node with the address of a connection that is over is marked,
  also when the address was used again (`MarkInv`); `timeout_id` names the only pong
  timeout (`OneTimer`).
- **HTTP.** As long as the mutex is not initialised one thread at most has left "idle"
  (`MutexInv`); the request the loop's thread makes is that of a running interface
  (`AsyncInv`); the engine's count is bounded from above, and below the websocket's
  reference it lacks at most one for each asynchronous request that is over or giving
  the engine back (`CountInv`); a connection that uses the engine has loaded it, and
  with one user nobody else takes it away (`EngineInv`).
- **MQTT.** The two ids of a patient client name all its handlers (`Named`), so that
  destroying it removes them (`Owned`); files belong to the one TLS client that is
  there (`Certified`).
- **Online watches.** A reply that would end a probe is on its way only if the watch
  waits for it (`Awaited`), which holds although sequence numbers wrap and replies to a
  removed watch of the host may come: the numbers of the latest request and of the one
  before it differ.
- **Cloud.** The references of the HTTP module are the pending requests, the answer
  being given and the call in progress (`HttpRefs`, `Counts`); an application that knows
  of a connection has a stream whose slot holds the registration or that has sent it
  (`Registered`).
- **DHCP.** Four facts together are inductive. Only who listens has messages (`Quiet`);
  a device has one entry (`OneEntry`); an address that is acknowledged to a client, and
  perhaps still in its socket, is allocated for it or for nobody, and is no other
  client's (`Reserved`); the address of a bound client is leased to no other client
  (`Separate`). An entry that loses its owner (a client that declines, because it was
  slow, what it has just been granted) stays allocated until it expires, and afterwards
  the ping keeps the address: that is where the condition that devices answer is used.
  A REQUEST of a device without an entry clears the entry of another one if it has
  expired, which an entry reserved for a client has not.
- **CoAP handles.** A handle is driven when it is active or in `nack_handler`, and no
  two handles have one block (`DriverInv`); the options a client keeps are those of its
  outstanding request (`KeptInv`).
- **CoAP queue.** Times are relative, so the invariant is about the sums of prefixes
  (`Offset`): together with the base time they are when each node is due, or earlier
  once something was cancelled (`Timely`). Inserting adds the new node's share to the
  one before its successor (`InsertTimes`), removing gives the share on (`UnlinkTimes`),
  cancelling does not, and can only make sums smaller (`CancelTimes`).
- **CoAP server.** `RefsExact` is inductive as it stands: a session's references are
  its nodes in the queue and its observation. The work is in counting the nodes of a
  peer in a list from which one is removed, whose head is retransmitted, from which all
  nodes of a token are cancelled, and into which a round of notifications puts nodes at
  any places (`RemoveCount`, `TailCount`, `CancelledCount`, `EnqueueCount`; all by one
  lemma on order-preserving maps, `Recount`).
- **CoAP client.** All queued requests are of the present connection (`OfSession`), so
  that the one that is given up may release the connection's reference.

- **The services together.** A step of `MCServices` is one of the part in focus, and the
  others stay (`BaseFocus`, `BluetoothFocus`, `TizenRtFocus`): the invariant of that part
  is all that has to be kept. The parts are proved in `LinuxProofs` and `ServicesProofs`.
- **Bluetooth: links.** What the application knows of a device is what BlueZ has, or a
  signal waits that it will hear; a signal of the device that bonds is heard once the
  bonding has ended, and its end waits behind it (`BtInv`).
- **Bluetooth: GATT.** Ids of one list differ, a path is made of the ids of what holds the
  object and is exported (`GsInv`); an id that comes up again after a removal belongs to
  a path that is still exported, and the addition is refused.
- **Bluetooth: transfers.** The proof is about the queues of signals and answers: which
  kinds are in them, which follow which, that the last signal of a transfer tells its end
  and the removal of a transfer comes behind it (`FtInv`, from lemmas on `Has`, `Never`
  and `Follow`). It did not go through at first: a transfer that the application begins
  after obexd ended the last one, and before it heard so, loses its path to the removal of
  the last one (`core.c:877` compares no path). Then a third one can be begun while the
  second one's signals wait, and cancelling it is told of the second. The model excluded
  none of this, and its bounds were too small for TLC to meet it; "hasty" names it now.
- **Bluetooth: registrations and remote objects.** An object that is exported is the one
  that is kept (`BoInv`); one advertisement at a time is listed under its path (`AdInv`);
  what is asked for is listed, has an object and is the only one of its UUID (`GnInv`);
  the blocks of the list the application holds are there (`AvInv`).
- **Wi-Fi.** A connection is open only while the interface has a name, and profiles that
  a search finds by a part of their name come in the order of `Sorted` (`WifiInv`). On
  TizenRT who reads the saved results has what is saved, and while an array is filled the
  last one is nobody's (`TvTakes`, `TvSaves`).
- **LWM2M.** Threads are made in order and the last one alone may be alive; it has its
  node and client until it ends (`LtInv`). On Linux idle callbacks that wait have their
  node in the list (`LlInv`).
- **Security.** The device is initialised exactly while there are handles (`TsInv`).
- **Peripherals.** Every open descriptor is of one node, and exports and outputs of PWM
  channels are those of nodes (`PeInv`); an I2C slave and its application agree on the
  register it is at (`BsInv`); threads are made in order, a callback has a thread, and who
  joins one has it (`TgInv`).
- **Clients on TizenRT.** A stream that is not freed is the one of its handle (`SkInv`);
  the last report that waits says how the connection is, and if none waits the application
  knows (`MqInv`); a watch's data are there while there is a watch or its thread is being
  joined (`TwInv`).
- **CoAP transport.** An association both sides know is the latest one of its peer, and
  datagrams on their way are of no later one (`CtInv`). Here, and in `TizenRtSecurity`,
  guards of a CASE overlapped, which TLC resolves by their order and the language leaves
  open; they exclude each other now.
- **Clock.** The zone of the process is that of the only call in progress, so what a call
  computes is in its caller's zone; an alarm's timer is due when the clock reaches its
  date, whatever time has passed since (`CkInv`).
- **Network configuration.** The calls a function makes are spelled out (`Made`); each
  leaves a network that differs in one interface at most, and taking that one down or
  changing its address loses the default route over it, never the other's (`NcAlike`).
  An interface has one user at a time, and the table of leases is that of the one
  server (`NcInv`); the name servers that are read are those that were given. `NetConfig`
  assumed too little of the leases at first: the addresses they are made of are not
  empty.

`OnTime` and `RefsExact` need values of functions defined by recursion (`Offset`,
`Backoff`) and the place a search stops at. The proofs take induction from the
pigeonhole theorem of the library: a set of natural numbers that is not empty has a
least element (`LeastNatural`), hence a function with a recursive law exists, is unique
and is monotone (`RecursionExists`, `OffsetUnique`, `Climb`).

Only model-checked:

- liveness (`LockIsReturned`, `TimeoutsAreCalled`, the second part of
  `OthersKeepRunning`, `EndIsReported`, `AsyncAnswered`, `LossIsReported`,
  `StrayHandlersEnd`, `BecomesRight`, `RequestReported`, `ChangeNotified`,
  `ObserversSeeChange`): fairness and ENABLED are out of the prover's reach;
- `MessagesAreExact`: parsers, encoders and conversions, which compute over all of a
  message or a calendar; proofs would be induction over data.

## 5. Not modelled

Listed as components with their reasons in `PROJECT.json`. Left out for good:
logging, byte order and UUID helpers, wrappers that only forward (`artik_*.c`, C++
classes), system calls that read or set one value (levels of pins, the settings of a
serial port, an alias), tables of names (`assigned_numbers.c`), vendored code (the rest
of `wifi/linux/wpas`), the drivers of sensors (register reads and arithmetic), examples
and tests. Media is a layer over a library outside the repository that keeps all state.
Of CoAP on TizenRT the encoding of packets is left out; of Bluetooth the calls that read
or set one property over D-Bus; of the security module what an operation computes; of
TLS the setting up of contexts from a configuration, except for raw keys.

## 6. Plan

Possible further models: the setting up of TLS contexts in the websocket, HTTP and LWM2M
modules (which certificate is loaded from where, and what an error leaves); the objects
of LWM2M; the control interface of wpa_supplicant, whose late replies are taken for the
next request's.

Theorems worth proving next: `RequestsReach` of `CoapResources`, the one part of
`MessagesAreExact` that is about states. What parsers and conversions compute stays with
TLC.
