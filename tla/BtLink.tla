------------------------------- MODULE BtLink -------------------------------
(***************************************************************************)
(* Links and bonds of Bluetooth on Linux: the calls (bluetooth/linux/      *)
(* device.c, adapter.c, bt.c) and the signals of BlueZ that become events  *)
(* of the application (core.c).                                            *)
(*                                                                         *)
(* BlueZ is external: it knows devices, makes and loses links, bonds, and  *)
(* sends a PropertiesChanged signal of every change over D-Bus, in order.  *)
(* Calls and the handling of signals are steps of one loop, signals wait   *)
(* meanwhile.  hci.state is one for all devices.  The application has set  *)
(* its callbacks for BT_EVENT_BOND and BT_EVENT_CONNECT.                   *)
(***************************************************************************)
EXTENDS Naturals, Sequences

CONSTANTS BtDevs,         \* remote devices
          BtMaxSignals,   \* bound of the signals that wait
          BtMaxRefs,      \* bound of refcnt
          BtUnusual       \* "others": another link changes during a bonding
                          \* "linked": bonding of a device that has a link
                          \* "nolink": a bonding fails before there is a link
                          \* "removed": a device is removed, or a scan begun,
                          \*   during its bonding
                          \* "again": init after deinit

ASSUME BtAssumption == BtMaxRefs \in Nat /\ BtMaxSignals \in Nat

VARIABLES refcnt,
          subscribe_ids,  \* hci.subscribe_ids: "null", "table", "freed"
          hci_state,      \* "idle", "pairing", "connecting"
          scanning,       \* BlueZ: Discovering
          known,          \* BlueZ: the devices it has an object of
          linked, bonded, \* BlueZ: Connected, Paired
          pairs, conns,   \* BlueZ: calls of Pair and Connect in progress
          signals,        \* signals that were not handled yet
          view            \* what the events told the application of each device

btvars == <<refcnt, subscribe_ids, hci_state, scanning, known, linked, bonded,
            pairs, conns, signals, view>>

BlueZ == <<scanning, known, linked, bonded, pairs, conns>>

Property(d) == [connected |-> d \in linked, paired |-> d \in bonded]

NoProperty == [connected |-> FALSE, paired |-> FALSE]

BtTypeOK ==
    /\ refcnt \in 0 .. BtMaxRefs
    /\ subscribe_ids \in {"null", "table", "freed"}
    /\ hci_state \in {"idle", "pairing", "connecting"}
    /\ scanning \in BOOLEAN
    /\ known \subseteq BtDevs /\ linked \subseteq known /\ bonded \subseteq known
    /\ pairs \subseteq known /\ conns \subseteq known
    /\ signals \in Seq([dev : BtDevs, key : {"Connected", "Paired"}, val : BOOLEAN])
    /\ view \in [BtDevs -> [connected : BOOLEAN, paired : BOOLEAN]]

BtInitState ==
    /\ refcnt = 0 /\ subscribe_ids = "null" /\ hci_state = "idle"
    /\ scanning = FALSE /\ known = {} /\ linked = {} /\ bonded = {}
    /\ pairs = {} /\ conns = {} /\ signals = <<>>
    /\ view = [d \in BtDevs |-> NoProperty]

-----------------------------------------------------------------------------
(* Events *)

Signal(d, k, v) == [dev |-> d, key |-> k, val |-> v]

\* Signals reach the module while it is subscribed to them.
Sent(sigs) ==
    /\ Len(signals) + Len(sigs) <= BtMaxSignals
    /\ signals' = IF refcnt > 0 THEN signals \o sigs ELSE signals

\* _process_connection_cb: the event carries the present properties of the
\* device; if it is gone there is no event.
ProcessConnectionCb(d) ==
    /\ hci_state' = "idle"
    /\ view' = IF d \in known THEN [view EXCEPT ![d] = Property(d)] ELSE view

MutHeard(s) == \/ s.key = "Connected" /\ hci_state \in {"idle", "connecting"}
               \/ s.key = "Paired" /\ hci_state = "idle"

\* The signals that are turned into an event.
Heard(s) == \/ s.key = "Connected" /\ hci_state \in {"idle", "connecting"}
            \/ s.key = "Connected" /\ hci_state = "pairing" /\ ~s.val
            \/ s.key = "Paired" /\ hci_state = "idle"

DevicePropertiesChanged ==
    /\ signals # <<>>
    /\ signals' = Tail(signals)
    /\ IF Heard(Head(signals)) THEN ProcessConnectionCb(Head(signals).dev)
       ELSE UNCHANGED <<hci_state, view>>
    /\ UNCHANGED <<refcnt, subscribe_ids, BlueZ>>

-----------------------------------------------------------------------------
(* Calls *)

BtOpens ==
    /\ refcnt < BtMaxRefs
    /\ refcnt = 0 /\ "again" \notin BtUnusual => subscribe_ids # "freed"
    /\ refcnt' = refcnt + 1
    /\ subscribe_ids' = IF refcnt = 0 /\ subscribe_ids = "null" THEN "table"
                        ELSE subscribe_ids
    /\ UNCHANGED <<hci_state, BlueZ, signals, view>>

\* The last one unsubscribes; the freed table and lists keep their pointers.
BtCloses ==
    /\ refcnt > 0
    /\ refcnt' = refcnt - 1
    /\ IF refcnt = 1 THEN subscribe_ids' = "freed" /\ signals' = <<>>
       ELSE UNCHANGED <<subscribe_ids, signals>>
    /\ UNCHANGED <<hci_state, BlueZ, view>>

BtStartBond(d) ==
    /\ refcnt > 0 /\ d \in known
    /\ hci_state # "pairing"   \* else E_IN_PROGRESS
    /\ IF d \in bonded
       THEN ProcessConnectionCb(d) /\ UNCHANGED pairs
       ELSE /\ "others" \notin BtUnusual => signals = <<>>
            /\ "linked" \notin BtUnusual => d \notin linked \cup conns
            /\ pairs' = pairs \cup {d} /\ hci_state' = "pairing"
            /\ UNCHANGED view
    /\ UNCHANGED <<refcnt, subscribe_ids, scanning, known, linked, bonded, conns, signals>>

\* bt_connect and bt_connect_profile.
BtConnect(d) ==
    /\ refcnt > 0 /\ d \in known
    /\ hci_state # "connecting"   \* else E_IN_PROGRESS
    /\ "linked" \notin BtUnusual => d \notin pairs
    /\ IF hci_state = "idle" /\ d \in linked
       THEN ProcessConnectionCb(d) /\ UNCHANGED conns
       ELSE /\ conns' = IF d \in linked THEN conns ELSE conns \cup {d}
            /\ hci_state' = "connecting"
            /\ UNCHANGED view
    /\ UNCHANGED <<refcnt, subscribe_ids, scanning, known, linked, bonded, pairs, signals>>

\* What Disconnect and CancelPairing make of a device.
Unlinked(d) ==
    /\ linked' = linked \ {d} /\ pairs' = pairs \ {d} /\ conns' = conns \ {d}
    /\ Sent(IF d \in linked THEN <<Signal(d, "Connected", FALSE)>> ELSE <<>>)

BtDisconnect(d) ==
    /\ refcnt > 0 /\ d \in linked
    /\ Unlinked(d)
    /\ hci_state' = "idle"
    /\ UNCHANGED <<refcnt, subscribe_ids, scanning, known, bonded, view>>

BtStopBond(d) ==
    /\ refcnt > 0 /\ d \in pairs
    /\ Unlinked(d)
    /\ hci_state' = "idle"
    /\ UNCHANGED <<refcnt, subscribe_ids, scanning, known, bonded, view>>

\* Devices are removed one after the other, linked ones are disconnected first:
\* that sets the state, and the signal of it finds no device any more.
Removed(S) ==
    /\ "removed" \notin BtUnusual => S \cap pairs = {}
    /\ known' = known \ S /\ linked' = linked \ S /\ bonded' = bonded \ S
    /\ pairs' = pairs \ S /\ conns' = conns \ S
    /\ hci_state' = IF S \cap linked = {} THEN hci_state ELSE "idle"
    /\ view' = [d \in BtDevs |-> IF d \in S THEN NoProperty ELSE view[d]]

BtRemoveDevice(d) ==
    /\ refcnt > 0 /\ d \in known
    /\ Removed({d})
    /\ UNCHANGED <<refcnt, subscribe_ids, scanning, signals>>

BtRemoveDevices ==
    /\ refcnt > 0 /\ known # {}
    /\ Removed(known)
    /\ UNCHANGED <<refcnt, subscribe_ids, scanning, signals>>

\* A scan begins with the removal of the devices that are not both bonded and
\* linked, those that are being bonded or connected included, also if it then
\* fails because there is one already.
BtStartScan ==
    /\ refcnt > 0
    /\ Removed(known \ (bonded \cap linked))
    /\ scanning' = TRUE
    /\ UNCHANGED <<refcnt, subscribe_ids, signals>>

BtStopScan ==
    /\ refcnt > 0 /\ scanning
    /\ scanning' = FALSE
    /\ UNCHANGED <<refcnt, subscribe_ids, hci_state, known, linked, bonded, pairs,
                   conns, signals, view>>

-----------------------------------------------------------------------------
(* BlueZ *)

DeviceFound(d) ==
    /\ scanning /\ d \notin known
    /\ known' = known \cup {d}
    /\ UNCHANGED <<refcnt, subscribe_ids, hci_state, scanning, linked, bonded, pairs,
                   conns, signals, view>>

\* A link is made, for a call of Connect or by the other side.
LinkUp(d) ==
    /\ d \in known \ (linked \cup pairs)
    /\ pairs # {} => "others" \in BtUnusual
    /\ linked' = linked \cup {d} /\ conns' = conns \ {d}
    /\ Sent(<<Signal(d, "Connected", TRUE)>>)
    /\ UNCHANGED <<refcnt, subscribe_ids, hci_state, scanning, known, bonded, pairs, view>>

LinkDown(d) ==
    /\ d \in linked \ pairs
    /\ linked' = linked \ {d}
    /\ Sent(<<Signal(d, "Connected", FALSE)>>)
    /\ UNCHANGED <<refcnt, subscribe_ids, hci_state, scanning, known, bonded, pairs,
                   conns, view>>

\* Connect fails: the reply is logged, the state stays.
BtConnectFails(d) ==
    /\ d \in conns
    /\ conns' = conns \ {d}
    /\ UNCHANGED <<refcnt, subscribe_ids, hci_state, scanning, known, linked, bonded,
                   pairs, signals, view>>

PairLink(d) ==
    /\ d \in pairs \ linked
    /\ linked' = linked \cup {d}
    /\ Sent(<<Signal(d, "Connected", TRUE)>>)
    /\ UNCHANGED <<refcnt, subscribe_ids, hci_state, scanning, known, bonded, pairs,
                   conns, view>>

\* Bonding ends, and with it the link that was made for it; "unheard": the link
\* was there before and stays, or there never was one.
PairEnds(d, end) ==
    /\ d \in pairs
    /\ IF end = "unheard" THEN (IF d \in linked THEN "linked" ELSE "nolink") \in BtUnusual
                          ELSE d \in linked
    /\ pairs' = pairs \ {d}
    /\ linked' = IF end = "unheard" THEN linked ELSE linked \ {d}
    /\ bonded' = IF end # "refused" /\ d \in linked THEN bonded \cup {d} ELSE bonded
    /\ Sent((IF bonded' # bonded THEN <<Signal(d, "Paired", TRUE)>> ELSE <<>>)
               \o (IF end # "unheard" THEN <<Signal(d, "Connected", FALSE)>> ELSE <<>>))
    /\ UNCHANGED <<refcnt, subscribe_ids, hci_state, scanning, known, conns, view>>

-----------------------------------------------------------------------------

BtNext ==
    \/ DevicePropertiesChanged
    \/ BtOpens \/ BtCloses \/ BtRemoveDevices \/ BtStartScan \/ BtStopScan
    \/ \E d \in BtDevs :
          \/ BtStartBond(d) \/ BtConnect(d) \/ BtDisconnect(d) \/ BtStopBond(d)
          \/ BtRemoveDevice(d) \/ DeviceFound(d)
          \/ LinkUp(d) \/ LinkDown(d) \/ BtConnectFails(d) \/ PairLink(d)
          \/ \E end \in {"bonded", "refused", "unheard"} : PairEnds(d, end)

\* When all signals are handled and no bonding is in progress, the events have
\* told the application the present links and bonds, although the one state for
\* all devices drops some signals: whatever attempts, failures, removals and
\* scans there were.
EventsConverge ==
    /\ BtTypeOK
    /\ refcnt > 0 /\ signals = <<>> /\ pairs = {} =>
           \A d \in known : view[d] = Property(d)
=============================================================================
