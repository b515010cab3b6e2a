--------------------------- MODULE ServicesProofs ---------------------------
(***************************************************************************)
(* Proofs about services of the SDK, for every value of their constants:   *)
(* Wi-Fi, LWM2M, security, peripherals, ZigBee, the libraries that serve   *)
(* websocket and MQTT clients and watches on TizenRT, the clock with its   *)
(* alarms, and the configuration of the network.                           *)
(*                                                                         *)
(* Each service has an inductive invariant (TvInv, LtInv, LlInv, ...), which *)
(* holds under what its ...Calm says of its constants: without the behaviours *)
(* in which the code is known to go wrong, or which the device behind it   *)
(* excludes.                                                               *)
(***************************************************************************)
EXTENDS Wifi, TizenRtWifi, Lwm2m, Security, TizenRtSecurity, Peripherals, Zigbee, TizenRtClients,
        TizenRtWatch, Clocks, NetConfig, FiniteSetTheorems, SequenceTheorems, WellFoundedInduction, TLAPS

-----------------------------------------------------------------------------
(* Numbers.                                                                *)

\* A set of natural numbers with a member has a lowest one.
LEMMA NatHasLowest ==
    ASSUME NEW S, S \subseteq Nat, S # {}
    PROVE  \E i \in S : \A j \in S : i <= j
<1> DEFINE R == {ss \in Nat \X Nat : ss[1] < ss[2]}
<1>1. IsWellFoundedOn(R, Nat)
  BY NatLessThanWellFounded DEF OpToRel
<1> HIDE DEF R
<1>2. PICK x \in S : \A y \in S : ~(<<y, x>> \in R)
  BY <1>1, WFMin
<1>3. ASSUME NEW y \in S PROVE x <= y
  <2>1. x \in Nat /\ y \in Nat
    OBVIOUS
  <2>2. ~(<<y, x>> \in R)
    BY <1>2
  <2> QED BY <2>1, <2>2 DEF R
<1> QED BY <1>3

-----------------------------------------------------------------------------
(* Wi-Fi on Linux.                                                         *)

\* A name is part of no name that stands before it.
Sorted(names) ==
    \A i, j \in DOMAIN names : i < j => <<names[j], names[i]>> \notin Inside

\* A connection is open only when the interface has a name, which a module that
\* takes commands has.
WifiInv ==
    /\ WifiTypeOK
    /\ ~stale_use
    /\ ~left /\ (wifi_mode = "station" \/ wifi_connected) => Answered
    /\ wifi_mode # "none" => wifi_initialized
    /\ ctrl_conn # 0 \/ monitored => ctrl_ifname
    /\ Sorted(profiles)

\* No name occurs twice in sorted names.
LEMMA SortedOnce ==
    ASSUME NEW names \in Seq(Ssids), Sorted(names),
           NEW i \in DOMAIN names, NEW j \in DOMAIN names, names[i] = names[j]
    PROVE  i = j
<1>1. i \in Nat /\ j \in Nat /\ names[i] \in Ssids
  OBVIOUS
<1>2. <<names[i], names[i]>> \in Inside
  BY <1>1, WifiAssumption
<1>3. ~(i < j) /\ ~(j < i)
  BY <1>2 DEF Sorted
<1> QED BY <1>1, <1>3

\* A name that is in none of them can be added at the end.
LEMMA SortedAppend ==
    ASSUME NEW names \in Seq(Ssids), Sorted(names), NEW s \in Ssids,
           \A i \in DOMAIN names : <<s, names[i]>> \notin Inside
    PROVE  Append(names, s) \in Seq(Ssids) /\ Sorted(Append(names, s))
<1> DEFINE new == Append(names, s)
<1>1. /\ Len(names) \in Nat /\ DOMAIN names = 1 .. Len(names)
      /\ new \in Seq(Ssids) /\ DOMAIN new = 1 .. Len(names) + 1
      /\ \A i \in 1 .. Len(names) : new[i] = names[i]
      /\ new[Len(names) + 1] = s
  OBVIOUS
<1> HIDE DEF new
<1>2. ASSUME NEW i \in DOMAIN new, NEW j \in DOMAIN new, i < j
      PROVE  <<new[j], new[i]>> \notin Inside
  <2>1. i \in DOMAIN names /\ new[i] = names[i]
    BY <1>1, <1>2
  <2>2. (j \in DOMAIN names /\ new[j] = names[j]) \/ new[j] = s
    BY <1>1
  <2> QED BY <1>2, <2>1, <2>2 DEF Sorted
<1> QED BY <1>1, <1>2 DEF new, Sorted

\* The first name it is part of can be replaced by it: what comes later and is
\* part of it would be part of that name, too.
LEMMA SortedReplace ==
    ASSUME NEW names \in Seq(Ssids), Sorted(names), NEW s \in Ssids,
           NEW k \in DOMAIN names, <<s, names[k]>> \in Inside,
           \A i \in DOMAIN names : i < k => <<s, names[i]>> \notin Inside
    PROVE  [names EXCEPT ![k] = s] \in Seq(Ssids) /\ Sorted([names EXCEPT ![k] = s])
<1> DEFINE new == [names EXCEPT ![k] = s]
<1>1. /\ new \in Seq(Ssids) /\ DOMAIN new = DOMAIN names /\ DOMAIN names \subseteq Nat
      /\ \A i \in DOMAIN names : names[i] \in Ssids /\ new[i] = IF i = k THEN s ELSE names[i]
  OBVIOUS
<1> HIDE DEF new
<1>2. ASSUME NEW i \in DOMAIN names, NEW j \in DOMAIN names, i < j
      PROVE  <<new[j], new[i]>> \notin Inside
  <2>1. <<names[j], names[i]>> \notin Inside /\ i \in Nat /\ j \in Nat
    BY <1>1, <1>2 DEF Sorted
  <2>2. ASSUME i = k PROVE <<new[j], new[i]>> \notin Inside
    <3>1. new[i] = s /\ new[j] = names[j]
      BY <1>1, <1>2, <2>1, <2>2
    <3>2. <<names[j], s>> \in Inside => <<names[j], names[k]>> \in Inside
      BY <1>1, WifiAssumption
    <3> QED BY <2>1, <2>2, <3>1, <3>2
  <2>3. ASSUME j = k PROVE <<new[j], new[i]>> \notin Inside
    BY <1>1, <1>2, <2>1, <2>3
  <2>4. ASSUME i # k, j # k PROVE <<new[j], new[i]>> \notin Inside
    BY <1>1, <2>1, <2>4
  <2> QED BY <2>2, <2>3, <2>4
<1> QED BY <1>1, <1>2 DEF new, Sorted

-----------------------------------------------------------------------------

LEMMA ConfiguredSorted ==
    ASSUME profiles \in Seq(Ssids), Sorted(profiles), NEW s \in Ssids
    PROVE  Configured(s) \in Seq(Ssids) /\ Sorted(Configured(s))
<1> DEFINE hits == {i \in DOMAIN profiles : <<s, profiles[i]>> \in Inside}
           k == CHOOSE i \in hits : \A j \in hits : i <= j
<1>1. ASSUME hits = {} PROVE Configured(s) \in Seq(Ssids) /\ Sorted(Configured(s))
  BY <1>1, SortedAppend DEF Configured
<1>2. ASSUME hits # {} PROVE Configured(s) \in Seq(Ssids) /\ Sorted(Configured(s))
  <2>1. hits \subseteq Nat
    OBVIOUS
  <2>2. \E i \in hits : \A j \in hits : i <= j
    BY <1>2, <2>1, NatHasLowest
  <2>3. k \in hits /\ \A j \in hits : k <= j
    BY <2>2
  <2>4. k \in DOMAIN profiles /\ <<s, profiles[k]>> \in Inside
    BY <2>3
  <2>5. ASSUME NEW i \in DOMAIN profiles, i < k PROVE <<s, profiles[i]>> \notin Inside
    <3>1. i \in Nat /\ k \in Nat
      BY <2>1, <2>4
    <3>2. ~(k <= i)
      BY <2>5, <3>1
    <3> QED BY <2>3, <3>2
  <2>6. [profiles EXCEPT ![k] = s] \in Seq(Ssids) /\ Sorted([profiles EXCEPT ![k] = s])
    <3> HIDE DEF k
    <3> QED BY <2>4, <2>5, SortedReplace
  <2>7. Configured(s) = [profiles EXCEPT ![k] = s]
    BY <1>2 DEF Configured
  <2> QED BY <2>6, <2>7
<1> QED BY <1>1, <1>2

LEMMA WifiStarts == WifiInit => WifiInv
<1> SUFFICES ASSUME WifiInit PROVE WifiInv
  OBVIOUS
<1>1. profiles \in Seq(Ssids) /\ Sorted(profiles)
  <2>1. profiles = <<>> /\ DOMAIN <<>> = {} /\ <<>> \in Seq(Ssids)
    BY DEF WifiInit
  <2> QED BY <2>1 DEF Sorted
<1>2. opens \in 0 .. MaxOpens /\ ctrl_conn \in 0 .. opens /\ ctrl_copy \in 0 .. opens
  BY WifiAssumption DEF WifiInit
<1>3. WifiTypeOK
  <2>1. idles \subseteq {1, 2} /\ idle_cb_id \in 0 .. 2 /\ callbacks \subseteq {"scan", "connect"}
    BY DEF WifiInit
  <2> QED BY <1>1, <1>2, <2>1 DEF WifiInit, WifiTypeOK
<1> QED BY <1>1, <1>3 DEF WifiInit, WifiInv, Answered

LEMMA WifiSteps == WifiInv /\ [WifiNext]_wifivars => WifiInv'
<1> SUFFICES ASSUME WifiInv, [WifiNext]_wifivars PROVE WifiInv'
  OBVIOUS
<1> USE DEF WifiInv, WifiTypeOK, Answered
<1>1. ASSUME NEW mode \in {"station", "ap"}, NEW result \in {"both", "mute", "none"},
             WifiStart(mode, result)
      PROVE  WifiInv'
  <2>1. ASSUME mode = "ap" PROVE WifiInv'
    BY <1>1, <2>1 DEF WifiStart, Supplicant
  <2>2. ASSUME mode # "ap", result = "none" PROVE WifiInv'
    BY <1>1, <2>2, WifiAssumption DEF WifiStart, Supplicant, OpenConnection
  <2>3. ASSUME mode # "ap", result # "none" PROVE WifiInv'
    <3>1. opens' \in 0 .. MaxOpens /\ ctrl_conn' \in 0 .. opens' /\ ctrl_copy' \in 0 .. opens'
      BY <1>1, <2>3, WifiAssumption DEF WifiStart, OpenConnection, TakeControl
    <3>2. /\ ctrl_conn' = opens + 1 /\ ctrl_copy' = opens + 1 /\ monitored' \in BOOLEAN
          /\ ctrl_ifname' = TRUE /\ wifi_initialized' = TRUE /\ wifi_mode' = "station"
          /\ active_scan' = FALSE /\ left' = FALSE
          /\ UNCHANGED <<wifi_connected, callbacks, idles, idle_cb_id, Supplicant, stale_use>>
      BY <1>1, <2>3 DEF WifiStart, OpenConnection, TakeControl
    <3>3. WifiTypeOK'
      BY <3>1, <3>2 DEF Supplicant
    <3>4. Answered' /\ Sorted(profiles')
      BY <3>2, WifiAssumption DEF Supplicant
    <3> QED BY <3>2, <3>3, <3>4
  <2> QED BY <2>1, <2>2, <2>3
<1>2. ASSUME NEW result \in {"both", "mute", "none"}, Reconnect(result) PROVE WifiInv'
  BY <1>2, WifiAssumption DEF Reconnect, OpenConnection, Supplicant
<1>3. ASSUME WifiStop PROVE WifiInv'
  <2>1. opens' \in 0 .. MaxOpens /\ ctrl_conn' \in 0 .. opens' /\ ctrl_copy' \in 0 .. opens'
    BY <1>3, WifiAssumption DEF WifiStop, CloseConnection, Supplicant
  <2>2. monitored' \in BOOLEAN /\ left' \in BOOLEAN
    BY <1>3 DEF WifiStop, CloseConnection, Supplicant
  <2> QED BY <1>3, <2>1, <2>2 DEF WifiStop, CloseConnection, Supplicant
<1>4. ASSUME WifiQuery PROVE WifiInv'
  BY <1>4, WifiAssumption DEF WifiQuery, SendCmd, Supplicant
<1>5. ASSUME WifiDisconnect PROVE WifiInv'
  BY <1>5, WifiAssumption DEF WifiDisconnect, SendCmd, Supplicant
<1>6. ASSUME NEW b \in BOOLEAN, WifiScanRequest(b) PROVE WifiInv'
  BY <1>6, WifiAssumption DEF WifiScanRequest, SendCmd, Supplicant
<1>7. ASSUME NEW s \in Ssids, NEW b \in BOOLEAN, WifiConnect(s, b) PROVE WifiInv'
  <2>1. Sorted(profiles') /\ profiles' \in Seq(Ssids)
    <3>1. profiles' = profiles \/ profiles' = Configured(s)
      BY <1>7, WifiAssumption DEF WifiConnect
    <3>2. profiles \in Seq(Ssids) /\ Sorted(profiles)
      OBVIOUS
    <3> QED BY <3>1, <3>2, ConfiguredSorted
  <2>2. idles' \subseteq {1, 2} /\ idle_cb_id' \in 0 .. 2
    <3>1. UNCHANGED <<idles, idle_cb_id>> \/ ForceConnectCallback
      BY <1>7 DEF WifiConnect
    <3>2. \/ idles' = idles /\ idle_cb_id' = idle_cb_id
          \/ \E i \in {1, 2} : idles' = idles \cup {i} /\ idle_cb_id' = i
      BY <3>1 DEF ForceConnectCallback
    <3>3. idles \subseteq {1, 2} /\ idle_cb_id \in 0 .. 2
      OBVIOUS
    <3>4. ASSUME NEW i \in {1, 2}, idles' = idles \cup {i}, idle_cb_id' = i
          PROVE  idles' \subseteq {1, 2} /\ idle_cb_id' \in 0 .. 2
      <4>1. idles' \subseteq {1, 2}
        BY <3>3, <3>4
      <4>2. i \in 0 .. 2
        OBVIOUS
      <4> QED BY <3>4, <4>1, <4>2
    <3> QED BY <3>2, <3>3, <3>4
  <2>3. /\ wifi_mode = "station" /\ wifi_connected' \in BOOLEAN /\ SendCmd
        /\ UNCHANGED <<wifi_initialized, wifi_mode, ctrl_ifname, opens, ctrl_conn,
                       ctrl_copy, monitored, active_scan, callbacks, associated, access_point>>
    BY <1>7, WifiAssumption DEF WifiConnect
  <2> QED BY <2>1, <2>2, <2>3 DEF SendCmd
<1>8. ASSUME NEW b \in BOOLEAN, NEW e \in BOOLEAN, WifiStartAp(b, e) PROVE WifiInv'
  BY <1>8, WifiAssumption DEF WifiStartAp
<1>9. ASSUME NEW c \in {"scan", "connect"}, WifiSetCallback(c) PROVE WifiInv'
  BY <1>9, WifiAssumption DEF WifiSetCallback, Supplicant
<1>10. ASSUME ScanResults PROVE WifiInv'
  BY <1>10, WifiAssumption DEF ScanResults, Supplicant
<1>11. ASSUME LinkEvent PROVE WifiInv'
  BY <1>11, WifiAssumption DEF LinkEvent, NoSsid
<1>12. ASSUME Terminating PROVE WifiInv'
  <2>1. opens' \in 0 .. MaxOpens /\ ctrl_conn' \in 0 .. opens' /\ ctrl_copy' \in 0 .. opens'
    BY <1>12, WifiAssumption DEF Terminating, CloseConnection
  <2>2. monitored' \in BOOLEAN /\ left' \in BOOLEAN
    BY <1>12 DEF Terminating, CloseConnection
  <2> QED BY <1>12, <2>1, <2>2 DEF Terminating, CloseConnection
<1>13. ASSUME NEW i \in {1, 2}, ForcedCallback(i) PROVE WifiInv'
  BY <1>13, WifiAssumption DEF ForcedCallback, Supplicant
<1>14. ASSUME UNCHANGED wifivars PROVE WifiInv'
  BY <1>14, WifiAssumption DEF wifivars
<1> QED BY <1>1, <1>2, <1>3, <1>4, <1>5, <1>6, <1>7, <1>8, <1>9, <1>10, <1>11, <1>12, <1>13,
           <1>14 DEF WifiNext

LEMMA WifiGives == WifiInv => ControlIsLive
<1>1. ASSUME WifiInv, NEW i \in DOMAIN profiles, NEW j \in DOMAIN profiles,
             profiles[i] = profiles[j]
      PROVE  i = j
  BY <1>1, SortedOnce DEF WifiInv, WifiTypeOK
<1> QED BY <1>1 DEF WifiInv, ControlIsLive

-----------------------------------------------------------------------------
(* Wi-Fi on TizenRT.                                                       *)

\* No scan's results arrive while the last are taken, and there is memory.
TvCalm == "race" \notin TvUnusual /\ "nomem" \notin TvUnusual

\* Who reads the saved results has what is saved; while an array is filled, the
\* last one is nobody's, and its number is already the new one's.
TvTakes ==
    \/ tv_take = TvIdle
    \/ /\ tv_take = [at |-> "read", array |-> tv_saved, len |-> tv_count]
       /\ tv_save = TvIdle

TvSaves ==
    \/ tv_save = TvIdle
    \/ tv_save = [at |-> "alloc", len |-> tv_count] /\ tv_count \in TvCounts

TvInv == ResultsHaveOneOwner /\ TvTakes /\ TvSaves

LEMMA TvStarts == TvInit => TvInv
<1> SUFFICES ASSUME TvInit PROVE TvInv
  OBVIOUS
<1>1. tv_arrays \in [TvArrays -> [state : {"new", "kept", "given", "freed"}, len : TvCounts \cup {0}]]
  BY DEF TvInit
<1>2. TvTypeOK
  BY <1>1 DEF TvInit, TvTypeOK
<1>3. \A a \in TvArrays : tv_arrays[a].state # "kept" /\ a # tv_saved
  BY TvAssumption DEF TvInit
<1> QED BY <1>2, <1>3 DEF TvInit, TvInv, ResultsHaveOneOwner, TvTakes, TvSaves, TvRight

\* What leaves the saved results alone keeps what is said of them.
LEMMA TvKeeps ==
    ASSUME TvInv, UNCHANGED TvKept, tv_mode' \in {"none", "station", "ap"},
           tv_calls' \subseteq {"connect", "scan"},
           tv_driver' \subseteq {"link", "scan", "scanning", "joined"}
    PROVE  TvInv'
<1>1. TvTypeOK'
  BY DEF TvInv, ResultsHaveOneOwner, TvTypeOK, TvKept
<1>2. TvTakes' /\ TvSaves'
  BY DEF TvInv, TvTakes, TvSaves, TvKept
<1> QED BY <1>1, <1>2 DEF TvInv, ResultsHaveOneOwner, TvRight, TvKept

LEMMA TvGivenKeeps == ASSUME TvInv, TvGiven PROVE TvInv'
<1>1. /\ tv_take = [at |-> "read", array |-> tv_saved, len |-> tv_count] /\ tv_save = TvIdle
  BY DEF TvInv, TvTakes, TvGiven, TvIdle
<1>2. TvTypeOK /\ TvRight(tv_saved, tv_count) /\ 0 \notin TvArrays
  BY <1>1, TvAssumption DEF TvInv, ResultsHaveOneOwner
<1>3. /\ tv_told' = "right" /\ tv_saved' = 0 /\ tv_count' = 0 /\ tv_take' = TvIdle /\ tv_save' = TvIdle
      /\ UNCHANGED <<tv_mode, tv_calls, tv_driver>>
      /\ tv_arrays' = IF tv_saved = 0 THEN tv_arrays ELSE [tv_arrays EXCEPT ![tv_saved].state = "given"]
  BY <1>1, <1>2 DEF TvGiven
<1>4. tv_arrays' \in [TvArrays -> [state : {"new", "kept", "given", "freed"}, len : TvCounts \cup {0}]]
  BY <1>2, <1>3 DEF TvTypeOK
<1>5. TvTypeOK'
  BY <1>2, <1>3, <1>4 DEF TvTypeOK
<1>6. ASSUME NEW a \in TvArrays PROVE tv_arrays'[a].state # "kept"
  <2>1. tv_arrays[a].state = "kept" => a = tv_saved
    BY DEF TvInv, ResultsHaveOneOwner
  <2>2. ASSUME tv_saved = 0 PROVE tv_arrays'[a].state # "kept"
    BY <1>2, <1>3, <2>1, <2>2
  <2>3. ASSUME tv_saved # 0 PROVE tv_arrays'[a].state = IF a = tv_saved THEN "given" ELSE tv_arrays[a].state
    BY <1>2, <1>3, <2>3 DEF TvTypeOK
  <2> QED BY <2>1, <2>2, <2>3
<1> QED BY <1>2, <1>3, <1>5, <1>6 DEF TvInv, ResultsHaveOneOwner, TvTakes, TvSaves, TvRight

LEMMA TvScannedKeeps ==
    ASSUME TvInv, TvCalm, NEW len \in TvCounts, TvScanned(len)
    PROVE  TvInv'
<1>1. /\ tv_take = TvIdle /\ tv_save = TvIdle /\ TvTypeOK /\ TvRight(tv_saved, tv_count)
      /\ 0 \notin TvArrays
  BY TvAssumption DEF TvInv, ResultsHaveOneOwner, TvScanned, TvCalm
<1>2. tv_driver' \subseteq {"link", "scan", "scanning", "joined"} /\ UNCHANGED <<tv_mode, tv_saved, tv_calls, tv_take>>
  BY <1>1 DEF TvScanned, TvTypeOK
<1>3. ASSUME UNCHANGED <<tv_arrays, tv_told, tv_count, tv_save>> PROVE TvInv'
  BY <1>1, <1>2, <1>3, TvKeeps DEF TvKept, TvTypeOK
<1>4. ASSUME tv_arrays' = IF tv_saved = 0 THEN tv_arrays ELSE [tv_arrays EXCEPT ![tv_saved].state = "freed"],
             tv_told' = IF tv_saved # 0 /\ tv_arrays[tv_saved].state # "kept" THEN "wrong" ELSE tv_told,
             tv_count' = len, tv_save' = [at |-> "alloc", len |-> len]
      PROVE  TvInv'
  <2>1. tv_told' = tv_told /\ tv_told # "wrong" /\ tv_save' # TvIdle
    BY <1>1, <1>4 DEF TvInv, ResultsHaveOneOwner, TvRight, TvIdle
  <2>2. tv_arrays' \in [TvArrays -> [state : {"new", "kept", "given", "freed"}, len : TvCounts \cup {0}]]
    BY <1>1, <1>4 DEF TvTypeOK
  <2>3. TvTypeOK'
    BY <1>1, <1>2, <1>4, <2>1, <2>2 DEF TvTypeOK
  <2>4. ASSUME NEW a \in TvArrays PROVE tv_arrays'[a].state # "kept"
    <3>1. tv_arrays[a].state = "kept" => a = tv_saved
      BY DEF TvInv, ResultsHaveOneOwner
    <3>2. ASSUME tv_saved = 0 PROVE tv_arrays'[a].state # "kept"
      BY <1>1, <1>4, <3>1, <3>2
    <3>3. ASSUME tv_saved # 0 PROVE tv_arrays'[a].state = IF a = tv_saved THEN "freed" ELSE tv_arrays[a].state
      BY <1>1, <1>4, <3>3 DEF TvTypeOK
    <3> QED BY <3>1, <3>2, <3>3
  <2>5. TvTakes' /\ TvSaves'
    BY <1>1, <1>2, <1>4 DEF TvTakes, TvSaves
  <2> QED BY <2>1, <2>3, <2>4, <2>5 DEF TvInv, ResultsHaveOneOwner
<1> QED BY <1>3, <1>4 DEF TvScanned

LEMMA TvSavedKeeps == ASSUME TvInv, TvCalm, TvSaved PROVE TvInv'
<1>1. PICK a \in TvArrays :
        /\ tv_arrays[a].state = "new" /\ tv_saved' = a
        /\ tv_arrays' = [tv_arrays EXCEPT ![a] = [state |-> "kept", len |-> tv_save.len]]
  BY DEF TvSaved, TvCalm
<1>2. /\ TvTypeOK /\ tv_save = [at |-> "alloc", len |-> tv_count] /\ tv_count \in TvCounts
      /\ tv_take = TvIdle /\ tv_save # TvIdle
  BY DEF TvInv, ResultsHaveOneOwner, TvTakes, TvSaves, TvSaved, TvIdle
<1>3. tv_save' = TvIdle /\ UNCHANGED <<tv_mode, tv_count, tv_calls, tv_driver, tv_take, tv_told>>
  BY DEF TvSaved
<1>4. tv_arrays' \in [TvArrays -> [state : {"new", "kept", "given", "freed"}, len : TvCounts \cup {0}]]
  BY <1>1, <1>2 DEF TvTypeOK
<1>5. TvTypeOK' /\ TvTakes' /\ TvSaves'
  BY <1>1, <1>2, <1>3, <1>4 DEF TvTypeOK, TvTakes, TvSaves
<1>6. ASSUME NEW b \in TvArrays PROVE tv_arrays'[b].state = "kept" <=> b = a
  BY <1>1, <1>2 DEF TvInv, ResultsHaveOneOwner, TvTypeOK
<1>7. a # 0 /\ tv_arrays'[a].state = "kept" /\ tv_arrays'[a].len = tv_count'
  BY <1>1, <1>2, <1>3, TvAssumption DEF TvTypeOK
<1>8. TvRight(tv_saved, tv_count)'
  BY <1>1, <1>7 DEF TvRight
<1>9. tv_told' # "wrong"
  BY <1>3 DEF TvInv, ResultsHaveOneOwner
<1> QED BY <1>1, <1>3, <1>5, <1>6, <1>8, <1>9 DEF TvInv, ResultsHaveOneOwner

LEMMA TvSteps == TvCalm /\ TvInv /\ [TvNext]_tvvars => TvInv'
<1> SUFFICES ASSUME TvCalm, TvInv, [TvNext]_tvvars PROVE TvInv'
  OBVIOUS
<1>0. TvTypeOK
  BY DEF TvInv, ResultsHaveOneOwner
<1>1. ASSUME NEW mode \in {"station", "ap"}, TvWifiInit(mode) PROVE TvInv'
  BY <1>0, <1>1, TvKeeps DEF TvWifiInit, TvTypeOK
<1>2. ASSUME TvWifiDeinit \/ TvScanRequest \/ TvConnect \/ TvDisconnect \/ TvLinkChanges PROVE TvInv'
  BY <1>0, <1>2, TvKeeps DEF TvWifiDeinit, TvScanRequest, TvConnect, TvDisconnect, TvLinkChanges, TvTypeOK
<1>3. ASSUME NEW which \in {"connect", "scan"}, NEW set \in BOOLEAN, TvSetCallback(which, set)
      PROVE  TvInv'
  BY <1>0, <1>3, TvKeeps DEF TvSetCallback, TvTypeOK
<1>4. ASSUME TvGetScanResult PROVE TvInv'
  <2>1. TvTypeOK'
    BY <1>0, <1>4 DEF TvGetScanResult, TvTypeOK
  <2>2. TvTakes' /\ TvSaves'
    BY <1>4 DEF TvGetScanResult, TvTakes, TvSaves, TvInv, TvCalm
  <2> QED BY <1>4, <2>1, <2>2 DEF TvGetScanResult, TvInv, ResultsHaveOneOwner, TvRight
<1>5. ASSUME TvGiven PROVE TvInv'
  BY <1>5, TvGivenKeeps
<1>6. ASSUME TvSaved PROVE TvInv'
  BY <1>6, TvSavedKeeps
<1>7. ASSUME NEW len \in TvCounts, TvScanned(len) PROVE TvInv'
  BY <1>7, TvScannedKeeps
<1>8. ASSUME UNCHANGED tvvars PROVE TvInv'
  BY <1>0, <1>8, TvKeeps DEF tvvars, TvKept, TvTypeOK
<1> QED BY <1>1, <1>2, <1>3, <1>4, <1>5, <1>6, <1>7, <1>8 DEF TvNext

-----------------------------------------------------------------------------
(* LWM2M: the thread on TizenRT.                                           *)

\* The application connects once the last thread has ended, with a client that is
\* started, and threads can be created.
LtCalm == LtUnusual = {}

LtLive == {"check", "service", "ending"}

\* Threads are made in order, and the last one alone may be alive.
LtInOrder ==
    \A i \in LtThreads :
        /\ lt_thread[i] # "none" <=> i <= LtCreated
        /\ lt_thread[i] \in LtLive => i = LtCreated

\* A thread has its node and its client until it ends.  One is there while the
\* node is connected, and after that as long as an event or the waiting
\* application knows.
LtInv ==
    /\ LtTypeOK
    /\ ~lt_misused
    /\ LtInOrder
    /\ lt_node = "listed" => lt_mutex
    /\ lt_dropped => lt_state = "exit"
    /\ lt_joining # 0 => lt_node = "listed" /\ lt_state = "exit" /\ lt_joining = LtCreated
    /\ lt_node = "listed" /\ lt_state = "connect" => LtAlive # {}
    /\ \A i \in LtAlive :
          /\ lt_node = "listed" /\ lt_client = "open"
          /\ lt_state # "init" /\ (lt_thread[i] = "ending" => lt_state # "connect")
          /\ lt_state = "exit" => lt_dropped \/ lt_joining # 0

LEMMA LtBound == \E n \in Nat : LtThreads = 1 .. n
BY LtAssumption, FS_CardinalityType

LEMMA LtNumber ==
    ASSUME NEW th, NEW n \in Nat, n = 0 \/ n \in LtThreads,
           \A i \in LtThreads : th[i] # "none" <=> i <= n
    PROVE  Cardinality({i \in LtThreads : th[i] # "none"}) = n
<1>1. PICK m \in Nat : LtThreads = 1 .. m
  BY LtBound
<1>2. {i \in LtThreads : th[i] # "none"} = 1 .. n
  BY <1>1
<1>3. Cardinality(1 .. n) = n
  BY FS_Interval
<1> QED BY <1>2, <1>3

LEMMA LtNumbers ==
    ASSUME LtInOrder PROVE LtCreated \in Nat /\ (LtCreated = 0 \/ LtCreated \in LtThreads)
<1>1. PICK m \in Nat : LtThreads = 1 .. m
  BY LtBound
<1>2. IsFiniteSet(LtThreads) /\ Cardinality(LtThreads) = m
  BY <1>1, FS_Interval
<1>3. {i \in LtThreads : lt_thread[i] # "none"} \subseteq LtThreads
  OBVIOUS
<1>4. LtCreated \in Nat /\ LtCreated <= m
  BY <1>2, <1>3, FS_Subset, FS_CardinalityType DEF LtCreated
<1> QED BY <1>1, <1>4

\* A step that makes no thread leaves their number, and their order.
LEMMA LtSame ==
    ASSUME LtInOrder, lt_thread \in [LtThreads -> {"none", "check", "service", "ending", "ended"}],
           NEW i \in LtThreads, lt_thread[i] \in LtLive,
           NEW pc \in {"check", "service", "ending", "ended"},
           lt_thread' = [lt_thread EXCEPT ![i] = pc]
    PROVE  LtInOrder' /\ LtCreated' = LtCreated
<1>1. \A j \in LtThreads : lt_thread'[j] = IF j = i THEN pc ELSE lt_thread[j]
  OBVIOUS
<1>2. \A j \in LtThreads : (lt_thread'[j] # "none") <=> (lt_thread[j] # "none")
  BY <1>1 DEF LtLive
<1>3. LtCreated' = LtCreated
  BY <1>2 DEF LtCreated
<1>4. ASSUME NEW j \in LtThreads, lt_thread'[j] \in LtLive PROVE j = LtCreated
  BY <1>1, <1>4 DEF LtInOrder
<1> QED BY <1>2, <1>3, <1>4 DEF LtInOrder

LEMMA LtStarts == LtInit => LtInv
<1> SUFFICES ASSUME LtInit PROVE LtInv
  OBVIOUS
<1>1. LtThreads \subseteq Nat \ {0}
  BY LtBound
<1>2. \A i \in LtThreads : lt_thread[i] = "none" /\ ~(i <= 0)
  BY <1>1 DEF LtInit
<1>3. LtCreated = 0
  BY <1>2, LtNumber DEF LtCreated
<1>4. LtInOrder /\ LtAlive = {}
  BY <1>2, <1>3 DEF LtInOrder, LtLive, LtAlive
<1>5. LtTypeOK
  BY DEF LtInit, LtTypeOK
<1> QED BY <1>4, <1>5 DEF LtInit, LtInv

\* Steps that leave threads, client and state alone.
LEMMA LtKeeps ==
    ASSUME LtInv, UNCHANGED <<lt_node, lt_state, lt_client, lt_mutex, lt_thread, lt_joining, lt_dropped>>,
           lt_connected' \in BOOLEAN, lt_callbacks' \subseteq LtEvents, lt_misused' = FALSE
    PROVE  LtInv'
<1>1. LtTypeOK'
  BY DEF LtInv, LtTypeOK
<1>2. LtInOrder' /\ LtCreated' = LtCreated /\ LtAlive' = LtAlive
  BY DEF LtInv, LtInOrder, LtCreated, LtAlive
<1> QED BY <1>1, <1>2 DEF LtInv

LEMMA LtConnectKeeps ==
    ASSUME LtCalm, LtInv, NEW result \in {"ok", "attributes", "create"}, LtConnect(result)
    PROVE  LtInv'
<1> DEFINE n == LtCreated + 1
<1>1. /\ LtCalls /\ lt_client = "open" /\ lt_state # "connect" /\ result = "ok"
      /\ lt_dropped => LtAlive = {}
      /\ LtCreated < Cardinality(LtThreads)
      /\ lt_connected' = FALSE /\ lt_dropped' = FALSE /\ lt_misused' = FALSE
      /\ lt_state' = "connect" /\ lt_thread' = [lt_thread EXCEPT ![n] = "check"]
      /\ UNCHANGED <<lt_node, lt_callbacks, lt_client, lt_mutex, lt_joining>>
  BY DEF LtConnect, LtCalm, LtInv
<1>2. LtTypeOK /\ LtInOrder
  BY DEF LtInv
<1>3. LtAlive = {}
  <2>1. lt_joining = 0 /\ lt_state \in {"init", "exit"}
    BY <1>1, <1>2 DEF LtCalls, LtTypeOK
  <2> QED BY <1>1, <2>1 DEF LtInv
<1>4. n \in LtThreads /\ n \in Nat /\ LtCreated \in Nat /\ LtThreads \subseteq Nat
  <2>1. PICK m \in Nat : LtThreads = 1 .. m
    BY LtBound
  <2>2. Cardinality(LtThreads) = m
    BY <2>1, FS_Interval
  <2> QED BY <1>1, <1>2, <2>1, <2>2, LtNumbers
<1> HIDE DEF n
<1>5. \A i \in LtThreads : lt_thread'[i] = IF i = n THEN "check" ELSE lt_thread[i]
  BY <1>1, <1>2 DEF LtTypeOK
<1>6. \A i \in LtThreads : lt_thread'[i] # "none" <=> i <= n
  <2>1. SUFFICES ASSUME NEW i \in LtThreads PROVE lt_thread'[i] # "none" <=> i <= n
    OBVIOUS
  <2>2. lt_thread[i] # "none" <=> i <= LtCreated
    BY <1>2 DEF LtInOrder
  <2>3. i <= n <=> i <= LtCreated \/ i = n
    BY <1>4 DEF n
  <2>4. lt_thread'[i] # "none" <=> lt_thread[i] # "none" \/ i = n
    BY <1>5
  <2> QED BY <2>2, <2>3, <2>4
<1>7. LtCreated' = n
  <2>1. \A th : (\A i \in LtThreads : th[i] # "none" <=> i <= n) => Cardinality({i \in LtThreads : th[i] # "none"}) = n
    BY <1>4, LtNumber
  <2> QED BY <1>6, <2>1 DEF LtCreated
<1>8. LtAlive' = {n}
  BY <1>3, <1>4, <1>5 DEF LtAlive
<1>9. LtInOrder'
  BY <1>6, <1>7, <1>8 DEF LtInOrder, LtLive, LtAlive
<1>10. LtTypeOK'
  <2>1. lt_thread' \in [LtThreads -> {"none", "check", "service", "ending", "ended"}]
    BY <1>1, <1>2 DEF LtTypeOK
  <2> QED BY <1>1, <1>2, <2>1 DEF LtTypeOK
<1>11. lt_thread'[n] = "check"
  BY <1>4, <1>5
<1> QED BY <1>1, <1>8, <1>9, <1>10, <1>11 DEF LtInv, LtCalls

LEMMA LtThreadKeeps ==
    ASSUME LtInv, NEW i \in LtThreads, lt_thread[i] \in LtLive
    PROVE  /\ LtCheck(i) => LtInv'
           /\ LtEvent(i) => LtInv'
           /\ \A result \in {"ok", "quit", "error", "disconnected"} : LtService(i, result) => LtInv'
           /\ LtEnd(i) => LtInv'
<1>1. /\ LtTypeOK /\ LtInOrder /\ i \in LtAlive /\ i = LtCreated
      /\ lt_node = "listed" /\ lt_client = "open" /\ lt_mutex /\ ~lt_misused
      /\ lt_state # "init" /\ (lt_thread[i] = "ending" => lt_state # "connect")
      /\ lt_state = "exit" => lt_dropped \/ lt_joining # 0
      /\ lt_dropped => lt_state = "exit"
      /\ lt_joining # 0 => lt_state = "exit" /\ lt_joining = LtCreated
  BY DEF LtInv, LtAlive, LtLive, LtInOrder
<1>2. ASSUME NEW j \in LtThreads, j # i PROVE lt_thread[j] \notin LtLive
  BY <1>1, <1>2 DEF LtInOrder
<1>3. ASSUME LtCheck(i) PROVE LtInv'
  <2>1. PICK pc \in {"service", "ending"} :
          /\ pc = (IF lt_state = "connect" THEN "service" ELSE "ending")
          /\ lt_thread' = [lt_thread EXCEPT ![i] = pc]
    BY <1>3 DEF LtCheck
  <2>2. LtInOrder' /\ LtCreated' = LtCreated
    BY <1>1, <2>1, LtSame DEF LtTypeOK
  <2>3. /\ lt_misused' = FALSE
        /\ UNCHANGED <<lt_node, lt_state, lt_client, lt_connected, lt_callbacks, lt_mutex, lt_joining, lt_dropped>>
    BY <1>1, <1>3 DEF LtCheck
  <2>4. LtTypeOK'
    BY <1>1, <2>1, <2>3 DEF LtTypeOK
  <2>5. LtAlive' = {i} /\ lt_thread'[i] = pc
    BY <1>1, <1>2, <2>1 DEF LtAlive, LtLive, LtTypeOK
  <2> QED BY <1>1, <2>1, <2>2, <2>3, <2>4, <2>5 DEF LtInv
<1>4. ASSUME LtEvent(i) PROVE LtInv'
  BY <1>1, <1>4, LtKeeps DEF LtEvent, LtTypeOK
<1>5. ASSUME NEW result \in {"ok", "quit", "error", "disconnected"}, LtService(i, result) PROVE LtInv'
  <2>1. LtInOrder' /\ LtCreated' = LtCreated
    BY <1>1, <1>5, LtSame DEF LtService, LtTypeOK
  <2>2. /\ lt_misused' = FALSE
        /\ UNCHANGED <<lt_node, lt_client, lt_callbacks, lt_mutex, lt_joining>>
        /\ lt_thread' = [lt_thread EXCEPT ![i] = "check"]
        /\ \/ lt_state' = lt_state /\ lt_dropped' = lt_dropped
           \/ lt_state' = "exit" /\ lt_dropped' = (lt_dropped \/ lt_state = "connect")
    BY <1>1, <1>5 DEF LtService
  <2>3. lt_connected' \in BOOLEAN /\ lt_dropped' \in BOOLEAN
    BY <1>1, <1>5 DEF LtService, LtTypeOK
  <2>4. LtTypeOK'
    BY <1>1, <2>2, <2>3 DEF LtTypeOK
  <2>5. LtAlive' = {i} /\ lt_thread'[i] = "check"
    BY <1>1, <1>2, <2>2 DEF LtAlive, LtLive, LtTypeOK
  <2>6. lt_state \in {"connect", "exit"}
    BY <1>1 DEF LtTypeOK
  <2>7. ASSUME lt_state' = lt_state /\ lt_dropped' = lt_dropped PROVE LtInv'
    BY <1>1, <2>1, <2>2, <2>4, <2>5, <2>7 DEF LtInv
  <2>8. ASSUME lt_state' = "exit" /\ lt_dropped' = (lt_dropped \/ lt_state = "connect") PROVE LtInv'
    BY <1>1, <2>1, <2>2, <2>4, <2>5, <2>6, <2>8 DEF LtInv
  <2> QED BY <2>2, <2>7, <2>8
<1>6. ASSUME LtEnd(i) PROVE LtInv'
  <2>1. LtInOrder' /\ LtCreated' = LtCreated
    BY <1>1, <1>6, LtSame DEF LtEnd, LtTypeOK
  <2>2. /\ lt_misused' = FALSE /\ lt_client' = "none" /\ lt_thread' = [lt_thread EXCEPT ![i] = "ended"]
        /\ lt_state # "connect"
        /\ UNCHANGED <<lt_node, lt_state, lt_connected, lt_callbacks, lt_mutex, lt_joining, lt_dropped>>
    BY <1>1, <1>6 DEF LtEnd
  <2>3. LtTypeOK'
    BY <1>1, <2>2 DEF LtTypeOK
  <2>4. LtAlive' = {}
    BY <1>1, <1>2, <2>2 DEF LtAlive, LtLive, LtTypeOK
  <2> QED BY <1>1, <2>1, <2>2, <2>3, <2>4 DEF LtInv
<1> QED BY <1>3, <1>4, <1>5, <1>6

LEMMA LtSteps == LtCalm /\ LtInv /\ [LtNext]_ltvars => LtInv'
<1> SUFFICES ASSUME LtCalm, LtInv, [LtNext]_ltvars PROVE LtInv'
  OBVIOUS
<1>0. LtTypeOK /\ LtInOrder /\ ~lt_misused
  BY DEF LtInv
<1>1. ASSUME LtRequest PROVE LtInv'
  <2>1. LtAlive = {} /\ lt_joining = 0
    BY <1>1 DEF LtInv, LtRequest
  <2>2. LtInOrder' /\ LtAlive' = LtAlive
    BY <1>0, <1>1 DEF LtRequest, LtInOrder, LtCreated, LtAlive
  <2>3. LtTypeOK'
    BY <1>0, <1>1 DEF LtRequest, LtTypeOK
  <2> QED BY <1>0, <1>1, <2>1, <2>2, <2>3 DEF LtRequest, LtInv
<1>2. ASSUME LtDisconnect PROVE LtInv'
  <2>1. ASSUME lt_state # "connect" PROVE LtInv'
    BY <1>0, <1>2, <2>1, LtKeeps DEF LtDisconnect, LtCalls, LtTypeOK, LtInv
  <2>2. ASSUME lt_state = "connect" PROVE LtInv'
    <3>1. /\ lt_node = "listed" /\ lt_mutex /\ lt_misused' = FALSE /\ lt_state' = "exit" /\ lt_joining' = LtCreated
          /\ UNCHANGED <<lt_node, lt_client, lt_connected, lt_callbacks, lt_mutex, lt_thread, lt_dropped>>
      BY <1>2, <2>2 DEF LtDisconnect, LtCalls, LtInv
    <3>2. LtInOrder' /\ LtCreated' = LtCreated /\ LtAlive' = LtAlive
      BY <1>0, <3>1 DEF LtInOrder, LtCreated, LtAlive
    <3>3. LtCreated \in LtThreads /\ LtCreated # 0 /\ ~lt_dropped
      <4>1. PICK i \in LtThreads : lt_thread[i] \in LtLive
        BY <2>2, <3>1 DEF LtInv, LtAlive, LtLive
      <4>2. 0 \notin LtThreads
        BY LtBound
      <4> QED BY <1>0, <2>2, <4>1, <4>2 DEF LtInOrder, LtInv
    <3>4. LtTypeOK'
      BY <1>0, <3>1, <3>3 DEF LtTypeOK
    <3> QED BY <1>0, <3>1, <3>2, <3>3, <3>4 DEF LtInv
  <2> QED BY <2>1, <2>2
<1>3. ASSUME LtJoined PROVE LtInv'
  <2>1. lt_joining = LtCreated /\ lt_state = "exit" /\ lt_thread[lt_joining] \notin LtLive
    BY <1>3 DEF LtInv, LtJoined, LtLive
  <2>2. LtAlive = {}
    BY <1>0, <2>1 DEF LtAlive, LtLive, LtInOrder
  <2>3. LtInOrder' /\ LtAlive' = LtAlive
    BY <1>0, <1>3 DEF LtJoined, LtInOrder, LtCreated, LtAlive
  <2>4. LtTypeOK'
    BY <1>0, <1>3 DEF LtJoined, LtTypeOK
  <2> QED BY <1>3, <2>1, <2>2, <2>3, <2>4 DEF LtJoined, LtInv
<1>4. ASSUME LtRelease PROVE LtInv'
  <2>1. ASSUME lt_state = "connect" PROVE LtInv'
    BY <1>0, <1>4, <2>1, LtKeeps DEF LtRelease, LtCalls, LtTypeOK, LtInv
  <2>2. ASSUME lt_state # "connect" PROVE LtInv'
    <3>1. LtAlive = {} /\ lt_joining = 0
      <4>1. lt_joining = 0 /\ lt_state \in {"init", "exit"}
        BY <1>0, <1>4, <2>2 DEF LtRelease, LtCalls, LtTypeOK
      <4> QED BY <1>4, <4>1 DEF LtRelease, LtCalm, LtInv
    <3>2. LtInOrder' /\ LtAlive' = LtAlive
      BY <1>0, <1>4 DEF LtRelease, LtInOrder, LtCreated, LtAlive
    <3>3. LtTypeOK' /\ lt_misused' = FALSE
      BY <1>0, <1>4, <2>2 DEF LtRelease, LtTypeOK, LtInv, LtCalls
    <3> QED BY <1>4, <2>2, <3>1, <3>2, <3>3 DEF LtRelease, LtInv
  <2> QED BY <2>1, <2>2
<1>5. ASSUME LtAccess PROVE LtInv'
  <2>1. lt_state = "connect" => lt_client = "open"
    BY <1>5 DEF LtAccess, LtCalls, LtInv
  <2> QED BY <1>0, <1>5, <2>1, LtKeeps DEF LtAccess, LtCalls, LtTypeOK, LtInv
<1>6. ASSUME NEW result \in {"ok", "attributes", "create"}, LtConnect(result) PROVE LtInv'
  BY <1>6, LtConnectKeeps
<1>7. ASSUME NEW e \in LtEvents, LtSetCallback(e) \/ LtUnsetCallback(e) PROVE LtInv'
  <2>1. lt_callbacks' \subseteq LtEvents
    BY <1>0, <1>7 DEF LtSetCallback, LtUnsetCallback, LtTypeOK
  <2> QED BY <1>0, <1>7, <2>1, LtKeeps DEF LtSetCallback, LtUnsetCallback, LtCalls, LtTypeOK, LtInv
<1>8. ASSUME NEW i \in LtThreads,
             \/ LtCheck(i) \/ LtEvent(i) \/ LtEnd(i)
             \/ \E result \in {"ok", "quit", "error", "disconnected"} : LtService(i, result)
      PROVE  LtInv'
  <2>1. lt_thread[i] \in LtLive
    BY <1>8 DEF LtCheck, LtEvent, LtEnd, LtService, LtLive
  <2> QED BY <1>8, <2>1, LtThreadKeeps
<1>9. ASSUME UNCHANGED ltvars PROVE LtInv'
  BY <1>0, <1>9, LtKeeps DEF ltvars, LtTypeOK
<1> QED BY <1>1, <1>2, <1>3, <1>4, <1>5, <1>6, <1>7, <1>8, <1>9 DEF LtNext

LEMMA LtGives == LtInv => ThreadOwnsClient
<1> SUFFICES ASSUME LtInv PROVE ThreadOwnsClient
  OBVIOUS
<1>1. ASSUME lt_node = "listed", lt_state = "connect"
      PROVE  lt_client = "open" /\ Cardinality(LtAlive) = 1
  <2>1. PICK i : i \in LtAlive
    BY <1>1 DEF LtInv
  <2>2. LtAlive = {i} /\ lt_client = "open"
    BY <2>1 DEF LtInv, LtInOrder, LtAlive, LtLive
  <2>3. Cardinality({i}) = 1
    BY FS_Singleton
  <2> QED BY <2>2, <2>3
<1>2. lt_node = "none" => LtAlive = {}
  BY DEF LtInv
<1> QED BY <1>1, <1>2 DEF ThreadOwnsClient, LtInv

-----------------------------------------------------------------------------
(* LWM2M: the callbacks on Linux.                                          *)

\* The application connects a started client that is not serviced and releases
\* one no source refers to; ids of sources are stored before their callbacks run.
LlCalm == LlUnusual = {}

LlInv == ServiceEndsWithClient /\ (LlAttached # {} => ll_listed)

LEMMA LlStarts == LlInit => LlInv
<1> SUFFICES ASSUME LlInit PROVE LlInv
  OBVIOUS
<1>1. LlAttached = {} /\ LlServices = {}
  BY DEF LlInit, LlAttached, LlServices
<1>2. ll_count \in 0 .. LlMaxSources /\ ll_service \in 0 .. ll_count
  BY LlAssumption DEF LlInit
<1>3. LlTypeOK
  BY <1>1, <1>2 DEF LlInit, LlTypeOK
<1> QED BY <1>1, <1>3 DEF LlInit, LlInv, ServiceEndsWithClient

\* Steps that attach nothing, and leave what services the client alone.
LEMMA LlKeeps ==
    ASSUME LlInv, LlAttached' \subseteq LlAttached,
           \A k \in LlAttached' : ll_sources'[k] \in {"service", "new", "event"},
           LlServices' \subseteq LlServices,
           LlServices' # {} => ll_listed' /\ ll_client' = "open",
           LlAttached' # {} => ll_listed',
           UNCHANGED <<ll_service, ll_count>>,
           ll_listed' \in BOOLEAN, ll_connected' \in BOOLEAN, ll_client' \in {"none", "open", "stopped"},
           ll_callbacks' \subseteq LlEvents, ll_misused' = FALSE
    PROVE  LlInv'
<1>1. LlTypeOK'
  BY DEF LlInv, ServiceEndsWithClient, LlTypeOK
<1> QED BY <1>1 DEF LlInv, ServiceEndsWithClient

LEMMA LlSame ==
    ASSUME LlInv, UNCHANGED <<ll_sources, ll_listed, ll_client, ll_service, ll_count>>,
           ll_connected' \in BOOLEAN, ll_callbacks' \subseteq LlEvents, ll_misused' = FALSE
    PROVE  LlInv'
<1>1. LlAttached' = LlAttached /\ LlServices' = LlServices
  BY DEF LlAttached, LlServices
<1>2. ll_listed' \in BOOLEAN /\ ll_client' \in {"none", "open", "stopped"}
  BY DEF LlInv, ServiceEndsWithClient, LlTypeOK
<1> QED BY <1>1, <1>2, LlKeeps DEF LlInv, ServiceEndsWithClient, LlTypeOK

\* A source that is attached has the next number.
LEMMA LlAttaches ==
    ASSUME LlInv, NEW sort \in {"service", "new"}, LlAttach(sort)
    PROVE  /\ ll_count' = ll_count + 1 /\ ll_count' \in 0 .. LlMaxSources
           /\ ll_count' \notin LlAttached
           /\ LlAttached' = LlAttached \cup {ll_count'}
           /\ LlAttached' \subseteq 1 .. ll_count'
           /\ \A k \in LlAttached : ll_sources'[k] = ll_sources[k]
           /\ ll_sources'[ll_count'] = sort
<1>1. ll_count \in Nat /\ ll_count \in 0 .. LlMaxSources /\ LlAttached \subseteq 1 .. ll_count
  BY LlAssumption DEF LlInv, ServiceEndsWithClient, LlTypeOK
<1>2. ll_count' = ll_count + 1 /\ ll_count' \in 0 .. LlMaxSources
  BY <1>1, LlAssumption DEF LlAttach
<1>3. ll_count' \notin LlAttached
  BY <1>1, <1>2
<1>4. ll_sources' = [k \in LlAttached \cup {ll_count + 1} |->
                         IF k \in LlAttached THEN ll_sources[k] ELSE sort]
  BY DEF LlAttach
<1>5. LlAttached' = LlAttached \cup {ll_count'}
  BY <1>2, <1>4 DEF LlAttached
<1>6. LlAttached' \subseteq 1 .. ll_count'
  BY <1>1, <1>2, <1>5
<1>7. /\ \A k \in LlAttached : ll_sources'[k] = ll_sources[k]
      /\ ll_sources'[ll_count'] = sort
  BY <1>2, <1>3, <1>4
<1> QED BY <1>2, <1>3, <1>5, <1>6, <1>7

LEMMA LlWithoutOnes ==
    ASSUME NEW S, ll_sources' = LlWithout(S)
    PROVE  /\ LlAttached' = LlAttached \ S /\ LlServices' = LlServices \ S
           /\ \A k \in LlAttached' : ll_sources'[k] = ll_sources[k]
<1>1. LlAttached' = LlAttached \ S /\ \A k \in LlAttached' : ll_sources'[k] = ll_sources[k]
  BY DEF LlWithout, LlAttached
<1> QED BY <1>1 DEF LlServices

LEMMA LlSteps == LlCalm /\ LlInv /\ [LlNext]_llvars => LlInv'
<1> SUFFICES ASSUME LlCalm, LlInv, [LlNext]_llvars PROVE LlInv'
  OBVIOUS
<1>0. /\ LlTypeOK /\ ll_misused = FALSE /\ LlServices \subseteq {ll_service} /\ LlServices \subseteq LlAttached
      /\ LlServices # {} => ll_listed /\ ll_client = "open"
      /\ LlAttached # {} => ll_listed
  BY DEF LlInv, ServiceEndsWithClient, LlServices, LlTypeOK
<1>1. ASSUME LlRequest PROVE LlInv'
  <2>1. LlAttached' = {} /\ LlServices' = {}
    BY <1>0, <1>1 DEF LlRequest, LlAttached, LlServices
  <2>2. /\ ll_listed' \in BOOLEAN /\ ll_connected' \in BOOLEAN /\ ll_misused' = FALSE
        /\ ll_client' \in {"none", "open", "stopped"} /\ ll_callbacks' \subseteq LlEvents
        /\ ll_count' \in 0 .. LlMaxSources
    BY <1>0, <1>1 DEF LlRequest, LlTypeOK
  <2>3. ll_service' \in 0 .. ll_count'
    BY <1>0, <1>1, LlAssumption DEF LlRequest, LlTypeOK
  <2> QED BY <2>1, <2>2, <2>3 DEF LlInv, ServiceEndsWithClient, LlTypeOK
<1>2. ASSUME LlRelease PROVE LlInv'
  <2>1. LlAttached = {} /\ UNCHANGED <<ll_connected, ll_callbacks, ll_service, ll_sources, ll_count, ll_misused>>
        /\ ll_listed' = FALSE /\ ll_client' = "none"
    BY <1>2 DEF LlRelease, LlCalm
  <2>2. LlAttached' = {} /\ LlServices' = {}
    BY <2>1 DEF LlAttached, LlServices
  <2> QED BY <1>0, <2>1, <2>2, LlKeeps DEF LlTypeOK
<1>3. ASSUME LlConnect PROVE LlInv'
  <2>1. /\ LlServices = {} /\ ll_client = "open" /\ ll_listed /\ ll_misused' = FALSE
        /\ ll_connected' = FALSE /\ LlAttach("service") /\ ll_service' = ll_count'
        /\ UNCHANGED <<ll_listed, ll_client, ll_callbacks>>
    BY <1>0, <1>3 DEF LlConnect, LlCalm
  <2> DEFINE n == ll_count'
  <2>2. /\ n = ll_count + 1 /\ n \in 0 .. LlMaxSources /\ n \notin LlAttached
        /\ LlAttached' = LlAttached \cup {n} /\ LlAttached' \subseteq 1 .. n
        /\ \A k \in LlAttached : ll_sources'[k] = ll_sources[k]
        /\ ll_sources'[n] = "service"
    BY <2>1, LlAttaches
  <2>3. LlServices' = {n}
    BY <2>1, <2>2 DEF LlServices
  <2>4. n \in 0 .. n
    BY <2>2
  <2>5. LlTypeOK'
    BY <1>0, <2>1, <2>2, <2>4 DEF LlTypeOK
  <2> QED BY <2>1, <2>3, <2>5 DEF LlInv, ServiceEndsWithClient
<1>4. ASSUME LlDisconnect PROVE LlInv'
  <2>1. /\ ll_client = "open" /\ ll_misused' = FALSE /\ ll_client' = "stopped" /\ ll_listed
        /\ ll_sources' = LlWithout({ll_service})
        /\ UNCHANGED <<ll_listed, ll_connected, ll_callbacks, ll_service, ll_count>>
    BY <1>0, <1>4 DEF LlDisconnect, LlCalm
  <2>2. /\ LlAttached' = LlAttached \ {ll_service} /\ LlServices' = {}
        /\ \A k \in LlAttached' : ll_sources'[k] = ll_sources[k]
    BY <1>0, <2>1, LlWithoutOnes
  <2> QED BY <1>0, <2>1, <2>2, LlKeeps DEF LlTypeOK
<1>5. ASSUME LlAccess PROVE LlInv'
  BY <1>0, <1>5, LlSame DEF LlAccess, LlCalm, LlTypeOK
<1>6. ASSUME LlEvent PROVE LlInv'
  <2>1. /\ ll_client = "open" /\ ll_listed /\ LlAttach("new")
        /\ UNCHANGED <<ll_listed, ll_client, ll_connected, ll_callbacks, ll_service, ll_misused>>
    BY <1>0, <1>6 DEF LlEvent
  <2> DEFINE n == ll_count'
  <2>2. /\ n = ll_count + 1 /\ n \in 0 .. LlMaxSources /\ n \notin LlAttached
        /\ LlAttached' = LlAttached \cup {n} /\ LlAttached' \subseteq 1 .. n
        /\ \A k \in LlAttached : ll_sources'[k] = ll_sources[k]
        /\ ll_sources'[n] = "new"
    BY <2>1, LlAttaches
  <2>3. LlServices' = LlServices
    BY <2>1, <2>2 DEF LlServices
  <2>4. ll_service' \in 0 .. n
    BY <1>0, <2>1, <2>2, LlAssumption DEF LlTypeOK
  <2>5. LlTypeOK'
    BY <1>0, <2>1, <2>2, <2>4 DEF LlTypeOK
  <2> QED BY <1>0, <2>1, <2>3, <2>5 DEF LlInv, ServiceEndsWithClient
<1>7. ASSUME NEW e \in LlEvents, LlSetCallback(e) \/ LlUnsetCallback(e) PROVE LlInv'
  BY <1>0, <1>7, LlSame DEF LlSetCallback, LlUnsetCallback, LlTypeOK
<1>8. ASSUME NEW k \in LlAttached, NEW result \in {"end", "disconnected", "ok"},
             LlServiceCallback(k, result)
      PROVE  LlInv'
  <2>1. /\ ll_misused' = FALSE /\ ll_client = "open" /\ ll_listed
        /\ UNCHANGED <<ll_listed, ll_client, ll_callbacks, ll_service, ll_count>>
    BY <1>0, <1>8 DEF LlServiceCallback
  <2>2. ll_connected' \in BOOLEAN
    BY <1>0, <1>8 DEF LlServiceCallback, LlTypeOK
  <2>3. ASSUME ll_sources' = ll_sources PROVE LlInv'
    BY <1>0, <2>1, <2>2, <2>3, LlSame DEF LlTypeOK
  <2>4. ASSUME ll_sources' = LlWithout({k}) PROVE LlInv'
    <3>1. /\ LlAttached' = LlAttached \ {k} /\ LlServices' = LlServices \ {k}
          /\ \A j \in LlAttached' : ll_sources'[j] = ll_sources[j]
      BY <2>4, LlWithoutOnes
    <3> QED BY <1>0, <2>1, <2>2, <3>1, LlKeeps DEF LlTypeOK
  <2> QED BY <1>8, <2>3, <2>4 DEF LlServiceCallback
<1>9. ASSUME NEW k \in LlAttached, LlIdStored(k) PROVE LlInv'
  <2>1. LlAttached' = LlAttached
    BY <1>9 DEF LlIdStored, LlAttached
  <2>2. \A j \in LlAttached : ll_sources'[j] = IF j = k THEN "event" ELSE ll_sources[j]
    BY <1>9 DEF LlIdStored, LlAttached
  <2>3. LlServices' \subseteq LlServices
    BY <2>1, <2>2 DEF LlServices
  <2> QED BY <1>0, <1>9, <2>1, <2>2, <2>3, LlKeeps DEF LlIdStored, LlTypeOK
<1>10. ASSUME NEW k \in LlAttached, NEW id \in 1 .. LlMaxSources, LlIdleCallback(k, id) PROVE LlInv'
  <2>1. /\ id = k /\ ll_listed /\ ll_misused' = FALSE /\ ll_sources' = LlWithout({k, id})
        /\ UNCHANGED <<ll_listed, ll_client, ll_connected, ll_callbacks, ll_service, ll_count>>
    BY <1>0, <1>10 DEF LlIdleCallback, LlCalm, LlTypeOK
  <2>2. /\ LlAttached' = LlAttached \ {k, id} /\ LlServices' = LlServices \ {k, id}
        /\ \A j \in LlAttached' : ll_sources'[j] = ll_sources[j]
    BY <2>1, LlWithoutOnes
  <2> QED BY <1>0, <2>1, <2>2, LlKeeps DEF LlTypeOK
<1>11. ASSUME UNCHANGED llvars PROVE LlInv'
  BY <1>0, <1>11, LlSame DEF llvars, LlTypeOK
<1> QED BY <1>1, <1>2, <1>3, <1>4, <1>5, <1>6, <1>7, <1>8, <1>9, <1>10, <1>11 DEF LlNext

-----------------------------------------------------------------------------
(* Security: handles and the device.                                       *)

\* The handle of a failed request is released before the next request.
SecCalm == "unreleased" \notin SecUnusual

LEMMA SecStarts == SecInit => DeviceServesHandles
  BY DEF SecInit, DeviceServesHandles, SecTypeOK, Outcomes

\* Every operation of the device leaves handles and device alone.
LEMMA OperationKeeps ==
    ASSUME DeviceServesHandles, NEW h \in SecHandles, NEW need,
           NEW effect \in [SecNames -> SUBSET Kinds], Operation(h, need, effect)
    PROVE  DeviceServesHandles'
<1>1. store' \in [SecNames -> SUBSET Kinds]
  BY DEF Operation, DeviceServesHandles, SecTypeOK
<1>2. outcome' \in Outcomes
  BY DEF Operation, Outcomes
<1> QED BY <1>1, <1>2 DEF Operation, DeviceServesHandles, SecTypeOK

LEMMA ObjectKeeps ==
    ASSUME DeviceServesHandles, NEW h \in SecHandles, NEW n \in SecNames, NEW sort \in Kinds,
           Puts(h, n, sort) \/ Removes(h, n, sort) \/ Reads(h, n, sort)
    PROVE  DeviceServesHandles'
<1>1. store \in [SecNames -> SUBSET Kinds]
  BY DEF DeviceServesHandles, SecTypeOK
<1>2. [store EXCEPT ![n] = @ \cup {sort}] \in [SecNames -> SUBSET Kinds]
  BY <1>1
<1>3. [store EXCEPT ![n] = @ \ {sort}] \in [SecNames -> SUBSET Kinds]
  BY <1>1
<1>4. CASE Puts(h, n, sort)
  BY <1>2, <1>4, OperationKeeps DEF Puts
<1>5. CASE Removes(h, n, sort)
  BY <1>3, <1>5, OperationKeeps DEF Removes
<1>6. CASE Reads(h, n, sort)
  BY <1>1, <1>6, OperationKeeps DEF Reads
<1> QED BY <1>4, <1>5, <1>6

LEMMA SecSteps == SecCalm /\ DeviceServesHandles /\ [SecNext]_secvars => DeviceServesHandles'
<1> SUFFICES ASSUME SecCalm, DeviceServesHandles, [SecNext]_secvars PROVE DeviceServesHandles'
  OBVIOUS
<1>0. SecTypeOK /\ lib = dev /\ (served # {} => dev) /\ (secnodes = {} => ~lib)
  BY DEF DeviceServesHandles
<1>1. ASSUME NEW h \in SecHandles, NEW b \in BOOLEAN, SecRequest(h, b) PROVE DeviceServesHandles'
  <2>1. /\ secnodes' = secnodes \cup {h} /\ UNCHANGED <<store, verify>>
        /\ (lib' = b /\ dev' = b /\ ~lib) \/ (lib' = lib /\ dev' = dev)
        /\ outcome' \in Outcomes
        /\ served' = IF outcome' = "ok" THEN served \cup {h} ELSE served
    BY <1>1 DEF SecRequest, Outcomes
  <2>2. lib' \in BOOLEAN /\ dev' \in BOOLEAN /\ lib' = dev' /\ secnodes' # {}
    <3>1. secnodes' # {}
      BY <2>1
    <3>2. ASSUME lib' = b, dev' = b PROVE lib' \in BOOLEAN /\ dev' \in BOOLEAN /\ lib' = dev'
      BY <3>2
    <3>3. ASSUME lib' = lib, dev' = dev PROVE lib' \in BOOLEAN /\ dev' \in BOOLEAN /\ lib' = dev'
      BY <1>0, <3>3 DEF SecTypeOK
    <3> QED BY <2>1, <3>1, <3>2, <3>3
  <2>3. served' \subseteq secnodes' /\ secnodes' \subseteq SecHandles
    BY <1>0, <2>1 DEF SecTypeOK
  <2>4. served' # {} => dev'
    <3>1. CASE lib
      BY <1>0, <1>1, <3>1 DEF SecRequest
    <3>2. CASE ~lib
      <4>1. secnodes = {} /\ served = {}
        BY <1>0, <1>1, <3>2 DEF SecRequest, SecCalm, SecTypeOK
      <4>2. Cardinality(secnodes') = 1
        BY <2>1, <4>1, FS_Singleton
      <4>3. dev' = b /\ outcome' = IF b THEN "ok" ELSE "not_initialized"
        BY <1>1, <3>2, <4>2 DEF SecRequest
      <4> QED BY <2>1, <4>1, <4>3
    <3> QED BY <3>1, <3>2
  <2> QED BY <1>0, <2>1, <2>2, <2>3, <2>4 DEF DeviceServesHandles, SecTypeOK
<1>2. ASSUME NEW h \in SecHandles, NEW b \in BOOLEAN, VerifySignatureInit(h, b)
      PROVE  DeviceServesHandles'
  <2>1. DOMAIN verify' \subseteq SecHandles /\ \A x \in DOMAIN verify' : verify'[x] \in 0 .. MaxChunks
    BY <1>0, <1>2, SecAssumption DEF VerifySignatureInit, SecTypeOK
  <2>2. outcome' \in Outcomes
    BY <1>2 DEF VerifySignatureInit, Outcomes
  <2> QED BY <1>0, <1>2, <2>1, <2>2 DEF VerifySignatureInit, DeviceServesHandles, SecTypeOK
<1>3. ASSUME NEW h \in SecHandles, SecRelease(h) PROVE DeviceServesHandles'
  <2>1. served' \subseteq secnodes' /\ secnodes' \subseteq SecHandles
    BY <1>0, <1>3 DEF SecRelease, SecTypeOK
  <2>2. \/ secnodes' = {} /\ lib' = FALSE /\ dev' = FALSE
        \/ secnodes' # {} /\ lib' = lib /\ dev' = dev
        \/ ~lib /\ lib' = lib /\ dev' = dev
    BY <1>3 DEF SecRelease
  <2>3. lib' \in BOOLEAN /\ dev' \in BOOLEAN /\ lib' = dev' /\ (secnodes' = {} => ~lib')
    <3>1. ASSUME secnodes' = {}, lib' = FALSE, dev' = FALSE
          PROVE  lib' \in BOOLEAN /\ dev' \in BOOLEAN /\ lib' = dev' /\ (secnodes' = {} => ~lib')
      BY <3>1
    <3>2. ASSUME secnodes' # {} \/ ~lib, lib' = lib, dev' = dev
          PROVE  lib' \in BOOLEAN /\ dev' \in BOOLEAN /\ lib' = dev' /\ (secnodes' = {} => ~lib')
      <4>1. lib' \in BOOLEAN /\ dev' \in BOOLEAN /\ lib' = dev'
        BY <1>0, <3>2 DEF SecTypeOK
      <4>2. secnodes' = {} => ~lib'
        BY <3>2
      <4> QED BY <4>1, <4>2
    <3> QED BY <2>2, <3>1, <3>2
  <2>4. served' # {} => dev'
    BY <1>0, <1>3, <2>1, <2>2 DEF SecRelease
  <2> QED BY <1>0, <1>3, <2>1, <2>3, <2>4 DEF SecRelease, DeviceServesHandles, SecTypeOK, Outcomes
<1>4. ASSUME NEW h \in SecHandles, GetRandomBytes(h) \/ GetHash(h) PROVE DeviceServesHandles'
  BY <1>0, <1>4, OperationKeeps DEF GetRandomBytes, GetHash, SecTypeOK
<1>5. ASSUME NEW h \in SecHandles, VerifySignatureUpdate(h) PROVE DeviceServesHandles'
  <2>1. DOMAIN verify' \subseteq SecHandles /\ \A x \in DOMAIN verify' : verify'[x] \in 0 .. MaxChunks
    <3>1. ASSUME h \in DOMAIN verify
          PROVE  DOMAIN verify' = DOMAIN verify /\ verify[h] + 1 \in 0 .. MaxChunks
                 /\ \A x \in DOMAIN verify : verify'[x] = IF x = h THEN verify[h] + 1 ELSE verify[x]
      BY <1>0, <1>5, <3>1, SecAssumption DEF VerifySignatureUpdate, SecTypeOK
    <3>2. ASSUME h \notin DOMAIN verify PROVE verify' = verify
      BY <1>5, <3>2 DEF VerifySignatureUpdate
    <3> QED BY <1>0, <3>1, <3>2 DEF SecTypeOK
  <2>2. outcome' \in Outcomes
    BY <1>5 DEF VerifySignatureUpdate, Outcomes
  <2> QED BY <1>0, <1>5, <2>1, <2>2 DEF VerifySignatureUpdate, DeviceServesHandles, SecTypeOK
<1>6. ASSUME NEW h \in SecHandles, VerifySignatureFinal(h) PROVE DeviceServesHandles'
  <2>1. DOMAIN verify' \subseteq SecHandles /\ \A x \in DOMAIN verify' : verify'[x] \in 0 .. MaxChunks
    BY <1>0, <1>6 DEF VerifySignatureFinal, SecTypeOK
  <2>2. outcome' \in Outcomes
    BY <1>6 DEF VerifySignatureFinal, Outcomes
  <2> QED BY <1>0, <1>6, <2>1, <2>2 DEF VerifySignatureFinal, DeviceServesHandles, SecTypeOK
<1>7. ASSUME NEW h \in SecHandles, NEW n \in SecNames,
              \/ GetHmac(h, n) \/ SetCertificate(h, n) \/ GetCertificate(h, n)
              \/ GetCertificatePemChain(h, n) \/ RemoveCertificate(h, n)
              \/ RsaSignature(h, n) \/ EcdsaSignature(h, n)
              \/ GenerateDhmParams(h, n) \/ SetDhmParams(h, n)
              \/ ComputeDhmParams(h, n) \/ GenerateEcdhParams(h, n)
              \/ ComputeEcdhParams(h, n) \/ GenerateKey(h, n) \/ SetKey(h, n)
              \/ GetPublicKey(h, n) \/ RemoveKey(h, n)
              \/ WriteSecureStorage(h, n) \/ ReadSecureStorage(h, n)
              \/ RemoveSecureStorage(h, n) \/ AesCipher(h, n) \/ RsaCipher(h, n)
      PROVE  DeviceServesHandles'
  <2>1. \E sort \in Kinds : Puts(h, n, sort) \/ Removes(h, n, sort) \/ Reads(h, n, sort)
    BY <1>7 DEF Kinds, GetHmac, SetCertificate, GetCertificate, GetCertificatePemChain,
                RemoveCertificate, RsaSignature, EcdsaSignature, GenerateDhmParams, SetDhmParams,
                ComputeDhmParams, GenerateEcdhParams, ComputeEcdhParams, GenerateKey, SetKey,
                GetPublicKey, RemoveKey, WriteSecureStorage, ReadSecureStorage,
                RemoveSecureStorage, AesCipher, RsaCipher
  <2> QED BY <2>1, ObjectKeeps
<1>8. ASSUME UNCHANGED secvars PROVE DeviceServesHandles'
  BY <1>0, <1>8 DEF secvars, DeviceServesHandles, SecTypeOK
<1> QED BY <1>1, <1>2, <1>3, <1>4, <1>5, <1>6, <1>7, <1>8 DEF SecNext

-----------------------------------------------------------------------------
(* Security on TizenRT: handles, the device and its storage.               *)

\* The device can be initialised; reads are within data that are there.
TsCalm == "missing" \notin TsUnusual /\ "beyond" \notin TsUnusual /\ "absent" \notin TsUnusual

\* The device is there, and initialised, exactly while there are handles.
TsInv ==
    /\ ts_held \subseteq ts_nodes
    /\ ts_dev = (ts_nodes # {}) /\ ts_inited = (ts_nodes # {})
    /\ ts_data \in Seq(TsTexts) /\ Len(ts_data) <= TsMaxData
    /\ ts_read[1] = ts_read[2] /\ ts_fault = "none"

LEMMA TsStarts == TsInit => TsInv
<1> SUFFICES ASSUME TsInit PROVE TsInv
  OBVIOUS
<1>1. <<>> \in Seq(TsTexts) /\ Len(<<>>) <= TsMaxData
  BY TsAssumption
<1>2. ts_dev = (ts_nodes # {}) /\ ts_inited = (ts_nodes # {})
  BY DEF TsInit
<1> QED BY <1>1, <1>2 DEF TsInit, TsInv

\* What is written is not longer than the store.
LEMMA TsWrites ==
    ASSUME TsInv, NEW h, NEW offset \in 0 .. TsMaxData, NEW t \in TsTexts, write_secure_storage(h, offset, <<t>>)
    PROVE  ts_data' \in Seq(TsTexts) /\ Len(ts_data') <= TsMaxData
<1> DEFINE n == Len(ts_data)
           text == <<t>>
           before == SubSeq(ts_data, 1, offset)
           after == SubSeq(ts_data, offset + 2, n)
<1>1. ts_data \in Seq(TsTexts) /\ n \in Nat /\ n <= TsMaxData /\ \A i \in 1 .. n : ts_data[i] \in TsTexts
  BY DEF TsInv
<1>2. Len(text) = 1 /\ text \in Seq(TsTexts)
  OBVIOUS
<1>4. offset \in Nat
  BY TsAssumption
<1>3. offset <= n /\ offset + 1 <= TsMaxData /\ ts_data' = before \o text \o after
  <2>1. offset <= n /\ offset + Len(text) <= TsMaxData /\ ts_data' = before \o text \o SubSeq(ts_data, offset + Len(text) + 1, n)
    BY DEF write_secure_storage
  <2>2. offset + Len(text) = offset + 1 /\ offset + Len(text) + 1 = offset + 2
    BY <1>2, <1>4
  <2> QED BY <2>1, <2>2
<1>5. before \in Seq(TsTexts) /\ Len(before) = offset
  <2>1. \A i \in 1 .. offset : ts_data[i] \in TsTexts
    BY <1>1, <1>3, <1>4
  <2>2. before \in Seq(TsTexts) /\ Len(before) = IF 1 <= offset THEN offset - 1 + 1 ELSE 0
    BY <1>1, <1>4, <2>1, SubSeqProperties
  <2> QED BY <1>4, <2>2
<1>6. after \in Seq(TsTexts) /\ Len(after) = IF offset + 2 <= n THEN n - (offset + 2) + 1 ELSE 0
  <2>1. \A i \in offset + 2 .. n : ts_data[i] \in TsTexts
    BY <1>1, <1>3, <1>4
  <2> QED BY <1>1, <1>4, <2>1, SubSeqProperties
<1> HIDE DEF before, after, text, n
<1>7. before \o text \in Seq(TsTexts) /\ Len(before \o text) = offset + 1
  <2>1. before \o text \in Seq(TsTexts) /\ Len(before \o text) = Len(before) + Len(text)
    BY <1>2, <1>5, ConcatProperties
  <2> QED BY <1>2, <1>5, <2>1
<1>8. (before \o text) \o after \in Seq(TsTexts) /\ Len((before \o text) \o after) = (offset + 1) + Len(after)
  <2>1. (before \o text) \o after \in Seq(TsTexts) /\ Len((before \o text) \o after) = Len(before \o text) + Len(after)
    BY <1>6, <1>7, ConcatProperties
  <2> QED BY <1>7, <2>1
<1>9. (offset + 1) + Len(after) <= TsMaxData
  BY <1>1, <1>3, <1>4, <1>6, TsAssumption
<1> QED BY <1>3, <1>8, <1>9

\* What is read is what there is.
LEMMA TsReads ==
    ASSUME TsCalm, TsInv, NEW h, NEW offset \in 0 .. TsWord - 1, NEW size \in 0 .. TsWord - 1,
           read_secure_storage(h, offset, size)
    PROVE  ts_read'[1] = ts_read'[2] /\ ts_fault' = "none"
<1> DEFINE n == Len(ts_data)
           copied == Copied(offset, size)
<1>1. n \in Nat /\ n <= TsMaxData /\ offset \in Nat /\ size \in Nat /\ ts_fault = "none" /\ TsWord \in Nat /\ n < TsWord
  BY TsAssumption DEF TsInv
<1>2. offset <= n /\ offset + size < TsWord /\ ts_data # <<>>
  BY DEF read_secure_storage, TsCalm
<1>3. (offset + size) % TsWord = offset + size /\ (n - offset) % TsWord = n - offset
  <2>1. offset + size \in 0 .. TsWord - 1 /\ n - offset \in 0 .. TsWord - 1
    BY <1>1, <1>2
  <2>2. \A r \in 0 .. TsWord - 1 : r % TsWord = r
    BY <1>1
  <2> QED BY <2>1, <2>2
<1>4. copied = IF offset + size > n THEN n - offset ELSE size
  BY <1>3 DEF Copied
<1> HIDE DEF copied
<1>5. ~ (offset + copied > n) /\ (IF offset + copied < n THEN offset + copied ELSE n) = (IF offset + size < n THEN offset + size ELSE n)
  BY <1>1, <1>2, <1>4
<1>6. Part(offset, copied) = Part(offset, size)
  BY <1>5 DEF Part
<1>7. ts_fault' = ts_fault
  BY <1>2, <1>5 DEF read_secure_storage, copied
<1> QED BY <1>1, <1>6, <1>7 DEF read_secure_storage, copied

\* Calls of a handle leave the handles and the device alone.
LEMMA TsKeepsInv ==
    ASSUME TsInv, NEW h, TsCall(h), ts_data' \in Seq(TsTexts), Len(ts_data') <= TsMaxData,
           ts_read'[1] = ts_read'[2], ts_fault' = "none"
    PROVE  TsInv'
BY DEF TsInv, TsCall

LEMMA TsSteps ==
    ASSUME TsCalm, TsInv, TsNext
    PROVE  TsInv'
<1>0. ts_data \in Seq(TsTexts) /\ Len(ts_data) <= TsMaxData /\ ts_read[1] = ts_read[2] /\ ts_fault = "none"
  BY DEF TsInv
<1>1. ASSUME NEW h, NEW fails \in {"nothing", "init", "get"}, os_security_request_tizenrt(h, fails) PROVE TsInv'
  <2>1. fails = "nothing" /\ ts_nodes' = ts_nodes \cup {h} /\ ts_held' = ts_held \cup {h} /\ UNCHANGED <<ts_store, ts_data, ts_read, ts_fault>>
    BY <1>1 DEF os_security_request_tizenrt, TsCalm
  <2>2. ts_inited' = TRUE /\ ts_dev' = TRUE
    BY <1>1, <2>1 DEF os_security_request_tizenrt, TsInv
  <2>3. (ts_nodes' # {}) = TRUE
    BY <2>1
  <2> QED BY <2>1, <2>2, <2>3 DEF TsInv
<1>2. ASSUME NEW h, os_security_release_tizenrt(h) PROVE TsInv'
  <2> DEFINE stay == ts_nodes \ {h}
  <2>1. h \in ts_nodes /\ ts_nodes' = stay /\ ts_held' = ts_held \ {h} /\ UNCHANGED <<ts_store, ts_data, ts_read, ts_fault>>
    BY <1>2 DEF os_security_release_tizenrt, TsInv
  <2>2. ts_dev = TRUE /\ ts_inited = TRUE
    BY <2>1 DEF TsInv
  <2>3. CASE stay = {}
    <3>1. ts_dev' = FALSE /\ ts_inited' = FALSE /\ (ts_nodes' # {}) = FALSE
      BY <1>2, <2>1, <2>2, <2>3 DEF os_security_release_tizenrt, Released
    <3> QED BY <2>1, <3>1 DEF TsInv
  <2>4. CASE stay # {}
    <3>1. ts_dev' = TRUE /\ ts_inited' = TRUE /\ (ts_nodes' # {}) = TRUE
      BY <1>2, <2>1, <2>2, <2>4 DEF os_security_release_tizenrt, Released
    <3> QED BY <2>1, <3>1 DEF TsInv
  <2> QED BY <2>3, <2>4
<1>3. ASSUME NEW h, TsCall(h), UNCHANGED <<ts_data, ts_read, ts_fault>> PROVE TsInv'
  BY <1>0, <1>3, TsKeepsInv
<1>4. ASSUME NEW h, NEW sort, Computes(h, sort) PROVE TsInv'
  BY <1>3, <1>4 DEF Computes
<1>5. ASSUME NEW h, NEW kept, Keeps(h, kept) PROVE TsInv'
  BY <1>3, <1>5 DEF Keeps
<1>6. ASSUME NEW h, NEW offset \in 0 .. TsMaxData, NEW t \in TsTexts, write_secure_storage(h, offset, <<t>>) PROVE TsInv'
  <2>1. ts_data' \in Seq(TsTexts) /\ Len(ts_data') <= TsMaxData
    BY <1>6, TsWrites
  <2>2. TsCall(h) /\ ts_read' = ts_read /\ ts_fault' = ts_fault
    BY <1>6 DEF write_secure_storage
  <2> QED BY <1>0, <2>1, <2>2, TsKeepsInv
<1>7. ASSUME NEW h, NEW offset \in 0 .. TsWord - 1, NEW size \in 0 .. TsWord - 1, read_secure_storage(h, offset, size) PROVE TsInv'
  <2>1. ts_read'[1] = ts_read'[2] /\ ts_fault' = "none"
    BY <1>7, TsReads
  <2>2. TsCall(h) /\ ts_data' = ts_data
    BY <1>7 DEF read_secure_storage
  <2> QED BY <1>0, <2>1, <2>2, TsKeepsInv
<1>8. ASSUME NEW h, remove_secure_storage(h) PROVE TsInv'
  <2>1. TsCall(h) /\ ts_data' = <<>> /\ ts_read' = ts_read /\ ts_fault' = ts_fault
    BY <1>8 DEF remove_secure_storage
  <2>2. <<>> \in Seq(TsTexts) /\ Len(<<>>) <= TsMaxData
    BY TsAssumption
  <2> QED BY <1>0, <2>1, <2>2, TsKeepsInv
<1>9. ASSUME NEW h, \/ get_random_bytes(h) \/ get_hash(h) \/ get_hmac(h) \/ rsa_signature(h) \/ ecdsa_signature(h)
                    \/ compute_dhm_params(h) \/ compute_ecdh_params(h) \/ aes_cipher(h) \/ rsa_cipher(h)
                    \/ get_publickey(h) \/ get_certificate(h) \/ get_certificate_pem_chain(h)
      PROVE TsInv'
  BY <1>4, <1>9 DEF get_random_bytes, get_hash, get_hmac, rsa_signature, ecdsa_signature, compute_dhm_params,
     compute_ecdh_params, aes_cipher, rsa_cipher, get_publickey, get_certificate, get_certificate_pem_chain
<1>10. ASSUME NEW h, \/ set_certificate(h) \/ remove_certificate(h) \/ generate_dhm_params(h) \/ set_dhm_params(h)
                     \/ generate_ecdh_params(h) \/ generate_key(h) \/ set_key(h) \/ remove_key(h)
       PROVE TsInv'
  BY <1>5, <1>10 DEF set_certificate, remove_certificate, generate_dhm_params, set_dhm_params, generate_ecdh_params,
     generate_key, set_key, remove_key
<1> QED BY <1>1, <1>2, <1>6, <1>7, <1>8, <1>9, <1>10 DEF TsNext

LEMMA TsGives == TsInv => DeviceIsShared
<1> SUFFICES ASSUME TsInv PROVE DeviceIsShared
  OBVIOUS
<1>1. \A h \in ts_held : h \in ts_nodes /\ ts_dev
  BY DEF TsInv
<1>2. ts_inited => ts_nodes # {}
  BY DEF TsInv
<1> QED BY <1>1, <1>2 DEF TsInv, DeviceIsShared, Reaches

LEMMA TsUnchanged == ASSUME TsInv, UNCHANGED tsvars PROVE TsInv'
BY DEF TsInv, tsvars

-----------------------------------------------------------------------------
(* Peripherals: handles and their descriptors.                             *)

\* A callback is set once and unset before the release, that of a serial port not at
\* all; files of a channel that is exported open, and a read gives all samples.
PeCalm == PeUnusual = {}

PeKinds == {"gpio", "serial", "pwm", "adc"}

\* The descriptors of a peripheral that is in a list.
PeHas(nodes, n) ==
    IF n \in DOMAIN nodes
    THEN nodes[n].files \cup (IF nodes[n].fd = 0 THEN {} ELSE {nodes[n].fd})
    ELSE {}

\* A descriptor is open for whom it belongs to.
PeOwn(fds, nodes) == \A f \in PeFds \ {0}, n \in PeNodes : fds[f] = n <=> f \in PeHas(nodes, n)

\* What the data of a peripheral holds is a matter of its kind.
PeFits(sort, data, os) ==
    /\ data \in PeData /\ 0 \notin data.files
    /\ data.watch => data.fd # 0 /\ sort \in {"gpio", "serial"}
    /\ data.files # {} => sort = "pwm" /\ os = "linux"
    /\ data.fd # 0 => (sort = "gpio" => data.watch) /\ sort # "adc" /\ ~(sort = "pwm" /\ os = "linux")
    /\ data.fd = 0 => sort # "serial" /\ ~(sort = "pwm" /\ os = "tizenrt")

PeWatched(watches, nodes) ==
    /\ watches \subseteq [fd : PeFds, node : PeNodes]
    /\ \A w \in watches : w.node \in DOMAIN nodes /\ nodes[w.node].watch /\ nodes[w.node].fd = w.fd

\* What is exported, and what may be enabled.
PeExports(n) == pe_os = "linux" /\ PeKind(n) \in {"gpio", "pwm"}
PeEnables(n) == PeKind(n) = "pwm"

PeInv ==
    /\ pe_os \in {"linux", "tizenrt"} /\ pe_wrong = FALSE
    /\ pe_fds \in [PeFds -> PeNodes \cup {PeStdin, PeNobody}] /\ pe_fds[0] = PeStdin
    /\ DOMAIN pe_nodes \subseteq PeNodes
    /\ \A n \in DOMAIN pe_nodes : PeFits(PeKind(n), pe_nodes[n], pe_os)
    /\ PeOwn(pe_fds, pe_nodes)
    /\ PeWatched(pe_watches, pe_nodes)
    /\ \A n : n \in pe_exported <=> n \in DOMAIN pe_nodes /\ PeExports(n)
    /\ \A n \in pe_on : n \in DOMAIN pe_nodes /\ PeEnables(n)

LEMMA PeNames ==
    /\ PeNobody \notin PeNodes /\ PeStdin \notin PeNodes /\ PeStdin # PeNobody
    /\ \A n \in PeNodes : PeKind(n) \in PeKinds /\ (PeKind(n) = "adc" => n[2] \in PeAdcs)
<1>1. \A n \in PeNodes : PeKind(n) \in PeKinds /\ (PeKind(n) = "adc" => n[2] \in PeAdcs)
  BY DEF PeNodes, PeKind, PeKinds
<1>2. PeKind(PeNobody) \notin PeKinds /\ PeKind(PeStdin) \notin PeKinds
  BY DEF PeKind, PeKinds, PeNobody, PeStdin
<1>3. PeStdin # PeNobody
  BY DEF PeStdin, PeNobody
<1> QED BY <1>1, <1>2, <1>3

\* The lowest of the free descriptors, as many as are asked for.
LEMMA PeLowestOf ==
    ASSUME NEW S, S \subseteq Nat, IsFiniteSet(S), NEW k \in Nat, k <= Cardinality(S)
    PROVE  \E T \in SUBSET S : Cardinality(T) = k /\ \A f \in T, g \in S \ T : f < g
<1> DEFINE Is(i) == \E T \in SUBSET S : Cardinality(T) = i /\ \A f \in T, g \in S \ T : f < g
           Misses == {i \in 0 .. k : ~Is(i)}
<1> SUFFICES ASSUME Misses # {} PROVE FALSE
  <2>1. k \in 0 .. k
    OBVIOUS
  <2> QED BY <2>1
<1>0. Cardinality(S) \in Nat
  BY FS_CardinalityType
<1>1. PICK i \in Misses : \A j \in Misses : i <= j
  <2>1. Misses \subseteq Nat
    OBVIOUS
  <2> HIDE DEF Misses
  <2> QED BY <2>1, NatHasLowest
<1>2. i \in 0 .. k /\ ~Is(i)
  BY <1>1
<1>3. Is(0)
  <2>1. Cardinality({}) = 0 /\ {} \in SUBSET S
    BY FS_EmptySet
  <2> QED BY <2>1
<1>4. i # 0 /\ i - 1 \in 0 .. k
  BY <1>2, <1>3
<1>5. Is(i - 1)
  <2>1. i - 1 \notin Misses
    BY <1>1, <1>2, <1>4
  <2> QED BY <1>4, <2>1
<1>6. PICK T \in SUBSET S : Cardinality(T) = i - 1 /\ \A f \in T, g \in S \ T : f < g
  BY <1>5
<1>7. IsFiniteSet(T) /\ Cardinality(T) \in Nat
  BY FS_Subset, FS_CardinalityType
<1>8. S \ T # {}
  <2> SUFFICES ASSUME S = T PROVE FALSE
    BY <1>6
  <2>1. Cardinality(S) = i - 1
    BY <1>6
  <2> QED BY <1>0, <1>2, <2>1
<1>9. PICK m \in S \ T : \A g \in S \ T : m <= g
  <2>1. S \ T \subseteq Nat
    OBVIOUS
  <2> QED BY <1>8, <2>1, NatHasLowest
<1>10. Cardinality(T \cup {m}) = i
  <2>1. Cardinality(T \cup {m}) = Cardinality(T) + 1
    BY <1>7, <1>9, FS_AddElement
  <2> QED BY <1>2, <1>6, <2>1
<1>11. \A f \in T \cup {m}, g \in S \ (T \cup {m}) : f < g
  BY <1>6, <1>9
<1>12. Is(i)
  BY <1>10, <1>11
<1> QED BY <1>2, <1>12

LEMMA PeLowestIs ==
    ASSUME NEW k \in Nat, PeCanOpen(k)
    PROVE  PeLowest(k) \subseteq PeFree /\ (k = 1 => PeLowest(k) # {})
<1>1. PeFree \subseteq PeFds /\ PeFds \subseteq Nat /\ IsFiniteSet(PeFds)
  BY PeAssumption, FS_Interval DEF PeFree, PeFds
<1>2. IsFiniteSet(PeFree) /\ PeFree \subseteq Nat
  BY <1>1, FS_Subset
<1>3. Cardinality(PeFree) >= k /\ Cardinality(PeFree) \in Nat
  BY <1>2, FS_CardinalityType DEF PeCanOpen
<1>4. k <= Cardinality(PeFree)
  BY <1>3
<1>5. \E T \in SUBSET PeFree : Cardinality(T) = k /\ \A f \in T, g \in PeFree \ T : f < g
  BY <1>2, <1>4, PeLowestOf
<1>6. PeLowest(k) \in SUBSET PeFree /\ Cardinality(PeLowest(k)) = k
  BY <1>5 DEF PeLowest
<1>7. Cardinality({}) = 0
  BY FS_EmptySet
<1> QED BY <1>6, <1>7

\* A step that changes what one peripheral holds, and whose descriptors are open.
LEMMA PeMoves ==
    ASSUME NEW fds, NEW nodes, PeOwn(fds, nodes), NEW n \in PeNodes, NEW fds2, NEW nodes2,
           \A m \in PeNodes : m # n => PeHas(nodes2, m) = PeHas(nodes, m),
           \A f \in PeFds \ {0} :
              /\ f \in PeHas(nodes2, n) => fds[f] \in {PeNobody, n} /\ fds2[f] = n
              /\ f \notin PeHas(nodes2, n) =>
                    fds2[f] = IF f \in PeHas(nodes, n) THEN PeNobody ELSE fds[f]
    PROVE  PeOwn(fds2, nodes2)
<1> SUFFICES ASSUME NEW f \in PeFds \ {0}, NEW m \in PeNodes PROVE fds2[f] = m <=> f \in PeHas(nodes2, m)
  BY DEF PeOwn
<1>1. (fds[f] = m <=> f \in PeHas(nodes, m)) /\ (fds[f] = n <=> f \in PeHas(nodes, n))
  BY DEF PeOwn
<1>2. m # PeNobody /\ n # PeNobody
  BY PeNames
<1> QED BY <1>1, <1>2

PeHeld(data) == data.files \cup (IF data.fd = 0 THEN {} ELSE {data.fd})

\* What a list is after its operations.
LEMMA PeAddIs ==
    ASSUME NEW n, NEW data, PeAdd(n, data)
    PROVE  /\ DOMAIN pe_nodes' = DOMAIN pe_nodes \cup {n} /\ pe_nodes'[n] = data
           /\ \A m \in DOMAIN pe_nodes : m # n => pe_nodes'[m] = pe_nodes[m]
           /\ \A m : m # n => PeHas(pe_nodes', m) = PeHas(pe_nodes, m)
           /\ PeHas(pe_nodes', n) = PeHeld(data)
<1>1. /\ DOMAIN pe_nodes' = DOMAIN pe_nodes \cup {n} /\ pe_nodes'[n] = data
      /\ \A m \in DOMAIN pe_nodes : m # n => pe_nodes'[m] = pe_nodes[m]
  BY DEF PeAdd
<1>2. \A m : m # n => PeHas(pe_nodes', m) = PeHas(pe_nodes, m)
  BY <1>1 DEF PeHas
<1>3. PeHas(pe_nodes', n) = PeHeld(data)
  BY <1>1 DEF PeHas, PeHeld
<1> QED BY <1>1, <1>2, <1>3

LEMMA PeDeleteIs ==
    ASSUME NEW n, PeDelete(n)
    PROVE  /\ DOMAIN pe_nodes' = DOMAIN pe_nodes \ {n}
           /\ \A m \in DOMAIN pe_nodes' : pe_nodes'[m] = pe_nodes[m]
           /\ \A m : m # n => PeHas(pe_nodes', m) = PeHas(pe_nodes, m)
           /\ PeHas(pe_nodes', n) = {}
<1>1. /\ DOMAIN pe_nodes' = DOMAIN pe_nodes \ {n}
      /\ \A m \in DOMAIN pe_nodes' : pe_nodes'[m] = pe_nodes[m]
  BY DEF PeDelete
<1>2. \A m : m # n => PeHas(pe_nodes', m) = PeHas(pe_nodes, m)
  BY <1>1 DEF PeHas
<1> QED BY <1>1, <1>2 DEF PeHas

\* Descriptors that are opened for a peripheral, and closed.
LEMMA PeOpenedIs ==
    ASSUME NEW ds, NEW n \in PeNodes \cup {PeNobody}, 0 \notin ds, PeInv, pe_fds' = PeOpened(ds, n)
    PROVE  /\ pe_fds' \in [PeFds -> PeNodes \cup {PeStdin, PeNobody}] /\ pe_fds'[0] = PeStdin
           /\ \A f \in PeFds : pe_fds'[f] = IF f \in ds THEN n ELSE pe_fds[f]
<1>1. \A f \in PeFds : pe_fds'[f] = IF f \in ds THEN n ELSE pe_fds[f]
  BY DEF PeOpened
<1>2. 0 \in PeFds
  BY PeAssumption DEF PeFds
<1> QED BY <1>1, <1>2 DEF PeInv, PeOpened

\* The standard input is not free.
LEMMA PeFreeIs == ASSUME PeInv PROVE 0 \notin PeFree /\ PeFree \subseteq PeFds
  BY PeNames DEF PeInv, PeFree

\* What a listed peripheral's data says of its descriptors.
LEMMA PeListedIs ==
    ASSUME PeInv, NEW n \in DOMAIN pe_nodes
    PROVE  /\ n \in PeNodes /\ PeFits(PeKind(n), pe_nodes[n], pe_os) /\ PeHas(pe_nodes, n) = PeHeld(pe_nodes[n])
           /\ pe_nodes[n].fd \in PeFds /\ pe_nodes[n].files \subseteq PeFds
           /\ pe_nodes[n].fd # 0 => pe_fds[pe_nodes[n].fd] = n
<1>1. n \in PeNodes /\ PeFits(PeKind(n), pe_nodes[n], pe_os) /\ PeHas(pe_nodes, n) = PeHeld(pe_nodes[n])
  BY DEF PeInv, PeHas, PeHeld
<1>2. pe_nodes[n].fd \in PeFds /\ pe_nodes[n].files \subseteq PeFds
  BY <1>1 DEF PeFits, PeData
<1>3. pe_nodes[n].fd # 0 => pe_nodes[n].fd \in PeHas(pe_nodes, n)
  BY <1>1 DEF PeHeld
<1> QED BY <1>1, <1>2, <1>3 DEF PeInv, PeOwn

\* Watches of the others stay when one peripheral's data changes.
LEMMA PeWatchesStay ==
    ASSUME NEW watches, NEW nodes, PeWatched(watches, nodes), NEW n, NEW nodes2,
           \A m \in DOMAIN nodes : m # n => m \in DOMAIN nodes2 /\ nodes2[m] = nodes[m],
           \A w \in watches : w.node # n
    PROVE  PeWatched(watches, nodes2)
  BY DEF PeWatched

\* Steps that add a peripheral or change its data.
LEMMA PeAddKeeps ==
    ASSUME PeInv, NEW n \in PeNodes, NEW data, PeAdd(n, data), PeFits(PeKind(n), data, pe_os),
           UNCHANGED <<pe_os, pe_wrong>>,
           pe_fds' \in [PeFds -> PeNodes \cup {PeStdin, PeNobody}], pe_fds'[0] = PeStdin,
           \A f \in PeFds \ {0} :
              /\ f \in PeHeld(data) => pe_fds[f] \in {PeNobody, n} /\ pe_fds'[f] = n
              /\ f \notin PeHeld(data) => pe_fds'[f] = IF f \in PeHas(pe_nodes, n) THEN PeNobody ELSE pe_fds[f],
           PeWatched(pe_watches', pe_nodes'),
           \A m : m \in pe_exported' <=> m \in pe_exported \/ (m = n /\ PeExports(n)),
           \A m \in pe_on' : m \in pe_on \/ (m = n /\ PeEnables(n))
    PROVE  PeInv'
<1>1. /\ DOMAIN pe_nodes' = DOMAIN pe_nodes \cup {n} /\ pe_nodes'[n] = data
      /\ \A m \in DOMAIN pe_nodes : m # n => pe_nodes'[m] = pe_nodes[m]
      /\ \A m : m # n => PeHas(pe_nodes', m) = PeHas(pe_nodes, m)
      /\ PeHas(pe_nodes', n) = PeHeld(data)
  BY PeAddIs
<1>2. PeOwn(pe_fds, pe_nodes)
  BY DEF PeInv
<1>3. PeOwn(pe_fds', pe_nodes')
  BY <1>1, <1>2, PeMoves
<1>4. DOMAIN pe_nodes' \subseteq PeNodes
  BY <1>1 DEF PeInv
<1>5. \A m \in DOMAIN pe_nodes' : PeFits(PeKind(m), pe_nodes'[m], pe_os')
  BY <1>1 DEF PeInv
<1>6. \A m : m \in pe_exported' <=> m \in DOMAIN pe_nodes' /\ PeExports(m)'
  <2>1. \A m : PeExports(m)' <=> PeExports(m)
    BY DEF PeExports
  <2> QED BY <1>1, <2>1 DEF PeInv
<1>7. \A m \in pe_on' : m \in DOMAIN pe_nodes' /\ PeEnables(m)
  BY <1>1 DEF PeInv
<1> QED BY <1>3, <1>4, <1>5, <1>6, <1>7 DEF PeInv

\* Steps that delete one.
LEMMA PeDeleteKeeps ==
    ASSUME PeInv, NEW n \in DOMAIN pe_nodes, PeDelete(n), UNCHANGED <<pe_os, pe_wrong, pe_watches>>,
           pe_fds' \in [PeFds -> PeNodes \cup {PeStdin, PeNobody}], pe_fds'[0] = PeStdin,
           \A f \in PeFds \ {0} : pe_fds'[f] = IF f \in PeHas(pe_nodes, n) THEN PeNobody ELSE pe_fds[f],
           ~pe_nodes[n].watch,
           \A m : m \in pe_exported' <=> m \in pe_exported /\ m # n,
           \A m \in pe_on' : m \in pe_on /\ m # n
    PROVE  PeInv'
<1>1. /\ DOMAIN pe_nodes' = DOMAIN pe_nodes \ {n}
      /\ \A m \in DOMAIN pe_nodes' : pe_nodes'[m] = pe_nodes[m]
      /\ \A m : m # n => PeHas(pe_nodes', m) = PeHas(pe_nodes, m)
      /\ PeHas(pe_nodes', n) = {}
  BY PeDeleteIs
<1>2. PeOwn(pe_fds, pe_nodes) /\ n \in PeNodes
  BY DEF PeInv
<1>3. PeOwn(pe_fds', pe_nodes')
  BY <1>1, <1>2, PeMoves
<1>4. DOMAIN pe_nodes' \subseteq PeNodes
  BY <1>1 DEF PeInv
<1>5. \A m \in DOMAIN pe_nodes' : PeFits(PeKind(m), pe_nodes'[m], pe_os')
  BY <1>1 DEF PeInv
<1>6. \A m : m \in pe_exported' <=> m \in DOMAIN pe_nodes' /\ PeExports(m)'
  <2>1. \A m : PeExports(m)' <=> PeExports(m)
    BY DEF PeExports
  <2> QED BY <1>1, <2>1 DEF PeInv
<1>7. \A m \in pe_on' : m \in DOMAIN pe_nodes' /\ PeEnables(m)
  BY <1>1 DEF PeInv
<1>8. PeWatched(pe_watches', pe_nodes')
  <2>1. \A w \in pe_watches : w.node # n
    BY DEF PeInv, PeWatched
  <2>2. PeWatched(pe_watches, pe_nodes)
    BY DEF PeInv
  <2>3. \A m \in DOMAIN pe_nodes : m # n => m \in DOMAIN pe_nodes' /\ pe_nodes'[m] = pe_nodes[m]
    BY <1>1
  <2>4. PeWatched(pe_watches, pe_nodes')
    BY <2>1, <2>2, <2>3 DEF PeWatched
  <2> QED BY <2>4
<1> QED BY <1>3, <1>4, <1>5, <1>6, <1>7, <1>8 DEF PeInv

\* Nothing but the settings of outputs changes.
LEMMA PeOutputsKeep ==
    ASSUME PeInv, UNCHANGED <<pe_os, pe_fds, pe_nodes, pe_exported, pe_watches, pe_wrong>>,
           \A m \in pe_on' : m \in pe_on \/ (m \in DOMAIN pe_nodes /\ PeEnables(m))
    PROVE  PeInv'
  BY DEF PeInv, PeExports

-----------------------------------------------------------------------------
LEMMA GpioRequestKeeps == ASSUME PeInv, UNCHANGED pe_os, NEW n \in PeNodes, GpioRequest(n) PROVE PeInv'
<1>1. /\ PeKind(n) = "gpio" /\ pe_os = "linux" /\ n \notin DOMAIN pe_nodes
      /\ UNCHANGED <<pe_fds, pe_on, pe_watches, pe_wrong>>
  BY DEF GpioRequest, PeLinux, PeListed, PeKind
<1>2. PeExports(n) /\ n \notin pe_exported
  BY <1>1 DEF PeExports, PeInv
<1>3. CASE pe_exported' = pe_exported \cup {n} /\ PeAdd(n, PeNoData)
  <2>1. PeFits("gpio", PeNoData, "linux") /\ PeHeld(PeNoData) = {}
    BY PeAssumption DEF PeFits, PeNoData, PeData, PeFds, PeHeld
  <2>2. PeHas(pe_nodes, n) = {}
    BY <1>1 DEF PeHas
  <2>3. PeWatched(pe_watches', pe_nodes')
    <3>1. \A m \in DOMAIN pe_nodes : m # n => m \in DOMAIN pe_nodes' /\ pe_nodes'[m] = pe_nodes[m]
      BY <1>3, PeAddIs
    <3>2. PeWatched(pe_watches, pe_nodes) /\ \A w \in pe_watches : w.node # n
      BY <1>1 DEF PeInv, PeWatched
    <3>3. PeWatched(pe_watches, pe_nodes')
      BY <3>1, <3>2, PeWatchesStay
    <3> QED BY <1>1, <3>3
  <2>4. pe_fds' = pe_fds /\ pe_fds \in [PeFds -> PeNodes \cup {PeStdin, PeNobody}] /\ pe_fds[0] = PeStdin
    BY <1>1 DEF PeInv
  <2>5. PeFits(PeKind(n), PeNoData, pe_os)
    BY <1>1, <2>1
  <2>6. \A f \in PeFds \ {0} :
          /\ f \in PeHeld(PeNoData) => pe_fds[f] \in {PeNobody, n} /\ pe_fds'[f] = n
          /\ f \notin PeHeld(PeNoData) => pe_fds'[f] = IF f \in PeHas(pe_nodes, n) THEN PeNobody ELSE pe_fds[f]
    BY <2>1, <2>2, <2>4
  <2>7. /\ \A m : m \in pe_exported' <=> m \in pe_exported \/ (m = n /\ PeExports(n))
        /\ \A m \in pe_on' : m \in pe_on \/ (m = n /\ PeEnables(n))
    BY <1>1, <1>2, <1>3
  <2> QED BY <1>1, <1>3, <2>3, <2>4, <2>5, <2>6, <2>7, PeAddKeeps
<1>4. CASE pe_exported' = pe_exported \ {n} /\ UNCHANGED pe_nodes
  <2>1. pe_exported' = pe_exported
    BY <1>2, <1>4
  <2> QED BY <1>1, <1>4, <2>1, PeOutputsKeep
<1>5. \/ pe_exported' = pe_exported \cup {n} /\ PeAdd(n, PeNoData)
      \/ pe_exported' = pe_exported \ {n} /\ UNCHANGED pe_nodes
  BY DEF GpioRequest
<1> QED BY <1>3, <1>4, <1>5

LEMMA GpioReleaseKeeps ==
    ASSUME PeCalm, PeInv, UNCHANGED pe_os, NEW n \in PeNodes, GpioRelease(n) PROVE PeInv'
<1>1. /\ PeKind(n) = "gpio" /\ n \in DOMAIN pe_nodes /\ ~pe_nodes[n].watch
      /\ pe_exported' = pe_exported \ {n} /\ PeDelete(n)
      /\ UNCHANGED <<pe_fds, pe_on, pe_watches, pe_wrong>>
  BY DEF GpioRelease, PeMayRelease, PeLinux, PeListed, PeKind, PeCalm
<1>2. PeHas(pe_nodes, n) = {}
  <2>1. PeFits("gpio", pe_nodes[n], pe_os) /\ PeHas(pe_nodes, n) = PeHeld(pe_nodes[n])
    BY <1>1, PeListedIs
  <2>2. pe_nodes[n].fd = 0 /\ pe_nodes[n].files = {}
    BY <1>1, <2>1 DEF PeFits
  <2> QED BY <2>1, <2>2 DEF PeHeld
<1>3. n \notin pe_on
  BY <1>1 DEF PeInv, PeEnables
<1>4. pe_fds' \in [PeFds -> PeNodes \cup {PeStdin, PeNobody}] /\ pe_fds'[0] = PeStdin
  BY <1>1 DEF PeInv
<1>5. \A f \in PeFds \ {0} : pe_fds'[f] = IF f \in PeHas(pe_nodes, n) THEN PeNobody ELSE pe_fds[f]
  BY <1>1, <1>2
<1>6. /\ \A m : m \in pe_exported' <=> m \in pe_exported /\ m # n
      /\ \A m \in pe_on' : m \in pe_on /\ m # n
  BY <1>1, <1>3
<1> QED BY <1>1, <1>4, <1>5, <1>6, PeDeleteKeeps

LEMMA SetChangeCallbackKeeps ==
    ASSUME PeCalm, PeInv, UNCHANGED pe_os, NEW n \in PeNodes, SetChangeCallback(n) PROVE PeInv'
<1>1. PICK f \in PeLowest(1), ok \in BOOLEAN :
         LET set == ok /\ f # 0 IN
         /\ pe_fds' = IF set \/ f = 0 THEN PeOpened({f}, n) ELSE pe_fds
         /\ PeAdd(n, [fd |-> IF set THEN f ELSE 0, files |-> {}, watch |-> set])
         /\ pe_watches' = IF set THEN pe_watches \cup {[fd |-> f, node |-> n]} ELSE pe_watches
  BY DEF SetChangeCallback
<1>2. /\ PeKind(n) = "gpio" /\ pe_os = "linux" /\ n \in DOMAIN pe_nodes /\ ~pe_nodes[n].watch
      /\ PeCanOpen(1) /\ UNCHANGED <<pe_exported, pe_on, pe_wrong>>
  BY DEF SetChangeCallback, PeMaySet, PeLinux, PeListed, PeKind, PeCalm
<1>3. f \in PeFree /\ f \in PeFds /\ f # 0 /\ pe_fds[f] = PeNobody
  BY <1>1, <1>2, PeLowestIs, PeFreeIs DEF PeFree
<1>4. PeHas(pe_nodes, n) = {}
  <2>1. PeFits("gpio", pe_nodes[n], pe_os) /\ PeHas(pe_nodes, n) = PeHeld(pe_nodes[n])
    BY <1>2, PeListedIs
  <2>2. pe_nodes[n].fd = 0 /\ pe_nodes[n].files = {}
    BY <1>2, <2>1 DEF PeFits
  <2> QED BY <2>1, <2>2 DEF PeHeld
<1> DEFINE data == [fd |-> IF ok THEN f ELSE 0, files |-> {}, watch |-> ok]
<1>5. /\ pe_fds' = PeOpened(IF ok THEN {f} ELSE {}, n)
      /\ PeAdd(n, data)
      /\ pe_watches' = IF ok THEN pe_watches \cup {[fd |-> f, node |-> n]} ELSE pe_watches
  <2>1. pe_fds' = IF ok THEN PeOpened({f}, n) ELSE pe_fds
    BY <1>1, <1>3
  <2>2. PeOpened({}, n) = pe_fds
    BY DEF PeOpened, PeInv
  <2> QED BY <1>1, <1>3, <2>1, <2>2
<1>6. PeFits("gpio", data, "linux") /\ PeHeld(data) = IF ok THEN {f} ELSE {}
  BY <1>3, PeAssumption DEF PeFits, PeData, PeFds, PeHeld
<1>7. data.watch = ok /\ data.fd = IF ok THEN f ELSE 0
  OBVIOUS
<1> HIDE DEF data
<1>8. /\ pe_fds' \in [PeFds -> PeNodes \cup {PeStdin, PeNobody}] /\ pe_fds'[0] = PeStdin
      /\ \A g \in PeFds : pe_fds'[g] = IF g \in (IF ok THEN {f} ELSE {}) THEN n ELSE pe_fds[g]
  BY <1>3, <1>5, PeOpenedIs
<1>9. \A g \in PeFds \ {0} :
        /\ g \in PeHeld(data) => pe_fds[g] \in {PeNobody, n} /\ pe_fds'[g] = n
        /\ g \notin PeHeld(data) => pe_fds'[g] = IF g \in PeHas(pe_nodes, n) THEN PeNobody ELSE pe_fds[g]
  BY <1>3, <1>4, <1>6, <1>8
<1>10. PeWatched(pe_watches', pe_nodes')
  <2>1. /\ \A m \in DOMAIN pe_nodes : m # n => m \in DOMAIN pe_nodes' /\ pe_nodes'[m] = pe_nodes[m]
        /\ n \in DOMAIN pe_nodes' /\ pe_nodes'[n] = data
    BY <1>5, PeAddIs
  <2>2. PeWatched(pe_watches, pe_nodes) /\ \A w \in pe_watches : w.node # n
    BY <1>2 DEF PeInv, PeWatched
  <2>3. PeWatched(pe_watches, pe_nodes')
    BY <2>1, <2>2 DEF PeWatched
  <2>4. CASE ~ok
    BY <1>5, <2>3, <2>4
  <2>5. CASE ok
    <3>1. [fd |-> f, node |-> n] \in [fd : PeFds, node : PeNodes]
      BY <1>3
    <3>2. pe_nodes'[n].watch /\ pe_nodes'[n].fd = f
      BY <1>7, <2>1, <2>5
    <3>3. pe_watches' = pe_watches \cup {[fd |-> f, node |-> n]}
      BY <1>5, <2>5
    <3> QED BY <2>1, <2>3, <3>1, <3>2, <3>3 DEF PeWatched
  <2> QED BY <2>4, <2>5
<1>11. PeFits(PeKind(n), data, pe_os)
  BY <1>2, <1>6
<1>12. /\ \A m : m \in pe_exported' <=> m \in pe_exported \/ (m = n /\ PeExports(n))
       /\ \A m \in pe_on' : m \in pe_on \/ (m = n /\ PeEnables(n))
  BY <1>2 DEF PeInv
<1> QED BY <1>2, <1>5, <1>8, <1>9, <1>10, <1>11, <1>12, PeAddKeeps

\* A peripheral without a watch is added, or its data changed.
LEMMA PeAddWatches ==
    ASSUME PeInv, NEW n, NEW data, PeAdd(n, data), n \notin DOMAIN pe_nodes \/ ~pe_nodes[n].watch
    PROVE  PeWatched(pe_watches, pe_nodes')
<1>1. \A m \in DOMAIN pe_nodes : m # n => m \in DOMAIN pe_nodes' /\ pe_nodes'[m] = pe_nodes[m]
  BY PeAddIs
<1>2. PeWatched(pe_watches, pe_nodes) /\ \A w \in pe_watches : w.node # n
  BY DEF PeInv, PeWatched
<1> QED BY <1>1, <1>2, PeWatchesStay

LEMMA UnsetCallbackKeeps ==
    ASSUME PeCalm, PeInv, UNCHANGED pe_os, NEW n \in PeNodes, UnsetCallback(n) PROVE PeInv'
<1> DEFINE f == pe_nodes[n].fd
<1>1. PeKind(n) = "gpio" /\ pe_os = "linux" /\ n \in DOMAIN pe_nodes /\ UNCHANGED <<pe_exported, pe_on>>
  BY DEF UnsetCallback, PeLinux, SerialUnset, PeListed, PeKind, PeCalm
<1>2. CASE f = 0
  <2>1. UNCHANGED <<pe_fds, pe_nodes, pe_watches, pe_wrong>>
    BY <1>2 DEF UnsetCallback
  <2> QED BY <1>1, <2>1, PeOutputsKeep
<1>3. CASE f # 0
  <2>1. /\ PeFits("gpio", pe_nodes[n], pe_os) /\ PeHas(pe_nodes, n) = PeHeld(pe_nodes[n])
        /\ f \in PeFds /\ pe_fds[f] = n
    BY <1>1, <1>3, PeListedIs
  <2>2. pe_nodes[n].watch /\ PeHas(pe_nodes, n) = {f}
    <3>1. pe_nodes[n].files = {} /\ pe_nodes[n].watch
      BY <1>3, <2>1 DEF PeFits
    <3> QED BY <1>3, <2>1, <3>1 DEF PeHeld
  <2>3. /\ pe_watches' = pe_watches \ {[fd |-> f, node |-> n]}
        /\ pe_fds' = PeClosed({f}) /\ PeAdd(n, PeNoData)
        /\ pe_wrong' = (pe_wrong \/ PeForeign(f, n))
    BY <1>1, <1>3, <2>2 DEF UnsetCallback
  <2>4. pe_wrong' = FALSE /\ pe_wrong = FALSE
    BY <2>1, <2>3 DEF PeForeign, PeInv
  <2>5. /\ pe_fds' \in [PeFds -> PeNodes \cup {PeStdin, PeNobody}] /\ pe_fds'[0] = PeStdin
        /\ \A g \in PeFds : pe_fds'[g] = IF g \in {f} THEN PeNobody ELSE pe_fds[g]
    BY <1>3, <2>3, PeOpenedIs DEF PeClosed
  <2>6. PeFits("gpio", PeNoData, "linux") /\ PeHeld(PeNoData) = {} /\ PeFits(PeKind(n), PeNoData, pe_os)
    <3>1. PeFits("gpio", PeNoData, "linux") /\ PeHeld(PeNoData) = {}
      BY PeAssumption DEF PeFits, PeNoData, PeData, PeFds, PeHeld
    <3> QED BY <1>1, <3>1
  <2>7. \A g \in PeFds \ {0} :
          /\ g \in PeHeld(PeNoData) => pe_fds[g] \in {PeNobody, n} /\ pe_fds'[g] = n
          /\ g \notin PeHeld(PeNoData) => pe_fds'[g] = IF g \in PeHas(pe_nodes, n) THEN PeNobody ELSE pe_fds[g]
    BY <2>2, <2>5, <2>6
  <2>8. PeWatched(pe_watches', pe_nodes')
    <3>1. \A m \in DOMAIN pe_nodes : m # n => m \in DOMAIN pe_nodes' /\ pe_nodes'[m] = pe_nodes[m]
      BY <2>3, PeAddIs
    <3>2. PeWatched(pe_watches, pe_nodes)
      BY DEF PeInv
    <3>3. ASSUME NEW w \in pe_watches' PROVE w.node # n
      <4>1. w \in pe_watches /\ w \in [fd : PeFds, node : PeNodes] /\ w # [fd |-> f, node |-> n]
        BY <2>3, <3>2 DEF PeWatched
      <4>2. w.node = n => w.fd = f
        BY <3>2, <4>1 DEF PeWatched
      <4> QED BY <4>1, <4>2
    <3>4. PeWatched(pe_watches', pe_nodes)
      BY <2>3, <3>2 DEF PeWatched
    <3> QED BY <3>1, <3>3, <3>4 DEF PeWatched
  <2>9. /\ \A m : m \in pe_exported' <=> m \in pe_exported \/ (m = n /\ PeExports(n))
        /\ \A m \in pe_on' : m \in pe_on \/ (m = n /\ PeEnables(n))
    BY <1>1 DEF PeInv
  <2> QED BY <2>3, <2>4, <2>5, <2>6, <2>7, <2>8, <2>9, PeAddKeeps
<1> QED BY <1>2, <1>3

LEMMA PeCalledBackKeeps ==
    ASSUME PeInv, UNCHANGED pe_os, NEW w \in pe_watches, PeCalledBack(w) PROVE PeInv'
<1>1. /\ w.node \in DOMAIN pe_nodes /\ pe_nodes[w.node].watch
      /\ PeFits(PeKind(w.node), pe_nodes[w.node], pe_os)
      /\ pe_nodes[w.node].fd # 0 => pe_fds[pe_nodes[w.node].fd] = w.node
  BY PeListedIs DEF PeInv, PeWatched
<1>2. pe_fds[pe_nodes[w.node].fd] = w.node
  BY <1>1 DEF PeFits
<1>3. pe_wrong' = FALSE /\ pe_watches' \subseteq pe_watches /\ UNCHANGED <<pe_fds, pe_nodes, pe_exported, pe_on>>
  BY <1>1, <1>2 DEF PeCalledBack, PeInv, PeListed
<1> QED BY <1>3 DEF PeInv, PeWatched, PeExports

\* A device of which the descriptor is the data, of a kind that has one.
LEMMA SerialOpensKeeps ==
    ASSUME PeCalm, PeInv, UNCHANGED pe_os, NEW n \in PeNodes, SerialOpens(n),
           PeKind(n) = "serial" \/ (PeKind(n) = "pwm" /\ pe_os = "tizenrt")
    PROVE  PeInv'
<1>1. PICK f \in PeLowest(1), ok \in BOOLEAN :
         IF ok THEN /\ pe_fds' = PeOpened({f}, n)
                    /\ PeAdd(n, [fd |-> f, files |-> {}, watch |-> FALSE])
         ELSE UNCHANGED <<pe_fds, pe_nodes>>
  BY DEF SerialOpens
<1>2. n \notin DOMAIN pe_nodes /\ PeCanOpen(1) /\ UNCHANGED <<pe_exported, pe_on, pe_watches, pe_wrong>>
  BY DEF SerialOpens, PeListed
<1>3. f \in PeFree /\ f \in PeFds /\ f # 0 /\ pe_fds[f] = PeNobody
  BY <1>1, <1>2, PeLowestIs, PeFreeIs DEF PeFree
<1>4. CASE ~ok
  BY <1>1, <1>2, <1>4, PeOutputsKeep
<1>5. CASE ok
  <2> DEFINE data == [fd |-> f, files |-> {}, watch |-> FALSE]
  <2>1. pe_fds' = PeOpened({f}, n) /\ PeAdd(n, data)
    BY <1>1, <1>5
  <2>2. PeHas(pe_nodes, n) = {}
    BY <1>2 DEF PeHas
  <2>3. data \in PeData /\ PeHeld(data) = {f} /\ data.fd = f /\ data.files = {} /\ ~data.watch
    BY <1>3 DEF PeData, PeHeld
  <2> HIDE DEF data
  <2>4. PeFits(PeKind(n), data, pe_os)
    BY <1>3, <2>3 DEF PeFits
  <2>5. /\ pe_fds' \in [PeFds -> PeNodes \cup {PeStdin, PeNobody}] /\ pe_fds'[0] = PeStdin
        /\ \A g \in PeFds : pe_fds'[g] = IF g \in {f} THEN n ELSE pe_fds[g]
    BY <1>3, <2>1, PeOpenedIs
  <2>6. \A g \in PeFds \ {0} :
          /\ g \in PeHeld(data) => pe_fds[g] \in {PeNobody, n} /\ pe_fds'[g] = n
          /\ g \notin PeHeld(data) => pe_fds'[g] = IF g \in PeHas(pe_nodes, n) THEN PeNobody ELSE pe_fds[g]
    BY <1>3, <2>2, <2>3, <2>5
  <2>7. PeWatched(pe_watches', pe_nodes')
    <3>1. PeWatched(pe_watches, pe_nodes')
      BY <1>2, <2>1, PeAddWatches
    <3> QED BY <1>2, <3>1
  <2>8. ~PeExports(n)
    BY DEF PeExports
  <2>9. /\ \A m : m \in pe_exported' <=> m \in pe_exported \/ (m = n /\ PeExports(n))
        /\ \A m \in pe_on' : m \in pe_on \/ (m = n /\ PeEnables(n))
    BY <1>2, <2>8
  <2> QED BY <1>2, <2>1, <2>4, <2>5, <2>6, <2>7, <2>9, PeAddKeeps
<1> QED BY <1>4, <1>5

\* The peripheral that has a descriptor gives it up with its data.
LEMMA PeClosesKeeps ==
    ASSUME PeInv, UNCHANGED <<pe_os, pe_watches>>, NEW n \in DOMAIN pe_nodes, ~pe_nodes[n].watch,
           PeKind(n) = "serial" \/ (PeKind(n) = "pwm" /\ pe_os = "tizenrt"),
           pe_fds' = PeClosed({pe_nodes[n].fd}), pe_wrong' = (pe_wrong \/ PeForeign(pe_nodes[n].fd, n)),
           PeDelete(n), pe_exported' = pe_exported, \A m \in pe_on' : m \in pe_on /\ m # n
    PROVE  PeInv'
<1> DEFINE f == pe_nodes[n].fd
<1>1. /\ PeFits(PeKind(n), pe_nodes[n], pe_os) /\ PeHas(pe_nodes, n) = PeHeld(pe_nodes[n])
      /\ f \in PeFds /\ (f # 0 => pe_fds[f] = n)
  BY PeListedIs
<1>2. f # 0 /\ pe_nodes[n].files = {}
  BY <1>1 DEF PeFits
<1>3. PeHas(pe_nodes, n) = {f} /\ pe_fds[f] = n
  BY <1>1, <1>2 DEF PeHeld
<1>4. pe_wrong' = FALSE /\ pe_wrong = FALSE
  BY <1>3 DEF PeForeign, PeInv
<1>5. /\ pe_fds' \in [PeFds -> PeNodes \cup {PeStdin, PeNobody}] /\ pe_fds'[0] = PeStdin
      /\ \A g \in PeFds : pe_fds'[g] = IF g \in {f} THEN PeNobody ELSE pe_fds[g]
  BY <1>2, PeOpenedIs DEF PeClosed
<1>6. \A g \in PeFds \ {0} : pe_fds'[g] = IF g \in PeHas(pe_nodes, n) THEN PeNobody ELSE pe_fds[g]
  BY <1>3, <1>5
<1>7. n \notin pe_exported
  BY DEF PeInv, PeExports
<1>8. /\ \A m : m \in pe_exported' <=> m \in pe_exported /\ m # n
      /\ \A m \in pe_on' : m \in pe_on /\ m # n
  BY <1>7
<1>9. UNCHANGED <<pe_os, pe_wrong, pe_watches>>
  BY <1>4
<1> HIDE DEF f
<1> QED BY <1>5, <1>6, <1>8, <1>9, PeDeleteKeeps

LEMMA SerialClosesKeeps ==
    ASSUME PeCalm, PeInv, UNCHANGED pe_os, NEW n \in PeNodes, SerialCloses(n), PeKind(n) = "serial" PROVE PeInv'
<1>1. /\ n \in DOMAIN pe_nodes /\ ~pe_nodes[n].watch /\ pe_fds' = PeClosed({pe_nodes[n].fd})
      /\ pe_wrong' = (pe_wrong \/ PeForeign(pe_nodes[n].fd, n))
      /\ PeDelete(n) /\ UNCHANGED <<pe_exported, pe_on, pe_watches>>
  BY DEF SerialCloses, PeMayRelease, PeListed, PeCalm
<1>2. n \notin pe_on
  BY DEF PeInv, PeEnables
<1>3. \A m \in pe_on' : m \in pe_on /\ m # n
  BY <1>1, <1>2
<1> QED BY <1>1, <1>3, PeClosesKeeps

\* Reading and writing is of the descriptor that is open for the handle.
LEMMA PeUsesKeeps ==
    ASSUME PeInv, UNCHANGED pe_os, NEW n \in PeNodes, PeUses(n),
           PeKind(n) = "serial" \/ (PeKind(n) = "pwm" /\ pe_os = "tizenrt"),
           \A m \in pe_on' : m \in pe_on \/ (m = n /\ PeEnables(n))
    PROVE  PeInv'
<1>1. n \in DOMAIN pe_nodes /\ UNCHANGED <<pe_fds, pe_nodes, pe_exported, pe_watches>>
      /\ pe_wrong' = (pe_wrong \/ pe_fds[pe_nodes[n].fd] # n)
  BY DEF PeUses, PeListed
<1>2. PeFits(PeKind(n), pe_nodes[n], pe_os) /\ (pe_nodes[n].fd # 0 => pe_fds[pe_nodes[n].fd] = n)
  BY <1>1, PeListedIs
<1>3. pe_fds[pe_nodes[n].fd] = n
  BY <1>2 DEF PeFits
<1>4. pe_wrong' = pe_wrong
  BY <1>1, <1>3 DEF PeInv
<1> QED BY <1>1, <1>4, PeOutputsKeep

LEMMA SetReceivedCallbackKeeps ==
    ASSUME PeCalm, PeInv, UNCHANGED pe_os, NEW n \in PeNodes, SetReceivedCallback(n) PROVE PeInv'
<1>1. PICK ok \in BOOLEAN :
         /\ PeAdd(n, [pe_nodes[n] EXCEPT !.watch = ok])
         /\ pe_watches' = IF ok THEN pe_watches \cup {[fd |-> pe_nodes[n].fd, node |-> n]} ELSE pe_watches
  BY DEF SetReceivedCallback
<1>2. /\ PeKind(n) = "serial" /\ n \in DOMAIN pe_nodes /\ ~pe_nodes[n].watch
      /\ UNCHANGED <<pe_fds, pe_exported, pe_on, pe_wrong>>
  BY DEF SetReceivedCallback, PeMaySet, PeLinux, PeListed, PeKind, PeCalm
<1> DEFINE old == pe_nodes[n]
           data == [old EXCEPT !.watch = ok]
<1>3. /\ PeFits("serial", old, pe_os) /\ PeHas(pe_nodes, n) = PeHeld(old)
      /\ old.fd \in PeFds
  BY <1>2, PeListedIs
<1>4. old \in PeData /\ old.fd # 0
  BY <1>3 DEF PeFits
<1>5. data \in PeData /\ data.fd = old.fd /\ data.files = old.files /\ data.watch = ok
  BY <1>4 DEF PeData
<1>6. PeAdd(n, data) /\ pe_watches' = IF ok THEN pe_watches \cup {[fd |-> old.fd, node |-> n]} ELSE pe_watches
  BY <1>1
<1> HIDE DEF data, old
<1>7. PeHeld(data) = PeHas(pe_nodes, n)
  BY <1>3, <1>5 DEF PeHeld
<1>8. PeFits("serial", data, pe_os)
  BY <1>3, <1>4, <1>5 DEF PeFits
<1>9. pe_fds' = pe_fds /\ pe_fds \in [PeFds -> PeNodes \cup {PeStdin, PeNobody}] /\ pe_fds[0] = PeStdin
  BY <1>2 DEF PeInv
<1>10. \A g \in PeFds \ {0} :
         /\ g \in PeHeld(data) => pe_fds[g] \in {PeNobody, n} /\ pe_fds'[g] = n
         /\ g \notin PeHeld(data) => pe_fds'[g] = IF g \in PeHas(pe_nodes, n) THEN PeNobody ELSE pe_fds[g]
  BY <1>7, <1>9 DEF PeInv, PeOwn
<1>11. PeWatched(pe_watches', pe_nodes')
  <2>1. PeWatched(pe_watches, pe_nodes')
    BY <1>2, <1>6, PeAddWatches
  <2>2. CASE ~ok
    BY <1>6, <2>1, <2>2
  <2>3. CASE ok
    <3>1. [fd |-> old.fd, node |-> n] \in [fd : PeFds, node : PeNodes]
      BY <1>3
    <3>2. n \in DOMAIN pe_nodes' /\ pe_nodes'[n].watch /\ pe_nodes'[n].fd = old.fd
      <4>1. n \in DOMAIN pe_nodes' /\ pe_nodes'[n] = data
        BY <1>6, PeAddIs
      <4> QED BY <1>5, <2>3, <4>1
    <3>3. pe_watches' = pe_watches \cup {[fd |-> old.fd, node |-> n]}
      BY <1>6, <2>3
    <3> QED BY <2>1, <3>1, <3>2, <3>3 DEF PeWatched
  <2> QED BY <2>2, <2>3
<1>12. ~PeExports(n) /\ PeFits(PeKind(n), data, pe_os)
  BY <1>2, <1>8 DEF PeExports
<1>13. /\ \A m : m \in pe_exported' <=> m \in pe_exported \/ (m = n /\ PeExports(n))
       /\ \A m \in pe_on' : m \in pe_on \/ (m = n /\ PeEnables(n))
  BY <1>2, <1>12
<1> QED BY <1>2, <1>6, <1>9, <1>10, <1>11, <1>12, <1>13, PeAddKeeps

LEMMA PwmRequestKeeps ==
    ASSUME PeCalm, PeInv, UNCHANGED pe_os, NEW n \in PeNodes, PwmRequest(n) PROVE PeInv'
<1>1. /\ PeKind(n) = "pwm" /\ pe_os = "linux" /\ n \notin DOMAIN pe_nodes /\ PeCanOpen(PeFiles)
      /\ UNCHANGED <<pe_watches, pe_wrong>>
  BY DEF PwmRequest, PeLinux, PeListed, PeKind
<1>2. PwmFiles \subseteq PeFree /\ 0 \notin PwmFiles /\ PwmFiles \subseteq PeFds
  <2>1. PeFiles \in Nat
    BY PeAssumption
  <2>2. PwmFiles \subseteq PeFree
    BY <1>1, <2>1, PeLowestIs DEF PwmFiles
  <2> QED BY <2>2, PeFreeIs
<1>3. PICK how \in {"ok", "busy", "refused", "unopened"} :
         /\ how = "unopened" => "pwmfails" \in PeUnusual
         /\ IF how = "ok"
            THEN /\ pe_fds' = PeOpened(PwmFiles, n)
                 /\ pe_exported' = pe_exported \cup {n} /\ pe_on' = pe_on \cup {n}
                 /\ PeAdd(n, [fd |-> 0, files |-> PwmFiles, watch |-> FALSE])
            ELSE /\ UNCHANGED <<pe_nodes, pe_on>>
                 /\ IF how = "busy" THEN UNCHANGED <<pe_fds, pe_exported>>
                    ELSE IF how = "unopened" THEN PwmInitFails(n) ELSE PwmUndone(n)
  BY DEF PwmRequest
<1>4. CASE how # "ok"
  <2>1. how # "unopened"
    BY <1>3 DEF PeCalm
  <2>2. UNCHANGED <<pe_fds, pe_exported>>
    BY <1>3, <1>4, <2>1 DEF PwmUndone, PeCalm
  <2> QED BY <1>1, <1>3, <1>4, <2>2, PeOutputsKeep
<1>5. CASE how = "ok"
  <2> DEFINE data == [fd |-> 0, files |-> PwmFiles, watch |-> FALSE]
  <2>1. /\ pe_fds' = PeOpened(PwmFiles, n) /\ PeAdd(n, data)
        /\ pe_exported' = pe_exported \cup {n} /\ pe_on' = pe_on \cup {n}
    BY <1>3, <1>5
  <2>2. PeHas(pe_nodes, n) = {}
    BY <1>1 DEF PeHas
  <2>3. data \in PeData /\ PeHeld(data) = PwmFiles /\ data.fd = 0 /\ data.files = PwmFiles /\ ~data.watch
    BY <1>2, PeAssumption DEF PeData, PeHeld, PeFds
  <2> HIDE DEF data
  <2>4. PeFits("pwm", data, "linux")
    BY <1>2, <2>3 DEF PeFits
  <2>5. /\ pe_fds' \in [PeFds -> PeNodes \cup {PeStdin, PeNobody}] /\ pe_fds'[0] = PeStdin
        /\ \A g \in PeFds : pe_fds'[g] = IF g \in PwmFiles THEN n ELSE pe_fds[g]
    BY <1>2, <2>1, PeOpenedIs
  <2>6. \A g \in PeFds \ {0} :
          /\ g \in PeHeld(data) => pe_fds[g] \in {PeNobody, n} /\ pe_fds'[g] = n
          /\ g \notin PeHeld(data) => pe_fds'[g] = IF g \in PeHas(pe_nodes, n) THEN PeNobody ELSE pe_fds[g]
    BY <1>2, <2>2, <2>3, <2>5 DEF PeFree
  <2>7. PeWatched(pe_watches', pe_nodes')
    <3>1. PeWatched(pe_watches, pe_nodes')
      BY <1>1, <2>1, PeAddWatches
    <3> QED BY <1>1, <3>1
  <2>8. PeExports(n) /\ PeEnables(n) /\ PeFits(PeKind(n), data, pe_os)
    BY <1>1, <2>4 DEF PeExports, PeEnables
  <2>9. /\ \A m : m \in pe_exported' <=> m \in pe_exported \/ (m = n /\ PeExports(n))
        /\ \A m \in pe_on' : m \in pe_on \/ (m = n /\ PeEnables(n))
    BY <2>1, <2>8
  <2> QED BY <1>1, <2>1, <2>5, <2>6, <2>7, <2>8, <2>9, PeAddKeeps
<1> QED BY <1>4, <1>5

LEMMA PwmReleaseKeeps ==
    ASSUME PeInv, UNCHANGED pe_os, NEW n \in PeNodes, PwmRelease(n) PROVE PeInv'
<1>1. PeKind(n) = "pwm" /\ pe_os = "linux" /\ n \in DOMAIN pe_nodes /\ UNCHANGED <<pe_watches, pe_wrong>>
  BY DEF PwmRelease, PeLinux, PeListed, PeKind
<1>2. CASE /\ pe_on' \in {pe_on, pe_on \ {n}, pe_on \cup {n}}
           /\ UNCHANGED <<pe_fds, pe_nodes, pe_exported>>
  BY <1>1, <1>2, PeOutputsKeep DEF PeEnables
<1>3. CASE /\ pe_on' = pe_on \ {n} /\ pe_exported' = pe_exported \ {n}
           /\ pe_fds' = PwmClean(n) /\ PeDelete(n)
  <2>1. /\ PeFits("pwm", pe_nodes[n], "linux") /\ PeHas(pe_nodes, n) = PeHeld(pe_nodes[n])
        /\ 0 \notin pe_nodes[n].files
    BY <1>1, PeListedIs DEF PeFits
  <2>2. ~pe_nodes[n].watch /\ PeHas(pe_nodes, n) = pe_nodes[n].files
    <3>1. pe_nodes[n].fd = 0 /\ ~pe_nodes[n].watch
      BY <2>1 DEF PeFits
    <3> QED BY <2>1, <3>1 DEF PeHeld
  <2>3. /\ pe_fds' \in [PeFds -> PeNodes \cup {PeStdin, PeNobody}] /\ pe_fds'[0] = PeStdin
        /\ \A g \in PeFds : pe_fds'[g] = IF g \in pe_nodes[n].files THEN PeNobody ELSE pe_fds[g]
    BY <1>3, <2>1, PeOpenedIs DEF PwmClean, PeClosed
  <2>4. \A g \in PeFds \ {0} : pe_fds'[g] = IF g \in PeHas(pe_nodes, n) THEN PeNobody ELSE pe_fds[g]
    BY <2>2, <2>3
  <2>5. /\ \A m : m \in pe_exported' <=> m \in pe_exported /\ m # n
        /\ \A m \in pe_on' : m \in pe_on /\ m # n
    BY <1>3
  <2> QED BY <1>1, <1>3, <2>2, <2>3, <2>4, <2>5, PeDeleteKeeps
<1> QED BY <1>2, <1>3 DEF PwmRelease

LEMMA RtPwmReleaseKeeps ==
    ASSUME PeCalm, PeInv, UNCHANGED pe_os, NEW n \in PeNodes, RtPwmRelease(n) PROVE PeInv'
<1>1. /\ PeKind(n) = "pwm" /\ pe_os = "tizenrt" /\ n \in DOMAIN pe_nodes
      /\ pe_on' = pe_on \ {n} /\ PeDelete(n)
      /\ pe_fds' = PeClosed({pe_nodes[n].fd})
      /\ pe_wrong' = (pe_wrong \/ PeForeign(pe_nodes[n].fd, n))
      /\ UNCHANGED <<pe_exported, pe_watches>>
  BY DEF RtPwmRelease, PeTizenRt, PeListed, PeKind, PeCalm
<1>2. ~pe_nodes[n].watch
  BY <1>1, PeListedIs DEF PeFits
<1>3. \A m \in pe_on' : m \in pe_on /\ m # n
  BY <1>1
<1> QED BY <1>1, <1>2, <1>3, PeClosesKeeps

\* An ADC's descriptor is open only while its value is read.
LEMMA AdcReadsNothingStays ==
    ASSUME PeCalm, PeInv, NEW n, NEW ok \in BOOLEAN, AdcReads(n, ok) PROVE pe_fds' = pe_fds
<1>1. ok /\ PeCanOpen(1)
  BY DEF AdcReads, PeCalm
<1>2. PeLowest(1) \subseteq PeFree /\ 0 \notin PeFree
  BY <1>1, PeLowestIs, PeFreeIs
<1>3. ~AdcOpenFails
  BY <1>2 DEF AdcOpenFails
<1> QED BY <1>1, <1>3 DEF AdcReads

LEMMA PeAdcAddKeeps ==
    ASSUME PeInv, NEW n \in PeNodes, PeKind(n) = "adc", n \notin DOMAIN pe_nodes, PeAdd(n, PeNoData),
           UNCHANGED <<pe_os, pe_fds, pe_exported, pe_on, pe_watches, pe_wrong>>
    PROVE  PeInv'
<1>1. PeFits("adc", PeNoData, pe_os) /\ PeHeld(PeNoData) = {}
  BY PeAssumption DEF PeFits, PeNoData, PeData, PeFds, PeHeld
<1>2. PeHas(pe_nodes, n) = {}
  BY DEF PeHas
<1>3. PeWatched(pe_watches', pe_nodes')
  <2>1. PeWatched(pe_watches, pe_nodes')
    BY PeAddWatches
  <2> QED BY <2>1
<1>4. pe_fds' = pe_fds /\ pe_fds \in [PeFds -> PeNodes \cup {PeStdin, PeNobody}] /\ pe_fds[0] = PeStdin
  BY DEF PeInv
<1>5. PeFits(PeKind(n), PeNoData, pe_os) /\ ~PeExports(n)
  BY <1>1 DEF PeExports
<1>6. \A f \in PeFds \ {0} :
        /\ f \in PeHeld(PeNoData) => pe_fds[f] \in {PeNobody, n} /\ pe_fds'[f] = n
        /\ f \notin PeHeld(PeNoData) => pe_fds'[f] = IF f \in PeHas(pe_nodes, n) THEN PeNobody ELSE pe_fds[f]
  BY <1>1, <1>2, <1>4
<1>7. /\ \A m : m \in pe_exported' <=> m \in pe_exported \/ (m = n /\ PeExports(n))
      /\ \A m \in pe_on' : m \in pe_on \/ (m = n /\ PeEnables(n))
  BY <1>5
<1> QED BY <1>3, <1>4, <1>5, <1>6, <1>7, PeAddKeeps

LEMMA PeAdcDeleteKeeps ==
    ASSUME PeInv, NEW n \in DOMAIN pe_nodes, PeKind(n) = "adc", PeDelete(n),
           UNCHANGED <<pe_os, pe_fds, pe_exported, pe_on, pe_watches, pe_wrong>>
    PROVE  PeInv'
<1>1. ~pe_nodes[n].watch /\ PeHas(pe_nodes, n) = {}
  <2>1. PeFits("adc", pe_nodes[n], pe_os) /\ PeHas(pe_nodes, n) = PeHeld(pe_nodes[n])
    BY PeListedIs
  <2>2. pe_nodes[n].fd = 0 /\ pe_nodes[n].files = {} /\ ~pe_nodes[n].watch
    BY <2>1 DEF PeFits
  <2> QED BY <2>1, <2>2 DEF PeHeld
<1>2. n \notin pe_on /\ n \notin pe_exported
  BY DEF PeInv, PeEnables, PeExports
<1>3. /\ \A m : m \in pe_exported' <=> m \in pe_exported /\ m # n
      /\ \A m \in pe_on' : m \in pe_on /\ m # n
  BY <1>2
<1>4. pe_fds' \in [PeFds -> PeNodes \cup {PeStdin, PeNobody}] /\ pe_fds'[0] = PeStdin
  BY DEF PeInv
<1>5. \A g \in PeFds \ {0} : pe_fds'[g] = IF g \in PeHas(pe_nodes, n) THEN PeNobody ELSE pe_fds[g]
  BY <1>1
<1> QED BY <1>1, <1>3, <1>4, <1>5, PeDeleteKeeps

LEMMA PeAdcKeeps ==
    ASSUME PeCalm, PeInv, UNCHANGED pe_os, NEW n \in PeNodes,
           AdcRequest(n) \/ AdcGetValue(n) \/ AdcRelease(n) \/ RtAdcRequest(n) \/ RtAdcRelease(n) \/ RtAdcGetValue(n)
    PROVE  PeInv'
<1>1. CASE AdcRequest(n)
  <2>1. pe_fds' = pe_fds
    BY <1>1, AdcReadsNothingStays DEF AdcRequest
  <2>2. /\ PeKind(n) = "adc" /\ n \notin DOMAIN pe_nodes /\ PeAdd(n, PeNoData)
        /\ UNCHANGED <<pe_exported, pe_on, pe_watches, pe_wrong>>
    BY <1>1, <2>1 DEF AdcRequest, PeLinux, PeListed, PeKind
  <2> QED BY <2>1, <2>2, PeAdcAddKeeps
<1>2. CASE AdcGetValue(n)
  <2>1. pe_fds' = pe_fds
    BY <1>2, AdcReadsNothingStays DEF AdcGetValue
  <2> QED BY <1>2, <2>1, PeOutputsKeep DEF AdcGetValue
<1>3. CASE AdcRelease(n) \/ RtAdcRelease(n)
  <2>1. /\ PeKind(n) = "adc" /\ n \in DOMAIN pe_nodes /\ PeDelete(n)
        /\ UNCHANGED <<pe_fds, pe_exported, pe_on, pe_watches, pe_wrong>>
    BY <1>3 DEF AdcRelease, RtAdcRelease, PeLinux, PeTizenRt, PeListed, PeKind
  <2> QED BY <2>1, PeAdcDeleteKeeps
<1>4. CASE RtAdcRequest(n)
  <2>1. /\ PeKind(n) = "adc" /\ n \notin DOMAIN pe_nodes /\ PeAdd(n, PeNoData)
        /\ UNCHANGED <<pe_fds, pe_exported, pe_on, pe_watches, pe_wrong>>
    BY <1>4 DEF RtAdcRequest, PeTizenRt, PeListed, PeKind
  <2> QED BY <2>1, PeAdcAddKeeps
<1>5. CASE RtAdcGetValue(n)
  <2>1. /\ PeKind(n) = "adc" /\ UNCHANGED <<pe_fds, pe_nodes, pe_exported, pe_on, pe_watches>>
        /\ pe_wrong' = (pe_wrong \/ n[2] >= PeChannelsRead)
    BY <1>5 DEF RtAdcGetValue, PeTizenRt, PeKind, PeCalm
  <2>2. n[2] \in 0 .. PeChannelsRead - 1 /\ PeChannelsRead \in Nat
    BY <2>1, PeNames, PeAssumption
  <2>3. ~(n[2] >= PeChannelsRead)
    BY <2>2
  <2>4. pe_wrong' = pe_wrong
    BY <2>1, <2>3 DEF PeInv
  <2> QED BY <2>1, <2>4, PeOutputsKeep
<1> QED BY <1>1, <1>2, <1>3, <1>4, <1>5

LEMMA PeStarts == PeInit => PeInv
<1> SUFFICES ASSUME PeInit PROVE PeInv
  OBVIOUS
<1>1. 0 \in PeFds
  BY PeAssumption DEF PeFds
<1>2. pe_fds \in [PeFds -> PeNodes \cup {PeStdin, PeNobody}] /\ pe_fds[0] = PeStdin
  BY <1>1 DEF PeInit
<1>3. DOMAIN pe_nodes = {}
  BY DEF PeInit
<1>4. PeOwn(pe_fds, pe_nodes)
  <2>1. \A f \in PeFds \ {0} : pe_fds[f] = PeNobody
    BY DEF PeInit
  <2>2. \A n : PeHas(pe_nodes, n) = {}
    BY <1>3 DEF PeHas
  <2> QED BY <2>1, <2>2, PeNames DEF PeOwn
<1>5. PeWatched(pe_watches, pe_nodes)
  BY DEF PeInit, PeWatched
<1> QED BY <1>2, <1>3, <1>4, <1>5 DEF PeInit, PeInv

LEMMA PeSteps == PeCalm /\ PeInv /\ [PeNext]_pevars => PeInv'
<1> SUFFICES ASSUME PeCalm, PeInv, [PeNext]_pevars PROVE PeInv'
  OBVIOUS
<1>1. ASSUME UNCHANGED pevars PROVE PeInv'
  BY <1>1 DEF pevars, PeInv, PeExports
<1>2. ASSUME UNCHANGED pe_os, NEW n \in PeNodes, LinuxPeNext(n) PROVE PeInv'
  <2>1. CASE SerialRequest(n) \/ SerialRelease(n) \/ SerialTransfer(n)
    <3>1. PeKind(n) = "serial"
      BY <2>1 DEF SerialRequest, SerialRelease, SerialTransfer, PeLinux, PeKind
    <3>2. SerialOpens(n) \/ SerialCloses(n) \/ (PeUses(n) /\ UNCHANGED pe_on)
      BY <2>1 DEF SerialRequest, SerialRelease, SerialTransfer
    <3> QED BY <1>2, <3>1, <3>2, SerialOpensKeeps, SerialClosesKeeps, PeUsesKeeps
  <2>2. CASE PwmSet(n) \/ \E on \in BOOLEAN : PwmEnable(n, on)
    <3>1. /\ PeKind(n) = "pwm" /\ n \in DOMAIN pe_nodes
          /\ pe_on' \subseteq pe_on \cup {n}
          /\ UNCHANGED <<pe_fds, pe_nodes, pe_exported, pe_watches, pe_wrong>>
      BY <2>2 DEF PwmSet, PwmEnable, PeLinux, PeListed, PeKind
    <3> QED BY <1>2, <3>1, PeOutputsKeep DEF PeEnables
  <2> QED BY <1>2, <2>1, <2>2, GpioRequestKeeps, GpioReleaseKeeps, SetChangeCallbackKeeps, UnsetCallbackKeeps,
             SetReceivedCallbackKeeps, PwmRequestKeeps, PwmReleaseKeeps, PeAdcKeeps DEF LinuxPeNext
<1>3. ASSUME UNCHANGED pe_os, NEW n \in PeNodes, RtPeNext(n) PROVE PeInv'
  <2>1. CASE RtSerialRequest(n) \/ RtSerialRelease(n) \/ RtSerialTransfer(n)
    <3>1. PeKind(n) = "serial"
      BY <2>1 DEF RtSerialRequest, RtSerialRelease, RtSerialTransfer, PeTizenRt, PeKind
    <3>2. SerialOpens(n) \/ SerialCloses(n) \/ (PeUses(n) /\ UNCHANGED pe_on)
      BY <2>1 DEF RtSerialRequest, RtSerialRelease, RtSerialTransfer
    <3> QED BY <1>3, <3>1, <3>2, SerialOpensKeeps, SerialClosesKeeps, PeUsesKeeps
  <2>2. CASE RtPwmRequest(n)
    <3>1. PeKind(n) = "pwm" /\ pe_os = "tizenrt" /\ SerialOpens(n)
      BY <2>2 DEF RtPwmRequest, PeTizenRt, PeKind
    <3> QED BY <1>3, <3>1, SerialOpensKeeps
  <2>3. CASE RtPwmSet(n) \/ \E on \in BOOLEAN : RtPwmEnable(n, on)
    <3>1. /\ PeKind(n) = "pwm" /\ pe_os = "tizenrt" /\ PeUses(n)
          /\ pe_on' \subseteq pe_on \cup {n}
      BY <2>3 DEF RtPwmSet, RtPwmEnable, PeTizenRt, PeKind
    <3> QED BY <1>3, <3>1, PeUsesKeeps DEF PeEnables
  <2> QED BY <1>3, <2>1, <2>2, <2>3, RtPwmReleaseKeeps, PeAdcKeeps DEF RtPeNext
<1>4. ASSUME UNCHANGED pe_os, NEW w \in pe_watches, GpioChangeCallback(w) \/ SerialChangeCallback(w) PROVE PeInv'
  BY <1>4, PeCalledBackKeeps DEF GpioChangeCallback, SerialChangeCallback
<1> QED BY <1>1, <1>2, <1>3, <1>4 DEF PeNext

LEMMA PeGives == PeInv => HandlesOwnFiles
<1> SUFFICES ASSUME PeInv PROVE HandlesOwnFiles
  OBVIOUS
<1>1. \A n \in DOMAIN pe_nodes : pe_nodes[n] \in PeData
  BY DEF PeInv, PeFits
<1>2. \A n \in pe_exported : n \in PeNodes
  BY DEF PeInv
<1>3. \A n \in pe_on : n \in PeNodes
  BY DEF PeInv
<1>4. PeTypeOK
  BY <1>1, <1>2, <1>3 DEF PeTypeOK, PeInv, PeWatched
<1>5. \A f, n : f \in PeHas(pe_nodes, n) <=> PeListed(n) /\ f \in PeHolds(n)
  BY DEF PeHas, PeListed, PeHolds
<1>6. \A f \in PeFds \ {0}, n \in PeNodes : pe_fds[f] = n <=> PeListed(n) /\ f \in PeHolds(n)
  BY <1>5 DEF PeInv, PeOwn
<1>7. pe_exported = {n \in DOMAIN pe_nodes : pe_os = "linux" /\ PeKind(n) \in {"gpio", "pwm"}}
  BY DEF PeInv, PeExports
<1>8. \A w \in pe_watches : PeListed(w.node) /\ pe_nodes[w.node].watch /\ pe_nodes[w.node].fd = w.fd
  BY DEF PeInv, PeWatched, PeListed
<1>9. ~pe_wrong /\ pe_fds[0] = PeStdin /\ pe_on \subseteq DOMAIN pe_nodes
  BY DEF PeInv
<1> QED BY <1>4, <1>6, <1>7, <1>8, <1>9 DEF HandlesOwnFiles

-----------------------------------------------------------------------------
(* Peripherals: buses.                                                     *)

\* Registers of 8 bits, a driver that goes on where it was, one SPI bus, and callers
\* that take a count for success.
BsCalm == BsUnusual = {}

BsModes == {c.mode : c \in BsSpis} \cup {0}
BsRates == {c.rate : c \in BsSpis} \cup {0}
BsRegisters == [BsReg -> Nat]
BsSlaveT == [at : BsReg, regs : BsRegisters]

\* The application and the device agree on every slave; SPI has the settings of its
\* handles on Linux, and the bus of its one handle on TizenRT.
BsInv ==
    /\ \A s \in DOMAIN bs_i2c : bs_i2c[s] \in {1, 2, 3} /\ (pe_os = "tizenrt" => bs_i2c[s] = 1)
    /\ bs_slave \in [BsSlaves -> BsSlaveT] /\ bs_meant = bs_slave
    /\ bs_last.right = TRUE /\ (bs_last.done <=> bs_last.ret = "S_OK")
    /\ bs_spi \subseteq BsSpis
    /\ \A c, d \in bs_spi : c.bus = d.bus => c = d
    /\ bs_setup \in [BsDevices -> [mode : BsModes, rate : BsRates]]
    /\ pe_os = "linux" => \A c \in bs_spi : bs_setup[BsDevice(c)] = Setup(c)
    /\ pe_os = "tizenrt" => \/ bs_spi = {} /\ bs_sdev = 0
                            \/ bs_sdev # 0 /\ \E c \in BsSpis : bs_spi = {c} /\ bs_sdev = c.bus

LEMMA BsMod ==
    ASSUME NEW r \in Int
    PROVE  r % BsRegs \in BsReg /\ (r \in BsReg => r % BsRegs = r)
BY BsAssumption DEF BsReg

\* The bytes of a register's number.
LEMMA BsNumber ==
    ASSUME NEW reg \in BsReg, NEW w \in {1, 2}
    PROVE  /\ RegBytes(reg, w) \in Seq(Nat) /\ Len(RegBytes(reg, w)) = w
           /\ RegBytes(reg, w)[1] = reg /\ (w = 2 => RegBytes(reg, w)[2] = 0)
<1>1. reg \in Nat /\ reg < 256 /\ reg % 256 = reg /\ reg \div 256 = 0
  BY BsAssumption DEF BsReg
<1> DEFINE s == <<reg, 0, 0>>
<1>2. RegBytes(reg, w) = SubSeq(s, 1, w)
  BY <1>1 DEF RegBytes
<1>3. s \in Seq(Nat) /\ s[1] = reg /\ s[2] = 0 /\ \A i \in 1 .. w : s[i] \in Nat
  BY <1>1
<1> HIDE DEF s
<1>4. /\ SubSeq(s, 1, w) \in Seq(Nat)
      /\ Len(SubSeq(s, 1, w)) = IF 1 <= w THEN w - 1 + 1 ELSE 0
      /\ \A i \in 1 .. w - 1 + 1 : SubSeq(s, 1, w)[i] = s[1 + i - 1]
  BY <1>3, SubSeqProperties
<1>5. w = 1 \/ w = 2
  OBVIOUS
<1> QED BY <1>2, <1>3, <1>4, <1>5

\* A register's write is a message of its number and the bytes.
LEMMA BsWrites ==
    ASSUME NEW slave \in BsSlaveT, NEW w \in {1, 2}, NEW reg \in BsReg, NEW text \in Seq(Nat)
    PROVE  BsTakes(slave, w, RegBytes(reg, w) \o text) = Stored(slave, reg, text)
<1>1. reg \in Nat /\ reg < 256
  BY BsAssumption DEF BsReg
<1>3. RegBytes(reg, w) \in Seq(Nat) /\ Len(RegBytes(reg, w)) = w /\ RegBytes(reg, w)[1] = reg /\ (w = 2 => RegBytes(reg, w)[2] = 0)
  BY BsNumber
<1> DEFINE number == RegBytes(reg, w)
           n == Len(text)
<1> HIDE DEF number
<1>4. /\ number \in Seq(Nat) /\ Len(number) = w /\ n \in Nat /\ number \o text \in Seq(Nat)
      /\ Len(number \o text) = w + n /\ (number \o text)[1] = reg /\ (w = 2 => (number \o text)[2] = 0)
      /\ \A i \in 1 .. n : (number \o text)[w + i] = text[i]
  BY <1>3 DEF number
<1> DEFINE rest == SubSeq(number \o text, w + 1, Len(number \o text))
<1>5. rest = text
  <2> DEFINE all == number \o text
  <2>1. \A i \in w + 1 .. w + n : all[i] \in Nat
    BY <1>4
  <2>2. w + 1 \in Int /\ w + n \in Int
    BY <1>4
  <2> HIDE DEF all
  <2>3. /\ SubSeq(all, w + 1, w + n) \in Seq(Nat)
        /\ Len(SubSeq(all, w + 1, w + n)) = IF w + 1 <= w + n THEN (w + n) - (w + 1) + 1 ELSE 0
        /\ \A i \in 1 .. (w + n) - (w + 1) + 1 : SubSeq(all, w + 1, w + n)[i] = all[(w + 1) + i - 1]
    BY <2>1, <2>2, SubSeqProperties
  <2> DEFINE part == SubSeq(all, w + 1, w + n)
  <2>4. Len(part) = n /\ \A i \in 1 .. n : part[i] = all[w + i]
    BY <1>4, <2>3
  <2>5. part \in Seq(Nat)
    BY <2>3
  <2> HIDE DEF part
  <2>6. part = text
    BY <1>4, <2>4, <2>5, SeqEqual DEF all
  <2> QED BY <1>4, <2>6 DEF part, all
<1>6. (reg + IF w > 1 THEN 256 * 0 ELSE 0) % BsRegs = reg
  BY BsMod, <1>1
<1> HIDE DEF rest
<1>7. BsTakes(slave, w, number \o text) = Stored(slave, reg, rest)
  BY <1>4, <1>6 DEF BsTakes, rest
<1> QED BY <1>5, <1>7 DEF number

\* The number of a register alone moves the slave there.
LEMMA BsAddresses ==
    ASSUME NEW slave \in BsSlaveT, NEW w \in {1, 2}, NEW reg \in BsReg
    PROVE  BsTakes(slave, w, RegBytes(reg, w)) = [slave EXCEPT !.at = reg]
<1>1. <<>> \in Seq(Nat)
  OBVIOUS
<1>2. reg \in Nat /\ reg < 256
  BY BsAssumption DEF BsReg
<1>3. RegBytes(reg, w) \o <<>> = RegBytes(reg, w)
  <2>1. RegBytes(reg, w) \in Seq(Nat)
    BY BsNumber
  <2> QED BY <2>1, ConcatEmptySeq
<1>4. BsTakes(slave, w, RegBytes(reg, w)) = Stored(slave, reg, <<>>)
  BY <1>1, <1>3, BsWrites
<1>5. Stored(slave, reg, <<>>) = [at |-> reg, regs |-> slave.regs]
  <2>1. (reg + Len(<<>>)) % BsRegs = reg
    BY <1>2, BsMod
  <2>2. \A r \in BsReg : ~ ((r + BsRegs - reg) % BsRegs < Len(<<>>))
    <3> TAKE r \in BsReg
    <3>1. r + BsRegs - reg \in Int
      BY <1>2, BsAssumption DEF BsReg
    <3> DEFINE k == (r + BsRegs - reg) % BsRegs
    <3>2. k \in BsReg
      BY <3>1, BsMod
    <3> HIDE DEF k
    <3>3. k \in Nat /\ Len(<<>>) = 0
      BY <3>2 DEF BsReg
    <3>4. ~ (k < Len(<<>>))
      BY <3>3
    <3> QED BY <3>4 DEF k
  <2>3. slave.regs \in [BsReg -> Nat]
    BY DEF BsSlaveT, BsRegisters
  <2>4. slave.regs = [r \in BsReg |-> slave.regs[r]]
    BY <2>3
  <2> QED BY <2>1, <2>2, <2>4 DEF Stored
<1>6. [slave EXCEPT !.at = reg] = [at |-> reg, regs |-> slave.regs]
  BY DEF BsSlaveT
<1> QED BY <1>4, <1>5, <1>6

LEMMA BsStored ==
    ASSUME NEW slave \in BsSlaveT, NEW reg \in BsReg, NEW text \in Seq(Nat)
    PROVE  Stored(slave, reg, text) \in BsSlaveT
<1>1. reg \in Int /\ Len(text) \in Nat /\ reg + Len(text) \in Int
  BY BsAssumption DEF BsReg
<1>2. (reg + Len(text)) % BsRegs \in BsReg
  BY <1>1, BsMod
<1>3. ASSUME NEW r \in BsReg
      PROVE  LET k == (r + BsRegs - reg) % BsRegs IN (IF k < Len(text) THEN text[k + 1] ELSE slave.regs[r]) \in Nat
  <2> DEFINE k == (r + BsRegs - reg) % BsRegs
  <2>1. r + BsRegs - reg \in Int
    BY <1>1, BsAssumption DEF BsReg
  <2>2. k \in Nat
    BY <2>1, BsMod DEF BsReg
  <2> HIDE DEF k
  <2>3. k < Len(text) => text[k + 1] \in Nat
    <3> SUFFICES ASSUME k < Len(text) PROVE text[k + 1] \in Nat
      OBVIOUS
    <3>1. k + 1 \in 1 .. Len(text)
      BY <1>1, <2>2
    <3> QED BY <3>1
  <2>4. slave.regs[r] \in Nat
    BY DEF BsSlaveT, BsRegisters
  <2> QED BY <2>3, <2>4 DEF k
<1> QED BY <1>2, <1>3 DEF Stored, BsSlaveT, BsRegisters

LEMMA BsCounted ==
    ASSUME NEW slave \in BsSlaveT, NEW len \in Nat, NEW reg \in BsReg
    PROVE  Counted(slave, len) \in BsSlaveT /\ [slave EXCEPT !.at = reg] \in BsSlaveT
<1>1. slave.at + len \in Int
  BY BsAssumption DEF BsSlaveT, BsReg
<1>2. (slave.at + len) % BsRegs \in BsReg
  BY <1>1, BsMod
<1> QED BY <1>2 DEF Counted, BsSlaveT

\* What the calls of a slave make of it is what they mean.
LEMMA BsPlain ==
    ASSUME NEW slave \in BsSlaveT, NEW w \in {1, 2}, NEW reg \in BsReg, NEW text \in BsTexts
    PROVE  /\ BsTakes(slave, w, RegBytes(reg, w) \o text) = Stored(slave, reg, text)
           /\ Stored(slave, reg, text) \in BsSlaveT
<1>1. text \in Seq(Nat)
  BY BsAssumption
<1> QED BY <1>1, BsWrites, BsStored

LEMMA BsAnswers ==
    ASSUME NEW slave \in BsSlaveT, NEW w \in {1, 2}, NEW reg \in BsReg, NEW len \in Nat
    PROVE  /\ Answer(slave, w, reg, len).slave = Counted([slave EXCEPT !.at = reg], len)
           /\ Answer(slave, w, reg, len).slave \in BsSlaveT
           /\ Answer(slave, w, reg, len).got = BsHeld(slave, reg, len)
<1> DEFINE at == [slave EXCEPT !.at = reg]
<1>1. at \in BsSlaveT /\ at.at = reg /\ at.regs = slave.regs
  BY BsCounted DEF BsSlaveT
<1>2. BsTakes(slave, w, RegBytes(reg, w)) = at
  BY BsAddresses
<1> HIDE DEF at
<1>3. Answer(slave, w, reg, len) = [slave |-> Counted(at, len), got |-> Gives(at, len)]
  BY <1>2 DEF Answer
<1>4. Gives(at, len) = BsHeld(slave, reg, len)
  BY <1>1 DEF Gives, BsHeld
<1>5. Counted(at, len) \in BsSlaveT
  BY <1>1, BsCounted
<1> QED BY <1>3, <1>4, <1>5 DEF at

\* A call that means what it makes, and gives what is right.
LEMMA BsCalls ==
    ASSUME BsInv, NEW s \in BsSlaves, NEW may, NEW slave \in BsSlaveT, NEW meant, NEW right,
           UNCHANGED pe_os, I2cCall(s, may, slave, meant, "S_OK", right),
           may => slave = meant /\ right = TRUE, may \in BOOLEAN
    PROVE  BsInv'
<1>1. PICK ok \in {may, FALSE} :
         /\ bs_slave' = IF ok THEN [bs_slave EXCEPT ![s] = slave] ELSE bs_slave
         /\ bs_meant' = IF ok THEN [bs_meant EXCEPT ![s] = meant] ELSE bs_meant
         /\ bs_last' = IF ok THEN [done |-> TRUE, ret |-> "S_OK", right |-> right]
                       ELSE [done |-> FALSE, ret |-> "E_ACCESS_DENIED", right |-> TRUE]
  BY DEF I2cCall
<1>2. UNCHANGED <<bs_i2c, bs_spi, bs_sdev, bs_setup>>
  BY DEF I2cCall
<1>3. bs_slave \in [BsSlaves -> BsSlaveT] /\ bs_meant = bs_slave
  BY DEF BsInv
<1>4. ok => slave = meant /\ right = TRUE
  OBVIOUS
<1>5. bs_slave' \in [BsSlaves -> BsSlaveT] /\ bs_meant' = bs_slave'
  <2> HIDE DEF BsSlaveT
  <2> QED BY <1>1, <1>3, <1>4
<1>6. bs_last'.right = TRUE /\ (bs_last'.done <=> bs_last'.ret = "S_OK")
  <2>1. "S_OK" # "E_ACCESS_DENIED"
    OBVIOUS
  <2> QED BY <1>1, <1>4, <2>1
<1> QED BY <1>2, <1>5, <1>6 DEF BsInv

\* Handles of slaves come and go.
LEMMA BsLists ==
    ASSUME BsInv, NEW i2c, bs_i2c' = i2c, \A s \in DOMAIN i2c : i2c[s] \in {1, 2, 3} /\ (pe_os = "tizenrt" => i2c[s] = 1),
           bs_last' = BsNothing, UNCHANGED <<pe_os, bs_slave, bs_meant, bs_spi, bs_sdev, bs_setup>>
    PROVE  BsInv'
<1>1. bs_last'.right = TRUE /\ (bs_last'.done <=> bs_last'.ret = "S_OK")
  BY DEF BsNothing
<1> QED BY <1>1 DEF BsInv

LEMMA BsI2c ==
    ASSUME BsCalm, BsInv, NEW s \in BsSlaves, I2cNext(s), UNCHANGED pe_os
    PROVE  BsInv'
<1>1. BsInv /\ BsUnusual = {} /\ bs_slave \in [BsSlaves -> BsSlaveT] /\ bs_meant = bs_slave /\ bs_slave[s] \in BsSlaveT
  BY DEF BsInv, BsCalm
<1>2. ASSUME NEW w \in {1, 2, 3}, os_i2c_request(s, w) \/ rt_i2c_request(s, w) PROVE BsInv'
  <2> DEFINE i2c == [t \in DOMAIN bs_i2c \cup {s} |-> IF t = s THEN w ELSE bs_i2c[t]]
  <2>1. I2cList(s, w) /\ (pe_os = "tizenrt" => w = 1)
    BY <1>1, <1>2 DEF os_i2c_request, rt_i2c_request
  <2>2. bs_i2c' = i2c /\ bs_last' = BsNothing /\ UNCHANGED <<pe_os, bs_slave, bs_meant, bs_spi, bs_sdev, bs_setup>>
    BY <2>1 DEF I2cList
  <2>3. \A t \in DOMAIN i2c : i2c[t] \in {1, 2, 3} /\ (pe_os = "tizenrt" => i2c[t] = 1)
    BY <1>1, <2>1 DEF BsInv
  <2> HIDE DEF i2c
  <2> QED BY <2>2, <2>3, BsLists
<1>3. ASSUME I2cRelease(s) PROVE BsInv'
  <2> DEFINE i2c == [t \in DOMAIN bs_i2c \ {s} |-> bs_i2c[t]]
  <2>1. bs_i2c' = i2c /\ bs_last' = BsNothing /\ UNCHANGED <<pe_os, bs_slave, bs_meant, bs_spi, bs_sdev, bs_setup>>
    BY <1>3 DEF I2cRelease
  <2>2. \A t \in DOMAIN i2c : i2c[t] \in {1, 2, 3} /\ (pe_os = "tizenrt" => i2c[t] = 1)
    BY DEF BsInv
  <2> HIDE DEF i2c
  <2> QED BY <2>1, <2>2, BsLists
<1> DEFINE w == bs_i2c[s]
           may == w \in {1, 2}
           x == bs_slave[s]
<1>4. \A len \in 1 .. BsRegs : len \in Nat
  BY BsAssumption
<1>5. 0 \in BsReg
  BY BsAssumption DEF BsReg
<1>6. ASSUME NEW len \in Nat, os_i2c_read(s, len) PROVE BsInv'
  <2>1. I2cCall(s, may, Counted(x, len), Counted(x, len), "S_OK", TRUE)
    BY <1>1, <1>6 DEF os_i2c_read, LinuxCall
  <2>2. Counted(x, len) \in BsSlaveT
    BY <1>1, <1>5, BsCounted
  <2>3. may \in BOOLEAN
    OBVIOUS
  <2> HIDE DEF may
  <2> QED BY <1>1, <2>1, <2>2, <2>3, BsCalls
<1>7. ASSUME NEW len \in Nat, NEW reg \in BsReg, os_i2c_read_register(s, reg, len) PROVE BsInv'
  <2> DEFINE read == Answer(x, w, reg, len)
             slave == IF may THEN read.slave ELSE x
             meant == Meaning(s, reg, len)
             right == read.got = BsHeld(x, reg, len)
  <2>1. I2cCall(s, may, read.slave, meant, "S_OK", right)
    BY <1>1, <1>7 DEF os_i2c_read_register, LinuxCall
  <2>2. I2cCall(s, may, slave, meant, "S_OK", right)
    BY <2>1 DEF I2cCall
  <2>3. may => read.slave = meant /\ read.slave \in BsSlaveT /\ right = TRUE
    <3> SUFFICES ASSUME may PROVE read.slave = meant /\ read.slave \in BsSlaveT /\ right = TRUE
      OBVIOUS
    <3>1. /\ read.slave = Counted([x EXCEPT !.at = reg], len) /\ read.slave \in BsSlaveT
          /\ read.got = BsHeld(x, reg, len)
      BY <1>1, BsAnswers
    <3>2. meant = Counted([x EXCEPT !.at = reg], len)
      BY <1>1 DEF Meaning
    <3> QED BY <3>1, <3>2
  <2> HIDE DEF read, meant, right
  <2>4. slave \in BsSlaveT /\ (may => slave = meant /\ right = TRUE)
    BY <1>1, <2>3
  <2> HIDE DEF slave, may
  <2>5. may \in BOOLEAN
    BY DEF may
  <2> QED BY <1>1, <2>2, <2>4, <2>5, BsCalls
<1>8. ASSUME NEW reg \in BsReg, NEW text \in BsTexts, os_i2c_write(s, reg, text) \/ os_i2c_write_register(s, reg, text) PROVE BsInv'
  <2> DEFINE took == BsTakes(x, w, RegBytes(reg, w) \o text)
             slave == IF may THEN took ELSE x
             meant == Stored(x, reg, text)
  <2>1. I2cCall(s, may, took, meant, "S_OK", TRUE)
    BY <1>1, <1>8 DEF os_i2c_write, os_i2c_write_register, LinuxCall, Plainly
  <2>2. I2cCall(s, may, slave, meant, "S_OK", TRUE)
    BY <2>1 DEF I2cCall
  <2>3. may => took = meant /\ took \in BsSlaveT
    BY <1>1, BsPlain
  <2> HIDE DEF took, meant
  <2>4. slave \in BsSlaveT /\ (may => slave = meant)
    BY <1>1, <2>3
  <2> HIDE DEF slave, may
  <2>5. may \in BOOLEAN
    BY DEF may
  <2> QED BY <1>1, <2>2, <2>4, <2>5, BsCalls
<1>9. ASSUME NEW len \in Nat, rt_i2c_read(s, len) PROVE BsInv'
  <2>1. I2cCall(s, TRUE, Counted(x, len), Counted(x, len), "S_OK", TRUE)
    BY <1>1, <1>9 DEF rt_i2c_read, RtCall, RtResult
  <2>2. Counted(x, len) \in BsSlaveT
    BY <1>1, <1>5, BsCounted
  <2> QED BY <1>1, <2>1, <2>2, BsCalls
<1>10. ASSUME NEW len \in Nat, NEW reg \in BsReg, w = 1, rt_i2c_read_register(s, reg, len) PROVE BsInv'
  <2> DEFINE read == Answer(x, 1, reg, len)
  <2>1. len * w = len
    BY <1>10
  <2>2. I2cCall(s, TRUE, read.slave, Meaning(s, reg, len), "S_OK", read.got = BsHeld(x, reg, len))
    <3> HIDE DEF w
    <3> QED BY <1>1, <1>10, <2>1 DEF rt_i2c_read_register, RtCall, w
  <2>3. /\ read.slave = Counted([x EXCEPT !.at = reg], len) /\ read.slave \in BsSlaveT
        /\ (read.got = BsHeld(x, reg, len)) = TRUE
    BY <1>1, BsAnswers
  <2>4. Meaning(s, reg, len) = Counted([x EXCEPT !.at = reg], len)
    BY <1>1 DEF Meaning
  <2> HIDE DEF read
  <2> QED BY <1>1, <2>2, <2>3, <2>4, BsCalls
<1>11. ASSUME NEW reg \in BsReg, NEW text \in BsTexts, w = 1, rt_i2c_write(s, reg, text) \/ rt_i2c_write_register(s, reg, text) PROVE BsInv'
  <2>1. text \in Seq(Nat) /\ Len(text) \in Nat
    BY BsAssumption
  <2>2. BsSent(text, Len(text) * w) = text
    <3>1. Len(text) * w = Len(text)
      BY <1>11, <2>1
    <3>2. BsSent(text, Len(text)) = [k \in 1 .. Len(text) |-> text[k]]
      BY <2>1 DEF BsSent
    <3>3. text = [k \in 1 .. Len(text) |-> text[k]]
      BY <2>1
    <3> QED BY <3>1, <3>2, <3>3
  <2> DEFINE took == BsTakes(x, 1, RegBytes(reg, 1) \o text)
             meant == Stored(x, reg, text)
  <2>3. I2cCall(s, TRUE, took, meant, "S_OK", TRUE)
    <3>1. CASE rt_i2c_write(s, reg, text)
      BY <1>1, <1>11, <3>1 DEF rt_i2c_write, RtCall, RtResult, Plainly
    <3>2. CASE rt_i2c_write_register(s, reg, text)
      BY <1>1, <1>11, <2>2, <3>2 DEF rt_i2c_write_register, RtCall
    <3> QED BY <1>11, <3>1, <3>2
  <2>4. took = meant /\ took \in BsSlaveT
    BY <1>1, BsPlain
  <2> HIDE DEF took, meant
  <2> QED BY <1>1, <2>3, <2>4, BsCalls
<1>12. s \in DOMAIN bs_i2c /\ pe_os = "tizenrt" => w = 1
  BY DEF BsInv
<1> HIDE DEF w, may, x
<1> QED BY <1>2, <1>3, <1>4, <1>6, <1>7, <1>8, <1>9, <1>10, <1>11, <1>12 DEF I2cNext

\* SPI: no call of I2C is concerned.
LEMMA BsSpiKeeps ==
    ASSUME BsInv, UNCHANGED <<pe_os, bs_i2c, bs_slave, bs_meant>>,
           bs_last'.right = TRUE, bs_last'.done <=> bs_last'.ret = "S_OK",
           bs_spi' \subseteq BsSpis,
           \A c, d \in bs_spi' : c.bus = d.bus => c = d,
           bs_setup' \in [BsDevices -> [mode : BsModes, rate : BsRates]],
           pe_os = "linux" => \A c \in bs_spi' : bs_setup'[BsDevice(c)] = Setup(c),
           pe_os = "tizenrt" => \/ bs_spi' = {} /\ bs_sdev' = 0
                                \/ bs_sdev' # 0 /\ \E c \in BsSpis : bs_spi' = {c} /\ bs_sdev' = c.bus
    PROVE  BsInv'
BY DEF BsInv

LEMMA BsResult ==
    ASSUME NEW done \in BOOLEAN, NEW ret, done <=> ret = "S_OK",
           bs_last' = [done |-> done, ret |-> ret, right |-> TRUE]
    PROVE  bs_last'.right = TRUE /\ (bs_last'.done <=> bs_last'.ret = "S_OK")
OBVIOUS

LEMMA BsSpiRequest ==
    ASSUME BsCalm, BsInv, NEW c \in BsSpis, os_spi_request(c), UNCHANGED pe_os
    PROVE  BsInv'
<1>1. PICK ok \in BOOLEAN :
         /\ ok => bs_setup'[BsDevice(c)] = Setup(c)
         /\ bs_spi' = IF ok THEN bs_spi \cup {c} ELSE bs_spi
         /\ SpiReturns(ok, IF ok THEN "S_OK" ELSE "E_ACCESS_DENIED", TRUE)
  BY DEF os_spi_request
<1>2. pe_os = "linux" /\ SpiFree(c) /\ bs_setup' \in SpiSetups(c)
  BY DEF os_spi_request
<1>3. bs_last'.right = TRUE /\ (bs_last'.done <=> bs_last'.ret = "S_OK")
      /\ UNCHANGED <<bs_i2c, bs_slave, bs_meant>>
  <2>1. "S_OK" # "E_ACCESS_DENIED"
    OBVIOUS
  <2> QED BY <1>1, <2>1 DEF SpiReturns
<1> DEFINE d == BsDevice(c)
<1>4. d \in BsDevices /\ c.mode \in BsModes /\ c.rate \in BsRates
  BY DEF BsDevices, BsModes, BsRates
<1>5. bs_setup \in [BsDevices -> [mode : BsModes, rate : BsRates]]
  BY DEF BsInv
<1>6. Setup(c) \in [mode : BsModes, rate : BsRates] /\ [bs_setup[d] EXCEPT !.mode = c.mode] \in [mode : BsModes, rate : BsRates]
  <2> HIDE DEF d
  <2> QED BY <1>4, <1>5 DEF Setup
<1>7. PICK v \in [mode : BsModes, rate : BsRates] : bs_setup' = [bs_setup EXCEPT ![d] = v]
  <2>1. bs_setup' \in {bs_setup, [bs_setup EXCEPT ![d] = [bs_setup[d] EXCEPT !.mode = c.mode]], [bs_setup EXCEPT ![d] = Setup(c)]}
    BY <1>2 DEF SpiSetups
  <2> HIDE DEF d
  <2>2. bs_setup = [bs_setup EXCEPT ![d] = bs_setup[d]] /\ bs_setup[d] \in [mode : BsModes, rate : BsRates]
    BY <1>4, <1>5
  <2> QED BY <1>6, <2>1, <2>2
<1>8. bs_setup' \in [BsDevices -> [mode : BsModes, rate : BsRates]] /\ \A e \in BsDevices : e # d => bs_setup'[e] = bs_setup[e]
  <2> HIDE DEF d
  <2> QED BY <1>4, <1>5, <1>7
<1>9. \A e \in bs_spi : e.bus # c.bus /\ e \in BsSpis /\ BsDevice(e) # d /\ BsDevice(e) \in BsDevices
  BY <1>2 DEF SpiFree, BsDevice, BsDevices, BsInv
<1>10. \A e \in bs_spi : bs_setup'[BsDevice(e)] = Setup(e)
  BY <1>2, <1>8, <1>9 DEF BsInv
<1>11. \A e \in bs_spi' : bs_setup'[BsDevice(e)] = Setup(e)
  BY <1>1, <1>10
<1>12. bs_spi' \subseteq BsSpis /\ \A e, f \in bs_spi' : e.bus = f.bus => e = f
  BY <1>1, <1>9 DEF BsInv
<1> QED BY <1>2, <1>3, <1>8, <1>11, <1>12, BsSpiKeeps

LEMMA BsSpiSteps ==
    ASSUME BsCalm, BsInv, SpiNext, UNCHANGED pe_os
    PROVE  BsInv'
<1>1. ASSUME NEW c \in BsSpis, os_spi_request(c) PROVE BsInv'
  BY <1>1, BsSpiRequest
<1>2. ASSUME NEW c \in BsSpis, rt_spi_request(c) PROVE BsInv'
  <2>1. pe_os = "tizenrt" /\ bs_spi = {} /\ bs_spi' = {c} /\ bs_sdev' = c.bus /\ bs_setup' = bs_setup
        /\ SpiReturns(TRUE, "S_OK", TRUE)
    BY <1>2 DEF rt_spi_request, BsCalm
  <2>2. c.bus # 0 /\ bs_setup' \in [BsDevices -> [mode : BsModes, rate : BsRates]]
    BY <2>1, BsAssumption DEF BsInv
  <2>3. bs_last'.right = TRUE /\ (bs_last'.done <=> bs_last'.ret = "S_OK") /\ UNCHANGED <<bs_i2c, bs_slave, bs_meant>>
    BY <2>1 DEF SpiReturns
  <2>4. bs_spi' \subseteq BsSpis /\ (\A e, f \in bs_spi' : e.bus = f.bus => e = f) /\ pe_os # "linux"
    BY <2>1
  <2> QED BY <2>1, <2>2, <2>3, <2>4, BsSpiKeeps
<1>3. ASSUME NEW c \in bs_spi, os_spi_release(c) PROVE BsInv'
  <2>1. pe_os = "linux" /\ bs_spi' = bs_spi \ {c} /\ SpiReturns(TRUE, "S_OK", TRUE) /\ UNCHANGED <<bs_sdev, bs_setup>>
    BY <1>3 DEF os_spi_release
  <2>2. bs_last'.right = TRUE /\ (bs_last'.done <=> bs_last'.ret = "S_OK") /\ UNCHANGED <<bs_i2c, bs_slave, bs_meant>>
    BY <2>1 DEF SpiReturns
  <2>3. bs_spi' \subseteq BsSpis /\ (\A e, f \in bs_spi' : e.bus = f.bus => e = f)
        /\ (\A e \in bs_spi' : bs_setup'[BsDevice(e)] = Setup(e)) /\ pe_os # "tizenrt"
        /\ bs_setup' \in [BsDevices -> [mode : BsModes, rate : BsRates]]
    BY <2>1 DEF BsInv
  <2> QED BY <2>2, <2>3, BsSpiKeeps
<1>4. ASSUME UNCHANGED <<bs_spi, bs_sdev, bs_setup>>,
             SpiReturns(TRUE, "S_OK", TRUE) \/ \E ret \in {"E_ACCESS_DENIED", "E_NOT_INITIALIZED"} : SpiReturns(FALSE, ret, TRUE)
      PROVE  BsInv'
  <2>1. "S_OK" # "E_ACCESS_DENIED" /\ "S_OK" # "E_NOT_INITIALIZED"
    OBVIOUS
  <2>2. bs_last'.right = TRUE /\ (bs_last'.done <=> bs_last'.ret = "S_OK") /\ UNCHANGED <<bs_i2c, bs_slave, bs_meant>>
    BY <1>4, <2>1 DEF SpiReturns
  <2> QED BY <1>4, <2>2 DEF BsInv
<1>5. ASSUME NEW c \in bs_spi, os_spi_read(c) \/ os_spi_write(c) \/ os_spi_read_write(c) PROVE BsInv'
  <2>1. pe_os = "linux"
    BY <1>5 DEF os_spi_read, os_spi_write, os_spi_read_write, LinuxTransfers
  <2>2. bs_setup[BsDevice(c)] = Setup(c) /\ Setup(c).mode = c.mode
    BY <2>1 DEF BsInv, Setup
  <2>3. (bs_setup[BsDevice(c)] = Setup(c)) = TRUE /\ (bs_setup[BsDevice(c)].mode = c.mode) = TRUE
    BY <2>2
  <2>4. LinuxTransfers(TRUE)
    BY <1>5, <2>3 DEF os_spi_read, os_spi_write, os_spi_read_write
  <2> QED BY <1>4, <2>4 DEF LinuxTransfers
<1>6. ASSUME NEW c \in bs_spi, rt_spi_read(c) \/ rt_spi_write(c) \/ rt_spi_read_write(c) PROVE BsInv'
  <2>1. SpiTransfers(c)
    BY <1>6 DEF rt_spi_read, rt_spi_write, rt_spi_read_write
  <2>2. (bs_sdev = c.bus) = TRUE
    BY <2>1 DEF SpiTransfers, BsInv
  <2> QED BY <1>4, <2>1, <2>2 DEF SpiTransfers
<1>7. ASSUME NEW c \in bs_spi, rt_spi_release(c) PROVE BsInv'
  <2>1. pe_os = "tizenrt" /\ bs_setup' = bs_setup /\ bs_spi = {c} /\ bs_sdev # 0
    BY <1>7 DEF rt_spi_release, BsInv
  <2>2. SpiReturns(TRUE, "S_OK", TRUE) /\ bs_spi' = {} /\ bs_sdev' = 0
    BY <1>7, <2>1 DEF rt_spi_release
  <2>3. bs_last'.right = TRUE /\ (bs_last'.done <=> bs_last'.ret = "S_OK") /\ UNCHANGED <<bs_i2c, bs_slave, bs_meant>>
    BY <2>2 DEF SpiReturns
  <2>4. bs_setup' \in [BsDevices -> [mode : BsModes, rate : BsRates]] /\ pe_os # "linux"
    BY <2>1 DEF BsInv
  <2> QED BY <2>1, <2>2, <2>3, <2>4, BsSpiKeeps
<1> QED BY <1>1, <1>2, <1>3, <1>5, <1>6, <1>7 DEF SpiNext

LEMMA BsSteps ==
    ASSUME BsCalm, BsInv, BsNext, UNCHANGED pe_os
    PROVE  BsInv'
BY BsSpiSteps, BsI2c DEF BsNext

LEMMA BsStarts == ASSUME BsInit PROVE BsInv
<1>1. 0 \in BsReg /\ 0 \in Nat
  BY BsAssumption DEF BsReg
<1>2. [at |-> 0, regs |-> [r \in BsReg |-> 0]] \in BsSlaveT
  BY <1>1 DEF BsSlaveT, BsRegisters
<1>3. [mode |-> 0, rate |-> 0] \in [mode : BsModes, rate : BsRates]
  BY DEF BsModes, BsRates
<1>4. bs_last.right = TRUE /\ (bs_last.done <=> bs_last.ret = "S_OK")
  BY DEF BsInit, BsNothing
<1>5. bs_slave \in [BsSlaves -> BsSlaveT] /\ bs_meant = bs_slave
  BY <1>2 DEF BsInit
<1>6. bs_setup \in [BsDevices -> [mode : BsModes, rate : BsRates]]
  BY <1>3 DEF BsInit
<1> QED BY <1>4, <1>5, <1>6 DEF BsInit, BsInv

LEMMA BsGives == BsInv => TransfersAreExact
BY DEF BsInv, TransfersAreExact

LEMMA BsUnchanged == ASSUME BsInv, UNCHANGED <<bsvars, pe_os>> PROVE BsInv'
BY DEF BsInv, bsvars

-----------------------------------------------------------------------------
(* GPIO on TizenRT.                                                        *)

\* A watched pin is not released, and edges can be configured.
TgCalm == "watched" \notin TgUnusual /\ "fails" \notin TgUnusual

\* Threads are made in order, a callback has a thread, and who waits for one has
\* it.
TgInv ==
    /\ ThreadHasPin
    /\ \A t \in TgThreads : tg_threads[t].at # "new" <=> t <= TgCreated
    /\ \A p \in DOMAIN tg_pins : tg_pins[p].callback => tg_pins[p].thread # 0
    /\ \A p \in tg_joining : p \in DOMAIN tg_pins /\ tg_pins[p].callback

TgPlaces == {"new", "poll", "callback", "ended"}
TgPinData == [callback : BOOLEAN, quit : BOOLEAN, thread : TgThreads \cup {0}]
TgGoes == {"poll", "callback"}

LEMMA TgBound == TgPins # {} /\ \E n \in Nat : TgThreads = 1 .. n
BY TgAssumption, FS_CardinalityType

LEMMA TgNumber ==
    ASSUME NEW th, NEW n \in Nat, n = 0 \/ n \in TgThreads,
           \A t \in TgThreads : th[t].at # "new" <=> t <= n
    PROVE  Cardinality({t \in TgThreads : th[t].at # "new"}) = n
<1>1. PICK m \in Nat : TgThreads = 1 .. m
  BY TgBound
<1>2. {t \in TgThreads : th[t].at # "new"} = 1 .. n
  BY <1>1
<1>3. Cardinality(1 .. n) = n
  BY FS_Interval
<1> QED BY <1>2, <1>3

LEMMA TgPutType ==
    ASSUME TgTypeOK, NEW p \in TgPins, NEW data \in TgPinData, TgPut(p, data)
    PROVE  /\ DOMAIN tg_pins' = DOMAIN tg_pins \cup {p}
           /\ tg_pins'[p] = data
           /\ \A q \in DOMAIN tg_pins : q # p => tg_pins'[q] = tg_pins[q]
           /\ DOMAIN tg_pins' \subseteq TgPins
           /\ \A q \in DOMAIN tg_pins' : tg_pins'[q] \in TgPinData
<1>1. /\ DOMAIN tg_pins' = DOMAIN tg_pins \cup {p}
      /\ tg_pins'[p] = data
      /\ \A q \in DOMAIN tg_pins : q # p => tg_pins'[q] = tg_pins[q]
  BY DEF TgPut
<1>2. /\ DOMAIN tg_pins \subseteq TgPins
      /\ \A q \in DOMAIN tg_pins : tg_pins[q] \in TgPinData
  BY DEF TgTypeOK, TgPinData
<1> QED BY <1>1, <1>2

LEMMA TgStarts == TgInit => TgInv
<1> SUFFICES ASSUME TgInit PROVE TgInv
  OBVIOUS
<1>1. TgThreads \subseteq Nat \ {0}
  BY TgBound
<1>2. \A t \in TgThreads : tg_threads[t].at = "new" /\ ~(t <= 0)
  BY <1>1 DEF TgInit
<1>3. TgCreated = 0
  BY <1>2, TgNumber DEF TgCreated
<1>4. DOMAIN tg_pins = {}
  BY DEF TgInit
<1>5. tg_threads \in [TgThreads -> [pin : TgPins, at : {"new", "poll", "callback", "ended"}]]
  <2>1. (CHOOSE p \in TgPins : TRUE) \in TgPins
    BY TgBound
  <2> QED BY <2>1 DEF TgInit
<1>6. \A p \in TgPins : TgRunning(p) = {}
  BY <1>2 DEF TgRunning
<1> QED BY <1>2, <1>3, <1>4, <1>5, <1>6 DEF TgInit, TgInv, ThreadHasPin, TgTypeOK

\* What a step without the threads must show.
LEMMA TgKeeps ==
    ASSUME TgInv, UNCHANGED tg_threads,
           DOMAIN tg_pins' \subseteq TgPins, \A q \in DOMAIN tg_pins' : tg_pins'[q] \in TgPinData,
           tg_joining' \subseteq TgPins, tg_wrong' = FALSE,
           \A q \in TgPins : TgRunning(q) # {} =>
               q \in DOMAIN tg_pins' /\ tg_pins'[q].callback /\ tg_pins'[q].thread = tg_pins[q].thread,
           \A q \in DOMAIN tg_pins' : tg_pins'[q].callback => tg_pins'[q].thread # 0,
           \A q \in tg_joining' : q \in DOMAIN tg_pins' /\ tg_pins'[q].callback
    PROVE  TgInv'
<1>1. TgTypeOK'
  BY DEF TgInv, ThreadHasPin, TgTypeOK, TgPinData
<1>2. TgCreated' = TgCreated /\ \A q \in TgPins : TgRunning(q)' = TgRunning(q)
  BY DEF TgCreated, TgRunning
<1> QED BY <1>1, <1>2 DEF TgInv, ThreadHasPin, TgListed

LEMMA TgSetKeeps ==
    ASSUME TgCalm, TgInv, NEW p \in TgPins, TgSetChangeCallback(p) PROVE TgInv'
<1> DEFINE n == TgCreated + 1
           data == [callback |-> TRUE, quit |-> FALSE, thread |-> n]
<1>1. /\ TgListed(p) /\ p \notin tg_joining /\ ~tg_pins[p].callback
      /\ TgCreated < Cardinality(TgThreads)
      /\ TgPut(p, data) /\ tg_threads' = [tg_threads EXCEPT ![n] = [pin |-> p, at |-> "poll"]]
      /\ UNCHANGED <<tg_joining, tg_wrong>>
  BY DEF TgSetChangeCallback, TgCalm
<1>2. TgTypeOK /\ ThreadHasPin
  BY DEF TgInv, ThreadHasPin
<1>3. n \in TgThreads /\ n \in Nat /\ n # 0 /\ TgCreated \in Nat /\ TgThreads \subseteq Nat
  <2>1. PICK m \in Nat : TgThreads = 1 .. m
    BY TgBound
  <2>2. IsFiniteSet(TgThreads) /\ Cardinality(TgThreads) = m
    BY <2>1, FS_Interval
  <2>3. {t \in TgThreads : tg_threads[t].at # "new"} \subseteq TgThreads
    OBVIOUS
  <2>4. TgCreated \in Nat
    BY <2>2, <2>3, FS_Subset, FS_CardinalityType DEF TgCreated
  <2> QED BY <1>1, <2>1, <2>2, <2>4
<1>4. data \in TgPinData
  BY <1>3 DEF TgPinData
<1>5. /\ DOMAIN tg_pins' = DOMAIN tg_pins \cup {p}
      /\ tg_pins'[p] = data
      /\ \A q \in DOMAIN tg_pins : q # p => tg_pins'[q] = tg_pins[q]
      /\ DOMAIN tg_pins' \subseteq TgPins
      /\ \A q \in DOMAIN tg_pins' : tg_pins'[q] \in TgPinData
  BY <1>1, <1>2, <1>4, TgPutType
<1>6. tg_pins'[p].callback /\ tg_pins'[p].thread = n /\ DOMAIN tg_pins' = DOMAIN tg_pins
  BY <1>1, <1>5 DEF TgListed
<1> HIDE DEF n, data
<1>7. \A t \in TgThreads : tg_threads'[t] = IF t = n THEN [pin |-> p, at |-> "poll"] ELSE tg_threads[t]
  BY <1>1, <1>2 DEF TgTypeOK
<1>8. \A t \in TgThreads : tg_threads'[t].at # "new" <=> t <= n
  <2>1. SUFFICES ASSUME NEW t \in TgThreads PROVE tg_threads'[t].at # "new" <=> t <= n
    OBVIOUS
  <2>2. tg_threads[t].at # "new" <=> t <= TgCreated
    BY DEF TgInv
  <2>3. t <= n <=> t <= TgCreated \/ t = n
    BY <1>3 DEF n
  <2>4. tg_threads'[t].at # "new" <=> tg_threads[t].at # "new" \/ t = n
    BY <1>7
  <2> QED BY <2>2, <2>3, <2>4
<1>9. TgCreated' = n
  <2>1. \A th : (\A t \in TgThreads : th[t].at # "new" <=> t <= n)
                    => Cardinality({t \in TgThreads : th[t].at # "new"}) = n
    BY <1>3, TgNumber
  <2> QED BY <1>8, <2>1 DEF TgCreated
<1>10. TgRunning(p) = {}
  BY <1>1, <1>2 DEF ThreadHasPin
<1>11. ASSUME NEW q \in TgPins, NEW t \in TgThreads, tg_threads'[t].pin = q, tg_threads'[t].at \in TgGoes
       PROVE  q \in DOMAIN tg_pins' /\ tg_pins'[q].callback /\ tg_pins'[q].thread = t
  <2>1. ASSUME t = n PROVE q = p
    BY <1>7, <1>11, <2>1
  <2>2. ASSUME t # n PROVE t \in TgRunning(q)
    BY <1>7, <1>11, <2>2 DEF TgRunning, TgGoes
  <2>3. ASSUME t # n PROVE q # p /\ q \in DOMAIN tg_pins /\ tg_pins[q].callback /\ tg_pins[q].thread = t
    BY <1>2, <1>10, <2>2, <2>3 DEF ThreadHasPin, TgListed
  <2> QED BY <1>5, <1>6, <2>1, <2>3
<1>12. tg_threads' \in [TgThreads -> [pin : TgPins, at : {"new", "poll", "callback", "ended"}]]
  BY <1>1, <1>2 DEF TgTypeOK
<1>13. TgTypeOK'
  BY <1>1, <1>2, <1>5, <1>12 DEF TgTypeOK, TgPinData
<1>14. ThreadHasPin'
  BY <1>1, <1>2, <1>11, <1>13 DEF ThreadHasPin, TgRunning, TgGoes, TgListed
<1>15. \A q \in DOMAIN tg_pins' : tg_pins'[q].callback => tg_pins'[q].thread # 0
  BY <1>3, <1>5, <1>6 DEF TgInv
<1>16. \A q \in tg_joining' : q \in DOMAIN tg_pins' /\ tg_pins'[q].callback
  BY <1>1, <1>5, <1>6 DEF TgInv
<1> QED BY <1>8, <1>9, <1>14, <1>15, <1>16 DEF TgInv

\* A thread that is running goes on, or ends.
LEMMA TgThreadKeeps ==
    ASSUME TgInv, NEW t \in TgThreads, tg_threads[t].at \in TgGoes, NEW at \in {"poll", "callback", "ended"},
           TgAt(t, at), tg_wrong' = FALSE, UNCHANGED <<tg_pins, tg_joining>>
    PROVE  TgInv'
<1>1. TgTypeOK /\ ThreadHasPin
  BY DEF TgInv, ThreadHasPin
<1>2. tg_threads' \in [TgThreads -> [pin : TgPins, at : {"new", "poll", "callback", "ended"}]]
  BY <1>1 DEF TgTypeOK, TgAt
<1>3. \A u \in TgThreads : /\ tg_threads'[u].pin = tg_threads[u].pin
                           /\ tg_threads'[u].at = IF u = t THEN at ELSE tg_threads[u].at
  BY <1>1 DEF TgTypeOK, TgAt
<1>4. \A u \in TgThreads : tg_threads'[u].at # "new" <=> tg_threads[u].at # "new"
  BY <1>3 DEF TgGoes
<1>5. TgCreated' = TgCreated
  BY <1>4 DEF TgCreated
<1>6. \A q \in TgPins : TgRunning(q)' \subseteq TgRunning(q)
  BY <1>3 DEF TgRunning, TgGoes
<1>7. TgTypeOK'
  BY <1>1, <1>2 DEF TgTypeOK
<1>8. ThreadHasPin'
  BY <1>1, <1>6, <1>7 DEF ThreadHasPin, TgListed
<1> QED BY <1>4, <1>5, <1>8 DEF TgInv

LEMMA TgSteps == TgCalm /\ TgInv /\ [TgNext]_tgvars => TgInv'
<1> SUFFICES ASSUME TgCalm, TgInv, [TgNext]_tgvars PROVE TgInv'
  OBVIOUS
<1>0. /\ TgTypeOK /\ tg_wrong = FALSE
      /\ \A p \in TgPins : TgRunning(p) # {} => p \in DOMAIN tg_pins /\ tg_pins[p].callback
      /\ \A p \in TgPins : \A t \in TgRunning(p) : tg_pins[p].thread = t
      /\ \A p \in DOMAIN tg_pins : tg_pins[p].callback => tg_pins[p].thread # 0
      /\ \A p \in tg_joining : p \in DOMAIN tg_pins /\ tg_pins[p].callback
      /\ tg_joining \subseteq TgPins /\ DOMAIN tg_pins \subseteq TgPins
      /\ \A q \in DOMAIN tg_pins : tg_pins[q] \in TgPinData
  BY DEF TgInv, ThreadHasPin, TgListed, TgTypeOK, TgPinData
<1>1. ASSUME NEW p \in TgPins, TgRequest(p) PROVE TgInv'
  <2>1. [callback |-> FALSE, quit |-> FALSE, thread |-> 0] \in TgPinData
    BY DEF TgPinData
  <2>2. /\ DOMAIN tg_pins' = DOMAIN tg_pins \cup {p} /\ ~tg_pins'[p].callback /\ p \notin DOMAIN tg_pins
        /\ \A q \in DOMAIN tg_pins : q # p => tg_pins'[q] = tg_pins[q]
        /\ DOMAIN tg_pins' \subseteq TgPins
        /\ \A q \in DOMAIN tg_pins' : tg_pins'[q] \in TgPinData
    <3>1. TgPut(p, [callback |-> FALSE, quit |-> FALSE, thread |-> 0]) /\ p \notin DOMAIN tg_pins
      BY <1>1 DEF TgRequest, TgListed
    <3>2. /\ DOMAIN tg_pins' = DOMAIN tg_pins \cup {p}
          /\ tg_pins'[p] = [callback |-> FALSE, quit |-> FALSE, thread |-> 0]
          /\ \A q \in DOMAIN tg_pins : q # p => tg_pins'[q] = tg_pins[q]
          /\ DOMAIN tg_pins' \subseteq TgPins
          /\ \A q \in DOMAIN tg_pins' : tg_pins'[q] \in TgPinData
      BY <1>0, <2>1, <3>1, TgPutType
    <3> QED BY <3>1, <3>2
  <2> QED BY <1>0, <1>1, <2>2, TgKeeps DEF TgRequest
<1>2. ASSUME NEW p \in TgPins, TgRelease(p) PROVE TgInv'
  <2>1. /\ DOMAIN tg_pins' = DOMAIN tg_pins \ {p} /\ ~tg_pins[p].callback /\ p \notin tg_joining
        /\ \A q \in DOMAIN tg_pins' : tg_pins'[q] = tg_pins[q]
    BY <1>2 DEF TgRelease, TgCalm
  <2> QED BY <1>0, <1>2, <2>1, TgKeeps DEF TgRelease
<1>3. ASSUME NEW p \in TgPins, TgSetChangeCallback(p) PROVE TgInv'
  BY <1>3, TgSetKeeps
<1>4. ASSUME NEW p \in TgPins, TgUnsetChangeCallback(p) PROVE TgInv'
  <2>1. p \in DOMAIN tg_pins /\ tg_pins[p].callback /\ tg_pins[p] \in TgPinData
    BY <1>0, <1>4 DEF TgUnsetChangeCallback, TgListed
  <2>2. [tg_pins[p] EXCEPT !.quit = TRUE] \in TgPinData
    BY <2>1 DEF TgPinData
  <2>3. /\ DOMAIN tg_pins' = DOMAIN tg_pins
        /\ tg_pins'[p].callback /\ tg_pins'[p].thread = tg_pins[p].thread
        /\ \A q \in DOMAIN tg_pins : q # p => tg_pins'[q] = tg_pins[q]
        /\ DOMAIN tg_pins' \subseteq TgPins
        /\ \A q \in DOMAIN tg_pins' : tg_pins'[q] \in TgPinData
    <3>1. /\ DOMAIN tg_pins' = DOMAIN tg_pins \cup {p} /\ tg_pins'[p] = [tg_pins[p] EXCEPT !.quit = TRUE]
          /\ \A q \in DOMAIN tg_pins : q # p => tg_pins'[q] = tg_pins[q]
          /\ DOMAIN tg_pins' \subseteq TgPins
          /\ \A q \in DOMAIN tg_pins' : tg_pins'[q] \in TgPinData
      BY <1>0, <1>4, <2>2, TgPutType DEF TgUnsetChangeCallback
    <3>2. tg_pins'[p].callback /\ tg_pins'[p].thread = tg_pins[p].thread
      BY <2>1, <3>1 DEF TgPinData
    <3> QED BY <2>1, <3>1, <3>2
  <2>4. tg_joining' = tg_joining \cup {p} /\ tg_wrong' = FALSE /\ UNCHANGED tg_threads
    BY <1>0, <1>4, <2>1 DEF TgUnsetChangeCallback
  <2> QED BY <1>0, <2>1, <2>3, <2>4, TgKeeps
<1>5. ASSUME NEW p \in TgPins, TgJoined(p) PROVE TgInv'
  <2>1. /\ p \in DOMAIN tg_pins /\ tg_pins[p].callback /\ tg_pins[p] \in TgPinData
        /\ tg_threads[tg_pins[p].thread].at = "ended"
        /\ tg_joining' = tg_joining \ {p} /\ UNCHANGED <<tg_threads, tg_wrong>>
    BY <1>0, <1>5 DEF TgJoined, TgListed
  <2>2. TgRunning(p) = {}
    BY <1>0, <2>1 DEF TgRunning
  <2>3. [tg_pins[p] EXCEPT !.callback = FALSE] \in TgPinData
    BY <2>1 DEF TgPinData
  <2>4. /\ DOMAIN tg_pins' = DOMAIN tg_pins
        /\ tg_pins'[p] = [tg_pins[p] EXCEPT !.callback = FALSE]
        /\ \A q \in DOMAIN tg_pins : q # p => tg_pins'[q] = tg_pins[q]
        /\ DOMAIN tg_pins' \subseteq TgPins
        /\ \A q \in DOMAIN tg_pins' : tg_pins'[q] \in TgPinData
    <3>1. TgPut(p, [tg_pins[p] EXCEPT !.callback = FALSE])
      BY <1>5 DEF TgJoined
    <3>2. /\ DOMAIN tg_pins' = DOMAIN tg_pins \cup {p}
          /\ tg_pins'[p] = [tg_pins[p] EXCEPT !.callback = FALSE]
          /\ \A q \in DOMAIN tg_pins : q # p => tg_pins'[q] = tg_pins[q]
          /\ DOMAIN tg_pins' \subseteq TgPins
          /\ \A q \in DOMAIN tg_pins' : tg_pins'[q] \in TgPinData
      BY <1>0, <2>3, <3>1, TgPutType
    <3> QED BY <2>1, <3>2
  <2>5. ~tg_pins'[p].callback
    BY <2>1, <2>4 DEF TgPinData
  <2> QED BY <1>0, <2>1, <2>2, <2>4, <2>5, TgKeeps
<1>6. ASSUME NEW t \in TgThreads, TgPoll(t) \/ TgCallback(t) PROVE TgInv'
  <2>1. tg_threads[t].at \in TgGoes /\ tg_threads[t].pin \in TgPins
    BY <1>0, <1>6 DEF TgPoll, TgCallback, TgTypeOK, TgGoes
  <2>2. t \in TgRunning(tg_threads[t].pin)
    BY <2>1 DEF TgRunning, TgGoes
  <2>3. tg_wrong' = FALSE /\ UNCHANGED <<tg_pins, tg_joining>>
    BY <1>0, <1>6, <2>1, <2>2 DEF TgPoll, TgCallback, TgListed
  <2>4. \E at \in {"poll", "callback", "ended"} : TgAt(t, at)
    BY <1>6 DEF TgPoll, TgCallback
  <2> QED BY <2>1, <2>3, <2>4, TgThreadKeeps
<1>7. ASSUME UNCHANGED tgvars PROVE TgInv'
  BY <1>0, <1>7, TgKeeps DEF tgvars
<1> QED BY <1>1, <1>2, <1>3, <1>4, <1>5, <1>6, <1>7 DEF TgNext

-----------------------------------------------------------------------------
(* ZigBee.                                                                 *)

\* Colours are controlled from devices with that cluster, and endpoints with reports stay.
ZbCalm == ZbUnusual = {}

ZbTypes ==
    /\ zb_net \in {"none", "joined", "no_parent"}
    /\ zb_scan \in BOOLEAN /\ zb_bound \in BOOLEAN

ZbInv == CallsMatchEndpoints /\ ZbTypes

\* What a call leaves keeps the property when it is a call about no endpoint, or
\* one about the cluster and the side that were checked.
LEMMA ZbPlainRight ==
    ASSUME NEW call, NEW ok, call # "reset_local" \/ ~ok, PlainCall(call, ok),
           \A r \in zb_reports' : StopPasses(r[1], r[2])', ok \in BOOLEAN
    PROVE  CallsMatchEndpoints'
<1>1. zb_last'.call = call /\ zb_last'.side = "none" /\ zb_last'.ok = ok
  BY DEF PlainCall, ZbLast
<1> QED BY <1>1 DEF CallsMatchEndpoints

LEMMA ZbAboutRight ==
    ASSUME NEW call, NEW h, NEW cluster, NEW side, NEW ok, call # "reset_local",
           zb_last' = ZbLast(call, h, cluster, side, ok),
           ok => CheckCluster(h, cluster, side),
           UNCHANGED zb_local,
           \A r \in zb_reports' : StopPasses(r[1], r[2])'
    PROVE  CallsMatchEndpoints'
<1>1. /\ zb_last'.call = call /\ zb_last'.h = h /\ zb_last'.cluster = cluster /\ zb_last'.side = side
      /\ zb_last'.ok = ok
  BY DEF ZbLast
<1>2. zb_last'.ok => h \in DOMAIN zb_local' /\ cluster \in ZbDevices[zb_local'[h]][side]
  BY <1>1 DEF CheckCluster
<1> QED BY <1>1, <1>2 DEF CallsMatchEndpoints, CheckCluster

\* Reports stay such that they can be stopped while endpoints are.
LEMMA ZbReportsStay ==
    ASSUME ZbInv, UNCHANGED zb_local
    PROVE  /\ \A h, type : StopPasses(h, type)' <=> StopPasses(h, type)
           /\ \A r \in zb_reports : StopPasses(r[1], r[2])'
<1>1. \A h, type : StopPasses(h, type)' <=> StopPasses(h, type)
  BY DEF StopPasses, ReportPasses, CheckCluster, ThresholdFits
<1> QED BY <1>1 DEF ZbInv, CallsMatchEndpoints

LEMMA ZbStarts == ZbInit => ZbInv
<1> SUFFICES ASSUME ZbInit PROVE ZbInv
  OBVIOUS
<1>1. zb_last.call = "init" /\ zb_last.ok = FALSE
  BY DEF ZbInit, ZbLast
<1> QED BY <1>1 DEF ZbInit, ZbInv, ZbTypes, CallsMatchEndpoints

LEMMA ZbResetKeeps == ASSUME ZbInv, NEW fails, os_reset_local(fails) PROVE ZbInv'
<1>1. /\ zb_last' = ZbLast("reset_local", 0, "none", "none", fails = "nothing")
      /\ UNCHANGED <<zb_local, zb_reports>>
  BY DEF os_reset_local, PlainCall
<1>2. zb_last'.call = "reset_local" /\ zb_last'.side = "none" /\ (zb_last'.ok <=> fails = "nothing")
  BY <1>1 DEF ZbLast
<1>3. ZbTypes'
  BY DEF os_reset_local, ZbInv, ZbTypes
<1>4. ASSUME fails = "nothing" PROVE zb_net' = "none" /\ ~zb_scan' /\ zb_set' = {} /\ ~zb_bound'
  <2>1. zb_net' = "none"
    BY <1>4 DEF os_reset_local, MustLeave, ZbInv, ZbTypes
  <2>2. zb_set' = {} 
    BY <1>4 DEF os_reset_local
  <2>3. ~zb_scan' /\ ~zb_bound'
    BY <1>4 DEF os_reset_local
  <2> QED BY <2>1, <2>2, <2>3
<1> QED BY <1>1, <1>2, <1>3, <1>4, ZbReportsStay DEF CallsMatchEndpoints, ZbInv

LEMMA ZbCommandKeeps ==
    ASSUME ZbCalm, ZbInv, NEW h, NEW checked, NEW cluster, SendsCommand(h, checked, cluster) PROVE ZbInv'
<1>1. CheckCluster(h, checked, "client") = CheckCluster(h, cluster, "client")
  BY DEF SendsCommand, ZbCalm
<1>2. /\ zb_last' = ZbLast("command", h, cluster, "client", CheckCluster(h, checked, "client"))
      /\ UNCHANGED <<zb_local, zb_net, zb_scan, zb_set, zb_bound, zb_reports>>
  BY DEF SendsCommand
<1>3. CallsMatchEndpoints'
  BY <1>1, <1>2, ZbAboutRight, ZbReportsStay
<1> QED BY <1>2, <1>3 DEF ZbInv, ZbTypes

LEMMA ZbGetKeeps == ASSUME ZbInv, NEW h, NEW cluster, Gets(h, cluster) PROVE ZbInv'
<1>1. CallsMatchEndpoints'
  BY ZbAboutRight, ZbReportsStay DEF Gets
<1> QED BY <1>1 DEF ZbInv, ZbTypes, Gets

LEMMA ZbSetKeeps == ASSUME ZbInv, NEW h, NEW cluster, Sets(h, cluster) PROVE ZbInv'
<1>1. CallsMatchEndpoints'
  BY ZbAboutRight, ZbReportsStay DEF Sets
<1> QED BY <1>1 DEF ZbInv, ZbTypes, Sets

\* A report that passes can be stopped: 0 is a threshold that fits.
LEMMA ZbStopsWhatPasses ==
    ASSUME NEW h, NEW type, NEW min, NEW max, NEW threshold, ReportPasses(h, type, min, max, threshold)
    PROVE  StopPasses(h, type)
<1>1. 0 \in 0 .. ZbLargest
  BY ZbAssumption
<1> QED BY <1>1 DEF StopPasses, ReportPasses, ThresholdFits

LEMMA ZbReportKeeps ==
    ASSUME ZbInv, NEW h, NEW type, NEW min, NEW max, NEW threshold,
           os_request_reporting(h, type, min, max, threshold)
    PROVE  ZbInv'
<1> DEFINE ok == ReportPasses(h, type, min, max, threshold)
<1>1. /\ zb_reports' = IF ok THEN zb_reports \cup {<<h, type>>} ELSE zb_reports
      /\ zb_last' = ZbLast("report", h, type, "client", ok)
      /\ UNCHANGED <<zb_local, zb_net, zb_scan, zb_set, zb_bound>>
  BY DEF os_request_reporting
<1>2. ok => CheckCluster(h, type, "client") /\ StopPasses(h, type)
  BY ZbStopsWhatPasses DEF ReportPasses
<1> HIDE DEF ok
<1>3. \A r \in zb_reports' : StopPasses(r[1], r[2])'
  BY <1>1, <1>2, ZbReportsStay
<1>4. CallsMatchEndpoints'
  BY <1>1, <1>2, <1>3, ZbAboutRight
<1> QED BY <1>1, <1>4 DEF ZbInv, ZbTypes

LEMMA ZbStopKeeps == ASSUME ZbInv, NEW h, NEW type, os_stop_reporting(h, type) PROVE ZbInv'
<1>1. \A r \in zb_reports' : StopPasses(r[1], r[2])'
  BY ZbReportsStay DEF os_stop_reporting
<1>2. StopPasses(h, type) => CheckCluster(h, type, "client")
  BY DEF StopPasses, ReportPasses
<1>3. CallsMatchEndpoints'
  BY <1>1, <1>2, ZbAboutRight DEF os_stop_reporting
<1> QED BY <1>3 DEF ZbInv, ZbTypes, os_stop_reporting

LEMMA ZbModuleKeeps == ASSUME ZbCalm, ZbInv, zigbee_module PROVE ZbInv'
<1>1. ASSUME NEW types, os_set_local_endpoint(types) PROVE ZbInv'
  <2>1. zb_reports' = {}
    BY <1>1 DEF os_set_local_endpoint, ZbCalm
  <2>2. PlainCall("set_local_endpoint", TRUE)
    BY <1>1 DEF os_set_local_endpoint
  <2>3. CallsMatchEndpoints'
    BY <2>1, <2>2, ZbPlainRight
  <2> QED BY <1>1, <2>3 DEF os_set_local_endpoint, ZbInv, ZbTypes
<1>2. ASSUME NEW call, call # "reset_local", PlainCall(call, TRUE), UNCHANGED <<zb_local, zb_reports>>
      PROVE  CallsMatchEndpoints'
  BY <1>2, ZbPlainRight, ZbReportsStay
<1>3. ASSUME NEW net \in {"none", "joined", "no_parent"}, os_zigbee_network_start(net) PROVE ZbInv'
  BY <1>2, <1>3 DEF os_zigbee_network_start, ZbInv, ZbTypes
<1>4. ASSUME os_zigbee_network_form_or_join \/ os_zigbee_network_leave PROVE ZbInv'
  BY <1>2, <1>4 DEF os_zigbee_network_form_or_join, os_zigbee_network_leave, ZbInv, ZbTypes
<1>5. ASSUME os_zigbee_network_find \/ os_zigbee_network_stop_scan \/ os_zigbee_clear_binding PROVE ZbInv'
  BY <1>2, <1>5 DEF os_zigbee_network_find, os_zigbee_network_stop_scan, os_zigbee_clear_binding, ZbInv, ZbTypes
<1> QED BY <1>1, <1>3, <1>4, <1>5, ZbResetKeeps DEF zigbee_module

LEMMA ZbBindsKeeps == ASSUME ZbInv, NEW h, Binds(h) PROVE ZbInv'
<1>1. CallsMatchEndpoints'
  BY ZbPlainRight, ZbReportsStay DEF Binds
<1> QED BY <1>1 DEF ZbInv, ZbTypes, Binds

LEMMA ZbFunctionsKeep == ASSUME ZbCalm, ZbInv, NEW h, device_functions(h) PROVE ZbInv'
<1>1. CASE \/ os_identify_request(h) \/ os_onoff_command(h) \/ os_level_control_request(h)
           \/ os_color_control_request(h) \/ os_reset_to_factory_default(h) \/ os_fan_write_or_read(h)
           \/ os_thermostat_request_setpoint(h) \/ os_thermostat_write_or_read(h)
  BY <1>1, ZbCommandKeeps
     DEF os_identify_request, os_onoff_command, os_level_control_request, os_color_control_request,
         os_reset_to_factory_default, os_fan_write_or_read, os_thermostat_request_setpoint,
         os_thermostat_write_or_read
<1>2. CASE \/ os_onoff_get_value(h) \/ os_level_control_get_value(h) \/ os_color_control_get_value(h)
           \/ os_thermostat_get_setpoint(h) \/ os_fan_get_mode(h) \/ os_groups_get_local_name_support(h)
           \/ os_thermostat_get_local_temperature(h) \/ os_thermostat_get_occupancy_status(h)
           \/ os_thermostat_get_system_mode(h) \/ os_thermostat_get_control_sequence(h)
           \/ os_illum_get_measured_value(h)
  BY <1>2, ZbGetKeeps
     DEF os_onoff_get_value, os_level_control_get_value, os_color_control_get_value,
         os_thermostat_get_setpoint, os_fan_get_mode, os_groups_get_local_name_support,
         os_thermostat_get_local_temperature, os_thermostat_get_occupancy_status,
         os_thermostat_get_system_mode, os_thermostat_get_control_sequence, os_illum_get_measured_value
<1>3. CASE \/ os_groups_set_local_name_support(h) \/ os_illum_set_measured_value(h)
           \/ os_occupancy_set_type_or_value(h) \/ os_thermostat_set_local_temperature(h)
           \/ os_thermostat_set_setpoint_or_mode(h) \/ os_thermostat_set_occupancy_status(h)
           \/ os_thermostat_set_control_sequence(h) \/ os_temperature_set_measured_value(h)
  BY <1>3, ZbSetKeeps
     DEF os_groups_set_local_name_support, os_illum_set_measured_value, os_occupancy_set_type_or_value,
         os_thermostat_set_local_temperature, os_thermostat_set_setpoint_or_mode,
         os_thermostat_set_occupancy_status, os_thermostat_set_control_sequence,
         os_temperature_set_measured_value
<1>4. CASE os_ezmode_commissioning(h) \/ os_find_bind(h) \/ os_zigbee_end_device_bind_request(h)
  BY <1>4, ZbBindsKeeps DEF os_ezmode_commissioning, os_find_bind, os_zigbee_end_device_bind_request
<1>5. CASE \E type \in ReportTypes :
             \/ os_stop_reporting(h, type)
             \/ \E min, max \in {0, 1}, threshold \in {-1, 0, ZbLargest, ZbLargest + 1} :
                   os_request_reporting(h, type, min, max, threshold)
  BY <1>5, ZbStopKeeps, ZbReportKeeps
<1> QED BY <1>1, <1>2, <1>3, <1>4, <1>5, Zenon DEF device_functions

LEMMA ZbSteps == ZbCalm /\ ZbInv /\ [ZbNext]_zbvars => ZbInv'
<1> SUFFICES ASSUME ZbCalm, ZbInv, [ZbNext]_zbvars PROVE ZbInv'
  OBVIOUS
<1>1. ASSUME ParentChanges PROVE ZbInv'
  <2>1. zb_net' \in {"joined", "no_parent"} /\ zb_net # "none"
        /\ UNCHANGED <<zb_local, zb_scan, zb_set, zb_bound, zb_reports, zb_last>>
    BY <1>1 DEF ParentChanges
  <2>2. zb_last.ok /\ zb_last.side # "none" => CheckCluster(zb_last.h, zb_last.cluster, zb_last.side)'
    BY <2>1 DEF CheckCluster, ZbInv, CallsMatchEndpoints
  <2> QED BY <2>1, <2>2, ZbReportsStay DEF ZbInv, ZbTypes, CallsMatchEndpoints
<1>2. ASSUME UNCHANGED zbvars PROVE ZbInv'
  <2>1. zb_last.ok /\ zb_last.side # "none" => CheckCluster(zb_last.h, zb_last.cluster, zb_last.side)'
    BY <1>2 DEF CheckCluster, ZbInv, CallsMatchEndpoints, zbvars
  <2> QED BY <1>2, <2>1, ZbReportsStay DEF ZbInv, ZbTypes, CallsMatchEndpoints, zbvars
<1> QED BY <1>1, <1>2, ZbModuleKeeps, ZbFunctionsKeep DEF ZbNext

-----------------------------------------------------------------------------
(* Websocket clients on TizenRT.                                           *)

\* A stream is opened once, used while it is open and closed before its handle is
\* released; its callbacks are set before its end, and its thread ends with it.
SkCalm == SkUnusual = {}

SkStream == [alive : BOOLEAN, runs : BOOLEAN, conn_cb : BOOLEAN, rx_cb : BOOLEAN, tls : BOOLEAN,
             handle : SkHandles]

SkTypeOK ==
    /\ sk_handles \subseteq SkHandles
    /\ sk_streams \in Seq(SkStream)
    /\ sk_private \in [SkHandles -> Nat]
    /\ sk_view \in [SkHandles -> {"nothing", "connected", "closed"}]

\* A stream that is not freed is the one of its handle, which exists.
SkInv ==
    /\ SkTypeOK
    /\ sk_fault = "none"
    /\ \A h \in SkHandles : sk_private[h] # 0 =>
          sk_private[h] \in DOMAIN sk_streams /\ sk_streams[sk_private[h]].handle = h
    /\ \A i \in DOMAIN sk_streams :
          LET s == sk_streams[i] IN
          /\ s.runs => s.alive
          /\ s.alive => s.handle \in sk_handles /\ sk_private[s.handle] = i
          /\ s.alive /\ s.conn_cb => sk_view[s.handle] = IF s.runs THEN "connected" ELSE "closed"

LEMMA SkStarts == SkInit => SkInv
<1> SUFFICES ASSUME SkInit PROVE SkInv
  OBVIOUS
<1>1. sk_streams \in Seq(SkStream) /\ DOMAIN sk_streams = {}
  BY DEF SkInit
<1> QED BY <1>1 DEF SkInit, SkInv, SkTypeOK

\* A step that changes one stream, the one of a handle that is open.
LEMMA SkChanges ==
    ASSUME SkInv, NEW h \in sk_handles, sk_private[h] # 0, NEW s \in SkStream,
           s.handle = h, s.runs => s.alive,
           sk_streams[sk_private[h]].alive,
           sk_streams' = [sk_streams EXCEPT ![sk_private[h]] = s],
           NEW v \in {"nothing", "connected", "closed"}, sk_view' = [sk_view EXCEPT ![h] = v],
           s.alive /\ s.conn_cb => v = IF s.runs THEN "connected" ELSE "closed",
           sk_fault' = "none", UNCHANGED <<sk_handles, sk_private>>
    PROVE  SkInv'
<1> DEFINE i == sk_private[h]
<1>1. SkTypeOK /\ h \in SkHandles /\ i \in DOMAIN sk_streams /\ sk_streams[i].handle = h
  BY DEF SkInv, SkTypeOK
<1>2. /\ sk_streams' \in Seq(SkStream) /\ DOMAIN sk_streams' = DOMAIN sk_streams
      /\ \A j \in DOMAIN sk_streams : sk_streams'[j] = IF j = i THEN s ELSE sk_streams[j]
  BY <1>1 DEF SkTypeOK
<1>3. /\ sk_view' \in [SkHandles -> {"nothing", "connected", "closed"}]
      /\ sk_view'[h] = v /\ \A g \in SkHandles : g # h => sk_view'[g] = sk_view[g]
  BY <1>1 DEF SkTypeOK
<1>4. SkTypeOK'
  BY <1>1, <1>2, <1>3 DEF SkTypeOK
<1> HIDE DEF i
<1>5. ASSUME NEW g \in SkHandles, sk_private'[g] # 0
      PROVE  sk_private'[g] \in DOMAIN sk_streams' /\ sk_streams'[sk_private'[g]].handle = g
  <2>1. sk_private[g] \in DOMAIN sk_streams /\ sk_streams[sk_private[g]].handle = g
    BY <1>5 DEF SkInv
  <2> QED BY <1>1, <1>2, <2>1
<1>6. ASSUME NEW j \in DOMAIN sk_streams'
      PROVE  LET t == sk_streams'[j] IN
             /\ t.runs => t.alive
             /\ t.alive => t.handle \in sk_handles' /\ sk_private'[t.handle] = j
             /\ t.alive /\ t.conn_cb => sk_view'[t.handle] = IF t.runs THEN "connected" ELSE "closed"
  <2>1. ASSUME j = i PROVE sk_streams'[j] = s
    BY <1>2, <2>1
  <2>2. ASSUME j # i
        PROVE  /\ sk_streams'[j] = sk_streams[j]
               /\ sk_streams[j].runs => sk_streams[j].alive
               /\ sk_streams[j].alive =>
                     /\ sk_streams[j].handle \in sk_handles /\ sk_private[sk_streams[j].handle] = j
                     /\ sk_streams[j].handle # h /\ sk_streams[j].handle \in SkHandles
               /\ sk_streams[j].alive /\ sk_streams[j].conn_cb =>
                     sk_view[sk_streams[j].handle] = IF sk_streams[j].runs THEN "connected" ELSE "closed"
    BY <1>1, <1>2, <2>2 DEF SkInv, SkTypeOK, i
  <2>3. ASSUME j # i PROVE sk_streams[j].alive => sk_view'[sk_streams[j].handle] = sk_view[sk_streams[j].handle]
    BY <1>3, <2>2, <2>3
  <2>4. CASE j = i
    BY <1>3, <2>1, <2>4 DEF i
  <2>5. CASE j # i
    BY <2>2, <2>3, <2>5
  <2> QED BY <2>4, <2>5
<1> QED BY <1>4, <1>5, <1>6 DEF SkInv

LEMMA SkSame == ASSUME SkInv, UNCHANGED skvars PROVE SkInv'
  BY DEF SkInv, SkTypeOK, skvars

LEMMA SkRequestKeeps == ASSUME SkInv, NEW h \in SkHandles, artik_websocket_request(h) PROVE SkInv'
<1>1. /\ SkTypeOK /\ h \notin sk_handles
      /\ sk_handles' = sk_handles \cup {h} /\ UNCHANGED <<sk_streams, sk_fault>>
      /\ sk_private' = [sk_private EXCEPT ![h] = 0] /\ sk_view' = [sk_view EXCEPT ![h] = "nothing"]
  BY DEF SkInv, artik_websocket_request
<1>2. /\ \A g \in SkHandles : sk_private'[g] = IF g = h THEN 0 ELSE sk_private[g]
      /\ \A g \in SkHandles : g # h => sk_view'[g] = sk_view[g]
  BY <1>1 DEF SkTypeOK
<1>3. SkTypeOK'
  BY <1>1 DEF SkTypeOK
<1>4. \A i \in DOMAIN sk_streams : sk_streams[i].alive =>
          sk_streams[i].handle # h /\ sk_streams[i].handle \in SkHandles
  BY <1>1 DEF SkInv, SkTypeOK
<1> QED BY <1>1, <1>2, <1>3, <1>4 DEF SkInv

LEMMA SkReleaseKeeps ==
    ASSUME SkCalm, SkInv, NEW h \in SkHandles, artik_websocket_release(h) PROVE SkInv'
<1>1. /\ SkTypeOK /\ ~IsOpen(h) /\ sk_handles' = sk_handles \ {h}
      /\ UNCHANGED <<sk_private, sk_streams, sk_view, sk_fault>>
  BY DEF SkInv, SkCalm, artik_websocket_release
<1>2. \A i \in DOMAIN sk_streams : sk_streams[i].alive => sk_streams[i].handle # h
  <2>1. ASSUME NEW i \in DOMAIN sk_streams, sk_streams[i].alive, sk_streams[i].handle = h PROVE FALSE
    <3>1. sk_private[h] = i /\ i # 0
      BY <1>1, <2>1 DEF SkInv, SkTypeOK
    <3> QED BY <1>1, <2>1, <3>1 DEF IsOpen
  <2> QED BY <2>1
<1>3. SkTypeOK'
  BY <1>1 DEF SkTypeOK
<1> QED BY <1>1, <1>2, <1>3 DEF SkInv

LEMMA SkOpenKeeps ==
    ASSUME SkCalm, SkInv, NEW h \in SkHandles, NEW tls \in BOOLEAN, NEW cert \in BOOLEAN,
           NEW joins \in BOOLEAN, NEW reused \in BOOLEAN,
           os_websocket_open_stream(h, tls, cert, joins, reused)
    PROVE  SkInv'
<1>1. h \in sk_handles /\ ~IsOpen(h) /\ (tls => cert) /\ ~reused /\ SkTypeOK /\ sk_fault = "none"
  BY DEF SkInv, SkCalm, os_websocket_open_stream
<1>2. CASE ~joins
  <2>1. UNCHANGED skvars
    BY <1>1, <1>2 DEF os_websocket_open_stream, ssl_setup, ssl_cleanup, skvars
  <2> QED BY <2>1, SkSame
<1>3. CASE joins
  <2> DEFINE n == Len(sk_streams) + 1
             s == Stream(h, tls)
  <2>1. /\ sk_streams' = Append(sk_streams, s) /\ sk_private' = [sk_private EXCEPT ![h] = n]
        /\ sk_view' = [sk_view EXCEPT ![h] = "nothing"]
        /\ UNCHANGED <<sk_fault, sk_handles>>
    BY <1>1, <1>3 DEF os_websocket_open_stream, ssl_setup
  <2>2. s \in SkStream /\ s.alive /\ ~s.conn_cb /\ s.handle = h
    BY DEF Stream, SkStream
  <2> HIDE DEF s
  <2>3. /\ n \in Nat /\ n # 0 /\ DOMAIN sk_streams = 1 .. n - 1
        /\ sk_streams' \in Seq(SkStream) /\ DOMAIN sk_streams' = 1 .. n
        /\ \A i \in DOMAIN sk_streams : i \in DOMAIN sk_streams' /\ i # n /\ sk_streams'[i] = sk_streams[i]
        /\ sk_streams'[n] = s
    BY <1>1, <2>1, <2>2 DEF SkTypeOK
  <2>4. \A i \in DOMAIN sk_streams' : i = n \/ i \in DOMAIN sk_streams
    BY <2>3
  <2> HIDE DEF n
  <2>5. /\ \A g \in SkHandles : sk_private'[g] = IF g = h THEN n ELSE sk_private[g]
        /\ \A g \in SkHandles : g # h => sk_view'[g] = sk_view[g]
        /\ sk_private' \in [SkHandles -> Nat]
        /\ sk_view' \in [SkHandles -> {"nothing", "connected", "closed"}]
    BY <1>1, <2>1, <2>3 DEF SkTypeOK
  <2>6. SkTypeOK'
    BY <1>1, <2>1, <2>3, <2>5 DEF SkTypeOK
  <2>7. ASSUME NEW i \in DOMAIN sk_streams, sk_streams[i].alive
        PROVE  sk_streams[i].handle # h /\ sk_streams[i].handle \in SkHandles
    <3>1. sk_private[sk_streams[i].handle] = i /\ i # 0 /\ sk_streams[i].handle \in SkHandles
      BY <1>1, <2>7 DEF SkInv, SkTypeOK
    <3> QED BY <1>1, <2>7, <3>1 DEF IsOpen
  <2>8. n \in DOMAIN sk_streams'
    BY <2>3
  <2>9. ASSUME NEW g \in SkHandles, sk_private'[g] # 0
        PROVE  sk_private'[g] \in DOMAIN sk_streams' /\ sk_streams'[sk_private'[g]].handle = g
    <3>1. ASSUME g # h PROVE sk_private[g] \in DOMAIN sk_streams /\ sk_streams[sk_private[g]].handle = g
      BY <2>5, <2>9, <3>1 DEF SkInv
    <3> QED BY <2>2, <2>3, <2>5, <2>8, <3>1
  <2>10. ASSUME NEW j \in DOMAIN sk_streams'
         PROVE  LET t == sk_streams'[j] IN
                /\ t.runs => t.alive
                /\ t.alive => t.handle \in sk_handles' /\ sk_private'[t.handle] = j
                /\ t.alive /\ t.conn_cb => sk_view'[t.handle] = IF t.runs THEN "connected" ELSE "closed"
    <3>1. CASE j = n
      BY <1>1, <2>1, <2>2, <2>3, <2>5, <3>1
    <3>2. CASE j # n
      <4>1. j \in DOMAIN sk_streams /\ sk_streams'[j] = sk_streams[j]
        BY <2>3, <2>4, <3>2
      <4> DEFINE t == sk_streams[j]
      <4>2. /\ t.runs => t.alive
            /\ t.alive => t.handle \in sk_handles /\ sk_private[t.handle] = j
            /\ t.alive /\ t.conn_cb => sk_view[t.handle] = IF t.runs THEN "connected" ELSE "closed"
        BY <4>1 DEF SkInv
      <4>3. t.alive => sk_private'[t.handle] = sk_private[t.handle] /\ sk_view'[t.handle] = sk_view[t.handle]
        BY <2>5, <2>7, <4>1
      <4> QED BY <2>1, <4>1, <4>2, <4>3
    <3> QED BY <3>1, <3>2
  <2> QED BY <2>1, <2>6, <2>9, <2>10 DEF SkInv
<1> QED BY <1>2, <1>3

LEMMA SkCallbackKeeps ==
    ASSUME SkCalm, SkInv, NEW h \in SkHandles,
           \/ os_websocket_set_connection_callback(h) \/ os_websocket_set_receive_callback(h)
           \/ os_websocket_write_stream(h)
    PROVE  SkInv'
<1> DEFINE i == sk_private[h]
           s == sk_streams[i]
<1>1. h \in sk_handles /\ i # 0 /\ IsOpen(h) /\ s.alive
  BY DEF SkCalm, os_websocket_set_connection_callback, os_websocket_set_receive_callback,
         os_websocket_write_stream, Uses, IsOpen
<1>2. i \in DOMAIN sk_streams /\ s \in SkStream /\ s.handle = h /\ SkTypeOK /\ sk_fault = "none"
  BY <1>1 DEF SkInv, SkTypeOK
<1>3. ASSUME os_websocket_set_connection_callback(h) PROVE SkInv'
  <2> DEFINE t == [s EXCEPT !.conn_cb = TRUE]
  <2>1. /\ s.runs /\ sk_streams' = [sk_streams EXCEPT ![i] = t]
        /\ sk_view' = [sk_view EXCEPT ![h] = "connected"] /\ sk_fault' = "none"
        /\ UNCHANGED <<sk_handles, sk_private>>
    BY <1>1, <1>2, <1>3 DEF os_websocket_set_connection_callback, SkCalm, UseFault
  <2>2. t \in SkStream /\ t.handle = h /\ t.alive = s.alive /\ t.runs = s.runs
    BY <1>2 DEF SkStream
  <2> HIDE DEF t
  <2> QED BY <1>1, <1>2, <2>1, <2>2, SkChanges
<1>4. ASSUME os_websocket_set_receive_callback(h) PROVE SkInv'
  <2> DEFINE t == [s EXCEPT !.rx_cb = TRUE]
  <2>1. /\ sk_streams' = [sk_streams EXCEPT ![i] = t] /\ sk_view' = sk_view /\ sk_fault' = "none"
        /\ UNCHANGED <<sk_handles, sk_private>>
    BY <1>1, <1>2, <1>4 DEF os_websocket_set_receive_callback, UseFault
  <2>2. /\ t \in SkStream /\ t.handle = h /\ t.alive = s.alive /\ t.runs = s.runs
        /\ t.conn_cb = s.conn_cb
    BY <1>2 DEF SkStream
  <2> HIDE DEF t
  <2>3. sk_view' = [sk_view EXCEPT ![h] = sk_view[h]] /\ sk_view[h] \in {"nothing", "connected", "closed"}
    BY <1>2, <2>1 DEF SkTypeOK
  <2>4. /\ s.runs => s.alive
        /\ s.alive /\ s.conn_cb => sk_view[h] = IF s.runs THEN "connected" ELSE "closed"
    BY <1>2 DEF SkInv
  <2> QED BY <1>1, <1>2, <2>1, <2>2, <2>3, <2>4, SkChanges
<1>5. ASSUME os_websocket_write_stream(h) PROVE SkInv'
  BY <1>1, <1>2, <1>5, SkSame DEF os_websocket_write_stream, UseFault, skvars
<1> QED BY <1>3, <1>4, <1>5

LEMMA SkCloseKeeps ==
    ASSUME SkCalm, SkInv, NEW h \in SkHandles, NEW late \in BOOLEAN, NEW reused \in BOOLEAN,
           os_websocket_close_stream(h, late, reused)
    PROVE  SkInv'
<1> DEFINE i == sk_private[h]
           s == sk_streams[i]
           t == [s EXCEPT !.alive = FALSE, !.runs = @ /\ late]
<1>1. h \in sk_handles /\ i # 0 /\ IsOpen(h) /\ s.alive /\ late = FALSE /\ reused = FALSE
  BY DEF SkCalm, os_websocket_close_stream, Uses, IsOpen
<1>2. i \in DOMAIN sk_streams /\ s \in SkStream /\ s.handle = h /\ SkTypeOK /\ sk_fault = "none"
  BY <1>1 DEF SkInv, SkTypeOK
<1>3. t \in SkStream /\ t.handle = h /\ t.alive = FALSE /\ t.runs = FALSE
  BY <1>1, <1>2 DEF SkStream
<1>4. sk_streams' = [sk_streams EXCEPT ![i] = t]
  BY <1>2 DEF os_websocket_close_stream, SkClosed
<1> HIDE DEF t
<1>5. sk_fault' = "none" /\ UNCHANGED <<sk_handles, sk_private>>
  BY <1>1, <1>2 DEF os_websocket_close_stream, ssl_cleanup
<1>6. sk_view' = sk_view \/ sk_view' = [sk_view EXCEPT ![h] = "closed"]
  BY <1>2 DEF os_websocket_close_stream, Told
<1>7. \E v \in {"nothing", "connected", "closed"} : sk_view' = [sk_view EXCEPT ![h] = v]
  <2>1. sk_view = [sk_view EXCEPT ![h] = sk_view[h]] /\ sk_view[h] \in {"nothing", "connected", "closed"}
    BY <1>2 DEF SkTypeOK
  <2> QED BY <1>6, <2>1
<1> QED BY <1>1, <1>2, <1>3, <1>4, <1>5, <1>7, SkChanges

LEMMA SkTransfersKeep ==
    ASSUME SkInv, NEW i \in DOMAIN sk_streams, NEW sends \in BOOLEAN, NEW n \in {0, 4},
           NEW how \in {"moved", "nothing", "fails"}, LibraryTransfers(i, sends, n, how)
    PROVE  SkInv'
<1> DEFINE s == sk_streams[i]
           h == s.handle
           error == Transfer(s.tls, sends, n, how) = "error"
           t == [s EXCEPT !.runs = ~error]
<1>1. s.runs /\ s \in SkStream /\ SkTypeOK /\ sk_fault = "none"
  BY DEF LibraryTransfers, SkInv, SkTypeOK
<1>2. s.alive /\ h \in sk_handles /\ sk_private[h] = i /\ h \in SkHandles /\ i # 0
  BY <1>1 DEF SkInv, SkTypeOK
<1>3. /\ sk_streams' = [sk_streams EXCEPT ![i] = t]
      /\ sk_view' = IF error THEN Told(i, "closed") ELSE sk_view
      /\ sk_fault' = "none" /\ UNCHANGED <<sk_handles, sk_private>>
  BY <1>1, <1>2 DEF LibraryTransfers
<1> HIDE DEF error
<1>4. /\ t \in SkStream /\ t.handle = h /\ t.alive = s.alive /\ t.conn_cb = s.conn_cb
      /\ t.runs = ~error
  BY <1>1 DEF SkStream
<1> HIDE DEF t
<1>5. \E v \in {"nothing", "connected", "closed"} :
         /\ sk_view' = [sk_view EXCEPT ![h] = v]
         /\ t.alive /\ t.conn_cb => v = IF t.runs THEN "connected" ELSE "closed"
  <2>1. sk_view = [sk_view EXCEPT ![h] = sk_view[h]] /\ sk_view[h] \in {"nothing", "connected", "closed"}
    BY <1>1, <1>2 DEF SkTypeOK
  <2>2. s.conn_cb => sk_view[h] = "connected"
    BY <1>1, <1>2 DEF SkInv
  <2>3. CASE error /\ s.conn_cb
    <3>1. sk_view' = [sk_view EXCEPT ![h] = "closed"] /\ ~t.runs
      BY <1>2, <1>3, <1>4, <2>3 DEF Told
    <3> QED BY <3>1
  <2>4. CASE error /\ ~s.conn_cb
    <3>1. sk_view' = sk_view
      BY <1>3, <2>4 DEF Told
    <3> QED BY <1>4, <2>1, <2>4, <3>1
  <2>5. CASE ~error
    BY <1>3, <1>4, <2>1, <2>2, <2>5
  <2> QED BY <2>3, <2>4, <2>5
<1>6. /\ t.runs => t.alive
      /\ sk_private[h] # 0 /\ sk_streams[sk_private[h]].alive
      /\ sk_streams' = [sk_streams EXCEPT ![sk_private[h]] = t]
  BY <1>2, <1>3, <1>4
<1>7. h \in sk_handles /\ t \in SkStream /\ t.handle = h /\ sk_fault' = "none"
      /\ UNCHANGED <<sk_handles, sk_private>>
  BY <1>2, <1>3, <1>4
<1> HIDE DEF h
<1> QED BY <1>5, <1>6, <1>7, SkChanges

LEMMA SkSteps == SkCalm /\ SkInv /\ [SkNext]_skvars => SkInv'
  BY SkSame, SkRequestKeeps, SkReleaseKeeps, SkOpenKeeps, SkCallbackKeeps, SkCloseKeeps,
     SkTransfersKeep DEF SkNext

LEMMA SkGives == SkInv => StreamsAreServed
  BY DEF SkInv, StreamsAreServed

-----------------------------------------------------------------------------
(* MQTT clients on TizenRT.                                                *)

\* Known clients without a will, which are not destroyed in their callbacks, and
\* credentials with the verification they ask for.
MqCalm == MqUnusual = {}

MqEnds == {"connect", "disconnect"}

MqState(connected) == IF connected THEN "connect" ELSE "disconnect"

\* What the last report of a connection's begin or end says, or the view if
\* there is none, is how the connection is.
MqSettles(events, seen, connected) ==
    \/ seen = MqState(connected) /\ \A i \in DOMAIN events : events[i] \notin MqEnds
    \/ \E i \in DOMAIN events :
          /\ events[i] = MqState(connected)
          /\ \A j \in DOMAIN events : i < j => events[j] \notin MqEnds

MqLibrary == [connected : BOOLEAN, will : BOOLEAN, credentials : BOOLEAN]

MqTypeOK ==
    /\ mq_nodes \subseteq MqClients
    /\ mq_callbacks \in [MqClients -> {{}, MqKinds}]
    /\ mq_config \in [MqClients -> [will : BOOLEAN, tls : {"none", "required", "optional"}]]
    /\ mq_library \in [MqClients -> MqLibrary]
    /\ mq_events \in [MqClients -> Seq(MqKinds)]
    /\ mq_view \in [MqClients -> MqEnds]

MqServed(c, nodes, cbs, config, library, events, seen) ==
    /\ ~library.will /\ (library.connected => ~config.will)
    /\ config.tls # "optional"
    /\ library.connected \/ events # <<>> => c \in nodes
    /\ c \in nodes => library.credentials = (config.tls # "none")
    /\ cbs = {} => seen = "disconnect"
    /\ cbs = MqKinds /\ c \in nodes => MqSettles(events, seen, library.connected)

MqInv ==
    /\ MqTypeOK
    /\ mq_fault = "none"
    /\ \A c \in MqClients :
          MqServed(c, mq_nodes, mq_callbacks[c], mq_config[c], mq_library[c], mq_events[c], mq_view[c])

LEMMA MqSettlesAppend ==
    ASSUME NEW events \in Seq(MqKinds), NEW seen, NEW connected \in BOOLEAN, NEW sort \in MqKinds,
           MqSettles(events, seen, connected), sort \notin MqEnds
    PROVE  MqSettles(Append(events, sort), seen, connected)
<1> DEFINE new == Append(events, sort)
           n == Len(events) + 1
<1>1. /\ n \in Nat /\ DOMAIN events = 1 .. n - 1 /\ DOMAIN new = 1 .. n
      /\ \A i \in DOMAIN events : new[i] = events[i] /\ i \in DOMAIN new
      /\ new[n] = sort
  OBVIOUS
<1>2. \A i \in DOMAIN new : i \in DOMAIN events \/ i = n
  BY <1>1
<1> HIDE DEF new, n
<1>3. CASE seen = MqState(connected) /\ \A i \in DOMAIN events : events[i] \notin MqEnds
  BY <1>1, <1>2, <1>3 DEF MqSettles, new
<1>4. ASSUME NEW i \in DOMAIN events, events[i] = MqState(connected),
             \A j \in DOMAIN events : i < j => events[j] \notin MqEnds
      PROVE  MqSettles(Append(events, sort), seen, connected)
  <2>1. i \in DOMAIN new /\ new[i] = MqState(connected)
    BY <1>1, <1>4
  <2>2. \A j \in DOMAIN new : i < j => new[j] \notin MqEnds
    BY <1>1, <1>2, <1>4
  <2> QED BY <2>1, <2>2 DEF MqSettles, new
<1> QED BY <1>3, <1>4 DEF MqSettles

LEMMA MqSettlesEnd ==
    ASSUME NEW events \in Seq(MqKinds), NEW seen, NEW connected \in BOOLEAN
    PROVE  MqSettles(Append(events, MqState(connected)), seen, connected)
<1> DEFINE new == Append(events, MqState(connected))
           n == Len(events) + 1
<1>1. n \in Nat /\ DOMAIN new = 1 .. n /\ new[n] = MqState(connected)
  OBVIOUS
<1>2. n \in DOMAIN new /\ \A j \in DOMAIN new : ~(n < j)
  BY <1>1
<1> HIDE DEF new, n
<1>3. MqSettles(new, seen, connected)
  BY <1>1, <1>2 DEF MqSettles
<1> QED BY <1>3 DEF new

LEMMA MqSettlesTail ==
    ASSUME NEW events \in Seq(MqKinds), events # <<>>, NEW seen, NEW connected \in BOOLEAN,
           MqSettles(events, seen, connected)
    PROVE  MqSettles(Tail(events), IF Head(events) \in MqEnds THEN Head(events) ELSE seen, connected)
<1> DEFINE new == Tail(events)
           n == Len(events)
           now == IF Head(events) \in MqEnds THEN Head(events) ELSE seen
<1>1. /\ n \in Nat /\ n # 0 /\ DOMAIN events = 1 .. n /\ DOMAIN new = 1 .. n - 1
      /\ \A i \in DOMAIN new : new[i] = events[i + 1]
      /\ Head(events) = events[1]
  OBVIOUS
<1>2. MqState(connected) \in MqEnds
  BY DEF MqState, MqEnds
<1>3. \A i \in DOMAIN new : i + 1 \in DOMAIN events /\ 1 < i + 1 /\ i \in Nat
  BY <1>1
<1> HIDE DEF new, n
<1>4. CASE seen = MqState(connected) /\ \A i \in DOMAIN events : events[i] \notin MqEnds
  <2>1. now = MqState(connected)
    BY <1>1, <1>4
  <2>2. \A i \in DOMAIN new : new[i] \notin MqEnds
    BY <1>1, <1>3, <1>4
  <2> QED BY <2>1, <2>2 DEF MqSettles, new
<1>5. ASSUME NEW i \in DOMAIN events, events[i] = MqState(connected),
             \A j \in DOMAIN events : i < j => events[j] \notin MqEnds
      PROVE  MqSettles(new, now, connected)
  <2>1. CASE i = 1
    <3>1. now = MqState(connected)
      BY <1>1, <1>2, <1>5, <2>1
    <3>2. \A j \in DOMAIN new : new[j] \notin MqEnds
      BY <1>1, <1>3, <1>5, <2>1
    <3> QED BY <3>1, <3>2 DEF MqSettles
  <2>2. CASE i # 1
    <3>1. i - 1 \in DOMAIN new /\ i \in Nat /\ i - 1 \in Nat /\ (i - 1) + 1 = i
      BY <1>1, <2>2
    <3>2. new[i - 1] = MqState(connected)
      BY <1>1, <1>5, <3>1
    <3>3. ASSUME NEW j \in DOMAIN new, i - 1 < j PROVE new[j] \notin MqEnds
      <4>1. i < j + 1 /\ j + 1 \in DOMAIN events
        BY <1>3, <3>1, <3>3
      <4> QED BY <1>1, <1>5, <4>1
    <3> QED BY <3>1, <3>2, <3>3 DEF MqSettles
  <2> QED BY <2>1, <2>2
<1> QED BY <1>4, <1>5 DEF MqSettles, new

LEMMA MqStarts == MqCalm /\ MqInit => MqInv
<1> SUFFICES ASSUME MqCalm, MqInit PROVE MqInv
  OBVIOUS
<1>1. MqTypeOK
  <2>1. mq_config \in [MqClients -> [will : BOOLEAN, tls : {"none", "required", "optional"}]]
    BY DEF MqInit
  <2>2. [connected |-> FALSE, will |-> FALSE, credentials |-> FALSE] \in MqLibrary
    BY DEF MqLibrary
  <2>3. <<>> \in Seq(MqKinds)
    OBVIOUS
  <2> QED BY <2>1, <2>2, <2>3 DEF MqInit, MqTypeOK, MqEnds
<1>2. ASSUME NEW c \in MqClients
      PROVE  MqServed(c, mq_nodes, mq_callbacks[c], mq_config[c], mq_library[c], mq_events[c], mq_view[c])
  <2>1. /\ mq_nodes = {} /\ mq_library[c] = [connected |-> FALSE, will |-> FALSE, credentials |-> FALSE]
        /\ mq_events[c] = <<>> /\ mq_view[c] = "disconnect" /\ mq_config[c].tls # "optional"
    BY <1>2 DEF MqInit, MqCalm
  <2> QED BY <2>1 DEF MqServed
<1> QED BY <1>1, <1>2 DEF MqInit, MqInv

\* A step is one of a client: the others stay as they are.
MqOthers(c) ==
    \A d \in MqClients \ {c} :
        /\ d \in mq_nodes' <=> d \in mq_nodes
        /\ mq_callbacks'[d] = mq_callbacks[d] /\ mq_config'[d] = mq_config[d]
        /\ mq_library'[d] = mq_library[d] /\ mq_events'[d] = mq_events[d] /\ mq_view'[d] = mq_view[d]

LEMMA MqOne ==
    ASSUME MqInv, NEW c \in MqClients, MqTypeOK', mq_fault' = "none", MqOthers(c),
           MqServed(c, mq_nodes', mq_callbacks'[c], mq_config'[c], mq_library'[c], mq_events'[c], mq_view'[c])
    PROVE  MqInv'
<1>1. ASSUME NEW d \in MqClients, d # c
      PROVE  MqServed(d, mq_nodes', mq_callbacks'[d], mq_config'[d], mq_library'[d], mq_events'[d], mq_view'[d])
  <2>1. MqServed(d, mq_nodes, mq_callbacks[d], mq_config[d], mq_library[d], mq_events[d], mq_view[d])
    BY DEF MqInv
  <2> QED BY <1>1, <2>1 DEF MqOthers, MqServed
<1> QED BY <1>1 DEF MqInv

LEMMA MqSame == ASSUME MqInv, UNCHANGED mqvars PROVE MqInv'
  BY DEF MqInv, MqTypeOK, mqvars

LEMMA MqFacts ==
    ASSUME MqInv, NEW c \in MqClients
    PROVE  /\ MqTypeOK /\ mq_fault = "none"
           /\ mq_library[c] \in MqLibrary /\ mq_events[c] \in Seq(MqKinds) /\ mq_view[c] \in MqEnds
           /\ mq_callbacks[c] \in {{}, MqKinds}
           /\ mq_config[c] \in [will : BOOLEAN, tls : {"none", "required", "optional"}]
           /\ MqServed(c, mq_nodes, mq_callbacks[c], mq_config[c], mq_library[c], mq_events[c], mq_view[c])
  BY DEF MqInv, MqTypeOK

\* Events and connection of a client change.
LEMMA MqChanges ==
    ASSUME MqInv, NEW c \in MqClients,
           UNCHANGED <<mq_nodes, mq_callbacks, mq_config, mq_fault>>,
           NEW library \in MqLibrary, mq_library' = [mq_library EXCEPT ![c] = library],
           NEW events \in Seq(MqKinds), mq_events' = [mq_events EXCEPT ![c] = events],
           NEW seen \in MqEnds, mq_view' = [mq_view EXCEPT ![c] = seen],
           MqServed(c, mq_nodes, mq_callbacks[c], mq_config[c], library, events, seen)
    PROVE  MqInv'
<1>1. MqTypeOK /\ mq_fault = "none"
  BY DEF MqInv
<1>2. mq_library' \in [MqClients -> MqLibrary] /\ mq_library'[c] = library
      /\ \A d \in MqClients : d # c => mq_library'[d] = mq_library[d]
  BY <1>1 DEF MqTypeOK
<1>3. mq_events' \in [MqClients -> Seq(MqKinds)] /\ mq_events'[c] = events
      /\ \A d \in MqClients : d # c => mq_events'[d] = mq_events[d]
  BY <1>1 DEF MqTypeOK
<1>4. mq_view' \in [MqClients -> MqEnds] /\ mq_view'[c] = seen
      /\ \A d \in MqClients : d # c => mq_view'[d] = mq_view[d]
  BY <1>1 DEF MqTypeOK
<1>5. MqTypeOK'
  BY <1>1, <1>2, <1>3, <1>4 DEF MqTypeOK
<1>6. MqOthers(c)
  BY <1>2, <1>3, <1>4 DEF MqOthers
<1> QED BY <1>1, <1>2, <1>3, <1>4, <1>5, <1>6, MqOne

LEMMA MqCreateKeeps ==
    ASSUME MqInv, NEW c \in MqClients, NEW inits \in BOOLEAN, mqtt_create_client(c, inits) PROVE MqInv'
<1> DEFINE library == [connected |-> FALSE, will |-> FALSE, credentials |-> inits /\ Credentials(c)]
<1>1. /\ c \notin mq_nodes /\ mq_events[c] = <<>> /\ UNCHANGED <<mq_config, mq_events, mq_fault>>
      /\ mq_nodes' = IF inits THEN mq_nodes \cup {c} ELSE mq_nodes
      /\ mq_callbacks' = [mq_callbacks EXCEPT ![c] = {}]
      /\ mq_library' = [mq_library EXCEPT ![c] = library]
      /\ mq_view' = [mq_view EXCEPT ![c] = "disconnect"]
  BY DEF mqtt_create_client
<1>2. library \in MqLibrary /\ ~library.connected /\ ~library.will
      /\ library.credentials = (inits /\ Credentials(c))
  BY DEF MqLibrary
<1> HIDE DEF library
<1>3. /\ MqTypeOK /\ mq_fault = "none"
      /\ mq_config[c] \in [will : BOOLEAN, tls : {"none", "required", "optional"}]
      /\ MqServed(c, mq_nodes, mq_callbacks[c], mq_config[c], mq_library[c], mq_events[c], mq_view[c])
  BY MqFacts
<1>4. /\ mq_nodes' \subseteq MqClients
      /\ mq_callbacks' \in [MqClients -> {{}, MqKinds}]
      /\ mq_library' \in [MqClients -> MqLibrary]
      /\ mq_view' \in [MqClients -> MqEnds]
  <2>1. mq_nodes' \subseteq MqClients
    BY <1>1, <1>3 DEF MqTypeOK
  <2>2. mq_callbacks' \in [MqClients -> {{}, MqKinds}]
    BY <1>1, <1>3 DEF MqTypeOK
  <2>3. mq_library' \in [MqClients -> MqLibrary]
    BY <1>1, <1>2, <1>3 DEF MqTypeOK
  <2>4. mq_view' \in [MqClients -> MqEnds]
    BY <1>1, <1>3 DEF MqTypeOK, MqEnds
  <2> QED BY <2>1, <2>2, <2>3, <2>4
<1>5. MqTypeOK'
  BY <1>1, <1>3, <1>4 DEF MqTypeOK
<1>6. MqOthers(c)
  BY <1>1, <1>3 DEF MqOthers, MqTypeOK
<1>7. mq_callbacks'[c] = {} /\ mq_library'[c] = library /\ mq_view'[c] = "disconnect"
  BY <1>1, <1>3 DEF MqTypeOK
<1>8. Credentials(c) = (mq_config[c].tls # "none")
  BY <1>3 DEF Credentials, MqServed
<1>9. c \in mq_nodes' => inits
  BY <1>1
<1>10. c \in mq_nodes' => library.credentials = (mq_config[c].tls # "none")
  BY <1>2, <1>8, <1>9
<1>11. MqServed(c, mq_nodes', mq_callbacks'[c], mq_config'[c], mq_library'[c], mq_events'[c], mq_view'[c])
  BY <1>1, <1>2, <1>3, <1>7, <1>10 DEF MqServed, MqKinds
<1> QED BY <1>1, <1>3, <1>5, <1>6, <1>11, MqOne

LEMMA MqDestroyKeeps ==
    ASSUME MqCalm, MqInv, NEW c \in MqClients, NEW inside \in BOOLEAN,
           mqtt_client_destroy_client(c, inside)
    PROVE  MqInv'
<1>1. /\ c \in mq_nodes /\ mq_nodes' = mq_nodes \ {c} /\ Deinit(c, FALSE)
      /\ UNCHANGED <<mq_callbacks, mq_config, mq_view, mq_fault>>
  BY DEF mqtt_client_destroy_client, MqCalm
<1>2. /\ MqTypeOK /\ mq_fault = "none" /\ mq_library[c] \in MqLibrary
      /\ MqServed(c, mq_nodes, mq_callbacks[c], mq_config[c], mq_library[c], mq_events[c], mq_view[c])
  BY MqFacts
<1> DEFINE library == [mq_library[c] EXCEPT !.connected = FALSE]
<1>3. library \in MqLibrary /\ ~library.connected /\ library.will = mq_library[c].will
  BY <1>2 DEF MqLibrary
<1>4. mq_library' = [mq_library EXCEPT ![c] = library] /\ mq_events' = [mq_events EXCEPT ![c] = <<>>]
  BY <1>1 DEF Deinit
<1> HIDE DEF library
<1>5. mq_library' \in [MqClients -> MqLibrary] /\ mq_events' \in [MqClients -> Seq(MqKinds)]
  <2>1. <<>> \in Seq(MqKinds)
    OBVIOUS
  <2> QED BY <1>2, <1>3, <1>4, <2>1 DEF MqTypeOK
<1>6. MqTypeOK'
  BY <1>1, <1>2, <1>5 DEF MqTypeOK
<1>7. mq_library'[c] = library /\ mq_events'[c] = <<>> /\ MqOthers(c)
  BY <1>1, <1>2, <1>4 DEF MqOthers, MqTypeOK
<1>8. MqServed(c, mq_nodes', mq_callbacks'[c], mq_config'[c], mq_library'[c], mq_events'[c], mq_view'[c])
  BY <1>1, <1>2, <1>3, <1>7 DEF MqServed
<1> QED BY <1>1, <1>2, <1>6, <1>7, <1>8, MqOne

LEMMA MqWillKeeps ==
    ASSUME MqCalm, MqInv, NEW c \in MqClients,
           mqtt_client_set_willmsg(c) \/ mqtt_client_free_willmsg(c) \/ mqtt_client_clear_willmsg(c)
    PROVE  MqInv'
<1>1. /\ MqTypeOK /\ mq_fault = "none" /\ mq_library[c] \in MqLibrary
      /\ mq_config[c] \in [will : BOOLEAN, tls : {"none", "required", "optional"}]
      /\ MqServed(c, mq_nodes, mq_callbacks[c], mq_config[c], mq_library[c], mq_events[c], mq_view[c])
  BY MqFacts
<1>2. PICK w \in BOOLEAN : /\ mq_config' = [mq_config EXCEPT ![c].will = w]
                           /\ mq_library[c].connected => ~w
  BY DEF mqtt_client_set_willmsg, mqtt_client_free_willmsg, mqtt_client_clear_willmsg, MqCalm
<1>3. UNCHANGED <<mq_nodes, mq_callbacks, mq_events, mq_view, mq_fault>>
  BY DEF mqtt_client_set_willmsg, mqtt_client_free_willmsg, mqtt_client_clear_willmsg
<1>4. mq_library' = mq_library \/ mq_library' = [mq_library EXCEPT ![c].will = FALSE]
  BY DEF mqtt_client_set_willmsg, mqtt_client_free_willmsg, mqtt_client_clear_willmsg
<1>5. mq_library' = mq_library
  <2>1. mq_library[c].will = FALSE
    BY <1>1 DEF MqServed, MqLibrary
  <2>2. [mq_library[c] EXCEPT !.will = FALSE] = mq_library[c]
    BY <1>1, <2>1 DEF MqLibrary
  <2>3. [mq_library EXCEPT ![c].will = FALSE] = mq_library
    BY <1>1, <2>2 DEF MqTypeOK
  <2> QED BY <1>4, <2>3
<1> DEFINE config == [mq_config[c] EXCEPT !.will = w]
<1>6. /\ config \in [will : BOOLEAN, tls : {"none", "required", "optional"}]
      /\ config.will = w /\ config.tls = mq_config[c].tls
  BY <1>1
<1>7. mq_config' = [mq_config EXCEPT ![c] = config]
  BY <1>2
<1> HIDE DEF config
<1>8. /\ mq_config' \in [MqClients -> [will : BOOLEAN, tls : {"none", "required", "optional"}]]
      /\ mq_config'[c] = config /\ \A d \in MqClients : d # c => mq_config'[d] = mq_config[d]
  BY <1>1, <1>6, <1>7 DEF MqTypeOK
<1>9. MqTypeOK'
  BY <1>1, <1>3, <1>5, <1>8 DEF MqTypeOK
<1>10. MqOthers(c)
  BY <1>3, <1>5, <1>8 DEF MqOthers
<1>11. MqServed(c, mq_nodes', mq_callbacks'[c], mq_config'[c], mq_library'[c], mq_events'[c], mq_view'[c])
  BY <1>1, <1>2, <1>3, <1>5, <1>6, <1>8 DEF MqServed
<1> QED BY <1>1, <1>3, <1>9, <1>10, <1>11, MqOne

LEMMA MqCallbacksKeep ==
    ASSUME MqInv, NEW c \in MqClients, mqtt_client_set_callbacks(c) PROVE MqInv'
<1>1. /\ c \in mq_nodes /\ ~mq_library[c].connected /\ mq_events[c] = <<>>
      /\ mq_callbacks' = [mq_callbacks EXCEPT ![c] = MqKinds]
      /\ UNCHANGED <<mq_nodes, mq_config, mq_library, mq_events, mq_view, mq_fault>>
  BY DEF mqtt_client_set_callbacks
<1>2. /\ MqTypeOK /\ mq_fault = "none" /\ mq_library[c] \in MqLibrary /\ mq_callbacks[c] \in {{}, MqKinds}
      /\ MqServed(c, mq_nodes, mq_callbacks[c], mq_config[c], mq_library[c], mq_events[c], mq_view[c])
  BY MqFacts
<1>3. MqTypeOK'
  BY <1>1, <1>2 DEF MqTypeOK
<1>4. mq_callbacks'[c] = MqKinds /\ MqOthers(c)
  BY <1>1, <1>2 DEF MqOthers, MqTypeOK
<1>5. mq_view[c] = "disconnect"
  BY <1>1, <1>2 DEF MqServed, MqSettles, MqState
<1>6. MqSettles(mq_events[c], mq_view[c], mq_library[c].connected)
  BY <1>1, <1>5 DEF MqSettles, MqState
<1>7. MqKinds # {}
  BY DEF MqKinds
<1>8. MqServed(c, mq_nodes', mq_callbacks'[c], mq_config'[c], mq_library'[c], mq_events'[c], mq_view'[c])
  BY <1>1, <1>2, <1>4, <1>6, <1>7 DEF MqServed
<1> QED BY <1>1, <1>2, <1>3, <1>4, <1>8, MqOne

\* A connection begins or ends, and its report comes last.
LEMMA MqTurns ==
    ASSUME MqInv, NEW c \in mq_nodes, NEW on \in BOOLEAN, on => ~mq_config[c].will,
           mq_library' = [mq_library EXCEPT ![c].connected = on],
           Reports(c, MqState(on)),
           UNCHANGED <<mq_nodes, mq_callbacks, mq_config, mq_view, mq_fault>>
    PROVE  MqInv'
<1>0. c \in MqClients
  BY DEF MqInv, MqTypeOK
<1>1. /\ MqTypeOK /\ mq_library[c] \in MqLibrary /\ mq_events[c] \in Seq(MqKinds) /\ mq_view[c] \in MqEnds
      /\ MqServed(c, mq_nodes, mq_callbacks[c], mq_config[c], mq_library[c], mq_events[c], mq_view[c])
  BY <1>0, MqFacts
<1> DEFINE library == [mq_library[c] EXCEPT !.connected = on]
           events == Append(mq_events[c], MqState(on))
<1>2. /\ library \in MqLibrary /\ library.connected = on
      /\ library.will = mq_library[c].will /\ library.credentials = mq_library[c].credentials
  BY <1>1 DEF MqLibrary
<1>3. mq_library' = [mq_library EXCEPT ![c] = library]
  OBVIOUS
<1>4. events \in Seq(MqKinds)
  BY <1>1 DEF MqState, MqKinds
<1>5. mq_events' = [mq_events EXCEPT ![c] = events]
  BY DEF Reports
<1>6. mq_view' = [mq_view EXCEPT ![c] = mq_view[c]]
  BY <1>1 DEF MqTypeOK
<1>7. MqSettles(events, mq_view[c], on)
  BY <1>1, MqSettlesEnd
<1> HIDE DEF library, events
<1>8. MqServed(c, mq_nodes, mq_callbacks[c], mq_config[c], library, events, mq_view[c])
  BY <1>1, <1>2, <1>7 DEF MqServed
<1> QED BY <1>0, <1>1, <1>2, <1>3, <1>4, <1>5, <1>6, <1>8, MqChanges

LEMMA MqConnectKeeps ==
    ASSUME MqCalm, MqInv, NEW c \in MqClients, NEW ok \in BOOLEAN, mqtt_client_connect(c, ok)
    PROVE  MqInv'
<1>1. c \in mq_nodes /\ ~mq_config[c].will /\ UNCHANGED <<mq_nodes, mq_callbacks, mq_config, mq_view, mq_fault>>
  BY DEF mqtt_client_connect, MqCalm
<1>2. CASE ok
  BY <1>1, <1>2, MqTurns DEF mqtt_client_connect, MqState
<1>3. CASE ~ok
  BY <1>1, <1>3, MqSame DEF mqtt_client_connect, mqvars
<1> QED BY <1>2, <1>3

LEMMA MqDisconnectKeeps ==
    ASSUME MqCalm, MqInv, NEW c \in MqClients, mqtt_client_disconnect(c) \/ ConnectionIsLost(c)
    PROVE  MqInv'
<1>1. c \in mq_nodes /\ UNCHANGED <<mq_nodes, mq_callbacks, mq_config, mq_view, mq_fault>>
  BY MqFacts DEF mqtt_client_disconnect, ConnectionIsLost, MqCalm, MqServed
<1>2. \/ UNCHANGED <<mq_events, mq_library>>
      \/ Reports(c, "disconnect") /\ mq_library' = [mq_library EXCEPT ![c].connected = FALSE]
  BY DEF mqtt_client_disconnect, ConnectionIsLost
<1>3. CASE UNCHANGED <<mq_events, mq_library>>
  BY <1>1, <1>3, MqSame DEF mqvars
<1>4. CASE Reports(c, "disconnect") /\ mq_library' = [mq_library EXCEPT ![c].connected = FALSE]
  BY <1>1, <1>4, MqTurns DEF MqState
<1> QED BY <1>2, <1>3, <1>4

LEMMA MqAnswerKeeps ==
    ASSUME MqInv, NEW c \in MqClients, NEW sort \in MqKinds, BrokerAnswers(c, sort) PROVE MqInv'
<1>1. /\ MqTypeOK /\ mq_library[c] \in MqLibrary /\ mq_events[c] \in Seq(MqKinds) /\ mq_view[c] \in MqEnds
      /\ MqServed(c, mq_nodes, mq_callbacks[c], mq_config[c], mq_library[c], mq_events[c], mq_view[c])
  BY MqFacts
<1> DEFINE events == Append(mq_events[c], sort)
<1>2. c \in mq_nodes /\ sort \notin MqEnds /\ mq_events' = [mq_events EXCEPT ![c] = events]
      /\ UNCHANGED <<mq_nodes, mq_callbacks, mq_config, mq_library, mq_view, mq_fault>>
  BY DEF BrokerAnswers, Reports, MqEnds
<1>3. events \in Seq(MqKinds)
  BY <1>1
<1>4. mq_callbacks[c] = MqKinds => MqSettles(events, mq_view[c], mq_library[c].connected)
  <2>1. mq_library[c].connected \in BOOLEAN
    BY <1>1 DEF MqLibrary
  <2> QED BY <1>1, <1>2, <2>1, MqSettlesAppend DEF MqServed
<1> HIDE DEF events
<1>5. MqServed(c, mq_nodes, mq_callbacks[c], mq_config[c], mq_library[c], events, mq_view[c])
  BY <1>1, <1>2, <1>4 DEF MqServed
<1>6. mq_library' = [mq_library EXCEPT ![c] = mq_library[c]] /\ mq_view' = [mq_view EXCEPT ![c] = mq_view[c]]
  BY <1>1, <1>2 DEF MqTypeOK
<1> QED BY <1>1, <1>2, <1>3, <1>5, <1>6, MqChanges

LEMMA MqReportKeeps == ASSUME MqInv, NEW c \in MqClients, ThreadReports(c) PROVE MqInv'
<1>1. /\ MqTypeOK /\ mq_library[c] \in MqLibrary /\ mq_events[c] \in Seq(MqKinds) /\ mq_view[c] \in MqEnds
      /\ mq_callbacks[c] \in {{}, MqKinds} /\ mq_fault = "none"
      /\ MqServed(c, mq_nodes, mq_callbacks[c], mq_config[c], mq_library[c], mq_events[c], mq_view[c])
  BY MqFacts
<1> DEFINE events == Tail(mq_events[c])
           seen == IF mq_callbacks[c] = MqKinds /\ Head(mq_events[c]) \in MqEnds THEN Head(mq_events[c])
                   ELSE mq_view[c]
<1>2. /\ mq_events[c] # <<>> /\ c \in mq_nodes /\ mq_events' = [mq_events EXCEPT ![c] = events]
      /\ UNCHANGED <<mq_nodes, mq_callbacks, mq_config, mq_library, mq_fault>>
  BY <1>1 DEF ThreadReports, MqServed
<1>3. events \in Seq(MqKinds) /\ Head(mq_events[c]) \in MqKinds
  BY <1>1, <1>2
<1>4. seen \in MqEnds
  BY <1>1
<1>5. mq_view' = [mq_view EXCEPT ![c] = seen]
  <2>1. mq_view = [mq_view EXCEPT ![c] = mq_view[c]]
    BY <1>1 DEF MqTypeOK
  <2>2. mq_view' = IF Head(mq_events[c]) \in MqEnds \cap mq_callbacks[c]
                   THEN [mq_view EXCEPT ![c] = Head(mq_events[c])] ELSE mq_view
    BY DEF ThreadReports, MqEnds
  <2>3. Head(mq_events[c]) \in MqEnds \cap mq_callbacks[c]
           <=> mq_callbacks[c] = MqKinds /\ Head(mq_events[c]) \in MqEnds
    BY <1>1, <1>3
  <2> QED BY <2>1, <2>2, <2>3
<1>6. mq_callbacks[c] = MqKinds => MqSettles(events, seen, mq_library[c].connected)
  <2>1. mq_library[c].connected \in BOOLEAN
    BY <1>1 DEF MqLibrary
  <2> QED BY <1>1, <1>2, <2>1, MqSettlesTail DEF MqServed
<1>7. mq_callbacks[c] = {} => seen = "disconnect"
  <2>1. MqKinds # {}
    BY DEF MqKinds
  <2> QED BY <1>1, <2>1 DEF MqServed
<1> HIDE DEF events, seen
<1>8. MqServed(c, mq_nodes, mq_callbacks[c], mq_config[c], mq_library[c], events, seen)
  BY <1>1, <1>2, <1>6, <1>7 DEF MqServed
<1>9. mq_library' = [mq_library EXCEPT ![c] = mq_library[c]]
  BY <1>1, <1>2 DEF MqTypeOK
<1> QED BY <1>1, <1>2, <1>3, <1>4, <1>5, <1>8, <1>9, MqChanges

LEMMA MqSteps == MqCalm /\ MqInv /\ [MqNext]_mqvars => MqInv'
  BY MqSame, MqCreateKeeps, MqDestroyKeeps, MqWillKeeps, MqCallbacksKeep, MqConnectKeeps,
     MqDisconnectKeeps, MqAnswerKeeps, MqReportKeeps DEF MqNext

LEMMA MqGives == MqInv => ClientsAreServed
<1> SUFFICES ASSUME MqInv PROVE ClientsAreServed
  OBVIOUS
<1>1. ASSUME NEW c \in MqClients
      PROVE  /\ mq_library[c].connected \/ mq_events[c] # <<>> => c \in mq_nodes
             /\ c \in mq_nodes /\ mq_events[c] = <<>> /\ mq_callbacks[c] = MqKinds
                => mq_view[c] = IF mq_library[c].connected THEN "connect" ELSE "disconnect"
             /\ mq_library[c].connected
                => /\ mq_library[c].will = mq_config[c].will
                   /\ mq_library[c].credentials = (mq_config[c].tls # "none")
  <2>1. /\ mq_library[c] \in MqLibrary
        /\ mq_config[c] \in [will : BOOLEAN, tls : {"none", "required", "optional"}]
        /\ MqServed(c, mq_nodes, mq_callbacks[c], mq_config[c], mq_library[c], mq_events[c], mq_view[c])
    BY MqFacts
  <2>2. ASSUME mq_library[c].connected PROVE mq_library[c].will = mq_config[c].will
    BY <2>1, <2>2 DEF MqServed, MqLibrary
  <2> QED BY <2>1, <2>2 DEF MqServed, MqSettles, MqState
<1> QED BY <1>1 DEF ClientsAreServed, MqInv

-----------------------------------------------------------------------------
(* Watches of the online status on TizenRT.                                *)

\* One call at a time, about watches that are there, and none that fails.
TwCalm == TwUnusual = {}

\* What a watch was told last, and how it is held.
TwTold(e, said) == said = IF e.force THEN "none" ELSE TwStatus(e.online)

TwServed(w, list, said) == list[w] \in TwEcho /\ TwTold(list[w], said[w])

TwCalls ==
    {TwIdle, [op |-> "join"]} \cup [op : {"add"}, w : TwWatches] \cup [op : {"remove"}, w : TwWatches]

\* The data is there while there is a watch, or while its thread is joined; one
\* call is under way at most, and what it found still holds.
TwInv ==
    /\ DOMAIN tw_list \subseteq TwWatches
    /\ tw_quit \in BOOLEAN /\ tw_wrong = FALSE /\ tw_locked = "nobody"
    /\ tw_told \in [TwWatches -> {"none", "online", "offline"}]
    /\ \A w \in DOMAIN tw_list : TwServed(w, tw_list, tw_told)
    /\ tw_call \in [TwCallers -> TwCalls]
    /\ \A c, d \in TwCallers : tw_call[c] # TwIdle /\ tw_call[d] # TwIdle => c = d
    /\ \/ tw_data = "null" /\ tw_thread = "none" /\ tw_list = [w \in {} |-> 0]
          /\ \A c \in TwCallers : tw_call[c] = TwIdle
       \/ /\ tw_data = "live" /\ tw_thread = "runs" /\ ~tw_quit /\ DOMAIN tw_list # {}
          /\ \A c \in TwCallers :
                /\ tw_call[c].op # "join"
                /\ tw_call[c].op = "remove" => tw_call[c].w \in DOMAIN tw_list
       \/ /\ tw_data = "live" /\ tw_thread \in {"runs", "ended"} /\ tw_quit /\ DOMAIN tw_list = {}
          /\ \E c \in TwCallers : tw_call[c] = [op |-> "join"]

LEMMA TwCallIs ==
    ASSUME NEW call \in TwCalls
    PROVE  /\ call.op \in {"idle", "add", "remove", "join"}
           /\ call.op = "idle" => call = TwIdle
           /\ call.op = "join" => call = [op |-> "join"]
           /\ call.op \in {"add", "remove"} => call.w \in TwWatches
<1>1. CASE call = TwIdle
  BY <1>1 DEF TwIdle
<1>2. CASE call = [op |-> "join"]
  BY <1>2
<1>3. CASE call \in [op : {"add"}, w : TwWatches]
  BY <1>3
<1>4. CASE call \in [op : {"remove"}, w : TwWatches]
  BY <1>4
<1> QED BY <1>1, <1>2, <1>3, <1>4 DEF TwCalls

LEMMA TwPassRight ==
    ASSUME NEW e \in TwEcho, NEW said, TwTold(e, said), NEW p \in TwPassed(e)
    PROVE  p.echo \in TwEcho /\ TwTold(p.echo, IF p.tells THEN "offline" ELSE said)
<1> DEFINE resolved == [e EXCEPT !.resolved = TRUE]
<1>1. /\ resolved \in TwEcho /\ resolved.force = e.force /\ resolved.online = e.online
  BY DEF TwEcho
<1>2. ASSUME NEW f \in TwEcho, TwTold(f, said)
      PROVE  /\ TwNotified(f, FALSE) \in TwEcho
             /\ ~TwNotified(f, FALSE).force /\ ~TwNotified(f, FALSE).online
             /\ TwTold(TwNotified(f, FALSE), IF TwTells(f, FALSE) THEN "offline" ELSE said)
  <2> DEFINE g == TwNotified(f, FALSE)
  <2>1. g \in TwEcho /\ g.force = FALSE /\ g.online = FALSE
    BY DEF TwNotified, TwEcho
  <2>2. f.force \in BOOLEAN /\ f.online \in BOOLEAN
    BY DEF TwEcho
  <2>3. TwTells(f, FALSE) <=> f.force \/ f.online
    BY <2>2 DEF TwTells
  <2> HIDE DEF g
  <2>4. TwTold(g, IF TwTells(f, FALSE) THEN "offline" ELSE said)
    BY <1>2, <2>1, <2>2, <2>3 DEF TwTold, TwStatus
  <2> QED BY <2>1, <2>4 DEF g
<1>3. TwTold(resolved, said)
  BY <1>1 DEF TwTold
<1> HIDE DEF resolved
<1>4. /\ TwTold(TwNotified(resolved, FALSE), IF TwTells(resolved, FALSE) THEN "offline" ELSE said)
      /\ TwNotified(resolved, FALSE) \in TwEcho
  BY <1>1, <1>2, <1>3
<1>5. ASSUME NEW f \in TwEcho
      PROVE  LET g == [f EXCEPT !.waiting = TRUE] IN
             g \in TwEcho /\ g.force = f.force /\ g.online = f.online
  BY DEF TwEcho
<1>6. CASE p = [echo |-> TwNotified(e, FALSE), tells |-> TwTells(e, FALSE)]
  BY <1>2, <1>6
<1>7. CASE p = [echo |-> resolved, tells |-> FALSE]
  BY <1>1, <1>3, <1>7
<1>8. CASE p = [echo |-> [resolved EXCEPT !.waiting = TRUE], tells |-> FALSE]
  <2>1. p.echo = [resolved EXCEPT !.waiting = TRUE] /\ ~p.tells
    BY <1>8
  <2> QED BY <1>1, <1>3, <1>5, <2>1 DEF TwTold
<1>9. CASE p = [echo |-> [TwNotified(resolved, FALSE) EXCEPT !.waiting = TRUE], tells |-> TwTells(resolved, FALSE)]
  <2>1. p.echo = [TwNotified(resolved, FALSE) EXCEPT !.waiting = TRUE] /\ p.tells = TwTells(resolved, FALSE)
    BY <1>9
  <2> QED BY <1>4, <1>5, <2>1 DEF TwTold
<1> QED BY <1>6, <1>7, <1>8, <1>9 DEF TwPassed, resolved

LEMMA TwHeardRight ==
    ASSUME NEW e \in TwEcho, NEW said, TwTold(e, said)
    PROVE  LET g == [TwNotified(e, TRUE) EXCEPT !.waiting = FALSE] IN
           g \in TwEcho /\ TwTold(g, IF TwTells(e, TRUE) THEN "online" ELSE said)
<1> DEFINE g == [TwNotified(e, TRUE) EXCEPT !.waiting = FALSE]
<1>1. g \in TwEcho /\ g.force = FALSE /\ g.online = TRUE
  BY DEF TwNotified, TwEcho
<1>2. e.force \in BOOLEAN /\ e.online \in BOOLEAN
  BY DEF TwEcho
<1>3. TwTells(e, TRUE) <=> e.force \/ ~e.online
  BY <1>2 DEF TwTells
<1> HIDE DEF g
<1>4. TwTold(g, IF TwTells(e, TRUE) THEN "online" ELSE said)
  BY <1>1, <1>2, <1>3 DEF TwTold, TwStatus
<1> QED BY <1>1, <1>4 DEF g

LEMMA TwStarts == TwInit => TwInv
<1> SUFFICES ASSUME TwInit PROVE TwInv
  OBVIOUS
<1>1. DOMAIN tw_list = {}
  BY DEF TwInit
<1>2. tw_call \in [TwCallers -> TwCalls] /\ \A c \in TwCallers : tw_call[c] = TwIdle
  BY DEF TwInit, TwCalls
<1>3. tw_told \in [TwWatches -> {"none", "online", "offline"}]
  BY DEF TwInit
<1> QED BY <1>1, <1>2, <1>3 DEF TwInit, TwInv

\* A new watch is to be told whatever its status is.
LEMMA TwWithServes ==
    ASSUME TwInv, NEW w \in TwWatches, tw_list' = TwWith(w), tw_told' = [tw_told EXCEPT ![w] = "none"]
    PROVE  /\ DOMAIN tw_list' \subseteq TwWatches /\ DOMAIN tw_list' = DOMAIN tw_list \cup {w}
           /\ tw_told' \in [TwWatches -> {"none", "online", "offline"}]
           /\ \A v \in DOMAIN tw_list' : TwServed(v, tw_list', tw_told')
<1>1. /\ DOMAIN tw_list' = DOMAIN tw_list \cup {w}
      /\ \A v \in DOMAIN tw_list' : tw_list'[v] = IF v = w THEN TwNewEcho ELSE tw_list[v]
  BY DEF TwWith
<1>2. /\ tw_told' \in [TwWatches -> {"none", "online", "offline"}]
      /\ \A v \in TwWatches : tw_told'[v] = IF v = w THEN "none" ELSE tw_told[v]
  BY DEF TwInv
<1>3. TwNewEcho \in TwEcho /\ TwNewEcho.force
  BY DEF TwNewEcho, TwEcho
<1>4. DOMAIN tw_list \subseteq TwWatches
  BY DEF TwInv
<1>5. ASSUME NEW v \in DOMAIN tw_list' PROVE TwServed(v, tw_list', tw_told')
  <2>1. CASE v = w
    BY <1>1, <1>2, <1>3, <2>1 DEF TwServed, TwTold
  <2>2. CASE v # w
    BY <1>1, <1>2, <1>4, <1>5, <2>2 DEF TwServed, TwInv
  <2> QED BY <2>1, <2>2
<1> QED BY <1>1, <1>2, <1>4, <1>5

\* A caller begins or ends a call, and no other one is under way.
LEMMA TwSets ==
    ASSUME TwInv, NEW c \in TwCallers, NEW call \in TwCalls, TwSet(c, call),
           \A d \in TwCallers : d # c => tw_call[d] = TwIdle
    PROVE  /\ tw_call' \in [TwCallers -> TwCalls] /\ tw_call'[c] = call
           /\ \A d \in TwCallers : d # c => tw_call'[d] = TwIdle
           /\ \A d, e \in TwCallers : tw_call'[d] # TwIdle /\ tw_call'[e] # TwIdle => d = e
<1>1. tw_call' \in [TwCallers -> TwCalls] /\ tw_call'[c] = call
      /\ \A d \in TwCallers : d # c => tw_call'[d] = tw_call[d]
  BY DEF TwSet, TwInv
<1> QED BY <1>1

LEMMA TwOpOfIdle == TwIdle.op = "idle" /\ TwIdle \in TwCalls
  BY DEF TwIdle, TwCalls

LEMMA TwFoundKeeps ==
    ASSUME TwCalm, TwInv, NEW c \in TwCallers, NEW w \in TwWatches,
           TwAddFound(c, w) \/ TwRemoveFound(c, w)
    PROVE  TwInv'
<1>1. /\ \A d \in TwCallers : tw_call[d] = TwIdle
      /\ tw_data # "null"
      /\ UNCHANGED <<tw_data, tw_list, tw_quit, tw_thread, tw_locked, tw_told, tw_wrong>>
  BY DEF TwAddFound, TwRemoveFound, TwMayCall, TwCalm
<1>2. PICK call \in TwCalls : /\ TwSet(c, call) /\ call.op # "join"
                              /\ call.op = "remove" => call.w \in DOMAIN tw_list
  BY DEF TwAddFound, TwRemoveFound, TwCalls, TwCalm
<1>3. /\ tw_call' \in [TwCallers -> TwCalls] /\ tw_call'[c] = call
      /\ \A d \in TwCallers : d # c => tw_call'[d] = TwIdle
      /\ \A d, e \in TwCallers : tw_call'[d] # TwIdle /\ tw_call'[e] # TwIdle => d = e
  BY <1>1, <1>2, TwSets
<1>4. /\ tw_data = "live" /\ tw_thread = "runs" /\ ~tw_quit /\ DOMAIN tw_list # {}
  <2>1. TwIdle # [op |-> "join"]
    BY DEF TwIdle
  <2> QED BY <1>1, <2>1 DEF TwInv
<1>5. ASSUME NEW d \in TwCallers
      PROVE  /\ tw_call'[d].op # "join"
             /\ tw_call'[d].op = "remove" => tw_call'[d].w \in DOMAIN tw_list
  BY <1>2, <1>3, TwOpOfIdle
<1> QED BY <1>1, <1>3, <1>4, <1>5 DEF TwInv

LEMMA TwAddFirstKeeps ==
    ASSUME TwCalm, TwInv, NEW c \in TwCallers, NEW w \in TwWatches, TwAddFirst(c, w) PROVE TwInv'
<1>1. /\ tw_data = "null" /\ tw_data' = "live" /\ tw_quit' = FALSE /\ tw_thread' = "runs"
      /\ tw_list' = TwWith(w) /\ tw_told' = [tw_told EXCEPT ![w] = "none"]
      /\ UNCHANGED <<tw_locked, tw_call, tw_wrong>>
  BY DEF TwAddFirst, TwCalm
<1>2. /\ DOMAIN tw_list' \subseteq TwWatches /\ DOMAIN tw_list' = DOMAIN tw_list \cup {w}
      /\ tw_told' \in [TwWatches -> {"none", "online", "offline"}]
      /\ \A v \in DOMAIN tw_list' : TwServed(v, tw_list', tw_told')
  BY <1>1, TwWithServes
<1>3. \A d \in TwCallers : tw_call'[d].op # "join" /\ tw_call'[d].op # "remove"
  BY <1>1, TwOpOfIdle DEF TwInv
<1> QED BY <1>1, <1>2, <1>3 DEF TwInv

LEMMA TwAddKeeps == ASSUME TwCalm, TwInv, NEW c \in TwCallers, TwAdd(c) PROVE TwInv'
<1> DEFINE w == tw_call[c].w
<1>1. tw_call[c].op = "add" /\ tw_call[c] \in TwCalls /\ w \in TwWatches /\ tw_call[c] # TwIdle
  BY TwCallIs, TwOpOfIdle DEF TwAdd, TwInv
<1>2. /\ tw_data = "live" /\ tw_thread = "runs" /\ ~tw_quit /\ tw_quit = FALSE
      /\ \A d \in TwCallers : d # c => tw_call[d] = TwIdle
  <2>1. \A d \in TwCallers : d # c => tw_call[d] = TwIdle
    BY <1>1 DEF TwInv
  <2>2. ~ \E d \in TwCallers : tw_call[d] = [op |-> "join"]
    BY <1>1, <2>1, TwOpOfIdle
  <2> QED BY <1>1, <2>1, <2>2 DEF TwInv
<1>3. /\ tw_list' = TwWith(w) /\ tw_told' = [tw_told EXCEPT ![w] = "none"]
      /\ TwSet(c, TwIdle) /\ UNCHANGED <<tw_quit, tw_locked, tw_wrong, tw_data, tw_thread>>
  BY <1>2 DEF TwAdd, TwCalm
<1> HIDE DEF w
<1>4. /\ DOMAIN tw_list' \subseteq TwWatches /\ DOMAIN tw_list' = DOMAIN tw_list \cup {w}
      /\ tw_told' \in [TwWatches -> {"none", "online", "offline"}]
      /\ \A v \in DOMAIN tw_list' : TwServed(v, tw_list', tw_told')
  BY <1>1, <1>3, TwWithServes
<1>5. /\ tw_call' \in [TwCallers -> TwCalls] /\ tw_call'[c] = TwIdle
      /\ \A d \in TwCallers : d # c => tw_call'[d] = TwIdle
      /\ \A d, e \in TwCallers : tw_call'[d] # TwIdle /\ tw_call'[e] # TwIdle => d = e
  BY <1>2, <1>3, TwSets, TwOpOfIdle
<1>6. \A d \in TwCallers : tw_call'[d].op = "idle"
  BY <1>5, TwOpOfIdle
<1>7. tw_quit' \in BOOLEAN /\ tw_wrong' = FALSE /\ tw_locked' = "nobody"
  BY <1>3 DEF TwInv
<1>8. tw_data' = "live" /\ tw_thread' = "runs" /\ ~tw_quit' /\ DOMAIN tw_list' # {}
  BY <1>2, <1>3, <1>4
<1> QED BY <1>4, <1>5, <1>6, <1>7, <1>8 DEF TwInv

LEMMA TwRemoveKeeps == ASSUME TwCalm, TwInv, NEW c \in TwCallers, TwRemove(c) PROVE TwInv'
<1> DEFINE w == tw_call[c].w
<1>1. tw_call[c].op = "remove" /\ tw_call[c] \in TwCalls /\ w \in TwWatches /\ tw_call[c] # TwIdle
  BY TwCallIs, TwOpOfIdle DEF TwRemove, TwInv
<1>2. /\ tw_data = "live" /\ tw_thread = "runs" /\ ~tw_quit /\ tw_quit = FALSE
      /\ \A d \in TwCallers : d # c => tw_call[d] = TwIdle
      /\ w \in DOMAIN tw_list
  <2>1. \A d \in TwCallers : d # c => tw_call[d] = TwIdle
    BY <1>1 DEF TwInv
  <2>2. ~ \E d \in TwCallers : tw_call[d] = [op |-> "join"]
    BY <1>1, <2>1, TwOpOfIdle
  <2> QED BY <1>1, <2>1, <2>2 DEF TwInv
<1> DEFINE last == DOMAIN tw_list' = {}
           call == IF last THEN [op |-> "join"] ELSE TwIdle
<1>3. /\ tw_list' = TwWithout(w) /\ tw_quit' = (tw_quit \/ last) /\ TwSet(c, call)
      /\ UNCHANGED <<tw_locked, tw_told, tw_wrong, tw_data, tw_thread>>
  BY <1>2 DEF TwRemove, TwLast
<1>4. /\ DOMAIN tw_list' = DOMAIN tw_list \ {w}
      /\ \A v \in DOMAIN tw_list' : tw_list'[v] = tw_list[v]
  BY <1>3 DEF TwWithout
<1> HIDE DEF w
<1>5. /\ DOMAIN tw_list' \subseteq TwWatches
      /\ \A v \in DOMAIN tw_list' : TwServed(v, tw_list', tw_told')
  BY <1>3, <1>4 DEF TwInv, TwServed
<1>6. call \in TwCalls
  BY DEF TwCalls
<1>7. /\ tw_call' \in [TwCallers -> TwCalls] /\ tw_call'[c] = call
      /\ \A d \in TwCallers : d # c => tw_call'[d] = TwIdle
      /\ \A d, e \in TwCallers : tw_call'[d] # TwIdle /\ tw_call'[e] # TwIdle => d = e
  BY <1>2, <1>3, <1>6, TwSets
<1>8. tw_wrong' = FALSE /\ tw_locked' = "nobody" /\ tw_told' \in [TwWatches -> {"none", "online", "offline"}]
  BY <1>3 DEF TwInv
<1>9. CASE last
  <2>1. tw_quit' = TRUE /\ tw_call'[c] = [op |-> "join"]
    BY <1>3, <1>7, <1>9
  <2>2. /\ tw_data' = "live" /\ tw_thread' \in {"runs", "ended"} /\ tw_quit' /\ DOMAIN tw_list' = {}
        /\ \E d \in TwCallers : tw_call'[d] = [op |-> "join"]
    BY <1>2, <1>3, <1>9, <2>1
  <2> QED BY <1>5, <1>7, <1>8, <2>1, <2>2 DEF TwInv
<1>10. CASE ~last
  <2>1. tw_quit' = FALSE /\ \A d \in TwCallers : tw_call'[d].op = "idle"
    BY <1>2, <1>3, <1>7, <1>10, TwOpOfIdle
  <2>2. tw_data' = "live" /\ tw_thread' = "runs" /\ DOMAIN tw_list' # {}
    BY <1>2, <1>3, <1>10
  <2> QED BY <1>5, <1>7, <1>8, <2>1, <2>2 DEF TwInv
<1> QED BY <1>9, <1>10

LEMMA TwJoinedKeeps == ASSUME TwInv, NEW c \in TwCallers, TwJoined(c) PROVE TwInv'
<1>1. tw_call[c] = [op |-> "join"] /\ tw_call[c] \in TwCalls /\ tw_call[c] # TwIdle /\ tw_call[c].op = "join"
  <2>1. tw_call[c].op \in {"join", "joinadd"} /\ tw_call[c] \in TwCalls
    BY DEF TwJoined, TwInv
  <2> QED BY <2>1, TwCallIs, TwOpOfIdle
<1>2. tw_data = "live" /\ \A d \in TwCallers : d # c => tw_call[d] = TwIdle
  BY <1>1 DEF TwInv
<1>3. /\ tw_data' = "null" /\ tw_thread' = "none" /\ tw_list' = [w \in {} |-> 0]
      /\ tw_wrong' = FALSE /\ TwSet(c, TwIdle) /\ UNCHANGED <<tw_quit, tw_locked, tw_told>>
  BY <1>1, <1>2 DEF TwJoined, TwInv
<1>4. /\ tw_call' \in [TwCallers -> TwCalls] /\ tw_call'[c] = TwIdle
      /\ \A d \in TwCallers : d # c => tw_call'[d] = TwIdle
      /\ \A d, e \in TwCallers : tw_call'[d] # TwIdle /\ tw_call'[e] # TwIdle => d = e
  BY <1>2, <1>3, TwSets, TwOpOfIdle
<1>5. DOMAIN tw_list' = {} /\ \A d \in TwCallers : tw_call'[d] = TwIdle
  BY <1>3, <1>4
<1>6. tw_quit' \in BOOLEAN /\ tw_locked' = "nobody" /\ tw_told' \in [TwWatches -> {"none", "online", "offline"}]
  BY <1>3 DEF TwInv
<1> QED BY <1>3, <1>4, <1>5, <1>6 DEF TwInv

LEMMA TwPassKeeps == ASSUME TwInv, TwPass PROVE TwInv'
<1>0. PICK answers \in {{}} \cup {{w} : w \in {v \in DOMAIN tw_list : tw_list[v].waiting}} :
         LET heard == [w \in DOMAIN tw_list |->
                         IF w \in answers
                         THEN [TwNotified(tw_list[w], TRUE) EXCEPT !.waiting = FALSE]
                         ELSE tw_list[w]]
             said(w) == IF w \in answers /\ TwTells(tw_list[w], TRUE) THEN "online" ELSE tw_told[w]
         IN \E pass \in [DOMAIN tw_list -> UNION {TwPassed(heard[w]) : w \in DOMAIN tw_list}] :
              /\ \A w \in DOMAIN tw_list : pass[w] \in TwPassed(heard[w])
              /\ tw_list' = [w \in DOMAIN tw_list |-> pass[w].echo]
              /\ tw_told' = [w \in TwWatches |->
                               IF w \notin DOMAIN tw_list THEN tw_told[w]
                               ELSE IF pass[w].tells THEN "offline" ELSE said(w)]
  BY Zenon DEF TwPass
<1> DEFINE TwHears == [w \in DOMAIN tw_list |->
                        IF w \in answers THEN [TwNotified(tw_list[w], TRUE) EXCEPT !.waiting = FALSE]
                        ELSE tw_list[w]]
           TwSays(w) == IF w \in answers /\ TwTells(tw_list[w], TRUE) THEN "online" ELSE tw_told[w]
<1>1. PICK pass :
        /\ \A w \in DOMAIN tw_list : pass[w] \in TwPassed(TwHears[w])
        /\ tw_list' = [w \in DOMAIN tw_list |-> pass[w].echo]
        /\ tw_told' = [w \in TwWatches |->
                          IF w \notin DOMAIN tw_list THEN tw_told[w]
                          ELSE IF pass[w].tells THEN "offline" ELSE TwSays(w)]
  BY <1>0, Zenon
<1>2. /\ tw_thread = "runs" /\ tw_data = "live" /\ ~tw_quit
      /\ UNCHANGED <<tw_data, tw_quit, tw_thread, tw_locked, tw_call, tw_wrong>>
  BY DEF TwPass
<1>3. ASSUME NEW w \in DOMAIN tw_list
      PROVE  TwHears[w] \in TwEcho /\ TwTold(TwHears[w], TwSays(w))
  <2>1. tw_list[w] \in TwEcho /\ TwTold(tw_list[w], tw_told[w])
    BY DEF TwInv, TwServed
  <2>2. CASE w \in answers
    BY <2>1, <2>2, TwHeardRight
  <2>3. CASE w \notin answers
    BY <2>1, <2>3
  <2> QED BY <2>2, <2>3
<1>4. DOMAIN tw_list' = DOMAIN tw_list /\ DOMAIN tw_list \subseteq TwWatches
  BY <1>1 DEF TwInv
<1>5. ASSUME NEW w \in TwWatches PROVE tw_told'[w] \in {"none", "online", "offline"}
  <2>1. tw_told[w] \in {"none", "online", "offline"}
    BY DEF TwInv
  <2> QED BY <1>1, <2>1
<1>6. tw_told' \in [TwWatches -> {"none", "online", "offline"}]
  BY <1>1, <1>5
<1>7. ASSUME NEW w \in DOMAIN tw_list' PROVE TwServed(w, tw_list', tw_told')
  <2>1. w \in DOMAIN tw_list /\ w \in TwWatches
    BY <1>4
  <2>2. tw_list'[w] = pass[w].echo /\ tw_told'[w] = IF pass[w].tells THEN "offline" ELSE TwSays(w)
    BY <1>1, <2>1
  <2>3. TwHears[w] \in TwEcho /\ TwTold(TwHears[w], TwSays(w)) /\ pass[w] \in TwPassed(TwHears[w])
    BY <1>1, <1>3, <2>1
  <2> HIDE DEF TwHears, TwSays
  <2>4. pass[w].echo \in TwEcho /\ TwTold(pass[w].echo, IF pass[w].tells THEN "offline" ELSE TwSays(w))
    BY <2>3, TwPassRight
  <2> QED BY <2>2, <2>4 DEF TwServed
<1>8. DOMAIN tw_list # {} /\ \A c \in TwCallers : /\ tw_call[c].op # "join"
                                                  /\ tw_call[c].op = "remove" => tw_call[c].w \in DOMAIN tw_list
  BY <1>2 DEF TwInv
<1> QED BY <1>2, <1>4, <1>6, <1>7, <1>8 DEF TwInv

LEMMA TwSteps == TwCalm /\ TwInv /\ [TwNext]_twvars => TwInv'
<1> SUFFICES ASSUME TwCalm, TwInv, [TwNext]_twvars PROVE TwInv'
  OBVIOUS
<1>1. ASSUME TwEnds PROVE TwInv'
  BY <1>1 DEF TwEnds, TwInv
<1>2. ASSUME UNCHANGED twvars PROVE TwInv'
  BY <1>2 DEF twvars, TwInv
<1> QED BY <1>1, <1>2, TwFoundKeeps, TwAddFirstKeeps, TwAddKeeps, TwRemoveKeeps, TwJoinedKeeps,
           TwPassKeeps DEF TwNext

LEMMA TwGives == TwInv => WatchIsServed
<1> SUFFICES ASSUME TwInv PROVE WatchIsServed
  OBVIOUS
<1>1. \A c \in TwCallers : tw_call[c].op \in {"idle", "add", "remove", "join", "joinadd"}
  BY TwCallIs DEF TwInv
<1>2. \A w \in DOMAIN tw_list : tw_list[w] \in TwEcho
        /\ tw_told[w] = IF tw_list[w].force THEN "none" ELSE TwStatus(tw_list[w].online)
  BY DEF TwInv, TwServed, TwTold
<1>3. TwTypeOK
  BY <1>1, <1>2 DEF TwInv, TwTypeOK
<1>4. (DOMAIN tw_list # {} => tw_data = "live" /\ tw_thread = "runs" /\ ~tw_quit)
  <2>1. DOMAIN [w \in {} |-> 0] = {}
    OBVIOUS
  <2> QED BY <2>1 DEF TwInv
<1>5. tw_thread = "runs" /\ (\A c \in TwCallers : tw_call[c].op # "join") => DOMAIN tw_list # {}
  BY DEF TwInv
<1> QED BY <1>2, <1>3, <1>4, <1>5 DEF WatchIsServed, TwInv

-----------------------------------------------------------------------------
(* The clock and its alarms.                                               *)

\* No thread is in the module while another one is, alarms are near and not
\* deleted before they were called, and TizenRT's zone leaves the day as it is.
CkCalm == CkUnusual = {}

CkLive == {"get", "set", "date", "second"}

\* A call in progress: what it was given, and when.
CkCallOK(c) ==
    /\ c.kind \in CkLive => c.gmt \in Int /\ c.now \in Int
    /\ c.kind \in {"set", "date"} => c.date \in CkDates /\ DateIsValid(c.date)
    /\ c.kind = "second" => c.second \in Nat
    /\ c.kind \in CkLive \cup {"none"}

CkAlarms == [handle : BOOLEAN, timer : BOOLEAN, due : Int, date_alarm : Int, gmt : Int, wanted : Int]

\* An alarm that is not deleted, or not yet called.
CkAlarmOK(a, clock, ticks) ==
    /\ a \in CkAlarms
    /\ a.timer => a.handle
    /\ a.handle => /\ a.due = (a.date_alarm - clock + ticks) * CkScale
                   /\ a.wanted * CkScale <= a.due

\* The zone is the one of the call in progress, which is the only one and began
\* in the past; the timer of an alarm is due when its date is, and not before
\* what its application asked for; and only Linux has calls and alarms.
CkInv ==
    /\ ck_os \in {"linux", "tizenrt"} /\ ck_clock \in Int /\ ck_ticks \in Int /\ ck_tz \in Int
    /\ \A t \in CkThreads : CkCallOK(ck_calls[t])
    /\ DOMAIN ck_calls = CkThreads
    /\ \A t \in CkThreads : ck_calls[t].kind # "none" =>
          /\ ck_tz = ck_calls[t].gmt /\ ck_calls[t].now <= ck_clock /\ ck_os = "linux"
          /\ \A u \in CkThreads : u # t => ck_calls[u] = CkNoCall
    /\ CkAlarmOK(ck_alarm, ck_clock, ck_ticks)
    /\ ck_alarm.handle => ck_os = "linux"
    /\ ClockIsRight

(* Arithmetic.                                                              *)

\* Dividing by a number that is not known: the quotient and the rest are those
\* that fit.
LEMMA CkDivides ==
    ASSUME NEW n \in Int, NEW h \in Nat \ {0}
    PROVE  n = h * (n \div h) + (n % h) /\ n \div h \in Int /\ n % h \in 0 .. h - 1
OBVIOUS

LEMMA CkQuotient ==
    ASSUME NEW h \in Nat \ {0}, NEW p \in Int, NEW q \in Int, NEW a \in 0 .. h - 1, NEW b \in 0 .. h - 1,
           h * p + a = h * q + b
    PROVE  p = q /\ a = b
<1>1. ASSUME NEW x \in Int, NEW y \in Int, NEW c \in 0 .. h - 1, NEW d \in 0 .. h - 1,
             h * x + c = h * y + d, x > y
      PROVE  FALSE
  <2>1. x - y - 1 \in Nat /\ h * (x - y - 1) >= 0
    BY <1>1
  <2>2. h * (x - y - 1) = h * x - h * y - h
    OBVIOUS
  <2>3. h * x \in Int /\ h * y \in Int
    OBVIOUS
  <2> QED BY <1>1, <2>1, <2>2, <2>3
<1>2. p = q
  BY <1>1
<1> QED BY <1>2

\* Adding what does not lead into another day adds to the hour.
LEMMA CkSameDay ==
    ASSUME NEW n \in Int, NEW h \in Nat \ {0}, NEW g \in Int, (n % h) + g \in 0 .. h - 1
    PROVE  (n + g) \div h = n \div h /\ (n + g) % h = ((n % h) + g) % h
<1>1. n = h * (n \div h) + (n % h) /\ n \div h \in Int /\ n % h \in 0 .. h - 1
  BY CkDivides
<1>2. n + g = h * ((n + g) \div h) + ((n + g) % h) /\ (n + g) \div h \in Int /\ (n + g) % h \in 0 .. h - 1
  <2> DEFINE m == n + g
  <2>1. m \in Int
    OBVIOUS
  <2> HIDE DEF m
  <2>2. m = h * (m \div h) + (m % h) /\ m \div h \in Int /\ m % h \in 0 .. h - 1
    BY <2>1, CkDivides
  <2> QED BY <2>2 DEF m
<1>3. (n + g) \div h = n \div h /\ (n + g) % h = (n % h) + g
  <2> DEFINE p == (n + g) \div h
             q == n \div h
             a == (n + g) % h
             b == (n % h) + g
  <2>1. h * p + a = h * q + b /\ p \in Int /\ q \in Int /\ a \in 0 .. h - 1 /\ b \in 0 .. h - 1
    BY <1>1, <1>2
  <2> HIDE DEF p, q, a, b
  <2>2. p = q /\ a = b
    BY <2>1, CkQuotient
  <2> QED BY <2>2 DEF p, q, a, b
<1>4. ((n % h) + g) % h = (n % h) + g
  <2> DEFINE m == (n % h) + g
  <2>1. m \in 0 .. h - 1
    OBVIOUS
  <2> HIDE DEF m
  <2>2. m = h * (m \div h) + (m % h) /\ m \div h \in Int /\ m % h \in 0 .. h - 1
    BY <2>1, CkDivides
  <2>3. h * (m \div h) + (m % h) = h * 0 + m
    BY <2>1, <2>2
  <2>4. m % h = m
    BY <2>1, <2>2, <2>3, CkQuotient
  <2> QED BY <2>4 DEF m
<1> QED BY <1>3, <1>4

LEMMA CkModulo ==
    ASSUME NEW m \in Nat, NEW h \in Nat \ {0}, m < h
    PROVE  m % h = m
<1>1. m = h * (m \div h) + (m % h) /\ m \div h \in Int /\ m % h \in 0 .. h - 1
  BY CkDivides
<1>2. h * (m \div h) + (m % h) = h * 0 + m
  BY <1>1
<1> QED BY <1>1, <1>2, CkQuotient

\* A date that is valid has a number.
LEMMA CkDateNumber ==
    ASSUME NEW d \in CkDates, DateIsValid(d)
    PROVE  timegm(d) \in Int
<1>1. CkMonths[d.month] \in Nat /\ d.day \in Nat /\ d.hour \in Nat /\ CkHours \in Nat
  BY CkAssumption DEF DateIsValid
<1> QED BY <1>1 DEF timegm

\* The date of the clock, with TizenRT's zone added to the hour, is the date of
\* the clock in that zone.
LEMMA CkZoneAdds ==
    ASSUME NEW n \in Int, NEW gmt \in Int, (n % CkHours) + gmt \in 0 .. CkHours - 1
    PROVE  InZone(gmtime(n), gmt) = localtime(n, gmt)
<1>1. (n + gmt) \div CkHours = n \div CkHours /\ (n + gmt) % CkHours = ((n % CkHours) + gmt) % CkHours
  BY CkSameDay, CkAssumption
<1> DEFINE days == n \div CkHours
           month == CHOOSE m \in DOMAIN CkMonths :
                       /\ CkMonths[m] <= days
                       /\ m < Len(CkMonths) => days < CkMonths[m + 1]
<1>2. gmtime(n) = [month |-> month, day |-> days - CkMonths[month] + 1, hour |-> n % CkHours]
  BY DEF gmtime
<1>3. gmtime(n + gmt) = [month |-> month, day |-> days - CkMonths[month] + 1, hour |-> (n + gmt) % CkHours]
  BY <1>1 DEF gmtime
<1> HIDE DEF days, month
<1> QED BY <1>1, <1>2, <1>3 DEF InZone, localtime

-----------------------------------------------------------------------------
(* The steps.                                                               *)

LEMMA CkStarts == CkInit => CkInv
<1> SUFFICES ASSUME CkInit PROVE CkInv
  OBVIOUS
<1>1. CkCallOK(CkNoCall)
  BY DEF CkCallOK, CkNoCall, CkLive
<1>2. \A t \in CkThreads : ck_calls[t] = CkNoCall
  BY DEF CkInit
<1>3. CkNoCall.kind = "none" /\ NoAlarm \in CkAlarms /\ ~NoAlarm.handle /\ ~NoAlarm.timer
  BY DEF CkNoCall, NoAlarm, CkAlarms
<1>4. ClockIsRight
  BY <1>3 DEF CkInit, ClockIsRight
<1>5. ck_clock \in Int /\ ck_ticks \in Int /\ ck_tz \in Int /\ DOMAIN ck_calls = CkThreads
  BY CkAssumption DEF CkInit
<1> QED BY <1>1, <1>2, <1>3, <1>4, <1>5 DEF CkInit, CkInv, CkAlarmOK

\* Nothing changes but what the application is told, which is right.
LEMMA CkTells ==
    ASSUME CkInv, UNCHANGED <<ck_os, ck_clock, ck_ticks, ck_tz, ck_calls, ck_alarm>>, ClockIsRight'
    PROVE  CkInv'
BY DEF CkInv, CkCallOK

\* A call begins: it sets the zone, and is the only one.
LEMMA CkEnters ==
    ASSUME CkCalm, CkInv, NEW t \in CkThreads, NEW c, CkCallOK(c), c.kind \in CkLive, c.now = ck_clock,
           Entering(t, c)
    PROVE  CkInv'
<1>1. \A u \in CkThreads : ck_calls[u] = CkNoCall
  BY DEF Entering, Alone, CkCalm
<1>2. /\ ck_calls'[t] = c /\ DOMAIN ck_calls' = CkThreads
      /\ \A u \in CkThreads : u # t => ck_calls'[u] = CkNoCall
      /\ ck_tz' = c.gmt /\ ck_told' = CkNoCall /\ ck_os = "linux"
      /\ UNCHANGED <<ck_os, ck_clock, ck_ticks, ck_alarm>>
  BY <1>1 DEF Entering, CkInv
<1>3. CkCallOK(CkNoCall) /\ CkNoCall.kind = "none"
  BY DEF CkCallOK, CkNoCall, CkLive
<1>4. ClockIsRight'
  BY <1>2, <1>3 DEF ClockIsRight
<1>5. c.gmt \in Int /\ c.now <= ck_clock /\ ck_clock \in Int
  BY DEF CkCallOK, CkInv
<1>6. \A u \in CkThreads : CkCallOK(ck_calls'[u])
  BY <1>2, <1>3
<1>7. ASSUME NEW u \in CkThreads, ck_calls'[u].kind # "none"
      PROVE  /\ ck_tz' = ck_calls'[u].gmt /\ ck_calls'[u].now <= ck_clock' /\ ck_os' = "linux"
             /\ \A v \in CkThreads : v # u => ck_calls'[v] = CkNoCall
  <2>1. u = t
    BY <1>2, <1>3, <1>7
  <2> QED BY <1>2, <1>5, <2>1
<1> QED BY <1>2, <1>4, <1>5, <1>6, <1>7 DEF CkInv, CkCallOK

\* A call ends.
LEMMA CkLeaves ==
    ASSUME CkInv, NEW t \in CkThreads, ck_calls[t].kind # "none", Leaves(t)
    PROVE  /\ \A u \in CkThreads : ck_calls'[u] = CkNoCall
           /\ DOMAIN ck_calls' = CkThreads
           /\ UNCHANGED <<ck_os, ck_ticks, ck_tz>>
           /\ ck_tz = ck_calls[t].gmt /\ ck_os = "linux" /\ ck_calls[t].now <= ck_clock
           /\ CkNoCall.kind = "none" /\ CkCallOK(CkNoCall)
<1>1. CkNoCall.kind = "none" /\ CkCallOK(CkNoCall)
  BY DEF CkCallOK, CkNoCall, CkLive
<1> QED BY <1>1 DEF Leaves, CkInv

LEMMA CkEnded ==
    ASSUME CkInv, NEW t \in CkThreads, ck_calls[t].kind # "none", Leaves(t), ck_clock' \in Int,
           CkAlarmOK(ck_alarm', ck_clock', ck_ticks), ClockIsRight'
    PROVE  CkInv'
<1>1. /\ \A u \in CkThreads : ck_calls'[u] = CkNoCall
      /\ DOMAIN ck_calls' = CkThreads
      /\ UNCHANGED <<ck_os, ck_ticks, ck_tz>>
      /\ ck_os = "linux" /\ CkNoCall.kind = "none" /\ CkCallOK(CkNoCall)
  BY CkLeaves
<1> QED BY <1>1 DEF CkInv, CkCallOK, CkAlarmOK

LEMMA CkGetKeeps == ASSUME CkInv, NEW t \in CkThreads, os_time_get_time(t) PROVE CkInv'
<1>1. ck_calls[t].kind = "get" /\ Leaves(t) /\ UNCHANGED <<ck_clock, ck_alarm>>
  BY DEF os_time_get_time
<1>2. ck_tz = ck_calls[t].gmt /\ UNCHANGED ck_ticks
  BY <1>1, CkLeaves
<1>3. ck_told' = [kind |-> "get", gmt |-> ck_calls[t].gmt, now |-> ck_calls[t].now,
                  date |-> localtime(ck_calls[t].now, ck_calls[t].gmt)]
  BY <1>2 DEF os_time_get_time
<1>4. ClockIsRight'
  BY <1>3 DEF ClockIsRight
<1> QED BY <1>1, <1>2, <1>4, CkEnded DEF CkInv

LEMMA CkSetKeeps == ASSUME CkCalm, CkInv, NEW t \in CkThreads, SetsClock(t) PROVE CkInv'
<1>1. ck_calls[t].kind = "set" /\ Leaves(t) /\ UNCHANGED ck_alarm /\ ~ck_alarm.handle
  BY DEF SetsClock, CkCalm
<1>2. ck_tz = ck_calls[t].gmt /\ UNCHANGED ck_ticks
  BY <1>1, CkLeaves
<1> DEFINE d == ck_calls[t].date
           gmt == ck_calls[t].gmt
           sec == mktime(d, gmt)
<1>3. /\ ck_clock' = IF sec < 0 THEN ck_clock ELSE sec
      /\ ck_told' = [kind |-> IF sec < 0 THEN "bad" ELSE "set", gmt |-> gmt, date |-> d]
  BY <1>2 DEF SetsClock
<1>4. sec \in Int
  <2>1. CkCallOK(ck_calls[t])
    BY DEF CkInv
  <2>2. d \in CkDates /\ DateIsValid(d) /\ gmt \in Int
    BY <1>1, <2>1 DEF CkCallOK, CkLive
  <2> QED BY <2>2, CkDateNumber DEF mktime
<1> HIDE DEF d, gmt
<1>5. ClockIsRight'
  BY <1>3 DEF ClockIsRight
<1> HIDE DEF sec
<1>6. ck_clock' \in Int
  BY <1>3, <1>4 DEF CkInv
<1>7. CkAlarmOK(ck_alarm', ck_clock', ck_ticks)
  BY <1>1 DEF CkInv, CkAlarmOK
<1> QED BY <1>1, <1>5, <1>6, <1>7, CkEnded

\* A timer is due after as many milliseconds as the seconds have, if they fit.
LEMMA CkTimerIsDue ==
    ASSUME NEW ticks \in Int, NEW second \in Nat, NEW wanted \in Int, wanted <= ticks + second,
           second * CkScale < CkWord, NEW clock \in Int
    PROVE  LET due == (ticks * CkScale) + ((second * CkScale) % CkWord) IN
           /\ due \in Int
           /\ due = (clock + second - clock + ticks) * CkScale
           /\ wanted * CkScale <= due
<1>1. CkScale \in Nat \ {0} /\ CkWord \in Nat \ {0}
  BY CkAssumption
<1>2. second * CkScale \in Nat
  BY <1>1
<1> DEFINE ms == second * CkScale
<1>3. ms % CkWord = ms
  <2> HIDE DEF ms
  <2> QED BY <1>1, <1>2, CkModulo DEF ms
<1>4. (ticks * CkScale) + ms = (ticks + second) * CkScale
  BY <1>1
<1>5. wanted * CkScale <= (ticks + second) * CkScale
  <2> DEFINE more == ticks + second - wanted
  <2>1. more \in Nat /\ more * CkScale >= 0 /\ (ticks + second) = wanted + more
    BY <1>1
  <2>2. (wanted + more) * CkScale = wanted * CkScale + more * CkScale
    BY <1>1, <2>1
  <2>3. wanted * CkScale \in Int /\ more * CkScale \in Int
    BY <1>1, <2>1
  <2> HIDE DEF more
  <2> QED BY <2>1, <2>2, <2>3
<1>6. clock + second - clock + ticks = ticks + second /\ (ticks + second) * CkScale \in Int
  BY <1>1
<1> QED BY <1>3, <1>4, <1>5, <1>6

LEMMA CkAlarmSets ==
    ASSUME CkCalm, CkInv, NEW t \in CkThreads, ck_calls[t].kind # "none",
           NEW second \in Nat, NEW wanted \in Int, wanted <= ck_ticks + second,
           SetsAlarm(t, second, wanted)
    PROVE  CkInv'
<1> DEFINE due == (ck_ticks * CkScale) + ((second * CkScale) % CkWord)
           gmt == ck_calls[t].gmt
           alarm == [handle |-> TRUE, timer |-> TRUE, due |-> due, date_alarm |-> ck_clock + second,
                     gmt |-> gmt, wanted |-> wanted]
<1>1. /\ second * CkScale < CkWord /\ Leaves(t) /\ UNCHANGED ck_clock
      /\ ck_alarm' = alarm /\ ck_told' = CkNoCall
  BY DEF SetsAlarm, CkCalm
<1>2. ck_clock \in Int /\ ck_ticks \in Int /\ gmt \in Int
  BY DEF CkInv, CkCallOK
<1>3. /\ due \in Int
      /\ due = (ck_clock + second - ck_clock + ck_ticks) * CkScale
      /\ wanted * CkScale <= due
  BY <1>1, <1>2, CkTimerIsDue
<1> HIDE DEF due, gmt
<1>4. CkAlarmOK(alarm, ck_clock, ck_ticks)
  BY <1>2, <1>3 DEF CkAlarmOK, CkAlarms
<1>5. ClockIsRight'
  BY <1>1 DEF ClockIsRight, CkNoCall
<1> HIDE DEF alarm
<1> QED BY <1>1, <1>2, <1>4, <1>5, CkEnded

LEMMA CkSecondsKeep == ASSUME CkCalm, CkInv, NEW t \in CkThreads, AlarmInSeconds(t) PROVE CkInv'
<1> DEFINE s == ck_calls[t].second
<1>1. ck_calls[t].kind = "second" /\ SetsAlarm(t, s, ck_ticks + s)
  BY DEF AlarmInSeconds
<1>2. s \in Nat /\ ck_ticks \in Int
  BY <1>1 DEF CkInv, CkCallOK
<1> HIDE DEF s
<1>3. ck_ticks + s \in Int /\ ck_ticks + s <= ck_ticks + s
  BY <1>2
<1> QED BY <1>1, <1>2, <1>3, CkAlarmSets

LEMMA CkDateKeeps == ASSUME CkCalm, CkInv, NEW t \in CkThreads, AlarmAtDate(t) PROVE CkInv'
<1> DEFINE d == ck_calls[t].date
           gmt == ck_calls[t].gmt
           sec == mktime(d, gmt)
           diff == sec - ck_calls[t].now
           wanted == sec - ck_clock
<1>1. ck_calls[t].kind = "date" /\ CkCallOK(ck_calls[t]) /\ ck_ticks \in Int /\ ck_clock \in Int
  BY DEF AlarmAtDate, CkInv
<1>2. ck_tz = gmt /\ ck_calls[t].now <= ck_clock
  BY <1>1 DEF CkInv
<1>3. \/ /\ sec < 0 /\ ck_told' = [kind |-> "bad", gmt |-> gmt, date |-> d]
         /\ Leaves(t) /\ UNCHANGED <<ck_clock, ck_alarm>>
      \/ diff >= 0 /\ SetsAlarm(t, diff, ck_ticks + wanted)
      \/ ck_told' = [kind |-> "past"] /\ Leaves(t) /\ UNCHANGED <<ck_clock, ck_alarm>>
      \/ ~(diff >= 0) /\ SetsAlarm(t, 0, ck_ticks + wanted)
  BY <1>2 DEF AlarmAtDate
<1>4. sec \in Int /\ ck_calls[t].now \in Int
  <2>1. d \in CkDates /\ DateIsValid(d) /\ gmt \in Int /\ ck_calls[t].now \in Int
    BY <1>1 DEF CkCallOK, CkLive
  <2> QED BY <2>1, CkDateNumber DEF mktime
<1>5. ASSUME sec < 0, ck_told' = [kind |-> "bad", gmt |-> gmt, date |-> d],
             Leaves(t), UNCHANGED <<ck_clock, ck_alarm>>
      PROVE  CkInv'
  <2> HIDE DEF d, gmt
  <2>1. ClockIsRight'
    BY <1>5 DEF ClockIsRight
  <2> QED BY <1>1, <1>5, <2>1, CkEnded DEF CkInv
<1>6. ASSUME ck_told' = [kind |-> "past"], Leaves(t), UNCHANGED <<ck_clock, ck_alarm>> PROVE CkInv'
  <2>1. ClockIsRight'
    BY <1>6 DEF ClockIsRight
  <2> QED BY <1>1, <1>6, <2>1, CkEnded DEF CkInv
<1> HIDE DEF sec
<1>7. ASSUME diff >= 0, SetsAlarm(t, diff, ck_ticks + wanted) PROVE CkInv'
  <2>1. diff \in Nat /\ ck_ticks + wanted \in Int /\ ck_ticks + wanted <= ck_ticks + diff
    BY <1>1, <1>2, <1>4, <1>7
  <2> HIDE DEF diff, wanted
  <2> QED BY <1>1, <1>7, <2>1, CkAlarmSets
<1>8. ASSUME ~(diff >= 0), SetsAlarm(t, 0, ck_ticks + wanted) PROVE CkInv'
  <2>1. ck_ticks + wanted \in Int /\ ck_ticks + wanted <= ck_ticks + 0
    BY <1>1, <1>2, <1>4, <1>8
  <2> HIDE DEF diff, wanted
  <2> QED BY <1>1, <1>8, <2>1, CkAlarmSets
<1> QED BY <1>3, <1>5, <1>6, <1>7, <1>8

LEMMA CkTickKeeps == ASSUME CkInv, Tick PROVE CkInv'
<1>1. /\ ck_clock' = ck_clock + 1 /\ ck_ticks' = ck_ticks + 1 /\ ck_told' = CkNoCall
      /\ UNCHANGED <<ck_os, ck_tz, ck_calls, ck_alarm>>
      /\ ck_clock \in Int /\ ck_ticks \in Int
  BY DEF Tick, CkInv
<1>2. ClockIsRight'
  BY <1>1 DEF ClockIsRight, CkNoCall
<1>3. CkAlarmOK(ck_alarm, ck_clock + 1, ck_ticks + 1)
  <2>1. CkAlarmOK(ck_alarm, ck_clock, ck_ticks)
    BY DEF CkInv
  <2>2. ck_alarm.date_alarm \in Int
    BY <2>1 DEF CkAlarmOK, CkAlarms
  <2>3. ck_alarm.date_alarm - (ck_clock + 1) + (ck_ticks + 1) = ck_alarm.date_alarm - ck_clock + ck_ticks
    BY <1>1, <2>2
  <2> QED BY <2>1, <2>3 DEF CkAlarmOK
<1>4. \A t \in CkThreads : ck_calls[t].kind # "none" => ck_calls[t].now <= ck_clock + 1
  <2>1. \A t \in CkThreads : ck_calls[t].kind # "none" => ck_calls[t].now <= ck_clock /\ ck_calls[t].now \in Int
    BY DEF CkInv, CkCallOK
  <2> QED BY <1>1, <2>1
<1>5. \A t \in CkThreads : CkCallOK(ck_calls'[t])
  BY <1>1 DEF CkInv
<1> QED BY <1>1, <1>2, <1>3, <1>4, <1>5 DEF CkInv

LEMMA CkCalledKeeps == ASSUME CkInv, AlarmIsCalled PROVE CkInv'
<1>1. /\ ck_alarm.timer /\ ck_alarm.handle /\ ck_ticks * CkScale >= ck_alarm.due
      /\ ck_told' = [kind |-> "called", handle |-> ck_alarm.handle, wanted |-> ck_alarm.wanted]
      /\ ck_alarm' = [ck_alarm EXCEPT !.timer = FALSE]
      /\ UNCHANGED <<ck_os, ck_clock, ck_ticks, ck_tz, ck_calls>>
      /\ CkAlarmOK(ck_alarm, ck_clock, ck_ticks) /\ ck_ticks \in Int
  BY DEF AlarmIsCalled, CkInv, CkAlarmOK
<1>2. ck_alarm.wanted \in Int /\ ck_alarm.due \in Int /\ ck_alarm.wanted * CkScale <= ck_alarm.due
  BY <1>1 DEF CkAlarmOK, CkAlarms
<1>3. ck_alarm.wanted <= ck_ticks
  <2> DEFINE w == ck_alarm.wanted
             more == w - ck_ticks - 1
  <2>1. CkScale \in Nat \ {0} /\ ck_ticks * CkScale \in Int /\ w * CkScale \in Int
    BY <1>1, <1>2, CkAssumption
  <2>2. w * CkScale <= ck_ticks * CkScale
    BY <1>1, <1>2, <2>1
  <2>3. ASSUME w > ck_ticks PROVE FALSE
    <3>1. more \in Nat /\ w = ck_ticks + more + 1
      BY <1>1, <1>2, <2>3
    <3>2. more * CkScale >= 0 /\ more * CkScale \in Int
      BY <2>1, <3>1
    <3>3. w * CkScale = ck_ticks * CkScale + more * CkScale + CkScale
      BY <1>1, <2>1, <3>1
    <3> HIDE DEF w, more
    <3> QED BY <2>1, <2>2, <3>2, <3>3
  <2> QED BY <1>1, <1>2, <2>3
<1>4. ClockIsRight'
  BY <1>1, <1>3 DEF ClockIsRight
<1>5. CkAlarmOK(ck_alarm', ck_clock, ck_ticks) /\ ck_alarm'.handle = ck_alarm.handle
  BY <1>1 DEF CkAlarmOK, CkAlarms
<1>6. \A t \in CkThreads : CkCallOK(ck_calls'[t])
  BY <1>1 DEF CkInv
<1> QED BY <1>1, <1>4, <1>5, <1>6 DEF CkInv

LEMMA CkDeleteKeeps == ASSUME CkCalm, CkInv, os_time_delete_alarm PROVE CkInv'
<1>1. /\ ck_alarm' = NoAlarm /\ ck_told' = CkNoCall
      /\ UNCHANGED <<ck_os, ck_clock, ck_ticks, ck_tz, ck_calls>>
  BY DEF os_time_delete_alarm, CkCalm
<1>2. ClockIsRight'
  BY <1>1 DEF ClockIsRight, CkNoCall
<1>3. CkAlarmOK(NoAlarm, ck_clock, ck_ticks) /\ ~NoAlarm.handle
  BY DEF CkAlarmOK, CkAlarms, NoAlarm
<1>4. \A t \in CkThreads : CkCallOK(ck_calls'[t])
  BY <1>1 DEF CkInv
<1> QED BY <1>1, <1>2, <1>3, <1>4 DEF CkInv

LEMMA CkMaximum == ASSUME NEW x \in Int PROVE Max({0, x}) = IF x <= 0 THEN 0 ELSE x
<1> DEFINE m == IF x <= 0 THEN 0 ELSE x
<1>1. m \in {0, x} /\ \A y \in {0, x} : m >= y
  OBVIOUS
<1>2. \A n \in {0, x} : (\A y \in {0, x} : n >= y) => n = m
  OBVIOUS
<1> HIDE DEF m
<1>3. Max({0, x}) = m
  BY <1>1, <1>2 DEF Max
<1> QED BY <1>3 DEF m

LEMMA CkDelayKeeps == ASSUME CkCalm, CkInv, os_time_get_delay_alarm PROVE CkInv'
<1>1. /\ ck_alarm.handle /\ \A t \in CkThreads : ck_calls[t] = CkNoCall
      /\ ck_told' = [kind |-> "delay", value |-> Remaining(ck_alarm.date_alarm, ck_clock)]
      /\ ck_tz' = ck_alarm.gmt
      /\ UNCHANGED <<ck_os, ck_clock, ck_ticks, ck_calls, ck_alarm>>
  BY DEF os_time_get_delay_alarm, Alone, CkCalm
<1>2. /\ ck_alarm.date_alarm \in Int /\ ck_alarm.gmt \in Int /\ ck_clock \in Int /\ ck_ticks \in Int
      /\ ck_alarm.due = (ck_alarm.date_alarm - ck_clock + ck_ticks) * CkScale
  BY <1>1 DEF CkInv, CkAlarmOK, CkAlarms
<1> DEFINE ahead == ck_alarm.date_alarm - ck_clock
<1>3. CkScale \in Nat \ {0} /\ ahead \in Int /\ ahead * CkScale \in Int
  BY <1>2, CkAssumption
<1>4. ck_alarm.due - ck_ticks * CkScale = ahead * CkScale
  BY <1>2, <1>3
<1>5. ahead * CkScale <= 0 <=> ahead <= 0
  <2>1. ASSUME ahead <= 0 PROVE ahead * CkScale <= 0
    BY <1>3, <2>1
  <2>2. ASSUME ahead > 0 PROVE ahead * CkScale > 0
    BY <1>3, <2>2
  <2> HIDE DEF ahead
  <2> QED BY <1>3, <2>1, <2>2
<1>6. Remaining(ck_alarm.date_alarm, ck_clock) = IF ahead <= 0 THEN 0 ELSE ahead * CkScale
  BY <1>2 DEF Remaining
<1>7. Max({0, ahead * CkScale}) = IF ahead * CkScale <= 0 THEN 0 ELSE ahead * CkScale
  BY <1>3, CkMaximum
<1>8. Remaining(ck_alarm.date_alarm, ck_clock) = Max({0, ck_alarm.due - ck_ticks * CkScale})
  <2> HIDE DEF ahead
  <2> QED BY <1>4, <1>5, <1>6, <1>7
<1>9. ClockIsRight'
  BY <1>1, <1>8 DEF ClockIsRight
<1>10. CkNoCall.kind = "none" /\ \A t \in CkThreads : CkCallOK(ck_calls'[t])
  BY <1>1 DEF CkInv, CkNoCall
<1> QED BY <1>1, <1>2, <1>9, <1>10 DEF CkInv

LEMMA CkSyncKeeps == ASSUME CkCalm, CkInv, NEW server \in CkStamps, os_time_sync_ntp(server, 0) PROVE CkInv'
<1>1. /\ ~ck_alarm.handle /\ ck_os = "linux" /\ \A t \in CkThreads : ck_calls[t] = CkNoCall
      /\ ck_clock' = server /\ ck_told' = [kind |-> "ntp", value |-> server]
      /\ UNCHANGED <<ck_os, ck_ticks, ck_tz, ck_calls, ck_alarm>>
  BY DEF os_time_sync_ntp, Alone, CkCalm
<1>2. ClockIsRight'
  BY <1>1 DEF ClockIsRight
<1>3. server \in Int /\ CkNoCall.kind = "none" /\ \A t \in CkThreads : CkCallOK(ck_calls'[t])
  BY <1>1, CkAssumption DEF CkInv, CkNoCall
<1>4. CkAlarmOK(ck_alarm', ck_clock', ck_ticks')
  BY <1>1 DEF CkInv, CkAlarmOK
<1> QED BY <1>1, <1>2, <1>3, <1>4 DEF CkInv

LEMMA CkRtGetKeeps == ASSUME CkCalm, CkInv, NEW gmt \in CkZones, tizenrt_get_time(gmt) PROVE CkInv'
<1>1. /\ (ck_clock % CkHours) + gmt \in 0 .. CkHours - 1 /\ gmt \in Int /\ ck_clock \in Int
      /\ ck_told' = [kind |-> "get", gmt |-> gmt, now |-> ck_clock, date |-> InZone(gmtime(ck_clock), gmt)]
      /\ UNCHANGED <<ck_os, ck_clock, ck_ticks, ck_tz, ck_calls, ck_alarm>>
  BY CkAssumption DEF tizenrt_get_time, CkCalm, CkInv
<1>2. InZone(gmtime(ck_clock), gmt) = localtime(ck_clock, gmt)
  BY <1>1, CkZoneAdds
<1>3. ClockIsRight'
  BY <1>1, <1>2 DEF ClockIsRight
<1> QED BY <1>1, <1>3, CkTells

LEMMA CkRtSetKeeps ==
    ASSUME CkCalm, CkInv, NEW d \in CkDates, NEW gmt \in CkZones, tizenrt_set_time(d, gmt)
    PROVE  CkInv'
<1>1. /\ ck_os = "tizenrt" /\ DateIsValid(d) /\ gmt = 0
      /\ ck_clock' = timegm(d) /\ ck_told' = [kind |-> "set", gmt |-> gmt, date |-> d]
      /\ UNCHANGED <<ck_os, ck_ticks, ck_tz, ck_calls, ck_alarm>>
  BY DEF tizenrt_set_time, CkCalm
<1>2. timegm(d) \in Int
  BY <1>1, CkDateNumber
<1>3. mktime(d, gmt) = timegm(d)
  BY <1>1, <1>2 DEF mktime
<1>4. ClockIsRight'
  BY <1>1, <1>3 DEF ClockIsRight
<1>5. ~ck_alarm.handle /\ \A t \in CkThreads : ck_calls[t].kind = "none" /\ CkCallOK(ck_calls[t])
  BY <1>1 DEF CkInv
<1>6. CkAlarmOK(ck_alarm', ck_clock', ck_ticks')
  BY <1>1, <1>5 DEF CkInv, CkAlarmOK
<1> QED BY <1>1, <1>2, <1>4, <1>5, <1>6 DEF CkInv

LEMMA CkSteps == CkCalm /\ CkInv /\ [CkNext]_ckvars => CkInv'
<1> SUFFICES ASSUME CkCalm, CkInv, [CkNext]_ckvars PROVE CkInv'
  OBVIOUS
<1>1. ASSUME NEW t \in CkThreads, NEW gmt \in CkZones, os_time_get_sys(t, gmt) PROVE CkInv'
  <2> DEFINE c == [kind |-> "get", gmt |-> gmt, now |-> ck_clock]
  <2>1. CkCallOK(c) /\ c.kind \in CkLive /\ c.now = ck_clock
    BY CkAssumption DEF CkCallOK, CkLive, CkInv
  <2>2. Entering(t, c)
    BY <1>1 DEF os_time_get_sys
  <2> HIDE DEF c
  <2> QED BY <2>1, <2>2, CkEnters
<1>2. ASSUME NEW t \in CkThreads, NEW gmt \in CkZones, NEW d \in CkDates, os_time_set_time(t, d, gmt) PROVE CkInv'
  <2> DEFINE c == [kind |-> "set", gmt |-> gmt, date |-> d, now |-> ck_clock]
  <2>1. CkCallOK(c) /\ c.kind \in CkLive /\ c.now = ck_clock
    BY <1>2, CkAssumption DEF CkCallOK, CkLive, CkInv, os_time_set_time
  <2>2. Entering(t, c)
    BY <1>2 DEF os_time_set_time
  <2> HIDE DEF c
  <2> QED BY <2>1, <2>2, CkEnters
<1>3. ASSUME NEW t \in CkThreads, NEW gmt \in CkZones, NEW d \in CkDates, os_time_create_alarm_date(t, d, gmt)
      PROVE  CkInv'
  <2> DEFINE c == [kind |-> "date", gmt |-> gmt, date |-> d, now |-> ck_clock]
  <2>1. CkCallOK(c) /\ c.kind \in CkLive /\ c.now = ck_clock
    BY <1>3, CkAssumption DEF CkCallOK, CkLive, CkInv, os_time_create_alarm_date
  <2>2. Entering(t, c)
    BY <1>3 DEF os_time_create_alarm_date
  <2> HIDE DEF c
  <2> QED BY <2>1, <2>2, CkEnters
<1>4. ASSUME NEW t \in CkThreads, NEW gmt \in CkZones, NEW s \in CkDelays, os_time_create_alarm_second(t, s, gmt)
      PROVE  CkInv'
  <2> DEFINE c == [kind |-> "second", gmt |-> gmt, second |-> s, now |-> ck_clock]
  <2>1. CkCallOK(c) /\ c.kind \in CkLive /\ c.now = ck_clock
    BY <1>4, CkAssumption DEF CkCallOK, CkLive, CkInv, os_time_create_alarm_second
  <2>2. Entering(t, c)
    BY <1>4 DEF os_time_create_alarm_second
  <2> HIDE DEF c
  <2> QED BY <2>1, <2>2, CkEnters
<1>5. ASSUME UNCHANGED ckvars PROVE CkInv'
  <2>1. ClockIsRight'
    BY <1>5 DEF ckvars, CkInv, ClockIsRight, localtime, mktime
  <2> QED BY <1>5, <2>1, CkTells DEF ckvars
<1> QED BY <1>1, <1>2, <1>3, <1>4, <1>5, CkGetKeeps, CkSetKeeps, CkSecondsKeep, CkDateKeeps, CkTickKeeps,
           CkCalledKeeps, CkDeleteKeeps, CkDelayKeeps, CkSyncKeeps, CkRtGetKeeps, CkRtSetKeeps DEF CkNext

-----------------------------------------------------------------------------
(* The configuration of the network.                                       *)

\* No call of the system fails, a configuration is a new one, and each
\* interface has one user at a time.
NcCalm == NcUnusual = {}

NcTexts == STRING \cup {AnyAddr, "class"}
NcNames == NcTexts \ {"none"}
NcIf == [addr : NcNames, mask : NcTexts, gw : NcTexts]
NcRoutes == [dev : Interfaces \cup {"none"}, gw : NcTexts]
NcNets == [ifs : [Interfaces -> NcIf], route : NcRoutes, dns : Seq(NcTexts)]

LEMMA NcAnyIs == AnyAddr \in NcTexts /\ AnyAddr \in NcNames /\ "class" \in NcTexts
<1>1. AnyAddr \in NcTexts /\ "class" \in NcTexts
  BY DEF NcTexts
<1>2. AnyAddr # "none"
  BY DEF AnyAddr
<1> QED BY <1>1, <1>2 DEF NcNames

(* Calls of the system.                                                     *)

LEMMA NcErrorIsNoNet == Error \notin NcNets
<1> SUFFICES ASSUME Error \in NcNets PROVE FALSE
  OBVIOUS
<1>1. DOMAIN Error = {"error"}
  BY DEF Error
<1>2. DOMAIN Error = {"ifs", "route", "dns"}
  BY DEF NcNets
<1> QED BY <1>1, <1>2

\* What a network is that differs from another one in one interface, and has no
\* default route over it.
NcSet(net, i, a, m, g) ==
    [ifs |-> [net.ifs EXCEPT ![i] = [addr |-> a, mask |-> m, gw |-> g]],
     route |-> IF net.route.dev = i THEN NoRoute ELSE net.route, dns |-> net.dns]

LEMMA NcSetIs ==
    ASSUME NEW net \in NcNets, NEW i \in Interfaces, NEW a \in NcNames, NEW m \in NcTexts, NEW g \in NcTexts
    PROVE  LET new == NcSet(net, i, a, m, g) IN
           /\ new \in NcNets
           /\ new.ifs[i] = [addr |-> a, mask |-> m, gw |-> g]
           /\ \A j \in Interfaces : j # i => new.ifs[j] = net.ifs[j]
           /\ new.dns = net.dns
           /\ new.route = IF net.route.dev = i THEN NoRoute ELSE net.route
           /\ new.route.dev # i
<1>1. NoRoute \in NcRoutes /\ NoRoute.dev = "none" /\ i # "none"
  <2>1. AnyAddr \in NcTexts
    BY NcAnyIs
  <2>2. NoRoute.dev = "none" /\ i # "none"
    BY DEF NoRoute, Interfaces
  <2>3. NoRoute \in NcRoutes
    BY <2>1 DEF NoRoute, NcRoutes
  <2> QED BY <2>2, <2>3
<1>2. [addr |-> a, mask |-> m, gw |-> g] \in NcIf
  BY DEF NcIf
<1> DEFINE r == [addr |-> a, mask |-> m, gw |-> g]
           route == IF net.route.dev = i THEN NoRoute ELSE net.route
           new == NcSet(net, i, a, m, g)
<1>3. /\ net.ifs \in [Interfaces -> NcIf] /\ net.route \in NcRoutes /\ net.dns \in Seq(NcTexts)
  BY DEF NcNets
<1>4. new = [ifs |-> [net.ifs EXCEPT ![i] = r], route |-> route, dns |-> net.dns]
  BY DEF NcSet
<1>5. r \in NcIf /\ route \in NcRoutes /\ route.dev # i
  BY <1>1, <1>2, <1>3
<1> HIDE DEF r, route, new
<1>6. /\ new.ifs = [net.ifs EXCEPT ![i] = r] /\ new.route = route /\ new.dns = net.dns
      /\ new \in NcNets
  BY <1>3, <1>4, <1>5 DEF NcNets
<1>7. new.ifs[i] = r /\ \A j \in Interfaces : j # i => new.ifs[j] = net.ifs[j]
  BY <1>3, <1>6
<1> QED BY <1>5, <1>6, <1>7 DEF r, route, new

LEMMA NcChangedIs ==
    ASSUME NEW net \in NcNets, NEW i \in Interfaces, NEW a, NEW m, NEW g
    PROVE  Changed(net, i, [addr |-> a, mask |-> m, gw |-> g]) = NcSet(net, i, a, m, g)
<1> DEFINE r == [addr |-> a, mask |-> m, gw |-> g]
           one == [net EXCEPT !.ifs[i] = r]
           route == IF net.route.dev = i THEN NoRoute ELSE net.route
<1>1. Changed(net, i, r) = [one EXCEPT !.route = route]
  BY Zenon DEF Changed, Unrouted
<1>2. one = [ifs |-> [net.ifs EXCEPT ![i] = r], route |-> net.route, dns |-> net.dns]
  BY DEF NcNets
<1> HIDE DEF r, one, route
<1>3. [one EXCEPT !.route = route] = [ifs |-> [net.ifs EXCEPT ![i] = r], route |-> route, dns |-> net.dns]
  BY <1>2
<1> QED BY <1>1, <1>3 DEF NcSet, r, route

\* The calls on Linux.
LEMMA NcLinuxCalls ==
    ASSUME NEW net \in NcNets, NEW i \in Interfaces
    PROVE  /\ \A a \in NcNames : a # AnyAddr =>
                 LET new == Call("linux", net, i, Op("addr", a)) IN
                 IF net.ifs[i].addr = a THEN new = net ELSE new = NcSet(net, i, a, "class", a)
           /\ net.ifs[i].addr # AnyAddr => \A m \in NcTexts :
                 LET new == Call("linux", net, i, Op("mask", m)) IN
                 IF net.ifs[i].mask = m THEN new = net
                 ELSE new = NcSet(net, i, net.ifs[i].addr, m, net.ifs[i].gw)
           /\ net.ifs[i].addr # AnyAddr => \A g \in NcTexts :
                 LET new == Call("linux", net, i, Op("router", g)) IN
                 IF net.ifs[i].gw = g THEN new = net
                 ELSE new = NcSet(net, i, net.ifs[i].addr, net.ifs[i].mask, g)
<1> DEFINE old == net.ifs[i]
<1>1. ASSUME NEW a \in NcNames, a # AnyAddr
      PROVE  LET new == Call("linux", net, i, Op("addr", a)) IN
             IF old.addr = a THEN new = net ELSE new = NcSet(net, i, a, "class", a)
  <2>1. Call("linux", net, i, Op("addr", a)) = set_ipv4addr("linux", net, i, a)
    BY DEF Call, Op
  <2>2. set_ipv4addr("linux", net, i, a)
          = IF old.addr = a THEN net ELSE Changed(net, i, [addr |-> a, mask |-> "class", gw |-> a])
    BY <1>1 DEF set_ipv4addr
  <2> HIDE DEF old
  <2> QED BY <2>1, <2>2, NcChangedIs
<1>2. old = [addr |-> old.addr, mask |-> old.mask, gw |-> old.gw]
  BY DEF NcNets, NcIf
<1>3. ASSUME NEW m \in NcTexts, old.addr # AnyAddr
      PROVE  LET new == Call("linux", net, i, Op("mask", m)) IN
             IF old.mask = m THEN new = net ELSE new = NcSet(net, i, old.addr, m, old.gw)
  <2>1. Call("linux", net, i, Op("mask", m)) = SetOf("linux", net, i, [old EXCEPT !.mask = m])
    BY DEF Call, Op, set_ipv4netmask
  <2>2. SetOf("linux", net, i, [old EXCEPT !.mask = m]) = IF old = [old EXCEPT !.mask = m] THEN net ELSE Changed(net, i, [old EXCEPT !.mask = m])
    BY <1>3 DEF SetOf
  <2> HIDE DEF old
  <2>3. [old EXCEPT !.mask = m] = [addr |-> old.addr, mask |-> m, gw |-> old.gw]
    BY <1>2
  <2>4. old = [addr |-> old.addr, mask |-> m, gw |-> old.gw] <=> old.mask = m
    <3>1. ASSUME old = [addr |-> old.addr, mask |-> m, gw |-> old.gw] PROVE old.mask = m
      BY <3>1
    <3>2. ASSUME old.mask = m PROVE old = [addr |-> old.addr, mask |-> m, gw |-> old.gw]
      BY <3>2, <1>2
    <3> QED BY <3>1, <3>2
  <2> QED BY <2>1, <2>2, <2>3, <2>4, NcChangedIs
<1>4. ASSUME NEW g \in NcTexts, old.addr # AnyAddr
      PROVE  LET new == Call("linux", net, i, Op("router", g)) IN
             IF old.gw = g THEN new = net ELSE new = NcSet(net, i, old.addr, old.mask, g)
  <2>1. Call("linux", net, i, Op("router", g)) = SetOf("linux", net, i, [old EXCEPT !.gw = g])
    BY DEF Call, Op, set_dripv4addr
  <2>2. SetOf("linux", net, i, [old EXCEPT !.gw = g]) = IF old = [old EXCEPT !.gw = g] THEN net ELSE Changed(net, i, [old EXCEPT !.gw = g])
    BY <1>4 DEF SetOf
  <2> HIDE DEF old
  <2>3. [old EXCEPT !.gw = g] = [addr |-> old.addr, mask |-> old.mask, gw |-> g]
    BY <1>2
  <2>4. old = [addr |-> old.addr, mask |-> old.mask, gw |-> g] <=> old.gw = g
    <3>1. ASSUME old = [addr |-> old.addr, mask |-> old.mask, gw |-> g] PROVE old.gw = g
      BY <3>1
    <3>2. ASSUME old.gw = g PROVE old = [addr |-> old.addr, mask |-> old.mask, gw |-> g]
      BY <3>2, <1>2
    <3> QED BY <3>1, <3>2
  <2> QED BY <2>1, <2>2, <2>3, <2>4, NcChangedIs
<1> QED BY <1>1, <1>3, <1>4

\* A call of several, the n-th: it is left out, or does not fail.
NcDoes(os, i, calls, n, before, after) ==
    IF n > Len(calls) \/ calls[n].arg = "" THEN after = before
    ELSE Call(os, before, i, calls[n]) = after /\ after # Error

LEMMA NcDone ==
    ASSUME NEW ok, NEW before, NEW after
    PROVE  [[ok |-> ok, net |-> before] EXCEPT !.net = after] = [ok |-> ok, net |-> after]
BY SMT

LEMMA NcMade ==
    ASSUME NEW os, NEW i, NEW calls, NEW n \in Nat \ {0}, NEW before, NEW after,
           NcDoes(os, i, calls, n, before, after)
    PROVE  Made(os, i, calls, 0, n, [ok |-> TRUE, net |-> before]) = [ok |-> TRUE, net |-> after]
<1> DEFINE done == [ok |-> TRUE, net |-> before]
<1>1. done.ok /\ done.net = before
  OBVIOUS
<1>2. n # 0
  OBVIOUS
<1>3. [done EXCEPT !.net = after] = [ok |-> TRUE, net |-> after]
  BY NcDone, Zenon
<1> HIDE DEF done
<1>4. CASE n > Len(calls) \/ calls[n].arg = ""
  <2>1. Made(os, i, calls, 0, n, done) = done
    BY <1>4, Zenon DEF Made
  <2>2. after = before
    BY <1>4 DEF NcDoes
  <2> QED BY <2>1, <2>2 DEF done
<1>5. CASE ~ (n > Len(calls) \/ calls[n].arg = "")
  <2>1. Call(os, done.net, i, calls[n]) = after /\ after # Error
    BY <1>1, <1>5 DEF NcDoes
  <2>2. Made(os, i, calls, 0, n, done) = [done EXCEPT !.net = after]
    BY <1>1, <1>2, <1>5, <2>1, Zenon DEF Made
  <2> QED BY <1>3, <2>2 DEF done
<1> QED BY <1>4, <1>5 DEF done

LEMMA NcCalls ==
    ASSUME NEW os, NEW i, NEW calls, NEW n0, NEW n1, NEW n2, NEW n3, NEW n4, NEW n5, NEW n6,
           NcDoes(os, i, calls, 1, n0, n1), NcDoes(os, i, calls, 2, n1, n2), NcDoes(os, i, calls, 3, n2, n3),
           NcDoes(os, i, calls, 4, n3, n4), NcDoes(os, i, calls, 5, n4, n5), NcDoes(os, i, calls, 6, n5, n6)
    PROVE  Calls(os, n0, i, calls, 0) = [ok |-> TRUE, net |-> n6]
<1> DEFINE D(net) == [ok |-> TRUE, net |-> net]
           Then(n, done) == Made(os, i, calls, 0, n, done)
<1>1. /\ Then(1, D(n0)) = D(n1) /\ Then(2, D(n1)) = D(n2) /\ Then(3, D(n2)) = D(n3)
      /\ Then(4, D(n3)) = D(n4) /\ Then(5, D(n4)) = D(n5) /\ Then(6, D(n5)) = D(n6)
  BY NcMade
<1>2. Calls(os, n0, i, calls, 0) = Then(6, Then(5, Then(4, Then(3, Then(2, Then(1, D(n0)))))))
  BY Zenon DEF Calls
<1> HIDE DEF Then, D
<1>3. Calls(os, n0, i, calls, 0) = D(n6)
  BY <1>1, <1>2
<1> QED BY <1>3 DEF D

\* The calls that are about the route and the name servers.
LEMMA NcRouteCalls ==
    ASSUME NEW net \in NcNets, NEW i \in Interfaces, NEW a \in NcTexts
    PROVE  /\ net.route = NoRoute =>
                 LET new == Call("linux", net, i, Op("route", a)) IN
                 new \in NcNets /\ new.ifs = net.ifs /\ new.route = [dev |-> i, gw |-> a] /\ new.dns = net.dns
           /\ LET new == Call("linux", net, i, Op("flush", a)) IN
              new \in NcNets /\ new.ifs = net.ifs /\ new.route = Unrouted(net, i) /\ new.dns = net.dns
           /\ LET new == Call("linux", net, i, Op("dns", a)) IN
              new \in NcNets /\ new.ifs = net.ifs /\ new.route = net.route /\ new.dns = <<a>>
           /\ LET new == Call("linux", net, i, Op("more", a)) IN
              new \in NcNets /\ new.ifs = net.ifs /\ new.route = net.route /\ new.dns = Append(net.dns, a)
<1>0. /\ net.ifs \in [Interfaces -> NcIf] /\ net.route \in NcRoutes /\ net.dns \in Seq(NcTexts)
      /\ net = [ifs |-> net.ifs, route |-> net.route, dns |-> net.dns]
  BY DEF NcNets
<1>1. [dev |-> i, gw |-> a] \in NcRoutes
  BY DEF NcRoutes
<1>2. NoRoute \in NcRoutes
  BY NcAnyIs DEF NoRoute, NcRoutes
<1>3. Unrouted(net, i) \in NcRoutes
  BY <1>0, <1>2 DEF Unrouted
<1>4. ASSUME NEW r \in NcRoutes
      PROVE  LET new == [net EXCEPT !.route = r] IN
             new \in NcNets /\ new.ifs = net.ifs /\ new.route = r /\ new.dns = net.dns
  BY <1>0 DEF NcNets
<1>5. ASSUME NEW d \in Seq(NcTexts)
      PROVE  LET new == [net EXCEPT !.dns = d] IN
             new \in NcNets /\ new.ifs = net.ifs /\ new.route = net.route /\ new.dns = d
  BY <1>0 DEF NcNets
<1>6. ASSUME net.route = NoRoute
      PROVE  Call("linux", net, i, Op("route", a)) = [net EXCEPT !.route = [dev |-> i, gw |-> a]]
  BY <1>6 DEF Call, Op, set_defaultroute
<1>7. Call("linux", net, i, Op("flush", a)) = [net EXCEPT !.route = Unrouted(net, i)]
  BY DEF Call, Op, del_allroutes_interface
<1>8. Call("linux", net, i, Op("dns", a)) = [net EXCEPT !.dns = <<a>>]
  BY DEF Call, Op, dns_add_nameserver
<1>9. Call("linux", net, i, Op("more", a)) = [net EXCEPT !.dns = Append(net.dns, a)]
  BY DEF Call, Op, dns_add_nameserver
<1>10. <<a>> \in Seq(NcTexts) /\ Append(net.dns, a) \in Seq(NcTexts)
  BY <1>0
<1>11. net.route = NoRoute =>
          LET new == Call("linux", net, i, Op("route", a)) IN
          new \in NcNets /\ new.ifs = net.ifs /\ new.route = [dev |-> i, gw |-> a] /\ new.dns = net.dns
  BY <1>1, <1>4, <1>6, Zenon
<1>12. LET new == Call("linux", net, i, Op("flush", a)) IN
       new \in NcNets /\ new.ifs = net.ifs /\ new.route = Unrouted(net, i) /\ new.dns = net.dns
  <2>1. LET new == [net EXCEPT !.route = Unrouted(net, i)] IN
        new \in NcNets /\ new.ifs = net.ifs /\ new.route = Unrouted(net, i) /\ new.dns = net.dns
    BY <1>3, <1>4
  <2> QED BY <1>7, <2>1, Zenon
<1>13. LET new == Call("linux", net, i, Op("dns", a)) IN
       new \in NcNets /\ new.ifs = net.ifs /\ new.route = net.route /\ new.dns = <<a>>
  BY <1>10, <1>5, <1>8, Zenon
<1>14. LET new == Call("linux", net, i, Op("more", a)) IN
       new \in NcNets /\ new.ifs = net.ifs /\ new.route = net.route /\ new.dns = Append(net.dns, a)
  BY <1>10, <1>5, <1>9, Zenon
<1> QED BY <1>11, <1>12, <1>13, <1>14, Zenon

\* What becomes of a network when one interface is set: the others and the name
\* servers stay, and a default route over it goes, if it changes at all.
NcAlike(net, i, new) ==
    /\ new \in NcNets /\ new.dns = net.dns
    /\ \A j \in Interfaces : j # i => new.ifs[j] = net.ifs[j]
    /\ new = net \/ new.route = Unrouted(net, i)

LEMMA NcSetNew ==
    ASSUME NEW one, one \in NcNets, NEW i \in Interfaces, NEW a \in NcNames, NEW m \in NcTexts, NEW g \in NcTexts,
           NEW new, new = NcSet(one, i, a, m, g)
    PROVE  /\ new \in NcNets /\ new.dns = one.dns
           /\ \A j \in Interfaces : j # i => new.ifs[j] = one.ifs[j]
           /\ new.route = IF one.route.dev = i THEN NoRoute ELSE one.route
<1> DEFINE r == [addr |-> a, mask |-> m, gw |-> g]
<1>1. /\ one.ifs \in [Interfaces -> NcIf] /\ one.route \in NcRoutes /\ one.dns \in Seq(NcTexts)
  BY DEF NcNets
<1>2. r \in NcIf /\ NoRoute \in NcRoutes
  BY NcAnyIs DEF NcIf, NoRoute, NcRoutes
<1> HIDE DEF r
<1>3. [one.ifs EXCEPT ![i] = r] \in [Interfaces -> NcIf]
  BY <1>1, <1>2
<1>4. new = [ifs |-> [one.ifs EXCEPT ![i] = r],
             route |-> IF one.route.dev = i THEN NoRoute ELSE one.route, dns |-> one.dns]
  BY Zenon DEF NcSet, r
<1>5. /\ new.ifs = [one.ifs EXCEPT ![i] = r] /\ new.dns = one.dns
      /\ new.route = IF one.route.dev = i THEN NoRoute ELSE one.route
  BY <1>4
<1>6. new \in NcNets
  BY <1>1, <1>2, <1>3, <1>4 DEF NcNets
<1> QED BY <1>1, <1>5, <1>6

LEMMA NcAlikeSet ==
    ASSUME NEW net \in NcNets, NEW i \in Interfaces, NEW one, NcAlike(net, i, one),
           NEW a \in NcNames, NEW m \in NcTexts, NEW g \in NcTexts, NEW new,
           new = one \/ new = NcSet(one, i, a, m, g)
    PROVE  NcAlike(net, i, new)
<1>1. CASE new = one
  BY <1>1
<1>2. CASE new = NcSet(one, i, a, m, g)
  <2>1. one \in NcNets /\ one.dns = net.dns /\ \A j \in Interfaces : j # i => one.ifs[j] = net.ifs[j]
    BY DEF NcAlike
  <2>2. /\ new \in NcNets /\ new.dns = one.dns
        /\ \A j \in Interfaces : j # i => new.ifs[j] = one.ifs[j]
        /\ new.route = IF one.route.dev = i THEN NoRoute ELSE one.route
    BY <1>2, <2>1, NcSetNew
  <2>3. NoRoute.dev # i
    BY DEF NoRoute, Interfaces
  <2>4. new.route = Unrouted(net, i)
    <3>1. CASE one = net
      BY <2>2, <3>1 DEF Unrouted
    <3>2. CASE one.route = Unrouted(net, i)
      BY <2>2, <2>3, <3>2 DEF Unrouted
    <3> QED BY <3>1, <3>2 DEF NcAlike
  <2> QED BY <2>1, <2>2, <2>4 DEF NcAlike
<1> QED BY <1>1, <1>2

\* Address, mask and router on Linux.
LEMMA NcLinuxSet ==
    ASSUME NEW net \in NcNets, NEW i \in Interfaces,
           NEW a \in NcNames, a # AnyAddr, NEW m \in NcTexts, NEW g \in NcTexts
    PROVE  LET n1 == Call("linux", net, i, Op("addr", a))
               n2 == Call("linux", n1, i, Op("mask", m))
               n3 == Call("linux", n2, i, Op("router", g)) IN
           /\ n1 \in NcNets /\ n2 \in NcNets
           /\ NcAlike(net, i, n3) /\ n3.ifs[i] = [addr |-> a, mask |-> m, gw |-> g]
<1> DEFINE n1 == Call("linux", net, i, Op("addr", a))
           n2 == Call("linux", n1, i, Op("mask", m))
           n3 == Call("linux", n2, i, Op("router", g))
<1>0. NcAlike(net, i, net)
  BY DEF NcAlike
<1>1. NcAlike(net, i, n1) /\ n1.ifs[i].addr = a
  <2>1. IF net.ifs[i].addr = a THEN n1 = net ELSE n1 = NcSet(net, i, a, "class", a)
    BY NcLinuxCalls
  <2> HIDE DEF n1
  <2>2. a \in NcTexts
    BY DEF NcNames
  <2>3. net.ifs[i].addr # a => n1.ifs[i] = [addr |-> a, mask |-> "class", gw |-> a]
    BY <2>1, <2>2, NcAnyIs, NcSetIs
  <2>4. NcAlike(net, i, n1)
    BY <1>0, <2>1, <2>2, NcAnyIs, NcAlikeSet
  <2> QED BY <2>1, <2>3, <2>4
<1> HIDE DEF n1
<1>2. NcAlike(net, i, n2) /\ n2.ifs[i].addr = a /\ n2.ifs[i].mask = m
  <2>1. n1 \in NcNets
    BY <1>1 DEF NcAlike
  <2>2. IF n1.ifs[i].mask = m THEN n2 = n1 ELSE n2 = NcSet(n1, i, a, m, n1.ifs[i].gw)
    BY <1>1, <2>1, NcLinuxCalls
  <2>3. n1.ifs[i].gw \in NcTexts
    BY <2>1 DEF NcNets, NcIf
  <2> HIDE DEF n2
  <2>4. n1.ifs[i].mask # m => n2.ifs[i] = [addr |-> a, mask |-> m, gw |-> n1.ifs[i].gw]
    BY <2>1, <2>2, <2>3, NcSetIs
  <2>5. NcAlike(net, i, n2)
    BY <1>1, <2>2, <2>3, NcAlikeSet
  <2> QED BY <1>1, <2>2, <2>4, <2>5
<1> HIDE DEF n2
<1>3. NcAlike(net, i, n3) /\ n3.ifs[i] = [addr |-> a, mask |-> m, gw |-> g]
  <2>1. n2 \in NcNets
    BY <1>2 DEF NcAlike
  <2>2. IF n2.ifs[i].gw = g THEN n3 = n2 ELSE n3 = NcSet(n2, i, a, m, g)
    BY <1>2, <2>1, NcLinuxCalls
  <2> HIDE DEF n3
  <2>3. n2.ifs[i].gw # g => n3.ifs[i] = [addr |-> a, mask |-> m, gw |-> g]
    BY <2>1, <2>2, NcSetIs
  <2>4. NcAlike(net, i, n3)
    BY <1>2, <2>2, NcAlikeSet
  <2>5. n2.ifs[i] = [addr |-> n2.ifs[i].addr, mask |-> n2.ifs[i].mask, gw |-> n2.ifs[i].gw]
    BY <2>1 DEF NcNets, NcIf
  <2> QED BY <1>2, <2>2, <2>3, <2>4, <2>5
<1>4. n1 \in NcNets /\ n2 \in NcNets
  BY <1>1, <1>2 DEF NcAlike
<1> QED BY <1>3, <1>4 DEF n1, n2

\* The calls on TizenRT, which leave the route alone.
NcPut(net, i, a, m, g) ==
    [ifs |-> [net.ifs EXCEPT ![i] = [addr |-> a, mask |-> m, gw |-> g]], route |-> net.route, dns |-> net.dns]

LEMMA NcPutIs ==
    ASSUME NEW one, one \in NcNets, NEW i \in Interfaces, NEW a \in NcNames, NEW m \in NcTexts, NEW g \in NcTexts,
           NEW new, new = NcPut(one, i, a, m, g)
    PROVE  /\ new \in NcNets /\ new.dns = one.dns /\ new.route = one.route
           /\ new.ifs[i] = [addr |-> a, mask |-> m, gw |-> g]
           /\ \A j \in Interfaces : j # i => new.ifs[j] = one.ifs[j]
<1> DEFINE r == [addr |-> a, mask |-> m, gw |-> g]
<1>1. /\ one.ifs \in [Interfaces -> NcIf] /\ one.route \in NcRoutes /\ one.dns \in Seq(NcTexts)
  BY DEF NcNets
<1>2. r \in NcIf
  BY DEF NcIf
<1> HIDE DEF r
<1>3. [one.ifs EXCEPT ![i] = r] \in [Interfaces -> NcIf]
  BY <1>1, <1>2
<1>4. new = [ifs |-> [one.ifs EXCEPT ![i] = r], route |-> one.route, dns |-> one.dns]
  BY Zenon DEF NcPut, r
<1>5. new.ifs = [one.ifs EXCEPT ![i] = r] /\ new.dns = one.dns /\ new.route = one.route
  BY <1>4
<1>6. new \in NcNets
  BY <1>1, <1>3, <1>4 DEF NcNets
<1>7. new.ifs[i] = r /\ \A j \in Interfaces : j # i => new.ifs[j] = one.ifs[j]
  BY <1>1, <1>5
<1> QED BY <1>5, <1>6, <1>7 DEF r

LEMMA NcTizenRtCalls ==
    ASSUME NEW net \in NcNets, NEW i \in Interfaces, NEW x
    PROVE  LET old == net.ifs[i] IN
           /\ Call("tizenrt", net, i, Op("addr", x)) = NcPut(net, i, x, old.mask, old.gw)
           /\ Call("tizenrt", net, i, Op("mask", x)) = NcPut(net, i, old.addr, x, old.gw)
           /\ Call("tizenrt", net, i, Op("router", x)) = NcPut(net, i, old.addr, old.mask, x)
<1> DEFINE old == net.ifs[i]
           put(r) == [ifs |-> [net.ifs EXCEPT ![i] = r], route |-> net.route, dns |-> net.dns]
<1>1. old = [addr |-> old.addr, mask |-> old.mask, gw |-> old.gw]
  BY DEF NcNets, NcIf
<1>2. ASSUME NEW r PROVE [net EXCEPT !.ifs[i] = r] = put(r)
  BY DEF NcNets
<1>3. [net EXCEPT !.ifs[i].addr = x] = [net EXCEPT !.ifs[i] = [old EXCEPT !.addr = x]]
  BY DEF NcNets
<1>4. Call("tizenrt", net, i, Op("addr", x)) = [net EXCEPT !.ifs[i].addr = x]
  BY DEF Call, Op, set_ipv4addr
<1>5. Call("tizenrt", net, i, Op("mask", x)) = [net EXCEPT !.ifs[i] = [old EXCEPT !.mask = x]]
  BY DEF Call, Op, set_ipv4netmask, SetOf
<1>6. Call("tizenrt", net, i, Op("router", x)) = [net EXCEPT !.ifs[i] = [old EXCEPT !.gw = x]]
  BY DEF Call, Op, set_dripv4addr, SetOf
<1> HIDE DEF old
<1>7. /\ [old EXCEPT !.addr = x] = [addr |-> x, mask |-> old.mask, gw |-> old.gw]
      /\ [old EXCEPT !.mask = x] = [addr |-> old.addr, mask |-> x, gw |-> old.gw]
      /\ [old EXCEPT !.gw = x] = [addr |-> old.addr, mask |-> old.mask, gw |-> x]
  BY <1>1
<1>8. /\ Call("tizenrt", net, i, Op("addr", x)) = put([addr |-> x, mask |-> old.mask, gw |-> old.gw])
      /\ Call("tizenrt", net, i, Op("mask", x)) = put([addr |-> old.addr, mask |-> x, gw |-> old.gw])
      /\ Call("tizenrt", net, i, Op("router", x)) = put([addr |-> old.addr, mask |-> old.mask, gw |-> x])
  BY <1>2, <1>3, <1>4, <1>5, <1>6, <1>7
<1> QED BY <1>8, Zenon DEF NcPut, old

\* Address, router and mask on TizenRT, in the two orders in which they are set.
NcOnly(net, i, a, m, g, new) ==
    /\ new \in NcNets /\ new.dns = net.dns /\ new.route = net.route
    /\ new.ifs[i] = [addr |-> a, mask |-> m, gw |-> g]
    /\ \A j \in Interfaces : j # i => new.ifs[j] = net.ifs[j]

LEMMA NcOnlyPut ==
    ASSUME NEW net \in NcNets, NEW i \in Interfaces, NEW one, one \in NcNets,
           one = net \/ \E a, m, g : NcOnly(net, i, a, m, g, one),
           NEW b \in NcNames, NEW n \in NcTexts, NEW h \in NcTexts, NEW new, new = NcPut(one, i, b, n, h)
    PROVE  NcOnly(net, i, b, n, h, new)
<1>1. /\ new \in NcNets /\ new.dns = one.dns /\ new.route = one.route
      /\ new.ifs[i] = [addr |-> b, mask |-> n, gw |-> h]
      /\ \A j \in Interfaces : j # i => new.ifs[j] = one.ifs[j]
  BY NcPutIs
<1>2. one.dns = net.dns /\ one.route = net.route /\ \A j \in Interfaces : j # i => one.ifs[j] = net.ifs[j]
  BY DEF NcOnly
<1> QED BY <1>1, <1>2 DEF NcOnly

LEMMA NcTizenRtSet ==
    ASSUME NEW net \in NcNets, NEW i \in Interfaces, NEW a \in NcNames, NEW m \in NcTexts, NEW g \in NcTexts
    PROVE  LET n1 == Call("tizenrt", net, i, Op("addr", a))
               m2 == Call("tizenrt", n1, i, Op("mask", m))
               m3 == Call("tizenrt", m2, i, Op("router", g))
               r2 == Call("tizenrt", n1, i, Op("router", g))
               r3 == Call("tizenrt", r2, i, Op("mask", m)) IN
           /\ n1 \in NcNets /\ m2 \in NcNets /\ r2 \in NcNets
           /\ NcOnly(net, i, a, m, g, m3) /\ NcOnly(net, i, a, m, g, r3)
<1> DEFINE n1 == Call("tizenrt", net, i, Op("addr", a))
           m2 == Call("tizenrt", n1, i, Op("mask", m))
           m3 == Call("tizenrt", m2, i, Op("router", g))
           r2 == Call("tizenrt", n1, i, Op("router", g))
           r3 == Call("tizenrt", r2, i, Op("mask", m))
           old == net.ifs[i]
<1>0. old.mask \in NcTexts /\ old.gw \in NcTexts
  BY DEF NcNets, NcIf
<1>1. n1 = NcPut(net, i, a, old.mask, old.gw)
  BY NcTizenRtCalls
<1> HIDE DEF n1, old
<1>2. NcOnly(net, i, a, old.mask, old.gw, n1)
  BY <1>0, <1>1, NcOnlyPut
<1>3. n1 \in NcNets /\ n1.ifs[i].addr = a /\ n1.ifs[i].mask = old.mask /\ n1.ifs[i].gw = old.gw
  BY <1>2 DEF NcOnly
<1>4. m2 = NcPut(n1, i, a, m, old.gw) /\ r2 = NcPut(n1, i, a, old.mask, g)
  BY <1>3, NcTizenRtCalls
<1> HIDE DEF m2, r2
<1>5. NcOnly(net, i, a, m, old.gw, m2)
  BY <1>0, <1>2, <1>3, <1>4, NcOnlyPut
<1>6. NcOnly(net, i, a, old.mask, g, r2)
  BY <1>0, <1>2, <1>3, <1>4, NcOnlyPut
<1>7. /\ m2 \in NcNets /\ m2.ifs[i].addr = a /\ m2.ifs[i].mask = m
      /\ r2 \in NcNets /\ r2.ifs[i].addr = a /\ r2.ifs[i].gw = g
  BY <1>5, <1>6 DEF NcOnly
<1>8. m3 = NcPut(m2, i, a, m, g) /\ r3 = NcPut(r2, i, a, m, g)
  BY <1>7, NcTizenRtCalls
<1> HIDE DEF m3, r3
<1>9. NcOnly(net, i, a, m, g, m3)
  BY <1>5, <1>7, <1>8, NcOnlyPut
<1>10. NcOnly(net, i, a, m, g, r3)
  BY <1>6, <1>7, <1>8, NcOnlyPut
<1> QED BY <1>3, <1>7, <1>9, <1>10 DEF n1, m2, m3, r2, r3

\* A table of two name servers is filled from its beginning.
LEMMA NcTable ==
    ASSUME NEW net \in NcNets, DOMAIN net.dns = 1 .. 2, NEW a \in NcTexts, NEW b \in NcTexts, a # AnyAddr,
           NEW first \in {"dns", "more"}, NEW then \in {"dns", "more"},
           \A n \in 1 .. 2 : net.dns[n] = AnyAddr, NEW i
    PROVE  LET n1 == Call("tizenrt", net, i, Op(first, a))
               n2 == Call("tizenrt", n1, i, Op(then, b)) IN
           /\ n1 \in NcNets /\ n2 \in NcNets
           /\ n2.ifs = net.ifs /\ n2.route = net.route
           /\ DOMAIN n2.dns = 1 .. 2 /\ n2.dns[1] = a /\ n2.dns[2] = b
<1> DEFINE n1 == AddToTable(net, a)
           n2 == AddToTable(n1, b)
<1>1. \A one, x : /\ Call("tizenrt", one, i, Op(first, x)) = AddToTable(one, x)
                  /\ Call("tizenrt", one, i, Op(then, x)) = AddToTable(one, x)
  BY DEF Call, Op
<1>2. ASSUME NEW one \in NcNets, DOMAIN one.dns = 1 .. 2, NEW x \in NcTexts, NEW k \in 1 .. 2,
             one.dns[k] = AnyAddr, \A n \in 1 .. 2 : n < k => one.dns[n] # AnyAddr
      PROVE  LET new == AddToTable(one, x) IN
             /\ new \in NcNets /\ new.ifs = one.ifs /\ new.route = one.route
             /\ DOMAIN new.dns = 1 .. 2 /\ new.dns[k] = x
             /\ \A n \in 1 .. 2 : n # k => new.dns[n] = one.dns[n]
  <2> DEFINE free == {n \in DOMAIN one.dns : one.dns[n] = AnyAddr}
             least == CHOOSE n \in free : \A m \in free : n <= m
  <2>1. k \in free /\ \A m \in free : k <= m
    BY <1>2
  <2>2. \A n \in free : (\A m \in free : n <= m) => n = k
    BY <2>1, <1>2
  <2>3. least \in free /\ \A m \in free : least <= m
    BY <2>1, Zenon
  <2>4. least = k
    BY <2>2, <2>3
  <2>5. AddToTable(one, x) = [one EXCEPT !.dns[k] = x]
    <3>1. free # {}
      BY <2>1
    <3>2. AddToTable(one, x) = IF free = {} THEN Error ELSE [one EXCEPT !.dns[least] = x]
      BY Zenon DEF AddToTable
    <3> QED BY <2>4, <3>1, <3>2
  <2> DEFINE d == [one.dns EXCEPT ![k] = x]
  <2>6. one.ifs \in [Interfaces -> NcIf] /\ one.route \in NcRoutes /\ one.dns \in Seq(NcTexts)
        /\ one = [ifs |-> one.ifs, route |-> one.route, dns |-> one.dns]
    BY DEF NcNets
  <2>7. d \in Seq(NcTexts) /\ DOMAIN d = 1 .. 2 /\ d[k] = x /\ \A n \in 1 .. 2 : n # k => d[n] = one.dns[n]
    BY <1>2, <2>6
  <2>8. AddToTable(one, x) = [ifs |-> one.ifs, route |-> one.route, dns |-> d]
    BY <2>5, <2>6
  <2> HIDE DEF d
  <2>9. [ifs |-> one.ifs, route |-> one.route, dns |-> d] \in NcNets
    BY <2>6, <2>7 DEF NcNets
  <2> QED BY <2>7, <2>8, <2>9
<1>3. /\ n1 \in NcNets /\ n1.ifs = net.ifs /\ n1.route = net.route
      /\ DOMAIN n1.dns = 1 .. 2 /\ n1.dns[1] = a /\ n1.dns[2] = AnyAddr
  BY <1>2
<1> HIDE DEF n1
<1>4. /\ n2 \in NcNets /\ n2.ifs = n1.ifs /\ n2.route = n1.route
      /\ DOMAIN n2.dns = 1 .. 2 /\ n2.dns[2] = b /\ n2.dns[1] = n1.dns[1]
  BY <1>2, <1>3
<1> HIDE DEF n2
<1>5. n1 = Call("tizenrt", net, i, Op(first, a)) /\ n2 = Call("tizenrt", n1, i, Op(then, b))
  BY <1>1, Zenon DEF n1, n2
<1> QED BY <1>3, <1>4, <1>5

\* What a network has of a configuration: the addresses of the interface, and
\* on either platform the name servers.
NcHas(net, i, c) == net.ifs[i] = [addr |-> c.addr, mask |-> c.mask, gw |-> c.gw]

NcLinuxNames(net, c) == net.dns = IF c.dns[2] = "" THEN <<c.dns[1]>> ELSE Append(<<c.dns[1]>>, c.dns[2])

NcTizenRtNames(net, c) == net.dns[1] = c.dns[1] /\ net.dns[2] = c.dns[2]

\* A configuration of the application.
LEMMA NcConfigIs ==
    ASSUME NEW c \in NcConfigs
    PROVE  /\ c.addr \in NcNames /\ c.addr # AnyAddr /\ c.mask \in NcTexts /\ c.gw \in NcTexts
           /\ c.mask # AnyAddr /\ c.gw # AnyAddr
           /\ c.dns \in [1 .. 2 -> NcTexts] /\ c.dns[1] # AnyAddr /\ c.dns[2] # AnyAddr
           /\ c # NoServer
<1>1. c \in [addr : Addresses, mask : Addresses, gw : Addresses, dns : [1 .. MaxDns -> Addresses], start : STRING]
  BY NcAssumption
<1>2. c.addr \in Addresses /\ c.mask \in Addresses /\ c.gw \in Addresses /\ c.dns \in [1 .. 2 -> Addresses]
  BY <1>1 DEF MaxDns
<1>3. \A x \in Addresses : x \in NcTexts /\ x \in NcNames /\ x # AnyAddr
  BY DEF Addresses, NcTexts, NcNames
<1>4. c # NoServer
  <2>1. "mask" \in DOMAIN c
    BY <1>1
  <2>2. DOMAIN NoServer = {"addr"}
    BY DEF NoServer
  <2> QED BY <2>1, <2>2
<1>5. c.dns[1] \in Addresses /\ c.dns[2] \in Addresses /\ c.dns \in [1 .. 2 -> NcTexts]
  BY <1>2, <1>3
<1> QED BY <1>2, <1>3, <1>4, <1>5

LEMMA NcOpArg ==
    ASSUME NEW op, NEW arg, NEW call, call = Op(op, arg)
    PROVE  call.arg = arg
BY DEF Op

LEMMA NcDoesOne ==
    ASSUME NEW os, NEW i, NEW calls, NEW n, NEW before, NEW after,
           ~ n > Len(calls), calls[n].arg # "", Call(os, before, i, calls[n]) = after, after \in NcNets
    PROVE  NcDoes(os, i, calls, n, before, after)
<1>1. after # Error
  BY NcErrorIsNoNet
<1> QED BY <1>1, Zenon DEF NcDoes

\* There is no default route, or it is over an interface that gets another
\* configuration.
NcMaySet(net, i, c) ==
    net.route # NoRoute => net.route.dev = i /\ [addr |-> c.addr, mask |-> c.mask, gw |-> c.gw] # net.ifs[i]

\* What set_network_config leaves on Linux.
LEMMA NcLinuxSetConfig ==
    ASSUME NEW net \in NcNets, NEW i \in Interfaces, NEW c \in NcConfigs, Accepted("linux", i, c),
           NcMaySet(net, i, c)
    PROVE  \E new : /\ linux_set_network_config(net, i, c, 0) = [ok |-> TRUE, net |-> new]
                    /\ new \in NcNets
                    /\ NcHas(new, i, c) /\ NcLinuxNames(new, c)
                    /\ \A j \in Interfaces : j # i => new.ifs[j] = net.ifs[j]
                    /\ new.route = [dev |-> i, gw |-> c.gw]
<1>0. c.addr # "" /\ c.mask # "" /\ c.gw # "" /\ c.dns[1] # ""
  BY DEF Accepted, check_network_config
<1> DEFINE calls == <<Op("addr", c.addr), Op("mask", c.mask), Op("router", c.gw), Op("route", c.gw),
                      Op("dns", c.dns[1]), Op("more", c.dns[2])>>
           n1 == Call("linux", net, i, Op("addr", c.addr))
           n2 == Call("linux", n1, i, Op("mask", c.mask))
           n3 == Call("linux", n2, i, Op("router", c.gw))
           n4 == Call("linux", n3, i, Op("route", c.gw))
           n5 == Call("linux", n4, i, Op("dns", c.dns[1]))
           n6 == IF c.dns[2] = "" THEN n5 ELSE Call("linux", n5, i, Op("more", c.dns[2]))
<1>1. /\ Len(calls) = 6 /\ calls[1] = Op("addr", c.addr) /\ calls[2] = Op("mask", c.mask)
      /\ calls[3] = Op("router", c.gw) /\ calls[4] = Op("route", c.gw)
      /\ calls[5] = Op("dns", c.dns[1]) /\ calls[6] = Op("more", c.dns[2])
  OBVIOUS
<1>2. linux_set_network_config(net, i, c, 0) = Calls("linux", net, i, calls, 0)
  BY Zenon DEF linux_set_network_config
<1> HIDE DEF calls
<1>1a. /\ calls[1].arg = c.addr /\ calls[2].arg = c.mask /\ calls[3].arg = c.gw /\ calls[4].arg = c.gw
       /\ calls[5].arg = c.dns[1] /\ calls[6].arg = c.dns[2]
  <2>1. calls[1].arg = c.addr
    BY <1>1, NcOpArg
  <2>2. calls[2].arg = c.mask
    BY <1>1, NcOpArg
  <2>3. calls[3].arg = c.gw /\ calls[4].arg = c.gw
    BY <1>1, NcOpArg
  <2>4. calls[5].arg = c.dns[1]
    BY <1>1, NcOpArg
  <2>5. calls[6].arg = c.dns[2]
    BY <1>1, NcOpArg
  <2> QED BY <2>1, <2>2, <2>3, <2>4, <2>5
<1>1b. /\ ~ 1 > Len(calls) /\ ~ 2 > Len(calls) /\ ~ 3 > Len(calls)
       /\ ~ 4 > Len(calls) /\ ~ 5 > Len(calls) /\ ~ 6 > Len(calls)
  <2>1. Len(calls) = 6
    BY <1>1
  <2> QED BY <2>1
<1>3. /\ n1 \in NcNets /\ n2 \in NcNets
      /\ NcAlike(net, i, n3) /\ n3.ifs[i] = [addr |-> c.addr, mask |-> c.mask, gw |-> c.gw]
  BY NcConfigIs, NcLinuxSet
<1> HIDE DEF n3
<1>4. /\ n3 \in NcNets /\ n3.dns = net.dns /\ \A j \in Interfaces : j # i => n3.ifs[j] = net.ifs[j]
      /\ n3.route = NoRoute
  <2>1. CASE n3 = net
    BY <1>3, <2>1 DEF NcAlike, NcMaySet
  <2>2. CASE n3.route = Unrouted(net, i)
    BY <1>3, <2>2 DEF NcAlike, NcMaySet, Unrouted
  <2> QED BY <1>3, <2>1, <2>2 DEF NcAlike
<1>5. n4 \in NcNets /\ n4.ifs = n3.ifs /\ n4.route = [dev |-> i, gw |-> c.gw] /\ n4.dns = n3.dns
  BY <1>4, NcConfigIs, NcRouteCalls
<1> HIDE DEF n4
<1>6. c.dns[1] \in NcTexts /\ c.dns[2] \in NcTexts
  BY NcConfigIs
<1>7. n5 \in NcNets /\ n5.ifs = n4.ifs /\ n5.route = n4.route /\ n5.dns = <<c.dns[1]>>
  BY <1>5, <1>6, NcRouteCalls
<1> HIDE DEF n5
<1>8. /\ n6 \in NcNets /\ n6.ifs = n5.ifs /\ n6.route = n5.route
      /\ n6.dns = IF c.dns[2] = "" THEN <<c.dns[1]>> ELSE Append(<<c.dns[1]>>, c.dns[2])
  <2>1. CASE c.dns[2] = ""
    BY <1>7, <2>1
  <2>2. CASE c.dns[2] # ""
    <3> DEFINE new == Call("linux", n5, i, Op("more", c.dns[2]))
    <3>1. n6 = new
      BY <2>2, Zenon
    <3>2. new \in NcNets /\ new.ifs = n5.ifs /\ new.route = n5.route /\ new.dns = Append(n5.dns, c.dns[2])
      BY <1>6, <1>7, NcRouteCalls
    <3> HIDE DEF new, n6
    <3> QED BY <1>7, <2>2, <3>1, <3>2
  <2> QED BY <2>1, <2>2
<1>9. NcDoes("linux", i, calls, 6, n5, n6)
  <2>1. CASE c.dns[2] = ""
    <3>1. n6 = n5
      BY <2>1, Zenon
    <3>2. calls[6].arg = ""
      BY <1>1a, <2>1, Zenon
    <3> QED BY <3>1, <3>2, Zenon DEF NcDoes
  <2>2. CASE c.dns[2] # ""
    <3>1. n6 = Call("linux", n5, i, Op("more", c.dns[2]))
      BY <2>2, Zenon
    <3> HIDE DEF n6
    <3>2. calls[6].arg # "" /\ ~ 6 > Len(calls)
      BY <1>1a, <1>1b, <2>2
    <3> QED BY <1>1, <1>8, <3>1, <3>2, NcDoesOne
  <2> QED BY <2>1, <2>2
<1> HIDE DEF n6
<1>10. /\ NcDoes("linux", i, calls, 1, net, n1) /\ NcDoes("linux", i, calls, 2, n1, n2)
       /\ NcDoes("linux", i, calls, 3, n2, n3) /\ NcDoes("linux", i, calls, 4, n3, n4)
       /\ NcDoes("linux", i, calls, 5, n4, n5)
  <2>0. /\ calls[1].arg # "" /\ calls[2].arg # "" /\ calls[3].arg # "" /\ calls[4].arg # "" /\ calls[5].arg # ""
        /\ ~ 1 > Len(calls) /\ ~ 2 > Len(calls) /\ ~ 3 > Len(calls) /\ ~ 4 > Len(calls) /\ ~ 5 > Len(calls)
    BY <1>0, <1>1a, <1>1b
  <2>1. NcDoes("linux", i, calls, 1, net, n1)
    BY <1>1, <1>3, <2>0, NcDoesOne
  <2>2. NcDoes("linux", i, calls, 2, n1, n2)
    BY <1>1, <1>3, <2>0, NcDoesOne
  <2>3. NcDoes("linux", i, calls, 3, n2, n3)
    BY <1>1, <1>4, <2>0, NcDoesOne DEF n3
  <2>4. NcDoes("linux", i, calls, 4, n3, n4)
    BY <1>1, <1>5, <2>0, NcDoesOne DEF n4
  <2>5. NcDoes("linux", i, calls, 5, n4, n5)
    BY <1>1, <1>7, <2>0, NcDoesOne DEF n5
  <2> QED BY <2>1, <2>2, <2>3, <2>4, <2>5
<1>11. Calls("linux", net, i, calls, 0) = [ok |-> TRUE, net |-> n6]
  BY <1>9, <1>10, NcCalls
<1>12. /\ n6 \in NcNets
       /\ n6.ifs[i] = [addr |-> c.addr, mask |-> c.mask, gw |-> c.gw]
       /\ \A j \in Interfaces : j # i => n6.ifs[j] = net.ifs[j]
       /\ n6.route = [dev |-> i, gw |-> c.gw]
       /\ n6.dns = IF c.dns[2] = "" THEN <<c.dns[1]>> ELSE Append(<<c.dns[1]>>, c.dns[2])
  BY <1>3, <1>4, <1>5, <1>7, <1>8, Zenon
<1>13. NcHas(n6, i, c) /\ NcLinuxNames(n6, c)
  BY <1>12, Zenon DEF NcHas, NcLinuxNames
<1> QED BY <1>2, <1>11, <1>12, <1>13, Zenon

\* What a DHCP server's start leaves on Linux.
NcServerCalls(c) == <<Op("flush", AnyAddr), Op("addr", c.addr), Op("mask", c.mask),
                      Op("router", c.gw), Op("route", AnyAddr)>>

LEMMA NcServerStarts ==
    ASSUME NEW net \in NcNets, NEW i \in Interfaces, NEW c \in NcConfigs, check_dhcp_server_config(c),
           Unrouted(net, i) = NoRoute,
           NEW done, done = Calls("linux", net, i, NcServerCalls(c), 0)
    PROVE  \E new : /\ done = [ok |-> TRUE, net |-> new]
                    /\ new \in NcNets /\ NcHas(new, i, c)
                    /\ \A j \in Interfaces : j # i => new.ifs[j] = net.ifs[j]
                    /\ new.route = [dev |-> i, gw |-> AnyAddr]
<1>0. c.addr # "" /\ c.mask # "" /\ c.gw # "" /\ AnyAddr # ""
  BY DEF check_dhcp_server_config, check_network_config, AnyAddr
<1> DEFINE calls == <<Op("flush", AnyAddr), Op("addr", c.addr), Op("mask", c.mask),
                      Op("router", c.gw), Op("route", AnyAddr)>>
           n1 == Call("linux", net, i, Op("flush", AnyAddr))
           n2 == Call("linux", n1, i, Op("addr", c.addr))
           n3 == Call("linux", n2, i, Op("mask", c.mask))
           n4 == Call("linux", n3, i, Op("router", c.gw))
           n5 == Call("linux", n4, i, Op("route", AnyAddr))
<1>1. /\ Len(calls) = 5 /\ calls[1] = Op("flush", AnyAddr) /\ calls[2] = Op("addr", c.addr)
      /\ calls[3] = Op("mask", c.mask) /\ calls[4] = Op("router", c.gw) /\ calls[5] = Op("route", AnyAddr)
  OBVIOUS
<1> HIDE DEF calls
<1>2. /\ calls[1].arg = AnyAddr /\ calls[2].arg = c.addr /\ calls[3].arg = c.mask
      /\ calls[4].arg = c.gw /\ calls[5].arg = AnyAddr
  <2>1. calls[1].arg = AnyAddr /\ calls[5].arg = AnyAddr
    BY <1>1, NcOpArg
  <2>2. calls[2].arg = c.addr
    BY <1>1, NcOpArg
  <2>3. calls[3].arg = c.mask
    BY <1>1, NcOpArg
  <2>4. calls[4].arg = c.gw
    BY <1>1, NcOpArg
  <2> QED BY <2>1, <2>2, <2>3, <2>4
<1>3. /\ ~ 1 > Len(calls) /\ ~ 2 > Len(calls) /\ ~ 3 > Len(calls) /\ ~ 4 > Len(calls) /\ ~ 5 > Len(calls)
      /\ 6 > Len(calls)
  <2>1. Len(calls) = 5
    BY <1>1
  <2> QED BY <2>1
<1>4. n1 \in NcNets /\ n1.ifs = net.ifs /\ n1.route = NoRoute
  BY NcAnyIs, NcRouteCalls
<1> HIDE DEF n1
<1>5. /\ n2 \in NcNets /\ n3 \in NcNets
      /\ NcAlike(n1, i, n4) /\ n4.ifs[i] = [addr |-> c.addr, mask |-> c.mask, gw |-> c.gw]
  BY <1>4, NcConfigIs, NcLinuxSet
<1> HIDE DEF n4
<1>6. n4 \in NcNets /\ n4.route = NoRoute /\ \A j \in Interfaces : j # i => n4.ifs[j] = net.ifs[j]
  BY <1>4, <1>5 DEF NcAlike, Unrouted
<1>7. n5 \in NcNets /\ n5.ifs = n4.ifs /\ n5.route = [dev |-> i, gw |-> AnyAddr]
  BY <1>6, NcAnyIs, NcRouteCalls
<1> HIDE DEF n5
<1>8. /\ calls[1].arg # "" /\ calls[2].arg # "" /\ calls[3].arg # "" /\ calls[4].arg # "" /\ calls[5].arg # ""
  BY <1>0, <1>2
<1>9. NcDoes("linux", i, calls, 1, net, n1)
  BY <1>1, <1>3, <1>4, <1>8, NcDoesOne DEF n1
<1>10. NcDoes("linux", i, calls, 2, n1, n2)
  BY <1>1, <1>3, <1>5, <1>8, NcDoesOne
<1>11. NcDoes("linux", i, calls, 3, n2, n3)
  BY <1>1, <1>3, <1>5, <1>8, NcDoesOne
<1>12. NcDoes("linux", i, calls, 4, n3, n4)
  BY <1>1, <1>3, <1>6, <1>8, NcDoesOne DEF n4
<1>13. NcDoes("linux", i, calls, 5, n4, n5)
  BY <1>1, <1>3, <1>7, <1>8, NcDoesOne DEF n5
<1>14. NcDoes("linux", i, calls, 6, n5, n5)
  BY <1>3, Zenon DEF NcDoes
<1>15. Calls("linux", net, i, calls, 0) = [ok |-> TRUE, net |-> n5]
  BY <1>9, <1>10, <1>11, <1>12, <1>13, <1>14, NcCalls
<1>16. NcHas(n5, i, c)
  BY <1>5, <1>7, Zenon DEF NcHas
<1>17. done = [ok |-> TRUE, net |-> n5]
  BY <1>15, Zenon DEF calls, NcServerCalls
<1>18. \A j \in Interfaces : j # i => n5.ifs[j] = net.ifs[j]
  BY <1>6, <1>7, Zenon
<1> QED BY <1>7, <1>16, <1>17, <1>18, Zenon

\* And its stop, for an interface that has an address: everything is off.
LEMMA NcServerStops ==
    ASSUME NEW net \in NcNets, NEW i \in Interfaces, Unrouted(net, i) = NoRoute, net.ifs[i].addr # AnyAddr
    PROVE  \E new : /\ Calls("linux", net, i, <<Op("flush", AnyAddr), Op("route", AnyAddr), Op("addr", AnyAddr)>>, 0)
                         = [ok |-> TRUE, net |-> new]
                    /\ new \in NcNets
                    /\ \A j \in Interfaces : j # i => new.ifs[j] = net.ifs[j]
                    /\ new.route = NoRoute
<1> DEFINE calls == <<Op("flush", AnyAddr), Op("route", AnyAddr), Op("addr", AnyAddr)>>
           n1 == Call("linux", net, i, Op("flush", AnyAddr))
           n2 == Call("linux", n1, i, Op("route", AnyAddr))
           n3 == Call("linux", n2, i, Op("addr", AnyAddr))
<1>1. /\ Len(calls) = 3 /\ calls[1] = Op("flush", AnyAddr) /\ calls[2] = Op("route", AnyAddr)
      /\ calls[3] = Op("addr", AnyAddr)
  OBVIOUS
<1> HIDE DEF calls
<1>2. calls[1].arg # "" /\ calls[2].arg # "" /\ calls[3].arg # ""
  <2>1. calls[1].arg = AnyAddr /\ calls[2].arg = AnyAddr /\ calls[3].arg = AnyAddr
    BY <1>1, NcOpArg
  <2>2. AnyAddr # ""
    BY DEF AnyAddr
  <2> QED BY <2>1, <2>2
<1>3. /\ ~ 1 > Len(calls) /\ ~ 2 > Len(calls) /\ ~ 3 > Len(calls) /\ 4 > Len(calls) /\ 5 > Len(calls)
      /\ 6 > Len(calls)
  <2>1. Len(calls) = 3
    BY <1>1
  <2> QED BY <2>1
<1>4. n1 \in NcNets /\ n1.ifs = net.ifs /\ n1.route = NoRoute
  BY NcAnyIs, NcRouteCalls
<1> HIDE DEF n1
<1>5. n2 \in NcNets /\ n2.ifs = net.ifs /\ n2.route = [dev |-> i, gw |-> AnyAddr]
  BY <1>4, NcAnyIs, NcRouteCalls
<1> HIDE DEF n2
<1>6. /\ n3 \in NcNets /\ n3.route = NoRoute
      /\ \A j \in Interfaces : j # i => n3.ifs[j] = net.ifs[j]
  <2>1. n3 = set_ipv4addr("linux", n2, i, AnyAddr)
    BY DEF Call, Op
  <2>2. n2.ifs[i].addr # AnyAddr
    BY <1>5
  <2>3. n3 = Changed(n2, i, Off)
    BY <2>1, <2>2 DEF set_ipv4addr
  <2>4. n3 = NcSet(n2, i, AnyAddr, AnyAddr, AnyAddr)
    BY <1>5, <2>3, NcChangedIs DEF Off
  <2> HIDE DEF n3
  <2>5. /\ n3 \in NcNets /\ \A j \in Interfaces : j # i => n3.ifs[j] = n2.ifs[j]
        /\ n3.route = IF n2.route.dev = i THEN NoRoute ELSE n2.route
    BY <1>5, <2>4, NcAnyIs, NcSetNew
  <2> QED BY <1>5, <2>5
<1> HIDE DEF n3
<1>7. NcDoes("linux", i, calls, 1, net, n1)
  BY <1>1, <1>2, <1>3, <1>4, NcDoesOne DEF n1
<1>8. NcDoes("linux", i, calls, 2, n1, n2)
  BY <1>1, <1>2, <1>3, <1>5, NcDoesOne DEF n2
<1>9. NcDoes("linux", i, calls, 3, n2, n3)
  BY <1>1, <1>2, <1>3, <1>6, NcDoesOne DEF n3
<1>10. /\ NcDoes("linux", i, calls, 4, n3, n3) /\ NcDoes("linux", i, calls, 5, n3, n3)
       /\ NcDoes("linux", i, calls, 6, n3, n3)
  BY <1>3, Zenon DEF NcDoes
<1>11. Calls("linux", net, i, calls, 0) = [ok |-> TRUE, net |-> n3]
  BY <1>7, <1>8, <1>9, <1>10, NcCalls
<1> QED BY <1>6, <1>11 DEF calls

\* The addresses that TizenRT's client sets.
NcGiven(l) == l.addr # "" /\ l.mask # "" /\ l.gw # ""

LEMMA NcAddressed ==
    ASSUME NEW net \in NcNets, NEW i \in Interfaces, NEW l \in NcIf, NcGiven(l)
    PROVE  NcOnly(net, i, l.addr, l.mask, l.gw, Addressed(net, i, l))
<1>0. l.addr \in NcNames /\ l.mask \in NcTexts /\ l.gw \in NcTexts
  BY DEF NcIf
<1> DEFINE calls == <<Op("addr", l.addr), Op("mask", l.mask), Op("router", l.gw)>>
           n1 == Call("tizenrt", net, i, Op("addr", l.addr))
           n2 == Call("tizenrt", n1, i, Op("mask", l.mask))
           n3 == Call("tizenrt", n2, i, Op("router", l.gw))
<1>1. /\ Len(calls) = 3 /\ calls[1] = Op("addr", l.addr) /\ calls[2] = Op("mask", l.mask)
      /\ calls[3] = Op("router", l.gw)
  OBVIOUS
<1> HIDE DEF calls
<1>2. calls[1].arg # "" /\ calls[2].arg # "" /\ calls[3].arg # ""
  <2>1. calls[1].arg = l.addr
    BY <1>1, NcOpArg
  <2>2. calls[2].arg = l.mask
    BY <1>1, NcOpArg
  <2>3. calls[3].arg = l.gw
    BY <1>1, NcOpArg
  <2> QED BY <2>1, <2>2, <2>3 DEF NcGiven
<1>3. /\ ~ 1 > Len(calls) /\ ~ 2 > Len(calls) /\ ~ 3 > Len(calls) /\ 4 > Len(calls) /\ 5 > Len(calls)
      /\ 6 > Len(calls)
  <2>1. Len(calls) = 3
    BY <1>1
  <2> QED BY <2>1
<1>4. n1 \in NcNets /\ n2 \in NcNets /\ NcOnly(net, i, l.addr, l.mask, l.gw, n3)
  BY <1>0, NcTizenRtSet
<1>5. n3 \in NcNets
  BY <1>4 DEF NcOnly
<1>6. /\ NcDoes("tizenrt", i, calls, 1, net, n1) /\ NcDoes("tizenrt", i, calls, 2, n1, n2)
      /\ NcDoes("tizenrt", i, calls, 3, n2, n3)
  <2>1. NcDoes("tizenrt", i, calls, 1, net, n1)
    BY <1>1, <1>2, <1>3, <1>4, NcDoesOne
  <2>2. NcDoes("tizenrt", i, calls, 2, n1, n2)
    BY <1>1, <1>2, <1>3, <1>4, NcDoesOne
  <2>3. NcDoes("tizenrt", i, calls, 3, n2, n3)
    BY <1>1, <1>2, <1>3, <1>5, NcDoesOne
  <2> QED BY <2>1, <2>2, <2>3
<1>7. /\ NcDoes("tizenrt", i, calls, 4, n3, n3) /\ NcDoes("tizenrt", i, calls, 5, n3, n3)
      /\ NcDoes("tizenrt", i, calls, 6, n3, n3)
  BY <1>3, Zenon DEF NcDoes
<1> HIDE DEF n3
<1>8. Calls("tizenrt", net, i, calls, 0) = [ok |-> TRUE, net |-> n3]
  BY <1>6, <1>7, NcCalls
<1>9. Addressed(net, i, l) = n3
  BY <1>8 DEF Addressed, calls
<1> QED BY <1>4, <1>9

\* What set_network_config leaves on TizenRT, if both name servers are given.
NcNamed(c) == {"", "bad"} \cap ToSet(c.dns) = {}

LEMMA NcNamedIs ==
    ASSUME NEW c \in NcConfigs, NcNamed(c)
    PROVE  /\ c.dns \in [1 .. 2 -> NcTexts] /\ "bad" \notin ToSet(c.dns)
           /\ \A n \in 1 .. 2 : c.dns[n] # "" /\ c.dns[n] # "bad"
           /\ c.dns[1] # "" /\ c.dns[2] # ""
<1>1. c.dns \in [1 .. 2 -> NcTexts]
  BY NcConfigIs
<1>2. \A n \in 1 .. 2 : c.dns[n] \in ToSet(c.dns)
  BY <1>1 DEF ToSet
<1>3. "bad" \notin ToSet(c.dns) /\ \A n \in 1 .. 2 : c.dns[n] # "" /\ c.dns[n] # "bad"
  BY <1>2 DEF NcNamed
<1>4. 1 \in 1 .. 2 /\ 2 \in 1 .. 2
  OBVIOUS
<1> QED BY <1>1, <1>3, <1>4, Zenon

LEMMA NcTwo == Cardinality(1 .. 2) = 2
<1>1. 1 .. 2 = {1, 2}
  OBVIOUS
<1>2. Cardinality({1}) = 1 /\ IsFiniteSet({1})
  BY FS_Singleton
<1>3. {1, 2} = {1} \cup {2} /\ 2 \notin {1}
  OBVIOUS
<1> QED BY <1>1, <1>2, <1>3, FS_AddElement

LEMMA NcTizenRtSetConfig ==
    ASSUME NEW net \in NcNets, DOMAIN net.dns = 1 .. 2, NEW i \in Interfaces, NEW c \in NcConfigs,
           Accepted("tizenrt", i, c), NcNamed(c)
    PROVE  \E new : /\ tizenrt_set_network_config(net, i, c, 0) = [ok |-> TRUE, net |-> new]
                    /\ new \in NcNets
                    /\ new.ifs[i] = [addr |-> c.addr, mask |-> c.mask, gw |-> c.gw]
                    /\ \A j \in Interfaces : j # i => new.ifs[j] = net.ifs[j]
                    /\ new.route = net.route
                    /\ DOMAIN new.dns = 1 .. 2 /\ new.dns[1] = c.dns[1] /\ new.dns[2] = c.dns[2]
<1>0. c.addr # "" /\ c.mask # "" /\ c.gw # ""
  BY DEF Accepted
<1>1. /\ c.dns \in [1 .. 2 -> NcTexts] /\ "bad" \notin ToSet(c.dns)
      /\ \A n \in 1 .. 2 : c.dns[n] # "" /\ c.dns[n] # "bad"
  BY NcNamedIs
<1>2. RightNames(c) = 2
  <2>1. \A n \in 1 .. 2 : "bad" \notin {c.dns[m] : m \in 1 .. n}
    <3>1. ASSUME NEW n \in 1 .. 2, NEW m \in 1 .. n PROVE c.dns[m] # "bad"
      <4>1. m \in 1 .. 2
        OBVIOUS
      <4> QED BY <1>1, <4>1, Zenon
    <3> QED BY <3>1
  <2>2. {n \in DOMAIN c.dns : c.dns[n] # "" /\ "bad" \notin {c.dns[m] : m \in 1 .. n}} = 1 .. 2
    BY <1>1, <2>1
  <2>3. Cardinality(1 .. 2) = 2
    BY NcTwo
  <2> QED BY <2>2, <2>3, Zenon DEF RightNames
<1> DEFINE n0 == Emptied(net, 2)
           calls == <<Op("addr", c.addr), Op("router", c.gw), Op("mask", c.mask),
                      Op("dns", c.dns[1]), Op("more", c.dns[2])>>
           n1 == Call("tizenrt", n0, i, Op("addr", c.addr))
           n2 == Call("tizenrt", n1, i, Op("router", c.gw))
           n3 == Call("tizenrt", n2, i, Op("mask", c.mask))
           n4 == Call("tizenrt", n3, i, Op("dns", c.dns[1]))
           n5 == Call("tizenrt", n4, i, Op("more", c.dns[2]))
<1>3. tizenrt_set_network_config(net, i, c, 0) = Calls("tizenrt", n0, i, calls, 0)
  BY <1>1, <1>2, Zenon DEF tizenrt_set_network_config
<1>4. /\ Len(calls) = 5 /\ calls[1] = Op("addr", c.addr) /\ calls[2] = Op("router", c.gw)
      /\ calls[3] = Op("mask", c.mask) /\ calls[4] = Op("dns", c.dns[1]) /\ calls[5] = Op("more", c.dns[2])
  OBVIOUS
<1> HIDE DEF calls
<1>5. calls[1].arg # "" /\ calls[2].arg # "" /\ calls[3].arg # "" /\ calls[4].arg # "" /\ calls[5].arg # ""
  <2>1. calls[1].arg = c.addr
    BY <1>4, NcOpArg
  <2>2. calls[2].arg = c.gw
    BY <1>4, NcOpArg
  <2>3. calls[3].arg = c.mask
    BY <1>4, NcOpArg
  <2>4. calls[4].arg = c.dns[1]
    BY <1>4, NcOpArg
  <2>5. calls[5].arg = c.dns[2]
    BY <1>4, NcOpArg
  <2>6. calls[1].arg # "" /\ calls[2].arg # "" /\ calls[3].arg # ""
    BY <1>0, <2>1, <2>2, <2>3
  <2>7. calls[4].arg # "" /\ calls[5].arg # ""
    BY <2>4, <2>5, NcNamedIs, Zenon
  <2> QED BY <2>6, <2>7
<1>6. /\ ~ 1 > Len(calls) /\ ~ 2 > Len(calls) /\ ~ 3 > Len(calls) /\ ~ 4 > Len(calls) /\ ~ 5 > Len(calls)
      /\ 6 > Len(calls)
  <2>1. Len(calls) = 5
    BY <1>4
  <2> QED BY <2>1
<1>7. /\ n0 \in NcNets /\ n0.ifs = net.ifs /\ n0.route = net.route
      /\ DOMAIN n0.dns = 1 .. 2 /\ \A n \in 1 .. 2 : n0.dns[n] = AnyAddr
  <2> DEFINE d == [n \in 1 .. 2 |-> AnyAddr]
  <2>1. net.ifs \in [Interfaces -> NcIf] /\ net.route \in NcRoutes
        /\ net = [ifs |-> net.ifs, route |-> net.route, dns |-> net.dns]
    BY DEF NcNets
  <2>2. [n \in DOMAIN net.dns |-> IF n <= 2 THEN AnyAddr ELSE net.dns[n]] = d
    OBVIOUS
  <2>3. d \in Seq(NcTexts)
    <3>1. d \in [1 .. 2 -> NcTexts]
      BY NcAnyIs
    <3> QED BY <3>1, SeqDef
  <2>4. Emptied(net, 2) = [net EXCEPT !.dns = [n \in DOMAIN net.dns |-> IF n <= 2 THEN AnyAddr ELSE net.dns[n]]]
    BY Zenon DEF Emptied
  <2>5. DOMAIN d = 1 .. 2 /\ \A n \in 1 .. 2 : d[n] = AnyAddr
    OBVIOUS
  <2> HIDE DEF d, n0
  <2>6. n0 = [net EXCEPT !.dns = d]
    BY <2>2, <2>4 DEF n0
  <2>7. n0 = [ifs |-> net.ifs, route |-> net.route, dns |-> d]
    BY <2>1, <2>6
  <2> QED BY <2>1, <2>3, <2>5, <2>7 DEF NcNets
<1> HIDE DEF n0
<1>8. n1 \in NcNets /\ n2 \in NcNets /\ NcOnly(n0, i, c.addr, c.mask, c.gw, n3)
  BY <1>7, NcConfigIs, NcTizenRtSet
<1> HIDE DEF n3
<1>9. n3 \in NcNets /\ DOMAIN n3.dns = 1 .. 2 /\ \A n \in 1 .. 2 : n3.dns[n] = AnyAddr
  BY <1>7, <1>8 DEF NcOnly
<1>10. /\ n4 \in NcNets /\ n5 \in NcNets
       /\ n5.ifs = n3.ifs /\ n5.route = n3.route
       /\ DOMAIN n5.dns = 1 .. 2 /\ n5.dns[1] = c.dns[1] /\ n5.dns[2] = c.dns[2]
  <2>1. c.dns[1] \in NcTexts /\ c.dns[2] \in NcTexts /\ c.dns[1] # AnyAddr
    <3>1. c.dns \in [1 .. 2 -> NcTexts] /\ c.dns[1] # AnyAddr
      BY NcConfigIs
    <3> QED BY <3>1
  <2>2. "dns" \in {"dns", "more"} /\ "more" \in {"dns", "more"}
    OBVIOUS
  <2> QED BY <1>9, <2>1, <2>2, NcTable
<1>11. /\ NcDoes("tizenrt", i, calls, 1, n0, n1) /\ NcDoes("tizenrt", i, calls, 2, n1, n2)
       /\ NcDoes("tizenrt", i, calls, 3, n2, n3) /\ NcDoes("tizenrt", i, calls, 4, n3, n4)
       /\ NcDoes("tizenrt", i, calls, 5, n4, n5)
  <2>1. NcDoes("tizenrt", i, calls, 1, n0, n1)
    BY <1>4, <1>5, <1>6, <1>8, NcDoesOne
  <2>2. NcDoes("tizenrt", i, calls, 2, n1, n2)
    BY <1>4, <1>5, <1>6, <1>8, NcDoesOne
  <2>3. NcDoes("tizenrt", i, calls, 3, n2, n3)
    BY <1>4, <1>5, <1>6, <1>9, NcDoesOne DEF n3
  <2>4. NcDoes("tizenrt", i, calls, 4, n3, n4)
    BY <1>4, <1>5, <1>6, <1>10, NcDoesOne
  <2>5. NcDoes("tizenrt", i, calls, 5, n4, n5)
    BY <1>4, <1>5, <1>6, <1>10, NcDoesOne
  <2> QED BY <2>1, <2>2, <2>3, <2>4, <2>5
<1> HIDE DEF n5
<1>12. NcDoes("tizenrt", i, calls, 6, n5, n5)
  BY <1>6, Zenon DEF NcDoes
<1>13. Calls("tizenrt", n0, i, calls, 0) = [ok |-> TRUE, net |-> n5]
  BY <1>11, <1>12, NcCalls
<1>14. /\ n5.ifs[i] = [addr |-> c.addr, mask |-> c.mask, gw |-> c.gw] /\ n5.route = net.route
       /\ \A j \in Interfaces : j # i => n5.ifs[j] = net.ifs[j]
  BY <1>7, <1>8, <1>10 DEF NcOnly
<1> QED BY <1>3, <1>10, <1>13, <1>14

(* What the configuration of an interface is read as.                       *)

LEMMA NcTwoNames ==
    ASSUME NEW S, NEW d \in [1 .. 2 -> S]
    PROVE  Len(d) = 2
<1>1. d \in Seq(S)
  BY SeqDef
<1>2. DOMAIN d = 1 .. 2 /\ DOMAIN d = 1 .. Len(d) /\ Len(d) \in Nat
  BY <1>1, LenProperties
<1> QED BY <1>2

\* The name servers that are read: entries that are not there are empty.
NcReadNames(d) == [n \in 1 .. 2 |-> IF n \in DOMAIN d THEN d[n] ELSE AnyAddr]

LEMMA NcRead ==
    ASSUME NEW net \in NcNets, NEW i \in Interfaces
    PROVE  /\ net.ifs[i].addr # AnyAddr =>
                 LET read == linux_get_network_config(net, i) IN
                 /\ read.addr = net.ifs[i].addr /\ read.mask = net.ifs[i].mask /\ read.gw = net.ifs[i].gw
                 /\ read.dns = NcReadNames(net.dns)
                 /\ Len(read.dns) = 2
           /\ DOMAIN net.dns = 1 .. 2 =>
                 LET read == tizenrt_get_network_config(net, i) IN
                 /\ read.addr = net.ifs[i].addr /\ read.mask = net.ifs[i].mask /\ read.gw = net.ifs[i].gw
                 /\ read.dns = NcReadNames(net.dns)
                 /\ Len(read.dns) = 2
<1>1. ASSUME net.ifs[i].addr # AnyAddr
      PROVE  LET read == linux_get_network_config(net, i) IN
             /\ read.addr = net.ifs[i].addr /\ read.mask = net.ifs[i].mask /\ read.gw = net.ifs[i].gw
             /\ read.dns = NcReadNames(net.dns)
             /\ Len(read.dns) = 2
  <2> DEFINE d == [n \in 1 .. 2 |-> IF n \in DOMAIN net.dns THEN net.dns[n] ELSE AnyAddr]
  <2>1. linux_get_network_config(net, i)
          = [addr |-> net.ifs[i].addr, mask |-> net.ifs[i].mask, gw |-> net.ifs[i].gw, dns |-> d]
    BY <1>1, Zenon DEF linux_get_network_config, get_ipv4addr, get_ipv4netmask, get_dripv4addr, get_ipv4dnsaddr, MaxDns
  <2>2. Len(d) = 2
    <3>1. d \in [1 .. 2 -> {d[1], d[2]}]
      OBVIOUS
    <3> HIDE DEF d
    <3> QED BY <3>1, NcTwoNames
  <2> HIDE DEF d
  <2>3. LET read == linux_get_network_config(net, i) IN
        /\ read.addr = net.ifs[i].addr /\ read.mask = net.ifs[i].mask /\ read.gw = net.ifs[i].gw /\ read.dns = d
    BY <2>1
  <2>4. d = NcReadNames(net.dns)
    BY Zenon DEF d, NcReadNames
  <2> QED BY <2>2, <2>3, <2>4
<1>2. ASSUME DOMAIN net.dns = 1 .. 2
      PROVE  LET read == tizenrt_get_network_config(net, i) IN
             /\ read.addr = net.ifs[i].addr /\ read.mask = net.ifs[i].mask /\ read.gw = net.ifs[i].gw
             /\ read.dns = NcReadNames(net.dns)
             /\ Len(read.dns) = 2
  <2> DEFINE d == [n \in 1 .. 2 |-> net.dns[n]]
  <2>1. {n \in DOMAIN net.dns : add_nameserver(n - 1)} = 1 .. 2
    BY <1>2 DEF add_nameserver, MaxDns
  <2>2. tizenrt_get_network_config(net, i)
          = [addr |-> net.ifs[i].addr, mask |-> net.ifs[i].mask, gw |-> net.ifs[i].gw, dns |-> d]
    BY <2>1, Zenon DEF tizenrt_get_network_config, dns_foreach_nameserver
  <2>3. Len(d) = 2
    <3>1. d \in [1 .. 2 -> {d[1], d[2]}]
      OBVIOUS
    <3> HIDE DEF d
    <3> QED BY <3>1, NcTwoNames
  <2> HIDE DEF d
  <2>4. LET read == tizenrt_get_network_config(net, i) IN
        /\ read.addr = net.ifs[i].addr /\ read.mask = net.ifs[i].mask /\ read.gw = net.ifs[i].gw /\ read.dns = d
    BY <2>2
  <2>5. d = NcReadNames(net.dns)
    BY <1>2 DEF d, NcReadNames
  <2> QED BY <2>3, <2>4, <2>5
<1> QED BY <1>1, <1>2

\* What ConfigIsExact says of a call.
NcTells(os, net, kind, i, config, ok, before) ==
    LET read == IF os = "linux" THEN linux_get_network_config(net, i)
                ELSE tizenrt_get_network_config(net, i) IN
    kind \in {"set", "start", "lease"} =>
        IF ~ ok THEN net = before /\ (kind = "set" => ~ Accepted(os, i, config))
        ELSE config # Off =>
             /\ read.addr = config.addr /\ read.mask = config.mask /\ read.gw = config.gw
             /\ Len(read.dns) <= MaxDns
             /\ os = "linux" => net.route = [dev |-> i, gw |-> IF kind = "set" THEN config.gw ELSE AnyAddr]
             /\ kind = "set" => read.dns = [n \in 1 .. MaxDns |-> IF config.dns[n] = "" THEN AnyAddr ELSE config.dns[n]]

LEMMA NcTold ==
    ASSUME NEW kind, NEW i, NEW c, NEW done, Returns(kind, i, c, done)
    PROVE  NcTells(nc_os', nc_net', kind, i, c, done.ok, nc_net) => ConfigIsExact'
<1>1. /\ nc_told'.kind = kind /\ nc_told'.dev = i /\ nc_told'.config = c /\ nc_told'.ok = done.ok
      /\ nc_told'.before = nc_net
  BY DEF Returns
<1>2. NcTells(nc_os', nc_net', nc_told'.kind, nc_told'.dev, nc_told'.config, nc_told'.ok, nc_told'.before)
        => ConfigIsExact'
  BY Zenon DEF NcTells, ConfigIsExact
<1> QED BY <1>1, <1>2, Zenon

LEMMA NcTellsFailed ==
    ASSUME NEW os, NEW net, NEW kind, NEW i, NEW c, kind = "set" => ~ Accepted(os, i, c)
    PROVE  NcTells(os, net, kind, i, c, FALSE, net)
BY Zenon DEF NcTells

LEMMA NcTellsStop ==
    ASSUME NEW os, NEW net, NEW i, NEW c, NEW ok, NEW before
    PROVE  NcTells(os, net, "stop", i, c, ok, before)
BY DEF NcTells

\* The name servers of a configuration as they are read.
NcGivenNames(none, dns) == [n \in 1 .. 2 |-> IF dns[n] = none THEN AnyAddr ELSE dns[n]]

LEMMA NcLinuxNamesAre ==
    ASSUME NEW dns, dns \in [1 .. 2 -> NcTexts], NEW none, dns[1] # none,
           NEW given, given = IF dns[2] = none THEN <<dns[1]>> ELSE Append(<<dns[1]>>, dns[2])
    PROVE  NcReadNames(given) = NcGivenNames(none, dns)
<1> DEFINE a == dns[1]
           b == dns[2]
<1>0. a \in NcTexts /\ b \in NcTexts /\ a # none /\ dns[1] = a /\ dns[2] = b
      /\ given = IF b = none THEN <<a>> ELSE Append(<<a>>, b)
  OBVIOUS
<1> HIDE DEF a, b
<1>1. DOMAIN <<a>> = {1} /\ <<a>>[1] = a
  OBVIOUS
<1>2. DOMAIN Append(<<a>>, b) = 1 .. 2 /\ Append(<<a>>, b)[1] = a /\ Append(<<a>>, b)[2] = b
  BY <1>0
<1>3. CASE b = none
  <2>1. DOMAIN given = {1} /\ given[1] = a
    BY <1>0, <1>1, <1>3
  <2>2. \A n \in 1 .. 2 : (IF n \in DOMAIN given THEN given[n] ELSE AnyAddr) = IF dns[n] = none THEN AnyAddr ELSE dns[n]
    BY <1>0, <1>3, <2>1
  <2> QED BY <2>2 DEF NcGivenNames, NcReadNames
<1>4. CASE b # none
  <2>1. DOMAIN given = 1 .. 2 /\ given[1] = a /\ given[2] = b
    BY <1>0, <1>2, <1>4
  <2>2. \A n \in 1 .. 2 : (IF n \in DOMAIN given THEN given[n] ELSE AnyAddr) = IF dns[n] = none THEN AnyAddr ELSE dns[n]
    BY <1>0, <1>4, <2>1
  <2> QED BY <2>2 DEF NcGivenNames, NcReadNames
<1> QED BY <1>3, <1>4

LEMMA NcTizenRtNamesAre ==
    ASSUME NEW d, NEW dns, NEW none, DOMAIN d = 1 .. 2, dns[1] # none, dns[2] # none, d[1] = dns[1], d[2] = dns[2]
    PROVE  NcReadNames(d) = NcGivenNames(none, dns)
<1>1. \A n \in 1 .. 2 : (IF n \in DOMAIN d THEN d[n] ELSE AnyAddr) = IF dns[n] = none THEN AnyAddr ELSE dns[n]
  OBVIOUS
<1> QED BY <1>1 DEF NcGivenNames, NcReadNames

LEMMA NcTellsLinux ==
    ASSUME NEW net \in NcNets, NEW i \in Interfaces, NEW c \in NcConfigs, NEW before, NEW kind \in {"set", "start"},
           NcHas(net, i, c),
           net.route = [dev |-> i, gw |-> IF kind = "set" THEN c.gw ELSE AnyAddr],
           kind = "set" => NcLinuxNames(net, c) /\ Accepted("linux", i, c)
    PROVE  NcTells("linux", net, kind, i, c, TRUE, before)
<1> DEFINE read == linux_get_network_config(net, i)
<1>1. net.ifs[i].addr = c.addr /\ net.ifs[i].mask = c.mask /\ net.ifs[i].gw = c.gw /\ c.addr # AnyAddr
  <2>1. c.addr # AnyAddr
    BY NcConfigIs
  <2>2. net.ifs[i].addr = c.addr /\ net.ifs[i].mask = c.mask /\ net.ifs[i].gw = c.gw
    BY DEF NcHas
  <2> QED BY <2>1, <2>2
<1>2. read.addr = c.addr /\ read.mask = c.mask /\ read.gw = c.gw /\ read.dns = NcReadNames(net.dns) /\ Len(read.dns) = 2
  <2>1. net.ifs[i].addr # AnyAddr
    BY <1>1, Zenon
  <2>2. /\ read.addr = net.ifs[i].addr /\ read.mask = net.ifs[i].mask /\ read.gw = net.ifs[i].gw
        /\ read.dns = NcReadNames(net.dns) /\ Len(read.dns) = 2
    BY <2>1, NcRead, Zenon
  <2> QED BY <1>1, <2>2, Zenon
<1>3. ASSUME kind = "set" PROVE NcReadNames(net.dns) = NcGivenNames("", c.dns)
  <2>1. c.dns \in [1 .. 2 -> NcTexts]
    BY NcConfigIs
  <2>2. c.dns[1] # ""
    BY <1>3 DEF Accepted, check_network_config
  <2>3. c.dns[1] \in NcTexts /\ c.dns[2] \in NcTexts
    BY <2>1
  <2>4. net.dns = IF c.dns[2] = "" THEN <<c.dns[1]>> ELSE Append(<<c.dns[1]>>, c.dns[2])
    BY <1>3, Zenon DEF NcLinuxNames
  <2> QED BY <2>1, <2>2, <2>4, NcLinuxNamesAre, Zenon
<1> HIDE DEF read
<1>4. kind = "set" => read.dns = [n \in 1 .. MaxDns |-> IF c.dns[n] = "" THEN AnyAddr ELSE c.dns[n]]
  BY <1>2, <1>3, Zenon DEF NcGivenNames, MaxDns
<1>5. Len(read.dns) <= MaxDns
  <2>1. Len(read.dns) = 2
    BY <1>2
  <2> QED BY <2>1 DEF MaxDns
<1> QED BY <1>2, <1>4, <1>5, Zenon DEF NcTells, read

LEMMA NcTellsTizenRt ==
    ASSUME NEW net \in NcNets, NEW i \in Interfaces, DOMAIN net.dns = 1 .. 2, NEW c, NEW before, NEW kind,
           NcHas(net, i, c),
           kind = "set" => c \in NcConfigs /\ NcNamed(c) /\ NcTizenRtNames(net, c)
    PROVE  NcTells("tizenrt", net, kind, i, c, TRUE, before)
<1> DEFINE read == tizenrt_get_network_config(net, i)
<1>1. read.addr = c.addr /\ read.mask = c.mask /\ read.gw = c.gw /\ read.dns = NcReadNames(net.dns) /\ Len(read.dns) = 2
  <2>1. /\ read.addr = net.ifs[i].addr /\ read.mask = net.ifs[i].mask /\ read.gw = net.ifs[i].gw
        /\ read.dns = NcReadNames(net.dns) /\ Len(read.dns) = 2
    BY NcRead, Zenon
  <2>2. net.ifs[i].addr = c.addr /\ net.ifs[i].mask = c.mask /\ net.ifs[i].gw = c.gw
    BY DEF NcHas
  <2> QED BY <2>1, <2>2, Zenon
<1>2. ASSUME kind = "set" PROVE NcReadNames(net.dns) = NcGivenNames("", c.dns)
  <2>0. c \in NcConfigs /\ NcNamed(c) /\ NcTizenRtNames(net, c)
    BY <1>2
  <2>1. c.dns[1] # "" /\ c.dns[2] # ""
    BY <2>0, NcNamedIs
  <2>2. net.dns[1] = c.dns[1] /\ net.dns[2] = c.dns[2]
    BY <2>0, Zenon DEF NcTizenRtNames
  <2> QED BY <2>1, <2>2, NcTizenRtNamesAre, Zenon
<1> HIDE DEF read
<1>3. kind = "set" => read.dns = [n \in 1 .. MaxDns |-> IF c.dns[n] = "" THEN AnyAddr ELSE c.dns[n]]
  BY <1>1, <1>2, Zenon DEF NcGivenNames, MaxDns
<1>4. Len(read.dns) <= MaxDns
  <2>1. Len(read.dns) = 2
    BY <1>1
  <2> QED BY <2>1 DEF MaxDns
<1>5. "tizenrt" # "linux"
  OBVIOUS
<1> QED BY <1>1, <1>3, <1>4, <1>5, Zenon DEF NcTells, read

(* The invariant.                                                           *)

\* An interface with a server has its server's address, and the server's table
\* is the process's; there is one server, or one user of TizenRT's client, and
\* what they hold is not set by anybody else.
NcServers ==
    /\ \A i \in Interfaces : nc_servers[i] # NoServer =>
          /\ nc_net.ifs[i].addr = nc_servers[i].addr
          /\ nc_os = "linux" => nc_leases = i /\ nc_net.ifs[i].addr # AnyAddr
          /\ \A j \in Interfaces : nc_servers[j] # NoServer => j = i
    /\ nc_leases # "freed"

NcUsers ==
    /\ nc_users \in 0 .. 1
    /\ nc_users > 0 =>
          nc_os = "tizenrt" /\ nc_servers["wlan0"] = NoServer /\ nc_net.ifs["wlan0"] = nc_lease

NcSystem ==
    /\ nc_os \in {"linux", "tizenrt"}
    /\ nc_net \in NcNets
    /\ nc_os = "tizenrt" => DOMAIN nc_net.dns = 1 .. 2
    /\ nc_net.route.dev = "none" => nc_net.route = NoRoute
    /\ DOMAIN nc_servers = Interfaces

NcInv == NcSystem /\ NcServers /\ NcUsers /\ ConfigIsExact

LEMMA NcStarts ==
    ASSUME NcCalm, NcInit
    PROVE  NcInv
<1>1. /\ nc_os \in {"linux", "tizenrt"} /\ nc_servers = [i \in Interfaces |-> NoServer]
      /\ nc_leases = "none" /\ nc_users = 0 /\ nc_told = NothingTold
  BY DEF NcInit
<1> DEFINE dns == IF nc_os = "linux" THEN <<>> ELSE [n \in 1 .. 2 |-> AnyAddr]
<1>2. nc_net = [ifs |-> [i \in Interfaces |-> Off], route |-> NoRoute, dns |-> dns]
  <2>1. Slots = 2
    BY DEF NcCalm, Slots
  <2> QED BY <2>1, Zenon DEF NcInit
<1>3. dns \in Seq(NcTexts) /\ (nc_os = "tizenrt" => DOMAIN dns = 1 .. 2)
  <2>1. CASE nc_os = "linux"
    BY <2>1
  <2>2. CASE nc_os = "tizenrt"
    <3>1. dns = [n \in 1 .. 2 |-> AnyAddr]
      BY <2>2
    <3>2. [n \in 1 .. 2 |-> AnyAddr] \in [1 .. 2 -> NcTexts] /\ DOMAIN [n \in 1 .. 2 |-> AnyAddr] = 1 .. 2
      BY NcAnyIs
    <3>3. [n \in 1 .. 2 |-> AnyAddr] \in Seq(NcTexts)
      BY <3>2, SeqDef
    <3> HIDE DEF dns
    <3> QED BY <3>1, <3>2, <3>3
  <2> QED BY <1>1, <2>1, <2>2
<1> HIDE DEF dns
<1>4. NoRoute \in NcRoutes /\ Off \in NcIf
  BY NcAnyIs DEF NoRoute, NcRoutes, Off, NcIf
<1>5. [i \in Interfaces |-> Off] \in [Interfaces -> NcIf]
  BY <1>4
<1>6. nc_net \in NcNets /\ nc_net.route = NoRoute /\ nc_net.dns = dns
  BY <1>2, <1>3, <1>4, <1>5 DEF NcNets
<1>7. NcSystem
  BY <1>1, <1>3, <1>6 DEF NcSystem
<1>8. NcServers
  BY <1>1 DEF NcServers
<1>9. NcUsers
  BY <1>1 DEF NcUsers
<1>10. ConfigIsExact
  BY <1>1 DEF ConfigIsExact, NothingTold
<1> QED BY <1>7, <1>8, <1>9, <1>10 DEF NcInv

LEMMA NcUnchanged ==
    ASSUME NcInv, UNCHANGED ncvars
    PROVE  NcInv'
<1>1. UNCHANGED <<nc_os, nc_net, nc_servers, nc_leases, nc_users, nc_lease, nc_told>>
  BY DEF ncvars
<1>2. NcSystem' /\ NcServers' /\ NcUsers'
  BY <1>1 DEF NcInv, NcSystem, NcServers, NcUsers
<1>3. ConfigIsExact'
  BY <1>1, Zenon DEF NcInv, ConfigIsExact
<1> QED BY <1>2, <1>3 DEF NcInv

LEMMA NcNotNone == \A i \in Interfaces : i # "none"
BY DEF Interfaces

\* Setting an interface that nobody holds.
LEMMA NcSets ==
    ASSUME NcCalm, NcInv, NEW i \in Interfaces, NEW c \in NcConfigs, NEW fails,
           os_set_network_config(i, c, fails)
    PROVE  NcInv'
<1> DEFINE done == IF nc_os = "linux" THEN linux_set_network_config(nc_net, i, c, fails)
                   ELSE tizenrt_set_network_config(nc_net, i, c, fails)
<1>1. /\ nc_net' = done.net /\ Returns("set", i, c, done)
      /\ UNCHANGED <<nc_os, nc_servers, nc_leases, nc_users, nc_lease>>
      /\ fails = 0 /\ ~ Held(i)
      /\ nc_os = "linux" /\ nc_net.route # NoRoute
           => nc_net.route.dev = i /\ [addr |-> c.addr, mask |-> c.mask, gw |-> c.gw] # nc_net.ifs[i]
      /\ nc_os = "tizenrt" => NcNamed(c)
  BY DEF os_set_network_config, NcCalm, NcNamed
<1>2. /\ nc_os \in {"linux", "tizenrt"} /\ nc_net \in NcNets
      /\ nc_os = "tizenrt" => DOMAIN nc_net.dns = 1 .. 2
  BY DEF NcInv, NcSystem
<1>3. NcTells(nc_os', nc_net', "set", i, c, done.ok, nc_net) => ConfigIsExact'
  BY <1>1, NcTold
<1>4. CASE ~ Accepted(nc_os, i, c)
  <2>1. done = [ok |-> FALSE, net |-> nc_net]
    BY <1>2, <1>4 DEF linux_set_network_config, tizenrt_set_network_config
  <2>2. nc_net' = nc_net /\ done.ok = FALSE
    BY <1>1, <2>1
  <2>3. ConfigIsExact'
    BY <1>1, <1>3, <1>4, <2>2, NcTellsFailed
  <2>4. NcSystem' /\ NcServers' /\ NcUsers'
    BY <1>1, <2>2 DEF NcInv, NcSystem, NcServers, NcUsers
  <2> QED BY <2>3, <2>4 DEF NcInv
<1>5. CASE Accepted(nc_os, i, c)
  <2>1. /\ done.ok = TRUE /\ nc_net' \in NcNets
        /\ NcHas(nc_net', i, c)
        /\ \A j \in Interfaces : j # i => nc_net'.ifs[j] = nc_net.ifs[j]
        /\ nc_net'.route.dev = "none" => nc_net'.route = NoRoute
        /\ nc_os = "tizenrt" => DOMAIN nc_net'.dns = 1 .. 2
        /\ NcTells(nc_os', nc_net', "set", i, c, TRUE, nc_net)
    <3>1. CASE nc_os = "linux"
      <4>1. done = linux_set_network_config(nc_net, i, c, 0)
        BY <1>1, <3>1, Zenon
      <4>2. Accepted("linux", i, c)
        BY <1>5, <3>1
      <4>3. PICK new : /\ done = [ok |-> TRUE, net |-> new]
                       /\ new \in NcNets
                       /\ NcHas(new, i, c) /\ NcLinuxNames(new, c)
                       /\ \A j \in Interfaces : j # i => new.ifs[j] = nc_net.ifs[j]
                       /\ new.route = [dev |-> i, gw |-> c.gw]
        <5>1. NcMaySet(nc_net, i, c)
          BY <1>1, <3>1, Zenon DEF NcMaySet
        <5> HIDE DEF done
        <5> QED BY <1>2, <4>1, <4>2, <5>1, NcLinuxSetConfig
      <4> HIDE DEF done
      <4>4. done.ok = TRUE /\ nc_net' = new
        <5>1. done.ok = TRUE /\ done.net = new
          BY <4>3
        <5> QED BY <1>1, <5>1, Zenon
      <4>5. NcHas(new, i, c) /\ NcLinuxNames(new, c)
        BY <4>3
      <4>6. "set" \in {"set", "start"}
        OBVIOUS
      <4>7. new.route = [dev |-> i, gw |-> IF "set" = "set" THEN c.gw ELSE AnyAddr]
        BY <4>3, Zenon
      <4>8. NcTells("linux", new, "set", i, c, TRUE, nc_net)
        BY <4>2, <4>3, <4>5, <4>6, <4>7, NcTellsLinux
      <4>9. new.route.dev # "none"
        <5>0. [dev |-> i, gw |-> c.gw].dev = i
          OBVIOUS
        <5>1. new.route.dev = i
          BY <4>3, <5>0, Zenon
        <5> QED BY <5>1, NcNotNone, Zenon
      <4>10. nc_os' = "linux" /\ nc_os # "tizenrt"
        BY <1>1, <3>1
      <4> QED BY <4>3, <4>4, <4>5, <4>8, <4>9, <4>10, Zenon
    <3>2. CASE nc_os = "tizenrt"
      <4>0. nc_os # "linux"
        BY <3>2
      <4>1. done = tizenrt_set_network_config(nc_net, i, c, 0)
        BY <1>1, <4>0, Zenon
      <4>2. Accepted("tizenrt", i, c) /\ NcNamed(c) /\ DOMAIN nc_net.dns = 1 .. 2
        BY <1>1, <1>2, <1>5, <3>2
      <4>3. PICK new : /\ done = [ok |-> TRUE, net |-> new]
                       /\ new \in NcNets
                       /\ new.ifs[i] = [addr |-> c.addr, mask |-> c.mask, gw |-> c.gw]
                       /\ \A j \in Interfaces : j # i => new.ifs[j] = nc_net.ifs[j]
                       /\ new.route = nc_net.route
                       /\ DOMAIN new.dns = 1 .. 2 /\ new.dns[1] = c.dns[1] /\ new.dns[2] = c.dns[2]
        <5> HIDE DEF done
        <5> QED BY <1>2, <4>1, <4>2, NcTizenRtSetConfig
      <4> HIDE DEF done
      <4>4. done.ok = TRUE /\ nc_net' = new
        <5>1. done.ok = TRUE /\ done.net = new
          BY <4>3
        <5> QED BY <1>1, <5>1, Zenon
      <4>5. NcHas(new, i, c) /\ NcTizenRtNames(new, c)
        BY <4>3, Zenon DEF NcHas, NcTizenRtNames
      <4>6. NcTells("tizenrt", new, "set", i, c, TRUE, nc_net)
        BY <4>2, <4>3, <4>5, NcTellsTizenRt
      <4>7. nc_os' = "tizenrt"
        BY <1>1, <3>2
      <4>8. new.route.dev = "none" => new.route = NoRoute
        BY <4>3 DEF NcInv, NcSystem
      <4> QED BY <4>3, <4>4, <4>5, <4>6, <4>7, <4>8, Zenon
    <3> QED BY <1>2, <3>1, <3>2
  <2> HIDE DEF done
  <2>2. ConfigIsExact'
    BY <1>3, <2>1, Zenon
  <2>3. NcSystem'
    BY <1>1, <2>1 DEF NcInv, NcSystem
  <2>4. nc_servers[i] = NoServer
    BY <1>1 DEF Held
  <2>5. NcServers'
    BY <1>1, <2>1, <2>4 DEF NcInv, NcServers
  <2>6. NcUsers'
    <3>1. nc_users > 0 => i # "wlan0"
      BY <1>1 DEF Held, NcInv, NcUsers
    <3>2. "wlan0" \in Interfaces
      BY DEF Interfaces
    <3> QED BY <1>1, <2>1, <3>1, <3>2 DEF NcInv, NcUsers
  <2> QED BY <2>2, <2>3, <2>5, <2>6 DEF NcInv
<1> QED BY <1>4, <1>5

\* The default route is over the interface, or there is none.
LEMMA NcUnroutedIs ==
    ASSUME NcSystem, NEW i \in Interfaces, nc_net.route.dev \in {"none", i}
    PROVE  Unrouted(nc_net, i) = NoRoute
BY DEF NcSystem, Unrouted

\* A DHCP server on Linux.
LEMMA NcServerStart ==
    ASSUME NcCalm, NcInv, NEW i \in Interfaces, NEW c \in NcConfigs, NEW fails,
           os_dhcp_server_start(i, c, fails)
    PROVE  NcInv'
<1> DEFINE done == Calls("linux", nc_net, i, <<Op("flush", AnyAddr), Op("addr", c.addr), Op("mask", c.mask),
                                               Op("router", c.gw), Op("route", AnyAddr)>>, fails)
           ok == check_dhcp_server_config(c) /\ done.ok
<1>1. /\ nc_os = "linux" /\ nc_servers = [j \in Interfaces |-> NoServer]
      /\ fails = 0 /\ nc_net.route.dev \in {"none", i}
      /\ nc_net' = IF check_dhcp_server_config(c) THEN done.net ELSE nc_net
      /\ nc_servers' = IF ok THEN [nc_servers EXCEPT ![i] = c] ELSE nc_servers
      /\ nc_leases' = IF ok THEN i ELSE nc_leases
      /\ Returns("start", i, c, [ok |-> ok])
      /\ UNCHANGED <<nc_os, nc_users, nc_lease>>
  BY DEF os_dhcp_server_start, NcCalm, Free
<1>2. nc_net \in NcNets
  BY DEF NcInv, NcSystem
<1>3. NcTells(nc_os', nc_net', "start", i, c, ok, nc_net) => ConfigIsExact'
  <2> HIDE DEF ok
  <2>1. [ok |-> ok].ok = ok
    OBVIOUS
  <2>2. NcTells(nc_os', nc_net', "start", i, c, [ok |-> ok].ok, nc_net) => ConfigIsExact'
    BY <1>1, NcTold
  <2> QED BY <2>1, <2>2, Zenon
<1>4. CASE ~ check_dhcp_server_config(c)
  <2>1. ok = FALSE /\ nc_net' = nc_net /\ nc_servers' = nc_servers /\ nc_leases' = nc_leases
    BY <1>1, <1>4, Zenon
  <2> HIDE DEF ok, done
  <2>2. "start" # "set"
    OBVIOUS
  <2>3. NcTells(nc_os', nc_net, "start", i, c, FALSE, nc_net)
    BY <2>2, NcTellsFailed, Zenon
  <2>4. ConfigIsExact'
    BY <1>3, <2>1, <2>3, Zenon
  <2>5. NcSystem' /\ NcServers' /\ NcUsers'
    BY <1>1, <2>1 DEF NcInv, NcSystem, NcServers, NcUsers
  <2> QED BY <2>4, <2>5 DEF NcInv
<1>5. CASE check_dhcp_server_config(c)
  <2>0. Unrouted(nc_net, i) = NoRoute
    BY <1>1, NcUnroutedIs DEF NcInv
  <2>1. PICK new : /\ done = [ok |-> TRUE, net |-> new]
                   /\ new \in NcNets /\ NcHas(new, i, c)
                   /\ \A j \in Interfaces : j # i => new.ifs[j] = nc_net.ifs[j]
                   /\ new.route = [dev |-> i, gw |-> AnyAddr]
    <3>1. done = Calls("linux", nc_net, i, NcServerCalls(c), 0)
      BY <1>1, Zenon DEF NcServerCalls
    <3> HIDE DEF done
    <3> QED BY <1>2, <1>5, <2>0, <3>1, NcServerStarts
  <2> HIDE DEF done
  <2>2. done.ok = TRUE /\ done.net = new
    BY <2>1
  <2>3. ok = TRUE
    BY <1>5, <2>2, Zenon
  <2> HIDE DEF ok
  <2>4. nc_net' = new /\ nc_servers' = [nc_servers EXCEPT ![i] = c] /\ nc_leases' = i
    BY <1>1, <1>5, <2>2, <2>3, Zenon
  <2>5. NcHas(new, i, c) /\ new.ifs[i].addr = c.addr
    BY <2>1 DEF NcHas
  <2>6. ConfigIsExact'
    <3>1. "start" \in {"set", "start"} /\ "start" # "set"
      OBVIOUS
    <3>2. new.route = [dev |-> i, gw |-> IF "start" = "set" THEN c.gw ELSE AnyAddr]
      BY <2>1, <3>1, Zenon
    <3>3. NcTells("linux", new, "start", i, c, TRUE, nc_net)
      BY <2>1, <2>5, <3>1, <3>2, NcTellsLinux
    <3>4. nc_os' = "linux"
      BY <1>1
    <3> QED BY <1>3, <2>3, <2>4, <3>3, <3>4, Zenon
  <2>7. new.route.dev # "none"
    <3>1. [dev |-> i, gw |-> AnyAddr].dev = i
      OBVIOUS
    <3> QED BY <2>1, <3>1, NcNotNone, Zenon
  <2>8. NcSystem'
    BY <1>1, <2>1, <2>4, <2>7 DEF NcInv, NcSystem
  <2>9. NcServers'
    <3>1. c.addr # AnyAddr
      BY NcConfigIs
    <3>2. i # "freed"
      BY DEF Interfaces
    <3>3. nc_servers'[i] = c /\ \A j \in Interfaces : j # i => nc_servers'[j] = NoServer
      BY <1>1, <2>4
    <3>4. \A j \in Interfaces : nc_servers'[j] # NoServer => j = i
      BY <3>3
    <3> QED BY <1>1, <2>4, <2>5, <3>1, <3>2, <3>3, <3>4 DEF NcServers
  <2>10. NcUsers'
    BY <1>1 DEF NcInv, NcUsers
  <2> QED BY <2>6, <2>8, <2>9, <2>10 DEF NcInv
<1> QED BY <1>4, <1>5

LEMMA NcServerStop ==
    ASSUME NcCalm, NcInv, NEW i \in Interfaces, NEW fails, os_dhcp_server_stop(i, fails)
    PROVE  NcInv'
<1> DEFINE done == Calls("linux", nc_net, i, <<Op("flush", AnyAddr), Op("route", AnyAddr), Op("addr", AnyAddr)>>, fails)
<1>1. /\ nc_os = "linux" /\ nc_servers[i] # NoServer
      /\ fails = 0 /\ nc_net.route.dev \in {"none", i}
      /\ nc_net' = done.net
      /\ nc_servers' = [nc_servers EXCEPT ![i] = NoServer]
      /\ nc_leases' = IF nc_leases \in Interfaces THEN "none" ELSE "freed"
      /\ Returns("stop", i, Off, done)
      /\ UNCHANGED <<nc_os, nc_users, nc_lease>>
  BY DEF os_dhcp_server_stop, NcCalm
<1>2. nc_net \in NcNets /\ nc_leases = i /\ nc_net.ifs[i].addr # AnyAddr
  BY <1>1 DEF NcInv, NcSystem, NcServers
<1>3. Unrouted(nc_net, i) = NoRoute
  BY <1>1, NcUnroutedIs DEF NcInv
<1>4. PICK new : /\ done = [ok |-> TRUE, net |-> new]
                 /\ new \in NcNets
                 /\ \A j \in Interfaces : j # i => new.ifs[j] = nc_net.ifs[j]
                 /\ new.route = NoRoute
  <2>1. done = Calls("linux", nc_net, i, <<Op("flush", AnyAddr), Op("route", AnyAddr), Op("addr", AnyAddr)>>, 0)
    BY <1>1, Zenon
  <2> HIDE DEF done
  <2> QED BY <1>2, <1>3, <2>1, NcServerStops
<1> HIDE DEF done
<1>5. nc_net' = new
  <2>1. done.net = new
    BY <1>4
  <2> QED BY <1>1, <2>1, Zenon
<1>6. ConfigIsExact'
  BY <1>1, NcTold, NcTellsStop, Zenon
<1>7. NcSystem'
  BY <1>1, <1>4, <1>5 DEF NcInv, NcSystem
<1>8. \A j \in Interfaces : nc_servers'[j] = NoServer
  BY <1>1 DEF NcInv, NcSystem, NcServers
<1>9. NcServers'
  BY <1>1, <1>2, <1>8 DEF NcServers
<1>10. NcUsers'
  BY <1>1 DEF NcInv, NcUsers
<1> QED BY <1>6, <1>7, <1>9, <1>10 DEF NcInv

\* DHCP servers and the client on TizenRT.
LEMMA NcUnaddressed ==
    ASSUME NEW net \in NcNets, NEW i \in Interfaces
    PROVE  LET new == set_ipv4addr("tizenrt", net, i, AnyAddr) IN
           /\ new \in NcNets /\ new.dns = net.dns /\ new.route = net.route
           /\ \A j \in Interfaces : j # i => new.ifs[j] = net.ifs[j]
<1> DEFINE new == set_ipv4addr("tizenrt", net, i, AnyAddr)
<1>1. new = NcPut(net, i, AnyAddr, net.ifs[i].mask, net.ifs[i].gw)
  <2>1. Call("tizenrt", net, i, Op("addr", AnyAddr)) = new
    BY DEF Call, Op
  <2> HIDE DEF new
  <2> QED BY <2>1, NcTizenRtCalls
<1>2. net.ifs[i].mask \in NcTexts /\ net.ifs[i].gw \in NcTexts
  BY DEF NcNets, NcIf
<1> DEFINE m == net.ifs[i].mask
           g == net.ifs[i].gw
<1> HIDE DEF new, m, g
<1>3. /\ new \in NcNets /\ new.dns = net.dns /\ new.route = net.route
      /\ \A j \in Interfaces : j # i => new.ifs[j] = net.ifs[j]
  <2>1. new = NcPut(net, i, AnyAddr, m, g) /\ m \in NcTexts /\ g \in NcTexts
    BY <1>1, <1>2, Zenon DEF m, g
  <2>2. AnyAddr \in NcNames
    BY NcAnyIs
  <2>3. NcOnly(net, i, AnyAddr, m, g, new)
    BY <2>1, <2>2, NcOnlyPut
  <2> QED BY <2>3 DEF NcOnly
<1> QED BY <1>3 DEF new

LEMMA NcTizenRtServer ==
    ASSUME NcCalm, NcInv,
           (\E starts \in BOOLEAN : tizenrt_dhcp_server_start(starts)) \/ tizenrt_dhcp_server_stop
    PROVE  NcInv'
<1>0. "wlan0" \in Interfaces /\ nc_net \in NcNets
  BY DEF Interfaces, NcInv, NcSystem
<1>1. ASSUME NEW starts \in BOOLEAN, tizenrt_dhcp_server_start(starts) PROVE NcInv'
  <2> DEFINE server == [addr |-> nc_net.ifs["wlan0"].addr]
  <2>1. /\ nc_os = "tizenrt" /\ nc_servers = [j \in Interfaces |-> NoServer] /\ nc_users = 0
        /\ starts = TRUE
        /\ UNCHANGED <<nc_os, nc_leases, nc_users, nc_lease>>
    BY <1>1 DEF tizenrt_dhcp_server_start, NcCalm, Free
  <2>2. nc_servers["wlan0"] = NoServer
    BY <1>0, <2>1
  <2>3. /\ nc_net' = nc_net /\ nc_servers' = [nc_servers EXCEPT !["wlan0"] = server]
        /\ Returns("start", "wlan0", Off, [ok |-> starts /\ nc_servers["wlan0"] = NoServer])
    BY <1>1, <2>1, <2>2, Zenon DEF tizenrt_dhcp_server_start
  <2>4. ConfigIsExact'
    <3>1. (starts /\ nc_servers["wlan0"] = NoServer) = TRUE
      BY <2>1, <2>2
    <3>2. [ok |-> TRUE].ok = TRUE
      OBVIOUS
    <3>3. Returns("start", "wlan0", Off, [ok |-> TRUE])
      BY <2>3, <3>1, Zenon
    <3>4. NcTells(nc_os', nc_net', "start", "wlan0", Off, TRUE, nc_net)
      BY Zenon DEF NcTells
    <3>5. NcTells(nc_os', nc_net', "start", "wlan0", Off, [ok |-> TRUE].ok, nc_net) => ConfigIsExact'
      BY <3>3, NcTold
    <3> QED BY <3>2, <3>4, <3>5, Zenon
  <2>5. NcSystem'
    BY <2>1, <2>3 DEF NcInv, NcSystem
  <2>6. NcServers'
    <3>1. nc_servers'["wlan0"] = server /\ \A j \in Interfaces : j # "wlan0" => nc_servers'[j] = NoServer
      BY <1>0, <2>1, <2>3
    <3>2. server.addr = nc_net'.ifs["wlan0"].addr
      BY <2>3
    <3>3. nc_leases # "freed"
      BY DEF NcInv, NcServers
    <3> HIDE DEF server
    <3> QED BY <2>1, <3>1, <3>2, <3>3 DEF NcServers
  <2>7. NcUsers'
    BY <2>1 DEF NcInv, NcUsers
  <2> QED BY <2>4, <2>5, <2>6, <2>7 DEF NcInv
<1>2. CASE tizenrt_dhcp_server_stop
  <2>1. /\ nc_os = "tizenrt" /\ nc_servers["wlan0"] # NoServer
        /\ nc_net' = set_ipv4addr("tizenrt", nc_net, "wlan0", AnyAddr)
        /\ nc_servers' = [nc_servers EXCEPT !["wlan0"] = NoServer]
        /\ Returns("stop", "wlan0", Off, [ok |-> TRUE])
        /\ UNCHANGED <<nc_os, nc_leases, nc_users, nc_lease>>
    BY <1>2 DEF tizenrt_dhcp_server_stop
  <2>2. /\ nc_net' \in NcNets /\ nc_net'.dns = nc_net.dns /\ nc_net'.route = nc_net.route
    BY <1>0, <2>1, NcUnaddressed
  <2>3. ConfigIsExact'
    BY <2>1, NcTold, NcTellsStop, Zenon
  <2>4. NcSystem'
    BY <2>1, <2>2 DEF NcInv, NcSystem
  <2>5. \A j \in Interfaces : nc_servers'[j] = NoServer
    BY <1>0, <2>1 DEF NcInv, NcSystem, NcServers
  <2>6. NcServers'
    BY <2>1, <2>5 DEF NcInv, NcServers
  <2>7. NcUsers'
    BY <2>1 DEF NcInv, NcUsers
  <2> QED BY <2>3, <2>4, <2>6, <2>7 DEF NcInv
<1> QED BY <1>1, <1>2

LEMMA NcTizenRtClient ==
    ASSUME NcCalm, NcInv,
           (\E lease \in NcLeases, ok \in BOOLEAN : tizenrt_dhcp_client_start(lease, ok)) \/ tizenrt_dhcp_client_stop
    PROVE  NcInv'
<1>0. "wlan0" \in Interfaces /\ nc_net \in NcNets
  BY DEF Interfaces, NcInv, NcSystem
<1>1. ASSUME NEW lease \in NcLeases, NEW ok \in BOOLEAN, tizenrt_dhcp_client_start(lease, ok) PROVE NcInv'
  <2>1. /\ nc_os = "tizenrt" /\ nc_servers["wlan0"] = NoServer /\ nc_users = 0
        /\ nc_net' = IF ok THEN Addressed(nc_net, "wlan0", lease) ELSE nc_net
        /\ nc_users' = IF ok THEN nc_users + 1 ELSE nc_users
        /\ nc_lease' = IF ok THEN lease ELSE nc_lease
        /\ Returns("lease", "wlan0", lease, [ok |-> ok])
        /\ UNCHANGED <<nc_os, nc_servers, nc_leases>>
    BY <1>1 DEF tizenrt_dhcp_client_start, NcCalm
  <2>2. NcTells(nc_os', nc_net', "lease", "wlan0", lease, ok, nc_net) => ConfigIsExact'
    <3>1. [ok |-> ok].ok = ok
      OBVIOUS
    <3>2. NcTells(nc_os', nc_net', "lease", "wlan0", lease, [ok |-> ok].ok, nc_net) => ConfigIsExact'
      BY <2>1, NcTold
    <3> QED BY <3>1, <3>2, Zenon
  <2>3. "lease" # "set"
    OBVIOUS
  <2>4. CASE ok = FALSE
    <3>1. nc_net' = nc_net /\ nc_users' = nc_users /\ nc_lease' = nc_lease
      BY <2>1, <2>4
    <3>2. NcTells(nc_os', nc_net, "lease", "wlan0", lease, FALSE, nc_net)
      BY <2>3, NcTellsFailed, Zenon
    <3>3. ConfigIsExact'
      BY <2>2, <2>4, <3>1, <3>2, Zenon
    <3>4. NcSystem' /\ NcServers' /\ NcUsers'
      BY <2>1, <3>1 DEF NcInv, NcSystem, NcServers, NcUsers
    <3> QED BY <3>3, <3>4 DEF NcInv
  <2>5. CASE ok = TRUE
    <3>1. nc_net' = Addressed(nc_net, "wlan0", lease) /\ nc_users' = 1 /\ nc_lease' = lease
      BY <2>1, <2>5
    <3>2. lease \in NcIf /\ NcGiven(lease) /\ lease = [addr |-> lease.addr, mask |-> lease.mask, gw |-> lease.gw]
      <4>1. lease \in [addr : Leased, mask : Leased, gw : Leased]
        BY NcAssumption
      <4>2. lease.addr \in Leased /\ lease.mask \in Leased /\ lease.gw \in Leased
            /\ lease = [addr |-> lease.addr, mask |-> lease.mask, gw |-> lease.gw]
        BY <4>1
      <4>3. \A x \in Leased : x \in NcTexts /\ x \in NcNames /\ x # ""
        BY DEF Leased, Addresses, NcTexts, NcNames
      <4>4. NcGiven(lease)
        BY <4>2, <4>3 DEF NcGiven
      <4>5. lease \in NcIf
        BY <4>1, <4>2, <4>3 DEF NcIf
      <4> QED BY <4>2, <4>4, <4>5
    <3>3. NcOnly(nc_net, "wlan0", lease.addr, lease.mask, lease.gw, nc_net')
      BY <1>0, <3>1, <3>2, NcAddressed
    <3>4. /\ nc_net' \in NcNets /\ nc_net'.dns = nc_net.dns /\ nc_net'.route = nc_net.route
          /\ nc_net'.ifs["wlan0"] = lease
          /\ \A j \in Interfaces : j # "wlan0" => nc_net'.ifs[j] = nc_net.ifs[j]
      BY <3>2, <3>3, Zenon DEF NcOnly
    <3>5. NcSystem'
      BY <2>1, <3>4 DEF NcInv, NcSystem
    <3>6. ConfigIsExact'
      <4>1. NcHas(nc_net', "wlan0", lease)
        BY <3>2, <3>4, Zenon DEF NcHas
      <4>2. DOMAIN nc_net'.dns = 1 .. 2 /\ nc_os' = "tizenrt"
        BY <2>1, <3>5 DEF NcSystem
      <4>3. NcTells("tizenrt", nc_net', "lease", "wlan0", lease, TRUE, nc_net)
        BY <1>0, <2>3, <3>4, <4>1, <4>2, NcTellsTizenRt
      <4> QED BY <2>2, <2>5, <4>2, <4>3, Zenon
    <3>7. NcServers'
      BY <2>1, <3>4 DEF NcInv, NcServers
    <3>8. NcUsers'
      BY <2>1, <3>1, <3>4 DEF NcUsers
    <3> QED BY <3>5, <3>6, <3>7, <3>8 DEF NcInv
  <2> QED BY <2>4, <2>5
<1>2. CASE tizenrt_dhcp_client_stop
  <2>1. /\ nc_os = "tizenrt" /\ nc_users > 0
        /\ nc_net' = Addressed(nc_net, "wlan0", Off)
        /\ nc_users' = nc_users - 1
        /\ Returns("stop", "wlan0", Off, [ok |-> TRUE])
        /\ UNCHANGED <<nc_os, nc_servers, nc_leases, nc_lease>>
    BY <1>2 DEF tizenrt_dhcp_client_stop
  <2>2. Off \in NcIf /\ NcGiven(Off)
    <3>1. Off \in NcIf
      BY NcAnyIs DEF Off, NcIf
    <3>2. NcGiven(Off)
      BY DEF Off, NcGiven, AnyAddr
    <3> QED BY <3>1, <3>2
  <2>3. NcOnly(nc_net, "wlan0", Off.addr, Off.mask, Off.gw, nc_net')
    BY <1>0, <2>1, <2>2, NcAddressed
  <2>4. /\ nc_net' \in NcNets /\ nc_net'.dns = nc_net.dns /\ nc_net'.route = nc_net.route
        /\ \A j \in Interfaces : j # "wlan0" => nc_net'.ifs[j] = nc_net.ifs[j]
    BY <2>3, Zenon DEF NcOnly
  <2>5. nc_users' = 0 /\ nc_servers["wlan0"] = NoServer
    BY <2>1 DEF NcInv, NcUsers
  <2>6. ConfigIsExact'
    BY <2>1, NcTold, NcTellsStop, Zenon
  <2>7. NcSystem'
    BY <2>1, <2>4 DEF NcInv, NcSystem
  <2>8. NcServers'
    BY <2>1, <2>4, <2>5 DEF NcInv, NcServers
  <2>9. NcUsers'
    BY <2>5 DEF NcUsers
  <2> QED BY <2>6, <2>7, <2>8, <2>9 DEF NcInv
<1> QED BY <1>1, <1>2

LEMMA NcSteps ==
    ASSUME NcCalm, NcInv, [NcNext]_ncvars
    PROVE  NcInv'
<1>1. ASSUME NEW i \in Interfaces, NEW c \in NcConfigs, NEW fails \in 0 .. 6, os_set_network_config(i, c, fails)
      PROVE  NcInv'
  BY <1>1, NcSets
<1>2. ASSUME NEW i \in Interfaces, NEW c \in NcConfigs, NEW fails \in 0 .. 6, os_dhcp_server_start(i, c, fails)
      PROVE  NcInv'
  BY <1>2, NcServerStart
<1>3. ASSUME NEW i \in Interfaces, NEW fails \in 0 .. 3, os_dhcp_server_stop(i, fails)
      PROVE  NcInv'
  BY <1>3, NcServerStop
<1>4. CASE (\E starts \in BOOLEAN : tizenrt_dhcp_server_start(starts)) \/ tizenrt_dhcp_server_stop
  BY <1>4, NcTizenRtServer
<1>5. CASE (\E lease \in NcLeases, ok \in BOOLEAN : tizenrt_dhcp_client_start(lease, ok)) \/ tizenrt_dhcp_client_stop
  BY <1>5, NcTizenRtClient
<1>6. CASE UNCHANGED ncvars
  BY <1>6, NcUnchanged
<1> QED BY <1>1, <1>2, <1>3, <1>4, <1>5, <1>6, Zenon DEF NcNext

LEMMA NcGives == NcInv => ConfigIsExact /\ ServersAreAddressed
<1> SUFFICES ASSUME NcInv PROVE ConfigIsExact /\ ServersAreAddressed
  OBVIOUS
<1> QED BY DEF NcInv, NcServers, NcUsers, ServersAreAddressed
=============================================================================
