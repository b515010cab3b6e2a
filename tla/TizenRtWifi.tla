----------------------------- MODULE TizenRtWifi -----------------------------
(* Wi-Fi on TizenRT (wifi/tizenrt/tizenrt_wifi.c).  The driver's thread     *)
(* calls back with link changes and scan results; the results are kept in   *)
(* g_saved_aps until the application takes them, and are then the           *)
(* application's to free.  No lock protects the two variables: the steps in *)
(* which each side reads and writes them are apart.                         *)
EXTENDS Naturals, FiniteSets

CONSTANTS
    TvArrays,    \* bound: the arrays of access points that can be allocated, 1 .. n
    TvCounts,    \* how many access points a scan can find
    TvUnusual    \* what the application and the system do beyond the normal

ASSUME TvAssumption == TvArrays \subseteq Nat \ {0} /\ TvCounts \subseteq Nat

(* "race"    a scan's results arrive while the application takes the last   *)
(* "nomem"   the array cannot be allocated                                  *)

VARIABLES
    tv_mode,     \* g_mode
    tv_saved,    \* g_saved_aps: an array, or 0 for NULL
    tv_count,    \* g_saved_num_aps
    tv_arrays,   \* each array: "new", "kept", "given" or "freed", and its length
    tv_calls,    \* g_callbacks: which of connect and scan are set
    tv_driver,   \* callbacks registered with the driver, and whether a scan is under way
    tv_take,     \* get_scan_result: idle, or what it has read
    tv_save,     \* wifi_save_scan_results: idle, or the length of the array to fill
    tv_told      \* what the application has been told or given

tvvars == <<tv_mode, tv_saved, tv_count, tv_arrays, tv_calls, tv_driver, tv_take, tv_save, tv_told>>

TvIdle == [at |-> "idle"]

TvTypeOK ==
    /\ tv_mode \in {"none", "station", "ap"}
    /\ tv_saved \in TvArrays \cup {0} /\ tv_count \in TvCounts \cup {0}
    /\ tv_arrays \in [TvArrays -> [state : {"new", "kept", "given", "freed"}, len : TvCounts \cup {0}]]
    /\ tv_calls \subseteq {"connect", "scan"}
    /\ tv_driver \subseteq {"link", "scan", "scanning", "joined"}
    /\ tv_told \in {"nothing", "right", "wrong"}

TvInit ==
    /\ tv_mode = "none" /\ tv_saved = 0 /\ tv_count = 0
    /\ tv_arrays = [a \in TvArrays |-> [state |-> "new", len |-> 0]]
    /\ tv_calls = {} /\ tv_driver = {} /\ tv_take = TvIdle /\ tv_save = TvIdle
    /\ tv_told = "nothing"

TvKept == <<tv_saved, tv_count, tv_arrays, tv_take, tv_save, tv_told>>

(* os_wifi_init: the driver starts as a station whatever the mode.          *)
TvWifiInit(mode) ==
    /\ tv_take = TvIdle /\ tv_mode = "none"
    /\ tv_calls' = {}
    /\ \E ok \in BOOLEAN :
         /\ tv_mode' = IF ok THEN mode ELSE "none"
         /\ tv_driver' = IF ok THEN tv_driver \cup {"link"} ELSE tv_driver \ {"link", "scan"}
    /\ UNCHANGED TvKept

(* os_wifi_deinit: the callbacks and saved results are left as they are.    *)
TvWifiDeinit ==
    /\ tv_take = TvIdle
    /\ tv_mode' = "none" /\ tv_driver' = {}
    /\ UNCHANGED <<tv_calls, TvKept>>

TvScanRequest ==
    /\ tv_take = TvIdle /\ tv_mode # "none"
    /\ \E ok \in BOOLEAN :
         tv_driver' = IF ok THEN tv_driver \cup {"link", "scan", "scanning"}
                      ELSE (tv_driver \cup {"link"}) \ {"scan"}
    /\ UNCHANGED <<tv_mode, tv_calls, TvKept>>

TvConnect ==
    /\ tv_take = TvIdle /\ tv_mode = "station"
    /\ tv_driver' \in {tv_driver, tv_driver \cup {"joined"}}
    /\ UNCHANGED <<tv_mode, tv_calls, TvKept>>

TvDisconnect ==
    /\ tv_take = TvIdle /\ tv_mode = "station"
    /\ tv_driver' \in {tv_driver, tv_driver \ {"joined"}}
    /\ UNCHANGED <<tv_mode, tv_calls, TvKept>>

(* A callback is only replaced by none.                                     *)
TvSetCallback(which, set) ==
    /\ tv_take = TvIdle /\ tv_mode # "none"
    /\ ~(set /\ which \in tv_calls)
    /\ tv_calls' = IF set THEN tv_calls \cup {which} ELSE tv_calls \ {which}
    /\ UNCHANGED <<tv_mode, tv_driver, TvKept>>

(* os_wifi_get_scan_result: the count and the array are read ...            *)
TvGetScanResult ==
    /\ tv_take = TvIdle /\ tv_mode # "none"
    /\ "race" \in TvUnusual \/ tv_save = TvIdle
    /\ tv_take' = [at |-> "read", array |-> tv_saved, len |-> tv_count]
    /\ UNCHANGED <<tv_mode, tv_saved, tv_count, tv_arrays, tv_calls, tv_driver, tv_save, tv_told>>

(* What the application was given is an array that is its own, as long as   *)
(* it was told, or nothing.                                                 *)
TvRight(a, len) ==
    IF a = 0 THEN len = 0 ELSE tv_arrays[a].state = "kept" /\ tv_arrays[a].len = len

(* The array is handed out and kept too.                                    *)
MutTvGiven ==
    /\ tv_take.at = "read"
    /\ tv_told' = IF TvRight(tv_take.array, tv_take.len) THEN "right" ELSE "wrong"
    /\ tv_arrays' = IF tv_take.array = 0 THEN tv_arrays
                    ELSE [tv_arrays EXCEPT ![tv_take.array].state = "given"]
    /\ tv_count' = 0 /\ tv_take' = TvIdle
    /\ UNCHANGED <<tv_mode, tv_saved, tv_calls, tv_driver, tv_save>>

(* ... and then forgotten.                                                  *)
TvGiven ==
    /\ tv_take.at = "read"
    /\ tv_told' = IF TvRight(tv_take.array, tv_take.len) THEN "right" ELSE "wrong"
    /\ tv_arrays' = IF tv_take.array = 0 THEN tv_arrays
                    ELSE [tv_arrays EXCEPT ![tv_take.array].state = "given"]
    /\ tv_saved' = 0 /\ tv_count' = 0 /\ tv_take' = TvIdle
    /\ UNCHANGED <<tv_mode, tv_calls, tv_driver, tv_save>>

-----------------------------------------------------------------------------
(* The driver's thread.                                                     *)

TvLinkChanges ==
    /\ "link" \in tv_driver /\ tv_mode = "station"
    /\ tv_driver' \in {tv_driver \cup {"joined"}, tv_driver \ {"joined"}}
    /\ UNCHANGED <<tv_mode, tv_calls, TvKept>>

(* wifi_scan_callback of a scan that failed does nothing; one that found    *)
(* access points frees results nobody took, and counts the new ones ...     *)
TvScanned(len) ==
    /\ {"scan", "scanning"} \subseteq tv_driver /\ tv_save = TvIdle
    /\ "race" \in TvUnusual \/ tv_take = TvIdle
    /\ \E a \in TvArrays : tv_arrays[a].state = "new"
    /\ tv_driver' = tv_driver \ {"scanning"}
    /\ \E ok \in BOOLEAN :
         IF ok
         THEN /\ tv_arrays' = IF tv_saved = 0 THEN tv_arrays
                              ELSE [tv_arrays EXCEPT ![tv_saved].state = "freed"]
              /\ tv_told' = IF tv_saved # 0 /\ tv_arrays[tv_saved].state # "kept" THEN "wrong" ELSE tv_told
              /\ tv_count' = len /\ tv_save' = [at |-> "alloc", len |-> len]
         ELSE UNCHANGED <<tv_arrays, tv_told, tv_count, tv_save>>
    /\ UNCHANGED <<tv_mode, tv_saved, tv_calls, tv_take>>

(* ... and then allocates them, fills them in and calls the scan callback.  *)
TvSaved ==
    /\ tv_save.at = "alloc"
    /\ \E ok \in BOOLEAN, a \in TvArrays :
         /\ ~ok => "nomem" \in TvUnusual
         /\ tv_arrays[a].state = "new" /\ \A b \in TvArrays : b < a => tv_arrays[b].state # "new"
         /\ tv_saved' = IF ok THEN a ELSE 0
         /\ tv_arrays' = IF ok THEN [tv_arrays EXCEPT ![a] = [state |-> "kept", len |-> tv_save.len]]
                         ELSE tv_arrays
    /\ tv_save' = TvIdle
    /\ UNCHANGED <<tv_mode, tv_count, tv_calls, tv_driver, tv_take, tv_told>>

TvNext ==
    \/ \E mode \in {"station", "ap"} : TvWifiInit(mode)
    \/ TvWifiDeinit \/ TvScanRequest \/ TvConnect \/ TvDisconnect \/ TvLinkChanges
    \/ \E which \in {"connect", "scan"}, set \in BOOLEAN : TvSetCallback(which, set)
    \/ TvGetScanResult \/ TvGiven \/ TvSaved
    \/ \E len \in TvCounts : TvScanned(len)

-----------------------------------------------------------------------------
(* Scan results have one owner: across any sequence of scans, retrievals    *)
(* and restarts of the module, the array the application is given is not    *)
(* freed by the next scan or given twice, its length is the one reported,   *)
(* and an array is kept only while g_saved_aps names it (none is leaked).   *)
ResultsHaveOneOwner ==
    /\ TvTypeOK /\ tv_told # "wrong"
    /\ \A a \in TvArrays : tv_arrays[a].state = "kept" <=> a = tv_saved /\ tv_save = TvIdle
    /\ tv_save = TvIdle => TvRight(tv_saved, tv_count)
=============================================================================
