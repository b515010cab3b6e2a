---------------------------- MODULE TizenRtWatch ----------------------------
(* The online-status watches of the TizenRT network module                  *)
(* (connectivity/network/tizenrt_network.c): one thread pings every watched *)
(* host.  It is created by the first add, told to quit and joined by the    *)
(* removal of the last watch, and shares g_watch_data with the callers.     *)
(* What a mutex-protected section does is one step; the reads of the global *)
(* pointer before the lock and the join after the unlock are steps apart.   *)
EXTENDS Naturals, FiniteSets

CONSTANTS
    TwCallers,   \* the application's threads
    TwWatches,   \* the handles os_network_add_watch_online_status can return
    TwUnusual    \* what the application and the system do beyond the normal

(* "race"    a call begins while another one is under way                   *)
(* "unknown" remove is given a handle that is not in the list               *)
(* "fails"   init_watch_online_status fails                                 *)
(* "nomem"   artik_list_add fails                                           *)

VARIABLES
    tw_data,     \* g_watch_data: "null", "live", or "stale": freed and not reset
    tw_list,     \* monitored_servers: a function from the listed watches
    tw_quit,     \* g_watch_data->quit
    tw_thread,   \* the watch thread: "none", "runs" or "ended"
    tw_locked,   \* the caller that returned with the mutex held, or "nobody"
    tw_call,     \* what each caller is in the middle of
    tw_told,     \* the last status told for each watch, "none" before any
    tw_wrong     \* something touched freed memory

twvars == <<tw_data, tw_list, tw_quit, tw_thread, tw_locked, tw_call, tw_told, tw_wrong>>

TwIdle == [op |-> "idle"]
TwEcho == [resolved : BOOLEAN, force : BOOLEAN, online : BOOLEAN, waiting : BOOLEAN]

TwTypeOK ==
    /\ tw_data \in {"null", "live", "stale"}
    /\ DOMAIN tw_list \subseteq TwWatches
    /\ \A w \in DOMAIN tw_list : tw_list[w] \in TwEcho
    /\ tw_quit \in BOOLEAN /\ tw_wrong \in BOOLEAN
    /\ tw_thread \in {"none", "runs", "ended"}
    /\ tw_locked \in TwCallers \cup {"nobody"}
    /\ \A c \in TwCallers : tw_call[c].op \in {"idle", "add", "remove", "join", "joinadd"}
    /\ tw_told \in [TwWatches -> {"none", "online", "offline"}]

TwInit ==
    /\ tw_data = "null" /\ tw_list = [w \in {} |-> 0] /\ tw_quit = FALSE
    /\ tw_thread = "none" /\ tw_locked = "nobody" /\ tw_wrong = FALSE
    /\ tw_call = [c \in TwCallers |-> TwIdle]
    /\ tw_told = [w \in TwWatches |-> "none"]

TwMayCall(c) ==
    /\ tw_call[c] = TwIdle
    /\ "race" \in TwUnusual \/ \A d \in TwCallers : tw_call[d] = TwIdle

(* The mutex is recursive: its owner passes.                                *)
TwMayLock(c) == tw_locked \in {"nobody", c}

TwSet(c, call) == tw_call' = [tw_call EXCEPT ![c] = call]

(* echo_t of a new watch: unresolved, to be notified whatever the status is *)
TwNewEcho == [resolved |-> FALSE, force |-> TRUE, online |-> FALSE, waiting |-> FALSE]

TwWith(w) ==
    [v \in DOMAIN tw_list \cup {w} |-> IF v = w THEN TwNewEcho ELSE tw_list[v]]

(* The first add: init_watch_online_status creates the data and the thread  *)
(* with the mutex held until the watch is in the list.                      *)
TwAddFirst(c, w) ==
    /\ TwMayCall(c) /\ tw_data = "null"
    /\ \E ok \in BOOLEAN :
         /\ ~ok => "fails" \in TwUnusual
         /\ IF ok
            THEN /\ tw_data' = "live" /\ tw_quit' = FALSE /\ tw_thread' = "runs"
                 /\ tw_list' = TwWith(w) /\ tw_told' = [tw_told EXCEPT ![w] = "none"]
            ELSE /\ tw_data' = "stale"            \* freed, the pointer is kept
                 /\ UNCHANGED <<tw_list, tw_quit, tw_thread, tw_told>>
    /\ UNCHANGED <<tw_locked, tw_call, tw_wrong>>

(* A later add found the pointer set, and goes on to take the mutex.        *)
TwAddFound(c, w) ==
    /\ TwMayCall(c) /\ tw_data # "null" /\ w \notin DOMAIN tw_list
    /\ TwSet(c, [op |-> "add", w |-> w])
    /\ UNCHANGED <<tw_data, tw_list, tw_quit, tw_thread, tw_locked, tw_told, tw_wrong>>

(* The pointer read before the lock may be used after the data was freed.   *)
TwMisuse(c) ==
    /\ tw_wrong' = TRUE /\ TwSet(c, TwIdle)
    /\ UNCHANGED <<tw_list, tw_quit, tw_locked, tw_told>>

TwAdd(c) ==
    /\ tw_call[c].op = "add" /\ TwMayLock(c)
    /\ \E ok \in BOOLEAN :
         /\ ~ok => "nomem" \in TwUnusual
         /\ IF tw_data # "live" THEN TwMisuse(c)
            ELSE IF ok
            THEN LET w == tw_call[c].w IN
                 /\ tw_list' = TwWith(w) /\ tw_told' = [tw_told EXCEPT ![w] = "none"]
                 /\ TwSet(c, TwIdle) /\ UNCHANGED <<tw_quit, tw_locked, tw_wrong>>
            ELSE /\ tw_quit' = (tw_quit \/ DOMAIN tw_list = {})
                 /\ tw_locked' = IF DOMAIN tw_list = {} THEN tw_locked ELSE c
                 /\ TwSet(c, IF DOMAIN tw_list = {} THEN [op |-> "joinadd"] ELSE TwIdle)
                 /\ UNCHANGED <<tw_list, tw_told, tw_wrong>>
    /\ UNCHANGED <<tw_data, tw_thread>>

TwRemoveFound(c, w) ==
    /\ TwMayCall(c) /\ tw_data # "null"
    /\ w \in DOMAIN tw_list \/ "unknown" \in TwUnusual
    /\ TwSet(c, [op |-> "remove", w |-> w])
    /\ UNCHANGED <<tw_data, tw_list, tw_quit, tw_thread, tw_locked, tw_told, tw_wrong>>

(* Removing tells the thread to quit when one watch is left.                *)
MutTwLast(list) == Cardinality(DOMAIN list) = 1

(* Is the list empty, so that the thread has nothing to watch any more?     *)
TwLast(list) == DOMAIN list = {}

TwWithout(w) == [v \in DOMAIN tw_list \ {w} |-> tw_list[v]]

TwRemove(c) ==
    /\ tw_call[c].op = "remove" /\ TwMayLock(c)
    /\ LET w == tw_call[c].w IN
       IF tw_data # "live" THEN TwMisuse(c)
       ELSE IF w \notin DOMAIN tw_list
       THEN tw_locked' = c /\ TwSet(c, TwIdle) /\ UNCHANGED <<tw_list, tw_quit, tw_told, tw_wrong>>
       ELSE /\ tw_list' = TwWithout(w)
            /\ tw_quit' = (tw_quit \/ TwLast(tw_list'))
            /\ TwSet(c, IF TwLast(tw_list') THEN [op |-> "join"] ELSE TwIdle)
            /\ UNCHANGED <<tw_locked, tw_told, tw_wrong>>
    /\ UNCHANGED <<tw_data, tw_thread>>

(* pthread_join has returned: the mutex, the socket and the data go.        *)
TwJoined(c) ==
    /\ tw_call[c].op \in {"join", "joinadd"} /\ tw_thread = "ended"
    /\ IF tw_call[c].op = "join"
       THEN /\ tw_data' = "null" /\ tw_thread' = "none" /\ tw_list' = [w \in {} |-> 0]
            /\ tw_wrong' = (tw_wrong \/ tw_data # "live")
       ELSE UNCHANGED <<tw_data, tw_thread, tw_list, tw_wrong>>
    /\ TwSet(c, TwIdle)
    /\ UNCHANGED <<tw_quit, tw_locked, tw_told>>

-----------------------------------------------------------------------------
(* The thread.                                                              *)

(* notify_online_status_change: the watch as it becomes, and whether its    *)
(* callback is called.  A host told offline is resolved again.              *)
TwNotified(e, status) == [e EXCEPT !.resolved = status, !.force = FALSE, !.online = status]
TwTells(e, status) == e.force \/ e.online # status

(* What one pass can make of a watch: the name does not resolve; the echo   *)
(* cannot be sent; it is not yet time to send, or one is sent, or an answer *)
(* is being waited for; the delay has passed without an answer.             *)
TwPassed(e) ==
    LET resolved == [e EXCEPT !.resolved = TRUE] IN
    (IF e.resolved THEN {} ELSE {[echo |-> TwNotified(e, FALSE), tells |-> TwTells(e, FALSE)]})
    \cup {[echo |-> resolved, tells |-> FALSE],
          [echo |-> [resolved EXCEPT !.waiting = TRUE], tells |-> FALSE],
          [echo |-> [TwNotified(resolved, FALSE) EXCEPT !.waiting = TRUE],
           tells |-> TwTells(resolved, FALSE)]}

TwStatus(online) == IF online THEN "online" ELSE "offline"

(* The mutex is free: the thread takes it, handles the answer it selected   *)
(* for if there is one, and makes a pass over the watches.                  *)
TwPass ==
    /\ tw_thread = "runs" /\ tw_data = "live" /\ tw_locked = "nobody" /\ ~tw_quit
    /\ \E answers \in {{}} \cup {{w} : w \in {v \in DOMAIN tw_list : tw_list[v].waiting}} :
         LET heard == [w \in DOMAIN tw_list |->
                         IF w \in answers
                         THEN [TwNotified(tw_list[w], TRUE) EXCEPT !.waiting = FALSE]
                         ELSE tw_list[w]]
             told(w) == IF w \in answers /\ TwTells(tw_list[w], TRUE) THEN "online" ELSE tw_told[w]
         IN \E pass \in [DOMAIN tw_list -> UNION {TwPassed(heard[w]) : w \in DOMAIN tw_list}] :
              /\ \A w \in DOMAIN tw_list : pass[w] \in TwPassed(heard[w])
              /\ tw_list' = [w \in DOMAIN tw_list |-> pass[w].echo]
              /\ tw_told' = [w \in TwWatches |->
                               IF w \notin DOMAIN tw_list THEN tw_told[w]
                               ELSE IF pass[w].tells THEN "offline" ELSE told(w)]
    /\ UNCHANGED <<tw_data, tw_quit, tw_thread, tw_locked, tw_call, tw_wrong>>

TwEnds ==
    /\ tw_thread = "runs" /\ tw_data = "live" /\ tw_locked = "nobody" /\ tw_quit
    /\ tw_thread' = "ended"
    /\ UNCHANGED <<tw_data, tw_list, tw_quit, tw_locked, tw_call, tw_told, tw_wrong>>

TwNext ==
    \/ \E c \in TwCallers, w \in TwWatches :
         TwAddFirst(c, w) \/ TwAddFound(c, w) \/ TwRemoveFound(c, w)
    \/ \E c \in TwCallers : TwAdd(c) \/ TwRemove(c) \/ TwJoined(c)
    \/ TwPass \/ TwEnds

-----------------------------------------------------------------------------
(* Every watch an add has returned is served: as long as it is listed there *)
(* is one running thread that has not been told to quit, nothing has used   *)
(* the shared data after it was freed, no call has kept the mutex, and what *)
(* the application was last told of a watch is the status the thread holds. *)
WatchIsServed ==
    /\ TwTypeOK
    /\ ~tw_wrong /\ tw_locked = "nobody"
    /\ DOMAIN tw_list # {} => tw_data = "live" /\ tw_thread = "runs" /\ ~tw_quit
    /\ tw_thread = "runs" /\ (\A c \in TwCallers : tw_call[c].op # "join") => DOMAIN tw_list # {}
    /\ \A w \in DOMAIN tw_list :
         tw_told[w] = IF tw_list[w].force THEN "none" ELSE TwStatus(tw_list[w].online)
=============================================================================
