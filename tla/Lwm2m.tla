-------------------------------- MODULE Lwm2m ---------------------------------
\* The service of LWM2M clients: by a thread on TizenRT, by the event loop on
\* Linux.
EXTENDS Naturals, FiniteSets

-----------------------------------------------------------------------------
(***************************************************************************)
(* An LWM2M client of TizenRT (lwm2m/tizenrt_lwm2m.c): its node, the       *)
(* service thread of its connection and the calls of the application,      *)
(* which run in another thread.                                            *)
(*                                                                         *)
(* The Wakaama client behind node->client is external: started by request, *)
(* serviced by the thread, stopped once.  What the application does under  *)
(* the node's mutex is one step; so is what the thread does under it.  The *)
(* mutex is recursive, so that callbacks may call the module, but not      *)
(* disconnect, which would join the calling thread.                        *)
(***************************************************************************)

CONSTANTS LtThreads,     \* 1 .. n, bound of the number of threads created
          LtUnusual      \* "early": release or connect after an event ended the
                         \*   connection and before its thread has ended
                         \* "again": connect without a started client
                         \* "failing": the thread of a connection is not created

ASSUME LtAssumption == IsFiniteSet(LtThreads) /\ LtThreads = 1 .. Cardinality(LtThreads)

LtEvents == {"error", "connect", "disconnect", "execute", "changed"}

VARIABLES lt_node,       \* "none", "listed"
          lt_state,      \* "init", "connect", "exit"
          lt_client,     \* "none", "open"
          lt_connected,
          lt_callbacks,  \* the callbacks that are set
          lt_mutex,      \* the mutex is initialized
          lt_thread,     \* program counter of each thread
          lt_joining,    \* the thread the application waits for, or 0
          lt_dropped,    \* history: an event ended the latest connection
          lt_misused     \* history: something freed or destroyed was used

ltvars == <<lt_node, lt_state, lt_client, lt_connected, lt_callbacks, lt_mutex,
            lt_thread, lt_joining, lt_dropped, lt_misused>>

LtAlive == {i \in LtThreads : lt_thread[i] \in {"check", "service", "ending"}}

LtCreated == Cardinality({i \in LtThreads : lt_thread[i] # "none"})

LtTypeOK ==
    /\ lt_node \in {"none", "listed"}
    /\ lt_state \in {"init", "connect", "exit"}
    /\ lt_client \in {"none", "open"}
    /\ lt_connected \in BOOLEAN /\ lt_mutex \in BOOLEAN
    /\ lt_dropped \in BOOLEAN /\ lt_misused \in BOOLEAN
    /\ lt_callbacks \subseteq LtEvents
    /\ lt_thread \in [LtThreads -> {"none", "check", "service", "ending", "ended"}]
    /\ lt_joining \in LtThreads \cup {0}

LtInit ==
    /\ lt_node = "none" /\ lt_state = "init" /\ lt_client = "none"
    /\ lt_connected = FALSE /\ lt_callbacks = {} /\ lt_mutex = FALSE
    /\ lt_thread = [i \in LtThreads |-> "none"]
    /\ lt_joining = 0 /\ lt_dropped = FALSE /\ lt_misused = FALSE

-----------------------------------------------------------------------------
(* The application *)

LtCalls == lt_node = "listed" /\ lt_joining = 0

\* A request that fails frees everything it made.
LtRequest ==
    /\ lt_node = "none" /\ lt_joining = 0
    /\ lt_node' = "listed" /\ lt_state' = "init" /\ lt_client' = "open"
    /\ lt_connected' = FALSE /\ lt_callbacks' = {} /\ lt_mutex' = TRUE
    /\ lt_dropped' = FALSE
    /\ UNCHANGED <<lt_thread, lt_joining, lt_misused>>

\* connect does not look at the state: it registers four callbacks with the
\* client and makes a thread.  When it cannot set the attributes of the thread
\* the state stays, when it cannot create the thread the state is "connect"; in
\* both cases it destroys the mutex and stops the client.
LtConnect(result) ==
    /\ LtCalls
    /\ result # "ok" => "failing" \in LtUnusual
    /\ "again" \notin LtUnusual => lt_client = "open" /\ lt_state # "connect"
    /\ "early" \notin LtUnusual /\ lt_dropped => LtAlive = {}
    /\ LtCreated < Cardinality(LtThreads)
    /\ lt_connected' = FALSE /\ lt_dropped' = FALSE
    /\ lt_misused' = (lt_misused \/ lt_client = "none")
    /\ lt_state' = IF result = "attributes" THEN lt_state ELSE "connect"
    /\ IF result = "ok"
       THEN /\ lt_thread' = [lt_thread EXCEPT ![LtCreated + 1] = "check"]
            /\ UNCHANGED <<lt_client, lt_mutex>>
       ELSE /\ lt_client' = "none" /\ lt_mutex' = FALSE
            /\ UNCHANGED lt_thread
    /\ UNCHANGED <<lt_node, lt_callbacks, lt_joining>>

MutLtDisconnect ==
    /\ LtCalls
    /\ lt_state' = IF lt_state = "connect" THEN "exit" ELSE lt_state
    /\ lt_misused' = (lt_misused \/ ~lt_mutex)
    /\ UNCHANGED <<lt_node, lt_client, lt_connected, lt_callbacks, lt_mutex,
                   lt_thread, lt_joining, lt_dropped>>

\* E_NOT_CONNECTED, or the thread is told to end and the caller waits for it.
LtDisconnect ==
    /\ LtCalls
    /\ lt_misused' = (lt_misused \/ ~lt_mutex)
    /\ IF lt_state = "connect"
       THEN lt_state' = "exit" /\ lt_joining' = LtCreated
       ELSE UNCHANGED <<lt_state, lt_joining>>
    /\ UNCHANGED <<lt_node, lt_client, lt_connected, lt_callbacks, lt_mutex, lt_thread,
                   lt_dropped>>

\* pthread_join returns, at once if there is no such thread.
LtJoined ==
    /\ lt_joining # 0
    /\ lt_thread[lt_joining] \notin {"check", "service", "ending"}
    /\ lt_joining' = 0
    /\ UNCHANGED <<lt_node, lt_state, lt_client, lt_connected, lt_callbacks,
                   lt_mutex, lt_thread, lt_dropped, lt_misused>>

\* A connected client is not released.  The client of one that was never
\* connected is not stopped.
LtRelease ==
    /\ LtCalls
    /\ "early" \notin LtUnusual /\ lt_dropped => LtAlive = {}
    /\ lt_misused' = (lt_misused \/ ~lt_mutex)
    /\ IF lt_state = "connect"
       THEN UNCHANGED <<lt_node, lt_mutex>>
       ELSE lt_node' = "none" /\ lt_mutex' = FALSE
    /\ UNCHANGED <<lt_state, lt_client, lt_connected, lt_callbacks, lt_thread,
                   lt_joining, lt_dropped>>

\* write_resource and read_resource go to the client while the state is
\* "connect".
LtAccess ==
    /\ LtCalls
    /\ lt_misused' = (lt_misused \/ ~lt_mutex
                        \/ (lt_state = "connect" /\ lt_client = "none"))
    /\ UNCHANGED <<lt_node, lt_state, lt_client, lt_connected, lt_callbacks, lt_mutex,
                   lt_thread, lt_joining, lt_dropped>>

LtSetCallback(e) ==
    /\ LtCalls
    /\ lt_callbacks' = lt_callbacks \cup {e}
    /\ lt_misused' = (lt_misused \/ ~lt_mutex)
    /\ UNCHANGED <<lt_node, lt_state, lt_client, lt_connected, lt_mutex, lt_thread,
                   lt_joining, lt_dropped>>

LtUnsetCallback(e) ==
    /\ LtCalls
    /\ lt_callbacks' = lt_callbacks \ {e}
    /\ lt_misused' = (lt_misused \/ ~lt_mutex)
    /\ UNCHANGED <<lt_node, lt_state, lt_client, lt_connected, lt_mutex, lt_thread,
                   lt_joining, lt_dropped>>

-----------------------------------------------------------------------------
(* The service thread *)

\* The condition of the loop.
LtCheck(i) ==
    /\ lt_thread[i] = "check"
    /\ lt_thread' = [lt_thread EXCEPT ![i] = IF lt_state = "connect" THEN "service"
                                             ELSE "ending"]
    /\ lt_misused' = (lt_misused \/ lt_node = "none")
    /\ UNCHANGED <<lt_node, lt_state, lt_client, lt_connected, lt_callbacks, lt_mutex,
                   lt_joining, lt_dropped>>

\* During lwm2m_client_service a resource is executed or changed.
LtEvent(i) ==
    /\ lt_thread[i] = "service"
    /\ lt_callbacks \cap {"execute", "changed"} # {}
    /\ lt_misused' = (lt_misused \/ lt_node = "none" \/ ~lt_mutex)
    /\ UNCHANGED <<lt_node, lt_state, lt_client, lt_connected, lt_callbacks, lt_mutex,
                   lt_thread, lt_joining, lt_dropped>>

\* lwm2m_client_service returns.  An end that comes when the application has
\* just asked for one sets the same state.  The flag connected is cleared only
\* if a callback is there.
LtService(i, result) ==
    /\ lt_thread[i] = "service"
    /\ lt_thread' = [lt_thread EXCEPT ![i] = "check"]
    /\ lt_misused' = (lt_misused \/ lt_node = "none" \/ lt_client = "none"
                        \/ (result # "ok" /\ ~lt_mutex))
    /\ IF result = "ok"
       THEN /\ lt_connected' = (lt_connected \/ "connect" \in lt_callbacks)
            /\ UNCHANGED <<lt_state, lt_dropped>>
       ELSE /\ lt_state' = "exit"
            /\ lt_dropped' = (lt_dropped \/ lt_state = "connect")
            /\ lt_connected' = (lt_connected /\ ~(/\ result = "disconnected"
                                                  /\ "disconnect" \in lt_callbacks))
    /\ UNCHANGED <<lt_node, lt_client, lt_callbacks, lt_mutex, lt_joining>>

\* The thread stops the client and ends.
LtEnd(i) ==
    /\ lt_thread[i] = "ending"
    /\ lt_thread' = [lt_thread EXCEPT ![i] = "ended"]
    /\ lt_client' = "none"
    /\ lt_misused' = (lt_misused \/ lt_node = "none" \/ ~lt_mutex \/ lt_client = "none")
    /\ UNCHANGED <<lt_node, lt_state, lt_connected, lt_callbacks, lt_mutex, lt_joining,
                   lt_dropped>>

-----------------------------------------------------------------------------

LtNext ==
    \/ LtRequest \/ LtDisconnect \/ LtJoined \/ LtRelease \/ LtAccess
    \/ \E result \in {"ok", "attributes", "create"} : LtConnect(result)
    \/ \E e \in LtEvents : LtSetCallback(e) \/ LtUnsetCallback(e)
    \/ \E i \in LtThreads :
          \/ LtCheck(i) \/ LtEvent(i) \/ LtEnd(i)
          \/ \E result \in {"ok", "quit", "error", "disconnected"} :
                 LtService(i, result)

\* A connection has one service thread and a client until that thread has ended:
\* no call and no thread uses a stopped client, a destroyed mutex or a freed
\* node, whatever event ends the connection while the application disconnects,
\* and no thread outlives its node.
ThreadOwnsClient ==
    /\ LtTypeOK
    /\ ~lt_misused
    /\ (lt_node = "listed" /\ lt_state = "connect") =>
           lt_client = "open" /\ Cardinality(LtAlive) = 1
    /\ lt_node = "none" => LtAlive = {}

-----------------------------------------------------------------------------
(***************************************************************************)
(* An LWM2M client of Linux (lwm2m/linux_lwm2m.c): its node, the idle      *)
(* callback that services the Wakaama client, and the idle callbacks by    *)
(* which events of the client reach the application.                       *)
(*                                                                         *)
(* Wakaama is external.  Its events may come from its receiving thread:    *)
(* add_idle_callback attaches the source first and stores its id in params *)
(* afterwards.  The services of the loop are those of LinuxLoop; a source  *)
(* is a number here, never used again, as in GLib.                         *)
(***************************************************************************)

CONSTANTS LlMaxSources,   \* bound of the number of idle sources
          LlUnusual       \* "again": connect while serviced, or on a stopped client
                          \* "busy": release while a source refers to the node
                          \* "thread": an event's callback runs before its id is stored

ASSUME LlAssumption == LlMaxSources \in Nat

VARIABLES ll_listed,      \* the node is in the list
          ll_client,      \* "none", "open", "stopped"
          ll_connected,
          ll_callbacks,   \* the callbacks that are set
          ll_service,     \* service_cbk_id, 0 before the first connect
          ll_sources,     \* attached sources: number -> "service", "new" (its id
                          \* is not stored yet) or "event"
          ll_count,       \* number of sources so far
          ll_misused      \* history: a freed node or a stopped client was used, or
                          \* a source of somebody else was removed

llvars == <<ll_listed, ll_client, ll_connected, ll_callbacks, ll_service,
            ll_sources, ll_count, ll_misused>>

LlEvents == {"error", "connect", "disconnect", "resource"}

LlAttached == DOMAIN ll_sources

LlServices == {k \in LlAttached : ll_sources[k] = "service"}

LlTypeOK ==
    /\ ll_listed \in BOOLEAN /\ ll_connected \in BOOLEAN /\ ll_misused \in BOOLEAN
    /\ ll_client \in {"none", "open", "stopped"}
    /\ ll_callbacks \subseteq LlEvents
    /\ ll_count \in 0 .. LlMaxSources
    /\ ll_service \in 0 .. ll_count
    /\ LlAttached \subseteq 1 .. ll_count
    /\ \A k \in LlAttached : ll_sources[k] \in {"service", "new", "event"}

LlInit ==
    /\ ll_listed = FALSE /\ ll_client = "none" /\ ll_connected = FALSE
    /\ ll_callbacks = {} /\ ll_service = 0
    /\ ll_sources = [k \in {} |-> "new"] /\ ll_count = 0
    /\ ll_misused = FALSE

-----------------------------------------------------------------------------

LlWithout(S) == [k \in LlAttached \ S |-> ll_sources[k]]

LlAttach(kind) ==
    /\ ll_count < LlMaxSources
    /\ ll_count' = ll_count + 1
    /\ ll_sources' = [k \in LlAttached \cup {ll_count + 1} |->
                         IF k \in LlAttached THEN ll_sources[k] ELSE kind]

\* A request whose client cannot be started leaves a node nobody knows of.
LlRequest ==
    /\ ~ll_listed
    /\ ll_listed' = TRUE /\ ll_client' = "open" /\ ll_connected' = FALSE
    /\ ll_callbacks' = {} /\ ll_service' = 0
    /\ UNCHANGED <<ll_sources, ll_count, ll_misused>>

\* release neither stops the client nor removes a source.
LlRelease ==
    /\ ll_listed
    /\ "busy" \notin LlUnusual => LlAttached = {}
    /\ ll_listed' = FALSE /\ ll_client' = "none"
    /\ UNCHANGED <<ll_connected, ll_callbacks, ll_service, ll_sources, ll_count, ll_misused>>

LlConnect ==
    /\ ll_listed
    /\ "again" \notin LlUnusual => LlServices = {} /\ ll_client = "open"
    /\ ll_connected' = FALSE
    /\ LlAttach("service") /\ ll_service' = ll_count'
    /\ ll_misused' = (ll_misused \/ ll_client # "open")
    /\ UNCHANGED <<ll_listed, ll_client, ll_callbacks>>

MutLlDisconnect ==
    /\ ll_listed
    /\ "again" \notin LlUnusual => ll_client = "open"
    /\ ll_client' = "stopped"
    /\ UNCHANGED <<ll_listed, ll_connected, ll_callbacks, ll_service, ll_sources,
                   ll_count, ll_misused>>

\* The client is stopped and the service removed, by remove_timeout_callback;
\* node->client stays set.  A failed connect ends so, too.
LlDisconnect ==
    /\ ll_listed
    /\ "again" \notin LlUnusual => ll_client = "open"
    /\ ll_misused' = (ll_misused \/ ll_client # "open")
    /\ ll_client' = "stopped"
    /\ ll_sources' = LlWithout({ll_service})
    /\ UNCHANGED <<ll_listed, ll_connected, ll_callbacks, ll_service, ll_count>>

\* write_resource and read_resource.
LlAccess ==
    /\ ll_listed
    /\ "again" \notin LlUnusual => ll_client = "open"
    /\ ll_misused' = (ll_misused \/ ll_client # "open")
    /\ UNCHANGED <<ll_listed, ll_client, ll_connected, ll_callbacks, ll_service,
                   ll_sources, ll_count>>

LlSetCallback(e) ==
    /\ ll_listed
    /\ ll_callbacks' = ll_callbacks \cup {e}
    /\ UNCHANGED <<ll_listed, ll_client, ll_connected, ll_service, ll_sources,
                   ll_count, ll_misused>>

LlUnsetCallback(e) ==
    /\ ll_listed
    /\ ll_callbacks' = ll_callbacks \ {e}
    /\ UNCHANGED <<ll_listed, ll_client, ll_connected, ll_service, ll_sources,
                   ll_count, ll_misused>>

-----------------------------------------------------------------------------
(* Callbacks *)

\* The service removes itself when the client quits or fails; a lost connection
\* is forgotten only if a callback is there to hear of it.
LlServiceCallback(k, result) ==
    /\ k \in LlServices
    /\ ll_misused' = (ll_misused \/ ~ll_listed \/ ll_client # "open")
    /\ ll_sources' = IF result = "end" THEN LlWithout({k}) ELSE ll_sources
    /\ ll_connected' = CASE result = "end" -> ll_connected
                         [] result = "disconnected" ->
                               ll_connected /\ "disconnect" \notin ll_callbacks
                         [] OTHER -> ll_connected \/ "connect" \in ll_callbacks
    /\ UNCHANGED <<ll_listed, ll_client, ll_callbacks, ll_service, ll_count>>

\* on_exec_* and on_resource_changed: a serviced client has an event.
LlEvent ==
    /\ LlServices # {} /\ ll_client = "open"
    /\ "resource" \in ll_callbacks
    /\ LlAttach("new")
    /\ UNCHANGED <<ll_listed, ll_client, ll_connected, ll_callbacks, ll_service, ll_misused>>

LlIdStored(k) ==
    /\ k \in LlAttached /\ ll_sources[k] = "new"
    /\ ll_sources' = [ll_sources EXCEPT ![k] = "event"]
    /\ UNCHANGED <<ll_listed, ll_client, ll_connected, ll_callbacks, ll_service,
                   ll_count, ll_misused>>

\* The application hears of the event if its callback is still set.  The source
\* whose id is in params is removed: any one, if that was not stored yet.
LlIdleCallback(k, id) ==
    /\ k \in LlAttached /\ ll_sources[k] # "service"
    /\ ll_sources[k] = "new" => "thread" \in LlUnusual
    /\ ll_sources[k] = "event" => id = k
    /\ ll_sources' = LlWithout({k, id})
    /\ ll_misused' = (ll_misused \/ ~ll_listed \/ (id # k /\ id \in LlAttached))
    /\ UNCHANGED <<ll_listed, ll_client, ll_connected, ll_callbacks, ll_service, ll_count>>

-----------------------------------------------------------------------------

LlNext ==
    \/ LlRequest \/ LlRelease \/ LlConnect \/ LlDisconnect \/ LlAccess \/ LlEvent
    \/ \E e \in LlEvents : LlSetCallback(e) \/ LlUnsetCallback(e)
    \/ \E k \in LlAttached :
          \/ \E result \in {"end", "disconnected", "ok"} : LlServiceCallback(k, result)
          \/ LlIdStored(k)
          \/ \E id \in 1 .. LlMaxSources : LlIdleCallback(k, id)

\* The loop services a client exactly while it may: the one source that does is
\* the one disconnect will remove, it is gone when the client is stopped, also
\* if the client ended by itself before, and no callback that is still to come
\* meets a freed node or takes the source of another one away.
ServiceEndsWithClient ==
    /\ LlTypeOK
    /\ ~ll_misused
    /\ LlServices \subseteq {ll_service}
    /\ LlServices # {} => ll_listed /\ ll_client = "open"
=============================================================================
