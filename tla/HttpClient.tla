----------------------------- MODULE HttpClient -----------------------------
(***************************************************************************)
(* The HTTP client on Linux (src/modules/connectivity/http/linux_http.c)   *)
(* with the OpenSSL engine of the secure element that it shares with the   *)
(* websocket client (base/security/linux_security.c).                      *)
(*                                                                         *)
(* A request runs in the thread that makes it, under one mutex for all     *)
(* threads that the first caller initialises.  An asynchronous request is  *)
(* an idle callback of the event loop, which makes the synchronous one and *)
(* reports the result.  libcurl is external: it calls ssl_ctx_callback for *)
(* every TLS connection that it opens.                                     *)
(***************************************************************************)
EXTENDS Integers, FiniteSets

CONSTANTS Apps,         \* threads of the application
          Loop,         \* the thread of the event loop
          SeThreads,    \* threads whose requests use the secure element
          Ids,          \* asynchronous requests
          MaxCalls,     \* bound: synchronous calls
          MaxRef        \* bound: openssl_engine_refcnt

Threads == Apps \cup {Loop}

ASSUME HttpAssumption == /\ Loop \notin Apps
                         /\ SeThreads \subseteq Threads
                         /\ MaxCalls \in Nat /\ MaxRef \in Nat
                         /\ 0 \notin Ids /\ IsFiniteSet(Ids)

VARIABLES
    lock_initialized,   \* static bool lock_initialized
    locked,             \* state of the static pthread_mutex_t lock
    pc,                 \* where each thread is in its request
    op,                 \* op[t]: the request in progress
    using,              \* threads whose connection uses the engine
    openssl_engine,     \* openssl_engine != NULL
    refcnt,             \* openssl_engine_refcnt
    websocket,          \* a websocket stream has loaded the engine
    interface,          \* interface[i]: "none", "queued", "running", "freed"
    asked,              \* asked[i]: what the idle callback will request
    answers,            \* answers[i]: calls of the response callback
    calls               \* synchronous calls so far

lock == <<lock_initialized, locked>>
security == <<openssl_engine, refcnt, websocket>>
async == <<interface, asked, answers>>
vars == <<lock, pc, op, using, security, async, calls>>

\* get, put and delete have the same control ("other").  se: the request uses
\* the secure element.  id: 0 if synchronous.
Methods == {"get_stream", "post", "other"}
Kinds == [method : Methods, se : BOOLEAN]
Requests == [method : Methods, se : BOOLEAN, id : Ids \cup {0}]

\* get_stream and post give the engine back before they unlock the mutex, the
\* others after it.
ReleasesFirst(method) == method \in {"get_stream", "post"}

Places == {"idle", "enter", "init", "lock", "critical", "transfer",
           "release", "test", "free", "return"}

\* A request takes the count down by one more than it took it up, at most.
MaxDrift == Cardinality(Ids) + (IF Apps \cap SeThreads = {} THEN 0 ELSE MaxCalls)

TypeOK == /\ {lock_initialized, locked, openssl_engine, websocket} \subseteq BOOLEAN
          /\ pc \in [Threads -> Places]
          /\ op \in [Threads -> Requests]
          /\ using \subseteq Threads
          /\ refcnt \in (-MaxDrift)..MaxRef
          /\ interface \in [Ids -> {"none", "queued", "running", "freed"}]
          /\ asked \in [Ids -> Kinds]
          /\ answers \in [Ids -> 0..1]
          /\ calls \in 0..MaxCalls

NoRequest == [method |-> "other", se |-> FALSE, id |-> 0]

Init == /\ lock_initialized = FALSE /\ locked = FALSE
        /\ pc = [t \in Threads |-> "idle"]
        /\ op = [t \in Threads |-> NoRequest]
        /\ using = {}
        /\ openssl_engine = FALSE /\ refcnt = 0 /\ websocket = FALSE
        /\ interface = [i \in Ids |-> "none"]
        /\ asked = [i \in Ids |-> [method |-> "other", se |-> FALSE]]
        /\ answers = [i \in Ids |-> 0]
        /\ calls = 0

Goes(t, place) == pc' = [pc EXCEPT ![t] = place]

-----------------------------------------------------------------------------
(* The engine: os_security_load_openssl_engine and its counterpart.        *)

\* Mutant of Load: the count decides, not the pointer.
MutLoad(ok) ==
    /\ refcnt' = IF refcnt > 0 \/ ok THEN refcnt + 1 ELSE refcnt
    /\ openssl_engine' = IF refcnt > 0 THEN openssl_engine ELSE ok

\* An engine that is there is shared; otherwise it is loaded, which may
\* fail and takes the count back.
Load(ok) ==
    /\ refcnt' = IF openssl_engine \/ ok THEN refcnt + 1 ELSE refcnt
    /\ openssl_engine' = (openssl_engine \/ ok)

\* The websocket client in the thread of the loop, setup_ssl_ctx and
\* os_websocket_close_stream.
WebsocketOpens ==
    /\ pc[Loop] = "idle"
    /\ ~websocket /\ refcnt < MaxRef
    /\ websocket' = TRUE
    /\ Load(TRUE)
    /\ UNCHANGED <<lock, pc, op, using, async, calls>>

WebsocketCloses ==
    /\ pc[Loop] = "idle"
    /\ websocket
    /\ websocket' = FALSE
    /\ refcnt' = refcnt - 1
    /\ openssl_engine' = (openssl_engine /\ refcnt # 1)
    /\ UNCHANGED <<lock, pc, op, using, async, calls>>

-----------------------------------------------------------------------------
(* Calls of the application.                                               *)

\* The first request of the process is made alone; the mutex it initialises
\* serves the later ones.
Orderly == lock_initialized \/ \A s \in Threads : pc[s] = "idle"

Enter(t, method, se, id) ==
    /\ pc[t] = "idle"
    /\ Orderly
    /\ se => t \in SeThreads
    /\ op' = [op EXCEPT ![t] = [method |-> method, se |-> se, id |-> id]]
    /\ Goes(t, "enter")

\* Synchronous requests of the threads other than the loop's; one made in a
\* callback of the loop runs like that of an idle callback.
Call(t, method) ==
    /\ calls < MaxCalls
    /\ calls' = calls + 1
    /\ \E se \in BOOLEAN : Enter(t, method, se, 0)
    /\ UNCHANGED <<lock, using, security, async>>

GetStream(t) == Call(t, "get_stream")
Get(t) == Call(t, "other")
Post(t) == Call(t, "post")
Put(t) == Call(t, "other")
Delete(t) == Call(t, "other")

\* An interface is filled and the idle callback registered.
Async(i, method) ==
    /\ interface[i] = "none"
    /\ interface' = [interface EXCEPT ![i] = "queued"]
    /\ \E se \in BOOLEAN :
         /\ se => Loop \in SeThreads
         /\ asked' = [asked EXCEPT ![i] = [method |-> method, se |-> se]]
    /\ UNCHANGED <<lock, pc, op, using, security, answers, calls>>

GetStreamAsync(i) == Async(i, "get_stream")
GetAsync(i) == Async(i, "other")
PostAsync(i) == Async(i, "post")
PutAsync(i) == Async(i, "other")
DeleteAsync(i) == Async(i, "other")

-----------------------------------------------------------------------------
(* mutex_lock()                                                            *)

TestInitialized(t) ==
    /\ pc[t] = "enter"
    /\ Goes(t, IF lock_initialized THEN "lock" ELSE "init")
    /\ UNCHANGED <<lock, op, using, security, async, calls>>

InitMutex(t) ==
    /\ pc[t] = "init"
    /\ lock_initialized' = TRUE /\ locked' = FALSE
    /\ Goes(t, "lock")
    /\ UNCHANGED <<op, using, security, async, calls>>

\* Mutant of LockMutex: the mutex is not honoured.
MutLockMutex(t) ==
    /\ pc[t] = "lock"
    /\ locked' = TRUE
    /\ Goes(t, "critical")
    /\ UNCHANGED <<lock_initialized, op, using, security, async, calls>>

LockMutex(t) ==
    /\ pc[t] = "lock"
    /\ ~locked
    /\ locked' = TRUE
    /\ Goes(t, "critical")
    /\ UNCHANGED <<lock_initialized, op, using, security, async, calls>>

-----------------------------------------------------------------------------
(* A request between mutex_lock() and its return.                          *)

\* Mutant of CurlFails: the error return forgets mutex_unlock().
MutCurlFails(t) ==
    /\ pc[t] = "critical"
    /\ Goes(t, "return")
    /\ UNCHANGED <<lock, op, using, security, async, calls>>

\* curl_easy_init fails: the engine was not loaded and is not released.
CurlFails(t) ==
    /\ pc[t] = "critical"
    /\ locked' = FALSE
    /\ Goes(t, "return")
    /\ UNCHANGED <<lock_initialized, op, using, security, async, calls>>

\* curl_easy_perform begins.
Begin(t) ==
    /\ pc[t] = "critical"
    /\ Goes(t, "transfer")
    /\ UNCHANGED <<lock, op, using, security, async, calls>>

\* ssl_ctx_callback, for the first connection or after a redirection.
SslCtxCallback(t) ==
    /\ pc[t] = "transfer" /\ op[t].se
    /\ refcnt < MaxRef
    /\ \E ok \in BOOLEAN :
         /\ Load(ok)
         /\ using' = IF openssl_engine \/ ok THEN using \cup {t} ELSE using
    /\ UNCHANGED <<lock, pc, op, websocket, async, calls>>

\* curl_easy_perform returns and curl is cleaned up; the mutex is still held
\* if the engine is given back first.
Finish(t) ==
    /\ pc[t] = "transfer"
    /\ using' = using \ {t}
    /\ locked' = (ReleasesFirst(op[t].method) /\ op[t].se)
    /\ Goes(t, IF op[t].se THEN "release" ELSE "return")
    /\ UNCHANGED <<lock_initialized, op, security, async, calls>>

\* release_openssl_engine, whether or not ssl_ctx_callback was called.
Release(t) ==
    /\ pc[t] = "release"
    /\ refcnt' = refcnt - 1
    /\ Goes(t, "test")
    /\ UNCHANGED <<lock, op, using, openssl_engine, websocket, async, calls>>

Unlocks(t) == locked' = IF ReleasesFirst(op[t].method) THEN FALSE ELSE locked

ReleaseTests(t) ==
    /\ pc[t] = "test"
    /\ \/ /\ openssl_engine /\ refcnt = 0
          /\ Goes(t, "free")
          /\ UNCHANGED locked
       \/ /\ ~(openssl_engine /\ refcnt = 0)
          /\ Goes(t, "return")
          /\ Unlocks(t)
    /\ UNCHANGED <<lock_initialized, op, using, security, async, calls>>

ReleaseFrees(t) ==
    /\ pc[t] = "free"
    /\ openssl_engine' = FALSE
    /\ Goes(t, "return")
    /\ Unlocks(t)
    /\ UNCHANGED <<lock_initialized, op, using, refcnt, websocket, async, calls>>

\* A synchronous request returns to its caller.
Return(t) ==
    /\ pc[t] = "return" /\ op[t].id = 0
    /\ Goes(t, "idle")
    /\ op' = [op EXCEPT ![t] = NoRequest]
    /\ UNCHANGED <<lock, using, security, async, calls>>

-----------------------------------------------------------------------------
(* The idle callbacks.                                                     *)

Process(i, method) ==
    /\ interface[i] = "queued" /\ asked[i].method = method
    /\ Enter(Loop, method, asked[i].se, i)
    /\ interface' = [interface EXCEPT ![i] = "running"]
    /\ UNCHANGED <<lock, using, security, asked, answers, calls>>

ProcessGetStream(i) == Process(i, "get_stream")
ProcessPost(i) == Process(i, "post")
\* os_http_process_get, _put and _delete.
ProcessOther(i) == Process(i, "other")

\* Mutant of Answer: the idle callback returns 1 and is called again.
MutAnswer ==
    LET i == op[Loop].id IN
    /\ pc[Loop] = "return" /\ i # 0
    /\ answers' = [answers EXCEPT ![i] = @ + 1]
    /\ interface' = [interface EXCEPT ![i] = "queued"]
    /\ Goes(Loop, "idle")
    /\ op' = [op EXCEPT ![Loop] = NoRequest]
    /\ UNCHANGED <<lock, using, security, asked, calls>>

\* The response callback is called, with the result or the error; the
\* interface is freed and the idle callback ends.
Answer ==
    LET i == op[Loop].id IN
    /\ pc[Loop] = "return" /\ i # 0
    /\ answers' = [answers EXCEPT ![i] = @ + 1]
    /\ interface' = [interface EXCEPT ![i] = "freed"]
    /\ Goes(Loop, "idle")
    /\ op' = [op EXCEPT ![Loop] = NoRequest]
    /\ UNCHANGED <<lock, using, security, asked, calls>>

Step(t) == \/ TestInitialized(t) \/ InitMutex(t) \/ LockMutex(t)
           \/ CurlFails(t) \/ Begin(t) \/ Finish(t)
           \/ Release(t) \/ ReleaseTests(t) \/ ReleaseFrees(t) \/ Return(t)

LoopStep == \/ Answer
            \/ \E i \in Ids : ProcessGetStream(i) \/ ProcessPost(i) \/ ProcessOther(i)

Next == \/ \E t \in Apps : GetStream(t) \/ Get(t) \/ Post(t) \/ Put(t) \/ Delete(t)
        \/ \E t \in Threads : SslCtxCallback(t) \/ Step(t)
        \/ \E i \in Ids : \/ GetStreamAsync(i) \/ GetAsync(i) \/ PostAsync(i)
                          \/ PutAsync(i) \/ DeleteAsync(i)
        \/ LoopStep \/ WebsocketOpens \/ WebsocketCloses

\* Threads go on, transfers end (libcurl gives up in the end), and the loop
\* comes to its idle callbacks.
Fairness == /\ \A t \in Threads : WF_vars(Step(t))
            /\ WF_vars(LoopStep)

Spec == Init /\ [][Next]_vars /\ Fairness

-----------------------------------------------------------------------------
(* Properties.                                                             *)

Holds(t) == \/ pc[t] \in {"critical", "transfer"}
            \/ pc[t] \in {"release", "test", "free"} /\ ReleasesFirst(op[t].method)

\* curl_global_init and curl_global_cleanup are not thread-safe: no thread
\* enters or leaves a request while another one is in its own.
\* While a connection uses the secure element its engine is loaded, even
\* though a request that fails before TLS, or whose loading fails, takes the
\* count below the number of users: the pointer decides, and the users of
\* the engine are in one thread.
EngineDuringTransfer ==
    /\ TypeOK
    /\ \A s, t \in Threads : Holds(s) /\ Holds(t) => s = t
    /\ using # {} => openssl_engine

\* The response callback of an asynchronous request is called exactly once,
\* whatever fails on the way: the interface is freed after it.
AnsweredOnce ==
    [][\A i \in Ids : answers'[i] # answers[i]
          => answers[i] = 0 /\ interface'[i] = "freed"]_vars

\* Every asynchronous request is answered, whatever the other threads ask.
AsyncAnswered == \A i \in Ids : interface[i] = "queued" ~> answers[i] = 1
=============================================================================
