--------------------------- MODULE ClientsProofs ----------------------------
(***************************************************************************)
(* Proofs about the clients of Linux: HttpClient, for every number of threads *)
(* and requests; WebSocket, for every number of streams, addresses and     *)
(* messages; MqttClient, for every number of clients and connections.      *)
(*                                                                         *)
(* HTTP.  That every asynchronous request is answered once (AnsweredOnce)  *)
(* needs to know which request the thread of the loop is making (AsyncInv). *)
(* That no two threads are in a request at a time needs to know who may    *)
(* initialise the mutex: as long as it is not initialised one thread at most *)
(* has left "idle" (MutexInv).  That the engine stays while a connection uses *)
(* it is proved for programs that use the secure element in the thread of the *)
(* loop only (OneUser); with a second thread it is not true.  Then the count *)
(* falls below zero at most by the number of requests that have given the  *)
(* engine back (CountInv).                                                 *)
(*                                                                         *)
(* Websocket.  InOrder needs the slots: a message in a slot is newer than  *)
(* those that went through it (SlotInv).  AcceptedOnlyWhileConnected needs *)
(* the list of interfaces: the oldest node with the address of a connection *)
(* that is over is marked, also when the address was used again (MarkInv). *)
(* TimersEndWithStream holds while timeout_id names the only pong timeout  *)
(* (OneTimer), which needs a timeout that is shorter than the period and not *)
(* zero, and a loop that does not stall.                                   *)
(*                                                                         *)
(* MQTT.  A patient client, whose application waits for the end of its     *)
(* handlers before it connects again, has no handlers but those that its two *)
(* ids name (Named): that is why the one that destroys it removes them all. *)
(***************************************************************************)
EXTENDS HttpClient, WebSocket, MqttClient, FiniteSetTheorems, TLAPS

-----------------------------------------------------------------------------
(* HTTP.                                                                   *)

\* The types, without the bounds of the count.
Types == /\ {lock_initialized, locked, openssl_engine, websocket} \subseteq BOOLEAN
         /\ pc \in [Threads -> Places]
         /\ op \in [Threads -> Requests]
         /\ using \subseteq Threads
         /\ refcnt \in Int
         /\ interface \in [Ids -> {"none", "queued", "running", "freed"}]
         /\ asked \in [Ids -> Kinds]
         /\ answers \in [Ids -> 0..1]
         /\ calls \in 0..MaxCalls

\* The first request is alone until the mutex is initialised; who is inside
\* a request has locked it.
MutexInv ==
    /\ \A t \in Threads :
         /\ pc[t] = "init" => ~lock_initialized
         /\ pc[t] \notin {"idle", "enter", "init"} => lock_initialized
         /\ Holds(t) => locked
    /\ ~lock_initialized => \A s, t \in Threads :
                               pc[s] # "idle" /\ pc[t] # "idle" => s = t
    /\ \A s, t \in Threads : Holds(s) /\ Holds(t) => s = t

\* The thread of the loop is in a request of an idle callback or in none; a
\* request is answered when its interface is freed.
AsyncInv ==
    /\ \A i \in Ids : answers[i] = IF interface[i] = "freed" THEN 1 ELSE 0
    /\ pc[Loop] # "idle" => /\ op[Loop].id \in Ids
                            /\ interface[op[Loop].id] = "running"

\* Who uses the secure element, and what it finds there.
EngineInv ==
    /\ \A t \in Threads : op[t].se => t \in SeThreads
    /\ \A i \in Ids : asked[i].se => Loop \in SeThreads
    /\ \A t \in Threads : pc[t] \in {"release", "test", "free"} => op[t].se
    /\ \A t \in using : pc[t] = "transfer" /\ op[t].se
    /\ using # {} => openssl_engine

Inv == Types /\ MutexInv /\ AsyncInv

LEMMA InitInv == Init => Inv /\ EngineInv
<1> SUFFICES ASSUME Init PROVE Inv /\ EngineInv
  OBVIOUS
<1>1. Types
  <2>1. {lock_initialized, locked, openssl_engine, websocket} \subseteq BOOLEAN
    BY DEF Init
  <2>2. pc \in [Threads -> Places] /\ using \subseteq Threads
    BY DEF Init, Places
  <2>3. op \in [Threads -> Requests] /\ asked \in [Ids -> Kinds]
    BY DEF Init, NoRequest, Requests, Methods, Kinds
  <2>4. interface \in [Ids -> {"none", "queued", "running", "freed"}] /\ answers \in [Ids -> 0..1]
    BY DEF Init
  <2> QED BY <2>1, <2>2, <2>3, <2>4, HttpAssumption DEF Init, Types
<1>2. MutexInv
  BY DEF Init, MutexInv, Holds
<1>3. AsyncInv
  BY DEF Init, AsyncInv, Threads
<1>4. EngineInv
  BY DEF Init, EngineInv, NoRequest, Threads, Kinds
<1> QED BY <1>1, <1>2, <1>3, <1>4 DEF Inv

-----------------------------------------------------------------------------
(* A step is one of these, each with its thread or request.                *)

Proceeds(t) == \/ TestInitialized(t) \/ InitMutex(t) \/ LockMutex(t)
               \/ CurlFails(t) \/ Begin(t) \/ SslCtxCallback(t) \/ Finish(t)
               \/ Release(t) \/ ReleaseTests(t) \/ ReleaseFrees(t)

LEMMA Steps ==
    ASSUME [Next]_vars
    PROVE  \/ \E t \in Apps, method \in Methods : Call(t, method)
           \/ \E i \in Ids, method \in Methods : Process(i, method)
           \/ \E i \in Ids, method \in Methods : Async(i, method)
           \/ \E t \in Threads : Proceeds(t)
           \/ \E t \in Threads : Return(t)
           \/ Answer
           \/ WebsocketOpens
           \/ WebsocketCloses
           \/ UNCHANGED vars
BY DEF Next, LoopStep, Step, Proceeds, GetStream, Get, Post, Put, Delete, GetStreamAsync, GetAsync,
   PostAsync, PutAsync, DeleteAsync, ProcessGetStream, ProcessPost, ProcessOther, Methods

LEMMA TypesStep == Types /\ AsyncInv /\ [Next]_vars => Types'
<1> SUFFICES ASSUME Types, AsyncInv, [Next]_vars PROVE Types'
  OBVIOUS
<1> USE DEF Types
<1>1. ASSUME NEW t \in Apps, NEW method \in Methods, Call(t, method) PROVE Types'
  BY <1>1, HttpAssumption DEF Call, Enter, Goes, lock, security, async, Requests, Places, Threads
<1>2. ASSUME NEW i \in Ids, NEW method \in Methods, Process(i, method) PROVE Types'
  BY <1>2, HttpAssumption DEF Process, Enter, Goes, lock, security, Requests, Places, Threads, Kinds
<1>3. ASSUME NEW i \in Ids, NEW method \in Methods, Async(i, method) PROVE Types'
  BY <1>3, HttpAssumption DEF Async, lock, security, Kinds
<1>4. ASSUME NEW t \in Threads, Proceeds(t) PROVE Types'
  <2>1. CASE TestInitialized(t) \/ InitMutex(t) \/ LockMutex(t) \/ CurlFails(t) \/ Begin(t)
    BY <2>1 DEF TestInitialized, InitMutex, LockMutex, CurlFails, Begin, Goes,
       lock, security, async, Places
  <2>2. CASE SslCtxCallback(t)
    BY <2>2 DEF SslCtxCallback, Load, lock, async
  <2>3. CASE Finish(t)
    BY <2>3 DEF Finish, Goes, ReleasesFirst, security, async, Places, Requests
  <2>4. CASE Release(t)
    BY <2>4 DEF Release, Goes, lock, async, Places
  <2>5. CASE ReleaseTests(t) \/ ReleaseFrees(t)
    BY <2>5 DEF ReleaseTests, ReleaseFrees, Unlocks, Goes, security, async, Places
  <2> QED BY <1>4, <2>1, <2>2, <2>3, <2>4, <2>5 DEF Proceeds
<1>5. ASSUME NEW t \in Threads, Return(t) PROVE Types'
  BY <1>5, HttpAssumption DEF Return, Goes, NoRequest, lock, security, async, Requests, Places, Methods
<1>6. CASE Answer
  <2> PICK i \in Ids : i = op[Loop].id
    BY <1>6 DEF Answer, Threads, Requests
  <2>1. answers[i] = 0
    BY <1>6 DEF Answer, AsyncInv
  <2> QED BY <1>6, <2>1 DEF Answer, Goes, NoRequest, lock, security, Requests, Places, Methods, Threads
<1>7. CASE WebsocketOpens
  BY <1>7 DEF WebsocketOpens, Load, lock, async
<1>9. CASE WebsocketCloses
  <2>1. openssl_engine' \in BOOLEAN /\ websocket' \in BOOLEAN
    BY <1>9, Zenon DEF WebsocketCloses
  <2> QED BY <1>9, <2>1 DEF WebsocketCloses, lock, async
<1>8. CASE UNCHANGED vars
  BY <1>8 DEF vars, lock, security, async
<1> QED BY <1>1, <1>2, <1>3, <1>4, <1>5, <1>6, <1>7, <1>8, <1>9, Steps

-----------------------------------------------------------------------------
(* The mutex.                                                              *)

LEMMA MutexStep == Inv /\ [Next]_vars => MutexInv'
<1> SUFFICES ASSUME Inv, [Next]_vars PROVE MutexInv'
  OBVIOUS
<1>0. Types /\ MutexInv /\ AsyncInv
  BY DEF Inv
<1> DEFINE Same == UNCHANGED <<lock, pc, op>>
<1>1. ASSUME NEW t \in Threads, NEW method, NEW se, NEW id, Enter(t, method, se, id), UNCHANGED lock
      PROVE  MutexInv'
  BY <1>0, <1>1 DEF Types, MutexInv, Enter, Orderly, Goes, Holds, lock
<1>2. ASSUME NEW t \in Threads, Proceeds(t) PROVE MutexInv'
  <2>1. CASE TestInitialized(t)
    BY <1>0, <2>1 DEF Types, MutexInv, TestInitialized, Goes, Holds, lock
  <2>2. CASE InitMutex(t)
    BY <1>0, <2>2 DEF Types, MutexInv, InitMutex, Goes, Holds, lock
  <2>3. CASE LockMutex(t)
    BY <1>0, <2>3 DEF Types, MutexInv, LockMutex, Goes, Holds, lock
  <2>4. CASE CurlFails(t)
    BY <1>0, <2>4 DEF Types, MutexInv, CurlFails, Goes, Holds, lock
  <2>5. CASE Begin(t)
    BY <1>0, <2>5 DEF Types, MutexInv, Begin, Goes, Holds, lock
  <2>6. CASE Finish(t)
    BY <1>0, <2>6 DEF Types, MutexInv, Finish, Goes, Holds, lock
  <2>7. CASE Release(t)
    BY <1>0, <2>7 DEF Types, MutexInv, Release, Goes, Holds, lock
  <2>8. CASE ReleaseTests(t)
    <3>1. pc[t] = "test" /\ UNCHANGED <<lock_initialized, op>>
      BY <2>8 DEF ReleaseTests
    <3>2. CASE Goes(t, "free") /\ UNCHANGED locked
      BY <1>0, <3>1, <3>2 DEF Types, MutexInv, Goes, Holds
    <3>3. CASE Goes(t, "return") /\ Unlocks(t)
      BY <1>0, <3>1, <3>3 DEF Types, MutexInv, Unlocks, Goes, Holds
    <3> QED BY <2>8, <3>2, <3>3 DEF ReleaseTests
  <2>9. CASE ReleaseFrees(t)
    BY <1>0, <2>9 DEF Types, MutexInv, ReleaseFrees, Unlocks, Goes, Holds, lock
  <2>10. CASE SslCtxCallback(t)
    BY <1>0, <2>10 DEF MutexInv, SslCtxCallback, Holds, lock
  <2> QED BY <1>2, <2>1, <2>2, <2>3, <2>4, <2>5, <2>6, <2>7, <2>8, <2>9, <2>10 DEF Proceeds
<1>3. ASSUME NEW t \in Threads, Return(t) PROVE MutexInv'
  BY <1>0, <1>3 DEF Types, MutexInv, Return, Goes, Holds, lock
<1>4. CASE Answer
  BY <1>0, <1>4 DEF Types, MutexInv, Answer, Goes, Holds, lock, Threads
<1>5. CASE Same
  BY <1>0, <1>5 DEF MutexInv, Holds, lock
<1>6. WebsocketOpens \/ WebsocketCloses \/ UNCHANGED vars => Same
  BY DEF WebsocketOpens, WebsocketCloses, vars
<1>7. ASSUME NEW t \in Apps, NEW method \in Methods, Call(t, method) PROVE MutexInv'
  BY <1>1, <1>7 DEF Call, Threads
<1>8. ASSUME NEW i \in Ids, NEW method \in Methods, Process(i, method) PROVE MutexInv'
  BY <1>1, <1>8 DEF Process, Threads
<1>9. ASSUME NEW i \in Ids, NEW method \in Methods, Async(i, method) PROVE Same
  BY <1>9 DEF Async
<1> QED BY <1>2, <1>3, <1>4, <1>5, <1>6, <1>7, <1>8, <1>9, Steps

-----------------------------------------------------------------------------
(* The idle callbacks.                                                     *)

LEMMA AsyncStep == Inv /\ [Next]_vars => AsyncInv'
<1> SUFFICES ASSUME Inv, [Next]_vars PROVE AsyncInv'
  OBVIOUS
<1>0. Types /\ AsyncInv /\ Loop \in Threads /\ Loop \notin Apps
  BY HttpAssumption DEF Inv, Threads
<1> USE DEF Types, AsyncInv
<1>1. ASSUME NEW t \in Apps, NEW method \in Methods, Call(t, method) PROVE AsyncInv'
  BY <1>0, <1>1 DEF Call, Enter, Goes, async, Threads
<1>2. ASSUME NEW i \in Ids, NEW method \in Methods, Process(i, method) PROVE AsyncInv'
  BY <1>0, <1>2 DEF Process, Enter, Goes
<1>3. ASSUME NEW i \in Ids, NEW method \in Methods, Async(i, method) PROVE AsyncInv'
  BY <1>0, <1>3 DEF Async
<1>4. ASSUME NEW t \in Threads, Proceeds(t) PROVE AsyncInv'
  <2>1. pc[t] # "idle" /\ UNCHANGED <<op, async>> /\ (UNCHANGED pc \/ \E place : Goes(t, place))
    BY <1>4 DEF Proceeds, TestInitialized, InitMutex, LockMutex, CurlFails, Begin, SslCtxCallback,
       Finish, Release, ReleaseTests, ReleaseFrees
  <2> QED BY <1>0, <2>1 DEF Goes, async
<1>5. ASSUME NEW t \in Threads, Return(t) PROVE AsyncInv'
  BY <1>0, <1>5 DEF Return, Goes, async
<1>6. CASE Answer
  <2> PICK i \in Ids : i = op[Loop].id
    BY <1>0, <1>6 DEF Answer
  <2> QED BY <1>0, <1>6 DEF Answer, Goes
<1>7. CASE WebsocketOpens \/ WebsocketCloses \/ UNCHANGED vars
  BY <1>0, <1>7 DEF WebsocketOpens, WebsocketCloses, vars, async
<1> QED BY <1>1, <1>2, <1>3, <1>4, <1>5, <1>6, <1>7, Steps

LEMMA InvStep == Inv /\ [Next]_vars => Inv'
BY TypesStep, MutexStep, AsyncStep DEF Inv

LEMMA AnswerStep ==
    Inv /\ [Next]_vars => [\A i \in Ids : answers'[i] # answers[i]
                              => answers[i] = 0 /\ interface'[i] = "freed"]_vars
<1> SUFFICES ASSUME Inv, [Next]_vars, NEW i \in Ids, answers'[i] # answers[i]
             PROVE  answers[i] = 0 /\ interface'[i] = "freed"
  OBVIOUS
<1>1. Types /\ AsyncInv /\ Loop \in Threads
  BY DEF Inv, Threads
<1>2. Answer
  BY Steps DEF Call, Process, Async, Proceeds, TestInitialized, InitMutex, LockMutex, CurlFails,
     Begin, SslCtxCallback, Finish, Release, ReleaseTests, ReleaseFrees, Return, WebsocketOpens,
     WebsocketCloses, vars, async
<1>3. i = op[Loop].id
  BY <1>1, <1>2 DEF Answer, Types
<1> QED BY <1>1, <1>2, <1>3 DEF Answer, Types, AsyncInv

\* The response callback of an asynchronous request is called exactly once,
\* by the idle callback that made the request, and its interface is freed in
\* the same call, whatever failed on the way and whatever other threads ask.
THEOREM EachAnsweredOnce == Spec => AnsweredOnce
<1>1. Init => Inv
  BY InitInv
<1> QED BY <1>1, InvStep, AnswerStep, PTL DEF Spec, AnsweredOnce

-----------------------------------------------------------------------------
(* The engine.                                                             *)

\* The secure element is used in the thread of the loop only.
OneUser == SeThreads \subseteq {Loop}

LEMMA EngineStep == OneUser /\ Inv /\ EngineInv /\ [Next]_vars => EngineInv'
<1> SUFFICES ASSUME OneUser, Inv, EngineInv, [Next]_vars PROVE EngineInv'
  OBVIOUS
<1>0. Types /\ Loop \in Threads /\ Loop \notin Apps
  BY HttpAssumption DEF Inv, Threads
<1>1. \A t \in Threads : op[t].se => t = Loop
  BY DEF OneUser, EngineInv
<1> USE DEF Types, EngineInv
<1>2. ASSUME NEW t \in Apps, NEW method \in Methods, Call(t, method) PROVE EngineInv'
  BY <1>0, <1>2 DEF Call, Enter, Goes, security, async, Threads
<1>3. ASSUME NEW i \in Ids, NEW method \in Methods, Process(i, method) PROVE EngineInv'
  BY <1>0, <1>3 DEF Process, Enter, Goes, security
<1>4. ASSUME NEW i \in Ids, NEW method \in Methods, Async(i, method) PROVE EngineInv'
  BY <1>0, <1>4 DEF Async, security
<1>5. ASSUME NEW t \in Threads, Proceeds(t) PROVE EngineInv'
  <2>1. CASE TestInitialized(t) \/ InitMutex(t) \/ LockMutex(t) \/ CurlFails(t) \/ Begin(t)
    BY <1>0, <2>1 DEF TestInitialized, InitMutex, LockMutex, CurlFails, Begin, Goes, security, async
  <2>2. CASE SslCtxCallback(t)
    BY <1>0, <2>2 DEF SslCtxCallback, Load, async
  <2>3. CASE Finish(t)
    BY <1>0, <2>3 DEF Finish, Goes, security, async
  <2>4. CASE Release(t)
    BY <1>0, <2>4 DEF Release, Goes, async
  <2>5. CASE ReleaseTests(t)
    BY <1>0, <2>5 DEF ReleaseTests, Goes, security, async
  <2>6. CASE ReleaseFrees(t)
    <3>1. using = {}
      BY <1>0, <1>1, <2>6 DEF ReleaseFrees
    <3> QED BY <1>0, <2>6, <3>1 DEF ReleaseFrees, Goes, async
  <2> QED BY <1>5, <2>1, <2>2, <2>3, <2>4, <2>5, <2>6 DEF Proceeds
<1>6. ASSUME NEW t \in Threads, Return(t) PROVE EngineInv'
  BY <1>0, <1>6 DEF Return, Goes, NoRequest, security, async
<1>7. CASE Answer
  BY <1>0, <1>7 DEF Answer, Goes, NoRequest, security
<1>8. CASE WebsocketOpens
  BY <1>0, <1>8 DEF WebsocketOpens, Load, async
<1>9. CASE WebsocketCloses
  <2>1. using = {}
    BY <1>0, <1>1, <1>9 DEF WebsocketCloses
  <2> QED BY <1>0, <1>9, <2>1 DEF WebsocketCloses, async
<1>10. CASE UNCHANGED vars
  BY <1>10 DEF vars, security, async
<1> QED BY <1>2, <1>3, <1>4, <1>5, <1>6, <1>7, <1>8, <1>9, <1>10, Steps

\* The requests that may have taken the count down.
Released == {i \in Ids : \/ interface[i] = "freed"
                         \/ pc[Loop] \in {"test", "free", "return"} /\ i = op[Loop].id}

\* Beyond the websocket's reference the count lacks one for each of them at
\* most.
CountInv == /\ refcnt <= MaxRef
            /\ refcnt + Cardinality(Released) >= IF websocket THEN 1 ELSE 0

LEMMA ReleasedFinite == IsFiniteSet(Released) /\ Cardinality(Released) \in Nat
BY HttpAssumption, FS_Subset, FS_CardinalityType DEF Released

LEMMA CountStep == OneUser /\ Inv /\ EngineInv /\ CountInv /\ [Next]_vars => CountInv'
<1> SUFFICES ASSUME OneUser, Inv, EngineInv, CountInv, [Next]_vars PROVE CountInv'
  OBVIOUS
<1>0. /\ Types /\ AsyncInv /\ Loop \in Threads /\ Loop \notin Apps /\ MaxRef \in Nat
      /\ refcnt \in Int /\ refcnt' \in Int
  BY HttpAssumption, TypesStep DEF Inv, Threads, Types
<1>1. \A t \in Threads : op[t].se => t = Loop
  BY DEF OneUser, EngineInv
<1>2. IsFiniteSet(Released) /\ Cardinality(Released) \in Nat /\ Released \subseteq Ids
  BY ReleasedFinite DEF Released
<1>3. IsFiniteSet(Released') /\ Cardinality(Released') \in Nat
  BY HttpAssumption, FS_Subset, FS_CardinalityType DEF Released
<1>4. ASSUME Released \subseteq Released' PROVE Cardinality(Released) <= Cardinality(Released')
  BY <1>3, <1>4, FS_Subset
<1>5. ASSUME Released \subseteq Released', UNCHANGED <<refcnt, websocket>> PROVE CountInv'
  BY <1>0, <1>2, <1>3, <1>4, <1>5 DEF CountInv
<1>6. ASSUME NEW t \in Apps, NEW method \in Methods, Call(t, method) PROVE CountInv'
  <2>1. Released \subseteq Released'
    BY <1>0, <1>6 DEF Call, Enter, Goes, Released, async, Types, Threads
  <2> QED BY <1>5, <1>6, <2>1 DEF Call, security
<1>7. ASSUME NEW i \in Ids, NEW method \in Methods, Process(i, method) PROVE CountInv'
  <2>1. Released \subseteq Released'
    BY <1>0, <1>7 DEF Process, Enter, Goes, Released, Types
  <2> QED BY <1>5, <1>7, <2>1 DEF Process, security
<1>8. ASSUME NEW i \in Ids, NEW method \in Methods, Async(i, method) PROVE CountInv'
  <2>1. Released \subseteq Released'
    BY <1>0, <1>8 DEF Async, Released, Types
  <2> QED BY <1>5, <1>8, <2>1 DEF Async, security
<1>9. ASSUME NEW t \in Threads, Proceeds(t) PROVE CountInv'
  <2>1. CASE Release(t)
    <3> PICK i \in Ids : i = op[Loop].id
      BY <1>0, <2>1, <1>1 DEF Release, AsyncInv, EngineInv
    <3>1. t = Loop /\ i \notin Released /\ Released' = Released \cup {i}
      BY <1>0, <1>1, <2>1 DEF Release, Goes, Released, EngineInv, AsyncInv, Types, async
    <3>2. Cardinality(Released') = Cardinality(Released) + 1
      BY <1>2, <3>1, FS_AddElement
    <3> QED BY <1>0, <1>2, <2>1, <3>2 DEF CountInv, Release
  <2>2. CASE SslCtxCallback(t)
    <3>1. Released' = Released
      BY <2>2 DEF SslCtxCallback, Released, async
    <3> QED BY <1>0, <1>2, <2>2, <3>1 DEF CountInv, SslCtxCallback, Load
  <2>3. CASE ~Release(t) /\ ~SslCtxCallback(t)
    <3>1. /\ UNCHANGED <<refcnt, websocket, op, async>>
          /\ \E place : Goes(t, place) /\ (pc[t] \in {"test", "free", "return"} => place \in {"free", "return"})
      BY <1>9, <2>3 DEF Proceeds, TestInitialized, InitMutex, LockMutex, CurlFails, Begin,
         Finish, ReleaseTests, ReleaseFrees, security
    <3>2. Released \subseteq Released'
      BY <1>0, <3>1 DEF Goes, Released, async, Types
    <3> QED BY <1>5, <3>1, <3>2
  <2> QED BY <2>1, <2>2, <2>3
<1>10. ASSUME NEW t \in Threads, Return(t) PROVE CountInv'
  <2>1. Released \subseteq Released'
    BY <1>0, <1>10, HttpAssumption DEF Return, Goes, Released, async, Types, AsyncInv
  <2> QED BY <1>5, <1>10, <2>1 DEF Return, security
<1>11. CASE Answer
  <2> PICK i \in Ids : i = op[Loop].id
    BY <1>0, <1>11 DEF Answer, AsyncInv
  <2>1. Released \subseteq Released'
    BY <1>0, <1>11 DEF Answer, Goes, Released, Types
  <2> QED BY <1>5, <1>11, <2>1 DEF Answer, security
<1>12. CASE WebsocketOpens
  <2>1. Released' = Released
    BY <1>12 DEF WebsocketOpens, Released, async
  <2> QED BY <1>0, <1>2, <1>12, <2>1 DEF CountInv, WebsocketOpens, Load
<1>13. CASE WebsocketCloses
  <2>1. Released' = Released
    BY <1>13 DEF WebsocketCloses, Released, async
  <2> QED BY <1>0, <1>2, <1>13, <2>1 DEF CountInv, WebsocketCloses
<1>14. CASE UNCHANGED vars
  <2>1. Released' = Released
    BY <1>14 DEF vars, Released, async
  <2> QED BY <1>5, <1>14, <2>1 DEF vars, security
<1> QED BY <1>6, <1>7, <1>8, <1>9, <1>10, <1>11, <1>12, <1>13, <1>14, Steps

\* No two threads are inside a request at a time, and the engine is there as
\* long as a connection uses it, if the secure element is used in the thread
\* of the loop only: failed loads and requests that never loaded it make the
\* count drift, by one for each request at most.
THEOREM EngineStays ==
    ASSUME SeThreads \subseteq {Loop}
    PROVE  Spec => []EngineDuringTransfer
<1>1. OneUser
  BY DEF OneUser
<1>2. Init => Inv /\ EngineInv /\ CountInv
  <2> SUFFICES ASSUME Init PROVE CountInv
    BY InitInv
  <2> QED BY ReleasedFinite, HttpAssumption DEF Init, CountInv
<1>3. Inv /\ EngineInv /\ CountInv /\ [Next]_vars => (Inv /\ EngineInv /\ CountInv)'
  BY <1>1, InvStep, EngineStep, CountStep
<1>4. Inv /\ EngineInv /\ CountInv => EngineDuringTransfer
  <2> SUFFICES ASSUME Inv, EngineInv, CountInv PROVE EngineDuringTransfer
    OBVIOUS
  <2>1. /\ Cardinality(Released) \in Nat /\ Cardinality(Ids) \in Nat
        /\ Cardinality(Released) <= Cardinality(Ids)
    BY ReleasedFinite, HttpAssumption, FS_Subset, FS_CardinalityType DEF Released
  <2>2. MaxDrift = Cardinality(Ids)
    BY <2>1, HttpAssumption DEF MaxDrift
  <2>3. refcnt \in (-MaxDrift)..MaxRef
    BY <2>1, <2>2, HttpAssumption DEF CountInv, Inv, Types
  <2>4. TypeOK
    BY <2>3 DEF TypeOK, Inv, Types
  <2> QED BY <2>4 DEF EngineDuringTransfer, Inv, MutexInv, EngineInv
<1> QED BY <1>2, <1>3, <1>4, PTL DEF Spec

-----------------------------------------------------------------------------
(* Websocket.                                                              *)

-----------------------------------------------------------------------------
(* Sequences of messages.                                                  *)

LEMMA Bounds == MaxMsgs \in Nat /\ MaxOpens \in Nat
BY WebSocketAssumption

Below(s, n) == \A i \in DOMAIN s : s[i] \in 1..n

\* A number that is greater than all others keeps a sequence increasing.
LEMMA AppendIncreases ==
    ASSUME NEW s \in Seq(Nat), NEW n \in Nat \ {0}, Below(s, n), Increasing(s), \A i \in DOMAIN s : s[i] < n
    PROVE  Increasing(Append(s, n)) /\ Below(Append(s, n), n) /\ Append(s, n) \in Seq(Nat)
BY DEF Increasing, Below

LEMMA BelowBound ==
    ASSUME NEW s \in Seq(Nat), NEW n \in Nat, n <= MaxMsgs, Below(s, n)
    PROVE  s \in Seq(1..MaxMsgs)
<1>1. \A i \in 1..Len(s) : s[i] \in 1..n
  BY DEF Below
<1>2. \A i \in 1..Len(s) : s[i] \in 1..MaxMsgs
  BY <1>1, Bounds
<1> DEFINE T == 1..MaxMsgs
<1>3. \A i \in 1..Len(s) : s[i] \in T
  BY <1>2
<1> HIDE DEF T
<1>4. s \in Seq(T)
  BY <1>3
<1> QED BY <1>4 DEF T

\* The numbers of the messages, and the two slots.
SlotInv ==
    /\ written \in Nat /\ arrived \in Nat
    /\ written <= MaxMsgs /\ arrived <= MaxMsgs
    /\ send_message \in 0..written /\ receive_message \in 0..arrived
    /\ sent \in Seq(Nat) /\ Increasing(sent) /\ Below(sent, written)
    /\ delivered \in Seq(Nat) /\ Increasing(delivered) /\ Below(delivered, arrived)
    /\ send_message # 0 => \A i \in DOMAIN sent : sent[i] < send_message
    /\ receive_message # 0 /\ "RECEIVE" \in efd =>
          \A i \in DOMAIN delivered : delivered[i] < receive_message

LEMMA SlotInit == WsInit => SlotInv
<1> SUFFICES ASSUME WsInit PROVE SlotInv
  OBVIOUS
<1>1. <<>> \in Seq(Nat) /\ Increasing(<<>>) /\ \A n : Below(<<>>, n)
  BY DEF Increasing, Below
<1>2. /\ written \in Nat /\ arrived \in Nat /\ written <= MaxMsgs /\ arrived <= MaxMsgs
      /\ send_message \in 0..written /\ receive_message \in 0..arrived
  <2>1. written = 0 /\ arrived = 0 /\ send_message = 0 /\ receive_message = 0
    BY DEF WsInit
  <2> QED BY <2>1, Bounds
<1> QED BY <1>1, <1>2 DEF WsInit, SlotInv

\* What a step does to the slots: nothing, or it empties them, or it is one of
\* the four that move a message.
LEMMA SlotSteps ==
    ASSUME [WsNext]_wsvars
    PROVE  \/ Write \/ Writeable \/ Receive \/ Deliver
           \/ /\ UNCHANGED <<written, sent, arrived, delivered>>
              /\ send_message' \in {0, send_message}
              /\ receive_message' \in {0, receive_message}
              /\ "RECEIVE" \in efd' => "RECEIVE" \in efd
<1> DEFINE Same == /\ UNCHANGED <<written, sent, arrived, delivered>>
                   /\ send_message' \in {0, send_message}
                   /\ receive_message' \in {0, receive_message}
                   /\ "RECEIVE" \in efd' => "RECEIVE" \in efd
<1>1. CASE Request \/ ReleaseHandle \/ OpenConnectFails \/ TimerAfterEnd \/ UNCHANGED wsvars
  BY <1>1 DEF Request, ReleaseHandle, OpenConnectFails, TimerAfterEnd, wsvars, loop, data
<1>2. CASE Close \/ \E w \in Wsis : Open(w)
  BY <1>2 DEF Close, Open, Fresh
<1>3. CASE \/ SetConnectionCallback \/ ClearConnectionCallback
           \/ \E set \in BOOLEAN : SetReceiveCallback(set)
  BY <1>3 DEF SetConnectionCallback, ClearConnectionCallback, SetReceiveCallback, data
<1>4. CASE Established \/ ReceivePong \/ SslAlert
  <2>1. UNCHANGED data /\ (efd' = efd \/ \E e \in {"CONNECT", "ERROR"} : efd' = efd \cup {e})
    BY <1>4, Zenon DEF Established, ReceivePong, SslAlert
  <2> QED BY <2>1 DEF data
<1>5. CASE ConnectionError \/ PeerCloses
  BY <1>5 DEF ConnectionError, PeerCloses, Destroyed, data
<1>6. CASE Ping \/ PongTimeoutFires
  BY <1>6 DEF Ping, PongTimeoutFires, data
<1>7. CASE NotifyClose \/ NotifyConnect \/ NotifyError \/ NotifyConnectionError
  <2> PICK e : Notify(e)
    BY <1>7 DEF NotifyClose, NotifyConnect, NotifyError, NotifyConnectionError
  <2> QED BY DEF Notify, data
<1> QED BY <1>1, <1>2, <1>3, <1>4, <1>5, <1>6, <1>7 DEF WsNext, App, Lws, LoopRuns

LEMMA SlotStep == SlotInv /\ [WsNext]_wsvars => SlotInv'
<1> SUFFICES ASSUME SlotInv, [WsNext]_wsvars PROVE SlotInv'
  OBVIOUS
<1>0. MaxMsgs \in Nat
  BY Bounds
<1> USE DEF SlotInv, Below
<1>1. CASE Write
  <2>1. /\ UNCHANGED <<sent, arrived, delivered, receive_message, efd>>
        /\ \/ UNCHANGED <<send_message, written>>
           \/ written < MaxMsgs /\ written' = written + 1 /\ send_message' = written + 1
    BY <1>1 DEF Write, loop
  <2> QED BY <1>0, <2>1
<1>2. CASE Writeable
  <2>1. /\ sent' = Append(sent, send_message) /\ send_message' = 0 /\ send_message # 0
        /\ UNCHANGED <<written, arrived, delivered, receive_message, efd>>
    BY <1>2 DEF Writeable, loop
  <2>2. /\ send_message \in Nat \ {0} /\ sent \in Seq(Nat) /\ Increasing(sent)
        /\ Below(sent, send_message) /\ \A i \in DOMAIN sent : sent[i] < send_message
    BY <2>1
  <2>3. /\ Increasing(Append(sent, send_message)) /\ Append(sent, send_message) \in Seq(Nat)
        /\ Below(Append(sent, send_message), send_message)
    BY <2>2, AppendIncreases
  <2>4. Below(sent', written')
    <3>1. send_message <= written /\ send_message \in Nat /\ written \in Nat /\ written' = written
      BY <2>1
    <3> QED BY <2>1, <2>3, <3>1
  <2> QED BY <2>1, <2>3, <2>4
<1>3. CASE Receive
  <2>1. /\ arrived < MaxMsgs /\ arrived' = arrived + 1 /\ receive_message' = arrived + 1
        /\ UNCHANGED <<sent, delivered, written, send_message>>
    BY <1>3 DEF Receive
  <2> QED BY <1>0, <2>1
<1>4. CASE Deliver
  <2>1. /\ "RECEIVE" \in efd /\ "RECEIVE" \notin efd' /\ receive_message # 0
        /\ delivered' = Append(delivered, receive_message)
        /\ UNCHANGED <<written, sent, arrived, send_message, receive_message>>
    BY <1>4 DEF Deliver
  <2>2. /\ receive_message \in Nat \ {0} /\ delivered \in Seq(Nat) /\ Increasing(delivered)
        /\ Below(delivered, receive_message)
        /\ \A i \in DOMAIN delivered : delivered[i] < receive_message
    BY <2>1
  <2>3. /\ Increasing(Append(delivered, receive_message))
        /\ Append(delivered, receive_message) \in Seq(Nat)
        /\ Below(Append(delivered, receive_message), receive_message)
    BY <2>2, AppendIncreases
  <2>4. Below(delivered', arrived')
    <3>1. /\ receive_message <= arrived /\ receive_message \in Nat /\ arrived \in Nat
          /\ arrived' = arrived
      BY <2>1
    <3> QED BY <2>1, <2>3, <3>1
  <2> QED BY <2>1, <2>3, <2>4
<1>5. CASE /\ UNCHANGED <<written, sent, arrived, delivered>>
           /\ send_message' \in {0, send_message}
           /\ receive_message' \in {0, receive_message}
           /\ "RECEIVE" \in efd' => "RECEIVE" \in efd
  BY <1>0, <1>5
<1> QED BY <1>1, <1>2, <1>3, <1>4, <1>5, SlotSteps

\* Messages go out, and come in, at most once and in the order in which they
\* were written: a slot that is overwritten loses the older message.
THEOREM MessagesInOrder == WsSpec => []InOrder
<1>1. SlotInv => InOrder
  BY DEF SlotInv, InOrder
<1> QED BY <1>1, SlotInit, SlotStep, PTL DEF WsSpec

-----------------------------------------------------------------------------
(* The list of interfaces.                                                 *)

Interfaces == [wsi : Wsis, error_connect : BOOLEAN]

\* The oldest node with the address of a connection that is over is marked.
MarkInv ==
    /\ handle \in BOOLEAN /\ stream \in BOOLEAN
    /\ opens \in 0..MaxOpens
    /\ wsi \in Wsis \cup {NoWsi} /\ (stream => wsi \in Wsis)
    /\ link \in [Wsis -> {"free", "connecting", "up"}]
    /\ nodes \in Seq(Interfaces)
    /\ \A w \in Wsis : link[w] = "free" => \A i \in NodeOf(w) : nodes[i].error_connect = TRUE

\* A new node is the oldest of its address only if there was none.
LEMMA AppendNode ==
    ASSUME NEW w \in Wsis, NEW v \in Wsis, v # w, nodes \in Seq(Interfaces),
           nodes' = Append(nodes, [wsi |-> w, error_connect |-> FALSE])
    PROVE  /\ nodes' \in Seq(Interfaces)
           /\ \A i \in NodeOf(v)' : i \in NodeOf(v) /\ nodes'[i] = nodes[i]
BY DEF NodeOf, Interfaces

\* Marking the node of one address leaves the others.
LEMMA MarkNode ==
    ASSUME NEW w \in Wsis, nodes \in Seq(Interfaces), nodes' = Failed(w)
    PROVE  /\ nodes' \in Seq(Interfaces)
           /\ \A v \in Wsis : NodeOf(v)' = NodeOf(v)
           /\ \A i \in NodeOf(w) : nodes'[i].error_connect = TRUE
           /\ \A v \in Wsis \ {w} : \A i \in NodeOf(v) : nodes'[i] = nodes[i]
<1>1. /\ Len(nodes) \in Nat /\ DOMAIN nodes = 1..Len(nodes)
      /\ \A i \in DOMAIN nodes : nodes[i] \in Interfaces
  OBVIOUS
<1>2. DOMAIN nodes' = DOMAIN nodes
  BY DEF Failed
<1>3. \A i \in DOMAIN nodes :
         /\ nodes'[i] \in Interfaces /\ nodes'[i].wsi = nodes[i].wsi
         /\ i \in NodeOf(w) => nodes'[i].error_connect = TRUE
         /\ i \notin NodeOf(w) => nodes'[i] = nodes[i]
  BY <1>1 DEF Failed, Interfaces
<1>4. nodes' \in Seq(Interfaces)
  <2>1. nodes' \in [1..Len(nodes) -> Interfaces]
    BY <1>1, <1>3 DEF Failed
  <2> QED BY <1>1, <2>1
<1>5. \A v \in Wsis : NodeOf(v)' = NodeOf(v)
  <2>1. \A v \in Wsis : \A i : i \in NodeOf(v)' <=> i \in NodeOf(v)
    <3>1. \A i \in DOMAIN nodes : \A j \in 1..(i - 1) : j \in DOMAIN nodes
      BY <1>1
    <3> QED BY <1>2, <1>3, <3>1 DEF NodeOf
  <2> QED BY <2>1
<1>6. \A v \in Wsis \ {w} : \A i \in NodeOf(v) : i \notin NodeOf(w) /\ i \in DOMAIN nodes
  BY DEF NodeOf
<1>7. NodeOf(w) \subseteq DOMAIN nodes
  BY DEF NodeOf
<1>8. \A i \in NodeOf(w) : nodes'[i].error_connect = TRUE
  BY <1>3, <1>7
<1>9. \A v \in Wsis \ {w} : \A i \in NodeOf(v) : nodes'[i] = nodes[i]
  BY <1>3, <1>6
<1> QED BY <1>4, <1>5, <1>8, <1>9

LEMMA MarkInit == WsInit => MarkInv
<1> SUFFICES ASSUME WsInit PROVE MarkInv
  OBVIOUS
<1>1. opens \in 0..MaxOpens
  BY Bounds DEF WsInit
<1>2. nodes = <<>> /\ \A w \in Wsis : NodeOf(w) = {}
  BY DEF WsInit, NodeOf
<1>3. nodes \in Seq(Interfaces)
  BY <1>2
<1>4. handle = FALSE /\ stream = FALSE /\ wsi = NoWsi /\ link = [w \in Wsis |-> "free"]
  BY DEF WsInit
<1> QED BY <1>1, <1>2, <1>3, <1>4 DEF MarkInv

\* A step opens or ends a connection, or leaves the list and the connections.
LEMMA MarkSteps ==
    ASSUME [WsNext]_wsvars
    PROVE  \/ \E w \in Wsis : Open(w)
           \/ OpenConnectFails
           \/ Close
           \/ Established
           \/ \E events : Destroyed(events) /\ stream
           \/ UNCHANGED <<opens, wsi, link, nodes, stream>> /\ handle' \in {TRUE, FALSE, handle}
<1> DEFINE Same == UNCHANGED <<opens, wsi, link, nodes, stream>> /\ handle' \in {TRUE, FALSE, handle}
<1>1. CASE Request \/ ReleaseHandle
  BY <1>1 DEF Request, ReleaseHandle
<1>2. CASE \/ Write \/ SetConnectionCallback \/ ClearConnectionCallback
           \/ \E set \in BOOLEAN : SetReceiveCallback(set)
  BY <1>2 DEF Write, SetConnectionCallback, ClearConnectionCallback, SetReceiveCallback, conn
<1>3. CASE Writeable \/ Receive \/ ReceivePong \/ SslAlert
  BY <1>3 DEF Writeable, Receive, ReceivePong, SslAlert, conn
<1>4. CASE ConnectionError \/ PeerCloses
  BY <1>4 DEF ConnectionError, PeerCloses, Service
<1>5. CASE Ping \/ PongTimeoutFires \/ TimerAfterEnd \/ Deliver
  BY <1>5 DEF Ping, PongTimeoutFires, TimerAfterEnd, Deliver, conn
<1>6. CASE NotifyClose \/ NotifyConnect \/ NotifyError \/ NotifyConnectionError
  <2> PICK e : Notify(e)
    BY <1>6 DEF NotifyClose, NotifyConnect, NotifyError, NotifyConnectionError
  <2> QED BY DEF Notify, conn
<1>7. CASE UNCHANGED wsvars
  BY <1>7 DEF wsvars, conn
<1> QED BY <1>1, <1>2, <1>3, <1>4, <1>5, <1>6, <1>7 DEF WsNext, App, Lws, LoopRuns

LEMMA MarkStep == MarkInv /\ [WsNext]_wsvars => MarkInv'
<1> SUFFICES ASSUME MarkInv, [WsNext]_wsvars PROVE MarkInv'
  OBVIOUS
<1>1. ASSUME NEW w \in Wsis, Open(w) PROVE MarkInv'
  <2>1. \A v \in Wsis \ {w} : \A i \in NodeOf(v)' : i \in NodeOf(v) /\ nodes'[i] = nodes[i]
    BY <1>1, AppendNode DEF Open, MarkInv
  <2>2. nodes' \in Seq(Interfaces)
    BY <1>1 DEF Open, MarkInv, Interfaces
  <2>3. opens' \in 0..MaxOpens
    BY <1>1, Bounds DEF Open, CanOpen, MarkInv
  <2> QED BY <1>1, <2>1, <2>2, <2>3 DEF Open, MarkInv
<1>2. CASE OpenConnectFails
  <2>1. opens' \in 0..MaxOpens
    BY <1>2, Bounds DEF OpenConnectFails, CanOpen, MarkInv
  <2> QED BY <1>2, <2>1 DEF OpenConnectFails, MarkInv, NodeOf
<1>3. ASSUME stream, nodes' = Failed(wsi), link' = [link EXCEPT ![wsi] = "free"],
             UNCHANGED <<opens, handle>>, stream' \in BOOLEAN, wsi' \in Wsis \cup {NoWsi},
             stream' => wsi' \in Wsis
      PROVE  MarkInv'
  <2>1. wsi \in Wsis /\ nodes \in Seq(Interfaces)
    BY <1>3 DEF MarkInv
  <2>2. /\ nodes' \in Seq(Interfaces)
        /\ \A v \in Wsis : NodeOf(v)' = NodeOf(v)
        /\ \A i \in NodeOf(wsi) : nodes'[i].error_connect = TRUE
        /\ \A v \in Wsis \ {wsi} : \A i \in NodeOf(v) : nodes'[i] = nodes[i]
    BY <1>3, <2>1, MarkNode
  <2> QED BY <1>3, <2>1, <2>2 DEF MarkInv
<1>4. CASE Close
  <2>1. CASE link[wsi] = "free"
    <3>1. nodes' = nodes /\ link' = link
      BY <1>4, <2>1 DEF Close, MarkInv
    <3>2. \A v \in Wsis : NodeOf(v)' = NodeOf(v)
      BY <3>1 DEF NodeOf
    <3>3. UNCHANGED <<handle, opens>> /\ stream' = FALSE /\ wsi' = NoWsi
      BY <1>4 DEF Close
    <3> QED BY <3>1, <3>2, <3>3 DEF MarkInv
  <2>2. CASE link[wsi] # "free"
    BY <1>3, <1>4, <2>2 DEF Close
  <2> QED BY <2>1, <2>2
<1>5. CASE Established
  BY <1>5 DEF Established, Service, MarkInv, NodeOf
<1>6. ASSUME NEW events, Destroyed(events), stream PROVE MarkInv'
  BY <1>3, <1>6 DEF Destroyed, MarkInv
<1>7. CASE UNCHANGED <<opens, wsi, link, nodes, stream>> /\ handle' \in {TRUE, FALSE, handle}
  BY <1>7 DEF MarkInv, NodeOf
<1> QED BY <1>1, <1>2, <1>4, <1>5, <1>6, <1>7, MarkSteps

\* No message is accepted for a connection that has been destroyed, also when
\* another one had its address before: then the older node answers for both,
\* and the newer connection accepts none either.
THEOREM AcceptsWhileConnected == WsSpec => AcceptedOnlyWhileConnected
<1>1. MarkInv /\ SlotInv /\ [WsNext]_wsvars => [written' > written => link[wsi] # "free"]_wsvars
  <2> SUFFICES ASSUME MarkInv, SlotInv, [WsNext]_wsvars, written' > written PROVE link[wsi] # "free"
    OBVIOUS
  <2>1. written' # written
    BY DEF SlotInv
  <2>2. Write
    BY <2>1, SlotSteps DEF Writeable, Receive, Deliver
  <2> QED BY <2>1, <2>2 DEF Write, MarkInv
<1> QED BY <1>1, MarkInit, MarkStep, SlotInit, SlotStep, PTL DEF WsSpec, AcceptedOnlyWhileConnected

-----------------------------------------------------------------------------
(* The timers.                                                             *)

\* The pong timeout ends before the next ping, and the loop is in time.
InTime == PongTimeout \in {"shorter", "no ping"} /\ "stall" \notin Unusual

\* timeout_id names the only pong timeout.
OneTimer == /\ timeout_id \in BOOLEAN
            /\ timers = IF timeout_id THEN 1 ELSE 0
            /\ orphans \subseteq {"watch", "idle"}

LEMMA TimerSteps ==
    ASSUME [WsNext]_wsvars
    PROVE  \/ \E w \in Wsis : Open(w)
           \/ OpenConnectFails \/ Close \/ ReceivePong \/ Ping \/ PongTimeoutFires
           \/ UNCHANGED <<timers, timeout_id, orphans>>
<1> DEFINE Same == UNCHANGED <<timers, timeout_id, orphans>>
<1>1. CASE Request \/ ReleaseHandle \/ Write \/ UNCHANGED wsvars
  BY <1>1 DEF Request, ReleaseHandle, Write, wsvars, loop
<1>2. CASE \/ SetConnectionCallback \/ ClearConnectionCallback
           \/ \E set \in BOOLEAN : SetReceiveCallback(set)
  BY <1>2 DEF SetConnectionCallback, ClearConnectionCallback, SetReceiveCallback
<1>3. CASE Established \/ Writeable \/ Receive \/ SslAlert
  BY <1>3 DEF Established, Writeable, Receive, SslAlert, loop
<1>4. CASE ConnectionError \/ PeerCloses
  BY <1>4 DEF ConnectionError, PeerCloses, Destroyed
<1>5. CASE TimerAfterEnd \/ Deliver
  BY <1>5 DEF TimerAfterEnd, Deliver, loop
<1>6. CASE NotifyClose \/ NotifyConnect \/ NotifyError \/ NotifyConnectionError
  BY <1>6 DEF NotifyClose, NotifyConnect, NotifyError, NotifyConnectionError, Notify
<1> QED BY <1>1, <1>2, <1>3, <1>4, <1>5, <1>6 DEF WsNext, App, Lws, LoopRuns

LEMMA TimerStep == InTime /\ OneTimer /\ [WsNext]_wsvars => OneTimer'
<1> SUFFICES ASSUME InTime, OneTimer, [WsNext]_wsvars PROVE OneTimer'
  OBVIOUS
<1> USE DEF OneTimer
<1>1. ASSUME NEW w \in Wsis, Open(w) PROVE OneTimer'
  BY <1>1 DEF Open, Fresh
<1>2. CASE OpenConnectFails
  BY <1>2 DEF OpenConnectFails, loop
<1>3. CASE Close
  <2>1. "timer" \notin Leftovers /\ Leftovers \subseteq {"watch", "timer"}
    <3>1. PongTimeout # "zero"
      BY DEF InTime
    <3>2. timers <= IF timeout_id /\ PongTimeout # "zero" THEN 1 ELSE 0
      BY <3>1
    <3>3. ~(timers > IF timeout_id /\ PongTimeout # "zero" THEN 1 ELSE 0)
      BY <3>2
    <3> QED BY <3>3 DEF Leftovers
  <2>2. orphans' \subseteq {"watch", "idle"}
    BY <1>3, <2>1 DEF Close
  <2> QED BY <1>3, <2>2 DEF Close, Fresh
<1>4. CASE ReceivePong
  <2>1. timeout_id = TRUE
    BY <1>4 DEF ReceivePong
  <2>2. timers' = timers - 1 /\ timeout_id' = FALSE /\ orphans' = orphans
    BY <1>4 DEF ReceivePong
  <2>3. timers' = 0
    BY <2>1, <2>2
  <2> QED BY <2>2, <2>3
<1>5. CASE Ping
  <2>1. timers = 0
    BY <1>5 DEF Ping, InTime
  <2> QED BY <1>5, <2>1 DEF Ping
<1>6. CASE PongTimeoutFires
  <2>1. timers > 0 /\ timers' = timers - 1 /\ timeout_id' = FALSE /\ orphans' = orphans
    BY <1>6 DEF PongTimeoutFires
  <2>2. timers' = 0
    BY <2>1
  <2> QED BY <2>1, <2>2
<1>7. CASE UNCHANGED <<timers, timeout_id, orphans>>
  BY <1>7
<1> QED BY <1>1, <1>2, <1>3, <1>4, <1>5, <1>6, <1>7, TimerSteps

\* The types of the rest.
EventInv == /\ efd \subseteq Events /\ callbacks \subseteq Events
            /\ watches \in [Events -> 0..2]

FlagInv == {ping, crashed, dangling, told} \subseteq BOOLEAN

LEMMA EventStep == EventInv /\ [WsNext]_wsvars => EventInv'
<1> SUFFICES ASSUME EventInv, [WsNext]_wsvars PROVE EventInv'
  OBVIOUS
<1> USE DEF EventInv
<1>1. CASE Request \/ ReleaseHandle \/ Write \/ OpenConnectFails \/ Writeable \/ TimerAfterEnd \/ UNCHANGED wsvars
  BY <1>1 DEF Request, ReleaseHandle, Write, OpenConnectFails, Writeable, TimerAfterEnd, wsvars, loop
<1>2. ASSUME NEW w \in Wsis, Open(w) PROVE EventInv'
  BY <1>2 DEF Open, Fresh
<1>3. CASE Close
  BY <1>3 DEF Close, Fresh
<1>4. CASE SetConnectionCallback
  <2>1. callbacks' \subseteq Events
    BY <1>4 DEF SetConnectionCallback, ConnectionEvents
  <2>2. watches' \in [Events -> 0..2]
    BY <1>4 DEF SetConnectionCallback
  <2> QED BY <1>4, <2>1, <2>2 DEF SetConnectionCallback
<1>5. CASE ClearConnectionCallback \/ \E set \in BOOLEAN : SetReceiveCallback(set)
  <2>1. callbacks' \subseteq Events /\ efd' = efd
    BY <1>5 DEF ClearConnectionCallback, SetReceiveCallback, Events
  <2>2. watches' \in [Events -> 0..2]
    BY <1>5 DEF ClearConnectionCallback, SetReceiveCallback
  <2> QED BY <2>1, <2>2
<1>6. CASE Established \/ SslAlert
  <2>1. UNCHANGED <<callbacks, watches>> /\ \E e \in {"CONNECT", "ERROR"} : efd' = efd \cup {e}
    BY <1>6, Zenon DEF Established, SslAlert
  <2> QED BY <2>1 DEF Events
<1>7. CASE Receive \/ ReceivePong \/ Ping
  BY <1>7 DEF Receive, ReceivePong, Ping, Events
<1>8. CASE PongTimeoutFires
  BY <1>8 DEF PongTimeoutFires, Events
<1>9. CASE ConnectionError \/ PeerCloses
  BY <1>9 DEF ConnectionError, PeerCloses, Destroyed, Events
<1>10. CASE Deliver
  BY <1>10 DEF Deliver
<1>11. CASE NotifyClose \/ NotifyConnect \/ NotifyError \/ NotifyConnectionError
  <2> PICK e : Notify(e)
    BY <1>11 DEF NotifyClose, NotifyConnect, NotifyError, NotifyConnectionError
  <2> QED BY DEF Notify
<1> QED BY <1>1, <1>2, <1>3, <1>4, <1>5, <1>6, <1>7, <1>8, <1>9, <1>10, <1>11
        DEF WsNext, App, Lws, LoopRuns

LEMMA FlagStep == FlagInv /\ [WsNext]_wsvars => FlagInv'
<1> SUFFICES ASSUME FlagInv, [WsNext]_wsvars PROVE FlagInv'
  OBVIOUS
<1> USE DEF FlagInv
<1>1. CASE Request \/ ReleaseHandle \/ Write \/ OpenConnectFails \/ Writeable \/ TimerAfterEnd \/ UNCHANGED wsvars
  BY <1>1 DEF Request, ReleaseHandle, Write, OpenConnectFails, Writeable, TimerAfterEnd, wsvars, loop
<1>2. CASE Close \/ \E w \in Wsis : Open(w)
  BY <1>2 DEF Open, Close, Fresh
<1>3. CASE \/ SetConnectionCallback \/ ClearConnectionCallback
           \/ \E set \in BOOLEAN : SetReceiveCallback(set)
  BY <1>3 DEF SetConnectionCallback, ClearConnectionCallback, SetReceiveCallback
<1>4. CASE Established
  BY <1>4, Zenon DEF Established
<1>5. CASE Receive \/ ReceivePong \/ SslAlert \/ Ping \/ PongTimeoutFires
  BY <1>5 DEF Receive, ReceivePong, SslAlert, Ping, PongTimeoutFires
<1>6. CASE ConnectionError \/ PeerCloses \/ Deliver
  BY <1>6 DEF ConnectionError, PeerCloses, Destroyed, Deliver
<1>7. CASE NotifyClose \/ NotifyConnect \/ NotifyError \/ NotifyConnectionError
  <2> PICK e : Notify(e)
    BY <1>7 DEF NotifyClose, NotifyConnect, NotifyError, NotifyConnectionError
  <2>1. crashed' \in BOOLEAN /\ told' \in BOOLEAN
    BY Zenon DEF Notify
  <2> QED BY <2>1 DEF Notify
<1> QED BY <1>1, <1>2, <1>3, <1>4, <1>5, <1>6, <1>7 DEF WsNext, App, Lws, LoopRuns

LEMMA TimerInit == WsInit => OneTimer /\ EventInv /\ FlagInv
<1> SUFFICES ASSUME WsInit PROVE OneTimer /\ EventInv /\ FlagInv
  OBVIOUS
<1>1. OneTimer
  BY DEF WsInit, OneTimer
<1>2. EventInv
  <2>1. [e \in Events |-> 0] \in [Events -> 0..2]
    OBVIOUS
  <2> QED BY <2>1 DEF WsInit, EventInv
<1>3. FlagInv
  BY DEF WsInit, FlagInv
<1> QED BY <1>1, <1>2, <1>3

LEMMA AllTypes ==
    SlotInv /\ MarkInv /\ OneTimer /\ EventInv /\ FlagInv => TimersEndWithStream
<1> SUFFICES ASSUME SlotInv, MarkInv, OneTimer, EventInv, FlagInv PROVE WsTypeOK
  BY DEF OneTimer, TimersEndWithStream
<1>1. /\ {handle, stream, ping, timeout_id, crashed, dangling, told} \subseteq BOOLEAN
      /\ opens \in 0..MaxOpens /\ wsi \in Wsis \cup {NoWsi}
      /\ link \in [Wsis -> {"free", "connecting", "up"}]
      /\ nodes \in Seq([wsi : Wsis, error_connect : BOOLEAN])
  BY DEF MarkInv, OneTimer, FlagInv, Interfaces
<1>2. /\ {send_message, receive_message} \subseteq 0..MaxMsgs
      /\ written \in 0..MaxMsgs /\ arrived \in 0..MaxMsgs
  <2>1. /\ written \in Nat /\ written <= MaxMsgs /\ send_message \in 0..written
        /\ arrived \in Nat /\ arrived <= MaxMsgs /\ receive_message \in 0..arrived
    BY DEF SlotInv
  <2> QED BY <2>1, Bounds
<1>4. sent \in Seq(1..MaxMsgs) /\ delivered \in Seq(1..MaxMsgs)
  BY BelowBound, Bounds DEF SlotInv
<1>5. efd \subseteq Events /\ callbacks \subseteq Events /\ watches \in [Events -> 0..2]
  BY DEF EventInv
<1>6. timers \in 0..2
  BY DEF OneTimer
<1>7. orphans \subseteq {"watch", "timer", "periodic", "idle"}
  BY DEF OneTimer
<1> QED BY <1>1, <1>2, <1>4, <1>5, <1>6, <1>7 DEF WsTypeOK

\* No timer outlives its stream, however pings, pongs and timeouts fall
\* before it is closed: lws_cleanup removes the one that timeout_id names, and
\* there is no other.
THEOREM NoTimerLeft ==
    ASSUME PongTimeout \in {"shorter", "no ping"}, "stall" \notin Unusual
    PROVE  WsSpec => []TimersEndWithStream
<1>1. InTime
  BY DEF InTime
<1>2. WsInit => OneTimer /\ EventInv /\ FlagInv
  BY TimerInit
<1>3. OneTimer /\ [WsNext]_wsvars => OneTimer'
  BY <1>1, TimerStep
<1>4. SlotInv /\ MarkInv /\ OneTimer /\ EventInv /\ FlagInv => TimersEndWithStream
  BY AllTypes
<1> QED BY <1>2, <1>3, <1>4, SlotInit, SlotStep, MarkInit, MarkStep, EventStep, FlagStep, PTL DEF WsSpec

-----------------------------------------------------------------------------
(* MQTT.                                                                   *)

\* The two ids name every handler of a patient client.
Named == \A r \in regs :
            \/ r.client \in Impatient
            \/ r.kind = "watch" /\ r.id = watch_id[r.client]
            \/ r.kind = "periodic" /\ r.id = periodic_id[r.client]

\* Regs do not outlive a patient client.
Owned == \A r \in regs : r.client \in requested_node \cup Impatient

\* The certificates in the temporary files are those of the TLS client.
Certified == \A c \in TlsClients \cap requested_node : files = c

MqttInv == MqttTypeOK /\ Named /\ Owned

-----------------------------------------------------------------------------
(* The actions.                                                            *)

LEMMA ZeroIsId == 0 \in MqttIds
BY MqttAssumption DEF MqttIds

LEMMA MqttStarts == MqttInit => MqttInv /\ Certified
<1> SUFFICES ASSUME MqttInit PROVE MqttInv /\ Certified
  OBVIOUS
<1>1. MqttTypeOK
  <2>1. connects \in 0..MaxConnects
    BY MqttAssumption DEF MqttInit
  <2> QED BY <2>1, ZeroIsId DEF MqttInit, MqttTypeOK
<1> QED BY <1>1 DEF MqttInit, MqttInv, Named, Owned, Certified

\* The new handlers have the type of handlers, and new ids.
LEMMA NewHandlers ==
    ASSUME NEW c \in Clients, MqttTypeOK, Registers(c)
    PROVE  /\ NewWatch(c) \in Regs /\ NewWatch(c).id \in MqttIds
           /\ NewPeriodic(c) \in Regs /\ NewPeriodic(c).id \in MqttIds
           /\ connects' \in 0..MaxConnects
           /\ socket' \in [Clients -> {"down", "connecting", "up", "lost"}]
<1>1. connects \in Nat /\ connects' = connects + 1 /\ connects' <= MaxConnects /\ MaxConnects \in Nat
  BY MqttAssumption DEF MqttTypeOK, Registers
<1>2. 2 * connects + 1 \in MqttIds \ {0} /\ 2 * connects + 2 \in MqttIds \ {0}
  BY <1>1 DEF MqttIds
<1> QED BY <1>1, <1>2 DEF NewWatch, NewPeriodic, Regs, Registers, MqttTypeOK

\* What a handler of c may do.
Handles(r) == HandlerGone(r) \/ LoopHandlerOk(r) \/ HandlerFails(r)

\* The calls that change neither handlers nor their ids.
Others(c) == \/ CreateRefused(c) \/ CreateNoMosq(c) \/ Disconnect(c) \/ ConnectionLost(c)

LEMMA MqttActions ==
    ASSUME [MqttNext]_mqttvars
    PROVE  \/ \E c \in Clients : Create(c) \/ Others(c) \/ Destroy(c) \/ Connect(c)
           \/ \E r \in regs : Handles(r)
           \/ UNCHANGED mqttvars
BY DEF MqttNext, Others, Handles, ConnectNoSocket, LoopHandlerError, MiscHandlerError

LEMMA TypeStep == MqttTypeOK /\ [MqttNext]_mqttvars => MqttTypeOK'
<1> SUFFICES ASSUME MqttTypeOK, [MqttNext]_mqttvars PROVE MqttTypeOK'
  OBVIOUS
<1>1. ASSUME NEW c \in Clients, Create(c) PROVE MqttTypeOK'
  BY <1>1, ZeroIsId DEF Create, MqttTypeOK
<1>2. ASSUME NEW c \in Clients, Others(c) PROVE MqttTypeOK'
  BY <1>2 DEF Others, CreateRefused, CreateNoMosq, Disconnect, ConnectionLost, MqttTypeOK
<1>3. ASSUME NEW c \in Clients, Destroy(c) PROVE MqttTypeOK'
  BY <1>3 DEF Destroy, CleanUp, MqttTypeOK
<1>4. ASSUME NEW c \in Clients, Connect(c) PROVE MqttTypeOK'
  <2>1. Registers(c)
    BY <1>4 DEF Connect
  <2> QED BY <1>4, <2>1, NewHandlers DEF Connect, MqttTypeOK
<1>5. ASSUME NEW r \in regs, Handles(r) PROVE MqttTypeOK'
  <2>0. r.client \in Clients /\ 0 \in MqttIds
    BY ZeroIsId DEF MqttTypeOK, Regs
  <2>1. CASE HandlerGone(r)
    BY <2>1 DEF HandlerGone, MqttTypeOK
  <2>2. CASE LoopHandlerOk(r)
    BY <2>0, <2>2 DEF LoopHandlerOk, MqttTypeOK
  <2>3. CASE HandlerError(r)
    BY <2>0, <2>3 DEF HandlerError, Reported, Clears, MqttTypeOK
  <2>4. CASE HandlerReconnects(r)
    <3>1. Registers(r.client)
      BY <2>4 DEF HandlerReconnects
    <3> QED BY <2>0, <2>4, <3>1, NewHandlers DEF HandlerReconnects, Reported, Clears, MqttTypeOK
  <2>5. CASE HandlerDestroys(r)
    BY <2>0, <2>5 DEF HandlerDestroys, Reported, CleanUp, MqttTypeOK
  <2> QED BY <1>5, <2>1, <2>2, <2>3, <2>4, <2>5 DEF Handles, HandlerFails
<1>6. CASE UNCHANGED mqttvars
  BY <1>6 DEF mqttvars, MqttTypeOK
<1> QED BY <1>1, <1>2, <1>3, <1>4, <1>5, <1>6, MqttActions

-----------------------------------------------------------------------------
(* The handlers of patient clients.                                        *)

LEMMA MqttSteps == MqttInv /\ [MqttNext]_mqttvars => MqttInv'
<1> SUFFICES ASSUME MqttInv, [MqttNext]_mqttvars PROVE Named' /\ Owned'
  BY TypeStep DEF MqttInv
<1>0. /\ MqttTypeOK /\ Named /\ Owned /\ \A r \in regs : r \in Regs /\ r.client \in Clients
  BY DEF MqttInv, MqttTypeOK, Regs
<1> USE DEF Named, Owned
<1>1. ASSUME NEW c \in Clients, Create(c) PROVE Named' /\ Owned'
  BY <1>0, <1>1 DEF Create, MqttTypeOK
<1>2. ASSUME NEW c \in Clients, Others(c) PROVE Named' /\ Owned'
  BY <1>0, <1>2 DEF Others, CreateRefused, CreateNoMosq, Disconnect, ConnectionLost
<1>3. ASSUME NEW c \in Clients, Destroy(c) PROVE Named' /\ Owned'
  BY <1>0, <1>3 DEF Destroy, Removed
<1>4. ASSUME NEW c \in Clients, Connect(c) PROVE Named' /\ Owned'
  <2>1. ASSUME NEW r \in regs PROVE r.client # c
    BY <1>4 DEF Connect, HandlersOf
  <2> QED BY <1>0, <1>4, <2>1 DEF Connect, NewWatch, NewPeriodic, MqttTypeOK
<1>5. ASSUME NEW r \in regs, Handles(r) PROVE Named' /\ Owned'
  <2>1. CASE HandlerGone(r) \/ LoopHandlerOk(r)
    BY <1>0, <2>1 DEF HandlerGone, LoopHandlerOk
  <2>2. CASE HandlerError(r)
    <3>1. ASSUME NEW s \in regs \ {r}, s.client = r.client, s.client \notin Impatient
          PROVE  s.kind # r.kind
      BY <1>0, <3>1 DEF Regs
    <3> QED BY <1>0, <2>2, <3>1 DEF HandlerError, Clears, MqttTypeOK
  <2>3. CASE HandlerReconnects(r)
    <3>1. r.client \in Impatient
      BY <2>3 DEF HandlerReconnects
    <3> QED BY <1>0, <2>3, <3>1 DEF HandlerReconnects, Clears, NewWatch, NewPeriodic, MqttTypeOK
  <2>4. CASE HandlerDestroys(r)
    BY <1>0, <2>4 DEF HandlerDestroys, Removed
  <2> QED BY <1>5, <2>1, <2>2, <2>3, <2>4 DEF Handles, HandlerFails
<1>6. CASE UNCHANGED mqttvars
  BY <1>0, <1>6 DEF mqttvars
<1> QED BY <1>1, <1>2, <1>3, <1>4, <1>5, <1>6, MqttActions

-----------------------------------------------------------------------------
(* The temporary files.                                                    *)

\* All clients have the same files, which hold the certificates of one.
OneTls == \A c, d \in TlsClients : c = d

LEMMA FilesStep == OneTls /\ MqttTypeOK /\ Certified /\ [MqttNext]_mqttvars => Certified'
<1> SUFFICES ASSUME OneTls, MqttTypeOK, Certified, [MqttNext]_mqttvars PROVE Certified'
  OBVIOUS
<1> USE DEF OneTls, Certified
<1>1. ASSUME NEW c \in Clients, Create(c) \/ Others(c) \/ Destroy(c) \/ Connect(c) PROVE Certified'
  BY <1>1 DEF Create, Others, CreateRefused, CreateNoMosq, Disconnect, ConnectionLost, Destroy,
     CleanUp, Connect
<1>2. ASSUME NEW r \in regs, Handles(r) PROVE Certified'
  BY <1>2 DEF Handles, HandlerGone, LoopHandlerOk, HandlerFails, HandlerError,
     HandlerReconnects, HandlerDestroys, CleanUp
<1>3. CASE UNCHANGED mqttvars
  BY <1>3 DEF mqttvars
<1> QED BY <1>1, <1>2, <1>3, MqttActions

\* Clients that come and go do not disturb each other: no handler of a patient
\* client is left when it is destroyed, and the certificates of the TLS client
\* stay in the files as long as it exists.
THEOREM ClientsStaySeparate ==
    ASSUME \A c, d \in TlsClients : c = d
    PROVE  MqttSpec => []ClientsAreSeparate
<1>1. OneTls
  BY DEF OneTls
<1>2. MqttInit => MqttInv /\ Certified
  BY MqttStarts
<1>3. MqttInv /\ Certified /\ [MqttNext]_mqttvars => (MqttInv /\ Certified)'
  BY <1>1, MqttSteps, FilesStep DEF MqttInv
<1>4. MqttInv /\ Certified => ClientsAreSeparate
  BY DEF MqttInv, Owned, Certified, ClientsAreSeparate
<1> QED BY <1>2, <1>3, <1>4, PTL DEF MqttSpec
=============================================================================
