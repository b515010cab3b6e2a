------------------------ MODULE ModuleManagerProofs ------------------------
(***************************************************************************)
(* Proofs about ModuleManager, for every number of threads and every set   *)
(* of module names, when the callers are orderly (OrderlySpec).            *)
(*                                                                         *)
(* OpenedIffListed is needed for the type of opened (a count is only       *)
(* decremented when it is 1).  MutualExclusion rests on LockInv, which     *)
(* relates the mutex to the program counters and says that the mutex is    *)
(* initialised by one thread, while no other is in a call.  For            *)
(* HeldModulesAreLoaded the nodes are counted (CountInv): the list has one *)
(* node for every reference that was handed out and is not given back, or  *)
(* is about to be handed out.  With OpenedIffListed the list, seen as the  *)
(* number of nodes of each name, implements ModuleRefs.                    *)
(***************************************************************************)
EXTENDS ModuleManager, FiniteSetTheorems, WellFoundedInduction, TLAPS

\* Before the mutex is initialised one thread at most is in a call, on its
\* way to initialise it; afterwards nobody is.
FirstCall == /\ \A t \in Threads : pc[t] = "init" => ~lock_initialized
             /\ ~lock_initialized => \A t \in Threads : pc[t] \in {"idle", "enter", "init"}
             /\ ~lock_initialized =>
                   \A s, t \in Threads : pc[s] # "idle" /\ pc[t] # "idle" => s = t

LockInv == /\ FirstCall
           /\ \A t \in Threads : pc[t] = "critical" => locked
           /\ MutualExclusion

Inv == TypeOK /\ OpenedIffListed /\ LockInv

Listed(list, n) == \E i \in DOMAIN list : list[i] = n

-----------------------------------------------------------------------------
(* The walk along the list.                                                *)

\* A non-empty set of naturals has a least element.
LEMMA NatLeast ==
    ASSUME NEW S, S \subseteq Nat, S # {}
    PROVE  \E i \in S : \A j \in S : i <= j
<1> DEFINE R == {ss \in Nat \X Nat : ss[1] < ss[2]}
<1>1. IsWellFoundedOn(R, Nat)
  BY NatLessThanWellFounded DEF OpToRel
<1> HIDE DEF R
<1>2. PICK x \in S : \A y \in S : ~(<<y, x>> \in R)
  BY <1>1, WFMin
<1>3. ASSUME NEW y \in S PROVE x <= y
  <2>1. x \in Nat /\ y \in Nat
    OBVIOUS
  <2>2. ~(<<y, x>> \in R)
    BY <1>2
  <2> QED BY <2>1, <2>2 DEF R
<1> QED BY <1>3

\* artik_list_get_by_check stops at a position of the list whose node
\* matches or was left by a failed request.
LEMMA FirstStopInList ==
    ASSUME NEW list \in Seq(Names \cup {NoName}), NEW n, Stops(list, n) # {}
    PROVE  /\ FirstStop(list, n) \in DOMAIN list
           /\ list[FirstStop(list, n)] \in {n, NoName}
<1>1. Stops(list, n) \subseteq Nat
  BY DEF Stops
<1>2. \E i \in Stops(list, n) : \A j \in Stops(list, n) : i <= j
  BY <1>1, NatLeast
<1>3. FirstStop(list, n) \in Stops(list, n)
  BY <1>2 DEF FirstStop
<1> QED BY <1>3 DEF Stops

\* A walk that does not fault finds n exactly when n is listed.
LEMMA FoundIffListed ==
    ASSUME NEW list \in Seq(Names \cup {NoName}), NEW n \in Names,
           ~Faults(list, n)
    PROVE  Found(list, n) <=> Listed(list, n)
<1>1. ASSUME Found(list, n) PROVE Listed(list, n)
  BY <1>1, FirstStopInList DEF Found, Listed
<1>2. ASSUME Listed(list, n) PROVE Found(list, n)
  <2>1. Stops(list, n) # {}
    BY <1>2 DEF Listed, Stops
  <2> QED BY <2>1, FirstStopInList DEF Found, Faults
<1> QED BY <1>1, <1>2

\* artik_list_add appends one node.
LEMMA AppendListed ==
    ASSUME NEW S, NEW list \in Seq(S), NEW x \in S, NEW n
    PROVE  /\ Append(list, x) \in Seq(S)
           /\ Listed(Append(list, x), n) <=> Listed(list, n) \/ x = n
<1>1. Append(list, x) \in Seq(S)
  OBVIOUS
<1>2. /\ Len(list) \in Nat
      /\ DOMAIN list = 1..Len(list)
      /\ DOMAIN Append(list, x) = 1..(Len(list) + 1)
      /\ \A i \in 1..Len(list) : Append(list, x)[i] = list[i]
      /\ Append(list, x)[Len(list) + 1] = x
  OBVIOUS
<1>3. ASSUME Listed(Append(list, x), n) PROVE Listed(list, n) \/ x = n
  <2>1. PICK i \in 1..(Len(list) + 1) : Append(list, x)[i] = n
    BY <1>2, <1>3 DEF Listed
  <2>2. CASE i \in 1..Len(list)
    BY <1>2, <2>1, <2>2 DEF Listed
  <2>3. CASE i = Len(list) + 1
    BY <1>2, <2>1, <2>3
  <2> QED BY <1>2, <2>1, <2>2, <2>3
<1>4. ASSUME Listed(list, n) PROVE Listed(Append(list, x), n)
  <2>1. PICK i \in 1..Len(list) : list[i] = n
    BY <1>2, <1>4 DEF Listed
  <2>2. i \in 1..(Len(list) + 1) /\ Append(list, x)[i] = n
    BY <1>2, <2>1
  <2> QED BY <1>2, <2>2 DEF Listed
<1>5. ASSUME x = n PROVE Listed(Append(list, x), n)
  <2>1. Len(list) + 1 \in 1..(Len(list) + 1)
    BY <1>2
  <2> QED BY <1>2, <1>5, <2>1 DEF Listed
<1> QED BY <1>1, <1>3, <1>4, <1>5

\* artik_list_delete_check unlinks one node: every other name stays listed.
LEMMA UnlinkListed ==
    ASSUME NEW S, NEW list \in Seq(S), NEW k \in DOMAIN list
    PROVE  /\ Unlink(list, k) \in Seq(S)
           /\ \A n : n # list[k] => (Listed(Unlink(list, k), n) <=> Listed(list, n))
<1> DEFINE rest == Unlink(list, k)
<1>1. /\ Len(list) \in Nat
      /\ DOMAIN list = 1..Len(list)
      /\ Len(list) - 1 \in Nat
      /\ \A i \in DOMAIN list : list[i] \in S
  OBVIOUS
<1>2. rest = [i \in 1..(Len(list) - 1) |-> IF i < k THEN list[i] ELSE list[i + 1]]
  BY DEF Unlink
<1>3. \A i \in 1..(Len(list) - 1) : i \in 1..Len(list) /\ i + 1 \in 1..Len(list)
  BY <1>1
<1>4. rest \in Seq(S)
  <2>1. rest \in [1..(Len(list) - 1) -> S]
    BY <1>1, <1>2, <1>3
  <2> QED BY <1>1, <2>1
<1>5. DOMAIN rest = 1..(Len(list) - 1)
  BY <1>2
<1> HIDE DEF rest
<1>6. ASSUME NEW n, n # list[k], Listed(rest, n) PROVE Listed(list, n)
  BY <1>1, <1>2, <1>3, <1>5, <1>6 DEF Listed
<1>7. ASSUME NEW n, n # list[k], Listed(list, n) PROVE Listed(rest, n)
  <2>1. PICK i \in 1..Len(list) : list[i] = n
    BY <1>1, <1>7 DEF Listed
  <2>2. CASE i < k
    <3>1. i \in 1..(Len(list) - 1) /\ rest[i] = n
      BY <1>1, <1>2, <2>1, <2>2
    <3> QED BY <1>5, <3>1 DEF Listed
  <2>3. CASE i > k
    <3>1. i - 1 \in 1..(Len(list) - 1) /\ ~(i - 1 < k) /\ (i - 1) + 1 = i
      BY <1>1, <2>1, <2>3
    <3>2. rest[i - 1] = n
      BY <1>2, <2>1, <3>1
    <3> QED BY <1>5, <3>1, <3>2 DEF Listed
  <2> QED BY <1>1, <1>7, <2>1, <2>2, <2>3
<1> QED BY <1>4, <1>6, <1>7 DEF rest

-----------------------------------------------------------------------------
(* The invariant.                                                          *)

LEMMA InitInv == Init => Inv
<1> SUFFICES ASSUME Init PROVE Inv
  OBVIOUS
<1>1. TypeOK
  <2>1. {[call |-> "request", name |-> n] : n \in Names} \subseteq Calls
    BY DEF Calls
  <2>2. op \in [Threads -> {[call |-> "request", name |-> n] : n \in Names}]
    BY DEF Init
  <2>3. op \in [Threads -> Calls]
    BY <2>1, <2>2
  <2>4. requested_node \in Seq(Names \cup {NoName})
    BY DEF Init
  <2>5. /\ opened \in [Names -> Nat]
        /\ held \in [Threads -> [Names -> Nat]]
        /\ pc \in [Threads -> Places]
    BY DEF Init, Places
  <2>6. lock_initialized \in BOOLEAN /\ locked \in BOOLEAN /\ crashed \in BOOLEAN
    BY DEF Init
  <2> QED BY <2>3, <2>4, <2>5, <2>6 DEF TypeOK
<1>2. OpenedIffListed
  BY DEF Init, OpenedIffListed
<1>3. LockInv
  BY DEF Init, LockInv, FirstCall, MutualExclusion
<1> QED BY <1>1, <1>2, <1>3 DEF Inv

\* What OpenedIffListed says, with Listed.
LEMMA OpenedIffListedDef ==
    OpenedIffListed <=>
        \A n \in Names : opened[n] = IF Listed(requested_node, n) THEN 1 ELSE 0
BY DEF OpenedIffListed, Listed

\* LockInv: one action at a time, all of them outside the critical section,
\* entering it, or leaving it.
LEMMA LockInvStep ==
    ASSUME TypeOK, LockInv, NEW t \in Threads,
           \/ \E n \in Names : \/ CallRequest(t, n)
                               \/ CallRelease(t, n)
                               \/ CallStrayRelease(t, n)
           \/ Step(t),
           Orderly
    PROVE  LockInv'
<1> USE DEF TypeOK, LockInv, FirstCall, MutualExclusion, Places
<1>1. ASSUME NEW n \in Names, CallRequest(t, n) PROVE LockInv'
  BY <1>1 DEF CallRequest, Orderly
<1>2. ASSUME NEW n \in Names, CallRelease(t, n) PROVE LockInv'
  BY <1>2 DEF CallRelease, Orderly
<1>3. ASSUME NEW n \in Names, CallStrayRelease(t, n) PROVE LockInv'
  BY <1>3 DEF CallStrayRelease, Orderly
<1>4. CASE TestInitialized(t)
  BY <1>4 DEF TestInitialized
<1>5. CASE InitMutex(t)
  BY <1>5 DEF InitMutex
<1>6. CASE LockMutex(t)
  BY <1>6 DEF LockMutex
<1>7. ASSUME pc[t] = "critical", UnlockAndReturn(t),
             UNCHANGED lock_initialized
      PROVE  LockInv'
  BY <1>7 DEF UnlockAndReturn
<1>8. CASE Crash
  BY <1>8 DEF Crash
<1>9. CASE Body(t)
  BY <1>7, <1>8, <1>9
     DEF Body, InRequest, InRelease, RequestFaults, RequestNoNode,
         RequestShared, RequestLoaded, RequestFailed, ReleaseFaults,
         ReleaseUnknown, ReleaseNode
<1> QED BY <1>1, <1>2, <1>3, <1>4, <1>5, <1>6, <1>9 DEF Step

\* The list and the handles change together or not at all.
LEMMA ListInvStep ==
    ASSUME TypeOK, OpenedIffListed, NEW t \in Threads, Body(t)
    PROVE  /\ requested_node' \in Seq(Names \cup {NoName})
           /\ opened' \in [Names -> Nat]
           /\ OpenedIffListed'
<1> DEFINE N == op[t].name
           list == requested_node
<1>1. /\ N \in Names
      /\ list \in Seq(Names \cup {NoName})
      /\ opened \in [Names -> Nat]
      /\ \A n \in Names : opened[n] = IF Listed(list, n) THEN 1 ELSE 0
  BY OpenedIffListedDef DEF TypeOK, Calls
<1>2. ASSUME UNCHANGED <<requested_node, opened>>
      PROVE  /\ requested_node' \in Seq(Names \cup {NoName})
             /\ opened' \in [Names -> Nat]
             /\ OpenedIffListed'
  BY <1>1, <1>2 DEF OpenedIffListed, TypeOK
<1>3. CASE RequestFaults(t)
  BY <1>2, <1>3 DEF RequestFaults, Crash
<1>4. CASE RequestNoNode(t)
  BY <1>2, <1>4 DEF RequestNoNode
<1>5. CASE RequestShared(t)
  <2>1. Found(list, N) /\ list' = Append(list, N) /\ opened' = opened
    BY <1>5 DEF RequestShared
  <2>2. ~Faults(list, N)
    BY <1>1, <2>1, ManagerAssumption DEF Found, Faults
  <2>3. Listed(list, N)
    BY <1>1, <2>1, <2>2, FoundIffListed
  <2>4. \A n \in Names : Listed(list', n) <=> Listed(list, n)
    BY <1>1, <2>1, <2>3, AppendListed
  <2>5. list' \in Seq(Names \cup {NoName})
    BY <1>1, <2>1
  <2> HIDE DEF list, N
  <2>6. \A n \in Names : opened'[n] = IF Listed(list', n) THEN 1 ELSE 0
    BY <1>1, <2>1, <2>4
  <2> QED BY <1>1, <2>1, <2>5, <2>6 DEF OpenedIffListed, Listed, list
<1>6. CASE RequestLoaded(t)
  <2>1. /\ Stops(list, N) = {}
        /\ list' = Append(list, N)
        /\ opened' = [opened EXCEPT ![N] = @ + 1]
    BY <1>6 DEF RequestLoaded
  <2>2. ~Listed(list, N)
    BY <2>1 DEF Stops, Listed
  <2>3. \A n \in Names : Listed(list', n) <=> (Listed(list, n) \/ n = N)
    BY <1>1, <2>1, AppendListed
  <2>4. list' \in Seq(Names \cup {NoName})
    BY <1>1, <2>1
  <2> HIDE DEF list, N
  <2>5. \A n \in Names : opened'[n] = IF Listed(list', n) THEN 1 ELSE 0
    BY <1>1, <2>1, <2>2, <2>3
  <2>6. opened' \in [Names -> Nat]
    BY <1>1, <2>1
  <2> QED BY <2>4, <2>5, <2>6 DEF OpenedIffListed, Listed, list
<1>7. CASE RequestFailed(t)
  <2>1. list' = Append(list, NoName) /\ opened' = opened
    BY <1>7 DEF RequestFailed
  <2>2. \A n \in Names : Listed(list', n) <=> Listed(list, n)
    BY <1>1, <2>1, AppendListed, ManagerAssumption
  <2>3. list' \in Seq(Names \cup {NoName})
    BY <1>1, <2>1
  <2> HIDE DEF list, N
  <2>4. \A n \in Names : opened'[n] = IF Listed(list', n) THEN 1 ELSE 0
    BY <1>1, <2>1, <2>2
  <2> QED BY <1>1, <2>1, <2>3, <2>4 DEF OpenedIffListed, Listed, list
<1>8. CASE ReleaseFaults(t)
  BY <1>2, <1>8 DEF ReleaseFaults, Crash
<1>9. CASE ReleaseUnknown(t)
  BY <1>2, <1>9 DEF ReleaseUnknown
<1>10. CASE ReleaseNode(t)
  <2> DEFINE k == FirstStop(list, N)
             rest == Unlink(list, k)
  <2>1. /\ Found(list, N)
        /\ ~Faults(rest, N)
        /\ list' = rest
        /\ opened' = IF Found(rest, N) THEN opened
                     ELSE [opened EXCEPT ![N] = @ - 1]
    BY <1>10 DEF ReleaseNode, Remaining
  <2>2. k \in DOMAIN list /\ list[k] = N
    BY <1>1, <2>1, FirstStopInList DEF Found
  <2>3. /\ rest \in Seq(Names \cup {NoName})
        /\ \A n \in Names : n # N => (Listed(rest, n) <=> Listed(list, n))
    BY <1>1, <2>2, UnlinkListed
  <2>4. Listed(list, N)
    BY <2>2 DEF Listed
  <2> HIDE DEF rest, k, list, N
  <2>5. Found(rest, N) <=> Listed(rest, N)
    BY <1>1, <2>1, <2>3, FoundIffListed
  <2>6. \A n \in Names : opened'[n] = IF Listed(rest, n) THEN 1 ELSE 0
    BY <1>1, <2>1, <2>3, <2>4, <2>5
  <2>7. opened' \in [Names -> Nat]
    BY <1>1, <2>1, <2>4
  <2>8. requested_node' = rest
    BY <2>1 DEF list
  <2> QED BY <2>3, <2>6, <2>7, <2>8 DEF OpenedIffListed, Listed
<1> QED BY <1>3, <1>4, <1>5, <1>6, <1>7, <1>8, <1>9, <1>10 DEF Body

\* A count of references changes by one.
LEMMA HeldChanges ==
    ASSUME NEW h \in [Threads -> [Names -> Nat]], NEW t \in Threads,
           NEW n \in Names, NEW v \in Nat
    PROVE  [h EXCEPT ![t][n] = v] \in [Threads -> [Names -> Nat]]
<1>1. h[t] \in [Names -> Nat]
  OBVIOUS
<1>2. [h[t] EXCEPT ![n] = v] \in [Names -> Nat]
  BY <1>1
<1> QED BY <1>2

LEMMA InvStep == Inv /\ [Next /\ Orderly]_vars => Inv'
<1> SUFFICES ASSUME Inv, [Next /\ Orderly]_vars PROVE Inv'
  OBVIOUS
<1> USE DEF Inv
<1>1. CASE UNCHANGED vars
  BY <1>1 DEF vars, TypeOK, OpenedIffListed, LockInv, FirstCall, MutualExclusion
<1>2. CASE Next /\ Orderly
  <2>1. PICK t \in Threads : \/ \E n \in Names : \/ CallRequest(t, n)
                                                 \/ CallRelease(t, n)
                                                 \/ CallStrayRelease(t, n)
                             \/ Step(t)
    BY <1>2 DEF Next
  <2>2. LockInv'
    BY <1>2, <2>1, LockInvStep
  <2>3. ASSUME NEW n \in Names,
               CallRequest(t, n) \/ CallRelease(t, n) \/ CallStrayRelease(t, n)
        PROVE  TypeOK' /\ OpenedIffListed'
    <3>1. UNCHANGED <<lock_initialized, locked, requested_node, opened, crashed>>
      BY <2>3 DEF CallRequest, CallRelease, CallStrayRelease
    <3>2. op' \in [Threads -> Calls] /\ pc' \in [Threads -> Places]
      <4>1. \A c \in {"request", "release", "stray"} : [call |-> c, name |-> n] \in Calls
        BY DEF Calls
      <4>2. \E c \in {"request", "release", "stray"} :
                op' = [op EXCEPT ![t] = [call |-> c, name |-> n]]
        BY <2>3 DEF CallRequest, CallRelease, CallStrayRelease
      <4>3. op' \in [Threads -> Calls]
        BY <4>1, <4>2 DEF TypeOK
      <4>4. pc' \in [Threads -> Places]
        BY <2>3 DEF CallRequest, CallRelease, CallStrayRelease, TypeOK, Places
      <4> QED BY <4>3, <4>4
    <3>3. held' \in [Threads -> [Names -> Nat]]
      <4>1. CASE CallRelease(t, n)
        <5>1. held[t][n] \in Nat /\ held[t][n] > 0
          BY <4>1 DEF CallRelease, TypeOK
        <5>2. held' = [held EXCEPT ![t][n] = held[t][n] - 1]
          BY <4>1 DEF CallRelease
        <5> QED BY <5>1, <5>2, HeldChanges DEF TypeOK
      <4> QED BY <2>3, <4>1 DEF CallRequest, CallStrayRelease, TypeOK
    <3>4. OpenedIffListed'
      BY <3>1 DEF OpenedIffListed
    <3>5. /\ requested_node' \in Seq(Names \cup {NoName})
          /\ opened' \in [Names -> Nat]
      BY <3>1 DEF TypeOK
    <3>6. lock_initialized' \in BOOLEAN /\ locked' \in BOOLEAN /\ crashed' \in BOOLEAN
      BY <3>1, Zenon DEF TypeOK
    <3> QED BY <3>2, <3>3, <3>4, <3>5, <3>6 DEF TypeOK
  <2>4. CASE TestInitialized(t) \/ InitMutex(t) \/ LockMutex(t)
    <3>1. UNCHANGED <<requested_node, opened, held, op, crashed>>
      BY <2>4 DEF TestInitialized, InitMutex, LockMutex
    <3>2. pc' \in [Threads -> Places]
      BY <2>4 DEF TestInitialized, InitMutex, LockMutex, TypeOK, Places
    <3>3. lock_initialized' \in BOOLEAN /\ locked' \in BOOLEAN /\ crashed' \in BOOLEAN
      BY <2>4, <3>1 DEF TestInitialized, InitMutex, LockMutex, TypeOK
    <3>4. /\ requested_node' \in Seq(Names \cup {NoName})
          /\ opened' \in [Names -> Nat]
          /\ held' \in [Threads -> [Names -> Nat]]
          /\ op' \in [Threads -> Calls]
          /\ OpenedIffListed'
      BY <3>1 DEF TypeOK, OpenedIffListed
    <3>5. TypeOK' /\ OpenedIffListed'
      BY <3>2, <3>3, <3>4 DEF TypeOK
    <3> QED BY <2>2, <3>5 DEF Inv
  <2>5. CASE Body(t)
    <3>1. /\ requested_node' \in Seq(Names \cup {NoName})
          /\ opened' \in [Names -> Nat]
          /\ OpenedIffListed'
      BY <2>5, ListInvStep
    <3>2. /\ lock_initialized' \in BOOLEAN
          /\ op' \in [Threads -> Calls]
      BY <2>5 DEF Body, TypeOK, Crash, UnlockAndReturn, RequestFaults,
                  RequestNoNode, RequestShared, RequestLoaded, RequestFailed,
                  ReleaseFaults, ReleaseUnknown, ReleaseNode
    <3>3. held' \in [Threads -> [Names -> Nat]]
      <4>1. op[t].name \in Names
        BY DEF TypeOK, Calls
      <4>2. held[t][op[t].name] + 1 \in Nat
        BY <4>1 DEF TypeOK
      <4>3. CASE held' = [held EXCEPT ![t][op[t].name] = held[t][op[t].name] + 1]
        BY <4>1, <4>2, <4>3, HeldChanges DEF TypeOK
      <4>4. CASE held' = held
        BY <4>4 DEF TypeOK
      <4> QED
        BY <2>5, <4>3, <4>4
           DEF Body, Crash, RequestFaults, RequestNoNode, RequestShared,
               RequestLoaded, RequestFailed, ReleaseFaults, ReleaseUnknown,
               ReleaseNode
    <3>4. /\ pc' \in [Threads -> Places]
          /\ locked' \in BOOLEAN
          /\ crashed' \in BOOLEAN
      BY <2>5 DEF Body, TypeOK, Crash, UnlockAndReturn, RequestFaults,
                  RequestNoNode, RequestShared, RequestLoaded, RequestFailed,
                  ReleaseFaults, ReleaseUnknown, ReleaseNode, Places
    <3> HIDE DEF Inv
    <3>5. TypeOK'
      BY <3>1, <3>2, <3>3, <3>4 DEF TypeOK
    <3> QED BY <2>2, <3>1, <3>5 DEF Inv
  <2> QED BY <2>1, <2>2, <2>3, <2>4, <2>5 DEF Step
<1> QED BY <1>1, <1>2

\* Whatever the threads request and release, if the first call of the process
\* is made alone, only one thread is between mutex_lock() and mutex_unlock(), and a shared
\* object is open, once, exactly while a node of the list refers to it.
THEOREM OrderlyInvariant == OrderlySpec => [](TypeOK /\ OpenedIffListed /\ MutualExclusion)
<1>1. Inv => TypeOK /\ OpenedIffListed /\ MutualExclusion
  BY DEF Inv, LockInv
<1> QED BY <1>1, InitInv, InvStep, PTL DEF OrderlySpec

-----------------------------------------------------------------------------
(* Counting nodes.                                                         *)

\* The nodes of module n.
At(list, n) == {i \in DOMAIN list : list[i] = n}

LEMMA AtType ==
    ASSUME NEW S, NEW list \in Seq(S), NEW n
    PROVE  /\ IsFiniteSet(At(list, n))
           /\ Cardinality(At(list, n)) \in Nat
           /\ Cardinality(At(list, n)) = 0 <=> ~Listed(list, n)
<1>1. Len(list) \in Nat /\ DOMAIN list = 1..Len(list)
  OBVIOUS
<1>2. IsFiniteSet(1..Len(list))
  BY <1>1, FS_Interval
<1>3. IsFiniteSet(At(list, n))
  BY <1>1, <1>2, FS_Subset DEF At
<1>4. At(list, n) = {} <=> ~Listed(list, n)
  BY DEF At, Listed
<1> QED BY <1>3, <1>4, FS_CardinalityType, FS_EmptySet

\* artik_list_add adds one node of its name.
LEMMA AppendCount ==
    ASSUME NEW S, NEW list \in Seq(S), NEW x \in S, NEW n
    PROVE  Cardinality(At(Append(list, x), n)) =
               Cardinality(At(list, n)) + (IF x = n THEN 1 ELSE 0)
<1> DEFINE new == Append(list, x)
           l == Len(list) + 1
<1>1. /\ Len(list) \in Nat
      /\ DOMAIN list = 1..Len(list)
      /\ DOMAIN new = 1..l
      /\ \A i \in 1..Len(list) : new[i] = list[i]
      /\ new[l] = x
  OBVIOUS
<1>2. l \notin DOMAIN list /\ 1..l = 1..Len(list) \cup {l}
  BY <1>1
<1> HIDE DEF new, l
<1>3. At(new, n) = IF x = n THEN At(list, n) \cup {l} ELSE At(list, n)
  BY <1>1, <1>2 DEF At
<1>4. l \notin At(list, n)
  BY <1>2 DEF At
<1>5. CASE x = n
  BY <1>3, <1>4, <1>5, AtType, FS_AddElement DEF new
<1>6. CASE x # n
  BY <1>3, <1>6, AtType DEF new
<1> QED BY <1>5, <1>6

\* artik_list_delete_check takes one node of its name away.
LEMMA UnlinkCount ==
    ASSUME NEW S, NEW list \in Seq(S), NEW k \in DOMAIN list, NEW n
    PROVE  Cardinality(At(Unlink(list, k), n)) =
               Cardinality(At(list, n)) - (IF list[k] = n THEN 1 ELSE 0)
<1> DEFINE rest == Unlink(list, k)
           others == At(list, n) \ {k}
           f == [i \in others |-> IF i < k THEN i ELSE i - 1]
<1>1. /\ Len(list) \in Nat
      /\ DOMAIN list = 1..Len(list)
      /\ k \in 1..Len(list)
      /\ Len(list) - 1 \in Nat
  OBVIOUS
<1>2. /\ DOMAIN rest = 1..(Len(list) - 1)
      /\ \A i \in 1..(Len(list) - 1) : rest[i] = IF i < k THEN list[i] ELSE list[i + 1]
  BY DEF Unlink
<1>3. \A i \in others : i \in 1..Len(list) /\ i # k /\ list[i] = n
  BY <1>1 DEF At
<1> HIDE DEF rest
<1>4. ASSUME NEW i \in others PROVE f[i] \in At(rest, n)
  <2>1. i \in 1..Len(list) /\ i # k /\ list[i] = n
    BY <1>3
  <2>2. CASE i < k
    <3>1. f[i] = i /\ i \in 1..(Len(list) - 1)
      BY <1>1, <2>1, <2>2
    <3> QED BY <1>2, <2>1, <2>2, <3>1 DEF At
  <2>3. CASE i > k
    <3>1. f[i] = i - 1 /\ i - 1 \in 1..(Len(list) - 1) /\ ~(i - 1 < k) /\ (i - 1) + 1 = i
      BY <1>1, <2>1, <2>3
    <3> QED BY <1>2, <2>1, <3>1 DEF At
  <2> QED BY <1>1, <2>1, <2>2, <2>3
<1>5. ASSUME NEW i \in others, NEW j \in others, f[i] = f[j] PROVE i = j
  BY <1>1, <1>3, <1>5
<1>6. ASSUME NEW j \in At(rest, n) PROVE \E i \in others : f[i] = j
  <2>1. j \in 1..(Len(list) - 1) /\ rest[j] = n
    BY <1>2 DEF At
  <2>2. CASE j < k
    <3>1. j \in others
      BY <1>1, <1>2, <2>1, <2>2 DEF At
    <3> QED BY <2>2, <3>1
  <2>3. CASE ~(j < k)
    <3>1. j + 1 \in others
      BY <1>1, <1>2, <2>1, <2>3 DEF At
    <3>2. f[j + 1] = j
      BY <1>1, <2>1, <2>3, <3>1
    <3> QED BY <3>1, <3>2
  <2> QED BY <2>2, <2>3
<1>7. f \in Bijection(others, At(rest, n))
  <2>1. f \in [others -> At(rest, n)]
    BY <1>4
  <2> HIDE DEF f, others
  <2> QED BY <1>5, <1>6, <2>1 DEF Bijection, Injection, Surjection, IsInjective
<1>8. IsFiniteSet(At(list, n)) /\ Cardinality(At(list, n)) \in Nat
  BY AtType
<1>9. /\ IsFiniteSet(others)
      /\ Cardinality(others) = IF k \in At(list, n) THEN Cardinality(At(list, n)) - 1
                               ELSE Cardinality(At(list, n))
  BY <1>8, FS_RemoveElement
<1>10. Cardinality(At(rest, n)) = Cardinality(others)
  BY <1>7, <1>9, FS_Bijection DEF ExistsBijection
<1>11. k \in At(list, n) <=> list[k] = n
  BY DEF At
<1> QED BY <1>8, <1>9, <1>10, <1>11 DEF rest
-----------------------------------------------------------------------------
(* References.                                                             *)

\* The references of module n that were handed out: the pointers that thread t
\* may use, as <<t, 1>>, <<t, 2>> and so on, and the one it is giving back in
\* os_release_api_module, as <<t, 0>>.
Releasing(t, n) == pc[t] # "idle" /\ op[t] = [call |-> "release", name |-> n]
Owed(n) == {r \in Threads \X Nat : \/ r[2] = 0 /\ Releasing(r[1], n)
                                   \/ r[2] \in 1..held[r[1]][n]}

\* Every reference has a node of its own.
Counted == \A n \in Names : /\ IsFiniteSet(Owed(n))
                            /\ Cardinality(Owed(n)) <= Cardinality(At(requested_node, n))

\* While a module is released once too often nobody has a reference of it or
\* asks for one.
Strays(t, n) == pc[t] # "idle" /\ op[t] = [call |-> "stray", name |-> n]
StrayAlone == \A t \in Threads, n \in Names :
                  Strays(t, n) =>
                      /\ Owed(n) = {}
                      /\ \A s \in Threads : pc[s] # "idle" /\ op[s].name = n => s = t

CountInv == Counted /\ StrayAlone

LEMMA InitCount == Init => CountInv
<1> SUFFICES ASSUME Init PROVE CountInv
  OBVIOUS
<1>1. ASSUME NEW n \in Names PROVE Owed(n) = {}
  BY DEF Init, Owed, Releasing
<1>2. requested_node \in Seq(Names)
  BY DEF Init
<1>3. \A n \in Names : Cardinality(At(requested_node, n)) \in Nat
  BY <1>2, AtType
<1>4. Counted
  BY <1>1, <1>3, FS_EmptySet DEF Counted
<1>5. StrayAlone
  BY DEF Init, StrayAlone, Strays
<1> QED BY <1>4, <1>5 DEF CountInv

\* The type of a reference.
LEMMA OwedType ==
    ASSUME TypeOK, NEW n \in Names, NEW t \in Threads, NEW k \in Nat
    PROVE  <<t, k>> \in Owed(n) <=> \/ k = 0 /\ Releasing(t, n)
                                    \/ k >= 1 /\ k <= held[t][n]
<1>1. held[t][n] \in Nat
  BY DEF TypeOK
<1> QED BY <1>1 DEF Owed

\* The calls: a pointer becomes one that is being given back.
LEMMA CallsCount ==
    ASSUME TypeOK, CountInv, NEW t \in Threads, NEW n \in Names, Orderly,
           CallRequest(t, n) \/ CallRelease(t, n) \/ CallStrayRelease(t, n)
    PROVE  CountInv'
<1>1. /\ pc[t] = "idle" /\ pc' = [pc EXCEPT ![t] = "enter"]
      /\ requested_node' = requested_node
      /\ \E c \in {"request", "release", "stray"} : op' = [op EXCEPT ![t] = [call |-> c, name |-> n]]
  BY DEF CallRequest, CallRelease, CallStrayRelease
<1>2. /\ pc'[t] = "enter" /\ op'[t].name = n
      /\ \A s \in Threads : s # t => pc'[s] = pc[s] /\ op'[s] = op[s]
  BY <1>1 DEF TypeOK
<1>3. \A s \in Threads : pc[s] # "idle" /\ op[s].call = "stray" => op[s].name # n
  BY <1>1, <1>2 DEF Orderly
<1>4. ASSUME NEW m \in Names, held' = held, op'[t].call # "release"
      PROVE  Owed(m)' = Owed(m)
  <2>1. ~Releasing(t, m) /\ ~Releasing(t, m)'
    BY <1>1, <1>4 DEF Releasing
  <2>2. \A s \in Threads : Releasing(s, m)' <=> Releasing(s, m)
    BY <1>2, <2>1 DEF Releasing
  <2> QED BY <1>4, <2>2 DEF Owed
<1>5. CASE CallRequest(t, n)
  <2>1. held' = held /\ op'[t].call = "request"
    BY <1>5 DEF CallRequest, TypeOK
  <2>2. \A m \in Names : Owed(m)' = Owed(m)
    BY <1>4, <2>1
  <2>3. Counted'
    BY <1>1, <2>2 DEF CountInv, Counted
  <2>4. StrayAlone'
    BY <1>2, <1>3, <2>1, <2>2 DEF CountInv, StrayAlone, Strays
  <2> QED BY <2>3, <2>4 DEF CountInv
<1>6. CASE CallStrayRelease(t, n)
  <2>1. /\ held' = held /\ op'[t].call = "stray"
        /\ \A s \in Threads : held[s][n] = 0 /\ pc[s] = "idle"
    BY <1>6 DEF CallStrayRelease, TypeOK
  <2>2. \A m \in Names : Owed(m)' = Owed(m)
    BY <1>4, <2>1
  <2>3. Counted'
    BY <1>1, <2>2 DEF CountInv, Counted
  <2>4. Owed(n) = {}
    BY <2>1 DEF Owed, Releasing
  <2>5. StrayAlone'
    BY <1>2, <2>1, <2>2, <2>4 DEF StrayAlone, Strays
  <2> QED BY <2>3, <2>5 DEF CountInv
<1>7. CASE CallRelease(t, n)
  <2> DEFINE h == held[t][n]
  <2>1. /\ h \in Nat /\ h > 0
        /\ held' = [held EXCEPT ![t][n] = h - 1]
        /\ op'[t] = [call |-> "release", name |-> n]
    BY <1>7 DEF CallRelease, TypeOK
  <2>2. /\ held'[t][n] = h - 1
        /\ \A s \in Threads, m \in Names : s # t \/ m # n => held'[s][m] = held[s][m]
    BY <2>1 DEF TypeOK
  <2>3. ASSUME NEW m \in Names, m # n PROVE Owed(m)' = Owed(m)
    <3>1. ~Releasing(t, m) /\ ~Releasing(t, m)'
      BY <1>1, <2>1, <2>3 DEF Releasing
    <3>2. \A s \in Threads : Releasing(s, m)' <=> Releasing(s, m)
      BY <1>2, <3>1 DEF Releasing
    <3> QED BY <2>2, <2>3, <3>2 DEF Owed
  <2>4. Owed(n)' = (Owed(n) \ {<<t, h>>}) \cup {<<t, 0>>}
    <3>1. Releasing(t, n)' /\ ~Releasing(t, n)
      BY <1>1, <1>2, <2>1 DEF Releasing
    <3>2. \A s \in Threads : s # t => (Releasing(s, n)' <=> Releasing(s, n))
      BY <1>2 DEF Releasing
    <3>3. \A s \in Threads : held[s][n] \in Nat /\ held'[s][n] \in Nat
      BY <2>1, <2>2 DEF TypeOK
    <3>4. ASSUME NEW s \in Threads, NEW k \in Nat
          PROVE  <<s, k>> \in Owed(n)' <=> <<s, k>> \in (Owed(n) \ {<<t, h>>}) \cup {<<t, 0>>}
      BY <2>1, <2>2, <3>1, <3>2, <3>3 DEF Owed
    <3>5. Owed(n)' \subseteq Threads \X Nat /\ Owed(n) \subseteq Threads \X Nat
      BY DEF Owed
    <3> QED BY <3>4, <3>5
  <2>5. <<t, h>> \in Owed(n) /\ <<t, 0>> \notin Owed(n) \ {<<t, h>>}
    <3>1. ~Releasing(t, n)
      BY <1>1 DEF Releasing
    <3> QED BY <2>1, <3>1, OwedType
  <2> HIDE DEF h
  <2>6. /\ IsFiniteSet(Owed(n)')
        /\ Cardinality(Owed(n)') = Cardinality(Owed(n))
    <3>1. IsFiniteSet(Owed(n)) /\ Cardinality(Owed(n)) \in Nat
      BY FS_CardinalityType DEF CountInv, Counted
    <3>2. /\ IsFiniteSet(Owed(n) \ {<<t, h>>})
          /\ Cardinality(Owed(n) \ {<<t, h>>}) = Cardinality(Owed(n)) - 1
      BY <2>5, <3>1, FS_RemoveElement
    <3>3. /\ IsFiniteSet((Owed(n) \ {<<t, h>>}) \cup {<<t, 0>>})
          /\ Cardinality((Owed(n) \ {<<t, h>>}) \cup {<<t, 0>>}) = Cardinality(Owed(n) \ {<<t, h>>}) + 1
      BY <2>5, <3>2, FS_AddElement
    <3> QED BY <2>4, <3>1, <3>2, <3>3
  <2>7. Counted'
    BY <1>1, <2>3, <2>6 DEF CountInv, Counted
  <2>8. StrayAlone'
    BY <1>2, <1>3, <2>1, <2>3 DEF CountInv, StrayAlone, Strays
  <2> QED BY <2>7, <2>8 DEF CountInv
<1> QED BY <1>5, <1>6, <1>7
\* A call in progress goes on or ends without touching the references.
LEMMA QuietCount ==
    ASSUME TypeOK, CountInv, NEW t \in Threads,
           pc[t] # "idle", \E p \in Places : pc' = [pc EXCEPT ![t] = p],
           \A n \in Names : Releasing(t, n)' <=> Releasing(t, n),
           \A n \in Names : Cardinality(At(requested_node', n)) = Cardinality(At(requested_node, n)),
           UNCHANGED <<op, held>>
    PROVE  CountInv'
<1>1. \A s \in Threads : s # t => pc'[s] = pc[s]
  BY DEF TypeOK
<1>2. \A s \in Threads, n \in Names : Releasing(s, n)' <=> Releasing(s, n)
  BY <1>1 DEF Releasing
<1>3. \A n \in Names : Owed(n)' = Owed(n)
  BY <1>2 DEF Owed
<1>4. Counted'
  BY <1>3 DEF CountInv, Counted
<1>5. StrayAlone'
  BY <1>1, <1>3 DEF CountInv, StrayAlone, Strays
<1> QED BY <1>4, <1>5 DEF CountInv

\* A successful request hands out a reference with a node of its own.
LEMMA RequestCount ==
    ASSUME TypeOK, CountInv, NEW t \in Threads, InRequest(t),
           requested_node' = Append(requested_node, op[t].name),
           held' = [held EXCEPT ![t][op[t].name] = @ + 1],
           pc' = [pc EXCEPT ![t] = "idle"], op' = op
    PROVE  CountInv'
<1>0. PICK N \in Names : N = op[t].name
  BY DEF TypeOK, Calls
<1> DEFINE h == held[t][N]
<1>1. /\ N = op[t].name /\ h \in Nat
      /\ pc[t] = "critical" /\ op[t].call = "request"
      /\ requested_node \in Seq(Names \cup {NoName})
  BY <1>0 DEF TypeOK, Calls, InRequest
<1>2. /\ held'[t][N] = h + 1
      /\ \A s \in Threads, m \in Names : s # t \/ m # N => held'[s][m] = held[s][m]
      /\ \A s \in Threads : s # t => pc'[s] = pc[s]
  BY <1>1 DEF TypeOK
<1>3. \A s \in Threads, m \in Names : Releasing(s, m)' <=> Releasing(s, m)
  <2>1. \A m \in Names : ~Releasing(t, m) /\ ~Releasing(t, m)'
    BY <1>1 DEF Releasing
  <2> QED BY <1>2, <2>1 DEF Releasing
<1>4. \A m \in Names : m # N => Owed(m)' = Owed(m)
  BY <1>2, <1>3 DEF Owed
<1>5. Owed(N)' = Owed(N) \cup {<<t, h + 1>>}
  <2>1. \A s \in Threads : held[s][N] \in Nat /\ held'[s][N] \in Nat
    BY <1>1, <1>2 DEF TypeOK
  <2>2. ASSUME NEW s \in Threads, NEW k \in Nat
        PROVE  <<s, k>> \in Owed(N)' <=> <<s, k>> \in Owed(N) \cup {<<t, h + 1>>}
    BY <1>1, <1>2, <1>3, <2>1 DEF Owed
  <2>3. Owed(N)' \subseteq Threads \X Nat /\ Owed(N) \subseteq Threads \X Nat
    BY DEF Owed
  <2> QED BY <1>1, <2>2, <2>3
<1>6. <<t, h + 1>> \notin Owed(N)
  BY <1>1, OwedType
<1>7. \A m \in Names : /\ Cardinality(At(requested_node, m)) \in Nat
                       /\ Cardinality(At(requested_node', m)) =
                              Cardinality(At(requested_node, m)) + (IF N = m THEN 1 ELSE 0)
  BY <1>1, AtType, AppendCount
<1>8. /\ IsFiniteSet(Owed(N)')
      /\ Cardinality(Owed(N)') = Cardinality(Owed(N)) + 1
  BY <1>1, <1>5, <1>6, FS_AddElement DEF CountInv, Counted
<1>9. Counted'
  <2>1. ASSUME NEW m \in Names
        PROVE  /\ IsFiniteSet(Owed(m)')
               /\ Cardinality(Owed(m)') <= Cardinality(At(requested_node', m))
    <3>1. /\ IsFiniteSet(Owed(m)) /\ Cardinality(Owed(m)) \in Nat
          /\ Cardinality(Owed(m)) <= Cardinality(At(requested_node, m))
      BY FS_CardinalityType DEF CountInv, Counted
    <3> QED BY <1>4, <1>7, <1>8, <3>1
  <2> QED BY <2>1 DEF Counted
<1>10. StrayAlone'
  <2>1. \A s \in Threads : s # t => ~Strays(s, N)
    BY <1>1 DEF CountInv, StrayAlone
  <2>2. ~Strays(t, N)'
    BY <1>1 DEF Strays, TypeOK
  <2> QED BY <1>2, <1>4, <2>1, <2>2 DEF CountInv, StrayAlone, Strays
<1> QED BY <1>9, <1>10 DEF CountInv

\* A release takes a node and the reference that was given back; one too many
\* takes a node that nobody needs.
LEMMA ReleaseCount ==
    ASSUME TypeOK, CountInv, NEW t \in Threads, ReleaseNode(t)
    PROVE  CountInv'
<1>0. PICK N \in Names : N = op[t].name
  BY DEF TypeOK, Calls
<1> DEFINE list == requested_node
           k == FirstStop(list, N)
<1>1. /\ N = op[t].name
      /\ list \in Seq(Names \cup {NoName})
      /\ pc[t] = "critical" /\ op[t].call # "request"
      /\ op[t] = [call |-> op[t].call, name |-> N]
      /\ op[t].call \in {"release", "stray"}
  BY <1>0 DEF TypeOK, Calls, ReleaseNode, InRelease
<1>2. /\ Found(list, N)
      /\ list' = Unlink(list, k)
      /\ held' = held /\ op' = op
      /\ pc' = [pc EXCEPT ![t] = "idle"]
  BY <1>1 DEF ReleaseNode, Remaining, UnlockAndReturn
<1>3. k \in DOMAIN list /\ list[k] = N
  BY <1>1, <1>2, FirstStopInList DEF Found
<1> HIDE DEF k
<1>4. \A m \in Names : /\ Cardinality(At(list, m)) \in Nat
                       /\ Cardinality(At(list', m)) =
                              Cardinality(At(list, m)) - (IF N = m THEN 1 ELSE 0)
  BY <1>1, <1>2, <1>3, AtType, UnlinkCount
<1>5. \A s \in Threads : s # t => pc'[s] = pc[s]
  BY <1>2 DEF TypeOK
<1>6. /\ \A s \in Threads, m \in Names : s # t => (Releasing(s, m)' <=> Releasing(s, m))
      /\ \A m \in Names : ~Releasing(t, m)'
      /\ \A m \in Names : Releasing(t, m) => m = N
  BY <1>1, <1>2, <1>5 DEF Releasing, TypeOK
<1>7. \A m \in Names : Owed(m)' \subseteq Owed(m)
  BY <1>2, <1>6 DEF Owed
<1>8. \A m \in Names : m # N => Owed(m)' = Owed(m)
  BY <1>2, <1>6 DEF Owed
<1>9. /\ IsFiniteSet(Owed(N)')
      /\ Cardinality(Owed(N)') <= Cardinality(At(list', N))
  <2>1. /\ IsFiniteSet(Owed(N)) /\ Cardinality(Owed(N)) \in Nat
        /\ Cardinality(Owed(N)) <= Cardinality(At(list, N))
    BY <1>1, FS_CardinalityType DEF CountInv, Counted
  <2>2. CASE op[t].call = "release"
    <3>1. Releasing(t, N)
      BY <1>1, <2>2 DEF Releasing
    <3>2. <<t, 0>> \in Owed(N)
      BY <1>1, <3>1, OwedType
    <3>3. <<t, 0>> \notin Owed(N)'
      <4>1. ~(0 \in 1..held'[t][N])
        BY <1>1, <1>2 DEF TypeOK
      <4> QED BY <1>1, <1>6, <4>1 DEF Owed
    <3>4. /\ IsFiniteSet(Owed(N) \ {<<t, 0>>})
          /\ Cardinality(Owed(N) \ {<<t, 0>>}) = Cardinality(Owed(N)) - 1
      BY <2>1, <3>2, FS_RemoveElement
    <3>5. Owed(N)' \in SUBSET (Owed(N) \ {<<t, 0>>})
      BY <1>1, <1>7, <3>3
    <3>6. /\ IsFiniteSet(Owed(N)')
          /\ Cardinality(Owed(N)') <= Cardinality(Owed(N) \ {<<t, 0>>})
      BY <3>4, <3>5, FS_Subset
    <3>7. Cardinality(Owed(N)') \in Nat
      BY <3>6, FS_CardinalityType
    <3> QED BY <1>1, <1>4, <2>1, <3>4, <3>6, <3>7
  <2>3. CASE op[t].call = "stray"
    <3>1. Strays(t, N)
      BY <1>1, <2>3 DEF Strays
    <3>2. Owed(N)' = {}
      BY <1>1, <1>7, <3>1 DEF CountInv, StrayAlone
    <3>3. Cardinality(At(list, N)) # 0
      <4>1. Listed(list, N)
        BY <1>3 DEF Listed
      <4> QED BY <1>1, <4>1, AtType
    <3> QED BY <1>1, <1>4, <3>2, <3>3, FS_EmptySet
  <2> QED BY <1>1, <2>2, <2>3
<1>10. Counted'
  BY <1>1, <1>4, <1>8, <1>9 DEF CountInv, Counted
<1>11. StrayAlone'
  BY <1>2, <1>5, <1>7 DEF CountInv, StrayAlone, Strays, TypeOK
<1> QED BY <1>10, <1>11 DEF CountInv
\* A release that finds no node was one too many: references have nodes.
LEMMA UnknownIsStray ==
    ASSUME TypeOK, CountInv, NEW t \in Threads, ReleaseUnknown(t), NEW n \in Names
    PROVE  ~Releasing(t, n)
<1> SUFFICES ASSUME Releasing(t, n) PROVE FALSE
  OBVIOUS
<1>1. /\ Stops(requested_node, n) = {}
      /\ requested_node \in Seq(Names \cup {NoName})
  BY DEF ReleaseUnknown, Releasing, TypeOK
<1>2. Cardinality(At(requested_node, n)) = 0
  <2>1. ~Listed(requested_node, n)
    BY <1>1 DEF Listed, Stops
  <2> QED BY <1>1, <2>1, AtType
<1>3. /\ IsFiniteSet(Owed(n)) /\ Cardinality(Owed(n)) \in Nat
      /\ Cardinality(Owed(n)) <= 0
  BY <1>2, FS_CardinalityType DEF CountInv, Counted
<1>4. Owed(n) = {}
  BY <1>3, FS_EmptySet
<1> QED BY <1>4, OwedType

LEMMA CountStep ==
    ASSUME Inv, CountInv, [Next /\ Orderly]_vars
    PROVE  CountInv'
<1>1. TypeOK
  BY DEF Inv
<1>2. CASE UNCHANGED vars
  <2>1. \A n \in Names : Owed(n)' = Owed(n)
    BY <1>2 DEF vars, Owed, Releasing
  <2> QED BY <1>2, <2>1 DEF vars, CountInv, Counted, StrayAlone, Strays
<1>3. CASE Next /\ Orderly
  <2>1. PICK t \in Threads : \/ \E n \in Names : \/ CallRequest(t, n)
                                                 \/ CallRelease(t, n)
                                                 \/ CallStrayRelease(t, n)
                             \/ Step(t)
    BY <1>3 DEF Next
  <2>2. ASSUME NEW n \in Names,
               CallRequest(t, n) \/ CallRelease(t, n) \/ CallStrayRelease(t, n)
        PROVE  CountInv'
    BY <1>1, <1>3, <2>2, CallsCount
  <2>3. CASE TestInitialized(t) \/ InitMutex(t) \/ LockMutex(t)
    <3>1. /\ pc[t] # "idle"
          /\ \E p \in Places \ {"idle"} : pc' = [pc EXCEPT ![t] = p]
          /\ UNCHANGED <<op, held, requested_node>>
      BY <2>3 DEF TestInitialized, InitMutex, LockMutex, Places
    <3>2. \A n \in Names : Releasing(t, n)' <=> Releasing(t, n)
      BY <1>1, <3>1 DEF Releasing, TypeOK
    <3> QED BY <1>1, <3>1, <3>2, QuietCount
  <2>4. CASE Crash
    <3>1. \A n \in Names : Owed(n)' = Owed(n)
      BY <2>4 DEF Crash, Owed, Releasing
    <3> QED BY <2>4, <3>1 DEF Crash, CountInv, Counted, StrayAlone, Strays
  <2>5. CASE RequestNoNode(t)
    <3>1. /\ pc[t] = "critical" /\ op[t].call = "request"
          /\ pc' = [pc EXCEPT ![t] = "idle"]
          /\ UNCHANGED <<op, held, requested_node>>
      BY <2>5 DEF RequestNoNode, InRequest, UnlockAndReturn
    <3>2. \A n \in Names : ~Releasing(t, n)' /\ ~Releasing(t, n)
      BY <3>1 DEF Releasing
    <3> QED BY <1>1, <3>1, <3>2, QuietCount DEF Places
  <2>6. CASE RequestFailed(t)
    <3>1. /\ pc[t] = "critical" /\ op[t].call = "request"
          /\ pc' = [pc EXCEPT ![t] = "idle"]
          /\ requested_node' = Append(requested_node, NoName)
          /\ UNCHANGED <<op, held>>
      BY <2>6 DEF RequestFailed, InRequest, UnlockAndReturn
    <3>2. \A n \in Names : ~Releasing(t, n)' /\ ~Releasing(t, n)
      BY <3>1 DEF Releasing
    <3>3. ASSUME NEW n \in Names
          PROVE  Cardinality(At(requested_node', n)) = Cardinality(At(requested_node, n))
      <4>1. /\ requested_node \in Seq(Names \cup {NoName})
            /\ NoName \in Names \cup {NoName} /\ NoName # n
        BY <1>1, ManagerAssumption DEF TypeOK
      <4>2. Cardinality(At(Append(requested_node, NoName), n)) = Cardinality(At(requested_node, n)) + 0
        BY <4>1, AppendCount
      <4>3. Cardinality(At(requested_node, n)) \in Nat
        BY <4>1, AtType
      <4> QED BY <3>1, <4>2, <4>3
    <3> QED BY <1>1, <3>1, <3>2, <3>3, QuietCount DEF Places
  <2>7. CASE RequestShared(t) \/ RequestLoaded(t)
    <3>1. /\ InRequest(t)
          /\ requested_node' = Append(requested_node, op[t].name)
          /\ held' = [held EXCEPT ![t][op[t].name] = @ + 1]
          /\ pc' = [pc EXCEPT ![t] = "idle"]
          /\ op' = op
      BY <2>7 DEF RequestShared, RequestLoaded, UnlockAndReturn
    <3> QED BY <1>1, <3>1, RequestCount
  <2>8. CASE ReleaseUnknown(t)
    <3>1. /\ pc[t] = "critical"
          /\ pc' = [pc EXCEPT ![t] = "idle"]
          /\ UNCHANGED <<op, held, requested_node>>
      BY <2>8 DEF ReleaseUnknown, InRelease, UnlockAndReturn
    <3>2. \A n \in Names : ~Releasing(t, n)
      BY <1>1, <2>8, UnknownIsStray
    <3>3. \A n \in Names : ~Releasing(t, n)'
      BY <1>1, <3>1 DEF Releasing, TypeOK
    <3> QED BY <1>1, <3>1, <3>2, <3>3, QuietCount DEF Places
  <2>9. CASE ReleaseNode(t)
    BY <1>1, <2>9, ReleaseCount
  <2> QED
    BY <2>1, <2>2, <2>3, <2>4, <2>5, <2>6, <2>7, <2>8, <2>9
       DEF Step, Body, RequestFaults, ReleaseFaults
<1> QED BY <1>2, <1>3

\* A reference has a node, and the object of a node is open.
LEMMA HeldInv == Inv /\ CountInv => HeldModulesAreLoaded
<1> SUFFICES ASSUME Inv, CountInv PROVE HeldModulesAreLoaded
  OBVIOUS
<1>1. TypeOK /\ OpenedIffListed /\ MutualExclusion
  BY DEF Inv, LockInv
<1>2. ASSUME NEW t \in Threads, NEW n \in Names, held[t][n] > 0
      PROVE  opened[n] > 0
  <2>1. <<t, 1>> \in Owed(n)
    BY <1>1, <1>2, OwedType DEF TypeOK
  <2>2. /\ IsFiniteSet(Owed(n)) /\ Cardinality(Owed(n)) \in Nat
        /\ Cardinality(Owed(n)) # 0
    BY <2>1, FS_CardinalityType, FS_EmptySet DEF CountInv, Counted
  <2>3. /\ Cardinality(At(requested_node, n)) # 0
        /\ requested_node \in Seq(Names \cup {NoName})
    BY <1>1, <2>2, AtType DEF CountInv, Counted, TypeOK
  <2>4. Listed(requested_node, n)
    BY <2>3, AtType
  <2> QED BY <1>1, <2>4, OpenedIffListedDef
<1> QED BY <1>1, <1>2 DEF HeldModulesAreLoaded

\* A pointer that os_request_api_module returned points to a loaded object
\* until its holder releases it, whatever the other threads request, release,
\* fail to request or release once too often.
THEOREM HeldAreLoaded == OrderlySpec => []HeldModulesAreLoaded
<1>1. Init => Inv /\ CountInv
  BY InitInv, InitCount
<1>2. Inv /\ CountInv /\ [Next /\ Orderly]_vars => Inv' /\ CountInv'
  BY InvStep, CountStep
<1> QED BY <1>1, <1>2, HeldInv, PTL DEF OrderlySpec

-----------------------------------------------------------------------------
(* The refinement of ModuleRefs.                                           *)

\* The nodes of a module are its references.
LEMMA InitRefs == Init => Refs!Init
<1> SUFFICES ASSUME Init PROVE Refs!Init
  OBVIOUS
<1>1. \A n \in Names : {i \in DOMAIN requested_node : requested_node[i] = n} = {}
  BY DEF Init
<1>2. \A n \in Names : Cardinality({i \in DOMAIN requested_node : requested_node[i] = n}) = 0
  BY <1>1, FS_EmptySet
<1>3. \A n \in Names : (opened[n] > 0) = FALSE
  BY DEF Init
<1>4. [n \in Names |-> opened[n] > 0] = [n \in Names |-> FALSE]
  BY <1>3, Zenon
<1>5. [n \in Names |-> Cardinality({i \in DOMAIN requested_node : requested_node[i] = n})] = [n \in Names |-> 0]
  BY <1>2
<1> QED BY <1>4, <1>5 DEF Refs!Init

\* What a step of the manager is for its callers, said with At.
LEMMA RefsStep ==
    ASSUME NEW N \in Names,
           NEW c \in {"acquire", "drop"},
           \A n \in Names : /\ Cardinality(At(requested_node, n)) \in Nat
                            /\ n # N => /\ Cardinality(At(requested_node', n)) = Cardinality(At(requested_node, n))
                                        /\ opened'[n] = opened[n],
           c = "acquire" => /\ Cardinality(At(requested_node', N)) = Cardinality(At(requested_node, N)) + 1
                            /\ opened'[N] > 0,
           c = "drop" => /\ Cardinality(At(requested_node, N)) > 0
                         /\ Cardinality(At(requested_node', N)) = Cardinality(At(requested_node, N)) - 1
                         /\ opened'[N] > 0 <=> Cardinality(At(requested_node, N)) > 1
    PROVE  Refs!Next
<1> DEFINE refs == [n \in Names |-> Cardinality(At(requested_node, n))]
           open == [n \in Names |-> opened[n] > 0]
           refs2 == [n \in Names |-> Cardinality(At(requested_node', n))]
           open2 == [n \in Names |-> opened'[n] > 0]
<1>1. CASE c = "acquire"
  <2>1. refs2 = [refs EXCEPT ![N] = @ + 1]
    BY <1>1
  <2>2. open2 = [open EXCEPT ![N] = TRUE]
    BY <1>1
  <2>3. Refs!Acquire(N)
    BY <2>1, <2>2 DEF Refs!Acquire, At
  <2> QED BY <2>3 DEF Refs!Next
<1>2. CASE c = "drop"
  <2>1. refs[N] > 0 /\ refs2 = [refs EXCEPT ![N] = @ - 1]
    BY <1>2
  <2>2. open2 = [open EXCEPT ![N] = refs[N] > 1]
    <3>1. \A n \in Names : (opened'[n] > 0) = (IF n = N THEN refs[N] > 1 ELSE opened[n] > 0)
      BY <1>2
    <3>2. open2 = [n \in Names |-> IF n = N THEN refs[N] > 1 ELSE open[n]]
      BY <3>1, Zenon
    <3> QED BY <3>2, Zenon
  <2>3. Refs!Drop(N)
    BY <2>1, <2>2 DEF Refs!Drop, At
  <2> QED BY <2>3 DEF Refs!Next
<1> QED BY <1>1, <1>2

\* A request that succeeds acquires, a release that finds its module drops, and
\* nothing else is seen.
LEMMA RefineStep == Inv /\ [Next /\ Orderly]_vars => [Refs!Next]_(Refs!vars)
<1> SUFFICES ASSUME Inv, [Next /\ Orderly]_vars PROVE [Refs!Next]_(Refs!vars)
  OBVIOUS
<1>1. TypeOK /\ OpenedIffListed
  BY DEF Inv
<1>2. requested_node \in Seq(Names \cup {NoName})
  BY <1>1 DEF TypeOK
<1>3. ASSUME UNCHANGED <<requested_node, opened>> PROVE UNCHANGED Refs!vars
  BY <1>3 DEF Refs!vars
<1>4. \A n \in Names : /\ Cardinality(At(requested_node, n)) \in Nat
                       /\ Cardinality(At(requested_node, n)) = 0 <=> ~Listed(requested_node, n)
                       /\ opened[n] = IF Listed(requested_node, n) THEN 1 ELSE 0
  BY <1>1, <1>2, AtType, OpenedIffListedDef
<1>5. ASSUME NEW t \in Threads, RequestShared(t) \/ RequestLoaded(t) \/ ReleaseNode(t)
      PROVE  Refs!Next
  <2>1. PICK N \in Names : N = op[t].name
    BY <1>1 DEF TypeOK, Calls
  <2>2. OpenedIffListed' /\ requested_node' \in Seq(Names \cup {NoName})
    BY <1>1, <1>5, ListInvStep DEF Body
  <2>3. \A n \in Names : opened'[n] = IF Listed(requested_node', n) THEN 1 ELSE 0
    BY <2>2 DEF OpenedIffListed, Listed
  <2>4. \A n \in Names : /\ Cardinality(At(requested_node', n)) \in Nat
                         /\ Cardinality(At(requested_node', n)) = 0 <=> ~Listed(requested_node', n)
    BY <2>2, AtType
  <2>5. CASE RequestShared(t) \/ RequestLoaded(t)
    <3>1. requested_node' = Append(requested_node, N)
      BY <2>1, <2>5 DEF RequestShared, RequestLoaded
    <3>2. \A n \in Names : Cardinality(At(requested_node', n)) =
                               Cardinality(At(requested_node, n)) + (IF N = n THEN 1 ELSE 0)
      BY <1>2, <3>1, AppendCount
    <3>3. \A n \in Names : n # N => opened'[n] = opened[n]
      BY <1>4, <2>3, <2>4, <3>2
    <3>4. opened'[N] > 0
      BY <1>4, <2>3, <2>4, <3>2
    <3>5. /\ \A n \in Names : /\ Cardinality(At(requested_node, n)) \in Nat
                              /\ n # N => Cardinality(At(requested_node', n)) = Cardinality(At(requested_node, n))
          /\ Cardinality(At(requested_node', N)) = Cardinality(At(requested_node, N)) + 1
      BY <1>4, <3>2
    <3> QED BY <3>3, <3>4, <3>5, RefsStep
  <2>6. CASE ReleaseNode(t)
    <3>1. PICK k \in DOMAIN requested_node :
              requested_node[k] = N /\ requested_node' = Unlink(requested_node, k)
      BY <1>2, <2>1, <2>6, FirstStopInList DEF ReleaseNode, Remaining, Found
    <3>2. \A n \in Names : Cardinality(At(requested_node', n)) =
                               Cardinality(At(requested_node, n)) - (IF N = n THEN 1 ELSE 0)
      BY <1>2, <3>1, UnlinkCount
    <3>3. Cardinality(At(requested_node, N)) > 0
      BY <1>4, <3>1 DEF Listed
    <3>4. \A n \in Names : n # N => opened'[n] = opened[n]
      BY <1>4, <2>3, <2>4, <3>2
    <3>5. opened'[N] > 0 <=> Cardinality(At(requested_node, N)) > 1
      BY <1>4, <2>3, <2>4, <3>2
    <3>6. /\ \A n \in Names : /\ Cardinality(At(requested_node, n)) \in Nat
                              /\ n # N => Cardinality(At(requested_node', n)) = Cardinality(At(requested_node, n))
          /\ Cardinality(At(requested_node', N)) = Cardinality(At(requested_node, N)) - 1
      BY <1>4, <3>2
    <3> QED BY <3>3, <3>4, <3>5, <3>6, RefsStep
  <2> QED BY <1>5, <2>5, <2>6
<1>6. ASSUME NEW t \in Threads, RequestFailed(t) PROVE UNCHANGED Refs!vars
  <2>1. requested_node' = Append(requested_node, NoName) /\ opened' = opened
    BY <1>6 DEF RequestFailed
  <2>2. \A n \in Names : Cardinality(At(requested_node', n)) = Cardinality(At(requested_node, n))
    <3>1. NoName \in Names \cup {NoName} /\ \A n \in Names : NoName # n
      BY ManagerAssumption
    <3>2. \A n \in Names : Cardinality(At(Append(requested_node, NoName), n)) = Cardinality(At(requested_node, n)) + 0
      BY <1>2, <3>1, AppendCount
    <3> QED BY <1>4, <2>1, <3>2
  <2> QED BY <2>1, <2>2 DEF Refs!vars, At
<1>7. CASE UNCHANGED vars
  BY <1>3, <1>7 DEF vars
<1>8. CASE Next /\ Orderly
  <2>1. PICK t \in Threads : \/ \E n \in Names : \/ CallRequest(t, n)
                                                 \/ CallRelease(t, n)
                                                 \/ CallStrayRelease(t, n)
                             \/ Step(t)
    BY <1>8 DEF Next
  <2>2. \/ RequestShared(t) \/ RequestLoaded(t) \/ ReleaseNode(t) \/ RequestFailed(t)
        \/ UNCHANGED <<requested_node, opened>>
    BY <2>1 DEF CallRequest, CallRelease, CallStrayRelease, Step, TestInitialized, InitMutex,
                LockMutex, Body, RequestFaults, RequestNoNode, ReleaseFaults, ReleaseUnknown, Crash
  <2> QED BY <1>3, <1>5, <1>6, <2>2
<1> QED BY <1>7, <1>8

\* The list with its shared handles counts references: for its callers the
\* manager behaves as ModuleRefs says, whatever fails in dlopen and malloc.
THEOREM ListImplementsRefs == OrderlySpec => ImplementsRefs
<1>1. Init => Inv /\ Refs!Init
  BY InitInv, InitRefs
<1> QED BY <1>1, InvStep, RefineStep, PTL DEF OrderlySpec, ImplementsRefs, Refs!Spec
=============================================================================
