--------------------------- MODULE ModuleManager ---------------------------
(***************************************************************************)
(* The module manager of the SDK (src/modules/base/module/linux_module.c): *)
(* os_request_api_module and os_release_api_module, called by any thread   *)
(* of the application, keep a list with one node per outstanding request   *)
(* behind a mutex that the first caller initialises.                       *)
(*                                                                         *)
(* A node is represented by its info.module_name.  A node whose request    *)
(* failed stays in the list with all its pointers zero: it is NoName.      *)
(* The dynamic linker is external: opened[n] counts the dlopen calls made  *)
(* for n that no dlclose has undone.                                       *)
(***************************************************************************)
EXTENDS Naturals, Sequences, FiniteSets

CONSTANTS Threads,      \* threads of the application that call the manager
          Names,        \* module names in the platform's table
          NoName,       \* module_name == NULL
          MaxHeld       \* bound: references one thread keeps at a time

ASSUME ManagerAssumption == /\ NoName \notin Names
                            /\ MaxHeld \in Nat \ {0}

VARIABLES
    lock_initialized,   \* static bool lock_initialized
    locked,             \* state of the static pthread_mutex_t lock
    requested_node,     \* static artik_list *requested_node
    opened,             \* opened[n]: dlopen calls outstanding for module n
    held,               \* held[t][n]: pointers to module n thread t may use
    pc,                 \* where each thread is in its call
    op,                 \* op[t]: the call in progress, [call, name]
    crashed             \* a NULL pointer of a node was dereferenced

vars == <<lock_initialized, locked, requested_node, opened, held, pc, op,
          crashed>>

Calls == [call : {"request", "release", "stray"}, name : Names]
Places == {"idle", "enter", "init", "lock", "critical"}

TypeOK == /\ lock_initialized \in BOOLEAN
          /\ locked \in BOOLEAN
          /\ requested_node \in Seq(Names \cup {NoName})
          /\ opened \in [Names -> Nat]
          /\ held \in [Threads -> [Names -> Nat]]
          /\ pc \in [Threads -> Places]
          /\ op \in [Threads -> Calls]
          /\ crashed \in BOOLEAN

-----------------------------------------------------------------------------
(* The list.                                                               *)

\* artik_list_get_by_check walks the list until the check function accepts
\* a node.  Both check functions dereference a pointer of every node they
\* look at, so the walk ends at the first node that matches or is NoName.
Stops(list, n) == {i \in DOMAIN list : list[i] \in {n, NoName}}
FirstStop(list, n) ==
    CHOOSE i \in Stops(list, n) : \A j \in Stops(list, n) : i <= j

Found(list, n) == Stops(list, n) # {} /\ list[FirstStop(list, n)] = n
Faults(list, n) == Stops(list, n) # {} /\ list[FirstStop(list, n)] = NoName

\* artik_list_delete_check unlinks the node at position k.
Unlink(list, k) ==
    [i \in 1..(Len(list) - 1) |-> IF i < k THEN list[i] ELSE list[i + 1]]

-----------------------------------------------------------------------------
(* The callers.                                                            *)

Total(t) == \* references of t, those in the call in progress included
    Cardinality({r \in Names \X (1..MaxHeld) : r[2] <= held[t][r[1]]})

CallRequest(t, n) ==
    /\ pc[t] = "idle"
    /\ Total(t) < MaxHeld
    /\ op' = [op EXCEPT ![t] = [call |-> "request", name |-> n]]
    /\ pc' = [pc EXCEPT ![t] = "enter"]
    /\ UNCHANGED <<lock_initialized, locked, requested_node, opened, held,
                   crashed>>

\* A caller releases a module it holds, and stops using the pointer.
CallRelease(t, n) ==
    /\ pc[t] = "idle"
    /\ held[t][n] > 0
    /\ held' = [held EXCEPT ![t][n] = @ - 1]
    /\ op' = [op EXCEPT ![t] = [call |-> "release", name |-> n]]
    /\ pc' = [pc EXCEPT ![t] = "enter"]
    /\ UNCHANGED <<lock_initialized, locked, requested_node, opened, crashed>>

\* A second release of a module whose references were all given back.
CallStrayRelease(t, n) ==
    /\ pc[t] = "idle"
    /\ \A s \in Threads : held[s][n] = 0 /\ pc[s] = "idle"
    /\ op' = [op EXCEPT ![t] = [call |-> "stray", name |-> n]]
    /\ pc' = [pc EXCEPT ![t] = "enter"]
    /\ UNCHANGED <<lock_initialized, locked, requested_node, opened, held,
                   crashed>>

-----------------------------------------------------------------------------
(* mutex_lock(): test the flag, initialise on first use, lock.             *)

TestInitialized(t) ==
    /\ pc[t] = "enter"
    /\ pc' = [pc EXCEPT ![t] = IF lock_initialized THEN "lock" ELSE "init"]
    /\ UNCHANGED <<lock_initialized, locked, requested_node, opened, held, op,
                   crashed>>

\* pthread_mutex_init leaves the mutex unlocked whatever its state was.
InitMutex(t) ==
    /\ pc[t] = "init"
    /\ locked' = FALSE
    /\ lock_initialized' = TRUE
    /\ pc' = [pc EXCEPT ![t] = "lock"]
    /\ UNCHANGED <<requested_node, opened, held, op, crashed>>

\* Mutant of LockMutex: the mutex is not honoured.
MutLockMutex(t) ==
    /\ pc[t] = "lock"
    /\ locked' = TRUE
    /\ pc' = [pc EXCEPT ![t] = "critical"]
    /\ UNCHANGED <<lock_initialized, requested_node, opened, held, op,
                   crashed>>

LockMutex(t) ==
    /\ pc[t] = "lock"
    /\ ~locked
    /\ locked' = TRUE
    /\ pc' = [pc EXCEPT ![t] = "critical"]
    /\ UNCHANGED <<lock_initialized, requested_node, opened, held, op,
                   crashed>>

UnlockAndReturn(t) ==
    /\ locked' = FALSE
    /\ pc' = [pc EXCEPT ![t] = "idle"]

\* The process dies: nothing else changes any more.
Crash == /\ crashed' = TRUE
         /\ UNCHANGED <<lock_initialized, locked, requested_node, opened, held,
                        pc, op>>

-----------------------------------------------------------------------------
(* The body of os_request_api_module between lock and unlock.              *)

InRequest(t) == pc[t] = "critical" /\ op[t].call = "request"

\* artik_compare_module_name meets a node left by a failed request.
RequestFaults(t) ==
    /\ InRequest(t)
    /\ Faults(requested_node, op[t].name)
    /\ Crash

\* artik_list_add is out of memory.
RequestNoNode(t) ==
    /\ InRequest(t)
    /\ ~Faults(requested_node, op[t].name)
    /\ UnlockAndReturn(t)
    /\ UNCHANGED <<lock_initialized, requested_node, opened, held, op, crashed>>

\* Mutant of RequestShared: a module already in the list gets no new node.
MutRequestShared(t) ==
    LET n == op[t].name IN
    /\ InRequest(t)
    /\ Found(requested_node, n)
    /\ held' = [held EXCEPT ![t][n] = @ + 1]
    /\ UnlockAndReturn(t)
    /\ UNCHANGED <<lock_initialized, requested_node, opened, op, crashed>>

\* A node of that name exists: its handle, symbol and name are shared.
RequestShared(t) ==
    LET n == op[t].name IN
    /\ InRequest(t)
    /\ Found(requested_node, n)
    /\ requested_node' = Append(requested_node, n)
    /\ held' = [held EXCEPT ![t][n] = @ + 1]
    /\ UnlockAndReturn(t)
    /\ UNCHANGED <<lock_initialized, opened, op, crashed>>

\* First request of that name: dlopen and dlsym succeed.
RequestLoaded(t) ==
    LET n == op[t].name IN
    /\ InRequest(t)
    /\ Stops(requested_node, n) = {}
    /\ requested_node' = Append(requested_node, n)
    /\ opened' = [opened EXCEPT ![n] = @ + 1]
    /\ held' = [held EXCEPT ![t][n] = @ + 1]
    /\ UnlockAndReturn(t)
    /\ UNCHANGED <<lock_initialized, op, crashed>>

\* Mutant of RequestFailed: the error return forgets mutex_unlock().
MutRequestFailed(t) ==
    /\ InRequest(t)
    /\ Stops(requested_node, op[t].name) = {}
    /\ requested_node' = Append(requested_node, NoName)
    /\ pc' = [pc EXCEPT ![t] = "idle"]
    /\ UNCHANGED <<lock_initialized, locked, opened, held, op, crashed>>

\* dlopen fails, or dlsym or the copy of the name fails after it and the
\* handle is closed again; the node added before stays in the list.
RequestFailed(t) ==
    /\ InRequest(t)
    /\ Stops(requested_node, op[t].name) = {}
    /\ requested_node' = Append(requested_node, NoName)
    /\ UnlockAndReturn(t)
    /\ UNCHANGED <<lock_initialized, opened, held, op, crashed>>

-----------------------------------------------------------------------------
(* The body of os_release_api_module between lock and unlock.              *)

InRelease(t) == pc[t] = "critical" /\ op[t].call # "request"

Remaining(n) == Unlink(requested_node, FirstStop(requested_node, n))

\* artik_compare_module_ops meets a node left by a failed request, in the
\* search for the module or in the second search after the deletion; or it
\* reads through the released pointer of an object that is unmapped.
ReleaseFaults(t) ==
    LET n == op[t].name IN
    /\ InRelease(t)
    /\ \/ Faults(requested_node, n)
       \/ Found(requested_node, n) /\ Faults(Remaining(n), n)
       \/ requested_node # <<>> /\ opened[n] = 0
    /\ Crash

\* No node has that symbol: "releasing invalid module", E_BAD_ARGS.
ReleaseUnknown(t) ==
    /\ InRelease(t)
    /\ Stops(requested_node, op[t].name) = {}
    /\ UnlockAndReturn(t)
    /\ UNCHANGED <<lock_initialized, requested_node, opened, held, op, crashed>>

\* Mutant of ReleaseNode: every release closes the handle.
MutReleaseNode(t) ==
    LET n == op[t].name IN
    /\ InRelease(t)
    /\ Found(requested_node, n)
    /\ ~Faults(Remaining(n), n)
    /\ requested_node' = Remaining(n)
    /\ opened' = [opened EXCEPT ![n] = @ - 1]
    /\ UnlockAndReturn(t)
    /\ UNCHANGED <<lock_initialized, held, op, crashed>>

\* The first node of the module goes; if it was the last one, the name is
\* freed and the handle closed.
ReleaseNode(t) ==
    LET n == op[t].name IN
    /\ InRelease(t)
    /\ Found(requested_node, n)
    /\ ~Faults(Remaining(n), n)
    /\ requested_node' = Remaining(n)
    /\ opened' = IF Found(Remaining(n), n) THEN opened
                 ELSE [opened EXCEPT ![n] = @ - 1]
    /\ UnlockAndReturn(t)
    /\ UNCHANGED <<lock_initialized, held, op, crashed>>

-----------------------------------------------------------------------------

Body(t) == \/ RequestFaults(t) \/ RequestNoNode(t) \/ RequestShared(t)
           \/ RequestLoaded(t) \/ RequestFailed(t)
           \/ ReleaseFaults(t) \/ ReleaseUnknown(t) \/ ReleaseNode(t)

Step(t) == TestInitialized(t) \/ InitMutex(t) \/ LockMutex(t) \/ Body(t)

Next == /\ ~crashed
        /\ \E t \in Threads : \/ \E n \in Names : CallRequest(t, n)
                              \/ \E n \in Names : CallRelease(t, n)
                              \/ \E n \in Names : CallStrayRelease(t, n)
                              \/ Step(t)

Init ==
    /\ lock_initialized = FALSE
    /\ locked = FALSE
    /\ requested_node = <<>>
    /\ opened = [n \in Names |-> 0]
    /\ held = [t \in Threads |-> [n \in Names |-> 0]]
    /\ pc = [t \in Threads |-> "idle"]
    /\ op \in [Threads -> {[call |-> "request", name |-> n] : n \in Names}]
    /\ crashed = FALSE

Spec == Init /\ [][Next]_vars

\* A thread inside the manager keeps running (no thread priority or signal
\* of the SDK stops it); callers need not call.
Fairness == \A t \in Threads : WF_vars(~crashed /\ Step(t))

\* What the manager needs of its callers: the first call of the process
\* returns from mutex_lock() before another thread makes one (the main
\* thread calls before it creates the others), and nobody asks for a module
\* while another thread releases it once too often.
Orderly ==
    \A t \in Threads : pc[t] = "idle" /\ pc'[t] = "enter" =>
        /\ lock_initialized \/ \A s \in Threads : pc[s] = "idle"
        /\ \A s \in Threads : pc[s] # "idle" /\ op[s].call = "stray"
                               => op'[t].name # op[s].name

OrderlySpec == Init /\ [][Next /\ Orderly]_vars /\ Fairness

-----------------------------------------------------------------------------
(* Properties.                                                             *)

\* The list and the table of open handles are only touched by one thread at
\* a time: mutex_lock()/mutex_unlock() around both bodies.
MutualExclusion ==
    \A s, t \in Threads : pc[s] = "critical" /\ pc[t] = "critical" => s = t

\* A module is opened once however many requests share it, and is closed by
\* the release of its last node and by no other: a handle is open exactly
\* while a node refers to it.
OpenedIffListed ==
    \A n \in Names :
        opened[n] = IF \E i \in DOMAIN requested_node : requested_node[i] = n
                    THEN 1 ELSE 0

\* A pointer returned by os_request_api_module stays valid until its holder
\* releases it, whatever the other threads request and release meanwhile.
HeldModulesAreLoaded ==
    /\ TypeOK /\ MutualExclusion
    /\ \A t \in Threads, n \in Names : held[t][n] > 0 => opened[n] > 0

\* Every path through both bodies, the error returns included, unlocks.
LockIsReturned == locked ~> (~locked \/ crashed)

\* The list with its shared handles implements reference counting.
Refs == INSTANCE ModuleRefs WITH
    refs <- [n \in Names |->
                Cardinality({i \in DOMAIN requested_node :
                                requested_node[i] = n})],
    open <- [n \in Names |-> opened[n] > 0]
ImplementsRefs == Refs!Spec

\* os_request_api_module and os_release_api_module return a value to their
\* caller ("\return S_OK on success, otherwise error code."): they never
\* take the process down.
AlwaysReturns == ~crashed
=============================================================================
