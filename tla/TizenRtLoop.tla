---------------------------- MODULE TizenRtLoop ----------------------------
(***************************************************************************)
(* The loop module on TizenRT (src/modules/base/loop/tizenrt_loop.c):      *)
(* timeout, periodic, watch and idle callbacks as libuv handles.  Each     *)
(* kind has a vector of pointers to its structures and a counter that      *)
(* numbers them and wraps at IdLimit.                                      *)
(*                                                                         *)
(* A registration is one allocated structure.  When its callback is done   *)
(* the structure is zeroed, freed, and its id is read once more to clean   *)
(* the vector: the freed block still holds the zeroes (the allocator only  *)
(* writes to its first words), so that the id read is 0.  The id field of  *)
(* an idle structure is never assigned: it is what malloc left there.      *)
(*                                                                         *)
(* libuv is external: it calls the active handles, one at a time, and      *)
(* uv_run returns when no handle is active.                                *)
(***************************************************************************)
EXTENDS Naturals, Sequences, FiniteSets, Functions

CONSTANTS Regs,         \* structures that can be allocated
          NoReg,        \* no callback is being called
          Kinds,        \* the kinds of callback in use
          IdLimit,      \* where the counters wrap (255 in the code)
          SelfRemoval   \* TRUE: a callback may remove its own registration

ASSUME TizenRtAssumption == /\ NoReg \notin Regs
                            /\ Kinds \subseteq {"timeout", "periodic", "watch", "idle"}
                            /\ IdLimit \in Nat \ {0}
                            /\ SelfRemoval \in BOOLEAN

VARIABLES kind,         \* kind[r]: the kind of structure r
          id,           \* id[r]: the field, 0 once the structure is zeroed
          given,        \* given[r]: the id that was returned to the caller
          life,         \* life[r]: "none", "active" (its handle), "freed"
          vector,       \* vector[k]: the pointers of kind k
          next_id,      \* next_id[k]: _id_timeout and the like
          current,      \* the structure whose callback is being called
          running,      \* uv_run has been entered and has not returned
          crashed,      \* uv_*_stop was called with a NULL handle
          asked,        \* registrations the application asked to remove
          called,       \* registrations whose callback has been called
          quit          \* os_loop_quit was called from a callback

vars == <<kind, id, given, life, vector, next_id, current, running, crashed,
          asked, called, quit>>

\* What the uninitialised id of an idle structure can be: one of the ids in
\* use or something else.
Garbage == 0..IdLimit

TypeOK == /\ kind \in [Regs -> Kinds]
          /\ id \in [Regs -> 0..IdLimit]
          /\ given \in [Regs -> 0..(IdLimit - 1)]
          /\ life \in [Regs -> {"none", "active", "freed"}]
          /\ \A k \in Kinds : Range(vector[k]) \subseteq Regs
          /\ next_id \in [Kinds -> 0..IdLimit]
          /\ current \in Regs \cup {NoReg}
          /\ {running, crashed, quit} \subseteq BOOLEAN
          /\ asked \subseteq Regs
          /\ called \subseteq Regs

Init == /\ kind \in [Regs -> Kinds]
        /\ id = [r \in Regs |-> 0]
        /\ given = [r \in Regs |-> 0]
        /\ life = [r \in Regs |-> "none"]
        /\ vector = [k \in Kinds |-> <<>>]
        /\ next_id = [k \in Kinds |-> 0]
        /\ current = NoReg
        /\ running = FALSE
        /\ crashed = FALSE
        /\ asked = {}
        /\ called = {}
        /\ quit = FALSE

Active == {r \in Regs : life[r] = "active"}

\* The application runs before os_loop_run and in callbacks.
AppRuns == ~crashed /\ (~running \/ current # NoReg)

-----------------------------------------------------------------------------

\* if (_id_timeout >= 255) _id_timeout = 0;
Wrapped(n) == IF n >= IdLimit THEN 0 ELSE n

\* The handle is started, the structure appended and the counter advanced.
Start(r) ==
    LET k == kind[r]
        n == Wrapped(next_id[k])
    IN  /\ AppRuns
        /\ life[r] = "none"
        /\ life' = [life EXCEPT ![r] = "active"]
        /\ vector' = [vector EXCEPT ![k] = Append(@, r)]
        /\ next_id' = [next_id EXCEPT ![k] = n + 1]
        /\ given' = [given EXCEPT ![r] = n]
        /\ UNCHANGED <<kind, current, running, crashed, asked, called, quit>>

Numbered(r) == id' = [id EXCEPT ![r] = given'[r]]

AddTimeout(r) == kind[r] = "timeout" /\ Start(r) /\ Numbered(r)
AddPeriodic(r) == kind[r] = "periodic" /\ Start(r) /\ Numbered(r)
AddWatch(r) == kind[r] = "watch" /\ Start(r) /\ Numbered(r)
\* The number is returned, and not stored.
AddIdle(r) == /\ kind[r] = "idle"
              /\ Start(r)
              /\ \E g \in Garbage : id' = [id EXCEPT ![r] = g]

\* *_cleanup(i): every structure of kind k whose id field is i leaves the
\* vector, and those whose handle is not NULL are stopped, zeroed and freed.
\* fieldId and fieldLife are the fields when cleanup is entered.
Matching(k, i, fieldId) == {r \in Range(vector[k]) : fieldId[r] = i}

\* The vector without the structures of S, the others in their order.
Without(v, S) ==
    LET kept == {i \in DOMAIN v : v[i] \notin S}
        places == {at \in [1..Cardinality(kept) -> kept] :
                     /\ Range(at) = kept
                     /\ \A i, j \in DOMAIN at : i < j => at[i] < at[j]}
    IN  {[i \in DOMAIN at |-> v[at[i]]] : at \in places}

\* Mutant of Cleanup: the entry of the structure stays in the vector.
MutCleanup(k, i, fieldId, fieldLife) ==
    LET hit == Matching(k, i, fieldId) IN
    /\ \E w \in Without(vector[k], {r \in hit : fieldLife[r] # "freed"}) :
          vector' = [vector EXCEPT ![k] = w]
    /\ life' = [r \in Regs |-> IF r \in hit THEN "freed" ELSE fieldLife[r]]
    /\ id' = [r \in Regs |-> IF r \in hit THEN 0 ELSE fieldId[r]]

\* Mutant of Cleanup: the search stops at the first structure, which is the
\* last one added, instead of comparing ids.
MutCleanupLast(k, i, fieldId, fieldLife) ==
    LET hit == IF vector[k] = <<>> THEN {} ELSE {vector[k][Len(vector[k])]} IN
    /\ \E w \in Without(vector[k], hit) : vector' = [vector EXCEPT ![k] = w]
    /\ life' = [r \in Regs |-> IF r \in hit THEN "freed" ELSE fieldLife[r]]
    /\ id' = [r \in Regs |-> IF r \in hit THEN 0 ELSE fieldId[r]]

Cleanup(k, i, fieldId, fieldLife) ==
    LET hit == Matching(k, i, fieldId) IN
    /\ \E w \in Without(vector[k], hit) : vector' = [vector EXCEPT ![k] = w]
    /\ life' = [r \in Regs |-> IF r \in hit THEN "freed" ELSE fieldLife[r]]
    /\ id' = [r \in Regs |-> IF r \in hit THEN 0 ELSE fieldId[r]]

\* The application gives back the id it was given for r.
RemoveId(r) ==
    /\ AppRuns
    /\ life[r] # "none"
    /\ r \notin asked
    /\ current = r => SelfRemoval
    /\ asked' = asked \cup {r}
    /\ Cleanup(kind[r], given[r], id, life)
    /\ UNCHANGED <<kind, given, next_id, current, running, crashed, called, quit>>

\* A timeout is removed only before it was called, or in its own callback.
RemoveTimeout(r) == /\ kind[r] = "timeout"
                    /\ r \notin called \/ current = r
                    /\ RemoveId(r)
RemovePeriodic(r) == kind[r] = "periodic" /\ RemoveId(r)
RemoveWatch(r) == kind[r] = "watch" /\ RemoveId(r)
RemoveIdle(r) == kind[r] = "idle" /\ RemoveId(r)

Run == /\ ~crashed /\ ~running
       /\ running' = TRUE
       /\ UNCHANGED <<kind, id, given, life, vector, next_id, current, crashed,
                      asked, called, quit>>

\* os_loop_quit in a callback: uv_loop_close refuses a loop with handles
\* (UV_EBUSY), and the next _get_loop finds the default loop again.
Quit == /\ ~crashed /\ current # NoReg
        /\ quit' = TRUE
        /\ UNCHANGED <<kind, id, given, life, vector, next_id, current, running,
                       crashed, asked, called>>

-----------------------------------------------------------------------------
(* libuv calls the trampolines.                                            *)

\* A timer expires, a descriptor is ready, the loop is idle.
Call(r) ==
    /\ ~crashed /\ running
    /\ current = NoReg
    /\ r \in Active
    /\ current' = r
    /\ called' = called \cup {r}
    /\ UNCHANGED <<kind, id, given, life, vector, next_id, running, crashed,
                   asked, quit>>

\* The callback asks for more: the trampoline returns without looking at
\* the structure again.
Again == UNCHANGED <<id, life, vector, crashed>>

\* The callback is done: stop the handle, zero and free the structure, then
\* clean the vector with the id of the freed structure.  If the callback
\* removed itself, the handle to stop is NULL already.
Done(r) ==
    \/ /\ life[r] = "active"
       /\ Cleanup(kind[r], 0, [id EXCEPT ![r] = 0], [life EXCEPT ![r] = "freed"])
       /\ UNCHANGED crashed
    \/ /\ life[r] = "freed"
       /\ crashed' = TRUE
       /\ UNCHANGED <<id, life, vector>>

TimeoutReturns(r) == kind[r] = "timeout" /\ Done(r)
PeriodicReturns(r) == kind[r] = "periodic" /\ (Again \/ Done(r))
WatchReturns(r) == kind[r] = "watch" /\ (Again \/ Done(r))
IdleReturns(r) == kind[r] = "idle" /\ (Again \/ Done(r))

Return ==
    /\ ~crashed /\ current # NoReg
    /\ \/ TimeoutReturns(current) \/ PeriodicReturns(current)
       \/ WatchReturns(current) \/ IdleReturns(current)
    /\ current' = NoReg
    /\ UNCHANGED <<kind, given, next_id, running, asked, called, quit>>

RunReturns == /\ running /\ current = NoReg
              /\ Active = {}
              /\ running' = FALSE
              /\ UNCHANGED <<kind, id, given, life, vector, next_id, current,
                             crashed, asked, called, quit>>

Next == \/ \E r \in Regs : \/ AddTimeout(r) \/ AddPeriodic(r) \/ AddWatch(r)
                           \/ AddIdle(r)
                           \/ RemoveTimeout(r) \/ RemovePeriodic(r)
                           \/ RemoveWatch(r) \/ RemoveIdle(r)
                           \/ Call(r)
        \/ Run \/ Quit \/ Return \/ RunReturns

\* uv_run goes on while handles are active: timers expire and are called
\* before libuv waits again, idle handles are called in every iteration, and
\* callbacks return.  A watched descriptor may stay quiet for ever.
Fairness == /\ \A r \in Regs : SF_vars(kind[r] # "watch" /\ Call(r))
            /\ WF_vars(Return)
            /\ WF_vars(RunReturns)

Spec == Init /\ [][Next]_vars /\ Fairness

-----------------------------------------------------------------------------
(* Properties.                                                             *)

\* Cleaning with the id of a freed structure leaves no dangling pointer
\* behind and loses no handle: the vectors hold exactly the structures
\* whose handles are active, once each.  A timeout, periodic or watch
\* callback that was removed is never called again, whatever else was
\* added, called and removed.
VectorsHoldActive ==
    /\ TypeOK
    /\ \A k \in Kinds :
         /\ Range(vector[k]) = {r \in Active : kind[r] = k}
         /\ Len(vector[k]) = Cardinality(Range(vector[k]))
    /\ \A r \in asked : kind[r] # "idle" => r \notin Active

\* A registration whose id is not 0 ends when its own callback is done or
\* the application removes its id, never because another one ended.  (With the
\* id 0 it may: a timeout that ends cleans up with the id it reads in its freed
\* and zeroed structure.)
Ends(r) == r \in Active /\ r \notin Active'
EndsByItself ==
    [][\A r \in Regs : Ends(r) /\ id[r] # 0
             => \/ current = r
                \/ \E s \in asked' \ asked : given[s] = id[r]]_vars

\* So that in a running loop a timeout whose id is not 0 is called, or its id
\* removed, unless a callback that removed itself has crashed the loop.
OthersKeepRunning ==
    /\ EndsByItself
    /\ \A r \in Regs :
         (running /\ life[r] = "active" /\ kind[r] = "timeout" /\ id[r] # 0)
             ~> (crashed \/ r \in called \/ \E s \in asked : given[s] = given[r])
=============================================================================
