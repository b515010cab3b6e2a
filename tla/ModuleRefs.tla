----------------------------- MODULE ModuleRefs -----------------------------
(***************************************************************************)
(* What the module manager promises its callers: every successful request  *)
(* of a module takes one reference on it, every release gives one back,    *)
(* and the module's shared object is open exactly while references remain. *)
(* ModuleManager is shown to implement this specification.                 *)
(***************************************************************************)
EXTENDS Naturals

CONSTANT Names          \* the module names of the platform's table

VARIABLES refs,         \* refs[n]: references handed out and not given back
          open          \* open[n]: the shared object of n is loaded for n

vars == <<refs, open>>

Init == /\ refs = [n \in Names |-> 0]
        /\ open = [n \in Names |-> FALSE]

\* The first reference loads the object, later ones share it.
Acquire(n) == /\ refs' = [refs EXCEPT ![n] = @ + 1]
              /\ open' = [open EXCEPT ![n] = TRUE]

\* The last reference given back unloads the object.
Drop(n) == /\ refs[n] > 0
           /\ refs' = [refs EXCEPT ![n] = @ - 1]
           /\ open' = [open EXCEPT ![n] = refs[n] > 1]

Next == \E n \in Names : Acquire(n) \/ Drop(n)

Spec == Init /\ [][Next]_vars
=============================================================================
