---------------------------- MODULE EventLoopApi ----------------------------
(***************************************************************************)
(* What the loop module promises (inc/base/artik_loop.h): a registered     *)
(* callback is called, one callback at a time, until it is over; it is     *)
(* over because it said so itself when it returned (a timeout always does) *)
(* or because it was removed, and nothing else ends it or changes another  *)
(* registration.  LinuxLoop is shown to implement this specification.      *)
(***************************************************************************)
CONSTANT Regs           \* registrations: one per successful add_* call

VARIABLE reg            \* reg[r]: the life of registration r

\* "leaving": removed while its callback is being called.
Lives == {"new", "armed", "called", "leaving", "over"}

Init == reg = [r \in Regs |-> "new"]

Becomes(r, life) == reg' = [reg EXCEPT ![r] = life]

Add(r) == reg[r] = "new" /\ Becomes(r, "armed")

Call(r) == /\ reg[r] = "armed"
           /\ \A s \in Regs : reg[s] \notin {"called", "leaving"}
           /\ Becomes(r, "called")

Return(r) == \/ reg[r] = "called" /\ \E life \in {"armed", "over"} : Becomes(r, life)
             \/ reg[r] = "leaving" /\ Becomes(r, "over")

Remove(r) == \/ reg[r] = "armed" /\ Becomes(r, "over")
             \/ reg[r] = "called" /\ Becomes(r, "leaving")

Next == \E r \in Regs : Add(r) \/ Call(r) \/ Return(r) \/ Remove(r)

Spec == Init /\ [][Next]_reg
=============================================================================
