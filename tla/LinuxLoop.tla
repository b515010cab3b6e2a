----------------------------- MODULE LinuxLoop -----------------------------
(***************************************************************************)
(* The loop module on Linux (src/modules/base/loop/linux_loop.c): timeout, *)
(* periodic, idle, fd and signal callbacks as sources of GLib's default    *)
(* context, each with a wrapper structure that the source's destroy        *)
(* notification frees.                                                     *)
(*                                                                         *)
(* GLib is external: it numbers the sources with ids that are never        *)
(* reused, collects the ready sources of the highest priority into a       *)
(* batch, dispatches them one by one skipping those destroyed meanwhile,   *)
(* and runs the destroy notification when the source is destroyed and its  *)
(* dispatch, if one is under way, has returned.  A registration stands for *)
(* the id of its source.                                                   *)
(***************************************************************************)
EXTENDS Naturals, FiniteSets

CONSTANTS Regs,         \* ids that GLib hands out, in the order of use
          NoReg         \* no source is being dispatched

LoopKinds == {"timeout", "periodic", "idle", "watch", "signal"}

ASSUME LoopAssumption == NoReg \notin Regs

VARIABLES kind,         \* kind[r]: which add_* call made r
          source,       \* source[r]: the GSource, "none", "attached", "destroyed"
          wrapper,      \* wrapper[r]: struct _timeout and the like
          ready,        \* sources whose event has occurred
          batch,        \* sources GLib is about to dispatch
          current,      \* the source being dispatched
          mainloop      \* "null", "stopped", "running", "quitting"

loopvars == <<kind, source, wrapper, ready, batch, current, mainloop>>

LoopTypeOK == /\ kind \in [Regs -> LoopKinds]
              /\ source \in [Regs -> {"none", "attached", "destroyed"}]
              /\ wrapper \in [Regs -> {"none", "allocated", "freed"}]
              /\ ready \subseteq Regs
              /\ batch \subseteq Regs
              /\ current \in Regs \cup {NoReg}
              /\ mainloop \in {"null", "stopped", "running", "quitting"}

LoopInit == /\ kind \in [Regs -> LoopKinds]
            /\ source = [r \in Regs |-> "none"]
            /\ wrapper = [r \in Regs |-> "none"]
            /\ ready = {}
            /\ batch = {}
            /\ current = NoReg
            /\ mainloop = "null"

Attached == {r \in Regs : source[r] = "attached"}

\* The application runs before os_loop_run, after it, and in callbacks
\* (a callback does not call os_loop_run itself).
AppRuns == mainloop \in {"null", "stopped"} \/ current # NoReg

-----------------------------------------------------------------------------
(* The operations of the application.                                      *)

\* A wrapper is allocated and the source attached.
Attach(r) ==
    /\ AppRuns
    /\ source[r] = "none"
    /\ wrapper' = [wrapper EXCEPT ![r] = "allocated"]
    /\ source' = [source EXCEPT ![r] = "attached"]
    /\ UNCHANGED <<kind, batch, current, mainloop>>

AddTimeout(r) == kind[r] = "timeout" /\ Attach(r) /\ ready' = ready
AddPeriodic(r) == kind[r] = "periodic" /\ Attach(r) /\ ready' = ready
AddWatch(r) == kind[r] = "watch" /\ Attach(r) /\ ready' = ready
AddSignal(r) == kind[r] = "signal" /\ Attach(r) /\ ready' = ready
\* An idle source is ready at once, the others when their event occurs.
AddIdle(r) == kind[r] = "idle" /\ Attach(r) /\ ready' = ready \cup {r}

\* Mutant of Destroyed: the notification does not wait for the dispatch.
MutDestroyed(r) ==
    /\ source' = [source EXCEPT ![r] = "destroyed"]
    /\ wrapper' = [wrapper EXCEPT ![r] = "freed"]

\* The source is destroyed; its *_destroy_callback frees the wrapper unless
\* the source is being dispatched, which keeps its callback data.
Destroyed(r) ==
    /\ source' = [source EXCEPT ![r] = "destroyed"]
    /\ wrapper' = IF current = r THEN wrapper
                  ELSE [wrapper EXCEPT ![r] = "freed"]

\* Mutant of Detach: the id can be handed out again at once.
MutDetach(r) ==
    /\ AppRuns
    /\ source[r] = "attached"
    /\ source' = [source EXCEPT ![r] = "none"]
    /\ wrapper' = [wrapper EXCEPT ![r] = "none"]
    /\ ready' = ready \ {r}
    /\ batch' = batch \ {r}
    /\ current' = IF current = r THEN NoReg ELSE current
    /\ UNCHANGED <<kind, mainloop>>

\* g_source_remove; an id that is not attached any more is refused and
\* nothing changes.
Detach(r) ==
    /\ AppRuns
    /\ source[r] = "attached"
    /\ Destroyed(r)
    /\ ready' = ready \ {r}
    /\ UNCHANGED <<kind, batch, current, mainloop>>

\* The five functions differ in the error they return.  They all pass the id
\* to GLib, which has one numbering for all kinds.
RemoveTimeout(r) == Detach(r)
RemovePeriodic(r) == Detach(r)
RemoveWatch(r) == Detach(r)
RemoveSignal(r) == Detach(r)
RemoveIdle(r) == Detach(r)

Run ==
    /\ mainloop \in {"null", "stopped"}
    /\ mainloop' = "running"
    /\ UNCHANGED <<kind, source, wrapper, ready, batch, current>>

\* os_loop_quit does nothing before the first run; outside a run it clears
\* a flag that the next run sets again.
Quit ==
    /\ AppRuns
    /\ mainloop # "null"
    /\ mainloop' = IF mainloop = "running" THEN "quitting" ELSE mainloop
    /\ UNCHANGED <<kind, source, wrapper, ready, batch, current>>

-----------------------------------------------------------------------------
(* GLib's main loop.                                                       *)

\* A timer expires, a descriptor becomes ready, a signal is delivered.
EventOccurs(r) ==
    /\ r \in Attached \ ready
    /\ ready' = ready \cup {r}
    /\ UNCHANGED <<kind, source, wrapper, batch, current, mainloop>>

\* Mutant of Priority: timers get G_PRIORITY_DEFAULT.
MutPriority(r) == CASE kind[r] = "watch" -> 1
                    [] kind[r] \in {"timeout", "periodic", "signal"} -> 2
                    [] kind[r] = "idle" -> 3

\* G_PRIORITY_HIGH, G_PRIORITY_DEFAULT, G_PRIORITY_DEFAULT_IDLE.
Priority(r) == CASE kind[r] \in {"timeout", "periodic", "watch"} -> 1
                 [] kind[r] = "signal" -> 2
                 [] kind[r] = "idle" -> 3

Iterate ==
    /\ mainloop = "running"
    /\ current = NoReg
    /\ batch = {}
    /\ ready # {}
    /\ batch' = {r \in ready : \A s \in ready : Priority(r) <= Priority(s)}
    /\ UNCHANGED <<kind, source, wrapper, ready, current, mainloop>>

PassOver(r) ==
    /\ current = NoReg
    /\ r \in batch
    /\ source[r] = "destroyed"
    /\ batch' = batch \ {r}
    /\ UNCHANGED <<kind, source, wrapper, ready, current, mainloop>>

\* The trampoline (_timeout_callback and the like) calls the application.
Dispatch(r) ==
    /\ current = NoReg
    /\ r \in batch
    /\ source[r] = "attached"
    /\ batch' = batch \ {r}
    /\ current' = r
    /\ UNCHANGED <<kind, source, wrapper, ready, mainloop>>

\* The trampoline returns TRUE: the source stays.
Stay(r) ==
    /\ source[r] = "attached"
    /\ UNCHANGED <<source, wrapper>>

\* The trampoline returns FALSE: GLib destroys the source and its wrapper is
\* freed.  A source that was removed during the call is only now freed.
Go(r) ==
    /\ source' = [source EXCEPT ![r] = "destroyed"]
    /\ wrapper' = [wrapper EXCEPT ![r] = "freed"]
    /\ ready' = ready \ {r}

\* A timeout never stays, the others stay when the application's callback
\* returned 1.  A dispatch consumes the event of a timer or a signal, never
\* that of an idle source, and that of a descriptor when the callback read
\* or wrote all it could.
TimeoutReturns(r) == kind[r] = "timeout" /\ Go(r)
PeriodicReturns(r) ==
    kind[r] = "periodic" /\ (Go(r) \/ (Stay(r) /\ ready' = ready \ {r}))
SignalReturns(r) ==
    kind[r] = "signal" /\ (Go(r) \/ (Stay(r) /\ ready' = ready \ {r}))
WatchReturns(r) ==
    kind[r] = "watch" /\ (Go(r) \/ (Stay(r) /\ ready' \in {ready, ready \ {r}}))
IdleReturns(r) ==
    kind[r] = "idle" /\ (Go(r) \/ (Stay(r) /\ ready' = ready))

Return ==
    /\ current # NoReg
    /\ \/ TimeoutReturns(current) \/ PeriodicReturns(current)
       \/ SignalReturns(current) \/ WatchReturns(current)
       \/ IdleReturns(current)
    /\ current' = NoReg
    /\ UNCHANGED <<kind, batch, mainloop>>

\* g_main_loop_run returns after the iteration in which quit was called.
RunReturns ==
    /\ mainloop = "quitting"
    /\ current = NoReg
    /\ batch = {}
    /\ mainloop' = "stopped"
    /\ UNCHANGED <<kind, source, wrapper, ready, batch, current>>

App == \/ \E r \in Regs : \/ AddTimeout(r) \/ AddPeriodic(r) \/ AddWatch(r)
                          \/ AddSignal(r) \/ AddIdle(r)
                          \/ RemoveTimeout(r) \/ RemovePeriodic(r)
                          \/ RemoveWatch(r) \/ RemoveSignal(r) \/ RemoveIdle(r)
       \/ Run \/ Quit

Glib == \/ \E r \in Regs : PassOver(r) \/ Dispatch(r)
        \/ Iterate \/ RunReturns

LoopNext == App \/ Glib \/ Return \/ \E r \in Regs : EventOccurs(r)

\* The thread in g_main_loop_run goes on, callbacks return, and timers
\* expire; descriptors and signals may stay quiet.
LoopFairness == /\ WF_loopvars(Glib)
                /\ WF_loopvars(Return)
                /\ \A r \in Regs :
                       WF_loopvars(kind[r] \in {"timeout", "periodic"} /\ EventOccurs(r))

LoopSpec == LoopInit /\ [][LoopNext]_loopvars /\ LoopFairness

-----------------------------------------------------------------------------
(* Properties.                                                             *)

\* The wrapper that a trampoline reads is alive as long as its callback
\* runs, also when the callback removes its own source, and no wrapper of a
\* source that is over is leaked.
WrapperLives ==
    /\ LoopTypeOK
    /\ \A r \in Regs :
         wrapper[r] = CASE source[r] = "none" -> "none"
                        [] source[r] = "attached" \/ current = r -> "allocated"
                        [] OTHER -> "freed"

\* The life of registration r, seen from outside.
Life(r) == CASE source[r] = "none" -> "new"
             [] source[r] = "attached" /\ current # r -> "armed"
             [] source[r] = "attached" /\ current = r -> "called"
             [] source[r] = "destroyed" /\ current = r -> "leaving"
             [] OTHER -> "over"

\* The life of every registration is the one the loop module promises.
Api == INSTANCE EventLoopApi WITH reg <- [r \in Regs |-> Life(r)]
ImplementsApi == Api!Spec

\* In a running loop every timeout that is not removed is called, whatever
\* the other sources do: no source of its priority can starve it.
TimeoutsAreCalled ==
    \A r \in Regs :
        (kind[r] = "timeout" /\ source[r] = "attached" /\ mainloop = "running")
            ~> (current = r \/ source[r] = "destroyed" \/ mainloop # "running")
=============================================================================
