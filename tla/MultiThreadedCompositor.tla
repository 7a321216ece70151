------------------------ MODULE MultiThreadedCompositor ------------------------
(***************************************************************************)
(* mc::MultiThreadedCompositor with its CompositingFunctors, and the change *)
(* notification of the surface stack that wakes them.                      *)
(*                                                                         *)
(* One compositing thread per display buffer waits on run_cv, renders and  *)
(* waits again.  start() and stop() run on the server's main thread.  A    *)
(* thread that changes the scene calls SurfaceStack::                      *)
(* emit_change_notification, which holds notify_change_mutex while the     *)
(* callback schedules every functor in turn.  Each functor's own fields    *)
(* are accessed under its run_mutex, which no thread keeps across a wait   *)
(* or a render, so every critical section is one action.                   *)
(*                                                                         *)
(* This module has no next-state relation: what a render reads and what    *)
(* an emitting thread changed belong to the modules that compose it.       *)
(***************************************************************************)
EXTENDS FiniteSets

CONSTANTS Functor,    \* one compositing functor per display buffer
          NoThread    \* nobody holds notify_change_mutex

VARIABLES main,       \* progress of start() and stop() on the main thread
          todo,       \* functors its current loop has still to visit
          callback,   \* SurfaceStack::notify_change: "empty" or "schedule"
          notifier,   \* the thread that holds notify_change_mutex
          unscheduled,\* functors the running callback has still to schedule
          running, compositing_scheduled,
          thread      \* what each compositing thread is doing

compositorVars ==
    <<main, todo, callback, notifier, unscheduled, running, compositing_scheduled, thread>>

MainStates == {"new", "spawned", "first", "started", "stopping", "joining", "stopped"}

ThreadStates == {"none", "loop", "waiting", "awake", "scan", "post", "exited"}

CompositorInit ==
    /\ main = "new"
    /\ todo = {}
    /\ callback = "empty"
    /\ notifier = NoThread
    /\ unscheduled = {}
    /\ running = [f \in Functor |-> FALSE]
    /\ compositing_scheduled = [f \in Functor |-> FALSE]
    /\ thread = [f \in Functor |-> "none"]

\* The type of the compositor's state.
CompositorTypeOK ==
    /\ main \in MainStates
    /\ todo \subseteq Functor
    /\ callback \in {"empty", "schedule"}
    /\ unscheduled \subseteq Functor
    /\ running \in [Functor -> BOOLEAN]
    /\ compositing_scheduled \in [Functor -> BOOLEAN]
    /\ thread \in [Functor -> ThreadStates]

-----------------------------------------------------------------------------
(* CompositingFunctor::operator() *)

\* Mutant: the request is not cleared.
RenderKeepsRequest(f) ==
    /\ thread' = [thread EXCEPT ![f] =
                     IF ~running[f] THEN "exited"
                     ELSE IF compositing_scheduled[f] THEN "scan" ELSE "waiting"]
    /\ UNCHANGED compositing_scheduled

\* The inner while loop: wait, or clear the request and render if still
\* running.  A functor that was stopped leaves the outer loop in the same
\* critical section.
WaitOrRender(f) ==
    IF ~compositing_scheduled[f] /\ running[f]
    THEN /\ thread' = [thread EXCEPT ![f] = "waiting"]
         /\ UNCHANGED compositing_scheduled
    ELSE /\ compositing_scheduled' = [compositing_scheduled EXCEPT ![f] = FALSE]
         /\ thread' = [thread EXCEPT ![f] = IF running[f] THEN "scan" ELSE "exited"]

\* The outer loop's test, on entry and after a render.
Loop(f) ==
    /\ thread[f] = "loop"
    /\ IF running[f]
       THEN WaitOrRender(f)
       ELSE /\ thread' = [thread EXCEPT ![f] = "exited"]
            /\ UNCHANGED compositing_scheduled
    /\ UNCHANGED <<main, todo, callback, notifier, unscheduled, running>>

\* run_cv.wait returned.
Awake(f) ==
    /\ thread[f] = "awake"
    /\ WaitOrRender(f)
    /\ UNCHANGED <<main, todo, callback, notifier, unscheduled, running>>

SpuriousRunWakeup(f) ==
    /\ thread[f] = "waiting"
    /\ thread' = [thread EXCEPT ![f] = "awake"]
    /\ UNCHANGED <<main, todo, callback, notifier, unscheduled, running,
                   compositing_scheduled>>

\* DefaultCompositingStrategy::render up to the end of for_each_if, and from
\* there to the return of post_update.
Scan(f) ==
    /\ thread[f] = "scan"
    /\ thread' = [thread EXCEPT ![f] = "post"]
    /\ UNCHANGED <<main, todo, callback, notifier, unscheduled, running,
                   compositing_scheduled>>

\* Mutant: requests that arrived during the render are dropped with it.
PostedDropsRequest(f) ==
    /\ thread[f] = "post"
    /\ thread' = [thread EXCEPT ![f] = "loop"]
    /\ compositing_scheduled' = [compositing_scheduled EXCEPT ![f] = FALSE]
    /\ UNCHANGED <<main, todo, callback, notifier, unscheduled, running>>

Posted(f) ==
    /\ thread[f] = "post"
    /\ thread' = [thread EXCEPT ![f] = "loop"]
    /\ UNCHANGED <<main, todo, callback, notifier, unscheduled, running,
                   compositing_scheduled>>

-----------------------------------------------------------------------------
(* CompositingFunctor::schedule_compositing and stop *)

Notify(f) == thread' = [thread EXCEPT ![f] = IF @ = "waiting" THEN "awake" ELSE @]

schedule_compositing(f) ==
    IF compositing_scheduled[f]
    THEN UNCHANGED <<compositing_scheduled, thread>>
    ELSE /\ compositing_scheduled' = [compositing_scheduled EXCEPT ![f] = TRUE]
         /\ Notify(f)

-----------------------------------------------------------------------------
(* SurfaceStack::emit_change_notification *)

EmitBegin(e) ==
    /\ notifier = NoThread
    /\ notifier' = e
    /\ unscheduled' = IF callback = "schedule" THEN Functor ELSE {}
    /\ UNCHANGED <<main, todo, callback, running, compositing_scheduled, thread>>

EmitSchedule(e, f) ==
    /\ notifier = e
    /\ f \in unscheduled
    /\ schedule_compositing(f)
    /\ unscheduled' = unscheduled \ {f}
    /\ UNCHANGED <<main, todo, callback, notifier, running>>

EmitEnd(e) ==
    /\ notifier = e
    /\ unscheduled = {}
    /\ notifier' = NoThread
    /\ UNCHANGED <<main, todo, callback, unscheduled, running, compositing_scheduled, thread>>

-----------------------------------------------------------------------------
(* MultiThreadedCompositor::start and stop *)

\* One functor and its thread per display buffer.
Spawn ==
    /\ main = "new"
    /\ main' = "spawned"
    /\ running' = [f \in Functor |-> TRUE]
    /\ compositing_scheduled' = [f \in Functor |-> FALSE]
    /\ thread' = [f \in Functor |-> "loop"]
    /\ UNCHANGED <<todo, callback, notifier, unscheduled>>

\* set_change_callback takes notify_change_mutex.
Hook ==
    /\ main = "spawned"
    /\ notifier = NoThread
    /\ callback' = "schedule"
    /\ main' = "first"
    /\ todo' = Functor
    /\ UNCHANGED <<notifier, unscheduled, running, compositing_scheduled, thread>>

\* The main thread has dealt with f in one of its loops over the functors; the
\* last one takes it to `then`, with the functors of the next loop to do.
Advance(f, then, next) ==
    /\ f \in todo
    /\ main' = IF todo = {f} THEN then ELSE main
    /\ todo' = IF todo = {f} THEN next ELSE todo \ {f}

FirstRender(f) ==
    /\ main = "first"
    /\ Advance(f, "started", {})
    /\ schedule_compositing(f)
    /\ UNCHANGED <<callback, notifier, unscheduled, running>>

\* Mutant: the callback is replaced without taking notify_change_mutex.
UnhookUnlocked ==
    /\ main = "started"
    /\ callback' = "empty"
    /\ main' = "stopping"
    /\ todo' = Functor
    /\ UNCHANGED <<notifier, unscheduled, running, compositing_scheduled, thread>>

Unhook ==
    /\ main = "started"
    /\ notifier = NoThread
    /\ callback' = "empty"
    /\ main' = "stopping"
    /\ todo' = Functor
    /\ UNCHANGED <<notifier, unscheduled, running, compositing_scheduled, thread>>

\* Mutant: running is cleared and nobody is notified.
StopUnnotified(f) ==
    /\ main = "stopping"
    /\ Advance(f, "joining", Functor)
    /\ running' = [running EXCEPT ![f] = FALSE]
    /\ UNCHANGED <<callback, notifier, unscheduled, compositing_scheduled, thread>>

StopFunctor(f) ==
    /\ main = "stopping"
    /\ Advance(f, "joining", Functor)
    /\ running' = [running EXCEPT ![f] = FALSE]
    /\ Notify(f)
    /\ UNCHANGED <<callback, notifier, unscheduled, compositing_scheduled>>

\* join() returns once the thread has left operator(); after the last one the
\* functors and threads are cleared.
Join(f) ==
    /\ main = "joining"
    /\ thread[f] = "exited"
    /\ Advance(f, "stopped", {})
    /\ thread' = IF todo = {f} THEN [g \in Functor |-> "none"] ELSE thread
    /\ UNCHANGED <<callback, notifier, unscheduled, running, compositing_scheduled>>

MainStep ==
    \/ Spawn
    \/ Hook
    \/ Unhook
    \/ \E f \in Functor : FirstRender(f) \/ StopFunctor(f) \/ Join(f)

=============================================================================
