--------------------------- MODULE CompositedSurface ---------------------------
(***************************************************************************)
(* One surface on the stack of a running server: its client's frontend     *)
(* thread advancing it from buffer to buffer, the shell hiding and showing *)
(* it, the compositing thread rendering it on demand, and the main thread  *)
(* stopping the compositor and shutting the sessions down.                 *)
(*                                                                         *)
(* The swapper and the compositor are BufferSwapperMulti and               *)
(* MultiThreadedCompositor; this module adds ms::Surface, the filter of    *)
(* DefaultCompositingStrategy and the order in which their operations are  *)
(* called.  There is one display buffer, as on both platforms.             *)
(***************************************************************************)
EXTENDS Integers, Sequences, FiniteSets

CONSTANTS Buffer, NoBuffer, MaxFrame,
          NoThread,
          app,        \* the frontend thread that serves the surface's client
          shell       \* a thread that hides and shows the surface

ASSUME SurfaceAssumption ==
    /\ IsFiniteSet(Buffer) /\ Cardinality(Buffer) \in {2, 3} /\ NoBuffer \notin Buffer
    /\ MaxFrame \in Nat
    /\ app # shell /\ NoThread \notin {app, shell}

VARIABLES client_queue, compositor_queue, in_use_by_client, client,
          client_buffer, compositor_buffer, status, frame, posted, shown

VARIABLES main, todo, callback, notifier, unscheduled, running,
          compositing_scheduled, thread

VARIABLES caller,     \* what app and shell are doing outside the swapper
          hidden,     \* Surface::is_hidden
          down        \* the sessions have been shut down

swapperVars == <<client_queue, compositor_queue, in_use_by_client, client,
                 client_buffer, compositor_buffer, status, frame, posted, shown>>
functorVars == <<main, todo, callback, notifier, unscheduled, running,
                 compositing_scheduled, thread>>
vars == <<swapperVars, functorVars, caller, hidden, down>>

Swapper == INSTANCE BufferSwapperMulti WITH Client <- {app}
Compositor == INSTANCE MultiThreadedCompositor WITH Functor <- {"display"}

Init ==
    /\ Swapper!Init
    /\ Compositor!CompositorInit
    /\ caller = [t \in {app, shell} |-> "idle"]
    /\ hidden = FALSE
    /\ down = FALSE

Goto(t, state) == caller' = [caller EXCEPT ![t] = state]

-----------------------------------------------------------------------------
(* ms::Surface::advance_client_buffer, in three steps *)

\* client_buffer_resource.reset(): nothing to release the first time.
ReleaseOld ==
    /\ caller[app] = "idle"
    /\ \/ Swapper!client_release(app)
       \/ /\ client[app] = "idle"
          /\ Swapper!Usable
          /\ UNCHANGED swapperVars
    /\ Goto(app, "secure")
    /\ UNCHANGED <<functorVars, hidden, down>>

\* Mutant: the compositor is not told of the new frame.
SecureUnnotified ==
    /\ caller[app] = "secure"
    /\ Swapper!client_acquire(app)
    /\ Goto(app, IF client'[app] = "holding" THEN "idle" ELSE "secure")
    /\ UNCHANGED <<functorVars, hidden, down>>

\* secure_client_buffer(), which may wait; the notification comes only after.
SecureNew ==
    /\ caller[app] = "secure"
    /\ Swapper!client_acquire(app)
    /\ Goto(app, IF client'[app] = "holding" THEN "changed" ELSE "secure")
    /\ UNCHANGED <<functorVars, hidden, down>>

\* notify_change(), for every change of the surface.
NotifyChange(t) ==
    /\ \/ /\ caller[t] = "changed"
          /\ Compositor!EmitBegin(t)
          /\ Goto(t, "notifying")
       \/ /\ Compositor!EmitSchedule(t, "display")
          /\ UNCHANGED caller
       \/ /\ Compositor!EmitEnd(t)
          /\ Goto(t, "idle")
    /\ UNCHANGED <<swapperVars, hidden, down>>

set_hidden ==
    /\ caller[shell] = "idle"
    /\ status = "live"
    /\ hidden' = ~hidden
    /\ Goto(shell, "changed")
    /\ UNCHANGED <<swapperVars, functorVars, down>>

\* SurfaceStack::destroy_surface, asked for by the client's own thread.
destroy_surface ==
    /\ caller[app] = "idle"
    /\ Swapper!DestroySurface
    /\ Goto(app, "changed")
    /\ UNCHANGED <<functorVars, hidden, down>>

-----------------------------------------------------------------------------
(* The compositing thread *)

\* for_each_if renders the surfaces that are on the stack and not hidden.
ScanSurface ==
    /\ Compositor!Scan("display")
    /\ IF status = "live" /\ ~hidden
       THEN Swapper!compositor_acquire
       ELSE UNCHANGED swapperVars
    /\ UNCHANGED <<caller, hidden, down>>

\* Mutant: the region outlives the frame.
FinishKeepsRegion ==
    /\ Compositor!Posted("display")
    /\ UNCHANGED <<swapperVars, caller, hidden, down>>

\* The RenderingOperator keeps the region until post_update has returned.
FinishFrame ==
    /\ Compositor!Posted("display")
    /\ IF compositor_buffer # NoBuffer
       THEN Swapper!compositor_release
       ELSE UNCHANGED swapperVars
    /\ UNCHANGED <<caller, hidden, down>>

CompositingThread ==
    \/ /\ Compositor!Loop("display") \/ Compositor!Awake("display")
       /\ UNCHANGED <<swapperVars, caller, hidden, down>>
    \/ ScanSurface
    \/ FinishFrame

-----------------------------------------------------------------------------
(* The main thread: DisplayServer::run, then ~DisplayServer *)

MainThread ==
    \/ /\ Compositor!MainStep
       /\ IF main' = "stopped" /\ status = "live"
          THEN Swapper!CompositorStop
          ELSE UNCHANGED swapperVars
       /\ UNCHANGED <<caller, hidden, down>>
    \/ /\ main = "stopped"
       /\ ~down
       /\ down' = TRUE
       /\ IF Swapper!Usable THEN Swapper!ServerShutdown ELSE UNCHANGED swapperVars
       /\ UNCHANGED <<functorVars, caller, hidden>>

SpuriousWakeup ==
    \/ Swapper!SpuriousWakeup(app) /\ UNCHANGED <<functorVars, caller, hidden, down>>
    \/ /\ Compositor!SpuriousRunWakeup("display")
       /\ UNCHANGED <<swapperVars, caller, hidden, down>>

Next ==
    \/ ReleaseOld
    \/ SecureNew
    \/ NotifyChange(app)
    \/ NotifyChange(shell)
    \/ set_hidden
    \/ destroy_surface
    \/ CompositingThread
    \/ MainThread
    \/ SpuriousWakeup

\* Threads keep running; the two that contend for notify_change_mutex get it.
\* Nothing makes the client draw another frame (ReleaseOld), the shell act, or
\* the server stop.
Fairness ==
    /\ WF_vars(CompositingThread)
    /\ WF_vars(SecureNew)
    /\ SF_vars(NotifyChange(app))
    /\ SF_vars(NotifyChange(shell))
    /\ SF_vars(MainThread /\ main # "started")

Spec == Init /\ [][Next]_vars

FairSpec == Spec /\ Fairness

-----------------------------------------------------------------------------

\* The type of the composed state.
TypeOK ==
    /\ Swapper!TypeOK
    /\ Compositor!CompositorTypeOK
    /\ notifier \in {app, shell, NoThread}
    /\ caller \in [{app, shell} -> {"idle", "secure", "changed", "notifying"}]
    /\ hidden \in BOOLEAN
    /\ down \in BOOLEAN

\* The surface is not shown, for a reason that is not the swapper's: it is
\* hidden, gone, or the compositor is on its way down.
NotShown == hidden \/ status # "live" \/ main \in {"stopping", "joining", "stopped"}

\* Every frame the client has queued reaches the screen, even if the client
\* draws no other: buffer_swapper.h says that queueing a finished buffer
\* "modifies the buffer the compositor posts to the screen".
EveryFrameIsShown ==
    \A n \in 1..MaxFrame : posted >= n ~> shown >= n \/ NotShown

\* A client blocked in advance_client_buffer gets its next buffer while the
\* surface is visible, although client_release wakes nobody and the client
\* notifies the compositor only once it has the buffer: some earlier
\* notification always brings the compositor round.
BlockedClientProceeds ==
    client[app] = "waiting" ~> client[app] = "holding" \/ NotShown

\* A client blocked when the compositor has stopped gets a buffer from the
\* shutdown of the sessions, so that its frontend thread can be joined: waking
\* it is not enough, nobody but shutdown() can refill client_queue by then.
ShutdownFreesClient ==
    client[app] = "waiting" /\ main = "stopped" /\ ~down ~> client[app] = "holding"

\* The compositor never reads an empty deque, nor does the server's shutdown:
\* undefined behaviour takes a surface destroyed while its frame is posted.
UndefinedOnlyWhilePosting ==
    status = "undefined" => thread["display"] = "post" /\ client[app] = "holding"

\* The compositing thread holds a buffer of the surface only while it renders;
\* a joined thread leaves none behind.
RegionHeldOnlyInFrame ==
    compositor_buffer # NoBuffer => thread["display"] = "post"

=============================================================================
