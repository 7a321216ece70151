----------------------------- MODULE SceneUpdates -----------------------------
(***************************************************************************)
(* The compositor and the threads that change the scene it shows: frontend *)
(* threads that move, hide, create or destroy a surface and then call      *)
(* emit_change_notification.  A change is only a version number; a render  *)
(* sees the version current when for_each_if runs.                         *)
(***************************************************************************)
EXTENDS MultiThreadedCompositor, Naturals

CONSTANTS Emitter,    \* threads that change the scene
          MaxChange   \* bound: changes made in a behaviour

ASSUME EmitterAssumption == NoThread \notin Emitter /\ MaxChange \in Nat

VARIABLES emitter,    \* what each emitting thread is doing
          version,    \* number of changes made so far
          seen,       \* version each functor's last render read
          requests,   \* times compositing_scheduled became true, per functor
          renders     \* renders begun, per functor

sceneVars == <<emitter, version, seen, requests, renders>>
allVars == <<compositorVars, sceneVars>>

Init ==
    /\ CompositorInit
    /\ emitter = [e \in Emitter |-> "idle"]
    /\ version = 0
    /\ seen = [f \in Functor |-> 0]
    /\ requests = [f \in Functor |-> 0]
    /\ renders = [f \in Functor |-> 0]

\* The scene changes before anybody is told.
Change(e) ==
    /\ emitter[e] = "idle"
    /\ version < MaxChange
    /\ version' = version + 1
    /\ emitter' = [emitter EXCEPT ![e] = "changed"]
    /\ UNCHANGED <<compositorVars, seen, requests, renders>>

\* requests counts the flag's rising edges.
CountRequests ==
    requests' = [f \in Functor |->
        IF compositing_scheduled'[f] /\ ~compositing_scheduled[f]
        THEN requests[f] + 1 ELSE requests[f]]

Emit(e) ==
    \/ /\ emitter[e] = "changed"
       /\ EmitBegin(e)
       /\ emitter' = [emitter EXCEPT ![e] = "notifying"]
       /\ UNCHANGED <<version, seen, requests, renders>>
    \/ /\ \E f \in Functor : EmitSchedule(e, f)
       /\ CountRequests
       /\ UNCHANGED <<emitter, version, seen, renders>>
    \/ /\ EmitEnd(e)
       /\ emitter' = [emitter EXCEPT ![e] = "idle"]
       /\ UNCHANGED <<version, seen, requests, renders>>

Main ==
    /\ MainStep
    /\ CountRequests
    /\ UNCHANGED <<emitter, version, seen, renders>>

Thread(f) ==
    \/ /\ Loop(f) \/ Awake(f)
       /\ renders' = [renders EXCEPT ![f] = IF thread'[f] = "scan" THEN @ + 1 ELSE @]
       /\ UNCHANGED <<emitter, version, seen, requests>>
    \/ /\ Scan(f)
       /\ seen' = [seen EXCEPT ![f] = version]
       /\ UNCHANGED <<emitter, version, requests, renders>>
    \/ /\ Posted(f)
       /\ UNCHANGED sceneVars

Next ==
    \/ \E e \in Emitter : Change(e) \/ Emit(e)
    \/ Main
    \/ \E f \in Functor : Thread(f) \/ (SpuriousRunWakeup(f) /\ UNCHANGED sceneVars)

\* Every thread keeps running; threads blocked on the change mutex get it
\* eventually, which takes strong fairness for the ones that contend for it.
\* The user may never ask the server to stop: Unhook is not fair.
Fairness ==
    /\ \A f \in Functor : WF_allVars(Thread(f))
    /\ \A e \in Emitter : SF_allVars(Emit(e))
    /\ SF_allVars(Main /\ main # "started")

Spec == Init /\ [][Next]_allVars

FairSpec == Spec /\ Fairness

-----------------------------------------------------------------------------

\* The type of the compositor's and the emitters' state.
TypeOK ==
    /\ CompositorTypeOK
    /\ notifier \in Emitter \cup {NoThread}
    /\ emitter \in [Emitter -> {"idle", "changed", "notifying"}]
    /\ version \in 0..MaxChange
    /\ seen \in [Functor -> 0..MaxChange]
    /\ requests \in [Functor -> Nat]
    /\ renders \in [Functor -> Nat]

\* The callback iterates thread_functors under notify_change_mutex, which
\* stop() takes before it lets go of them: no notification reaches a functor
\* that is stopped or whose thread was joined and cleared.
NoNotificationAfterStop ==
    unscheduled # {} => main \notin {"stopping", "joining", "stopped"}

\* Compositing happens on demand only: a functor begins no more renders than
\* there were requests, and a request still pending has not been served.
RendersOnDemand ==
    \A f \in Functor :
        renders[f] + (IF compositing_scheduled[f] THEN 1 ELSE 0) <= requests[f]

\* Every change of the scene is shown by every functor, however it races with
\* start(), with a render in progress or with other changes, unless the
\* compositor is being stopped.
ChangesAreRendered ==
    \A f \in Functor : \A v \in 1..MaxChange :
        version >= v ~> seen[f] >= v \/ main \in {"stopping", "joining", "stopped"}

\* stop() returns: every compositing thread notices, wherever it is.
StopReturns == main = "stopping" ~> main = "stopped"

=============================================================================
