-------------------------- MODULE SceneUpdatesProofs --------------------------
(***************************************************************************)
(* Proofs about the compositor and the threads that change the scene, for  *)
(* any number of display buffers, of threads and of changes.               *)
(***************************************************************************)
EXTENDS SceneUpdates, TLAPS

\* What start() and stop() leave in the functors: they run, each with a thread,
\* from start() to stop(), and only between the two is the callback set.
LifeCycle ==
    /\ callback = "schedule" <=> main \in {"first", "started"}
    /\ main \in {"spawned", "first", "started"} =>
          \A f \in Functor : running[f] /\ thread[f] \notin {"none", "exited"}

\* notify_change_mutex is held by the thread that is notifying, and functors
\* are scheduled only by the one that holds it.
MutexHeld ==
    /\ \A e \in Emitter : emitter[e] = "notifying" <=> notifier = e
    /\ notifier = NoThread => unscheduled = {}
    /\ unscheduled # {} => main \in {"first", "started"}

\* No compositing thread sleeps on a request or on a stop it was told of.
NoWakeupLost ==
    \A f \in Functor :
        thread[f] = "waiting" => ~compositing_scheduled[f] /\ running[f]

\* A change that a functor has not rendered is never forgotten: somebody is
\* about to request a render of it, the request is there, or the functor is
\* about to read the scene.
NoChangeForgotten ==
    \A f \in Functor :
        /\ seen[f] <= version
        /\ main \in {"first", "started"} /\ seen[f] < version =>
              \/ \E e \in Emitter : emitter[e] = "changed"
              \/ f \in unscheduled
              \/ main = "first" /\ f \in todo
              \/ compositing_scheduled[f]
              \/ thread[f] = "scan"

IInv ==
    /\ TypeOK
    /\ LifeCycle
    /\ MutexHeld
    /\ RendersOnDemand
    /\ NoWakeupLost
    /\ NoChangeForgotten

-----------------------------------------------------------------------------

\* Counting the requests keeps the type of the counters.
LEMMA RequestsType ==
    ASSUME TypeOK, CountRequests
    PROVE  requests' \in [Functor -> Nat]
  BY DEF TypeOK, CountRequests

\* The compositor and the threads start with nothing requested.
LEMMA InitInvariant == Init => IInv
  BY EmitterAssumption
     DEF Init, CompositorInit, IInv, TypeOK, CompositorTypeOK, MainStates, ThreadStates,
         LifeCycle, MutexHeld, RendersOnDemand, NoWakeupLost, NoChangeForgotten

\* A change is made and still has to be announced.
LEMMA ChangeInvariant ==
    ASSUME IInv, NEW e \in Emitter, Change(e)
    PROVE  IInv'
  <1>1. TypeOK'
    BY EmitterAssumption
       DEF IInv, TypeOK, CompositorTypeOK, Change, compositorVars
  <1>2. LifeCycle' /\ MutexHeld' /\ RendersOnDemand' /\ NoWakeupLost'
    BY DEF IInv, TypeOK, Change, compositorVars, LifeCycle, MutexHeld, RendersOnDemand,
           NoWakeupLost
  <1>3. NoChangeForgotten'
    BY EmitterAssumption
       DEF IInv, TypeOK, Change, compositorVars, NoChangeForgotten
  <1> QED
    BY <1>1, <1>2, <1>3 DEF IInv

\* The three steps of emit_change_notification.
LEMMA EmitInvariant ==
    ASSUME IInv, NEW e \in Emitter, Emit(e)
    PROVE  IInv'
  <1>1. CASE /\ emitter[e] = "changed"
             /\ EmitBegin(e)
             /\ emitter' = [emitter EXCEPT ![e] = "notifying"]
             /\ UNCHANGED <<version, seen, requests, renders>>
    <2> USE <1>1
    <2>1. TypeOK'
      BY DEF IInv, TypeOK, CompositorTypeOK, EmitBegin
    <2>2. LifeCycle' /\ RendersOnDemand' /\ NoWakeupLost'
      BY DEF IInv, EmitBegin, LifeCycle, RendersOnDemand, NoWakeupLost
    <2>3. MutexHeld'
      BY EmitterAssumption DEF IInv, TypeOK, EmitBegin, LifeCycle, MutexHeld
    <2>4. NoChangeForgotten'
      BY DEF IInv, TypeOK, EmitBegin, LifeCycle, NoChangeForgotten
    <2> QED
      BY <2>1, <2>2, <2>3, <2>4 DEF IInv
  <1>2. ASSUME NEW f \in Functor, EmitSchedule(e, f), CountRequests,
               UNCHANGED <<emitter, version, seen, renders>>
        PROVE  IInv'
    <2> USE <1>2
    <2>0. requests' \in [Functor -> Nat]
      BY RequestsType DEF IInv
    <2>1. TypeOK'
      BY <2>0 DEF IInv, TypeOK, CompositorTypeOK, ThreadStates, EmitSchedule,
                  schedule_compositing, Notify
    <2>2. LifeCycle' /\ MutexHeld'
      BY DEF IInv, TypeOK, CompositorTypeOK, EmitSchedule, schedule_compositing, Notify,
             LifeCycle, MutexHeld
    <2>3. RendersOnDemand'
      BY DEF IInv, TypeOK, CompositorTypeOK, EmitSchedule, schedule_compositing, 
             CountRequests, RendersOnDemand
    <2>4. NoWakeupLost' /\ NoChangeForgotten'
      BY DEF IInv, TypeOK, CompositorTypeOK, EmitSchedule, schedule_compositing, Notify,
             NoWakeupLost, NoChangeForgotten
    <2> QED
      BY <2>1, <2>2, <2>3, <2>4 DEF IInv
  <1>3. CASE /\ EmitEnd(e)
             /\ emitter' = [emitter EXCEPT ![e] = "idle"]
             /\ UNCHANGED <<version, seen, requests, renders>>
    <2> USE <1>3
    <2>1. TypeOK'
      BY DEF IInv, TypeOK, CompositorTypeOK, EmitEnd
    <2>2. LifeCycle' /\ RendersOnDemand' /\ NoWakeupLost'
      BY DEF IInv, EmitEnd, LifeCycle, RendersOnDemand, NoWakeupLost
    <2>3. MutexHeld'
      BY EmitterAssumption DEF IInv, TypeOK, EmitEnd, MutexHeld
    <2>4. NoChangeForgotten'
      BY EmitterAssumption DEF IInv, TypeOK, EmitEnd, MutexHeld, NoChangeForgotten
    <2> QED
      BY <2>1, <2>2, <2>3, <2>4 DEF IInv
  <1> QED
    BY <1>1, <1>2, <1>3 DEF Emit

\* start() and stop(), step by step.
LEMMA MainInvariant ==
    ASSUME IInv, Main
    PROVE  IInv'
  <1> USE DEF Main
  <1>0. requests' \in [Functor -> Nat]
    BY RequestsType DEF IInv
  <1>1. CASE Spawn
    <2>1. TypeOK'
      BY <1>0, <1>1 DEF IInv, TypeOK, CompositorTypeOK, MainStates, ThreadStates, Spawn
    <2>2. LifeCycle' /\ MutexHeld' /\ NoWakeupLost' /\ NoChangeForgotten'
      BY <1>1 DEF IInv, TypeOK, CompositorTypeOK, Spawn, LifeCycle, MutexHeld, NoWakeupLost,
                  NoChangeForgotten
    <2>3. RendersOnDemand'
      BY <1>1 DEF IInv, TypeOK, CompositorTypeOK, Spawn, CountRequests, RendersOnDemand
    <2> QED
      BY <2>1, <2>2, <2>3 DEF IInv
  <1>2. CASE Hook \/ Unhook
    <2>1. TypeOK'
      BY <1>0, <1>2 DEF IInv, TypeOK, CompositorTypeOK, MainStates, Hook, Unhook
    <2>2. LifeCycle' /\ MutexHeld' /\ NoWakeupLost' /\ NoChangeForgotten'
      BY <1>2 DEF IInv, TypeOK, CompositorTypeOK, Hook, Unhook, LifeCycle, MutexHeld,
                  NoWakeupLost, NoChangeForgotten
    <2>3. RendersOnDemand'
      BY <1>2 DEF IInv, TypeOK, CompositorTypeOK, Hook, Unhook, CountRequests, RendersOnDemand
    <2> QED
      BY <2>1, <2>2, <2>3 DEF IInv
  <1>3. ASSUME NEW f \in Functor, FirstRender(f) PROVE IInv'
    <2>1. TypeOK'
      BY <1>0, <1>3 DEF IInv, TypeOK, CompositorTypeOK, MainStates, ThreadStates, FirstRender,
                        Advance, schedule_compositing, Notify
    <2>2. LifeCycle' /\ MutexHeld'
      BY <1>3 DEF IInv, TypeOK, CompositorTypeOK, FirstRender, Advance, schedule_compositing,
                  Notify, LifeCycle, MutexHeld
    <2>3. NoWakeupLost' /\ NoChangeForgotten'
      BY <1>3 DEF IInv, TypeOK, CompositorTypeOK, FirstRender, Advance, schedule_compositing,
                  Notify, NoWakeupLost, NoChangeForgotten
    <2>4. RendersOnDemand'
      BY <1>3 DEF IInv, TypeOK, CompositorTypeOK, FirstRender, schedule_compositing,
                  CountRequests, RendersOnDemand
    <2> QED
      BY <2>1, <2>2, <2>3, <2>4 DEF IInv
  <1>4. ASSUME NEW f \in Functor, StopFunctor(f) PROVE IInv'
    <2>1. TypeOK'
      BY <1>0, <1>4 DEF IInv, TypeOK, CompositorTypeOK, MainStates, ThreadStates, StopFunctor,
                        Advance, Notify
    <2>2. LifeCycle' /\ MutexHeld' /\ NoChangeForgotten'
      BY <1>4 DEF IInv, TypeOK, CompositorTypeOK, StopFunctor, Advance, LifeCycle, MutexHeld,
                  NoChangeForgotten
    <2>3. NoWakeupLost'
      BY <1>4 DEF IInv, TypeOK, CompositorTypeOK, StopFunctor, Notify, NoWakeupLost
    <2>4. RendersOnDemand'
      BY <1>4 DEF IInv, TypeOK, CompositorTypeOK, StopFunctor, CountRequests, RendersOnDemand
    <2> QED
      BY <2>1, <2>2, <2>3, <2>4 DEF IInv
  <1>5. ASSUME NEW f \in Functor, Join(f) PROVE IInv'
    <2>1. TypeOK'
      BY <1>0, <1>5 DEF IInv, TypeOK, CompositorTypeOK, MainStates, ThreadStates, Join, Advance
    <2>2. LifeCycle' /\ MutexHeld' /\ NoWakeupLost' /\ NoChangeForgotten'
      BY <1>5 DEF IInv, TypeOK, CompositorTypeOK, Join, Advance, LifeCycle, MutexHeld,
                  NoWakeupLost, NoChangeForgotten
    <2>3. RendersOnDemand'
      BY <1>5 DEF IInv, TypeOK, CompositorTypeOK, Join, CountRequests, RendersOnDemand
    <2> QED
      BY <2>1, <2>2, <2>3 DEF IInv
  <1> QED
    BY <1>1, <1>2, <1>3, <1>4, <1>5 DEF MainStep

\* The loop of a compositing thread: a render clears the request before it
\* reads the scene.
LEMMA ThreadInvariant ==
    ASSUME IInv, NEW f \in Functor, Thread(f)
    PROVE  IInv'
  <1>1. CASE /\ Loop(f) \/ Awake(f)
             /\ renders' = [renders EXCEPT ![f] = IF thread'[f] = "scan" THEN @ + 1 ELSE @]
             /\ UNCHANGED <<emitter, version, seen, requests>>
    <2> USE <1>1
    <2>0. renders' \in [Functor -> Nat]
      BY DEF IInv, TypeOK
    <2>1. TypeOK'
      <3>1. thread' \in [Functor -> ThreadStates]
        BY DEF IInv, TypeOK, CompositorTypeOK, ThreadStates, Loop, Awake, WaitOrRender
      <3>2. compositing_scheduled' \in [Functor -> BOOLEAN]
        BY DEF IInv, TypeOK, CompositorTypeOK, Loop, Awake, WaitOrRender
      <3> QED
        BY <2>0, <3>1, <3>2 DEF IInv, TypeOK, CompositorTypeOK, Loop, Awake
    <2>2. LifeCycle' /\ MutexHeld'
      BY DEF IInv, TypeOK, CompositorTypeOK, Loop, Awake, WaitOrRender, LifeCycle, MutexHeld
    <2>3. NoWakeupLost' /\ NoChangeForgotten'
      BY DEF IInv, TypeOK, CompositorTypeOK, Loop, Awake, WaitOrRender, LifeCycle,
             NoWakeupLost, NoChangeForgotten
    <2>4. RendersOnDemand'
      BY DEF IInv, TypeOK, CompositorTypeOK, Loop, Awake, WaitOrRender, RendersOnDemand
    <2> QED
      BY <2>1, <2>2, <2>3, <2>4 DEF IInv
  <1>2. CASE /\ Scan(f)
             /\ seen' = [seen EXCEPT ![f] = version]
             /\ UNCHANGED <<emitter, version, requests, renders>>
    <2> USE <1>2
    <2>1. TypeOK'
      BY DEF IInv, TypeOK, CompositorTypeOK, ThreadStates, Scan
    <2>2. LifeCycle' /\ MutexHeld' /\ NoWakeupLost' /\ NoChangeForgotten'
      BY DEF IInv, TypeOK, CompositorTypeOK, Scan, LifeCycle, MutexHeld, NoWakeupLost,
             NoChangeForgotten
    <2>3. RendersOnDemand'
      BY DEF IInv, Scan, RendersOnDemand
    <2> QED
      BY <2>1, <2>2, <2>3 DEF IInv
  <1>3. CASE Posted(f) /\ UNCHANGED sceneVars
    <2> USE <1>3 DEF sceneVars
    <2>1. TypeOK'
      BY DEF IInv, TypeOK, CompositorTypeOK, ThreadStates, Posted
    <2>2. LifeCycle' /\ MutexHeld' /\ NoWakeupLost' /\ NoChangeForgotten'
      BY DEF IInv, TypeOK, CompositorTypeOK, Posted, LifeCycle, MutexHeld, NoWakeupLost,
             NoChangeForgotten
    <2>3. RendersOnDemand'
      BY DEF IInv, Posted, RendersOnDemand
    <2> QED
      BY <2>1, <2>2, <2>3 DEF IInv
  <1> QED
    BY <1>1, <1>2, <1>3 DEF Thread

\* A wake-up for no reason.
LEMMA WakeupInvariant ==
    ASSUME IInv, NEW f \in Functor, SpuriousRunWakeup(f), UNCHANGED sceneVars
    PROVE  IInv'
  <1> USE DEF sceneVars, SpuriousRunWakeup
  <1>1. TypeOK'
    BY DEF IInv, TypeOK, CompositorTypeOK, ThreadStates
  <1>2. LifeCycle' /\ MutexHeld' /\ NoWakeupLost' /\ NoChangeForgotten'
    BY DEF IInv, TypeOK, CompositorTypeOK, LifeCycle, MutexHeld, NoWakeupLost,
           NoChangeForgotten
  <1>3. RendersOnDemand'
    BY DEF IInv, RendersOnDemand
  <1> QED
    BY <1>1, <1>2, <1>3 DEF IInv

\* The invariant holds of every reachable state.
THEOREM Invariance == Spec => []IInv
  <1>1. IInv /\ UNCHANGED allVars => IInv'
    BY DEF IInv, allVars, compositorVars, sceneVars, TypeOK, CompositorTypeOK, LifeCycle,
           MutexHeld, RendersOnDemand, NoWakeupLost, NoChangeForgotten
  <1>2. IInv /\ [Next]_allVars => IInv'
    BY <1>1, ChangeInvariant, EmitInvariant, MainInvariant, ThreadInvariant, WakeupInvariant
       DEF Next
  <1> QED
    BY <1>2, InitInvariant, PTL DEF Spec

\* The type invariant, for any number of functors and emitting threads.
THEOREM TypeCorrect == Spec => []TypeOK
  <1>1. IInv => TypeOK
    BY DEF IInv
  <1> QED
    BY <1>1, Invariance, PTL

\* No notification reaches a functor that stop() has begun to take down.
THEOREM NotificationsEndBeforeStop == Spec => []NoNotificationAfterStop
  <1>1. IInv => NoNotificationAfterStop
    BY DEF IInv, MutexHeld, NoNotificationAfterStop
  <1> QED
    BY <1>1, Invariance, PTL

\* A functor begins no more renders than were requested.
THEOREM NothingRendersUnasked == Spec => []RendersOnDemand
  <1>1. IInv => RendersOnDemand
    BY DEF IInv
  <1> QED
    BY <1>1, Invariance, PTL

\* The safety half of ChangesAreRendered and StopReturns: a change that is not
\* yet rendered is always on its way to be, and no compositing thread sleeps
\* on a request or on a stop.
THEOREM NoUpdateIsLost == Spec => [](NoWakeupLost /\ NoChangeForgotten)
  <1>1. IInv => NoWakeupLost /\ NoChangeForgotten
    BY DEF IInv
  <1> QED
    BY <1>1, Invariance, PTL

=============================================================================
