------------------------ MODULE CompositedSurfaceProofs ------------------------
(***************************************************************************)
(* Proofs about a surface of a running server, for any number of frames.   *)
(* The threads use the swapper only as BufferSwapperMulti allows, so what  *)
(* is proved there of any clients holds here of the frontend's thread; the *)
(* rest is about when the compositing thread has a buffer of the surface.  *)
(***************************************************************************)
EXTENDS CompositedSurface, FiniteSetTheorems, TLAPS

SP == INSTANCE BufferSwapperMultiProofs WITH Client <- {app}

\* There is no compositing thread before start().
SpawnedByStart == main = "new" => thread["display"] = "none"

IInv ==
    /\ TypeOK
    /\ SP!IInv
    /\ SpawnedByStart
    /\ RegionHeldOnlyInFrame
    /\ UndefinedOnlyWhilePosting

-----------------------------------------------------------------------------
(* The swapper of this surface and the one that the proofs are about *)

\* What is proved of the swapper needs two or three buffers and finitely many
\* clients: there is one.
LEMMA SwapperAssumptions ==
    /\ SP!IsFiniteSet(Buffer) /\ SP!Cardinality(Buffer) \in {2, 3}
    /\ SP!IsFiniteSet({app})
    /\ SP!Cardinality(Buffer) = Swapper!Cardinality(Buffer)
  <1>1. ASSUME NEW S PROVE SP!IsFiniteSet(S) <=> IsFiniteSet(S)
    BY DEF SP!IsFiniteSet, IsFiniteSet
  <1>2. SP!Cardinality(Buffer) = Cardinality(Buffer)
    BY DEF SP!Cardinality, Cardinality
  <1>3. SP!Cardinality(Buffer) = Swapper!Cardinality(Buffer)
    BY DEF SP!Cardinality, Swapper!Cardinality
  <1>4. IsFiniteSet({app})
    BY FS_Singleton
  <1> QED
    BY <1>1, <1>2, <1>3, <1>4, SurfaceAssumption

\* The two instances of the swapper have the same steps.
LEMMA SameSteps ==
    /\ Swapper!Init => SP!Init
    /\ [Swapper!Next]_(Swapper!vars) => [SP!Next]_(SP!vars)
  <1>0. Swapper!N = SP!N
    BY SwapperAssumptions DEF Swapper!N, SP!N
  <1>1. Swapper!Init => SP!Init
    BY <1>0 DEF Swapper!Init, SP!Init, Swapper!initialize_queues, SP!initialize_queues
  <1>2. Swapper!Usable <=> SP!Usable
    BY DEF Swapper!Usable, SP!Usable
  <1>3. ASSUME NEW c, Swapper!client_acquire(c) PROVE SP!client_acquire(c)
    <2>1. Swapper!MustWait <=> SP!MustWait
      BY <1>0 DEF Swapper!MustWait, SP!MustWait
    <2> QED
      BY <1>2, <1>3, <2>1 DEF Swapper!client_acquire, SP!client_acquire
  <1>4. ASSUME NEW c, Swapper!client_release(c) PROVE SP!client_release(c)
    BY <1>2, <1>4
       DEF Swapper!client_release, SP!client_release, Swapper!PostFrame, SP!PostFrame
  <1>5. ASSUME NEW c, Swapper!SpuriousWakeup(c) PROVE SP!SpuriousWakeup(c)
    BY <1>5 DEF Swapper!SpuriousWakeup, SP!SpuriousWakeup
  <1>6. Swapper!compositor_acquire => SP!compositor_acquire
    BY DEF Swapper!compositor_acquire, SP!compositor_acquire, Swapper!FromCompositorQueue,
           SP!FromCompositorQueue, Swapper!FromClientQueue, SP!FromClientQueue
  <1>7. Swapper!compositor_release => SP!compositor_release
    BY <1>2 DEF Swapper!compositor_release, SP!compositor_release, Swapper!notify_one,
                SP!notify_one
  <1>8. Swapper!CompositorStop => SP!CompositorStop
    BY DEF Swapper!CompositorStop, SP!CompositorStop
  <1>9. ASSUME NEW then, Swapper!shutdown(then) PROVE SP!shutdown(then)
    BY <1>9 DEF Swapper!shutdown, SP!shutdown, Swapper!RefillClientQueue, SP!RefillClientQueue
  <1>10. Swapper!ServerShutdown => SP!ServerShutdown
    BY <1>9 DEF Swapper!ServerShutdown, SP!ServerShutdown
  <1>11. Swapper!DestroySurface => SP!DestroySurface
    BY <1>2, <1>9 DEF Swapper!DestroySurface, SP!DestroySurface
  <1>12. Swapper!Next => SP!Next
    BY <1>3, <1>4, <1>5, <1>6, <1>7, <1>8, <1>10, <1>11 DEF Swapper!Next, SP!Next
  <1>13. Swapper!vars = SP!vars /\ Swapper!vars' = SP!vars'
    BY DEF Swapper!vars, SP!vars
  <1> QED
    BY <1>1, <1>12, <1>13

\* Whatever the threads do, the swapper takes one of its own steps or none.
LEMMA EveryStepIsTheSwappers == [Next]_vars => [Swapper!Next]_(Swapper!vars)
  <1> SUFFICES ASSUME [Next]_vars PROVE [Swapper!Next]_(Swapper!vars)
    OBVIOUS
  <1> USE DEF swapperVars, Swapper!vars, Swapper!Next
  <1>1. CASE ReleaseOld
    BY <1>1 DEF ReleaseOld
  <1>2. CASE SecureNew
    BY <1>2 DEF SecureNew
  <1>3. CASE NotifyChange(app) \/ NotifyChange(shell) \/ set_hidden
    BY <1>3 DEF NotifyChange, set_hidden
  <1>4. CASE destroy_surface
    BY <1>4 DEF destroy_surface
  <1>5. CASE CompositingThread
    BY <1>5 DEF CompositingThread, ScanSurface, FinishFrame
  <1>6. CASE MainThread
    BY <1>6 DEF MainThread
  <1>7. CASE SpuriousWakeup
    BY <1>7 DEF SpuriousWakeup
  <1>8. CASE UNCHANGED vars
    BY <1>8 DEF vars
  <1> QED
    BY <1>1, <1>2, <1>3, <1>4, <1>5, <1>6, <1>7, <1>8 DEF Next

\* The swapper's invariant holds at first and is preserved.
LEMMA SwapperInvariant ==
    /\ Init => SP!IInv
    /\ SP!IInv /\ [Next]_vars => SP!IInv'
  <1>1. SP!Init => SP!IInv
    BY SP!InitInvariant, SwapperAssumptions, SurfaceAssumption
  <1>2. SP!IInv /\ [SP!Next]_(SP!vars) => SP!IInv'
    BY SP!NextInvariant, SwapperAssumptions, SurfaceAssumption
  <1> QED
    BY <1>1, <1>2, SameSteps, EveryStepIsTheSwappers DEF Init

-----------------------------------------------------------------------------
(* The composed invariant *)

\* Everybody is idle at first.
LEMMA InitInvariant == Init => IInv
  <1> SUFFICES ASSUME Init PROVE IInv
    OBVIOUS
  <1>1. SP!IInv
    BY SwapperInvariant
  <1>2. TypeOK
    <2>1. Swapper!TypeOK
      BY <1>1, SwapperAssumptions DEF SP!IInv, SP!TypeOK, SP!N, Swapper!TypeOK, Swapper!N
    <2>2. Compositor!CompositorTypeOK
      BY DEF Init, Compositor!CompositorInit, Compositor!CompositorTypeOK, Compositor!MainStates,
             Compositor!ThreadStates
    <2> QED
      BY <2>1, <2>2 DEF Init, TypeOK, Compositor!CompositorInit
  <1>3. SpawnedByStart /\ RegionHeldOnlyInFrame /\ UndefinedOnlyWhilePosting
    BY DEF Init, Swapper!Init, Compositor!CompositorInit, SpawnedByStart, RegionHeldOnlyInFrame,
           UndefinedOnlyWhilePosting
  <1> QED
    BY <1>1, <1>2, <1>3 DEF IInv

\* The types of what the swapper does not own.
LEMMA TypeInvariant ==
    ASSUME TypeOK, SP!IInv', [Next]_vars
    PROVE  TypeOK'
  <1>1. Swapper!TypeOK'
    BY SwapperAssumptions DEF SP!IInv, SP!TypeOK, SP!N, Swapper!TypeOK, Swapper!N
  <1> USE DEF TypeOK, functorVars, Goto, Compositor!CompositorTypeOK, Compositor!MainStates,
              Compositor!ThreadStates
  <1>2. CASE ReleaseOld \/ SecureNew \/ set_hidden \/ destroy_surface
    BY <1>1, <1>2 DEF ReleaseOld, SecureNew, set_hidden, destroy_surface
  <1>3. CASE NotifyChange(app) \/ NotifyChange(shell)
    BY <1>1, <1>3
       DEF NotifyChange, Compositor!EmitBegin, Compositor!EmitSchedule, Compositor!EmitEnd,
           Compositor!schedule_compositing, Compositor!Notify
  <1>4. CASE CompositingThread
    BY <1>1, <1>4
       DEF CompositingThread, ScanSurface, FinishFrame, Compositor!Loop, Compositor!Awake,
           Compositor!WaitOrRender, Compositor!Scan, Compositor!Posted
  <1>5. CASE MainThread
    <2>1. CASE Compositor!MainStep
      <3>1. UNCHANGED <<caller, hidden, down, notifier>>
        BY <1>5, <2>1
           DEF MainThread, Compositor!MainStep, Compositor!Spawn, Compositor!Hook,
               Compositor!Unhook, Compositor!FirstRender, Compositor!StopFunctor,
               Compositor!Join
      <3>2. CASE Compositor!Spawn \/ Compositor!Hook \/ Compositor!Unhook
        BY <1>1, <3>1, <3>2 DEF Compositor!Spawn, Compositor!Hook, Compositor!Unhook
      <3>3. CASE Compositor!FirstRender("display")
        BY <1>1, <3>1, <3>3
           DEF Compositor!FirstRender, Compositor!Advance, Compositor!schedule_compositing,
               Compositor!Notify
      <3>4. CASE Compositor!StopFunctor("display")
        BY <1>1, <3>1, <3>4 DEF Compositor!StopFunctor, Compositor!Advance, Compositor!Notify
      <3>5. CASE Compositor!Join("display")
        BY <1>1, <3>1, <3>5 DEF Compositor!Join, Compositor!Advance
      <3> QED
        BY <2>1, <3>2, <3>3, <3>4, <3>5 DEF Compositor!MainStep
    <2>2. CASE ~ Compositor!MainStep
      BY <1>1, <1>5, <2>2 DEF MainThread
    <2> QED
      BY <2>1, <2>2
  <1>6. CASE SpuriousWakeup
    BY <1>1, <1>6 DEF SpuriousWakeup, Compositor!SpuriousRunWakeup
  <1>7. CASE UNCHANGED vars
    BY <1>1, <1>7 DEF vars
  <1> QED
    BY <1>2, <1>3, <1>4, <1>5, <1>6, <1>7 DEF Next

\* The compositing thread leaves the state in which it posts a frame by
\* finishing that frame only.
LEMMA PostingEndsWithFrame ==
    ASSUME TypeOK, SpawnedByStart, [Next]_vars
    PROVE  /\ SpawnedByStart'
           /\ thread["display"] = "post" => thread'["display"] = "post" \/ FinishFrame
  <1> USE DEF TypeOK, functorVars, Compositor!CompositorTypeOK, Compositor!ThreadStates,
              SpawnedByStart
  <1>1. CASE ReleaseOld \/ SecureNew \/ set_hidden \/ destroy_surface
    BY <1>1 DEF ReleaseOld, SecureNew, set_hidden, destroy_surface
  <1>2. CASE NotifyChange(app) \/ NotifyChange(shell)
    BY <1>2
       DEF NotifyChange, Compositor!EmitBegin, Compositor!EmitSchedule, Compositor!EmitEnd,
           Compositor!schedule_compositing, Compositor!Notify
  <1>3. CASE CompositingThread
    BY <1>3
       DEF CompositingThread, ScanSurface, FinishFrame, Compositor!Loop, Compositor!Awake,
           Compositor!WaitOrRender, Compositor!Scan, Compositor!Posted
  <1>4. CASE MainThread
    BY <1>4
       DEF MainThread, Compositor!MainStep, Compositor!Spawn, Compositor!Hook,
           Compositor!Unhook, Compositor!FirstRender, Compositor!StopFunctor,
           Compositor!Join, Compositor!Advance, Compositor!schedule_compositing,
           Compositor!Notify
  <1>5. CASE SpuriousWakeup
    BY <1>5 DEF SpuriousWakeup, Compositor!SpuriousRunWakeup
  <1>6. CASE UNCHANGED vars
    BY <1>6 DEF vars
  <1> QED
    BY <1>1, <1>2, <1>3, <1>4, <1>5, <1>6 DEF Next

\* A buffer comes into the compositor's hands when a frame begins, and out of
\* them when it ends.
LEMMA RegionInvariant ==
    ASSUME IInv, [Next]_vars
    PROVE  RegionHeldOnlyInFrame'
  <1>1. thread["display"] = "post" => thread'["display"] = "post" \/ FinishFrame
    BY PostingEndsWithFrame DEF IInv
  <1>2. CASE FinishFrame
    BY <1>2 DEF IInv, FinishFrame, Swapper!compositor_release, swapperVars, RegionHeldOnlyInFrame
  <1>3. CASE ScanSurface
    BY <1>3 DEF IInv, TypeOK, Compositor!CompositorTypeOK, ScanSurface, Compositor!Scan,
                RegionHeldOnlyInFrame
  <1>4. CASE ~ FinishFrame /\ ~ ScanSurface
    <2>1. UNCHANGED compositor_buffer
      BY <1>4
         DEF Next, vars, swapperVars, ReleaseOld, SecureNew, NotifyChange, set_hidden,
             destroy_surface, CompositingThread, MainThread, SpuriousWakeup,
             Swapper!client_release, Swapper!PostFrame, Swapper!client_acquire,
             Swapper!DestroySurface, Swapper!shutdown, Swapper!ServerShutdown,
             Swapper!CompositorStop, Swapper!SpuriousWakeup
    <2> QED
      BY <1>1, <1>4, <2>1 DEF IInv, RegionHeldOnlyInFrame
  <1> QED
    BY <1>2, <1>3, <1>4

\* Undefined behaviour is reached from a swapper in use, by the shutdown that
\* destroying the surface brings, and nothing goes on from there.
LEMMA UndefinedInvariant ==
    ASSUME IInv, SP!IInv', RegionHeldOnlyInFrame', [Next]_vars
    PROVE  UndefinedOnlyWhilePosting'
  <1> SUFFICES ASSUME status' = "undefined"
               PROVE  thread'["display"] = "post" /\ client'[app] = "holding"
    BY DEF UndefinedOnlyWhilePosting
  <1>1. compositor_buffer' # NoBuffer /\ in_use_by_client' = SP!N - 1
    BY DEF SP!IInv, SP!UndefinedOnlyMidFrame
  <1>2. thread'["display"] = "post"
    BY <1>1 DEF RegionHeldOnlyInFrame
  <1>3. [Swapper!Next]_(Swapper!vars)
    BY EveryStepIsTheSwappers
  <1>4. client'[app] = "holding"
    <2>1. CASE status = "undefined"
      <3>1. client[app] = "holding"
        BY <2>1 DEF IInv, UndefinedOnlyWhilePosting
      <3>2. UNCHANGED client
        BY <1>3, <2>1, <3>1
           DEF Swapper!Next, Swapper!vars, Swapper!Usable, Swapper!client_acquire,
               Swapper!client_release, Swapper!PostFrame, Swapper!SpuriousWakeup,
               Swapper!compositor_acquire, Swapper!compositor_release, Swapper!CompositorStop,
               Swapper!ServerShutdown, Swapper!DestroySurface
      <3> QED
        BY <3>1, <3>2
    <2>2. CASE status # "undefined"
      <3>1. \E then : Swapper!Usable /\ Swapper!shutdown(then)
        BY <1>1, <1>3, <2>2
           DEF Swapper!Next, Swapper!vars, Swapper!Usable, Swapper!client_acquire,
               Swapper!client_release, Swapper!PostFrame, Swapper!SpuriousWakeup,
               Swapper!compositor_acquire, Swapper!compositor_release, Swapper!CompositorStop,
               Swapper!ServerShutdown, Swapper!DestroySurface, Swapper!FromCompositorQueue,
               Swapper!FromClientQueue
      <3>2. /\ SP!Usable /\ in_use_by_client' = in_use_by_client
            /\ client' = [c \in {app} |-> IF client[c] = "waiting" THEN "awake" ELSE client[c]]
        BY <3>1 DEF Swapper!shutdown, Swapper!Usable, SP!Usable
      <3>3. SP!Cardinality(SP!Holders) = SP!N - 1 /\ SP!N \in {2, 3}
        BY <1>1, <3>2, SwapperAssumptions DEF IInv, SP!IInv, SP!BuffersAccountedFor, SP!N
      <3>4. SP!Holders # {}
        <4>1. SP!Cardinality({}) = Cardinality({})
          BY DEF SP!Cardinality, Cardinality
        <4> QED
          BY <3>3, <4>1, FS_EmptySet
      <3>5. client[app] = "holding"
        BY <3>4 DEF SP!Holders
      <3> QED
        BY <3>2, <3>5
    <2> QED
      BY <2>1, <2>2
  <1> QED
    BY <1>2, <1>4

\* Every step of the four threads preserves the invariant.
LEMMA NextInvariant == IInv /\ [Next]_vars => IInv'
  <1> SUFFICES ASSUME IInv, [Next]_vars PROVE IInv'
    OBVIOUS
  <1>1. SP!IInv'
    BY SwapperInvariant DEF IInv
  <1>2. TypeOK'
    BY <1>1, TypeInvariant DEF IInv
  <1>3. SpawnedByStart'
    BY PostingEndsWithFrame DEF IInv
  <1>4. RegionHeldOnlyInFrame'
    BY RegionInvariant
  <1>5. UndefinedOnlyWhilePosting'
    BY <1>1, <1>4, UndefinedInvariant
  <1> QED
    BY <1>1, <1>2, <1>3, <1>4, <1>5 DEF IInv

-----------------------------------------------------------------------------
(* What the threads of a running server promise for a surface *)

\* The inductive invariant holds in every reachable state.
THEOREM Invariance == Spec => []IInv
  BY InitInvariant, NextInvariant, PTL DEF Spec

\* The state of the swapper, of the compositor and of their callers is well
\* typed.
THEOREM TypeCorrect == Spec => []TypeOK
  <1>1. IInv => TypeOK
    BY DEF IInv
  <1> QED
    BY <1>1, Invariance, PTL

\* Surface::advance_client_buffer, the compositing strategy and the display
\* server use the swapper as its specification allows: a client thread never
\* takes a second buffer, the compositor's handle is given back before the
\* next one is taken, and the compositor is joined before the shutdown.
THEOREM SwapperIsUsedAsSpecified == Spec => Swapper!Spec
  <1>1. Init => Swapper!Init
    BY DEF Init
  <1> QED
    BY <1>1, EveryStepIsTheSwappers, PTL DEF Spec, Swapper!Spec

\* While the server runs the client and the compositing thread never own the
\* same buffer of a surface, and none of its buffers is lost.
THEOREM SurfaceBuffersAreSafe ==
    Spec => [](SP!ExclusiveOwnership /\ SP!BuffersAccountedFor /\ SP!LastShownIsKept)
  <1>1. IInv => SP!ExclusiveOwnership /\ SP!BuffersAccountedFor /\ SP!LastShownIsKept
    BY DEF IInv, SP!IInv
  <1> QED
    BY <1>1, Invariance, PTL

\* The compositing thread keeps no buffer of the surface across its wait for
\* work, nor after it was joined.
THEOREM RegionsEndWithFrames == Spec => []RegionHeldOnlyInFrame
  <1>1. IInv => RegionHeldOnlyInFrame
    BY DEF IInv
  <1> QED
    BY <1>1, Invariance, PTL

\* Neither compositor_acquire nor the shutdown of the server reads an empty
\* deque; destroying a surface in mid-frame, with its client holding a buffer,
\* is the one way to it.
THEOREM UndefinedOnlyInMidFrame == Spec => []UndefinedOnlyWhilePosting
  <1>1. IInv => UndefinedOnlyWhilePosting
    BY DEF IInv
  <1> QED
    BY <1>1, Invariance, PTL

=============================================================================
