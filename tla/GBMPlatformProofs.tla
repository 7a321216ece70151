-------------------------- MODULE GBMPlatformProofs --------------------------
(***************************************************************************)
(* Proofs about the GBM platform: the page flipper and a display buffer    *)
(* that uses it, for any number of crtcs, threads and buffer objects; and  *)
(* the outputs of a display, for any card, however its connectors,         *)
(* encoders and crtcs are wired and whatever the firmware left on them.    *)
(***************************************************************************)
EXTENDS GBMDisplayBuffer, KMSOutput, FiniteSetTheorems, WellFoundedInduction, TLAPS

\* A thread waits for a crtc of its own, and one that is about to return
\* waits for nothing any more.
WaitsForOwn ==
    \A t \in Thread : /\ Owner[target[t]] = t
                      /\ pc[t] = "leave" => target[t] \notin pending_page_flips

FlipInv ==
    /\ PageFlipTypeOK
    /\ SingleWorker
    /\ PendingMatchesKernel
    /\ WaitsForOwn

\* What the display buffer has locked, and where its thread is.
LocksFollowSteps ==
    /\ step = "idle" => bufobj = NoBo /\ locked = {last_flipped_bufobj}
    /\ step = "front" => bufobj \in Bo \ locked /\ locked = {last_flipped_bufobj}
    /\ step \in {"schedule", "wait"} =>
          /\ bufobj \in Bo \ {last_flipped_bufobj}
          /\ locked = {last_flipped_bufobj, bufobj}
    /\ step # "wait" => pc[display] = "idle"

\* The flips of the display buffer's outputs: none is pending between frames,
\* nor on an output that the loop has not come to; one that is in flight leads
\* to the new buffer object; one that was waited for is done.
FlipsFollowSteps ==
    /\ step \in {"idle", "front"} => pending_page_flips \cap Output = {}
    /\ step = "schedule" => /\ pending_page_flips \cap outputs = {}
                            /\ page_flips_pending = 0 => pending_page_flips \cap Output = {}
                            /\ page_flips_pending <= Cardinality(Output \ outputs)
    /\ step = "wait" => \A c \in (pending_page_flips \cap Output) \ outputs :
                            pc[display] # "idle" /\ target[display] = c
    /\ \A c \in inflight \cap Output : flip_to[c] = bufobj

\* An output that kept up with the others shows the buffer object flipped last,
\* or is being flipped to the new one, or shows the new one already.
KeepsUp(c) ==
    \/ /\ step # "wait"
       /\ scanout[c] = last_flipped_bufobj
       /\ flip_to[c] = last_flipped_bufobj
       /\ c \notin inflight
    \/ /\ step \in {"schedule", "wait"}
       /\ step = "schedule" => page_flips_pending > 0
       /\ flip_to[c] = bufobj
       /\ IF c \in inflight THEN scanout[c] \in {last_flipped_bufobj, bufobj}
          ELSE scanout[c] = bufobj

OutputsKeepUp == \A c \in Output \ behind : KeepsUp(c)

IInv ==
    /\ FlipInv
    /\ TypeOK
    /\ LocksFollowSteps
    /\ FlipsFollowSteps
    /\ OutputsKeepUp

-----------------------------------------------------------------------------
(* The page flipper *)

\* Every thread has a crtc to wait for at first.
LEMMA FlipInit == PageFlipInit => FlipInv
  <1> SUFFICES ASSUME PageFlipInit PROVE FlipInv
    OBVIOUS
  <1>1. \A t \in Thread : target[t] \in Crtc /\ Owner[target[t]] = t
    BY OwnerAssumption DEF PageFlipInit
  <1>2. target \in [Thread -> Crtc]
    BY <1>1 DEF PageFlipInit
  <1> QED
    BY <1>1, <1>2 DEF PageFlipInit, FlipInv, PageFlipTypeOK, SingleWorker, PendingMatchesKernel,
                      WaitsForOwn, Waiting

\* An entry is made for a flip the kernel has accepted, and for no other.
LEMMA ScheduleFlipInv ==
    ASSUME FlipInv, NEW t \in Thread, NEW c \in Crtc, NEW accepted \in BOOLEAN,
           schedule_flip(t, c, accepted)
    PROVE  FlipInv'
  <1> USE DEF schedule_flip
  <1>1. PageFlipTypeOK' /\ SingleWorker' /\ PendingMatchesKernel'
    BY DEF FlipInv, PageFlipTypeOK, SingleWorker, PendingMatchesKernel
  <1>2. WaitsForOwn'
    BY DEF FlipInv, PageFlipTypeOK, WaitsForOwn
  <1> QED
    BY <1>1, <1>2 DEF FlipInv

\* A thread enters wait_for_flip.
LEMMA CallWaitInv ==
    ASSUME FlipInv, NEW t \in Thread, NEW c \in Crtc, CallWait(t, c)
    PROVE  FlipInv'
  <1> USE DEF CallWait
  <1>1. PageFlipTypeOK' /\ SingleWorker' /\ PendingMatchesKernel'
    BY DEF FlipInv, PageFlipTypeOK, Waiting, SingleWorker, PendingMatchesKernel
  <1>2. WaitsForOwn'
    BY DEF FlipInv, PageFlipTypeOK, WaitsForOwn
  <1> QED
    BY <1>1, <1>2 DEF FlipInv

\* The steps of wait_for_flip: the worker's place is taken only when it is free
\* and given up by the worker only.
LEMMA FlippingInv ==
    ASSUME FlipInv, NEW t \in Thread,
           \/ ElectWorker(t) \/ SpuriousWakeup(t) \/ HandleEvents(t)
           \/ Interrupted(t) \/ SelectFails(t) \/ NotifyAll(t)
    PROVE  FlipInv'
  <1> USE DEF FlipInv, PageFlipTypeOK
  <1>1. CASE ElectWorker(t)
    <2>1. PageFlipTypeOK' /\ PendingMatchesKernel' /\ WaitsForOwn'
      BY <1>1 DEF ElectWorker, Waiting, PendingMatchesKernel, WaitsForOwn
    <2>2. SingleWorker'
      BY <1>1, OwnerAssumption DEF ElectWorker, SingleWorker
    <2> QED
      BY <2>1, <2>2
  <1>2. CASE SpuriousWakeup(t) \/ SelectFails(t)
    BY <1>2 DEF SpuriousWakeup, SelectFails, Waiting, SingleWorker, PendingMatchesKernel,
                WaitsForOwn
  <1>3. CASE HandleEvents(t) \/ Interrupted(t)
    <2>1. pending_page_flips' \subseteq pending_page_flips
      BY <1>3 DEF HandleEvents, Interrupted, page_flip_handler
    <2>2. PageFlipTypeOK'
      BY <1>3, <2>1 DEF HandleEvents, Interrupted, GiveUpIfDone, Waiting
    <2>3. SingleWorker' /\ WaitsForOwn'
      BY <1>3, <2>1 DEF HandleEvents, Interrupted, GiveUpIfDone, SingleWorker, WaitsForOwn
    <2>4. PendingMatchesKernel'
      BY <1>3 DEF HandleEvents, Interrupted, page_flip_handler, PendingMatchesKernel
    <2> QED
      BY <2>2, <2>3, <2>4
  <1>4. CASE NotifyAll(t)
    BY <1>4 DEF NotifyAll, Waiting, SingleWorker, PendingMatchesKernel, WaitsForOwn
  <1> QED
    BY <1>1, <1>2, <1>3, <1>4

\* The kernel owes an event for a flip it has done.
LEMMA FlipCompletesInv ==
    ASSUME FlipInv, NEW c \in Crtc, FlipCompletes(c)
    PROVE  FlipInv'
  BY DEF FlipInv, PageFlipTypeOK, SingleWorker, PendingMatchesKernel, WaitsForOwn, FlipCompletes

-----------------------------------------------------------------------------
(* The display buffer *)

\* The outputs are finitely many, and so are those a loop has dealt with.
LEMMA OutputsAreFinite ==
    /\ IsFiniteSet(Output)
    /\ Cardinality(Output) \in Nat
    /\ \A S \in SUBSET Output : /\ IsFiniteSet(S)
                                /\ Cardinality(S) \in Nat
                                /\ Cardinality(S) <= Cardinality(Output)
  <1>1. Output \in SUBSET Crtc
    BY DEF Output
  <1>2. IsFiniteSet(Output)
    BY <1>1, OwnerAssumption, FS_Subset
  <1> QED
    BY <1>2, FS_Subset, FS_CardinalityType

\* The constructor has shown and locked one buffer object.
LEMMA InitInvariant == Init => IInv
  <1> SUFFICES ASSUME Init PROVE IInv
    OBVIOUS
  <1>1. FlipInv
    BY FlipInit DEF Init
  <1>2. TypeOK
    BY <1>1, OutputsAreFinite DEF Init, FlipInv, TypeOK
  <1>3. LocksFollowSteps /\ FlipsFollowSteps
    BY DisplayAssumption DEF Init, PageFlipInit, LocksFollowSteps, FlipsFollowSteps
  <1>4. OutputsKeepUp
    BY DEF Init, PageFlipInit, OutputsKeepUp, KeepsUp
  <1> QED
    BY <1>1, <1>2, <1>3, <1>4 DEF IInv

\* The next frame is drawn, or eglSwapBuffers fails.
LEMMA SwapBuffersInvariant ==
    ASSUME IInv, swap_buffers
    PROVE  IInv'
  <1> USE DEF swap_buffers
  <1>1. FlipInv' /\ TypeOK'
    BY DEF IInv, FlipInv, TypeOK, flipVars, PageFlipTypeOK, SingleWorker, PendingMatchesKernel,
           WaitsForOwn
  <1>2. LocksFollowSteps' /\ FlipsFollowSteps'
    BY DEF IInv, FlipInv, PendingMatchesKernel, flipVars, LocksFollowSteps, FlipsFollowSteps
  <1>3. OutputsKeepUp'
    BY DEF IInv, flipVars, OutputsKeepUp, KeepsUp
  <1> QED
    BY <1>1, <1>2, <1>3 DEF IInv

\* The front buffer is locked, or drmModeAddFB fails.
LEMMA FrontBufferInvariant ==
    ASSUME IInv, get_front_buffer_object
    PROVE  IInv'
  <1> USE DEF get_front_buffer_object
  <1>1. FlipInv' /\ TypeOK'
    BY OutputsAreFinite
       DEF IInv, FlipInv, TypeOK, flipVars, PageFlipTypeOK, SingleWorker, PendingMatchesKernel,
           WaitsForOwn, LocksFollowSteps
  <1>2. LocksFollowSteps'
    BY DEF IInv, flipVars, LocksFollowSteps
  <1>3. FlipsFollowSteps'
    <2>1. Cardinality(Output \ Output) = 0
      BY FS_EmptySet, Output \ Output = {}
    <2>2. pending_page_flips \cap Output = {} /\ inflight \cap Output = {}
      BY DEF IInv, FlipInv, PendingMatchesKernel, FlipsFollowSteps
    <2> QED
      BY <2>1, <2>2 DEF flipVars, FlipsFollowSteps
  <1>4. OutputsKeepUp'
    BY DEF IInv, flipVars, OutputsKeepUp, KeepsUp
  <1> QED
    BY <1>1, <1>2, <1>3, <1>4 DEF IInv

\* One output is flipped to the new buffer object or refuses.
LEMMA ScheduleInvariant ==
    ASSUME IInv, NEW c \in Output, schedule_page_flip(c)
    PROVE  IInv'
  <1> USE DEF schedule_page_flip
  <1>0. c \in Crtc /\ Owner[c] = display /\ display \in Thread
    BY DisplayAssumption DEF Output
  <1>1. FlipInv'
    BY <1>0, ScheduleFlipInv DEF IInv
  <1>2. /\ Cardinality(Output \ outputs') = Cardinality(Output \ outputs) + 1
        /\ Cardinality(Output \ outputs) \in Nat
        /\ Cardinality(Output \ outputs') <= Cardinality(Output)
    <2>1. Output \ outputs' = (Output \ outputs) \cup {c} /\ c \notin Output \ outputs
      BY DEF IInv, TypeOK
    <2>2. /\ Output \ outputs \in SUBSET Output /\ Output \ outputs' \in SUBSET Output
      OBVIOUS
    <2> QED
      BY <2>1, <2>2, OutputsAreFinite, FS_AddElement
  <1>3. page_flips_pending' \in Nat /\ page_flips_pending' <= Cardinality(Output \ outputs')
    BY <1>2 DEF IInv, TypeOK, FlipsFollowSteps
  <1>4. TypeOK'
    <2>1. page_flips_pending' \in 0..Cardinality(Output)
      BY <1>2, <1>3, OutputsAreFinite
    <2>2. flip_to' \in [Output -> Bo]
      BY DEF IInv, TypeOK, LocksFollowSteps
    <2> QED
      BY <1>1, <2>1, <2>2 DEF IInv, FlipInv, TypeOK
  <1>5. LocksFollowSteps'
    BY DEF IInv, schedule_flip, LocksFollowSteps
  <1>6. FlipsFollowSteps'
    BY <1>3 DEF IInv, TypeOK, schedule_flip, FlipsFollowSteps
  <1>7. OutputsKeepUp'
    <2> SUFFICES ASSUME NEW d \in Output \ behind PROVE KeepsUp(d)'
      BY DEF OutputsKeepUp
    <2>1. KeepsUp(d)
      BY DEF IInv, OutputsKeepUp
    <2> QED
      BY <2>1, <1>3 DEF IInv, TypeOK, schedule_flip, KeepsUp, FlipsFollowSteps, LocksFollowSteps
  <1> QED
    BY <1>1, <1>4, <1>5, <1>6, <1>7 DEF IInv

\* The loop over the outputs ends: nothing flips and the buffer object goes
\* back, or the waiting begins.
LEMMA ScheduleDoneInvariant ==
    ASSUME IInv, ScheduleDone
    PROVE  IInv'
  <1> USE DEF ScheduleDone
  <1>1. FlipInv' /\ TypeOK'
    BY DEF IInv, FlipInv, TypeOK, flipVars, PageFlipTypeOK, SingleWorker, PendingMatchesKernel,
           WaitsForOwn, LocksFollowSteps, ReleaseUnflipped
  <1>2. CASE ReleaseUnflipped
    <2>1. pending_page_flips \cap Output = {} /\ inflight \cap Output = {}
      BY <1>2 DEF IInv, FlipInv, PendingMatchesKernel, FlipsFollowSteps, ReleaseUnflipped
    <2>2. LocksFollowSteps' /\ FlipsFollowSteps'
      BY <1>2, <2>1 DEF IInv, flipVars, LocksFollowSteps, FlipsFollowSteps, ReleaseUnflipped
    <2>3. OutputsKeepUp'
      BY <1>2 DEF IInv, TypeOK, flipVars, OutputsKeepUp, KeepsUp, ReleaseUnflipped
    <2> QED
      BY <1>1, <2>2, <2>3 DEF IInv
  <1>3. CASE ~ ReleaseUnflipped
    <2>1. LocksFollowSteps' /\ FlipsFollowSteps'
      BY <1>3 DEF IInv, flipVars, LocksFollowSteps, FlipsFollowSteps, TypeOK
    <2>2. OutputsKeepUp'
      BY <1>3 DEF IInv, flipVars, OutputsKeepUp, KeepsUp, LocksFollowSteps
    <2> QED
      BY <1>1, <2>1, <2>2 DEF IInv
  <1> QED
    BY <1>2, <1>3

\* The display buffer's thread begins to wait for one output, after the waits
\* for the earlier ones have returned.
LEMMA WaitInvariant ==
    ASSUME IInv, NEW c \in Output, wait_for_page_flip(c)
    PROVE  IInv'
  <1> USE DEF wait_for_page_flip
  <1>0. c \in Crtc /\ display \in Thread
    BY DisplayAssumption DEF Output
  <1>1. FlipInv'
    BY <1>0, CallWaitInv DEF IInv
  <1>2. TypeOK'
    BY <1>1 DEF IInv, FlipInv, TypeOK
  <1>3. pc'[display] = "enter" /\ target'[display] = c
    BY <1>0 DEF IInv, FlipInv, PageFlipTypeOK, CallWait
  <1>4. LocksFollowSteps' /\ FlipsFollowSteps'
    BY <1>3 DEF IInv, CallWait, LocksFollowSteps, FlipsFollowSteps
  <1>5. OutputsKeepUp'
    BY DEF IInv, CallWait, OutputsKeepUp, KeepsUp
  <1> QED
    BY <1>1, <1>2, <1>4, <1>5 DEF IInv

\* All waits have returned, so no flip of an output is pending and each output
\* that kept up shows the new buffer object.
LEMMA ReleaseLastInvariant ==
    ASSUME IInv, ReleaseLast
    PROVE  IInv'
  <1> USE DEF ReleaseLast
  <1>1. FlipInv' /\ TypeOK'
    BY DEF IInv, FlipInv, TypeOK, flipVars, PageFlipTypeOK, SingleWorker, PendingMatchesKernel,
           WaitsForOwn, LocksFollowSteps
  <1>2. pending_page_flips \cap Output = {} /\ inflight \cap Output = {}
    BY DEF IInv, FlipInv, PendingMatchesKernel, FlipsFollowSteps
  <1>3. LocksFollowSteps' /\ FlipsFollowSteps'
    BY <1>2 DEF IInv, flipVars, LocksFollowSteps, FlipsFollowSteps
  <1>4. OutputsKeepUp'
    BY <1>2 DEF IInv, flipVars, OutputsKeepUp, KeepsUp
  <1> QED
    BY <1>1, <1>3, <1>4 DEF IInv

\* A thread goes on in wait_for_flip: the display buffer's own returns only
\* when the flip it waits for is done.
LEMMA FlippingInvariant ==
    ASSUME IInv, NEW t \in Thread, Flipping(t)
    PROVE  IInv'
  <1>1. FlipInv'
    BY FlippingInv DEF IInv, Flipping
  <1>2. TypeOK'
    BY <1>1 DEF IInv, FlipInv, TypeOK, Flipping, bufferVars
  <1>3. /\ pending_page_flips' \subseteq pending_page_flips
        /\ UNCHANGED <<inflight, target>>
    BY DEF Flipping, ElectWorker, SpuriousWakeup, HandleEvents, Interrupted, SelectFails,
           NotifyAll, page_flip_handler
  <1>4. pc[display] = "idle" => pc'[display] = "idle"
    BY DisplayAssumption
       DEF IInv, FlipInv, PageFlipTypeOK, Flipping, ElectWorker, SpuriousWakeup, HandleEvents,
           Interrupted, SelectFails, NotifyAll, GiveUpIfDone
  <1>5. pc'[display] = "idle" => pc[display] = "idle" \/ target[display] \notin pending_page_flips
    BY DisplayAssumption
       DEF IInv, FlipInv, PageFlipTypeOK, WaitsForOwn, page_flip_is_done, Flipping, ElectWorker,
           SpuriousWakeup, HandleEvents, Interrupted, SelectFails, NotifyAll, GiveUpIfDone
  <1>6. LocksFollowSteps'
    BY <1>4 DEF IInv, Flipping, bufferVars, LocksFollowSteps
  <1>7. FlipsFollowSteps'
    BY <1>3, <1>5 DEF IInv, Flipping, bufferVars, FlipsFollowSteps
  <1>8. OutputsKeepUp'
    BY <1>3 DEF IInv, Flipping, bufferVars, OutputsKeepUp, KeepsUp
  <1> QED
    BY <1>1, <1>2, <1>6, <1>7, <1>8 DEF IInv

\* The threads of other display buffers flip crtcs that are not this one's.
LEMMA OtherFlipsInvariant ==
    ASSUME IInv, NEW t \in Thread, OtherFlips(t)
    PROVE  IInv'
  <1>1. FlipInv'
    BY ScheduleFlipInv, CallWaitInv DEF IInv, OtherFlips
  <1>2. TypeOK'
    BY <1>1 DEF IInv, FlipInv, TypeOK, OtherFlips, bufferVars
  <1>3. /\ pending_page_flips' \cap Output = pending_page_flips \cap Output
        /\ inflight' \cap Output = inflight \cap Output
    BY DEF OtherFlips, schedule_flip, CallWait, Output
  <1>4. pc'[display] = pc[display] /\ target'[display] = target[display]
    BY DisplayAssumption
       DEF IInv, FlipInv, PageFlipTypeOK, OtherFlips, schedule_flip, CallWait
  <1>5. LocksFollowSteps'
    BY <1>4 DEF IInv, OtherFlips, bufferVars, LocksFollowSteps
  <1>6. FlipsFollowSteps'
    <2>1. UNCHANGED bufferVars
      BY DEF OtherFlips
    <2>2. outputs \subseteq Output
      BY DEF IInv, TypeOK
    <2> QED
      BY <1>3, <1>4, <2>1, <2>2 DEF IInv, bufferVars, FlipsFollowSteps
  <1>7. OutputsKeepUp'
    BY <1>3 DEF IInv, OtherFlips, bufferVars, OutputsKeepUp, KeepsUp
  <1> QED
    BY <1>1, <1>2, <1>5, <1>6, <1>7 DEF IInv

\* An output shows the buffer object that its flip led to: the new one.
LEMMA ScanoutInvariant ==
    ASSUME IInv, NEW c \in Crtc, Scanout(c)
    PROVE  IInv'
  <1> USE DEF Scanout
  <1>1. FlipInv'
    BY FlipCompletesInv DEF IInv
  <1>2. TypeOK'
    BY <1>1 DEF IInv, FlipInv, TypeOK
  <1>3. LocksFollowSteps' /\ FlipsFollowSteps'
    BY DEF IInv, FlipCompletes, LocksFollowSteps, FlipsFollowSteps
  <1>4. OutputsKeepUp'
    <2> SUFFICES ASSUME NEW d \in Output, d \notin behind' PROVE KeepsUp(d)'
      BY DEF OutputsKeepUp
    <2>1. CASE d = c
      <3>1. c \in inflight /\ c \in pending_page_flips /\ flip_to[c] = bufobj
        BY <2>1 DEF IInv, FlipInv, PendingMatchesKernel, FlipsFollowSteps, FlipCompletes
      <3>2. step \in {"schedule", "wait"} /\ (step = "schedule" => page_flips_pending > 0)
        BY <2>1, <3>1 DEF IInv, TypeOK, FlipsFollowSteps
      <3> QED
        BY <2>1, <3>1, <3>2 DEF IInv, TypeOK, FlipCompletes, KeepsUp
    <2>2. CASE d # c
      <3>1. d \notin behind /\ KeepsUp(d)
        BY <2>2 DEF IInv, OutputsKeepUp
      <3> QED
        BY <2>2, <3>1 DEF IInv, TypeOK, FlipCompletes, KeepsUp
    <2> QED
      BY <2>1, <2>2
  <1> QED
    BY <1>1, <1>2, <1>3, <1>4 DEF IInv

\* Every step of the display buffer, of the threads in the page flipper and of
\* the hardware preserves the invariant.
LEMMA NextInvariant == IInv /\ [Next]_vars => IInv'
  <1> SUFFICES ASSUME IInv, [Next]_vars PROVE IInv'
    OBVIOUS
  <1>1. CASE swap_buffers
    BY <1>1, SwapBuffersInvariant
  <1>2. CASE post_update
    BY <1>2, FrontBufferInvariant, ScheduleInvariant, WaitInvariant, ScheduleDoneInvariant,
       ReleaseLastInvariant DEF post_update
  <1>3. CASE \E t \in Thread : Flipping(t) \/ OtherFlips(t)
    BY <1>3, FlippingInvariant, OtherFlipsInvariant
  <1>4. CASE \E c \in Crtc : Scanout(c)
    BY <1>4, ScanoutInvariant
  <1>5. CASE UNCHANGED vars
    BY <1>5 DEF vars, flipVars, bufferVars, IInv, FlipInv, PageFlipTypeOK, SingleWorker,
                PendingMatchesKernel, WaitsForOwn, TypeOK, LocksFollowSteps, FlipsFollowSteps,
                OutputsKeepUp, KeepsUp
  <1> QED
    BY <1>1, <1>2, <1>3, <1>4, <1>5 DEF Next

-----------------------------------------------------------------------------
(* What the display buffer and the page flipper promise *)

\* The inductive invariant holds in every reachable state.
THEOREM Invariance == Spec => []IInv
  BY InitInvariant, NextInvariant, PTL DEF Spec

\* The state of the page flipper and of the display buffer is well typed; in
\* particular page_flips_pending never exceeds the number of outputs.
THEOREM TypeCorrect == Spec => []TypeOK
  <1>1. IInv => TypeOK
    BY DEF IInv
  <1> QED
    BY <1>1, Invariance, PTL

\* wait_for_flip never lets two threads into its event loop, however many
\* threads wait and whichever of them fail.
THEOREM WorkerIsSingle == Spec => []SingleWorker
  <1>1. IInv => SingleWorker
    BY DEF IInv, FlipInv
  <1> QED
    BY <1>1, Invariance, PTL

\* pending_page_flips holds exactly the flips that an event is still to come
\* for: page_flip_handler never follows a pointer to an erased entry, and no
\* entry waits for an event that was read already.
THEOREM EntriesMatchFlips == Spec => []PendingMatchesKernel
  <1>1. IInv => PendingMatchesKernel
    BY DEF IInv, FlipInv
  <1> QED
    BY <1>1, Invariance, PTL

\* The buffer object that post_update gives back to EGL is on no output, unless
\* that output refused a flip that another one accepted.
THEOREM DisplayedStaysLocked == Spec => []FlippedOutputIsLocked
  <1>1. IInv => FlippedOutputIsLocked
    BY DEF IInv, TypeOK, LocksFollowSteps, OutputsKeepUp, KeepsUp, FlippedOutputIsLocked, Locked
  <1> QED
    BY <1>1, Invariance, PTL

\* Whatever fails in post_update, one buffer object stays locked after it.
THEOREM BufferObjectsReturn == Spec => []NoBufferObjectLeaks
  <1>1. IInv => NoBufferObjectLeaks
    BY DEF IInv, LocksFollowSteps, NoBufferObjectLeaks
  <1> QED
    BY <1>1, Invariance, PTL

\* A frame begins with no flip pending on the display buffer's outputs, so that
\* schedule_flip never throws "Page flip for crtc is already scheduled".
THEOREM FlipsEndWithFrame == Spec => []NoFlipLeftBehind
  <1>1. IInv => NoFlipLeftBehind
    BY DEF IInv, FlipsFollowSteps, NoFlipLeftBehind
  <1> QED
    BY <1>1, Invariance, PTL

\* wait_for_flip returns only when the flip it was called for has completed and
\* its event was read, by whichever thread was the worker.
THEOREM WaitsUntilFlipped == Spec => ReturnsOnlyWhenFlipped
  <1> DEFINE Returns == \A t \in Thread :
                            pc[t] \in Waiting /\ pc'[t] = "idle" =>
                                target[t] \notin inflight' \cup events'
  <1>1. ASSUME IInv, [Next]_vars PROVE [Returns]_flipVars
    <2> SUFFICES ASSUME NEW t \in Thread, pc[t] \in Waiting, pc'[t] = "idle"
                 PROVE  target[t] \notin inflight' \cup events'
      OBVIOUS
    <2>0. inflight' \cup events' = pending_page_flips'
      BY <1>1, NextInvariant DEF IInv, FlipInv, PendingMatchesKernel
    <2>1. target[t] \notin pending_page_flips /\ UNCHANGED pending_page_flips
      <3>1. CASE \E u \in Thread : Flipping(u)
        BY <1>1, <3>1
           DEF IInv, FlipInv, PageFlipTypeOK, Waiting, WaitsForOwn, page_flip_is_done, Flipping,
               ElectWorker, SpuriousWakeup, HandleEvents, Interrupted, SelectFails, NotifyAll,
               GiveUpIfDone
      <3>2. CASE ~ \E u \in Thread : Flipping(u)
        <4>1. pc'[t] = pc[t] \/ pc'[t] = "enter"
          BY <1>1, <3>2
             DEF IInv, FlipInv, PageFlipTypeOK, Next, vars, flipVars, swap_buffers, post_update,
                 get_front_buffer_object, schedule_page_flip, wait_for_page_flip, ScheduleDone,
                 ReleaseLast, OtherFlips, schedule_flip, CallWait, Scanout, FlipCompletes
        <4> QED
          BY <4>1 DEF Waiting
      <3> QED
        BY <3>1, <3>2
    <2> QED
      BY <2>0, <2>1
  <1> QED
    BY <1>1, Invariance, PTL DEF Spec, ReturnsOnlyWhenFlipped

-----------------------------------------------------------------------------
(* The outputs of a display *)

\* configure makes the outputs one by one, and sets none before it has made
\* them all.
OutputsAreMadeFirst ==
    /\ phase = "create" => /\ ours = {}
                           /\ \A c \in Connector : using_saved_crtc[c]
    /\ phase # "create" => made = Connectors
    /\ \A c \in Connector : c > made => saved_crtc[c] = 0
    /\ phase \in {"create", "set", "up"} =>
          \A c \in Connector : using_saved_crtc[c] => current_crtc[c] = 0

\* An encoder serves one connector.
EncodersAreExclusive ==
    \A c, d \in Connector : encoder_id[c] = encoder_id[d] => c = d \/ encoder_id[c] = 0

\* What an output has cached of its connector is true until the output is set,
\* as long as the driver takes no encoder away.
CacheIsFresh ==
    ~took /\ phase \in {"create", "set"} =>
        \A c \in Connector :
            c <= made /\ using_saved_crtc[c] => connector[c] = encoder_id[c]

\* An output that was set shows its crtc, which nothing else shows.
Shows(c) ==
    /\ encoder_id[c] # 0
    /\ crtc_id[encoder_id[c]] = current_crtc[c]
    /\ current_crtc[c] # 0
    /\ \A e \in Encoder : crtc_id[e] = current_crtc[c] => e = encoder_id[c]

SetOutputsShow ==
    ~took /\ phase \in {"set", "up"} =>
        \A c \in Connector : ~using_saved_crtc[c] => Shows(c)

\* A connector that showed something before the display was made shows the same
\* crtc all the time, with a frame of the display only while its output is set;
\* one that was dark is dark until its output is set.
KeepsSaved(c) ==
    /\ saved_crtc[c] # 0 => CrtcOf(encoder_id, crtc_id, c) = saved_crtc[c]
    /\ saved_crtc[c] = 0 /\ using_saved_crtc[c] /\ phase \in {"create", "set"} =>
          CrtcOf(encoder_id, crtc_id, c) = 0
    /\ saved_crtc[c] \in ours => ~using_saved_crtc[c]

SavedStays ==
    ~took /\ ~Cloned => \A c \in Connector : c <= made => KeepsSaved(c)

KMSInv ==
    /\ KMSTypeOK
    /\ OutputsAreMadeFirst
    /\ EncodersAreExclusive
    /\ CacheIsFresh
    /\ SetOutputsShow
    /\ OutputsHaveOwnCrtcs
    /\ SavedStays

-----------------------------------------------------------------------------

\* The first of some numbers is one of them.
LEMMA MinIsMember ==
    ASSUME NEW S \in SUBSET Nat, S # {}
    PROVE  Min(S) \in S
  <1> DEFINE R == {p \in Nat \X Nat : p[1] < p[2]}
  <1>1. IsWellFoundedOn(R, Nat)
    BY NatLessThanWellFounded DEF OpToRel
  <1>2. PICK x \in S : \A y \in S : ~ (<<y, x>> \in R)
    BY <1>1, WFMin
  <1>3. ASSUME NEW y \in S PROVE x <= y
    <2>1. x \in Nat /\ y \in Nat /\ <<y, x>> \in Nat \X Nat
      OBVIOUS
    <2>2. <<y, x>> \notin R
      BY <1>2
    <2>3. ~(y < x)
      BY <2>1, <2>2
    <2> QED
      BY <2>1, <2>3
  <1> QED
    BY <1>3 DEF Min

\* The initial states satisfy the invariant.
LEMMA KMSInitInvariant == KMSInit => KMSInv
  <1> SUFFICES ASSUME KMSInit PROVE KMSInv
    OBVIOUS
  <1> USE CardAssumption DEF KMSInit
  <1>1. KMSTypeOK
    <2>1. 0 \in 0..Encoders /\ 0 \in 0..Crtcs /\ 0 \in 0..Connectors
      OBVIOUS
    <2> QED
      BY <2>1 DEF KMSTypeOK
  <1>2. OutputsAreMadeFirst
    BY DEF OutputsAreMadeFirst
  <1>3. EncodersAreExclusive
    BY DEF EncodersAreExclusive
  <1>4. CacheIsFresh /\ SetOutputsShow /\ SavedStays
    BY DEF CacheIsFresh, SetOutputsShow, SavedStays, Connector
  <1>5. OutputsHaveOwnCrtcs
    BY DEF OutputsHaveOwnCrtcs
  <1> QED
    BY <1>1, <1>2, <1>3, <1>4, <1>5 DEF KMSInv

\* What drmModeSetCrtc does when it takes no encoder away: connector c shows
\* the crtc, and of the others only what showed that crtc has changed.
LEMMA SetCrtcEffect ==
    ASSUME KMSTypeOK, EncodersAreExclusive, NEW c \in Connector, NEW crtc \in CrtcId,
           NEW shown, SetCrtc(c, crtc, shown)
    PROVE  /\ encoder_id' \in [Connector -> 0..Encoders]
           /\ crtc_id' \in [Encoder -> 0..Crtcs]
           /\ ours' \subseteq CrtcId
           /\ took' \in BOOLEAN
           /\ took => took'
           /\ EncodersAreExclusive'
           /\ encoder_id'[c] \in Encoder
           /\ crtc_id'[encoder_id'[c]] = crtc
           /\ \A e \in Encoder : crtc_id'[e] = crtc => e = encoder_id'[c]
           /\ ~took' => \A d \in Connector \ {c} :
                 /\ encoder_id'[d] = encoder_id[d]
                 /\ encoder_id[d] # 0 =>
                       /\ encoder_id[d] # encoder_id'[c]
                       /\ crtc_id[encoder_id[d]] # crtc =>
                             crtc_id'[encoder_id[d]] = crtc_id[encoder_id[d]]
                       /\ crtc_id[encoder_id[d]] = crtc => crtc_id'[encoder_id[d]] = 0
           /\ \A e \in Encoder : crtc_id'[e] \in {crtc_id[e], 0, crtc}
  <1>1. PICK e \in card.encoders[c] :
          /\ crtc \in card.possible_crtcs[e]
          /\ encoder_id' = [d \in Connector |-> IF d = c THEN e
                              ELSE IF encoder_id[d] = e THEN 0 ELSE encoder_id[d]]
          /\ crtc_id' = [f \in Encoder |-> IF f = e THEN crtc
                           ELSE IF crtc_id[f] = crtc THEN 0 ELSE crtc_id[f]]
          /\ ours' = IF shown = "frame" THEN ours \cup {crtc} ELSE ours \ {crtc}
          /\ took' = (took \/ \E d \in Connector \ {c} : encoder_id[d] = e)
    BY DEF SetCrtc
  <1>2. e \in Encoder /\ e # 0 /\ e \in 0..Encoders
    BY CardAssumption DEF KMSTypeOK, Encoder
  <1>3. crtc \in 0..Crtcs /\ crtc # 0 /\ 0 \in 0..Crtcs /\ 0 \in 0..Encoders
    BY CardAssumption DEF CrtcId
  <1>4. /\ encoder_id' \in [Connector -> 0..Encoders]
        /\ crtc_id' \in [Encoder -> 0..Crtcs]
        /\ ours' \subseteq CrtcId
    BY <1>1, <1>2, <1>3 DEF KMSTypeOK
  <1>5. took' \in BOOLEAN /\ (took => took')
    BY <1>1 DEF KMSTypeOK
  <1>6. EncodersAreExclusive'
    BY <1>1, <1>2 DEF EncodersAreExclusive, KMSTypeOK
  <1>7. /\ encoder_id'[c] = e
        /\ crtc_id'[e] = crtc
        /\ \A f \in Encoder : crtc_id'[f] = crtc => f = e
    BY <1>1, <1>2, <1>3
  <1>8. ASSUME ~took', NEW d \in Connector \ {c}
        PROVE  /\ encoder_id'[d] = encoder_id[d]
               /\ encoder_id[d] # 0 =>
                     /\ encoder_id[d] # e
                     /\ crtc_id[encoder_id[d]] # crtc =>
                           crtc_id'[encoder_id[d]] = crtc_id[encoder_id[d]]
                     /\ crtc_id[encoder_id[d]] = crtc => crtc_id'[encoder_id[d]] = 0
    <2>1. encoder_id[d] # e
      BY <1>1, <1>8
    <2>2. encoder_id[d] # 0 => encoder_id[d] \in Encoder
      BY CardAssumption DEF KMSTypeOK, Encoder
    <2> QED
      BY <1>1, <2>1, <2>2
  <1>9. \A f \in Encoder : crtc_id'[f] \in {crtc_id[f], 0, crtc}
    BY <1>1
  <1> QED
    BY <1>2, <1>4, <1>5, <1>6, <1>7, <1>8, <1>9

\* The constructor of a KMSOutput reads its connector.
LEMMA CreateInvariant ==
    ASSUME KMSInv, NEW c \in Connector, get_kms_output_for(c)
    PROVE  KMSInv'
  <1> USE CardAssumption DEF get_kms_output_for, kernel
  <1>0. c \in 1..Connectors /\ c = made + 1 /\ made \in Nat /\ made' = c
    BY DEF Connector, KMSInv, KMSTypeOK
  <1>1. KMSTypeOK'
    <2>1. \A d \in Connector : CrtcOf(encoder_id, crtc_id, d) \in 0..Crtcs
      BY DEF KMSInv, KMSTypeOK, CrtcOf, Encoder
    <2>2. made' \in 0..Connectors
      BY <1>0
    <2> QED
      BY <2>1, <2>2 DEF KMSInv, KMSTypeOK
  <1>2. OutputsAreMadeFirst'
    BY <1>0 DEF KMSInv, OutputsAreMadeFirst, KMSTypeOK, Connector
  <1>3. EncodersAreExclusive' /\ OutputsHaveOwnCrtcs'
    BY DEF KMSInv, EncodersAreExclusive, OutputsHaveOwnCrtcs
  <1>4. CacheIsFresh'
    <2> SUFFICES ASSUME ~took, NEW d \in Connector, d <= made', using_saved_crtc[d]
                 PROVE  connector'[d] = encoder_id[d]
      BY DEF CacheIsFresh
    <2>1. CASE d = c
      BY <2>1 DEF KMSInv, KMSTypeOK
    <2>2. CASE d # c
      <3>1. d <= made
        BY <1>0, <2>2 DEF Connector
      <3> QED
        BY <2>2, <3>1 DEF KMSInv, KMSTypeOK, CacheIsFresh
    <2> QED
      BY <2>1, <2>2
  <1>5. SetOutputsShow'
    BY DEF SetOutputsShow
  <1>6. SavedStays'
    <2> SUFFICES ASSUME ~took, ~Cloned', NEW d \in Connector, d <= made'
                 PROVE  KeepsSaved(d)'
      BY DEF SavedStays
    <2>1. ~Cloned
      BY <1>0 DEF Cloned, KMSInv, OutputsAreMadeFirst, KMSTypeOK
    <2>2. CASE d = c
      BY <2>2 DEF KeepsSaved, KMSInv, KMSTypeOK, CrtcOf, CrtcId, OutputsAreMadeFirst
    <2>3. CASE d # c
      <3>1. d <= made
        BY <1>0, <2>3 DEF Connector
      <3>2. KeepsSaved(d)
        BY <2>1, <3>1 DEF KMSInv, SavedStays
      <3> QED
        BY <2>3, <3>2 DEF KeepsSaved, CrtcOf, KMSInv, KMSTypeOK
    <2> QED
      BY <2>2, <2>3
  <1> QED
    BY <1>1, <1>2, <1>3, <1>4, <1>5, <1>6 DEF KMSInv

\* The steps of GBMDisplay between the calls on its outputs.
LEMMA DisplayInvariant ==
    ASSUME KMSInv, OutputsMade \/ DisplayMade \/ StopDisplay
    PROVE  KMSInv'
  <1> USE DEF OutputsMade, DisplayMade, StopDisplay, kernel, output
  <1>1. KMSTypeOK' /\ OutputsAreMadeFirst'
    BY DEF KMSInv, KMSTypeOK, OutputsAreMadeFirst
  <1>2. EncodersAreExclusive' /\ OutputsHaveOwnCrtcs'
    BY DEF KMSInv, EncodersAreExclusive, OutputsHaveOwnCrtcs
  <1>3. CacheIsFresh'
    BY DEF KMSInv, CacheIsFresh
  <1>4. SetOutputsShow'
    BY DEF KMSInv, SetOutputsShow, Shows, OutputsAreMadeFirst
  <1>5. SavedStays'
    BY DEF KMSInv, SavedStays, KeepsSaved, Cloned, CrtcOf
  <1> QED
    BY <1>1, <1>2, <1>3, <1>4, <1>5 DEF KMSInv

\* The crtc that ensure_crtc finds is there, and while the driver has taken no
\* encoder away no output has it yet: either the connector shows it already or
\* nobody does.
LEMMA EnsureCrtc ==
    ASSUME KMSInv, phase = "set", NEW c \in Connector, using_saved_crtc[c],
           ensure_crtc(c) # 0
    PROVE  /\ ensure_crtc(c) \in CrtcId
           /\ ~took => \/ ensure_crtc(c) = CrtcOf(encoder_id, crtc_id, c)
                       \/ \A d \in Connector :
                             CrtcOf(encoder_id, crtc_id, d) \in {0} \cup (CrtcId \ {ensure_crtc(c)})
           /\ ~took /\ CrtcOf(encoder_id, crtc_id, c) # 0 =>
                 ensure_crtc(c) = CrtcOf(encoder_id, crtc_id, c)
  <1> DEFINE free == {k \in CrtcId : /\ ~crtc_is_used(k)
                                     /\ \E e \in connector_available_encoders(c) :
                                           k \in card.possible_crtcs[e]}
  <1>1. /\ connector[c] \in 0..Encoders
        /\ \A d \in Connector : CrtcOf(encoder_id, crtc_id, d) \in {0} \cup CrtcId
        /\ CrtcOf(connector, crtc_id, c) \in {0} \cup CrtcId
    BY CardAssumption DEF KMSInv, KMSTypeOK, CrtcOf, CrtcId, Encoder
  <1>2. ~took => connector[c] = encoder_id[c]
    BY CardAssumption DEF KMSInv, CacheIsFresh, OutputsAreMadeFirst, Connector
  <1>3. ~took => CrtcOf(connector, crtc_id, c) = CrtcOf(encoder_id, crtc_id, c)
    BY <1>2 DEF CrtcOf
  <1>4. CASE CrtcOf(connector, crtc_id, c) # 0
    <2>1. ensure_crtc(c) = CrtcOf(connector, crtc_id, c)
      BY <1>4 DEF ensure_crtc
    <2> QED
      BY <1>1, <1>3, <1>4, <2>1
  <1>5. CASE CrtcOf(connector, crtc_id, c) = 0
    <2>1. ensure_crtc(c) = IF free # {} THEN Min(free) ELSE 0
      BY <1>5 DEF ensure_crtc
    <2>2. free # {} /\ ensure_crtc(c) = Min(free)
      BY <2>1
    <2>3. free \in SUBSET Nat
      BY CardAssumption DEF CrtcId
    <2>4. ensure_crtc(c) \in free
      BY <2>2, <2>3, MinIsMember
    <2>5. ensure_crtc(c) \in CrtcId /\ ~crtc_is_used(ensure_crtc(c))
      BY <2>4
    <2>6. \A d \in Connector : CrtcOf(encoder_id, crtc_id, d) # ensure_crtc(c)
      BY <2>5 DEF crtc_is_used
    <2> QED
      BY <1>1, <1>3, <1>5, <2>5, <2>6
  <1> QED
    BY <1>4, <1>5

\* set_crtc of an output gives it a crtc that no other output has, and that no
\* connector showed but its own, or undoes the display.
LEMMA SetInvariant ==
    ASSUME KMSInv, NEW c \in Connector, set_crtc(c)
    PROVE  KMSInv'
  <1> DEFINE k == ensure_crtc(c)
  <1>1. phase = "set" /\ c \in Unset /\ using_saved_crtc[c]
    <2>1. card.connected \subseteq Connector /\ Connector \subseteq Nat
      BY CardAssumption DEF KMSInv, KMSTypeOK, Connector
    <2>2. c \in Unset
      BY <2>1, MinIsMember DEF set_crtc, Unset
    <2> QED
      BY <2>2 DEF set_crtc, Unset
  <1>2. UNCHANGED <<card, made, connector, saved_crtc>>
    BY DEF set_crtc
  <1>3. /\ made = Connectors
        /\ \A d \in Connector : d <= made
    BY <1>1, CardAssumption DEF KMSInv, OutputsAreMadeFirst, Connector
  <1>4. ASSUME k # 0, SetCrtc(c, k, "frame"), UNCHANGED phase,
               current_crtc' = [current_crtc EXCEPT ![c] = k],
               using_saved_crtc' = [using_saved_crtc EXCEPT ![c] = FALSE]
        PROVE  KMSInv'
    <2> HIDE DEF k
    <2>1. /\ k \in CrtcId /\ k \in 0..Crtcs
          /\ ~took => \/ k = CrtcOf(encoder_id, crtc_id, c)
                      \/ \A d \in Connector :
                            CrtcOf(encoder_id, crtc_id, d) \in {0} \cup (CrtcId \ {k})
          /\ ~took /\ CrtcOf(encoder_id, crtc_id, c) # 0 => k = CrtcOf(encoder_id, crtc_id, c)
      BY <1>1, <1>4, EnsureCrtc, CardAssumption DEF k, CrtcId
    <2>2. /\ encoder_id' \in [Connector -> 0..Encoders]
          /\ crtc_id' \in [Encoder -> 0..Crtcs]
          /\ ours' = ours \cup {k}
          /\ took' \in BOOLEAN
          /\ took => took'
          /\ EncodersAreExclusive'
          /\ encoder_id'[c] \in Encoder
          /\ crtc_id'[encoder_id'[c]] = k
          /\ \A e \in Encoder : crtc_id'[e] = k => e = encoder_id'[c]
          /\ ~took' => \A d \in Connector \ {c} :
                /\ encoder_id'[d] = encoder_id[d]
                /\ encoder_id[d] # 0 =>
                      /\ encoder_id[d] # encoder_id'[c]
                      /\ crtc_id[encoder_id[d]] # k =>
                            crtc_id'[encoder_id[d]] = crtc_id[encoder_id[d]]
                      /\ crtc_id[encoder_id[d]] = k => crtc_id'[encoder_id[d]] = 0
          /\ \A e \in Encoder : crtc_id'[e] \in {crtc_id[e], 0, k}
      <3>1. ours' = ours \cup {k}
        BY <1>4 DEF SetCrtc
      <3> QED
        BY <1>4, <2>1, <3>1, SetCrtcEffect DEF KMSInv
    <2>3. 0 \notin Encoder /\ 0 \notin CrtcId
      BY CardAssumption DEF Encoder, CrtcId
    <2>4. KMSTypeOK'
      BY <1>2, <1>4, <2>1, <2>2 DEF KMSInv, KMSTypeOK
    <2>5. OutputsAreMadeFirst'
      BY <1>1, <1>2, <1>4 DEF KMSInv, OutputsAreMadeFirst, KMSTypeOK
    <2>6. CacheIsFresh'
      BY <1>2, <1>4, <2>2 DEF KMSInv, CacheIsFresh, KMSTypeOK
    <2>7. ASSUME ~took', NEW d \in Connector \ {c}, ~using_saved_crtc[d]
          PROVE  current_crtc[d] # k /\ Shows(d)'
      <3>1. Shows(d)
        BY <1>1, <2>2, <2>7 DEF KMSInv, SetOutputsShow
      <3>2. CrtcOf(encoder_id, crtc_id, d) = current_crtc[d]
        BY <3>1 DEF Shows, CrtcOf
      <3>3. current_crtc[d] # k
        <4>1. CASE k = CrtcOf(encoder_id, crtc_id, c)
          <5>1. encoder_id[c] \in Encoder /\ crtc_id[encoder_id[c]] = k
            BY <1>4, <4>1, CardAssumption DEF CrtcOf, KMSInv, KMSTypeOK, Encoder
          <5>2. encoder_id[c] # encoder_id[d]
            BY <2>3, <5>1 DEF KMSInv, EncodersAreExclusive
          <5> QED
            BY <3>1, <5>1, <5>2 DEF Shows
        <4>2. CASE \A b \in Connector :
                     CrtcOf(encoder_id, crtc_id, b) \in {0} \cup (CrtcId \ {k})
          BY <1>4, <3>2, <4>2
        <4> QED
          BY <2>1, <2>2, <2>7, <4>1, <4>2
      <3>4. Shows(d)'
        BY <1>4, <2>2, <2>7, <3>1, <3>3 DEF Shows, KMSInv, KMSTypeOK
      <3> QED
        BY <3>3, <3>4
    <2>8. SetOutputsShow'
      <3> SUFFICES ASSUME ~took', NEW d \in Connector, ~using_saved_crtc'[d]
                   PROVE  Shows(d)'
        BY DEF SetOutputsShow
      <3>1. CASE d = c
        BY <1>4, <2>2, <2>3, <3>1 DEF Shows, KMSInv, KMSTypeOK
      <3>2. CASE d # c
        BY <1>4, <2>7, <3>2 DEF KMSInv, KMSTypeOK
      <3> QED
        BY <3>1, <3>2
    <2>9. OutputsHaveOwnCrtcs'
      <3> SUFFICES ASSUME ~took', NEW a \in Connector, NEW b \in Connector, a # b,
                          current_crtc'[a] = current_crtc'[b], current_crtc'[a] # 0
                   PROVE  FALSE
        BY DEF OutputsHaveOwnCrtcs
      <3>1. ASSUME NEW d \in Connector \ {c}, current_crtc[d] = k PROVE FALSE
        <4>1. ~using_saved_crtc[d]
          BY <1>1, <1>4, <3>1 DEF KMSInv, OutputsAreMadeFirst
        <4> QED
          BY <2>7, <3>1, <4>1
      <3>2. CASE a # c /\ b # c
        BY <1>4, <2>2, <3>2 DEF KMSInv, KMSTypeOK, OutputsHaveOwnCrtcs
      <3> QED
        BY <1>4, <3>1, <3>2 DEF KMSInv, KMSTypeOK
    <2>10. SavedStays'
      <3> SUFFICES ASSUME ~took', ~Cloned', NEW d \in Connector PROVE KeepsSaved(d)'
        BY DEF SavedStays
      <3>1. ~took /\ ~Cloned
        BY <1>2, <2>2 DEF Cloned
      <3>2. \A b \in Connector : KeepsSaved(b)
        BY <1>3, <3>1 DEF KMSInv, SavedStays
      <3>3. \A b \in Connector : saved_crtc[b] # 0 /\ b # c => saved_crtc[b] # k
        BY <1>1, <1>4, <2>1, <3>1, <3>2 DEF KeepsSaved, Cloned
      <3>4. CASE d = c
        <4>1. saved_crtc[c] # 0 => saved_crtc[c] = k
          BY <2>1, <3>1, <3>2 DEF KeepsSaved
        <4> QED
          BY <1>2, <1>4, <2>2, <2>3, <3>4, <4>1 DEF KeepsSaved, CrtcOf, KMSInv, KMSTypeOK
      <3>5. CASE d # c
        <4>1. saved_crtc'[d] # 0 => CrtcOf(encoder_id, crtc_id, d)' = saved_crtc'[d]
          BY <1>2, <2>2, <3>2, <3>3, <3>5 DEF KeepsSaved, CrtcOf
        <4>2. CrtcOf(encoder_id, crtc_id, d) = 0 => CrtcOf(encoder_id, crtc_id, d)' = 0
          BY <1>4, <2>2, <3>5 DEF CrtcOf
        <4>3. /\ using_saved_crtc'[d] = using_saved_crtc[d]
              /\ saved_crtc[d] \in ours' => saved_crtc[d] \in ours
          BY <1>4, <2>1, <2>2, <2>3, <3>3, <3>5 DEF KMSInv, KMSTypeOK
        <4> QED
          BY <1>1, <1>2, <1>4, <3>2, <4>1, <4>2, <4>3 DEF KeepsSaved
      <3> QED
        BY <3>4, <3>5
    <2> QED
      BY <2>2, <2>4, <2>5, <2>6, <2>8, <2>9, <2>10 DEF KMSInv
  <1>5. ASSUME phase' = "failed",
               UNCHANGED <<kernel, took, current_crtc, using_saved_crtc>>
        PROVE  KMSInv'
    <2> USE <1>1, <1>2, <1>5 DEF kernel
    <2>1. KMSTypeOK' /\ OutputsAreMadeFirst'
      BY DEF KMSInv, KMSTypeOK, OutputsAreMadeFirst
    <2>2. EncodersAreExclusive' /\ OutputsHaveOwnCrtcs'
      BY DEF KMSInv, EncodersAreExclusive, OutputsHaveOwnCrtcs
    <2>3. CacheIsFresh' /\ SetOutputsShow'
      BY DEF CacheIsFresh, SetOutputsShow
    <2>4. SavedStays'
      BY DEF KMSInv, SavedStays, KeepsSaved, Cloned, CrtcOf
    <2> QED
      BY <2>1, <2>2, <2>3, <2>4 DEF KMSInv
  <1> QED
    BY <1>4, <1>5 DEF set_crtc

\* ~KMSOutput puts back what its connector showed, and leaves the others alone.
LEMMA RestoreInvariant ==
    ASSUME KMSInv, NEW c \in Connector, restore_saved_crtc(c)
    PROVE  KMSInv'
  <1>1. /\ phase \in {"down", "failed"} /\ phase' = phase
        /\ UNCHANGED <<card, made, connector, current_crtc, saved_crtc>>
        /\ using_saved_crtc' = [using_saved_crtc EXCEPT ![c] = TRUE]
    BY DEF restore_saved_crtc
  <1>2. /\ made = Connectors
        /\ \A d \in Connector : d <= made
    BY <1>1, CardAssumption DEF KMSInv, OutputsAreMadeFirst, Connector
  <1>3. OutputsAreMadeFirst' /\ CacheIsFresh' /\ SetOutputsShow'
    BY <1>1 DEF KMSInv, OutputsAreMadeFirst, CacheIsFresh, SetOutputsShow
  <1>4. CASE saved_crtc[c] = 0
    <2>1. UNCHANGED <<encoder_id, crtc_id, ours, took>>
      BY <1>4 DEF restore_saved_crtc, kernel
    <2>2. KMSTypeOK'
      BY <1>1, <2>1 DEF KMSInv, KMSTypeOK
    <2>3. EncodersAreExclusive' /\ OutputsHaveOwnCrtcs'
      BY <1>1, <2>1 DEF KMSInv, EncodersAreExclusive, OutputsHaveOwnCrtcs
    <2>4. 0 \notin ours
      BY CardAssumption DEF KMSInv, KMSTypeOK, CrtcId
    <2>5. SavedStays'
      BY <1>1, <1>2, <1>4, <2>1, <2>4 DEF KMSInv, KMSTypeOK, SavedStays, KeepsSaved, Cloned, CrtcOf
    <2> QED
      BY <1>3, <2>2, <2>3, <2>5 DEF KMSInv
  <1>5. CASE saved_crtc[c] # 0
    <2> DEFINE k == saved_crtc[c]
    <2>1. SetCrtc(c, k, "console") /\ k \in CrtcId
      BY <1>5, CardAssumption DEF restore_saved_crtc, KMSInv, KMSTypeOK, CrtcId
    <2>2. ours' = ours \ {k}
      BY <2>1 DEF SetCrtc
    <2> HIDE DEF k
    <2>3. /\ encoder_id' \in [Connector -> 0..Encoders]
          /\ crtc_id' \in [Encoder -> 0..Crtcs]
          /\ ours' \subseteq CrtcId
          /\ took' \in BOOLEAN
          /\ took => took'
          /\ EncodersAreExclusive'
          /\ encoder_id'[c] \in Encoder
          /\ crtc_id'[encoder_id'[c]] = k
          /\ ~took' => \A d \in Connector \ {c} :
                /\ encoder_id'[d] = encoder_id[d]
                /\ encoder_id[d] # 0 /\ crtc_id[encoder_id[d]] # k =>
                      crtc_id'[encoder_id[d]] = crtc_id[encoder_id[d]]
      BY <2>1, SetCrtcEffect DEF KMSInv
    <2>4. KMSTypeOK'
      BY <1>1, <2>3 DEF KMSInv, KMSTypeOK
    <2>5. OutputsHaveOwnCrtcs'
      BY <1>1, <2>3 DEF KMSInv, OutputsHaveOwnCrtcs
    <2>6. SavedStays'
      <3> SUFFICES ASSUME ~took', ~Cloned', NEW d \in Connector PROVE KeepsSaved(d)'
        BY DEF SavedStays
      <3>1. /\ ~took
            /\ \A b \in Connector : KeepsSaved(b)
            /\ \A b \in Connector : saved_crtc[b] = k => b = c
        BY <1>1, <1>2, <1>5, <2>3 DEF KMSInv, SavedStays, Cloned, k
      <3>2. 0 \notin Encoder
        BY CardAssumption DEF Encoder
      <3>3. saved_crtc[d] # 0 => CrtcOf(encoder_id, crtc_id, d)' = saved_crtc[d]
        BY <2>3, <3>1, <3>2 DEF KeepsSaved, CrtcOf, k
      <3>4. saved_crtc[d] \in ours' => ~using_saved_crtc'[d]
        BY <1>1, <2>2, <3>1 DEF KeepsSaved, k, KMSInv, KMSTypeOK
      <3> QED
        BY <1>1, <3>3, <3>4 DEF KeepsSaved
    <2> QED
      BY <1>3, <2>3, <2>4, <2>5, <2>6 DEF KMSInv
  <1> QED
    BY <1>4, <1>5

\* Every step of the display keeps the invariant.
LEMMA KMSNextInvariant == KMSInv /\ [KMSNext]_kms_vars => KMSInv'
  <1> SUFFICES ASSUME KMSInv, [KMSNext]_kms_vars PROVE KMSInv'
    OBVIOUS
  <1>1. CASE UNCHANGED kms_vars
    <2> USE <1>1 DEF kms_vars, kernel, output
    <2>1. KMSTypeOK' /\ OutputsAreMadeFirst'
      BY DEF KMSInv, KMSTypeOK, OutputsAreMadeFirst
    <2>2. EncodersAreExclusive' /\ OutputsHaveOwnCrtcs'
      BY DEF KMSInv, EncodersAreExclusive, OutputsHaveOwnCrtcs
    <2>3. CacheIsFresh' /\ SetOutputsShow'
      BY DEF KMSInv, CacheIsFresh, SetOutputsShow, Shows
    <2>4. SavedStays'
      BY DEF KMSInv, SavedStays, KeepsSaved, Cloned, CrtcOf
    <2> QED
      BY <2>1, <2>2, <2>3, <2>4 DEF KMSInv
  <1> QED
    BY <1>1, DisplayInvariant, CreateInvariant, SetInvariant, RestoreInvariant DEF KMSNext

-----------------------------------------------------------------------------
(* What the outputs of a display promise *)

\* The inductive invariant holds in every reachable state.
THEOREM KMSInvariance == KMSSpec => []KMSInv
  BY KMSInitInvariant, KMSNextInvariant, PTL DEF KMSSpec

\* The state of the outputs and of the kernel is well typed.
THEOREM KMSTypeCorrect == KMSSpec => []KMSTypeOK
  <1>1. KMSInv => KMSTypeOK
    BY DEF KMSInv
  <1> QED
    BY <1>1, KMSInvariance, PTL

\* ensure_crtc never gives two outputs one crtc, on any card, unless the driver
\* has given the encoder of one connector to another.
THEOREM CrtcsAreNotShared == KMSSpec => []OutputsHaveOwnCrtcs
  <1>1. KMSInv => OutputsHaveOwnCrtcs
    BY DEF KMSInv
  <1> QED
    BY <1>1, KMSInvariance, PTL

\* restore_saved_crtc puts the console back on every card, after a display that
\* ran and after one whose creation failed, unless the firmware had clones or
\* the driver moved an encoder.
THEOREM ConsoleReturns == KMSSpec => []ConsoleIsRestored
  <1>1. KMSInv => ConsoleIsRestored
    <2> SUFFICES ASSUME KMSInv, phase \in {"down", "failed"}, ~took, ~Cloned,
                        \A d \in Connector : using_saved_crtc[d],
                        NEW c \in Connector, saved_crtc[c] # 0
                 PROVE  /\ CrtcOf(encoder_id, crtc_id, c) = saved_crtc[c]
                        /\ saved_crtc[c] \notin ours
      BY DEF ConsoleIsRestored
    <2>1. c <= made
      BY CardAssumption DEF KMSInv, OutputsAreMadeFirst, Connector
    <2> QED
      BY <2>1 DEF KMSInv, SavedStays, KeepsSaved
  <1> QED
    BY <1>1, KMSInvariance, PTL

=============================================================================
