--------------------------- MODULE GBMDisplayBuffer ---------------------------
(***************************************************************************)
(* mgg::GBMDisplayBuffer: the one display buffer of the GBM platform, shown *)
(* on all connected outputs.  Its compositing thread renders into a buffer *)
(* object of the gbm surface, post_update() flips every output to it and   *)
(* gives the previous one back.  KMSPageFlipper schedules the flips and    *)
(* waits for them; it belongs to the platform, and threads of other        *)
(* display buffers, each with crtcs of its own, use it too.                *)
(*                                                                         *)
(* The gbm surface and the scanout hardware are external: locked is the    *)
(* set of buffer objects the display buffer has locked, the others are     *)
(* free for EGL to render into; scanout[c] is what crtc c displays.        *)
(***************************************************************************)
EXTENDS KMSPageFlipper

CONSTANTS Bo,        \* buffer objects of the gbm surface
          NoBo,      \* the null buffer object
          display    \* the compositing thread

ASSUME DisplayAssumption == display \in Thread /\ NoBo \notin Bo

\* The outputs this display buffer is shown on, each with a crtc of its own.
Output == {c \in Crtc : Owner[c] = display}

VARIABLES step,      \* progress of post_update
          locked, last_flipped_bufobj,
          bufobj,    \* the buffer object being posted
          outputs,   \* outputs the current loop has still to visit
          page_flips_pending,
          scanout,   \* what each crtc displays
          flip_to,   \* what its scheduled flip will make it display
          behind     \* history: outputs that refused a flip others accepted

bufferVars == <<step, locked, last_flipped_bufobj, bufobj, outputs,
                page_flips_pending, scanout, flip_to, behind>>
vars == <<flipVars, bufferVars>>

\* The constructor swapped once, locked the front buffer and set every crtc to
\* it; when it fails there is no display buffer.
Init ==
    /\ PageFlipInit
    /\ step = "idle"
    /\ last_flipped_bufobj \in Bo
    /\ locked = {last_flipped_bufobj}
    /\ bufobj = NoBo
    /\ outputs = {}
    /\ page_flips_pending = 0
    /\ scanout = [c \in Output |-> last_flipped_bufobj]
    /\ flip_to = scanout
    /\ behind = {}

\* eglSwapBuffers needs a free buffer object to render into, and may fail.
swap_buffers ==
    /\ step = "idle"
    /\ pc[display] = "idle"
    /\ \/ \E b \in Bo \ locked : bufobj' = b /\ step' = "front"
       \/ UNCHANGED <<bufobj, step>>
    /\ UNCHANGED <<flipVars, locked, last_flipped_bufobj, outputs,
                   page_flips_pending, scanout, flip_to, behind>>

\* Lock the front buffer; drmModeAddFB may fail, and then it is released.
get_front_buffer_object ==
    /\ step = "front"
    /\ \/ /\ locked' = locked \cup {bufobj}
          /\ step' = "schedule"
          /\ outputs' = Output
          /\ page_flips_pending' = 0
          /\ UNCHANGED bufobj
       \/ /\ step' = "idle"
          /\ bufobj' = NoBo
          /\ UNCHANGED <<locked, outputs, page_flips_pending>>
    /\ UNCHANGED <<flipVars, last_flipped_bufobj, scanout, flip_to, behind>>

\* Schedule the flip of one output; the driver may refuse it.
schedule_page_flip(c) ==
    /\ step = "schedule"
    /\ c \in outputs
    /\ outputs' = outputs \ {c}
    /\ \E accepted \in BOOLEAN :
          /\ schedule_flip(display, c, accepted)
          /\ page_flips_pending' = page_flips_pending + (IF accepted THEN 1 ELSE 0)
          /\ flip_to' = IF accepted THEN [flip_to EXCEPT ![c] = bufobj] ELSE flip_to
    /\ UNCHANGED <<step, locked, last_flipped_bufobj, bufobj, scanout, behind>>

\* Mutant: the early return forgets the buffer object it has locked.
LeakUnflipped ==
    /\ page_flips_pending = 0
    /\ bufobj' = NoBo
    /\ step' = "idle"
    /\ UNCHANGED <<locked, outputs, behind>>

\* No output flips: release the new buffer object and report failure.
ReleaseUnflipped ==
    /\ page_flips_pending = 0
    /\ locked' = locked \ {bufobj}
    /\ bufobj' = NoBo
    /\ step' = "idle"
    /\ UNCHANGED <<outputs, behind>>

\* Mutant: no output is waited for.
ScheduleWithoutWait ==
    /\ step = "schedule"
    /\ outputs = {}
    /\ \/ ReleaseUnflipped
       \/ /\ page_flips_pending > 0
          /\ step' = "wait"
          /\ UNCHANGED <<locked, bufobj, outputs, behind>>
    /\ UNCHANGED <<flipVars, last_flipped_bufobj, page_flips_pending, scanout, flip_to>>

ScheduleDone ==
    /\ step = "schedule"
    /\ outputs = {}
    /\ \/ ReleaseUnflipped
       \/ /\ page_flips_pending > 0
          /\ step' = "wait"
          /\ outputs' = Output
          /\ behind' = behind \cup {c \in Output : flip_to[c] # bufobj}
          /\ UNCHANGED <<locked, bufobj>>
    /\ UNCHANGED <<flipVars, last_flipped_bufobj, page_flips_pending, scanout, flip_to>>

\* Wait for each output in turn, whether or not its flip was accepted.
wait_for_page_flip(c) ==
    /\ step = "wait"
    /\ c \in outputs
    /\ CallWait(display, c)
    /\ outputs' = outputs \ {c}
    /\ UNCHANGED <<step, locked, last_flipped_bufobj, bufobj,
                   page_flips_pending, scanout, flip_to, behind>>

\* All waits have returned: the previous buffer object becomes available.
ReleaseLast ==
    /\ step = "wait"
    /\ outputs = {}
    /\ pc[display] = "idle"
    /\ locked' = locked \ {last_flipped_bufobj}
    /\ last_flipped_bufobj' = bufobj
    /\ bufobj' = NoBo
    /\ step' = "idle"
    /\ UNCHANGED <<flipVars, outputs, page_flips_pending, scanout, flip_to, behind>>

\* The rest of wait_for_flip, in any thread.
Flipping(t) ==
    /\ \/ ElectWorker(t)
       \/ SpuriousWakeup(t)
       \/ HandleEvents(t)
       \/ Interrupted(t)
       \/ SelectFails(t)
       \/ NotifyAll(t)
    /\ UNCHANGED bufferVars

\* Another display buffer's thread uses the page flipper.
OtherFlips(t) ==
    /\ t # display
    /\ \E c \in Crtc : \/ \E accepted \in BOOLEAN : schedule_flip(t, c, accepted)
                       \/ CallWait(t, c)
    /\ UNCHANGED bufferVars

\* The hardware shows the new buffer object.
Scanout(c) ==
    /\ FlipCompletes(c)
    /\ IF c \in Output
       THEN /\ scanout' = [scanout EXCEPT ![c] = flip_to[c]]
            /\ behind' = behind \ {c}
       ELSE UNCHANGED <<scanout, behind>>
    /\ UNCHANGED <<step, locked, last_flipped_bufobj, bufobj, outputs,
                   page_flips_pending, flip_to>>

post_update ==
    \/ get_front_buffer_object
    \/ \E c \in Output : schedule_page_flip(c) \/ wait_for_page_flip(c)
    \/ ScheduleDone
    \/ ReleaseLast

Next ==
    \/ swap_buffers
    \/ post_update
    \/ \E t \in Thread : Flipping(t) \/ OtherFlips(t)
    \/ \E c \in Crtc : Scanout(c)

Spec == Init /\ [][Next]_vars

\* A frame once begun is driven to its end; frames begin on demand.  The
\* kernel completes every flip, threads inside wait_for_flip run on, and
\* select() is not interrupted for ever.
FairSpec ==
    /\ Spec
    /\ WF_vars(post_update)
    /\ \A c \in Crtc : WF_vars(Scanout(c))
    /\ \A t \in Thread : /\ WF_vars(WaitStep(t) /\ UNCHANGED bufferVars)
                         /\ SF_vars(HandleEvents(t) /\ UNCHANGED bufferVars)

-----------------------------------------------------------------------------

\* The type of the display buffer's state and of the hardware's.
TypeOK ==
    /\ PageFlipTypeOK
    /\ step \in {"idle", "front", "schedule", "wait"}
    /\ locked \subseteq Bo
    /\ last_flipped_bufobj \in Bo
    /\ bufobj \in Bo \cup {NoBo}
    /\ outputs \subseteq Output
    /\ page_flips_pending \in 0..Cardinality(Output)
    /\ scanout \in [Output -> Bo]
    /\ flip_to \in [Output -> Bo]
    /\ behind \subseteq Output

\* What an output displays or is about to display is not free for EGL.
Locked(c) == scanout[c] \in locked /\ (c \in inflight => flip_to[c] \in locked)

\* A buffer object that an output displays, or is about to display, is never
\* handed back for EGL to render the next frame into, whatever fails in
\* post_update, as long as the outputs refuse their flips together or not at
\* all: only an output left behind when another one flipped is exposed.
FlippedOutputIsLocked == \A c \in Output \ behind : Locked(c)

\* The comment in post_update calls the buffer object it releases "not
\* displayed anymore".
DisplayedIsLocked == \A c \in Output : Locked(c)

\* Whatever fails on the way, post_update keeps exactly one buffer object
\* locked when it returns, so the gbm surface never runs out of them.
NoBufferObjectLeaks == step = "idle" => locked = {last_flipped_bufobj}

\* post_update never schedules a flip on a crtc that still has one pending,
\* which would throw and take the server down.
NoFlipLeftBehind == step \in {"idle", "front"} => pending_page_flips \cap Output = {}

=============================================================================
