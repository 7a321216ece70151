---------------------------- MODULE KMSPageFlipper ----------------------------
(***************************************************************************)
(* mgg::KMSPageFlipper: threads that have scheduled page flips on their    *)
(* crtcs share one DRM event stream.  In wait_for_flip one of them becomes *)
(* the worker and reads events with select() outside pf_mutex; the others  *)
(* wait on pf_cv until their flip is done or the worker's place is free.   *)
(*                                                                         *)
(* inflight and events are the kernel's side (external): flips programmed  *)
(* and not yet done, and completion events not yet read from drm_fd.  A    *)
(* crtc belongs to one output and so to one thread.                        *)
(***************************************************************************)
EXTENDS FiniteSets, Naturals

CONSTANTS Crtc,      \* crtc ids
          Thread,    \* compositing threads
          Owner,     \* Owner[c]: the thread whose output drives crtc c
          NoThread   \* worker_tid when there is no worker

ASSUME OwnerAssumption ==
    /\ IsFiniteSet(Crtc)
    /\ Owner \in [Crtc -> Thread]
    /\ \A t \in Thread : \E c \in Crtc : Owner[c] = t
    /\ NoThread \notin Thread

VARIABLES pending_page_flips, worker_tid,
          pc,        \* where each thread is
          target,    \* the crtc each thread waits for
          inflight, events

flipVars == <<pending_page_flips, worker_tid, pc, target, inflight, events>>

\* "enter": about to lock pf_mutex; "waiting" and "awake": in pf_cv.wait and
\* just out of it; "select": the worker, outside the mutex; "notify" and
\* "leave": past the worker's critical section, about to call notify_all and
\* then to go on or to return; "threw": an exception left wait_for_flip.
Waiting == {"enter", "waiting", "awake", "select", "notify", "leave"}

PageFlipInit ==
    /\ pending_page_flips = {}
    /\ worker_tid = NoThread
    /\ pc = [t \in Thread |-> "idle"]
    /\ target = [t \in Thread |-> CHOOSE c \in Crtc : Owner[c] = t]
    /\ inflight = {}
    /\ events = {}

page_flip_is_done(c) == c \notin pending_page_flips

\* Mutant: the entry stays when the driver refuses the flip.
ScheduleNotUndone(t, c, accepted) ==
    /\ pc[t] = "idle"
    /\ Owner[c] = t
    /\ c \notin pending_page_flips
    /\ pending_page_flips' = pending_page_flips \cup {c}
    /\ inflight' = IF accepted THEN inflight \cup {c} ELSE inflight
    /\ UNCHANGED <<worker_tid, pc, target, events>>

\* A second flip on a crtc that has one pending throws logic_error and changes
\* nothing.  drmModePageFlip may refuse; the entry is then removed again.
schedule_flip(t, c, accepted) ==
    /\ pc[t] = "idle"
    /\ Owner[c] = t
    /\ c \notin pending_page_flips
    /\ pending_page_flips' = IF accepted THEN pending_page_flips \cup {c}
                             ELSE pending_page_flips
    /\ inflight' = IF accepted THEN inflight \cup {c} ELSE inflight
    /\ UNCHANGED <<worker_tid, pc, target, events>>

\* The caller's thread enters wait_for_flip.
CallWait(t, c) ==
    /\ pc[t] = "idle"
    /\ Owner[c] = t
    /\ target' = [target EXCEPT ![t] = c]
    /\ pc' = [pc EXCEPT ![t] = "enter"]
    /\ UNCHANGED <<pending_page_flips, worker_tid, inflight, events>>

\* Mutant: the worker's place is taken without looking.
ElectAnyone(t) ==
    /\ pc[t] \in {"enter", "awake"}
    /\ IF page_flip_is_done(target[t])
       THEN pc' = [pc EXCEPT ![t] = "idle"] /\ UNCHANGED worker_tid
       ELSE pc' = [pc EXCEPT ![t] = "select"] /\ worker_tid' = t
    /\ UNCHANGED <<pending_page_flips, target, inflight, events>>

\* The first critical section of wait_for_flip.
ElectWorker(t) ==
    /\ pc[t] \in {"enter", "awake"}
    /\ LET done == page_flip_is_done(target[t])
       IN  IF done
           THEN pc' = [pc EXCEPT ![t] = "idle"] /\ UNCHANGED worker_tid
           ELSE IF worker_tid # NoThread
           THEN pc' = [pc EXCEPT ![t] = "waiting"] /\ UNCHANGED worker_tid
           ELSE pc' = [pc EXCEPT ![t] = "select"] /\ worker_tid' = t
    /\ UNCHANGED <<pending_page_flips, target, inflight, events>>

SpuriousWakeup(t) ==
    /\ pc[t] = "waiting"
    /\ pc' = [pc EXCEPT ![t] = "awake"]
    /\ UNCHANGED <<pending_page_flips, worker_tid, target, inflight, events>>

\* Mutant: an event is taken for the completion of every flip.
HandlerClearsAll == pending_page_flips' = {}

\* drmHandleEvent reads every event queued on the descriptor and calls
\* page_flip_handler for each.
page_flip_handler == pending_page_flips' = pending_page_flips \ events

\* The end of the worker's critical section: give the loop up when done.
GiveUpIfDone(t) ==
    IF target[t] \notin pending_page_flips'
    THEN worker_tid' = NoThread /\ pc' = [pc EXCEPT ![t] = "leave"]
    ELSE UNCHANGED worker_tid /\ pc' = [pc EXCEPT ![t] = "notify"]

HandleEvents(t) ==
    /\ pc[t] = "select"
    /\ events # {}
    /\ page_flip_handler
    /\ events' = {}
    /\ GiveUpIfDone(t)
    /\ UNCHANGED <<target, inflight>>

\* select() interrupted by a signal (EINTR).
Interrupted(t) ==
    /\ pc[t] = "select"
    /\ UNCHANGED pending_page_flips
    /\ GiveUpIfDone(t)
    /\ UNCHANGED <<target, inflight, events>>

\* Any other error of select() throws, and worker_tid keeps its value.
SelectFails(t) ==
    /\ pc[t] = "select"
    /\ pc' = [pc EXCEPT ![t] = "threw"]
    /\ UNCHANGED <<pending_page_flips, worker_tid, target, inflight, events>>

\* Mutant: the waiting threads are not notified.
NotifyNobody(t) ==
    /\ pc[t] \in {"notify", "leave"}
    /\ pc' = [pc EXCEPT ![t] = IF @ = "leave" THEN "idle" ELSE "select"]
    /\ UNCHANGED <<pending_page_flips, worker_tid, target, inflight, events>>

\* pf_cv.notify_all(), outside the mutex.
NotifyAll(t) ==
    /\ pc[t] \in {"notify", "leave"}
    /\ pc' = [u \in Thread |->
                 CASE u = t -> IF pc[t] = "leave" THEN "idle" ELSE "select"
                   [] u # t /\ pc[u] = "waiting" -> "awake"
                   [] OTHER -> pc[u]]
    /\ UNCHANGED <<pending_page_flips, worker_tid, target, inflight, events>>

\* The kernel completes a flip at the next vertical refresh.
FlipCompletes(c) ==
    /\ c \in inflight
    /\ inflight' = inflight \ {c}
    /\ events' = events \cup {c}
    /\ UNCHANGED <<pending_page_flips, worker_tid, pc, target>>

WaitStep(t) == ElectWorker(t) \/ NotifyAll(t)

-----------------------------------------------------------------------------

\* The type of the page flipper's state.
PageFlipTypeOK ==
    /\ pending_page_flips \subseteq Crtc
    /\ worker_tid \in Thread \cup {NoThread}
    /\ pc \in [Thread -> Waiting \cup {"idle", "threw"}]
    /\ target \in [Thread -> Crtc]
    /\ inflight \subseteq Crtc
    /\ events \subseteq Crtc

\* Only the elected worker is ever in the event loop, so select() and
\* drmHandleEvent are never called by two threads at once: "Only the worker
\* thread reaches this point".
SingleWorker ==
    \A t \in Thread : pc[t] \in {"select", "notify"} => worker_tid = t

\* The map holds exactly the flips the kernel still owes an event for: the
\* pointer into the map that an event carries is valid when the event is
\* read, and no entry is left without an event to come.
PendingMatchesKernel ==
    /\ inflight \cap events = {}
    /\ pending_page_flips = inflight \cup events

\* wait_for_flip returns only when the kernel has done the flip and its event
\* has been read.
ReturnsOnlyWhenFlipped ==
    [][\A t \in Thread :
          pc[t] \in Waiting /\ pc'[t] = "idle" =>
              target[t] \notin inflight' \cup events']_flipVars

\* Every call of wait_for_flip returns, whoever is the worker, unless a thread
\* was lost to an error of select().
WaitReturns ==
    \A t \in Thread :
        pc[t] \in Waiting ~> pc[t] = "idle" \/ \E u \in Thread : pc[u] = "threw"

=============================================================================
