# A TLA+ model of the eMir display server

eMir is a display server in C++. Clients draw into buffers of their surfaces and
hand them over through a socket; the server composites the surfaces that are
visible and shows the result through the kernel's mode setting. What is hard in it
is that all of this happens in different threads: a pool of frontend threads that
serve the connections, a compositing thread per display buffer, a main thread that
starts and stops the server, the threads of every client with the library's own,
and the kernel, which answers page flips when it likes.

This directory holds TLA+ modules that model the core of it, TLC configurations
that check them on small instances, and TLAPS proofs. `PROJECT.json` gives, for
every definition, the lines of source it stands for, and lists the runs, the
mutants, the hazards and the theorems. Paths below are relative to the
repository.

    tlc -config swapper.cfg MCBufferSwapperMulti     # one run
    tlapm BufferSwapperMultiProofs.tla               # the proofs of one module

## Inventory

| Component | State | Operations | Interacts with |
|---|---|---|---|
| Buffer swapper (`src/server/compositor/buffer_swapper_multi.cpp`, `temporary_buffers.cpp`) | two deques of buffers, number in use by clients, a condition variable | `client_acquire/release`, `compositor_acquire/release`, `shutdown` | called by surfaces (frontend threads) and by the renderer (compositing thread); handles hold weak pointers |
| Compositor threads (`multi_threaded_compositor.cpp`, `default_compositing_strategy.cpp`, `rendering_operator.cpp`) | per functor: `running`, `compositing_scheduled`; threads | `start`, `stop`, `schedule_compositing`, the loop | change callback registered with the surface stack; started and stopped by `DisplayServer` |
| Surface stack and surfaces (`src/server/surfaces`) | surfaces by depth, the change callback and its mutex; a surface's hidden flag, transformation and client buffer | `create_surface`, `destroy_surface`, `for_each_if`, `advance_client_buffer`, `set_hidden`, `move_to` | every change ends in `emit_change_notification` |
| Server life cycle (`display_server.cpp`, `run_mir.cpp`) | the main loop's running flag | `run`, `stop`, the destructor's `shutdown` of all sessions | stops the compositor before it shuts the sessions down |
| KMS page flipper (`src/server/graphics/gbm/kms_page_flipper.cpp`) | pending flips, the worker's thread id | `schedule_flip`, `wait_for_flip` | one DRM event stream shared by all threads |
| GBM display buffer (`gbm_display_buffer.cpp`) | the buffer object flipped last, the outputs | `post_update` | page flipper, EGL, GBM |
| GBM outputs (`gbm_display.cpp`, `kms_output.cpp`, `kms_output_container.cpp`) | an output's cached connector, its crtc and the one it found | `configure`, `ensure_crtc`, `set_crtc`, `restore_saved_crtc` | the kernel's mode setting; gives the display buffer its crtcs |
| Session container and focus order (`session_container.cpp`, `registration_order_focus_sequence.cpp`) | the sessions in order of registration | insert, remove, `successor_of`, `predecessor_of`, `default_focus` | session manager, focus mechanism |
| Session manager, application sessions, focus mechanism (`src/server/shell`) | `focus_application`, lightdm tags; a session's surfaces | open, close, tag, focus, create and destroy surfaces | called by the session mediators' threads and the shell |
| Input focus (`src/server/input/android`) | the focused application and window handles | `set_input_focus_to` | the focus mechanism; keeps sessions alive |
| Session mediator and message processor (`session_mediator.cpp`, `protobuf_message_processor.cpp`, `resource_cache.cpp`) | the session of a connection, resources kept until the reply is sent | one per protocol message | calls the session manager and, through a session, the swapper |
| Socket sessions and communicator (`socket_session.cpp`, `connected_sessions.h`, `protobuf_socket_communicator.cpp`) | the table of connections, the pool of io threads | accept loop, read loop, the destructor's join | runs the message processor |
| Client library calls (`src/client/mir_*.cpp`) | pending calls, wait handles, the connection and its surfaces | calls with callbacks, waits, the io thread | the server's protocol; callbacks into the application |
| Client buffer depository (`client_buffer_depository.cpp`, `aging_buffer.cpp`) | the buffers wrapped so far and their ages | `deposit_package`, ageing, eviction | the buffers the swapper chooses |
| Surface placement, pointer controller, client and Android platforms, renderer, options and logs, vendored input stack | | | see "Not modelled" |

What is hard, and the properties that make each part correct:

* **Swapper.** The compositor must never wait, and the code takes the ends of
  deques without looking whether they are empty. Correct when a buffer has one
  owner, none is lost, the compositor always finds one, frames appear in order and
  the one on screen is not overwritten.
* **Compositor.** Requests are coalesced into one flag that renders race with.
  Correct when every change is rendered, nothing is rendered unasked, and `stop`
  returns with no notification still using the functors.
* **Surface in a running server.** A client that waits for a buffer has not yet
  told the compositor of the frame it posted. Correct when frames get on the
  screen and blocked clients get on, also at shutdown.
* **Page flipper.** Threads elect one of themselves to read events outside the
  mutex. Correct when there is one worker, the map agrees with the kernel, and a
  wait ends exactly when its flip is done.
* **Display buffer.** Any of EGL, GBM, `drmModeAddFB` and `drmModePageFlip` may
  fail, for one output and not another. Correct when nothing leaks, nothing stays
  pending and nothing on screen is drawn over.
* **Shell.** The focus is written with and without the mutex, and walks of the
  container interleave with creation and destruction of surfaces. Correct when the
  focus is on a registered session, the visible session is the one with the input,
  and no operation hangs.
* **Outputs.** Each output reads its connector once and the encoders every time,
  while setting one output may take the encoder or the crtc of another. Correct when
  no two outputs have one crtc and the console is put back, also when the display's
  constructor fails half way.
* **Frontend.** A swap blocks its io thread; handlers hold a bare pointer to a socket
  session that only the table of connections keeps alive; connections break between
  and within messages. Correct when every session is driven by a read or a
  handler, replies come once and in order, descriptors go with their reply, and the
  server can be stopped.
* **Client library.** Callbacks run with the mutex of the pending calls held; handles
  count results that nobody may have waited for; objects are deleted by callbacks.
  Correct when nothing deleted is used, a wait ends with its call and does end.
* **Buffer depository.** Ages are counted in buffers received, while what they tell is a
  number of frames posted. Correct when the two agree whatever the compositor does.

The hazards in `PROJECT.json` locate each of these at its line; where a property names the
hazard's own case as an exception, and so does not catch it, the note says so.

## Modules

| Module | Models |
|---|---|
| `FrameStream` | abstract: what a swapper promises, with no buffers in it |
| `BufferSwapperMulti` | the swapper with its handles, in terms of the code's deques and counter |
| `BufferSwapperMultiProofs` | its theorems |
| `MultiThreadedCompositor` | the functors, their threads, start, stop and the change notification; no next-state relation of its own |
| `SceneUpdates` | the compositor with any number of display buffers and of threads that change the scene |
| `SceneUpdatesProofs` | its theorems |
| `CompositedSurface` | one surface, its swapper, the compositor, the client's and the shell's threads, and shutdown: composes `BufferSwapperMulti` and `MultiThreadedCompositor` |
| `CompositedSurfaceProofs` | its theorems, on top of the swapper's |
| `KMSPageFlipper` | the page flipper and the kernel's side of it |
| `GBMDisplayBuffer` | `post_update` on top of the page flipper, with the scanout |
| `KMSOutput` | the outputs of a card: creating, setting and restoring them, with the kernel's side of `drmModeSetCrtc` |
| `GBMPlatformProofs` | theorems of the three: page flipper, display buffer and outputs |
| `SessionContainer` | the container and the three walks that choose a session |
| `SessionManager` | the shell: sessions, surfaces, focus and input focus under concurrent requests |
| `SessionManagerProofs` | theorems of both |
| `RequestReply` | abstract: what a connection promises its client |
| `Frontend` | io threads, socket sessions, message processor and mediators, the buffers a swap waits for, and the order in which the server goes down |
| `FrontendProofs` | its theorems, the refinement of `RequestReply` among them |
| `MirClientLibrary` | the threads of an application, the RPC channel's pending calls, the io thread with its callbacks, wait handles and the life of the objects |
| `MirClientLibraryProofs` | its theorems, the refinement of `RequestReply` among them |
| `ClientBufferDepository` | the depository on top of `BufferSwapperMulti`, one deposit per reply |
| `ClientBufferDepositoryProofs` | its theorems, on top of the swapper's |
| `MC...` | finite sets for TLC; `MCSequentialParts` puts the two parts that run under one thread or one lock, `KMSOutput` and `SessionContainer`, side by side |

`RequestReply` is implemented twice: by `Frontend` for each connection
(`RepliesInOrder`) and by `MirClientLibrary` for the calls made (`CallsCompleteInOrder`).
In `Frontend` the shell is the set of sessions it holds and a swapper the number of
buffers it can give a client; `SessionManager` and `BufferSwapperMulti` have the rest.

State and actions keep the code's names. A critical section is one action; what
the code does between two critical sections is another. Three conventions:

* A condition variable's wait set is the set of threads in state `"waiting"`;
  `notify_one` moves one of them, `notify_all` all, and a wake-up for no reason is
  always possible.
* Reading `front()` or `back()` of an empty `std::deque` is undefined behaviour: the
  swapper's `status` becomes `"undefined"`, and no property assumes anything from
  then on. The properties say when that can happen.
* The unlocked write of `focus_application` is a data race on a `weak_ptr`. An
  assignment is two steps; if two overlap, each leaves its own value or `Torn`,
  and reading a torn value may give any session that exists or none. Worse
  consequences of the race (a corrupted heap) are not modelled.

`posted`, `shown` and `frame` (swapper), `version`, `seen`, `requests` and `renders`
(scene), `behind` (display), `took` (outputs), `late` (frontend), `threw` and
`overlapped` (client), `missed` (shell) and `failed` (depository) are history variables: they record
and never guard, apart from the bounds. Definitions whose comment begins with "Mutant" are wrong
on purpose; `PROJECT.json` says which definition each replaces and which property
then fails.

## Runs

| Run | Instance | Shows |
|---|---|---|
| `swapper` | 3 buffers, 3 client threads, 4 frames | `ExclusiveOwnership`, `BuffersAccountedFor`, `CompositorFindsABuffer`, `LastShownIsKept`; `UndefinedOnlyMidFrame`: an empty deque is read in one situation only; `FramesInOrder`: it implements `FrameStream` |
| `scene_updates` | 2 display buffers, 2 threads, 2 changes | `ChangesAreRendered`, `RendersOnDemand`, `NoNotificationAfterStop`, `StopReturns` |
| `surface_double` | 2 buffers, 3 frames, hide, destroy, stop, shutdown | `EveryFrameIsShown`, `BlockedClientProceeds`, `ShutdownFreesClient`: the refill of `shutdown`, and not its `notify_all` alone, gives a waiting client its buffer; `RegionHeldOnlyInFrame`, `UndefinedOnlyWhilePosting` |
| `surface_triple_last_frame` | the same with 3 buffers | a violation of `EveryFrameIsShown` (finding 1) |
| `display` | 2 outputs, 3 buffer objects, and another thread with a crtc of its own | `SingleWorker`, `PendingMatchesKernel`, `ReturnsOnlyWhenFlipped`, `WaitReturns`; `FlippedOutputIsLocked`, `NoBufferObjectLeaks`, `NoFlipLeftBehind` |
| `display_partial_flip` | the same | a violation of `DisplayedIsLocked` (finding 2) |
| `sequential_parts` | every card of 3 connectors, 2 encoders, 2 crtcs; 5 sessions in any order | `OutputsHaveOwnCrtcs`, `ConsoleIsRestored`; `FocusCyclesInOrder`, `ClosingTransfersFocus` |
| `shell` | 2 clients and the shell, 1 lightdm id, 1 surface each | `FocusIsRegistered`, `InputGoesToVisibleSession`, `OperationsReturn` |
| `shell_stale_session` | the same | a violation of `ClosedSessionIsGone` (finding 3) |
| `client_calls` | 2 threads, 1 surface, 5 calls, 2 of them pending at a time | `NothingDangles`, `WaitMeansCompleted`, `WaitReturns`; `CallsCompleteInOrder`: it implements `RequestReply` |
| `frontend` | 2 clients, 2 io threads, 2 buffers | `SessionsAreDriven`, `ResourcesFollowReplies`, `RequestsAnswered`, `ServerStops`; `RepliesInOrder`: every connection implements `RequestReply` |
| `client_frames` | 3 buffers, 8 frames | `AgeTellsFrame` |

`swapper` also checks its type invariant, which has the range of the counter in it. The
other modules state theirs, which are proved; their runs are kept to what could go wrong.

### Bounds and why they are enough

* The swapper has two or three buffers in the code, never another number. Four
  frames let buffers go round the deques more than once. With three buffers it takes
  three clients to run into the limit `in_use_by_client = size - 1`. The theorems drop
  the bounds on frames and clients and cover both sizes.
* Two display buffers and two emitters give every pair of threads that share a
  mutex or a flag; the second change is the one that arrives during the render of
  the first.
* Both platforms create one display buffer, so `CompositedSurface` has one
  compositing thread. Its three frames are one more than its buffers.
* In `display`, three crtcs for two threads: a worker can have a flip of its own pending, of the
  other thread, or both, and one thread can wait for two crtcs in turn.
* Three buffer objects are the one on screen, the one being flipped and a free one.
* Two clients and the shell are three threads that may all walk the container or
  write the focus at once; one surface per session is enough for the default
  surface to vanish between the time it is chosen and the time it is used.
* Two encoders and crtcs for three connectors is the smallest card on which outputs
  compete for both; all wirings, all sets of plugged connectors and all states the
  firmware may leave are initial states, except two connectors on one encoder, which
  the kernel does not allow. The driver's choice of an encoder in `drmModeSetCrtc` is
  external and nondeterministic, and setting a connector back to what it showed
  before is taken to be accepted. Sessions come and go only beside a card with nothing
  wired: the two parts share no state, so their product would show nothing more.
* Five calls (`MaxCall`) are connect, create, one on the surface or the connection,
  release and disconnect, or two that overlap in place of the release, from two
  threads; two pending (`MaxPending`) let one call overtake the wait for another. A
  thread waits at once (the `_sync` functions) or by `mir_wait_for` at any later time,
  after other calls (`unwaited` holds what it has not waited for). The application is
  taken to follow the API: it uses objects, and the wait handles that are part of
  them, between the callback that hands them over and the call that releases them, a
  surface from one thread at a time, and waits at most once for a call.
* Two io threads and two clients let the clients use up the threads. `MaxUnderWay`
  is two for one client, so that messages queue behind one that is processed, and
  that client's connection may break anywhere. Two buffers let a client run out of
  them while it is not shown.
* Eight frames (`MaxFrame` of `client_frames`) let three buffers go round more than
  twice. On this instance no buffer is ever evicted: the swapper gives a client the
  buffers in turn, each before it has reached the age of eviction. That is what
  keeps `AgeTellsFrame`, and by no margin, as the mutant that evicts one frame earlier
  shows. A client asks for its next buffer only once the last one is deposited, as
  the application learns of it by the same callback.
* Deadlock checking is off where the system may really stop: at a bound on frames,
  changes or calls, after shutdown, when the display has gone, when a client has
  nothing more to ask, or with all threads of the flipper lost to errors of `select`.
  It is on for the shell.

### Fairness

* Threads of the server keep running: weak fairness of the compositing thread, of
  a client's thread inside `client_acquire`, and of the threads in `wait_for_flip`.
* A thread that contends for a mutex gets it in the end: strong fairness of the
  notification, of the main thread's start and stop, and of operations of the shell
  under way. `std::mutex` does not promise it; without it nothing can be said of
  any lock.
* In `client_calls` a call begun goes on, and so does the io thread; a server that is
  there answers, but it may go away at any time.
* In `frontend` a connection with a message to be read is picked up in the end if an
  io thread becomes free again and again (strong fairness of `Receive`: the
  `io_service` serves what is ready in order); a thread inside a handler goes on, the
  compositor renders the surface that is shown, and the main thread does not stop
  half way.
* The kernel completes every flip it accepted, and `select` is not interrupted
  for ever.
* Nothing makes a client draw, a user act, the shell hide a surface or the server
  stop, and nothing makes a condition variable wake up for no reason.

## Proofs

Eight modules hold proofs. Each has an inductive invariant (`IInv`; `KMSInv` for the
outputs and `FramesInv` for the depository), which TLC checks on
the instance of the component's run before it is proved, one lemma per operation
that the operation preserves it, and the theorems that follow. They are about
every value of the constants, under the assumptions the modules name: two or three
buffers, as the swapper factory makes them (`BufferAssumption`, `SurfaceAssumption`),
one client of a surface, whose depository keeps at least as many buffers as there are
(`OneClientAssumption`, `MaxBuffersAssumption`, for the depository only),
finitely many client threads and crtcs (`ClientAssumption`, `OwnerAssumption`), bounds
and counts that are natural numbers, and constants that stand for different things
being different.

**`BufferSwapperMultiProofs`**: any finite set of client threads, any number of frames.

| Theorem | Statement |
|---|---|
| `TypeCorrect` | `Spec => []TypeOK` |
| `OwnershipIsExclusive` | `Spec => []ExclusiveOwnership` |
| `NoBufferIsLost` | `Spec => []BuffersAccountedFor` |
| `CompositorNeverWaits` | `Spec => []CompositorFindsABuffer` |
| `UndefinedOnlyOnDestroy` | `Spec => []UndefinedOnlyMidFrame` |
| `ScreenIsNotOverwritten` | `Spec => []LastShownIsKept` |
| `RefinesFrameStream` | `Spec => FramesInOrder`, the refinement of `FrameStream` |

`IInv` is the conjunction of `TypeOK`, `ExclusiveOwnership`, `BuffersAccountedFor`,
`UndefinedOnlyMidFrame` and `LastShownIsKept`. None of its parts is inductive alone.
That the compositor finds a buffer follows from counting: clients have at most
`N - 1`, so one of the `N` is in a deque or with the compositor. The count is only
right because a release puts back a buffer that was nowhere else, which is
ownership. And that the frames come in order takes the contents: the buffer the
compositor returns goes to the back of `client_queue` and is taken from the back
again, while clients take from the front, so the frame on screen is the last one
they overwrite. Lemmas `PopFront`, `PopBack` and `PushBack` say what the deque
operations do to a sequence without repetitions.

**`SceneUpdatesProofs`**: any display buffers, any emitting threads, any number of changes.

| Theorem | Statement |
|---|---|
| `TypeCorrect` | `Spec => []TypeOK` |
| `NotificationsEndBeforeStop` | `Spec => []NoNotificationAfterStop` |
| `NothingRendersUnasked` | `Spec => []RendersOnDemand` |
| `NoUpdateIsLost` | `Spec => [](NoWakeupLost /\ NoChangeForgotten)` |

`LifeCycle` ties the callback and the threads to what the main thread has done, and
`MutexHeld` says who has `notify_change_mutex`: that no notification outlives
`stop()` rests on `stop()` taking that mutex. `NoUpdateIsLost` is the safety half of
`ChangesAreRendered`, the half that is about interleavings: a change that a running
functor has not rendered is with a thread about to notify, with the notification,
in the flag, or with a functor about to read the scene; and no functor sleeps with
its flag set. What is left to TLC is that each of these goes on.

**`CompositedSurfaceProofs`**: any number of frames.

| Theorem | Statement |
|---|---|
| `TypeCorrect` | `Spec => []TypeOK` |
| `SwapperIsUsedAsSpecified` | `Spec => Swapper!Spec`: the running server implements the swapper's specification |
| `SurfaceBuffersAreSafe` | ownership and accounting, in the running server |
| `RegionsEndWithFrames` | `Spec => []RegionHeldOnlyInFrame` |
| `UndefinedOnlyInMidFrame` | `Spec => []UndefinedOnlyWhilePosting` |

The module takes the swapper's invariant and its lemmas from an `INSTANCE` of
`BufferSwapperMultiProofs` with one client. To that it adds when the
compositing thread has a buffer. That only a destroyed surface reads an empty
deque, and not `shutdown` of the server, needs both: the counting of the swapper, and
that the compositor was joined with no buffer in its hands.

**`GBMPlatformProofs`**, page flipper and display buffer: any finite set of crtcs, any threads and buffer objects.

| Theorem | Statement |
|---|---|
| `TypeCorrect` | `Spec => []TypeOK` |
| `WorkerIsSingle` | `Spec => []SingleWorker` |
| `EntriesMatchFlips` | `Spec => []PendingMatchesKernel` |
| `DisplayedStaysLocked` | `Spec => []FlippedOutputIsLocked` |
| `BufferObjectsReturn` | `Spec => []NoBufferObjectLeaks` |
| `FlipsEndWithFrame` | `Spec => []NoFlipLeftBehind` |
| `WaitsUntilFlipped` | `Spec => ReturnsOnlyWhenFlipped`, an action property |

The part of the page flipper, `FlipInv`, is inductive on its own, with `WaitsForOwn`:
threads wait for crtcs of their own, so nobody schedules a flip on a crtc between
the time another thread sees it done and returns. On top of it `LocksFollowSteps`
says what is locked at each step of `post_update`, `FlipsFollowSteps` what is
pending, and `OutputsKeepUp` what each output shows or is about to. No one of them
gives that a frame ends with no flip pending: it takes that the wait loop leaves out
no output, which is `FlipsFollowSteps` over all steps.

**`GBMPlatformProofs`**, outputs: any card, any wiring, anything the firmware left.

| Theorem | Statement |
|---|---|
| `KMSTypeCorrect` | `KMSSpec => []KMSTypeOK` |
| `CrtcsAreNotShared` | `KMSSpec => []OutputsHaveOwnCrtcs` |
| `ConsoleReturns` | `KMSSpec => []ConsoleIsRestored` |

`OutputsHaveOwnCrtcs` follows from what the kernel shows: an output that was set
shows its crtc and nothing else does (`SetOutputsShow`), so a crtc that nobody uses
is not its, and neither is the one another connector shows through an encoder of
its own (`EncodersAreExclusive`, and `CacheIsFresh` for the cached connector). For the
console the invariant is stronger than the property: while no encoder is taken and
nothing was cloned, a connector that was lit shows the same crtc through the whole
life of the display (`SavedStays`), because `ensure_crtc` prefers it; restoring only
changes what the crtc shows. That `Min` of a set of crtcs is one of them takes the
well-foundedness of the natural numbers (lemma `MinIsMember`).

**`SessionManagerProofs`**: any number of clients, lightdm ids and surfaces.

| Theorem | Statement |
|---|---|
| `SessionsAreDistinct` | `ContainerSpec => []ContainerInv`: no session is twice in the container |
| `FocusGoesRound` | `ContainerSpec => []FocusCyclesInOrder` |
| `ClosingHandsFocusOver` | `ContainerSpec => ClosingTransfersFocus`, an action property |
| `TypeCorrect` | `Spec => []TypeOK` |
| `OneAtATime` | one thread at a time in the operations that hold the mutex, and one in the walk |
| `FocusStaysRegistered` | `Spec => []FocusIsRegistered` |
| `VisibleSessionHasInput` | `Spec => []InputGoesToVisibleSession` |

What `successor_of` and `predecessor_of` return is what their lambda has captured after
the last session, a recursive function of how many it was called on. `SuccessorIs` and
`PredecessorIs` give it in closed form. The induction is one by the least
counterexample: `SmallestExists` takes it from the well-foundedness of the natural
numbers, and `WalksAgree` says that two walks which begin and go on alike are the same.

For the shell, `StepOf` says what a step of one thread leaves of the others' states, so
that the lemma of an action is about its own thread (`ControlStays`, `FocusStays`,
`QuietStays`). `ControlInv` is who is where and holds what. `FocusIsKnown` is the
argument for `FocusIsRegistered`: whoever chooses a session other than its own holds
the mutex, so a session being removed is the target of nobody else
(`ClosedIsNoTarget`), and what still names it, its tags and `focus_application`, is
replaced before `close_session` gives the mutex back, or its walk fails. The proof
does not need that no assignment is under way, so the property does not say it.
`WalkHidesOthers` is the argument for `InputGoesToVisibleSession`: the guard freezes the
container while sessions go on creating and destroying surfaces, so what the walk has
passed stays hidden except a session that is creating one, and that session cannot
finish without a walk of its own.

**`FrontendProofs`**: any clients and io threads, two or more buffers, any number of requests.

| Theorem | Statement |
|---|---|
| `TypeCorrect` | `Spec => []TypeOK` |
| `HandlersHaveSessions` | `Spec => []SessionsAreDriven` |
| `ResourcesAreFreed` | `Spec => []ResourcesFollowReplies` |
| `FrontendReplies` | `Spec => RepliesInOrder`, the refinement of `RequestReply` by every connection |

The invariant adds to the two properties which threads are busy and that a session in
the table has a connection. In the refinement the requests of a client are the one
that is handled followed by those not yet read; each step of an io thread, for
whichever client, is a send, a reply, a loss or nothing for each of them. The case
that matters is a request being read: it must not change places with one being
handled, and `SessionsAreDriven` says that there is none.

**`MirClientLibraryProofs`**: any threads, surfaces and number of calls.

| Theorem | Statement |
|---|---|
| `TypeCorrect` | `Spec => []TypeOK` |
| `NothingDanglesEver` | `Spec => []NothingDangles` |
| `CallsAreInOrder` | `Spec => CallsCompleteInOrder`, the refinement of `RequestReply` |
| `WaitsMeanCompleted` | `Spec => WaitMeansCompleted`, an action property |

Nothing in the library looks whether an object still exists, so that none is used
after it was deleted is an argument about order. `IdsAreUnique` places every pending
call with one thread, on its way, or with the io thread; `CallsFollowObjects`,
`ThreadsFollowObjects` and `ObjectsAwaitCallbacks` say what may be under way in each
state of an object; `ReleasesComeLast` says that the release of a surface, or the
disconnect, is behind everything else about it in the queue, so that when its
callback deletes the object nothing about it is left (`DeletedSurfacesRest`,
`DisconnectEnds`). A wait that comes later than its call needs `UnwaitedInv` besides: what
a thread has not waited for is a call it made, with the id it had.

`WaitMeansCompleted` needs a second invariant, `HandleInv`, proved on top of `IInv`. It
counts: the results a handle has, its calls not completed, and the one about to be
made are together at most one, or for `configure` at most what it expects. So when
the result a wait wants is there, and the handle was not used again, the call cannot
still be among the uncompleted.

**`ClientBufferDepositoryProofs`**: two or three buffers, a depository for at least as
many, any number of frames.

| Theorem | Statement |
|---|---|
| `FramesTypeCorrect` | `FramesSpec => []FramesTypeOK` |
| `ClientUsesSwapper` | `FramesSpec => Spec`: the swapper's theorems hold in the composition |
| `AgesTellFrames` | `FramesSpec => []AgeTellsFrame` |

The depository counts deposits and the client wants frames. That the two agree needs
that no buffer comes back after it was evicted, and so a bound on how long the swapper
keeps one away, which the swapper's own invariant does not have. `BuffersGoRound`
gives it: with one client, `client_queue`, the compositor's buffer and
`compositor_queue`, read one after the other, carry consecutive frames up to the last
one posted, because every operation of the compositor moves the borders between the
three and never the order. With `BuffersAreSomewhere` (a pigeonhole argument at the
start, and then no buffer is dropped) the buffers that the client does not have carry
the last `N - 1` frames (`OthersAreRecent`), so none of them is old enough to be evicted
(`NoneIsEvicted`). `max_age` leaves no margin in this: the mutant that evicts one frame
earlier breaks it.

Only model-checked are the liveness properties (`ChangesAreRendered`, `StopReturns`,
`EveryFrameIsShown`, `BlockedClientProceeds`, `ShutdownFreesClient`, both `WaitReturns`, `OperationsReturn`,
`RequestsAnswered`, `ServerStops`), since fairness is out of the prover's reach.

## Findings

1. `surface_triple_last_frame`. A render shows one frame of a surface, but
   notifications that arrive before it are coalesced. With three buffers a client
   can post two frames before one render; the second stays unshown until something
   else changes in the scene. With two buffers it cannot happen (`surface_double`).
2. `display_partial_flip`. `post_update` goes on if any output accepted its flip and
   releases the previous buffer object, which an output that refused still displays.
   `FlippedOutputIsLocked` shows that this is the only way.
3. `shell_stale_session`. Closing the last session calls `set_focus_to` with null,
   which tells the input manager nothing: input still goes to the closed session. The
   handle kept by the input dispatcher holds a shared pointer to it, so it is not
   destroyed either and its surfaces stay on the stack.

Smaller observations have no run. `compositor_acquire` gives the
oldest frame not shown, where `include/server/mir/compositor/buffer_swapper.h`
speaks of the last posted one; `FrameStream` states what the code does.
`predecessor_of` throws for an unknown session only if the container is empty, and
otherwise returns the last session; `successor_of` always throws. Other
behaviours, of which no document says that they should be different, are the
exceptions that properties name:

* `WaitReturns` (client, `Hopeless`): a wait does not end when the server has gone, when
  a callback made a call (the io thread then locks the pending calls twice), when a
  callback threw before it notified, or when the handle's one result was taken by the
  wait for another call.
* `RequestsAnswered` (`Excused`): clients that are not shown and have no buffer left keep
  their io threads, and when they have them all nobody is served.
* `ServerStops` (`Stranded`): `shutdown` frees one buffer, once. A client that swaps
  again after it blocks its thread for good, and the join with it. A connection that
  breaks within a message terminates the server, which is accepted as an end too.
* `InputGoesToVisibleSession`: a session that is creating its surface shows it before the
  focus has come to it (`Creating`). And when the default surface is destroyed before
  the input manager asks for its size, the exception ends the walk: the session it had
  just shown, and those registered after it that it did not get to hide, stay visible
  with the input focus elsewhere until the next walk (`missed`). The property says that
  no other session is ever left so.
* `FocusIsRegistered`: overlapping writes of `focus_application` may leave it torn, and a
  `close_session` whose walk threw leaves the tags of its session for others to select.
* `WaitReturns` (page flipper): after an error of `select` the worker's id stays set and
  nobody can take over.
* `SessionsAreDriven`: a connection that breaks between two messages stays in the table
  with its session; `ResourcesFollowReplies`: a reply that cannot be sent leaves its
  descriptors in the cache.
* `OutputsHaveOwnCrtcs` and `ConsoleIsRestored`: the cached connector is stale when the
  driver has given its encoder to another output; connectors the firmware had cloned
  are not restored together, and a connector that was dark stays lit.

## Not modelled

Rendering with OpenGL ES, option parsing and logging have no protocol to check. The
vendored code under `3rd_party`, by far the most of the repository's lines, is not the
server's own. The Android graphics platform is mostly calls into hardware
abstraction layers; its only waiting is one thread for one flag that the vsync
callback sets. Surface placement is the minimum of two sizes. The pointer controller
reads and writes its position in separate critical sections, but one thread, the
input reader's, does both. The client's platform adapters forward calls and keep
nothing.

In what is modelled, left out are: the stacking order and geometry of surfaces (a
change is a change); the values of `configure_surface` and of the client's
`attrib_cache`, which the constructor of `MirSurface` fills after the request was
sent; the race on a session's map of surfaces when the focus mechanism reads the
default surface without its mutex; whatever the server does after an exception has
left a compositing thread; a second connect on one connection, which would replace
the mediator's session and never close the first; the length of messages, whose
header has two bytes; two overlapping `async_write`s of a client, which a local socket
takes whole for messages this short; the file descriptors that come with a buffer
the client has already wrapped; signals and the input manager's thread.

## Plan

The parts of the system that keep state of their own are modelled, and every safety and
action property the runs check is proved. What is left is to take apart the longest
leaves of the proofs, and to prove the safety halves of the liveness properties, as
`NoUpdateIsLost` is of `ChangesAreRendered`: that whoever waits has somebody who will
wake it.
