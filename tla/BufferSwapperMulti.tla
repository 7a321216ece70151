-------------------------- MODULE BufferSwapperMulti --------------------------
(***************************************************************************)
(* The buffers of one surface: mc::BufferSwapperMulti, reached through the *)
(* TemporaryClientBuffer / TemporaryCompositorBuffer handles of the        *)
(* surface's buffer bundle.  Every operation runs under swapper_mutex, so  *)
(* each is one action; only client_acquire can wait, on                    *)
(* client_available_cv, and a thread that waits is a member of the wait    *)
(* set {c : client[c] = "waiting"}.                                        *)
(*                                                                         *)
(* posted, shown and frame are history variables: they number the frames   *)
(* the clients post and record which one each buffer carries and which one *)
(* the compositor was given last.                                          *)
(***************************************************************************)
EXTENDS Integers, Sequences, FiniteSets

CONSTANTS Buffer,     \* ids of the buffers of the swapper
          Client,     \* threads that call client_acquire and client_release
          NoBuffer,   \* the null handle
          MaxFrame    \* bound: frames posted in a behaviour

ASSUME BufferAssumption ==
    /\ IsFiniteSet(Buffer)
    /\ Cardinality(Buffer) \in {2, 3}
    /\ NoBuffer \notin Buffer

ASSUME ClientAssumption == IsFiniteSet(Client)

ASSUME MaxFrameAssumption == MaxFrame \in Nat

VARIABLES client_queue, compositor_queue, in_use_by_client,
          client,             \* what each client thread is doing
          client_buffer,      \* the buffer each client thread holds
          compositor_buffer,  \* the buffer the compositing thread holds
          status,             \* who may still use the swapper
          frame, posted, shown

vars == <<client_queue, compositor_queue, in_use_by_client, client,
          client_buffer, compositor_buffer, status, frame, posted, shown>>

N == Cardinality(Buffer)

(***************************************************************************)
(* status: "live", the surface is on the stack and the compositor runs;    *)
(* "stopped", the compositor's threads were joined; "destroyed", the       *)
(* surface is gone and with it the swapper; "undefined", an element was    *)
(* taken from an empty deque, after which C++ promises nothing.            *)
(***************************************************************************)
Usable == status \in {"live", "stopped"}

initialize_queues ==
    /\ client_queue \in {q \in [1..N -> Buffer] :
                            \A i, j \in 1..N : q[i] = q[j] => i = j}
    /\ compositor_queue = << >>
    /\ in_use_by_client = 0

Init ==
    /\ initialize_queues
    /\ client = [c \in Client |-> "idle"]
    /\ client_buffer = [c \in Client |-> NoBuffer]
    /\ compositor_buffer = NoBuffer
    /\ status = "live"
    /\ frame = [b \in Buffer |-> 0]
    /\ posted = 0
    /\ shown = 0

-----------------------------------------------------------------------------

\* Mutant: a client may take all the buffers.
MustWaitWithoutLimit == client_queue = << >>

\* The condition of the while loop in client_acquire.
MustWait == client_queue = << >> \/ in_use_by_client = N - 1

\* Mutant: the count is not incremented.
AcquireUncounted(c) ==
    /\ Usable
    /\ client[c] \in {"idle", "awake"}
    /\ ~MustWait
    /\ client' = [client EXCEPT ![c] = "holding"]
    /\ client_buffer' = [client_buffer EXCEPT ![c] = Head(client_queue)]
    /\ client_queue' = Tail(client_queue)
    /\ UNCHANGED <<in_use_by_client, compositor_queue, compositor_buffer,
                   status, frame, posted, shown>>

\* One evaluation of the loop condition, on entry or after a wake-up: the
\* thread either takes the front of client_queue or joins the wait set.
client_acquire(c) ==
    /\ Usable
    /\ client[c] \in {"idle", "awake"}
    /\ IF MustWait
       THEN /\ client' = [client EXCEPT ![c] = "waiting"]
            /\ UNCHANGED <<client_queue, in_use_by_client, client_buffer>>
       ELSE /\ client' = [client EXCEPT ![c] = "holding"]
            /\ client_buffer' = [client_buffer EXCEPT ![c] = Head(client_queue)]
            /\ client_queue' = Tail(client_queue)
            /\ in_use_by_client' = in_use_by_client + 1
    /\ UNCHANGED <<compositor_queue, compositor_buffer, status, frame,
                   posted, shown>>

\* What every form of client_release does besides queueing the buffer.
PostFrame(c) ==
    /\ Usable
    /\ client[c] = "holding"
    /\ posted < MaxFrame
    /\ client' = [client EXCEPT ![c] = "idle"]
    /\ client_buffer' = [client_buffer EXCEPT ![c] = NoBuffer]
    /\ posted' = posted + 1
    /\ frame' = [frame EXCEPT ![client_buffer[c]] = posted + 1]
    /\ UNCHANGED <<client_queue, compositor_buffer, status, shown>>

\* Mutant: the count is not decremented.
ReleaseUncounted(c) ==
    /\ PostFrame(c)
    /\ compositor_queue' = Append(compositor_queue, client_buffer[c])
    /\ UNCHANGED in_use_by_client

\* Mutant: the newest frame overtakes the ones that wait.
ReleaseToFront(c) ==
    /\ PostFrame(c)
    /\ compositor_queue' = <<client_buffer[c]>> \o compositor_queue
    /\ in_use_by_client' = in_use_by_client - 1

\* Posting a frame wakes nobody: the comment in client_release says why.
client_release(c) ==
    /\ PostFrame(c)
    /\ compositor_queue' = Append(compositor_queue, client_buffer[c])
    /\ in_use_by_client' = in_use_by_client - 1

\* std::condition_variable allows a wait to return for no reason.
SpuriousWakeup(c) ==
    /\ client[c] = "waiting"
    /\ client' = [client EXCEPT ![c] = "awake"]
    /\ UNCHANGED <<client_queue, compositor_queue, in_use_by_client,
                   client_buffer, compositor_buffer, status, frame, posted,
                   shown>>

-----------------------------------------------------------------------------

\* Mutant: the wrong end of client_queue.
FrontOfClientQueue ==
    /\ compositor_buffer' = Head(client_queue)
    /\ client_queue' = Tail(client_queue)
    /\ UNCHANGED compositor_queue

\* The two ends of client_queue and compositor_queue that compositor_acquire
\* takes from.
FromClientQueue ==
    /\ compositor_buffer' = client_queue[Len(client_queue)]
    /\ client_queue' = SubSeq(client_queue, 1, Len(client_queue) - 1)
    /\ UNCHANGED compositor_queue

\* Mutant: no pop_front.
PeekCompositorQueue ==
    /\ compositor_buffer' = Head(compositor_queue)
    /\ UNCHANGED <<client_queue, compositor_queue>>

FromCompositorQueue ==
    /\ compositor_buffer' = Head(compositor_queue)
    /\ compositor_queue' = Tail(compositor_queue)
    /\ UNCHANGED client_queue

\* The compositor never waits: with both deques empty it reads back() of an
\* empty deque.
compositor_acquire ==
    /\ status = "live"
    /\ compositor_buffer = NoBuffer
    /\ IF compositor_queue # << >>
       THEN FromCompositorQueue /\ UNCHANGED status
       ELSE IF client_queue # << >>
       THEN FromClientQueue /\ UNCHANGED status
       ELSE /\ status' = "undefined"
            /\ UNCHANGED <<client_queue, compositor_queue, compositor_buffer>>
    /\ shown' = IF compositor_buffer' = NoBuffer THEN shown
                ELSE frame[compositor_buffer']
    /\ UNCHANGED <<in_use_by_client, client, client_buffer, frame, posted>>

\* notify_one: some waiting thread, if there is one, leaves the wait set.
notify_one ==
    \/ \E c \in Client :
          /\ client[c] = "waiting"
          /\ client' = [client EXCEPT ![c] = "awake"]
    \/ /\ \A c \in Client : client[c] # "waiting"
       /\ UNCHANGED client

\* Mutant: nobody is notified.
ReleaseUnnotified ==
    /\ compositor_buffer # NoBuffer
    /\ status # "undefined"
    /\ compositor_buffer' = NoBuffer
    /\ client_queue' = IF Usable THEN Append(client_queue, compositor_buffer)
                       ELSE client_queue
    /\ UNCHANGED <<client, compositor_queue, in_use_by_client, client_buffer,
                   status, frame, posted, shown>>

\* The handle only keeps a weak pointer: once the swapper is destroyed the
\* buffer is dropped.
compositor_release ==
    /\ compositor_buffer # NoBuffer
    /\ compositor_buffer' = NoBuffer
    /\ IF Usable
       THEN /\ client_queue' = Append(client_queue, compositor_buffer)
            /\ notify_one
       ELSE UNCHANGED <<client_queue, client>>
    /\ status # "undefined"
    /\ UNCHANGED <<compositor_queue, in_use_by_client, client_buffer, status,
                   frame, posted, shown>>

-----------------------------------------------------------------------------

\* MultiThreadedCompositor::stop has joined the compositing thread, so no
\* handle of its last frame is left.
CompositorStop ==
    /\ status = "live"
    /\ compositor_buffer = NoBuffer
    /\ status' = "stopped"
    /\ UNCHANGED <<client_queue, compositor_queue, in_use_by_client, client,
                   client_buffer, compositor_buffer, frame, posted, shown>>

\* Mutant: shutdown only notifies.
RefillNothing(then) ==
    /\ status' = then
    /\ UNCHANGED <<client_queue, compositor_queue>>

\* shutdown gives client_queue a buffer, if only the compositor's deque has
\* one; status becomes `then` when that is defined.
RefillClientQueue(then) ==
    IF client_queue # << >>
    THEN /\ status' = then
         /\ UNCHANGED <<client_queue, compositor_queue>>
    ELSE IF compositor_queue # << >>
    THEN /\ client_queue' = Append(client_queue, Head(compositor_queue))
         /\ compositor_queue' = Tail(compositor_queue)
         /\ status' = then
    ELSE /\ status' = "undefined"
         /\ UNCHANGED <<client_queue, compositor_queue>>

\* BufferSwapperMulti::shutdown, with its notify_all.
shutdown(then) ==
    /\ RefillClientQueue(then)
    /\ client' = [c \in Client |->
                     IF client[c] = "waiting" THEN "awake" ELSE client[c]]
    /\ UNCHANGED <<in_use_by_client, client_buffer, compositor_buffer, frame,
                   posted, shown>>

\* ~DisplayServer shuts every session's surfaces down once run() has stopped
\* the compositor.
ServerShutdown ==
    /\ status = "stopped"
    /\ shutdown("stopped")

\* ~Surface calls shutdown and then drops the swapper.  A client thread inside
\* client_acquire keeps the surface alive, so there is none; the compositing
\* thread may still be posting the frame that shows this surface.
DestroySurface ==
    /\ Usable
    /\ \A c \in Client : client[c] \in {"idle", "holding"}
    /\ shutdown("destroyed")

Next ==
    \/ \E c \in Client : client_acquire(c) \/ client_release(c)
                         \/ SpuriousWakeup(c)
    \/ compositor_acquire
    \/ compositor_release
    \/ CompositorStop
    \/ ServerShutdown
    \/ DestroySurface

Spec == Init /\ [][Next]_vars

-----------------------------------------------------------------------------

\* The type of the state: in particular in_use_by_client stays in its range
\* and client_buffer is a buffer or null.
TypeOK ==
    /\ client_queue \in Seq(Buffer)
    /\ compositor_queue \in Seq(Buffer)
    /\ in_use_by_client \in 0..N
    /\ client \in [Client -> {"idle", "waiting", "awake", "holding"}]
    /\ client_buffer \in [Client -> Buffer \cup {NoBuffer}]
    /\ compositor_buffer \in Buffer \cup {NoBuffer}
    /\ status \in {"live", "stopped", "destroyed", "undefined"}
    /\ frame \in [Buffer -> Nat]
    /\ posted \in Nat
    /\ shown \in Nat

Held == IF compositor_buffer = NoBuffer THEN 0 ELSE 1

Items(q) == {q[i] : i \in 1..Len(q)}

NoRepeat(q) == \A i, j \in 1..Len(q) : q[i] = q[j] => i = j

Holders == {c \in Client : client[c] = "holding"}

\* The client and the compositor never own the same buffer, no two clients do,
\* and a buffer somebody owns waits in neither deque: what the stress test
\* distinct_and_valid_*_buffers_in_client_and_compositor samples.
ExclusiveOwnership ==
    /\ NoRepeat(client_queue)
    /\ NoRepeat(compositor_queue)
    /\ Items(client_queue) \cap Items(compositor_queue) = {}
    /\ compositor_buffer \notin Items(client_queue) \cup Items(compositor_queue)
    /\ \A c \in Holders :
          /\ client_buffer[c] \in Buffer
          /\ client_buffer[c] \notin Items(client_queue) \cup Items(compositor_queue)
          /\ client_buffer[c] # compositor_buffer
          /\ \A d \in Holders : client_buffer[c] = client_buffer[d] => c = d

\* No buffer is lost: the two deques, the buffers counted by in_use_by_client
\* and the compositor's account for all of them, the count is that of the
\* threads that hold a buffer, and it never reaches N.
BuffersAccountedFor ==
    Usable =>
        /\ Len(client_queue) + Len(compositor_queue) + in_use_by_client + Held = N
        /\ in_use_by_client = Cardinality(Holders)
        /\ in_use_by_client <= N - 1

\* compositor_acquire has no loop and no wait, so whenever the compositor may
\* call it one of the deques must have a buffer for it.
CompositorFindsABuffer ==
    status = "live" /\ compositor_buffer = NoBuffer =>
        client_queue # << >> \/ compositor_queue # << >>

\* front() of an empty deque is reached in one way only: the surface is
\* destroyed while its clients own all the buffers they may own (one, when
\* double-buffered) and the compositing thread is still posting the last one.
\* Stopping the compositor first, as DisplayServer::run does, excludes it.
UndefinedOnlyMidFrame ==
    status = "undefined" =>
        /\ compositor_buffer # NoBuffer
        /\ in_use_by_client = N - 1

\* The frames waiting in compositor_queue are the ones that follow the frame
\* shown, and when none waits the frame shown is still there to be shown
\* again, in the compositor's hands or at the back of client_queue, where the
\* client cannot have overwritten it.
LastShownIsKept ==
    status = "live" =>
        /\ posted = shown + Len(compositor_queue)
        /\ \A i \in 1..Len(compositor_queue) :
              frame[compositor_queue[i]] = shown + i
        /\ compositor_buffer # NoBuffer => frame[compositor_buffer] = shown
        /\ compositor_buffer = NoBuffer /\ compositor_queue = << >> =>
              /\ client_queue # << >>
              /\ frame[client_queue[Len(client_queue)]] = shown

Stream == INSTANCE FrameStream WITH Depth <- N, open <- (status = "live")

\* The swapper implements the frame stream: every posted frame reaches the
\* compositor, in the order posted, none is skipped or shown again after a
\* newer one, and while nothing newer is posted the last one shown is
\* available again.
FramesInOrder == Stream!StreamSpec

=============================================================================
