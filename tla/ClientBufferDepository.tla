------------------------ MODULE ClientBufferDepository ------------------------
(***************************************************************************)
(* The client's end of a surface's buffers: mcl::ClientBufferDepository,   *)
(* which wraps the buffers the server sends and tells the client how old   *)
(* their contents are, composed with the swapper that chooses them.        *)
(*                                                                         *)
(* A next_buffer call makes the server's thread c release the buffer it    *)
(* gave out and acquire another (BufferSwapperMulti); the reply is then    *)
(* deposited once.  The application draws what it was given, and asks for  *)
(* the next buffer, only after that.                                       *)
(***************************************************************************)
EXTENDS BufferSwapperMulti

CONSTANT MaxBuffers   \* max_buffers, which MirSurface passes

\* MirSurface passes as many as the swapper factory makes at most.
ASSUME MaxBuffersAssumption == MaxBuffers \in Nat /\ N <= MaxBuffers

\* A surface has one client, whose calls the server handles one after the other.
ASSUME OneClientAssumption == \A c, d \in Client : c = d

VARIABLES buffers,              \* the age of each buffer that is wrapped
          current_buffer_iter,  \* the buffer it points at, NoBuffer for end()
          deposited,            \* threads whose buffer reached the client
          failed                \* history: some create_buffer has thrown

depository_vars == <<buffers, current_buffer_iter, deposited, failed>>

frames_vars == <<vars, depository_vars>>

FramesInit ==
    /\ Init
    /\ buffers = << >>
    /\ current_buffer_iter = NoBuffer
    /\ deposited = {}
    /\ failed = FALSE

\* Mutant: a triple-buffered client's third buffer is evicted.
EvictTooEarly == MaxBuffers - 2

\* The age from which a buffer is evicted.
max_age == MaxBuffers - 1

increment_age(age) == IF age # 0 THEN age + 1 ELSE age

\* The buffers that deposit_package(id) leaves in the map before it looks for
\* id, with their new ages.
Aged(id) ==
    LET kept == {b \in DOMAIN buffers : \/ b = current_buffer_iter
                                        \/ b = id
                                        \/ buffers[b] < max_age}
    IN  [b \in kept |-> IF b = current_buffer_iter THEN 1   \* mark_as_submitted
                        ELSE increment_age(buffers[b])]

\* A buffer that is not in the map is wrapped by create_buffer, which may
\* throw: find() has by then set current_buffer_iter to end(), and
\* process_incoming_buffer catches and logs.
deposit_package(id, created) ==
    IF id \in DOMAIN buffers \/ created
    THEN /\ buffers' = [b \in DOMAIN Aged(id) \cup {id} |->
                           IF b \in DOMAIN Aged(id) THEN Aged(id)[b] ELSE 0]
         /\ current_buffer_iter' = id
         /\ UNCHANGED failed
    ELSE /\ buffers' = Aged(id)
         /\ current_buffer_iter' = NoBuffer
         /\ failed' = TRUE

\* created and new_buffer, the callbacks of the two replies with a buffer.
process_incoming_buffer(c) ==
    /\ client[c] = "holding"
    /\ c \notin deposited
    /\ deposited' = deposited \cup {c}
    /\ \E created \in BOOLEAN : deposit_package(client_buffer[c], created)
    /\ UNCHANGED vars

\* The client asks for the next buffer: the server takes the current one back.
RequestNext(c) ==
    /\ c \in deposited
    /\ client_release(c)
    /\ deposited' = deposited \ {c}
    /\ UNCHANGED <<buffers, current_buffer_iter, failed>>

\* Everything else the server does with the buffers.
ServerStep ==
    /\ \/ \E c \in Client : client_acquire(c) \/ SpuriousWakeup(c)
       \/ compositor_acquire
       \/ compositor_release
       \/ CompositorStop
       \/ ServerShutdown
       \/ DestroySurface
    /\ UNCHANGED depository_vars

FramesNext ==
    \/ \E c \in Client : process_incoming_buffer(c) \/ RequestNext(c)
    \/ ServerStep

FramesSpec == FramesInit /\ [][FramesNext]_frames_vars

-----------------------------------------------------------------------------

\* The type of the depository's state; an iterator that is not end() points
\* into the map, so the eviction never invalidates it.
FramesTypeOK ==
    /\ TypeOK
    /\ DOMAIN buffers \subseteq Buffer
    /\ \A b \in DOMAIN buffers : buffers[b] \in 0..MaxFrame
    /\ current_buffer_iter \in DOMAIN buffers \cup {NoBuffer}
    /\ deposited \subseteq Client
    /\ failed \in BOOLEAN

\* How many frames ago b carried what is drawn in it now.
Gap(b) == posted + 1 - frame[b]

\* A client that holds a buffer draws over contents as old as the depository
\* says: an age other than 0 is the number of frames since the buffer was
\* posted, and 0, "contents unknown", is said only of a buffer that was never
\* posted, unless wrapping one has failed.  Partial redraws rely on it; the
\* unit tests feed the depository made-up id sequences and the swapper none.
AgeTellsFrame ==
    \A c \in deposited :
        LET b == client_buffer[c] IN
        IF current_buffer_iter = NoBuffer
        THEN failed
        ELSE /\ current_buffer_iter = b
             /\ buffers[b] # 0 => frame[b] # 0 /\ buffers[b] = Gap(b)
             /\ buffers[b] = 0 => frame[b] = 0 \/ failed

=============================================================================
