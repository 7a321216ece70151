--------------------- MODULE ClientBufferDepositoryProofs ---------------------
(***************************************************************************)
(* Proofs about the ages that the client's depository gives to the buffers *)
(* of a double or triple buffered surface, on top of the swapper's         *)
(* invariant: with one client the buffers go round in one order, whatever  *)
(* the compositor does in between.                                         *)
(***************************************************************************)
EXTENDS ClientBufferDepository, BufferSwapperMultiProofs

\* The frame that the i-th of the buffers outside the client's hands carries,
\* 0 for one that was never posted.
Place(i) ==
    IF posted - (N - in_use_by_client) + i > 0 THEN posted - (N - in_use_by_client) + i ELSE 0

\* client_queue, the compositor's buffer and compositor_queue, one after the
\* other, carry consecutive frames up to the last one posted.
BuffersGoRound ==
    Usable =>
        /\ \A i \in 1..Len(client_queue) : frame[client_queue[i]] = Place(i)
        /\ compositor_buffer # NoBuffer =>
              frame[compositor_buffer] = Place(Len(client_queue) + 1)
        /\ \A i \in 1..Len(compositor_queue) :
              frame[compositor_queue[i]] = Place(Len(client_queue) + Held + i)

\* Every buffer is somewhere.
BuffersAreSomewhere ==
    Usable =>
        \A b \in Buffer :
            \/ b \in Items(client_queue) \cup Items(compositor_queue)
            \/ b = compositor_buffer
            \/ \E c \in Holders : client_buffer[c] = b

\* While a client has a buffer, the others carry the last N - 1 frames.
OthersAreRecent ==
    \A c \in Holders : \A b \in Buffer \ {client_buffer[c]} :
        frame[b] = 0 \/ frame[b] >= posted - N + 2

SwapperInv ==
    /\ IInv
    /\ posted <= MaxFrame
    /\ status = "stopped" => compositor_buffer = NoBuffer
    /\ BuffersGoRound
    /\ BuffersAreSomewhere
    /\ OthersAreRecent

\* How many buffers were deposited.
Deposits == IF deposited = {} THEN posted ELSE posted + 1

\* The iterator points at the buffer the client draws, if wrapping it did not fail.
CurrentIsDrawn ==
    \A c \in deposited : IF current_buffer_iter = NoBuffer
                         THEN failed /\ client_buffer[c] \notin DOMAIN buffers
                         ELSE current_buffer_iter = client_buffer[c]

\* The age of a buffer that is not the current one is how many were deposited
\* since it was.
OldAgesAreRight ==
    \A b \in DOMAIN buffers \ {current_buffer_iter} :
        /\ frame[b] # 0
        /\ buffers[b] # 0
        /\ buffers[b] = Deposits - frame[b]

\* So is that of the current one while it is drawn; once posted it carries the
\* last frame, and its age is set by the next deposit.
CurrentAgeIsRight ==
    LET b == current_buffer_iter IN
    b # NoBuffer =>
        IF deposited = {} THEN frame[b] = posted /\ posted # 0
        ELSE /\ buffers[b] # 0 => frame[b] # 0 /\ buffers[b] = Gap(b)
             /\ buffers[b] = 0 => frame[b] = 0 \/ failed

\* What was posted is still wrapped: nothing the swapper sends again is evicted.
NoneIsEvicted == ~failed => \A b \in Buffer : frame[b] # 0 => b \in DOMAIN buffers

FramesInv ==
    /\ SwapperInv
    /\ FramesTypeOK
    /\ deposited \subseteq Holders
    /\ CurrentIsDrawn
    /\ OldAgesAreRight
    /\ CurrentAgeIsRight
    /\ NoneIsEvicted

\* With one client, in_use_by_client tells whether that client has a buffer.
LEMMA OneHolder ==
    ASSUME IInv, Usable, NEW c \in Client
    PROVE  in_use_by_client = IF client[c] = "holding" THEN 1 ELSE 0
  <1>1. Holders = IF client[c] = "holding" THEN {c} ELSE {}
    BY OneClientAssumption DEF Holders
  <1>2. Cardinality({c}) = 1 /\ Cardinality({}) = 0
    BY FS_Singleton, FS_EmptySet
  <1> QED
    BY <1>1, <1>2 DEF IInv, BuffersAccountedFor

\* A freshly constructed swapper has all its buffers in client_queue, blank.
LEMMA SwapperInit == Init => SwapperInv
  <1> SUFFICES ASSUME Init PROVE SwapperInv
    OBVIOUS
  <1> USE NumberOfBuffers, BufferAssumption, MaxFrameAssumption
  <1>1. IInv
    BY InitInvariant
  <1>2. client_queue \in [1..N -> Buffer] /\ client_queue \in Injection(1..N, Buffer)
    BY DEF Init, initialize_queues, Injection, IsInjective
  <1>3. Len(client_queue) = N
    BY <1>2
  <1>4. IsFiniteSet(1..N) /\ Cardinality(1..N) = Cardinality(Buffer)
    BY FS_Interval DEF N
  <1>5. client_queue \in Surjection(1..N, Buffer)
    BY <1>2, <1>4, FS_Injection
  <1>6. \A b \in Buffer : b \in Items(client_queue)
    BY <1>3, <1>5 DEF Surjection, Items
  <1>7. Holders = {} /\ compositor_queue = << >> /\ compositor_buffer = NoBuffer
    BY DEF Init, initialize_queues, Holders
  <1>8. BuffersGoRound
    <2>1. \A i \in 1..N : Place(i) = 0
      BY DEF Place, Init, initialize_queues
    <2>2. \A i \in 1..N : frame[client_queue[i]] = 0
      BY <1>2 DEF Init
    <2> QED
      BY <1>3, <1>7, <2>1, <2>2 DEF BuffersGoRound
  <1> QED
    BY <1>1, <1>6, <1>7, <1>8
       DEF SwapperInv, BuffersAreSomewhere, OthersAreRecent, Init

\* Steps that leave the queues, the compositor's buffer and the frames alone.
LEMMA SwapperStays ==
    ASSUME SwapperInv, IInv', Holders' = Holders,
           status' = "stopped" => compositor_buffer = NoBuffer,
           Usable' => Usable,
           UNCHANGED <<client_queue, compositor_queue, in_use_by_client,
                       client_buffer, compositor_buffer, frame, posted>>
    PROVE  SwapperInv'
  <1>1. \A i : Place(i)' = Place(i)
    BY DEF Place
  <1>2. BuffersGoRound'
    BY <1>1 DEF SwapperInv, BuffersGoRound, Held
  <1>3. BuffersAreSomewhere' /\ OthersAreRecent'
    BY DEF SwapperInv, BuffersAreSomewhere, OthersAreRecent
  <1> QED
    BY <1>2, <1>3 DEF SwapperInv

\* The client takes the buffer with the oldest frame: the others are recent.
LEMMA ClientAcquireGoesRound ==
    ASSUME SwapperInv, NEW c \in Client, client_acquire(c), IInv'
    PROVE  SwapperInv'
  <1> USE NumberOfBuffers, BufferAssumption
  <1>0. TypeOK /\ ExclusiveOwnership /\ BuffersAccountedFor /\ IInv
    BY DEF SwapperInv, IInv
  <1>1. Usable /\ client[c] # "holding" /\ UNCHANGED status
    BY DEF client_acquire
  <1>2. CASE MustWait
    <2>1. Holders' = Holders
      BY <1>0, <1>1, <1>2 DEF client_acquire, Holders, TypeOK
    <2> QED
      BY <1>1, <1>2, <2>1, SwapperStays DEF client_acquire, SwapperInv, Usable
  <1>3. CASE ~MustWait
    <2> DEFINE b == Head(client_queue)
    <2>1. /\ client' = [client EXCEPT ![c] = "holding"]
          /\ client_buffer' = [client_buffer EXCEPT ![c] = b]
          /\ client_queue' = Tail(client_queue)
          /\ in_use_by_client' = in_use_by_client + 1
          /\ UNCHANGED <<compositor_queue, compositor_buffer, frame, posted>>
          /\ client_queue # << >>
      BY <1>3 DEF client_acquire, MustWait
    <2>2. /\ b = client_queue[1]
          /\ Len(client_queue') = Len(client_queue) - 1
          /\ \A i \in 1..Len(client_queue') : client_queue'[i] = client_queue[i + 1]
          /\ Items(client_queue') = Items(client_queue) \ {b}
      BY <1>0, <2>1, PopFront DEF TypeOK, ExclusiveOwnership
    <2>3. Len(client_queue) \in Nat \ {0} /\ Len(compositor_queue) \in Nat
      BY <1>0, <2>1 DEF TypeOK
    <2>4. in_use_by_client = 0 /\ posted \in Nat
      BY <1>0, <1>1, OneHolder DEF TypeOK
    <2>5. \A i \in Int : Place(i)' = Place(i + 1)
      BY <2>1, <2>4 DEF Place
    <2>6. Holders = {} /\ Holders' = {c} /\ client_buffer'[c] = b
      BY <1>0, <1>1, <2>1, OneClientAssumption DEF Holders, TypeOK
    <2>7. Held' = Held /\ Held \in {0, 1}
      BY <2>1 DEF Held
    <2> HIDE DEF b
    <2>8. BuffersGoRound'
      <3>1. \A i \in 1..Len(client_queue') : frame[client_queue'[i]] = Place(i + 1)
        BY <1>1, <2>2, <2>3 DEF SwapperInv, BuffersGoRound
      <3>2. compositor_buffer # NoBuffer =>
               frame[compositor_buffer] = Place((Len(client_queue') + 1) + 1)
        BY <1>1, <2>2, <2>3 DEF SwapperInv, BuffersGoRound
      <3>3. \A i \in 1..Len(compositor_queue) :
               frame[compositor_queue[i]] = Place((Len(client_queue') + Held + i) + 1)
        <4> TAKE i \in 1..Len(compositor_queue)
        <4>1. (Len(client_queue') + Held + i) + 1 = Len(client_queue) + Held + i
          BY <2>2, <2>3, <2>7
        <4> QED
          BY <1>1, <4>1 DEF SwapperInv, BuffersGoRound
      <3>4. \A i \in 1..Len(client_queue') : i \in Int
        OBVIOUS
      <3>5. \A i \in 1..Len(compositor_queue) : Len(client_queue') + Held + i \in Int
        BY <2>2, <2>3, <2>7
      <3>6. Len(client_queue') + 1 \in Int
        BY <2>2, <2>3
      <3> QED
        BY <2>1, <2>5, <2>7, <3>1, <3>2, <3>3, <3>4, <3>5, <3>6 DEF BuffersGoRound
    <2>9. BuffersAreSomewhere'
      <3> SUFFICES ASSUME NEW x \in Buffer
                   PROVE  \/ x \in Items(client_queue') \cup Items(compositor_queue)
                          \/ x = compositor_buffer
                          \/ b = x
        BY <2>1, <2>6 DEF BuffersAreSomewhere
      <3> QED
        BY <1>1, <2>2, <2>6 DEF SwapperInv, BuffersAreSomewhere
    <2>10. OthersAreRecent'
      <3> SUFFICES ASSUME NEW x \in Buffer, x # b
                   PROVE  frame[x] = 0 \/ frame[x] >= posted - N + 2
        BY <2>1, <2>6 DEF OthersAreRecent
      <3>1. PICK k \in Nat : k >= 2 /\ frame[x] = Place(k)
        <4>1. CASE x \in Items(client_queue)
          <5>1. PICK i \in 1..Len(client_queue) : x = client_queue[i]
            BY <4>1 DEF Items
          <5>2. i >= 2 /\ i \in Nat
            BY <2>2, <2>3, <5>1
          <5> QED
            BY <1>1, <5>1, <5>2 DEF SwapperInv, BuffersGoRound
        <4>2. CASE x = compositor_buffer
          <5>1. Len(client_queue) + 1 \in Nat /\ Len(client_queue) + 1 >= 2
            BY <2>3
          <5> QED
            BY <1>1, <4>2, <5>1 DEF SwapperInv, BuffersGoRound
        <4>3. CASE x \in Items(compositor_queue)
          <5>1. PICK i \in 1..Len(compositor_queue) : x = compositor_queue[i]
            BY <4>3 DEF Items
          <5>2. Len(client_queue) + Held + i \in Nat /\ Len(client_queue) + Held + i >= 2
            BY <2>3, <2>7
          <5> QED
            BY <1>1, <5>1, <5>2 DEF SwapperInv, BuffersGoRound
        <4> QED
          BY <1>1, <2>6, <4>1, <4>2, <4>3 DEF SwapperInv, BuffersAreSomewhere
      <3> QED
        BY <2>4, <3>1 DEF Place
    <2> QED
      BY <1>1, <2>1, <2>8, <2>9, <2>10 DEF SwapperInv
  <1> QED
    BY <1>2, <1>3

\* A posted buffer goes last, with the newest frame.
LEMMA ClientReleaseGoesRound ==
    ASSUME SwapperInv, NEW c \in Client, client_release(c), IInv'
    PROVE  SwapperInv'
  <1> USE NumberOfBuffers, BufferAssumption, MaxFrameAssumption
  <1> DEFINE b == client_buffer[c]
  <1>0. TypeOK /\ ExclusiveOwnership /\ BuffersAccountedFor /\ IInv
    BY DEF SwapperInv, IInv
  <1>1. /\ Usable
        /\ client[c] = "holding"
        /\ posted < MaxFrame
        /\ compositor_queue' = Append(compositor_queue, b)
        /\ in_use_by_client' = in_use_by_client - 1
        /\ client' = [client EXCEPT ![c] = "idle"]
        /\ posted' = posted + 1
        /\ frame' = [frame EXCEPT ![b] = posted + 1]
        /\ UNCHANGED <<client_queue, compositor_buffer, status>>
    BY DEF client_release, PostFrame
  <1>2. Holders = {c} /\ Holders' = {}
    BY <1>0, <1>1, OneClientAssumption DEF Holders, TypeOK
  <1>3. /\ b \in Buffer
        /\ b \notin Items(client_queue) \cup Items(compositor_queue)
        /\ b # compositor_buffer
    BY <1>0, <1>2 DEF ExclusiveOwnership
  <1>4. in_use_by_client = 1 /\ posted \in Nat /\ posted' <= MaxFrame
    BY <1>0, <1>1, OneHolder DEF TypeOK
  <1> HIDE DEF b
  <1>5. /\ Len(compositor_queue') = Len(compositor_queue) + 1
        /\ compositor_queue'[Len(compositor_queue) + 1] = b
        /\ \A i \in 1..Len(compositor_queue) : compositor_queue'[i] = compositor_queue[i]
        /\ Items(compositor_queue') = Items(compositor_queue) \cup {b}
    BY <1>0, <1>1, <1>3, PushBack DEF TypeOK, ExclusiveOwnership
  <1>6. \A i \in Int : Place(i)' = Place(i)
    BY <1>1, <1>4 DEF Place
  <1>7. /\ Len(client_queue) \in Nat
        /\ Len(compositor_queue) \in Nat
        /\ Held \in {0, 1}
        /\ Held' = Held
        /\ Len(client_queue) + Held + (Len(compositor_queue) + 1) = N
    <2>1. Len(client_queue) \in Nat /\ Len(compositor_queue) \in Nat
      BY <1>0 DEF TypeOK
    <2>2. Held \in {0, 1} /\ Held' = Held
      BY <1>1 DEF Held
    <2>3. Len(client_queue) + Len(compositor_queue) + in_use_by_client + Held = N
      BY <1>0, <1>1 DEF BuffersAccountedFor
    <2> QED
      BY <1>4, <2>1, <2>2, <2>3
  <1>8. frame'[b] = posted + 1 /\ \A x \in Buffer \ {b} : frame'[x] = frame[x]
    BY <1>0, <1>1, <1>3 DEF TypeOK
  <1>9. BuffersGoRound'
    <2>1. \A i \in 1..Len(client_queue) : frame'[client_queue[i]] = Place(i)
      <3> TAKE i \in 1..Len(client_queue)
      <3>1. client_queue[i] \in Buffer \ {b}
        BY <1>0, <1>3 DEF TypeOK, Items
      <3> QED
        BY <1>1, <1>8, <3>1 DEF SwapperInv, BuffersGoRound
    <2>2. compositor_buffer # NoBuffer =>
             frame'[compositor_buffer] = Place(Len(client_queue) + 1)
      BY <1>0, <1>1, <1>3, <1>8 DEF SwapperInv, BuffersGoRound, TypeOK
    <2>3. \A i \in 1..Len(compositor_queue) :
             frame'[compositor_queue[i]] = Place(Len(client_queue) + Held + i)
      <3> TAKE i \in 1..Len(compositor_queue)
      <3>1. compositor_queue[i] \in Buffer \ {b}
        BY <1>0, <1>3 DEF TypeOK, Items
      <3> QED
        BY <1>1, <1>8, <3>1 DEF SwapperInv, BuffersGoRound
    <2>4. Place(Len(client_queue) + Held + (Len(compositor_queue) + 1)) = posted + 1
      BY <1>4, <1>7 DEF Place
    <2>5. \A i \in 1..Len(compositor_queue') :
             frame'[compositor_queue'[i]] = Place(Len(client_queue) + Held + i)
      <3> TAKE i \in 1..Len(compositor_queue')
      <3>1. CASE i \in 1..Len(compositor_queue)
        BY <1>5, <2>3, <3>1
      <3>2. CASE i = Len(compositor_queue) + 1
        BY <1>5, <1>8, <2>4, <3>2
      <3> QED
        BY <1>5, <1>7, <3>1, <3>2
    <2>6. /\ \A i \in 1..Len(client_queue) : i \in Int
          /\ \A i \in 1..Len(compositor_queue') : Len(client_queue) + Held + i \in Int
          /\ Len(client_queue) + 1 \in Int
      BY <1>5, <1>7
    <2> QED
      BY <1>1, <1>6, <1>7, <2>1, <2>2, <2>5, <2>6 DEF BuffersGoRound
  <1>10. BuffersAreSomewhere'
    <2> SUFFICES ASSUME NEW x \in Buffer
                 PROVE  \/ x \in Items(client_queue) \cup Items(compositor_queue')
                        \/ x = compositor_buffer
      BY <1>1 DEF BuffersAreSomewhere
    <2> QED
      BY <1>1, <1>2, <1>5 DEF SwapperInv, BuffersAreSomewhere, b
  <1>11. OthersAreRecent'
    BY <1>2 DEF OthersAreRecent
  <1> QED
    BY <1>1, <1>4, <1>9, <1>10, <1>11 DEF SwapperInv

\* The compositor takes the oldest frame that waits, or the last one shown;
\* nothing changes its place.
LEMMA CompositorAcquireGoesRound ==
    ASSUME SwapperInv, compositor_acquire, IInv'
    PROVE  SwapperInv'
  <1> USE NumberOfBuffers, BufferAssumption
  <1>0. TypeOK /\ ExclusiveOwnership /\ BuffersAccountedFor /\ IInv
    BY DEF SwapperInv, IInv
  <1>1. /\ status = "live"
        /\ compositor_buffer = NoBuffer
        /\ UNCHANGED <<in_use_by_client, client, client_buffer, frame, posted>>
        /\ Usable
    BY DEF compositor_acquire, Usable
  <1>2. Holders' = Holders
    BY <1>1 DEF Holders
  <1>3. \A i : Place(i)' = Place(i)
    BY <1>1 DEF Place
  <1>4. OthersAreRecent'
    BY <1>1, <1>2 DEF SwapperInv, OthersAreRecent
  <1>5. Len(client_queue) \in Nat /\ Len(compositor_queue) \in Nat /\ Held = 0
    BY <1>0, <1>1 DEF TypeOK, Held
  <1>6. CASE compositor_queue # << >>
    <2>0. /\ compositor_buffer' = Head(compositor_queue)
          /\ compositor_queue' = Tail(compositor_queue)
          /\ UNCHANGED <<client_queue, status>>
      BY <1>6 DEF compositor_acquire, FromCompositorQueue
    <2>1. /\ compositor_buffer' \in Buffer
          /\ compositor_buffer' = compositor_queue[1]
          /\ Len(compositor_queue') = Len(compositor_queue) - 1
          /\ \A i \in 1..Len(compositor_queue') :
                compositor_queue'[i] = compositor_queue[i + 1]
          /\ Items(compositor_queue') = Items(compositor_queue) \ {compositor_buffer'}
      BY <1>0, <1>6, <2>0, PopFront DEF TypeOK, ExclusiveOwnership
    <2>2. Held' = 1 /\ Len(compositor_queue) >= 1
      BY <1>0, <1>6, <2>1 DEF Held, TypeOK
    <2>3. frame[compositor_buffer'] = Place(Len(client_queue) + 1)
      <3>1. 1 \in 1..Len(compositor_queue) /\ Len(client_queue) + 0 + 1 = Len(client_queue) + 1
        BY <1>5, <2>2
      <3> QED
        BY <1>1, <1>5, <2>1, <3>1 DEF SwapperInv, BuffersGoRound
    <2>4. \A i \in 1..Len(compositor_queue') :
             frame[compositor_queue'[i]] = Place(Len(client_queue) + 1 + i)
      <3> TAKE i \in 1..Len(compositor_queue')
      <3>1. /\ i + 1 \in 1..Len(compositor_queue)
            /\ Len(client_queue) + 0 + (i + 1) = Len(client_queue) + 1 + i
        BY <1>5, <2>1
      <3> QED
        BY <1>1, <1>5, <2>1, <3>1 DEF SwapperInv, BuffersGoRound
    <2>5. BuffersGoRound'
      BY <1>1, <1>3, <2>0, <2>2, <2>3, <2>4 DEF SwapperInv, BuffersGoRound
    <2>6. BuffersAreSomewhere'
      <3> SUFFICES ASSUME NEW x \in Buffer
                   PROVE  \/ x \in Items(client_queue) \cup Items(compositor_queue')
                          \/ x = compositor_buffer'
                          \/ \E c \in Holders : client_buffer[c] = x
        BY <1>1, <1>2, <2>0 DEF BuffersAreSomewhere
      <3> QED
        BY <1>1, <2>1 DEF SwapperInv, BuffersAreSomewhere
    <2> QED
      BY <1>1, <1>4, <2>0, <2>5, <2>6 DEF SwapperInv
  <1>7. CASE compositor_queue = << >> /\ client_queue # << >>
    <2>0. /\ compositor_buffer' = client_queue[Len(client_queue)]
          /\ client_queue' = SubSeq(client_queue, 1, Len(client_queue) - 1)
          /\ UNCHANGED <<compositor_queue, status>>
      BY <1>7 DEF compositor_acquire, FromClientQueue
    <2>1. /\ compositor_buffer' \in Buffer
          /\ Len(client_queue') = Len(client_queue) - 1
          /\ \A i \in 1..(Len(client_queue) - 1) : client_queue'[i] = client_queue[i]
          /\ Items(client_queue') = Items(client_queue) \ {compositor_buffer'}
      BY <1>0, <1>7, <2>0, PopBack DEF TypeOK, ExclusiveOwnership
    <2>2. Len(client_queue) >= 1 /\ Len(client_queue') + 1 = Len(client_queue)
      BY <1>0, <1>7, <2>1 DEF TypeOK
    <2>3. frame[compositor_buffer'] = Place(Len(client_queue') + 1)
      BY <1>1, <1>5, <2>0, <2>2 DEF SwapperInv, BuffersGoRound
    <2>4. \A i \in 1..Len(client_queue') : frame[client_queue'[i]] = Place(i)
      BY <1>1, <1>5, <2>1 DEF SwapperInv, BuffersGoRound
    <2>5. 1..Len(compositor_queue) = {}
      BY <1>7
    <2>6. BuffersGoRound'
      BY <1>1, <1>3, <2>0, <2>3, <2>4, <2>5 DEF BuffersGoRound
    <2>7. BuffersAreSomewhere'
      <3> SUFFICES ASSUME NEW x \in Buffer
                   PROVE  \/ x \in Items(client_queue') \cup Items(compositor_queue)
                          \/ x = compositor_buffer'
                          \/ \E c \in Holders : client_buffer[c] = x
        BY <1>1, <1>2, <2>0 DEF BuffersAreSomewhere
      <3> QED
        BY <1>1, <2>1 DEF SwapperInv, BuffersAreSomewhere
    <2> QED
      BY <1>1, <1>4, <2>0, <2>6, <2>7 DEF SwapperInv
  <1>8. CASE compositor_queue = << >> /\ client_queue = << >>
    <2>1. status' = "undefined"
      BY <1>8 DEF compositor_acquire
    <2> QED
      BY <1>1, <1>4, <2>1
         DEF SwapperInv, BuffersGoRound, BuffersAreSomewhere, Usable
  <1> QED
    BY <1>6, <1>7, <1>8

\* What was shown goes to the back of client_queue: the place it had.
LEMMA CompositorReleaseGoesRound ==
    ASSUME SwapperInv, compositor_release, IInv'
    PROVE  SwapperInv'
  <1> USE NumberOfBuffers, BufferAssumption
  <1>0. TypeOK /\ ExclusiveOwnership /\ BuffersAccountedFor /\ IInv
    BY DEF SwapperInv, IInv
  <1>1. /\ compositor_buffer # NoBuffer
        /\ compositor_buffer' = NoBuffer
        /\ UNCHANGED <<compositor_queue, in_use_by_client, client_buffer,
                       status, frame, posted>>
    BY DEF compositor_release
  <1>2. Holders' = Holders
    BY <1>0 DEF compositor_release, notify_one, TypeOK, Holders
  <1>3. \A i : Place(i)' = Place(i)
    BY <1>1 DEF Place
  <1>4. OthersAreRecent'
    BY <1>1, <1>2 DEF SwapperInv, OthersAreRecent
  <1>5. CASE Usable
    <2>0. client_queue' = Append(client_queue, compositor_buffer)
      BY <1>5 DEF compositor_release
    <2>1. /\ Len(client_queue') = Len(client_queue) + 1
          /\ client_queue'[Len(client_queue) + 1] = compositor_buffer
          /\ \A i \in 1..Len(client_queue) : client_queue'[i] = client_queue[i]
          /\ Items(client_queue') = Items(client_queue) \cup {compositor_buffer}
      BY <1>0, <1>1, <2>0, PushBack DEF TypeOK, ExclusiveOwnership
    <2>2. /\ Len(client_queue) \in Nat
          /\ Held = 1
          /\ Held' = 0
      BY <1>0, <1>1 DEF TypeOK, Held
    <2>3. \A i \in 1..Len(client_queue') : frame[client_queue'[i]] = Place(i)
      <3> TAKE i \in 1..Len(client_queue')
      <3>1. CASE i \in 1..Len(client_queue)
        BY <1>5, <2>1, <3>1 DEF SwapperInv, BuffersGoRound
      <3>2. CASE i = Len(client_queue) + 1
        BY <1>1, <1>5, <2>1, <3>2 DEF SwapperInv, BuffersGoRound
      <3> QED
        BY <2>1, <2>2, <3>1, <3>2
    <2>4. \A i \in 1..Len(compositor_queue) :
             frame[compositor_queue[i]] = Place(Len(client_queue') + 0 + i)
      <3> TAKE i \in 1..Len(compositor_queue)
      <3>1. Len(client_queue') + 0 + i = Len(client_queue) + 1 + i
        BY <2>1, <2>2
      <3> QED
        BY <1>5, <2>2, <3>1 DEF SwapperInv, BuffersGoRound
    <2>5. BuffersGoRound'
      BY <1>1, <1>3, <2>2, <2>3, <2>4 DEF BuffersGoRound
    <2>6. BuffersAreSomewhere'
      <3> SUFFICES ASSUME NEW x \in Buffer
                   PROVE  \/ x \in Items(client_queue') \cup Items(compositor_queue)
                          \/ \E c \in Holders : client_buffer[c] = x
        BY <1>1, <1>2 DEF BuffersAreSomewhere
      <3> QED
        BY <1>5, <2>1 DEF SwapperInv, BuffersAreSomewhere
    <2> QED
      BY <1>1, <1>4, <2>5, <2>6 DEF SwapperInv
  <1>6. CASE ~Usable
    BY <1>1, <1>4, <1>6 DEF SwapperInv, BuffersGoRound, BuffersAreSomewhere, Usable
  <1> QED
    BY <1>5, <1>6

\* shutdown moves the oldest frame that waits from one queue to the other.
LEMMA ShutdownGoesRound ==
    ASSUME SwapperInv, Usable, NEW then \in {"stopped", "destroyed"},
           then = "stopped" => status = "stopped", shutdown(then), IInv'
    PROVE  SwapperInv'
  <1> USE NumberOfBuffers, BufferAssumption
  <1>0. TypeOK /\ ExclusiveOwnership /\ BuffersAccountedFor /\ IInv
    BY DEF SwapperInv, IInv
  <1>1. /\ client' = [c \in Client |->
                         IF client[c] = "waiting" THEN "awake" ELSE client[c]]
        /\ UNCHANGED <<in_use_by_client, client_buffer, compositor_buffer,
                       frame, posted>>
        /\ status' \in {then, "undefined"}
    BY DEF shutdown, RefillClientQueue
  <1>2. Holders' = Holders
    BY <1>1 DEF Holders
  <1>3. \A i : Place(i)' = Place(i)
    BY <1>1 DEF Place
  <1>4. OthersAreRecent' /\ (status' = "stopped" => compositor_buffer' = NoBuffer)
    BY <1>1, <1>2 DEF SwapperInv, OthersAreRecent
  <1>5. CASE ~(Usable')
    BY <1>1, <1>4, <1>5 DEF SwapperInv, BuffersGoRound, BuffersAreSomewhere
  <1>6. CASE Usable' /\ client_queue # << >>
    <2>1. UNCHANGED <<client_queue, compositor_queue>>
      BY <1>6 DEF shutdown, RefillClientQueue
    <2> QED
      BY <1>1, <1>2, <1>4, <2>1, SwapperStays
  <1>7. CASE Usable' /\ client_queue = << >>
    <2> DEFINE b == Head(compositor_queue)
    <2>0. /\ client_queue' = Append(client_queue, b)
          /\ compositor_queue' = Tail(compositor_queue)
          /\ compositor_queue # << >>
          /\ status' = then
      BY <1>7 DEF shutdown, RefillClientQueue, Usable
    <2>1. /\ b \in Buffer
          /\ b = compositor_queue[1]
          /\ Len(compositor_queue') = Len(compositor_queue) - 1
          /\ \A i \in 1..Len(compositor_queue') :
                compositor_queue'[i] = compositor_queue[i + 1]
          /\ Items(compositor_queue') = Items(compositor_queue) \ {b}
      BY <1>0, <2>0, PopFront DEF TypeOK, ExclusiveOwnership
    <2>2. compositor_buffer = NoBuffer /\ Held = 0 /\ Held' = 0
      BY <1>1, <1>7, <2>0 DEF SwapperInv, Usable, Held
    <2>3. Len(compositor_queue) \in Nat \ {0} /\ Len(client_queue) = 0
      BY <1>0, <1>7, <2>0 DEF TypeOK
    <2> HIDE DEF b
    <2>4. client_queue' = <<b>>
      BY <1>7, <2>0, <2>1
    <2>5. Len(client_queue') = 1 /\ client_queue'[1] = b /\ Items(client_queue') = {b}
      BY <2>4 DEF Items
    <2>6. \A i \in 1..Len(compositor_queue) : frame[compositor_queue[i]] = Place(i)
      <3> TAKE i \in 1..Len(compositor_queue)
      <3>1. Len(client_queue) + Held + i = i
        BY <2>2, <2>3
      <3> QED
        BY <3>1 DEF SwapperInv, BuffersGoRound
    <2>7. \A i \in 1..Len(client_queue') : frame[client_queue'[i]] = Place(i)
      BY <2>1, <2>3, <2>5, <2>6
    <2>8. \A i \in 1..Len(compositor_queue') :
             frame[compositor_queue'[i]] = Place(Len(client_queue') + 0 + i)
      <3> TAKE i \in 1..Len(compositor_queue')
      <3>1. i + 1 \in 1..Len(compositor_queue) /\ Len(client_queue') + 0 + i = i + 1
        BY <2>1, <2>3, <2>5
      <3> QED
        BY <2>1, <2>6, <3>1
    <2>9. BuffersGoRound'
      BY <1>1, <1>3, <2>2, <2>7, <2>8 DEF BuffersGoRound
    <2>10. BuffersAreSomewhere'
      <3> SUFFICES ASSUME NEW x \in Buffer
                   PROVE  \/ x \in Items(client_queue') \cup Items(compositor_queue')
                          \/ \E c \in Holders : client_buffer[c] = x
        BY <1>1, <1>2 DEF BuffersAreSomewhere
      <3>1. Items(client_queue) = {}
        BY <2>3 DEF Items
      <3> QED
        BY <2>1, <2>2, <2>5, <3>1 DEF SwapperInv, BuffersAreSomewhere
    <2> QED
      BY <1>1, <1>4, <2>9, <2>10 DEF SwapperInv
  <1> QED
    BY <1>5, <1>6, <1>7

\* The swapper moves as it does by itself.
LEMMA EveryStepIsTheSwappers == [FramesNext]_frames_vars => [Next]_vars
  BY DEF FramesNext, process_incoming_buffer, RequestNext, ServerStep, Next,
         frames_vars

\* The swapper's half of the invariant.
LEMMA SwapperNext ==
    ASSUME SwapperInv, [FramesNext]_frames_vars
    PROVE  SwapperInv'
  <1>1. [Next]_vars
    BY EveryStepIsTheSwappers
  <1>2. IInv'
    BY <1>1, NextInvariant DEF SwapperInv
  <1>3. ASSUME UNCHANGED vars PROVE SwapperInv'
    <2>1. Holders' = Holders
      BY <1>3 DEF vars, Holders
    <2> QED
      BY <1>2, <1>3, <2>1, SwapperStays DEF vars, SwapperInv, Usable
  <1>4. ASSUME NEW c \in Client, client_acquire(c) PROVE SwapperInv'
    BY <1>2, <1>4, ClientAcquireGoesRound
  <1>5. ASSUME NEW c \in Client, client_release(c) PROVE SwapperInv'
    BY <1>2, <1>5, ClientReleaseGoesRound
  <1>6. ASSUME NEW c \in Client, SpuriousWakeup(c) PROVE SwapperInv'
    <2>1. Holders' = Holders
      BY <1>6 DEF SpuriousWakeup, Holders, SwapperInv, IInv, TypeOK
    <2> QED
      BY <1>2, <1>6, <2>1, SwapperStays DEF SpuriousWakeup, SwapperInv, Usable
  <1>7. CASE compositor_acquire
    BY <1>2, <1>7, CompositorAcquireGoesRound
  <1>8. CASE compositor_release
    BY <1>2, <1>8, CompositorReleaseGoesRound
  <1>9. CASE CompositorStop
    <2>1. Holders' = Holders
      BY <1>9 DEF CompositorStop, Holders
    <2> QED
      BY <1>2, <1>9, <2>1, SwapperStays DEF CompositorStop, Usable
  <1>10. CASE ServerShutdown
    BY <1>2, <1>10, ShutdownGoesRound DEF ServerShutdown, Usable
  <1>11. CASE DestroySurface
    BY <1>2, <1>11, ShutdownGoesRound DEF DestroySurface
  <1> QED
    BY <1>1, <1>3, <1>4, <1>5, <1>6, <1>7, <1>8, <1>9, <1>10, <1>11 DEF Next

\* A depository that nothing was deposited in.
LEMMA FramesInitInvariant == FramesInit => FramesInv
  <1> SUFFICES ASSUME FramesInit PROVE FramesInv
    OBVIOUS
  <1>1. SwapperInv /\ TypeOK
    BY SwapperInit DEF FramesInit, SwapperInv, IInv
  <1>2. DOMAIN buffers = {} /\ deposited = {} /\ current_buffer_iter = NoBuffer
    BY DEF FramesInit
  <1>3. FramesTypeOK
    BY <1>1, <1>2 DEF FramesInit, FramesTypeOK
  <1>4. NoneIsEvicted
    BY DEF FramesInit, NoneIsEvicted, Init
  <1> QED
    BY <1>1, <1>2, <1>3, <1>4
       DEF FramesInv, CurrentIsDrawn, OldAgesAreRight, CurrentAgeIsRight

\* What the server does alone leaves what the client draws, and the frames.
LEMMA ServerKeepsFrames ==
    ASSUME FramesInv, SwapperInv', UNCHANGED depository_vars,
           UNCHANGED <<frame, posted>>,
           \A c \in Holders : c \in Holders' /\ client_buffer'[c] = client_buffer[c]
    PROVE  FramesInv'
  <1>1. TypeOK'
    BY DEF SwapperInv, IInv
  <1>2. FramesTypeOK'
    BY <1>1 DEF FramesInv, FramesTypeOK, depository_vars
  <1>3. deposited \subseteq Holders /\ \A c \in deposited : client_buffer'[c] = client_buffer[c]
    BY DEF FramesInv
  <1>4. CurrentIsDrawn'
    BY <1>3 DEF FramesInv, CurrentIsDrawn, depository_vars
  <1>5. OldAgesAreRight' /\ CurrentAgeIsRight' /\ NoneIsEvicted'
    BY DEF FramesInv, OldAgesAreRight, CurrentAgeIsRight, NoneIsEvicted,
           Deposits, Gap, depository_vars
  <1> QED
    BY <1>2, <1>3, <1>4, <1>5 DEF FramesInv, depository_vars

\* Handing the buffer back makes it the one with the newest frame.
LEMMA RequestNextKeepsAges ==
    ASSUME FramesInv, NEW c \in Client, RequestNext(c), SwapperInv'
    PROVE  FramesInv'
  <1> USE NumberOfBuffers, BufferAssumption, MaxFrameAssumption
  <1> DEFINE b == client_buffer[c]
  <1>0. TypeOK /\ ExclusiveOwnership /\ TypeOK' /\ FramesTypeOK
    BY DEF FramesInv, SwapperInv, IInv
  <1>1. /\ c \in deposited
        /\ deposited' = deposited \ {c}
        /\ posted' = posted + 1
        /\ frame' = [frame EXCEPT ![b] = posted + 1]
        /\ UNCHANGED <<buffers, current_buffer_iter, failed>>
    BY DEF RequestNext, client_release, PostFrame
  <1>2. deposited' = {} /\ c \in Holders
    BY <1>0, <1>1, OneClientAssumption DEF FramesInv, FramesTypeOK
  <1>3. b \in Buffer /\ posted \in Nat
    BY <1>0, <1>2 DEF ExclusiveOwnership, TypeOK
  <1>4. IF current_buffer_iter = NoBuffer THEN failed /\ b \notin DOMAIN buffers
                                          ELSE current_buffer_iter = b
    BY <1>1 DEF FramesInv, CurrentIsDrawn
  <1> HIDE DEF b
  <1>5. frame'[b] = posted + 1 /\ \A x \in Buffer \ {b} : frame'[x] = frame[x]
    BY <1>0, <1>1, <1>3 DEF TypeOK
  <1>6. Deposits = posted + 1 /\ Deposits' = posted + 1
    BY <1>1, <1>2 DEF Deposits
  <1>7. FramesTypeOK'
    BY <1>0, <1>1, <1>2 DEF FramesTypeOK
  <1>8. OldAgesAreRight'
    <2> SUFFICES ASSUME NEW x \in DOMAIN buffers \ {current_buffer_iter}
                 PROVE  /\ frame'[x] # 0
                        /\ buffers[x] # 0
                        /\ buffers[x] = Deposits' - frame'[x]
      BY <1>1, Zenon DEF OldAgesAreRight
    <2>1. x \in Buffer \ {b}
      BY <1>0, <1>4 DEF FramesTypeOK
    <2>2. /\ frame[x] # 0
          /\ buffers[x] # 0
          /\ buffers[x] = Deposits - frame[x]
      BY DEF FramesInv, OldAgesAreRight
    <2> QED
      BY <1>5, <1>6, <2>1, <2>2
  <1>9. CurrentAgeIsRight'
    BY <1>1, <1>2, <1>3, <1>4, <1>5 DEF CurrentAgeIsRight
  <1>10. NoneIsEvicted'
    <2> SUFFICES ASSUME ~failed, NEW x \in Buffer, frame'[x] # 0
                 PROVE  x \in DOMAIN buffers
      BY <1>1 DEF NoneIsEvicted
    <2>1. CASE x = b
      BY <1>0, <1>4, <2>1 DEF FramesTypeOK
    <2>2. CASE x # b
      BY <1>5, <2>2 DEF FramesInv, NoneIsEvicted
    <2> QED
      BY <2>1, <2>2
  <1> QED
    BY <1>2, <1>7, <1>8, <1>9, <1>10 DEF FramesInv, CurrentIsDrawn

\* Depositing a buffer evicts none, makes every age one more, and finds the age
\* of the buffer that came back.
LEMMA DepositKeepsAges ==
    ASSUME FramesInv, NEW c \in Client, process_incoming_buffer(c), SwapperInv'
    PROVE  FramesInv'
  <1> USE NumberOfBuffers, BufferAssumption, MaxFrameAssumption
  <1> DEFINE b == client_buffer[c]
             kept == {x \in DOMAIN buffers : \/ x = current_buffer_iter
                                             \/ x = b
                                             \/ buffers[x] < max_age}
  <1>0. TypeOK /\ ExclusiveOwnership /\ FramesTypeOK /\ posted <= MaxFrame
    BY DEF FramesInv, SwapperInv, IInv
  <1>1. /\ client[c] = "holding"
        /\ c \notin deposited
        /\ deposited' = deposited \cup {c}
        /\ UNCHANGED vars
    BY DEF process_incoming_buffer
  <1>2. PICK created \in BOOLEAN : deposit_package(b, created)
    BY DEF process_incoming_buffer
  <1>3. deposited = {} /\ deposited' = {c} /\ c \in Holders /\ Holders' = Holders
    BY <1>0, <1>1, OneClientAssumption DEF FramesTypeOK, Holders, vars
  <1>4. b \in Buffer /\ posted \in Nat
    BY <1>0, <1>3 DEF ExclusiveOwnership, TypeOK
  <1>5. Deposits = posted /\ Deposits' = posted + 1
    BY <1>1, <1>3 DEF Deposits, vars
  <1>6. \A x \in DOMAIN buffers \ {current_buffer_iter} :
           /\ x \in Buffer
           /\ frame[x] \in Nat \ {0}
           /\ buffers[x] \in Nat \ {0}
           /\ buffers[x] = posted - frame[x]
    BY <1>0, <1>5 DEF FramesInv, OldAgesAreRight, FramesTypeOK, TypeOK
  <1>7. current_buffer_iter # NoBuffer =>
           /\ current_buffer_iter \in DOMAIN buffers
           /\ frame[current_buffer_iter] = posted
           /\ posted # 0
    BY <1>0, <1>3 DEF FramesInv, CurrentAgeIsRight, FramesTypeOK
  <1>8. kept = DOMAIN buffers
    <2> SUFFICES ASSUME NEW x \in DOMAIN buffers, x # current_buffer_iter, x # b
                 PROVE  buffers[x] < max_age
      OBVIOUS
    <2>1. frame[x] >= posted - N + 2
      BY <1>3, <1>6 DEF FramesInv, SwapperInv, OthersAreRecent
    <2>2. buffers[x] <= N - 2
      BY <1>4, <1>6, <2>1
    <2>3. max_age >= N - 1
      BY MaxBuffersAssumption DEF max_age
    <2>4. max_age \in Int
      BY MaxBuffersAssumption DEF max_age
    <2> QED
      BY <1>6, <2>2, <2>3, <2>4
  <1>9. Aged(b) = [x \in DOMAIN buffers |-> IF x = current_buffer_iter THEN 1
                                            ELSE increment_age(buffers[x])]
    BY <1>8 DEF Aged
  <1>10. \A x \in DOMAIN buffers :
            /\ x \in Buffer
            /\ frame[x] \in Nat \ {0}
            /\ Aged(b)[x] = posted + 1 - frame[x]
            /\ Aged(b)[x] \in 1..MaxFrame
    <2> TAKE x \in DOMAIN buffers
    <2>1. x \in Buffer /\ x # NoBuffer /\ frame[x] \in Nat
      BY <1>0 DEF FramesTypeOK, TypeOK
    <2>2. CASE x = current_buffer_iter
      BY <1>0, <1>4, <1>7, <1>9, <2>1, <2>2
    <2>3. CASE x # current_buffer_iter
      <3>1. Aged(b)[x] = buffers[x] + 1
        BY <1>6, <1>9, <2>3 DEF increment_age
      <3> QED
        BY <1>0, <1>4, <1>6, <2>3, <3>1
    <2> QED
      BY <2>2, <2>3
  <1>11. DOMAIN Aged(b) = DOMAIN buffers
    BY <1>9
  <1>12. /\ client' = client
         /\ client_buffer' = client_buffer
         /\ frame' = frame
         /\ posted' = posted
         /\ TypeOK'
    BY <1>0, <1>1 DEF vars, SwapperInv, IInv
  <1> HIDE DEF b, kept
  <1>13. CASE b \in DOMAIN buffers \/ created
    <2> DEFINE map == [x \in DOMAIN buffers \cup {b} |->
                          IF x \in DOMAIN buffers THEN Aged(b)[x] ELSE 0]
    <2>1. buffers' = map /\ current_buffer_iter' = b /\ failed' = failed
      BY <1>2, <1>11, <1>13 DEF deposit_package
    <2>2. /\ DOMAIN buffers' = DOMAIN buffers \cup {b}
          /\ \A x \in DOMAIN buffers : buffers'[x] = Aged(b)[x]
          /\ b \notin DOMAIN buffers => buffers'[b] = 0
      BY <2>1
    <2> HIDE DEF map
    <2>3. FramesTypeOK'
      <3>1. \A x \in DOMAIN buffers' : x \in Buffer /\ buffers'[x] \in 0..MaxFrame
        BY <1>4, <1>10, <2>2
      <3> QED
        BY <1>0, <1>1, <1>12, <2>1, <2>2, <3>1 DEF FramesTypeOK
    <2>4. CurrentIsDrawn'
      BY <1>3, <1>4, <1>12, <2>1 DEF CurrentIsDrawn, b
    <2>5. OldAgesAreRight'
      <3> SUFFICES ASSUME NEW x \in DOMAIN buffers, x # b
                   PROVE  /\ frame[x] # 0
                          /\ buffers'[x] # 0
                          /\ buffers'[x] = Deposits' - frame[x]
        BY <1>12, <2>1, <2>2 DEF OldAgesAreRight
      <3>1. /\ frame[x] \in Nat \ {0}
            /\ buffers'[x] = posted + 1 - frame[x]
            /\ buffers'[x] \in 1..MaxFrame
        BY <1>10, <2>2
      <3> QED
        BY <1>4, <1>5, <3>1
    <2>6. CurrentAgeIsRight'
      <3>1. buffers'[b] # 0 => frame[b] # 0 /\ buffers'[b] = posted + 1 - frame[b]
        BY <1>10, <2>2
      <3>2. buffers'[b] = 0 => frame[b] = 0 \/ failed
        BY <1>4, <1>10, <2>2 DEF FramesInv, NoneIsEvicted
      <3> QED
        BY <1>3, <1>12, <2>1, <3>1, <3>2 DEF CurrentAgeIsRight, Gap
    <2>7. NoneIsEvicted'
      BY <1>12, <2>1, <2>2 DEF FramesInv, NoneIsEvicted
    <2> QED
      BY <1>3, <2>3, <2>4, <2>5, <2>6, <2>7 DEF FramesInv
  <1>14. CASE ~(b \in DOMAIN buffers \/ created)
    <2>1. buffers' = Aged(b) /\ current_buffer_iter' = NoBuffer /\ failed' = TRUE
      BY <1>2, <1>14 DEF deposit_package
    <2>2. DOMAIN buffers' = DOMAIN buffers
      BY <1>11, <2>1
    <2>3. FramesTypeOK'
      <3>1. \A x \in DOMAIN buffers' : x \in Buffer /\ buffers'[x] \in 0..MaxFrame
        BY <1>10, <2>1, <2>2
      <3> QED
        BY <1>0, <1>1, <1>12, <2>1, <2>2, <3>1 DEF FramesTypeOK
    <2>4. CurrentIsDrawn'
      BY <1>3, <1>12, <1>14, <2>1, <2>2 DEF CurrentIsDrawn, b
    <2>5. OldAgesAreRight'
      <3> SUFFICES ASSUME NEW x \in DOMAIN buffers
                   PROVE  /\ frame[x] # 0
                          /\ buffers'[x] # 0
                          /\ buffers'[x] = Deposits' - frame[x]
        BY <1>12, <2>2 DEF OldAgesAreRight
      <3>1. /\ frame[x] \in Nat \ {0}
            /\ buffers'[x] = posted + 1 - frame[x]
            /\ buffers'[x] \in 1..MaxFrame
        BY <1>10, <2>1
      <3> QED
        BY <1>4, <1>5, <3>1
    <2>6. CurrentAgeIsRight' /\ NoneIsEvicted'
      BY <2>1 DEF CurrentAgeIsRight, NoneIsEvicted
    <2> QED
      BY <1>3, <2>3, <2>4, <2>5, <2>6 DEF FramesInv
  <1> QED
    BY <1>13, <1>14

\* Every step of the composition preserves the invariant.
LEMMA FramesNextInvariant == FramesInv /\ [FramesNext]_frames_vars => FramesInv'
  <1> SUFFICES ASSUME FramesInv, [FramesNext]_frames_vars PROVE FramesInv'
    OBVIOUS
  <1>0. SwapperInv' /\ TypeOK
    BY SwapperNext DEF FramesInv, SwapperInv, IInv
  <1>1. ASSUME NEW c \in Client, process_incoming_buffer(c) PROVE FramesInv'
    BY <1>0, <1>1, DepositKeepsAges
  <1>2. ASSUME NEW c \in Client, RequestNext(c) PROVE FramesInv'
    BY <1>0, <1>2, RequestNextKeepsAges
  <1>3. ASSUME ServerStep PROVE FramesInv'
    <2>1. UNCHANGED depository_vars /\ UNCHANGED <<frame, posted>>
      BY <1>3 DEF ServerStep, client_acquire, SpuriousWakeup, compositor_acquire,
                  compositor_release, CompositorStop, ServerShutdown,
                  DestroySurface, shutdown
    <2>2. \A d \in Holders : d \in Holders' /\ client_buffer'[d] = client_buffer[d]
      BY <1>0, <1>3
         DEF ServerStep, client_acquire, SpuriousWakeup, compositor_acquire,
             compositor_release, notify_one, CompositorStop, ServerShutdown,
             DestroySurface, shutdown, Holders, TypeOK
    <2> QED
      BY <1>0, <2>1, <2>2, ServerKeepsFrames
  <1>4. CASE UNCHANGED frames_vars
    <2>1. UNCHANGED depository_vars /\ UNCHANGED <<frame, posted, client, client_buffer>>
      BY <1>4 DEF frames_vars, vars
    <2>2. \A d \in Holders : d \in Holders' /\ client_buffer'[d] = client_buffer[d]
      BY <2>1 DEF Holders
    <2> QED
      BY <1>0, <2>1, <2>2, ServerKeepsFrames
  <1> QED
    BY <1>1, <1>2, <1>3, <1>4 DEF FramesNext

\* The inductive invariant of swapper and depository holds throughout.
THEOREM FramesInvariance == FramesSpec => []FramesInv
  BY FramesInitInvariant, FramesNextInvariant, PTL DEF FramesSpec

\* The type of the depository's state: current_buffer_iter points into the map
\* or is end(), and an age is a number of frames.
THEOREM FramesTypeCorrect == FramesSpec => []FramesTypeOK
  <1>1. FramesInv => FramesTypeOK
    BY DEF FramesInv
  <1> QED
    BY <1>1, FramesInvariance, PTL

\* The client's calls drive the swapper as its own specification allows, so all
\* that is proved of the swapper holds in the composition.
THEOREM ClientUsesSwapper == FramesSpec => Spec
  <1>1. FramesInit => Init
    BY DEF FramesInit
  <1> QED
    BY <1>1, EveryStepIsTheSwappers, PTL DEF FramesSpec, Spec

\* The age that ClientBufferDepository gives the buffer a client draws is the
\* number of frames since it was posted, for any double or triple buffered
\* surface and any interleaving of the client with the compositor; "contents
\* unknown" is said of a blank buffer or after a wrapping that failed.
THEOREM AgesTellFrames == FramesSpec => []AgeTellsFrame
  <1>1. FramesInv => AgeTellsFrame
    <2> SUFFICES ASSUME FramesInv, NEW c \in deposited, current_buffer_iter # NoBuffer
                 PROVE  LET b == client_buffer[c] IN
                        /\ current_buffer_iter = b
                        /\ buffers[b] # 0 => frame[b] # 0 /\ buffers[b] = Gap(b)
                        /\ buffers[b] = 0 => frame[b] = 0 \/ failed
      BY DEF AgeTellsFrame, FramesInv, CurrentIsDrawn
    <2> QED
      BY DEF FramesInv, CurrentIsDrawn, CurrentAgeIsRight
  <1> QED
    BY <1>1, FramesInvariance, PTL

=============================================================================
