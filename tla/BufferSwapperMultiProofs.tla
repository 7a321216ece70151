---------------------- MODULE BufferSwapperMultiProofs ----------------------
(***************************************************************************)
(* The swapper's safety, for any two or three buffers, any finite set of   *)
(* client threads and any number of frames.  The inductive invariant joins *)
(* ownership (which buffer is where), accounting (how many are where) and  *)
(* the frames they carry: the loop of client_acquire leaves one buffer     *)
(* outside the clients' hands by counting, and that this buffer is the one *)
(* shown last follows from the ends of the deques each side takes from.    *)
(***************************************************************************)
EXTENDS BufferSwapperMulti, FiniteSetTheorems, SequenceTheorems, TLAPS

IInv ==
    /\ TypeOK
    /\ ExclusiveOwnership
    /\ BuffersAccountedFor
    /\ UndefinedOnlyMidFrame
    /\ LastShownIsKept

\* pop_front of a deque without repetitions removes exactly its front.
LEMMA PopFront ==
    ASSUME NEW S, NEW q \in Seq(S), q # << >>, NoRepeat(q)
    PROVE  /\ Head(q) \in S
           /\ Head(q) = q[1]
           /\ Head(q) \in Items(q)
           /\ Tail(q) \in Seq(S)
           /\ Len(Tail(q)) = Len(q) - 1
           /\ \A i \in 1..Len(Tail(q)) : Tail(q)[i] = q[i + 1]
           /\ NoRepeat(Tail(q))
           /\ Items(Tail(q)) = Items(q) \ {Head(q)}
  <1>1. Len(q) \in Nat \ {0}
    OBVIOUS
  <1>2. /\ Head(q) = q[1]
        /\ q[1] \in S
        /\ Tail(q) \in Seq(S)
        /\ Len(Tail(q)) = Len(q) - 1
        /\ \A i \in 1..Len(Tail(q)) : Tail(q)[i] = q[i + 1]
    BY <1>1
  <1>3. Head(q) \in Items(q)
    BY <1>1, <1>2 DEF Items
  <1>4. NoRepeat(Tail(q))
    <2> SUFFICES ASSUME NEW i \in 1..Len(Tail(q)), NEW j \in 1..Len(Tail(q)),
                        Tail(q)[i] = Tail(q)[j]
                 PROVE  i = j
      BY DEF NoRepeat
    <2>1. i + 1 \in 1..Len(q) /\ j + 1 \in 1..Len(q) /\ q[i + 1] = q[j + 1]
      BY <1>1, <1>2
    <2> QED
      BY <2>1 DEF NoRepeat
  <1>5. Items(Tail(q)) \subseteq Items(q) \ {Head(q)}
    <2> SUFFICES ASSUME NEW i \in 1..Len(Tail(q))
                 PROVE  Tail(q)[i] \in Items(q) \ {Head(q)}
      BY DEF Items
    <2>1. i + 1 \in 1..Len(q) /\ 1 \in 1..Len(q) /\ i + 1 # 1
      BY <1>1, <1>2
    <2>2. q[i + 1] # q[1]
      BY <2>1 DEF NoRepeat
    <2> QED
      BY <1>2, <2>1, <2>2 DEF Items
  <1>6. Items(q) \ {Head(q)} \subseteq Items(Tail(q))
    <2> SUFFICES ASSUME NEW i \in 1..Len(q), q[i] # q[1]
                 PROVE  q[i] \in Items(Tail(q))
      BY <1>2 DEF Items
    <2>1. i - 1 \in 1..Len(Tail(q)) /\ Tail(q)[i - 1] = q[i]
      BY <1>1, <1>2
    <2> QED
      BY <2>1 DEF Items
  <1> QED
    BY <1>2, <1>3, <1>4, <1>5, <1>6

\* pop_back of a deque without repetitions removes exactly its back.
LEMMA PopBack ==
    ASSUME NEW S, NEW q \in Seq(S), q # << >>, NoRepeat(q)
    PROVE  /\ q[Len(q)] \in S
           /\ q[Len(q)] \in Items(q)
           /\ SubSeq(q, 1, Len(q) - 1) \in Seq(S)
           /\ Len(SubSeq(q, 1, Len(q) - 1)) = Len(q) - 1
           /\ \A i \in 1..(Len(q) - 1) : SubSeq(q, 1, Len(q) - 1)[i] = q[i]
           /\ NoRepeat(SubSeq(q, 1, Len(q) - 1))
           /\ Items(SubSeq(q, 1, Len(q) - 1)) = Items(q) \ {q[Len(q)]}
  <1> DEFINE n == Len(q) - 1
             r == SubSeq(q, 1, n)
  <1>1. n \in Nat /\ Len(q) = n + 1
    OBVIOUS
  <1>2. q[Len(q)] \in S /\ \A i \in 1..n : q[i] \in S
    BY <1>1
  <1> HIDE DEF n
  <1>3. /\ r \in Seq(S)
        /\ Len(r) = IF 1 <= n THEN n - 1 + 1 ELSE 0
        /\ \A i \in 1..(n - 1 + 1) : r[i] = q[1 + i - 1]
    BY <1>1, <1>2, SubSeqProperties
  <1> HIDE DEF r
  <1>4. r \in Seq(S) /\ Len(r) = n /\ \A i \in 1..n : r[i] = q[i]
    BY <1>1, <1>3
  <1>5. q[Len(q)] \in Items(q)
    BY <1>1 DEF Items
  <1>6. NoRepeat(r)
    BY <1>1, <1>4 DEF NoRepeat
  <1>7. Items(r) \subseteq Items(q) \ {q[Len(q)]}
    <2> SUFFICES ASSUME NEW i \in 1..n
                 PROVE  r[i] \in Items(q) \ {q[Len(q)]}
      BY <1>4 DEF Items
    <2>1. i \in 1..Len(q) /\ Len(q) \in 1..Len(q) /\ i # Len(q)
      BY <1>1
    <2>2. q[i] # q[Len(q)]
      BY <2>1 DEF NoRepeat
    <2> QED
      BY <1>4, <2>1, <2>2 DEF Items
  <1>8. Items(q) \ {q[Len(q)]} \subseteq Items(r)
    <2> SUFFICES ASSUME NEW i \in 1..Len(q), q[i] # q[Len(q)]
                 PROVE  q[i] \in Items(r)
      BY DEF Items
    <2>1. i \in 1..n
      BY <1>1
    <2> QED
      BY <1>4, <2>1 DEF Items
  <1> QED
    BY <1>2, <1>4, <1>5, <1>6, <1>7, <1>8 DEF n, r

\* push_back of a new element adds exactly that element.
LEMMA PushBack ==
    ASSUME NEW S, NEW q \in Seq(S), NEW x \in S, x \notin Items(q), NoRepeat(q)
    PROVE  /\ Append(q, x) \in Seq(S)
           /\ Len(Append(q, x)) = Len(q) + 1
           /\ Append(q, x)[Len(q) + 1] = x
           /\ \A i \in 1..Len(q) : Append(q, x)[i] = q[i]
           /\ NoRepeat(Append(q, x))
           /\ Items(Append(q, x)) = Items(q) \cup {x}
  <1>1. Len(q) \in Nat
    OBVIOUS
  <1>2. /\ Append(q, x) \in Seq(S)
        /\ Len(Append(q, x)) = Len(q) + 1
        /\ Append(q, x)[Len(q) + 1] = x
        /\ \A i \in 1..Len(q) : Append(q, x)[i] = q[i]
    BY <1>1
  <1>3. \A i \in 1..(Len(q) + 1) : i = Len(q) + 1 \/ i \in 1..Len(q)
    BY <1>1
  <1>4. \A i \in 1..Len(q) : q[i] # x
    BY DEF Items
  <1>5. NoRepeat(Append(q, x))
    BY <1>2, <1>3, <1>4 DEF NoRepeat
  <1>6. Items(Append(q, x)) \subseteq Items(q) \cup {x}
    BY <1>2, <1>3 DEF Items
  <1>7. Items(q) \cup {x} \subseteq Items(Append(q, x))
    <2>1. Len(q) + 1 \in 1..Len(Append(q, x))
      BY <1>1, <1>2
    <2>2. x \in Items(Append(q, x))
      BY <1>2, <2>1 DEF Items
    <2>3. \A i \in 1..Len(q) : i \in 1..Len(Append(q, x))
      BY <1>1, <1>2
    <2>4. Items(q) \subseteq Items(Append(q, x))
      BY <1>2, <2>3 DEF Items
    <2> QED
      BY <1>1, <2>2, <2>4
  <1> QED
    BY <1>2, <1>5, <1>6, <1>7

\* The number of buffers, which initialize_queues restricts to two or three.
LEMMA NumberOfBuffers == N \in {2, 3}
  BY BufferAssumption DEF N

\* The threads that hold a buffer are finitely many.
LEMMA HoldersFinite == IsFiniteSet(Holders) /\ Cardinality(Holders) \in Nat
  <1>1. Holders \subseteq Client
    BY DEF Holders
  <1>2. IsFiniteSet(Holders)
    BY <1>1, ClientAssumption, FS_Subset
  <1> QED
    BY <1>2, FS_CardinalityType

\* A freshly constructed swapper satisfies the inductive invariant.
LEMMA InitInvariant == Init => IInv
  <1> SUFFICES ASSUME Init PROVE IInv
    OBVIOUS
  <1> USE NumberOfBuffers DEF Init, initialize_queues
  <1>1. client_queue \in Seq(Buffer) /\ Len(client_queue) = N
    BY SMT
  <1>2. Holders = {}
    BY DEF Holders
  <1>3. Cardinality(Holders) = 0
    BY <1>2, FS_EmptySet
  <1>4. TypeOK
    BY <1>1 DEF TypeOK
  <1>5. ExclusiveOwnership
    BY <1>1, <1>2, BufferAssumption DEF ExclusiveOwnership, NoRepeat, Items
  <1>6. BuffersAccountedFor
    BY <1>1, <1>3 DEF BuffersAccountedFor, Held
  <1>7. UndefinedOnlyMidFrame
    BY DEF UndefinedOnlyMidFrame
  <1>8. LastShownIsKept
    BY <1>1 DEF LastShownIsKept
  <1> QED
    BY <1>4, <1>5, <1>6, <1>7, <1>8 DEF IInv

\* Taking a buffer or joining the wait set preserves the invariant.
LEMMA ClientAcquireInvariant ==
    ASSUME IInv, NEW c \in Client, client_acquire(c)
    PROVE  IInv'
  <1> USE NumberOfBuffers, BufferAssumption
  <1> USE DEF IInv
  <1>1. CASE MustWait
    <2>0. /\ UNCHANGED <<client_queue, compositor_queue, in_use_by_client,
                         client_buffer, compositor_buffer, status, frame,
                         posted, shown>>
          /\ client' = [client EXCEPT ![c] = "waiting"]
          /\ client[c] # "holding"
      BY <1>1 DEF client_acquire
    <2>1. Holders' = Holders
      BY <2>0 DEF Holders, TypeOK
    <2>2. TypeOK'
      BY <2>0 DEF TypeOK
    <2>3. ExclusiveOwnership'
      BY <2>0, <2>1 DEF ExclusiveOwnership
    <2>4. BuffersAccountedFor'
      BY <2>0, <2>1 DEF BuffersAccountedFor, Held, Usable
    <2>5. UndefinedOnlyMidFrame' /\ LastShownIsKept'
      BY <2>0 DEF UndefinedOnlyMidFrame, LastShownIsKept
    <2> QED
      BY <2>2, <2>3, <2>4, <2>5
  <1>2. CASE ~MustWait
    <2>0. /\ client' = [client EXCEPT ![c] = "holding"]
          /\ client_buffer' = [client_buffer EXCEPT ![c] = Head(client_queue)]
          /\ client_queue' = Tail(client_queue)
          /\ in_use_by_client' = in_use_by_client + 1
          /\ UNCHANGED <<compositor_queue, compositor_buffer, status, frame,
                         posted, shown>>
          /\ client[c] # "holding"
          /\ Usable
          /\ client_queue # << >>
          /\ in_use_by_client # N - 1
      BY <1>2 DEF client_acquire, MustWait
    <2>1. Holders' = Holders \cup {c} /\ c \notin Holders
      BY <2>0 DEF Holders, TypeOK
    <2>2. /\ Head(client_queue) \in Buffer
          /\ Head(client_queue) \in Items(client_queue)
          /\ client_queue' \in Seq(Buffer)
          /\ Len(client_queue') = Len(client_queue) - 1
          /\ \A i \in 1..Len(client_queue') : client_queue'[i] = client_queue[i + 1]
          /\ NoRepeat(client_queue')
          /\ Items(client_queue') = Items(client_queue) \ {Head(client_queue)}
      BY <2>0, PopFront DEF TypeOK, ExclusiveOwnership
    <2>3. in_use_by_client + 1 \in 0..(N - 1)
      BY <2>0 DEF BuffersAccountedFor, TypeOK
    <2>4. TypeOK'
      BY <2>0, <2>2, <2>3 DEF TypeOK
    <2>5. ExclusiveOwnership'
      <3>1. \A d \in Holders : client_buffer'[d] = client_buffer[d]
        BY <2>0, <2>1 DEF TypeOK, Holders
      <3>2. client_buffer'[c] = Head(client_queue)
        BY <2>0 DEF TypeOK
      <3> QED
        BY <2>0, <2>1, <2>2, <3>1, <3>2 DEF ExclusiveOwnership
    <2>6. BuffersAccountedFor'
      <3>1. Cardinality(Holders') = Cardinality(Holders) + 1
        BY <2>1, HoldersFinite, FS_AddElement
      <3> QED
        BY <2>0, <2>2, <2>3, <3>1 DEF BuffersAccountedFor, Held, Usable, TypeOK
    <2>7. UndefinedOnlyMidFrame'
      BY <2>0 DEF UndefinedOnlyMidFrame, Usable
    <2>8. LastShownIsKept'
      <3>1. compositor_buffer = NoBuffer /\ compositor_queue = << >> =>
               Len(client_queue) >= 2
        BY <2>0, <2>3 DEF BuffersAccountedFor, Held, TypeOK
      <3>2. Len(client_queue) >= 2 =>
               /\ client_queue' # << >>
               /\ client_queue'[Len(client_queue')] = client_queue[Len(client_queue)]
        BY <2>2 DEF TypeOK
      <3> QED
        BY <2>0, <3>1, <3>2 DEF LastShownIsKept
    <2> QED
      BY <2>4, <2>5, <2>6, <2>7, <2>8
  <1> QED
    BY <1>1, <1>2

\* Posting a frame preserves the invariant.
LEMMA ClientReleaseInvariant ==
    ASSUME IInv, NEW c \in Client, client_release(c)
    PROVE  IInv'
  <1> USE NumberOfBuffers, BufferAssumption
  <1> USE DEF IInv
  <1> DEFINE b == client_buffer[c]
  <1>0. /\ Usable
        /\ client[c] = "holding"
        /\ compositor_queue' = Append(compositor_queue, b)
        /\ in_use_by_client' = in_use_by_client - 1
        /\ client' = [client EXCEPT ![c] = "idle"]
        /\ client_buffer' = [client_buffer EXCEPT ![c] = NoBuffer]
        /\ posted' = posted + 1
        /\ frame' = [frame EXCEPT ![b] = posted + 1]
        /\ UNCHANGED <<client_queue, compositor_buffer, status, shown>>
    BY DEF client_release, PostFrame
  <1>1. Holders' = Holders \ {c} /\ c \in Holders
    BY <1>0 DEF Holders, TypeOK
  <1>2. /\ b \in Buffer
        /\ b \notin Items(client_queue) \cup Items(compositor_queue)
        /\ b # compositor_buffer
        /\ \A d \in Holders : client_buffer[d] = b => d = c
    BY <1>1 DEF ExclusiveOwnership
  <1> HIDE DEF b
  <1>3. /\ compositor_queue' \in Seq(Buffer)
        /\ Len(compositor_queue') = Len(compositor_queue) + 1
        /\ compositor_queue'[Len(compositor_queue) + 1] = b
        /\ \A i \in 1..Len(compositor_queue) :
              compositor_queue'[i] = compositor_queue[i]
        /\ NoRepeat(compositor_queue')
        /\ Items(compositor_queue') = Items(compositor_queue) \cup {b}
    BY <1>0, <1>2, PushBack DEF TypeOK, ExclusiveOwnership
  <1>4. Cardinality(Holders') = Cardinality(Holders) - 1
    BY <1>1, HoldersFinite, FS_RemoveElement
  <1>5. in_use_by_client >= 1
    <2>1. Cardinality(Holders) # 0
      BY <1>1, HoldersFinite, FS_EmptySet
    <2> QED
      BY <1>0, <2>1, HoldersFinite DEF BuffersAccountedFor
  <1>6. TypeOK'
    BY <1>0, <1>2, <1>3, <1>5 DEF TypeOK
  <1>7. ExclusiveOwnership'
    <2>1. \A d \in Holders' : client_buffer'[d] = client_buffer[d]
      BY <1>0, <1>1 DEF TypeOK, Holders
    <2>2. \A d \in Holders' : client_buffer[d] # b
      BY <1>1, <1>2
    <2> QED
      BY <1>0, <1>1, <1>2, <1>3, <2>1, <2>2 DEF ExclusiveOwnership
  <1>8. BuffersAccountedFor'
    BY <1>0, <1>3, <1>4, <1>5 DEF BuffersAccountedFor, Held, Usable, TypeOK
  <1>9. UndefinedOnlyMidFrame'
    BY <1>0 DEF UndefinedOnlyMidFrame, Usable
  <1>10. LastShownIsKept'
    <2> SUFFICES ASSUME status = "live" PROVE LastShownIsKept'
      BY <1>0 DEF LastShownIsKept
    <2>1. \A x \in Buffer \ {b} : frame'[x] = frame[x]
      BY <1>0 DEF TypeOK
    <2>2. frame'[b] = posted + 1
      BY <1>0, <1>2 DEF TypeOK
    <2>3. \A i \in 1..Len(compositor_queue) :
             compositor_queue[i] \in Buffer \ {b}
      BY <1>2 DEF Items, TypeOK
    <2>4. posted = shown + Len(compositor_queue)
      BY DEF LastShownIsKept
    <2>5. \A i \in 1..Len(compositor_queue') :
             frame'[compositor_queue'[i]] = shown + i
      <3> TAKE i \in 1..Len(compositor_queue')
      <3>1. CASE i = Len(compositor_queue) + 1
        BY <1>3, <2>2, <2>4, <3>1 DEF TypeOK
      <3>2. CASE i \in 1..Len(compositor_queue)
        BY <1>3, <2>1, <2>3, <3>2 DEF LastShownIsKept
      <3> QED
        BY <1>3, <3>1, <3>2 DEF TypeOK
    <2>6. compositor_buffer # NoBuffer => frame'[compositor_buffer] = shown
      BY <1>2, <2>1 DEF LastShownIsKept, TypeOK
    <2>7. compositor_queue' # << >>
      BY <1>3 DEF TypeOK
    <2>8. posted' = shown' + Len(compositor_queue')
      BY <1>0, <1>3, <2>4 DEF TypeOK
    <2> QED
      BY <1>0, <2>5, <2>6, <2>7, <2>8 DEF LastShownIsKept
  <1> QED
    BY <1>6, <1>7, <1>8, <1>9, <1>10

\* Giving the compositor a buffer preserves the invariant; the branch that
\* reads an empty deque is never taken.
LEMMA CompositorAcquireInvariant ==
    ASSUME IInv, compositor_acquire
    PROVE  IInv' /\ (client_queue # << >> \/ compositor_queue # << >>)
  <1> USE NumberOfBuffers, BufferAssumption
  <1> USE DEF IInv
  <1>0. /\ status = "live"
        /\ compositor_buffer = NoBuffer
        /\ shown' = IF compositor_buffer' = NoBuffer THEN shown
                    ELSE frame[compositor_buffer']
        /\ UNCHANGED <<in_use_by_client, client, client_buffer, frame, posted>>
    BY DEF compositor_acquire
  <1>1. client_queue # << >> \/ compositor_queue # << >>
    BY <1>0 DEF BuffersAccountedFor, Usable, Held, TypeOK
  <1>2. Holders' = Holders
    BY <1>0 DEF Holders
  <1>3. CASE compositor_queue # << >>
    <2>0. /\ compositor_buffer' = Head(compositor_queue)
          /\ compositor_queue' = Tail(compositor_queue)
          /\ UNCHANGED <<client_queue, status>>
      BY <1>3 DEF compositor_acquire, FromCompositorQueue
    <2>1. /\ Head(compositor_queue) \in Buffer
          /\ Head(compositor_queue) = compositor_queue[1]
          /\ Head(compositor_queue) \in Items(compositor_queue)
          /\ compositor_queue' \in Seq(Buffer)
          /\ Len(compositor_queue') = Len(compositor_queue) - 1
          /\ \A i \in 1..Len(compositor_queue') :
                compositor_queue'[i] = compositor_queue[i + 1]
          /\ NoRepeat(compositor_queue')
          /\ Items(compositor_queue') =
                Items(compositor_queue) \ {Head(compositor_queue)}
      BY <1>3, <2>0, PopFront DEF TypeOK, ExclusiveOwnership
    <2>2. Len(compositor_queue) \in Nat \ {0}
      BY <1>3 DEF TypeOK
    <2>3. shown' = shown + 1 /\ shown' = frame[Head(compositor_queue)]
      BY <1>0, <2>0, <2>1, <2>2 DEF LastShownIsKept
    <2>4. TypeOK'
      BY <1>0, <2>0, <2>1, <2>3 DEF TypeOK
    <2>5. ExclusiveOwnership'
      BY <1>0, <1>2, <2>0, <2>1 DEF ExclusiveOwnership
    <2>6. BuffersAccountedFor'
      BY <1>0, <1>2, <2>0, <2>1, <2>2 DEF BuffersAccountedFor, Held, Usable, TypeOK
    <2>7. UndefinedOnlyMidFrame'
      BY <1>0, <2>0 DEF UndefinedOnlyMidFrame
    <2>8. LastShownIsKept'
      <3>1. posted' = shown' + Len(compositor_queue')
        BY <1>0, <2>1, <2>2, <2>3 DEF LastShownIsKept, TypeOK
      <3>2. \A i \in 1..Len(compositor_queue') :
               frame[compositor_queue'[i]] = shown' + i
        <4> TAKE i \in 1..Len(compositor_queue')
        <4>1. i + 1 \in 1..Len(compositor_queue)
          BY <2>1, <2>2
        <4>2. frame[compositor_queue[i + 1]] = shown + (i + 1)
          BY <1>0, <4>1 DEF LastShownIsKept
        <4>3. frame[compositor_queue'[i]] = shown + (i + 1)
          BY <2>1, <4>2, Zenon
        <4>4. shown \in Nat /\ i \in Nat
          BY <2>1, <2>2 DEF TypeOK
        <4>5. shown + (i + 1) = shown' + i
          BY <2>3, <4>4
        <4> QED
          BY <4>3, <4>5, Zenon
      <3>3. compositor_buffer' # NoBuffer /\ frame[compositor_buffer'] = shown'
        BY <2>0, <2>1, <2>3
      <3> QED
        BY <1>0, <3>1, <3>2, <3>3 DEF LastShownIsKept
    <2> QED
      BY <1>1, <2>4, <2>5, <2>6, <2>7, <2>8
  <1>4. CASE compositor_queue = << >> /\ client_queue # << >>
    <2> DEFINE b == client_queue[Len(client_queue)]
    <2>0. /\ compositor_buffer' = b
          /\ client_queue' = SubSeq(client_queue, 1, Len(client_queue) - 1)
          /\ UNCHANGED <<compositor_queue, status>>
      BY <1>4 DEF compositor_acquire, FromClientQueue
    <2>1. /\ b \in Buffer
          /\ b \in Items(client_queue)
          /\ client_queue' \in Seq(Buffer)
          /\ Len(client_queue') = Len(client_queue) - 1
          /\ NoRepeat(client_queue')
          /\ Items(client_queue') = Items(client_queue) \ {b}
      BY <1>4, <2>0, PopBack DEF TypeOK, ExclusiveOwnership
    <2>2. shown' = shown /\ frame[b] = shown
      BY <1>0, <1>4, <2>0, <2>1 DEF LastShownIsKept
    <2>3. Len(client_queue) \in Nat \ {0}
      BY <1>4 DEF TypeOK
    <2> HIDE DEF b
    <2>4. TypeOK'
      BY <1>0, <2>0, <2>1, <2>2 DEF TypeOK
    <2>5. ExclusiveOwnership'
      BY <1>0, <1>2, <2>0, <2>1 DEF ExclusiveOwnership
    <2>6. BuffersAccountedFor'
      <3>1. Held = 0 /\ Held' = 1
        BY <1>0, <2>0, <2>1 DEF Held
      <3> QED
        BY <1>0, <1>2, <2>0, <2>1, <2>3, <3>1
           DEF BuffersAccountedFor, Usable, TypeOK
    <2>7. UndefinedOnlyMidFrame'
      BY <1>0, <2>0 DEF UndefinedOnlyMidFrame
    <2>8. LastShownIsKept'
      BY <1>0, <1>4, <2>0, <2>1, <2>2 DEF LastShownIsKept, TypeOK
    <2> QED
      BY <1>1, <2>4, <2>5, <2>6, <2>7, <2>8
  <1> QED
    BY <1>1, <1>3, <1>4

\* Returning the compositor's buffer preserves the invariant.
LEMMA CompositorReleaseInvariant ==
    ASSUME IInv, compositor_release
    PROVE  IInv'
  <1> USE NumberOfBuffers, BufferAssumption
  <1> USE DEF IInv
  <1>0. /\ compositor_buffer # NoBuffer
        /\ compositor_buffer' = NoBuffer
        /\ status # "undefined"
        /\ UNCHANGED <<compositor_queue, in_use_by_client, client_buffer,
                       status, frame, posted, shown>>
    BY DEF compositor_release
  <1>1. client' \in [Client -> {"idle", "waiting", "awake", "holding"}]
    BY DEF compositor_release, notify_one, TypeOK
  <1>2. Holders' = Holders
    BY DEF compositor_release, notify_one, TypeOK, Holders
  <1>3. CASE Usable
    <2>0. client_queue' = Append(client_queue, compositor_buffer)
      BY <1>3 DEF compositor_release
    <2>1. /\ client_queue' \in Seq(Buffer)
          /\ Len(client_queue') = Len(client_queue) + 1
          /\ client_queue'[Len(client_queue) + 1] = compositor_buffer
          /\ NoRepeat(client_queue')
          /\ Items(client_queue') = Items(client_queue) \cup {compositor_buffer}
      BY <1>0, <2>0, PushBack DEF TypeOK, ExclusiveOwnership
    <2>2. TypeOK'
      BY <1>0, <1>1, <2>1 DEF TypeOK
    <2>3. ExclusiveOwnership'
      <3>1. NoBuffer \notin Items(client_queue') \cup Items(compositor_queue)
        BY <2>1, <1>0 DEF Items, TypeOK
      <3> QED
        BY <1>0, <1>2, <2>1, <3>1 DEF ExclusiveOwnership
    <2>4. BuffersAccountedFor'
      BY <1>0, <1>2, <2>1 DEF BuffersAccountedFor, Usable, Held, TypeOK
    <2>5. UndefinedOnlyMidFrame'
      BY <1>0 DEF UndefinedOnlyMidFrame
    <2>6. LastShownIsKept'
      <3>1. client_queue' # << >>
        BY <2>1 DEF TypeOK
      <3> QED
        BY <1>0, <2>1, <3>1 DEF LastShownIsKept
    <2> QED
      BY <2>2, <2>3, <2>4, <2>5, <2>6
  <1>4. CASE ~Usable
    <2>0. UNCHANGED <<client_queue, client>>
      BY <1>4 DEF compositor_release
    <2>1. NoBuffer \notin Items(client_queue) \cup Items(compositor_queue)
      BY DEF Items, TypeOK
    <2>2. TypeOK'
      BY <1>0, <1>1, <2>0 DEF TypeOK
    <2>3. ExclusiveOwnership'
      BY <1>0, <1>2, <2>0, <2>1 DEF ExclusiveOwnership
    <2>4. BuffersAccountedFor' /\ UndefinedOnlyMidFrame' /\ LastShownIsKept'
      BY <1>0, <1>4
         DEF BuffersAccountedFor, UndefinedOnlyMidFrame, LastShownIsKept, Usable
    <2> QED
      BY <2>2, <2>3, <2>4
  <1> QED
    BY <1>3, <1>4

\* Shutting down preserves the invariant, and takes the undefined branch only
\* when the compositor holds a buffer.
LEMMA ShutdownInvariant ==
    ASSUME IInv, Usable, NEW then \in {"stopped", "destroyed"},
           status = "live" => then = "destroyed", shutdown(then)
    PROVE  IInv'
  <1> USE NumberOfBuffers, BufferAssumption
  <1> USE DEF IInv
  <1>0. /\ client' = [c \in Client |->
                         IF client[c] = "waiting" THEN "awake" ELSE client[c]]
        /\ UNCHANGED <<in_use_by_client, client_buffer, compositor_buffer,
                       frame, posted, shown>>
        /\ status' \in {then, "undefined"}
    BY DEF shutdown, RefillClientQueue
  <1>1. client' \in [Client -> {"idle", "waiting", "awake", "holding"}]
    BY <1>0 DEF TypeOK
  <1>2. Holders' = Holders
    BY <1>0 DEF TypeOK, Holders
  <1>3. LastShownIsKept'
    BY <1>0 DEF LastShownIsKept
  <1>4. CASE client_queue = << >> /\ compositor_queue # << >>
    <2> DEFINE b == Head(compositor_queue)
    <2>0. /\ client_queue' = Append(client_queue, b)
          /\ compositor_queue' = Tail(compositor_queue)
          /\ status' = then
      BY <1>4 DEF shutdown, RefillClientQueue
    <2>1. /\ b \in Buffer
          /\ b \in Items(compositor_queue)
          /\ compositor_queue' \in Seq(Buffer)
          /\ Len(compositor_queue') = Len(compositor_queue) - 1
          /\ NoRepeat(compositor_queue')
          /\ Items(compositor_queue') = Items(compositor_queue) \ {b}
      BY <1>4, <2>0, PopFront DEF TypeOK, ExclusiveOwnership
    <2> HIDE DEF b
    <2>2. b \notin Items(client_queue)
      BY <2>1 DEF ExclusiveOwnership
    <2>3. /\ client_queue' \in Seq(Buffer)
          /\ Len(client_queue') = Len(client_queue) + 1
          /\ NoRepeat(client_queue')
          /\ Items(client_queue') = Items(client_queue) \cup {b}
      BY <2>0, <2>1, <2>2, PushBack DEF TypeOK, ExclusiveOwnership
    <2>4. TypeOK'
      BY <1>0, <1>1, <2>1, <2>3 DEF TypeOK
    <2>5. ExclusiveOwnership'
      BY <1>0, <1>2, <2>1, <2>3 DEF ExclusiveOwnership
    <2>6. BuffersAccountedFor'
      <3>1. Len(client_queue) \in Nat /\ Len(compositor_queue) \in Nat
        BY DEF TypeOK
      <3>2. Held' = Held /\ Held \in {0, 1}
        BY <1>0 DEF Held
      <3>3. Len(client_queue') + Len(compositor_queue') =
               Len(client_queue) + Len(compositor_queue)
        BY <2>1, <2>3, <3>1
      <3> QED
        BY <1>0, <1>2, <3>2, <3>3 DEF BuffersAccountedFor
    <2>7. UndefinedOnlyMidFrame'
      BY <2>0 DEF UndefinedOnlyMidFrame
    <2> QED
      BY <1>3, <2>4, <2>5, <2>6, <2>7
  <1>5. CASE client_queue # << >> \/ compositor_queue = << >>
    <2>0. UNCHANGED <<client_queue, compositor_queue>>
      BY <1>5 DEF shutdown, RefillClientQueue
    <2>1. TypeOK'
      BY <1>0, <1>1, <2>0 DEF TypeOK
    <2>2. ExclusiveOwnership'
      BY <1>0, <1>2, <2>0 DEF ExclusiveOwnership
    <2>3. BuffersAccountedFor'
      BY <1>0, <1>2, <2>0 DEF BuffersAccountedFor, Held
    <2>4. UndefinedOnlyMidFrame'
      <3>1. CASE client_queue # << >>
        BY <3>1 DEF UndefinedOnlyMidFrame, shutdown, RefillClientQueue
      <3>2. CASE client_queue = << >> /\ compositor_queue = << >>
        <4>1. in_use_by_client + Held = N /\ in_use_by_client <= N - 1
          BY <3>2 DEF BuffersAccountedFor, Held, TypeOK
        <4> QED
          BY <1>0, <4>1 DEF UndefinedOnlyMidFrame, Held, TypeOK
      <3> QED
        BY <1>5, <3>1, <3>2
    <2> QED
      BY <1>3, <2>1, <2>2, <2>3, <2>4
  <1> QED
    BY <1>4, <1>5

\* Every step of the swapper's users preserves the inductive invariant.
LEMMA NextInvariant == IInv /\ [Next]_vars => IInv'
  <1> SUFFICES ASSUME IInv, [Next]_vars PROVE IInv'
    OBVIOUS
  <1>1. ASSUME NEW c \in Client, client_acquire(c) PROVE IInv'
    BY <1>1, ClientAcquireInvariant
  <1>2. ASSUME NEW c \in Client, client_release(c) PROVE IInv'
    BY <1>2, ClientReleaseInvariant
  <1>3. ASSUME NEW c \in Client, SpuriousWakeup(c) PROVE IInv'
    <2>0. /\ client' = [client EXCEPT ![c] = "awake"]
          /\ client[c] = "waiting"
          /\ UNCHANGED <<client_queue, compositor_queue, in_use_by_client,
                         client_buffer, compositor_buffer, status, frame,
                         posted, shown>>
      BY <1>3 DEF SpuriousWakeup
    <2>1. TypeOK' /\ Holders' = Holders
      BY <2>0 DEF IInv, TypeOK, Holders
    <2>2. ExclusiveOwnership'
      BY <2>0, <2>1 DEF IInv, ExclusiveOwnership
    <2>3. BuffersAccountedFor' /\ UndefinedOnlyMidFrame' /\ LastShownIsKept'
      BY <2>0, <2>1
         DEF IInv, BuffersAccountedFor, Held, Usable, UndefinedOnlyMidFrame,
             LastShownIsKept
    <2> QED
      BY <2>1, <2>2, <2>3 DEF IInv
  <1>4. CASE compositor_acquire
    BY <1>4, CompositorAcquireInvariant
  <1>5. CASE compositor_release
    BY <1>5, CompositorReleaseInvariant
  <1>6. CASE CompositorStop
    <2>0. /\ status = "live" /\ status' = "stopped"
          /\ UNCHANGED <<client_queue, compositor_queue, in_use_by_client,
                         client, client_buffer, compositor_buffer, frame,
                         posted, shown>>
      BY <1>6 DEF CompositorStop
    <2>1. TypeOK' /\ Holders' = Holders
      BY <2>0 DEF IInv, TypeOK, Holders
    <2>2. ExclusiveOwnership'
      BY <2>0, <2>1 DEF IInv, ExclusiveOwnership
    <2>3. BuffersAccountedFor' /\ UndefinedOnlyMidFrame' /\ LastShownIsKept'
      BY <2>0, <2>1
         DEF IInv, BuffersAccountedFor, Held, Usable, UndefinedOnlyMidFrame,
             LastShownIsKept
    <2> QED
      BY <2>1, <2>2, <2>3 DEF IInv
  <1>7. CASE ServerShutdown
    <2>1. Usable /\ status # "live" /\ shutdown("stopped")
      BY <1>7 DEF ServerShutdown, Usable
    <2> QED
      BY <2>1, ShutdownInvariant
  <1>8. CASE DestroySurface
    <2>1. Usable /\ shutdown("destroyed")
      BY <1>8 DEF DestroySurface
    <2> QED
      BY <2>1, ShutdownInvariant
  <1>9. CASE UNCHANGED vars
    <2>0. UNCHANGED <<client_queue, compositor_queue, in_use_by_client, client,
                      client_buffer, compositor_buffer, status, frame, posted,
                      shown>>
      BY <1>9 DEF vars
    <2>1. TypeOK' /\ Holders' = Holders
      BY <2>0 DEF IInv, TypeOK, Holders
    <2>2. ExclusiveOwnership'
      BY <2>0, <2>1 DEF IInv, ExclusiveOwnership
    <2>3. BuffersAccountedFor' /\ UndefinedOnlyMidFrame' /\ LastShownIsKept'
      BY <2>0, <2>1
         DEF IInv, BuffersAccountedFor, Held, Usable, UndefinedOnlyMidFrame,
             LastShownIsKept
    <2> QED
      BY <2>1, <2>2, <2>3 DEF IInv
  <1> QED
    BY <1>1, <1>2, <1>3, <1>4, <1>5, <1>6, <1>7, <1>8, <1>9 DEF Next

\* The whole inductive invariant holds in every reachable state.
THEOREM Invariance == Spec => []IInv
  <1>1. Init => IInv
    BY InitInvariant
  <1>2. IInv /\ [Next]_vars => IInv'
    BY NextInvariant
  <1> QED
    BY <1>1, <1>2, PTL DEF Spec

\* The swapper's state is well typed; in particular the unsigned counter
\* in_use_by_client is never decremented below zero.
THEOREM TypeCorrect == Spec => []TypeOK
  <1>1. IInv => TypeOK
    BY DEF IInv
  <1> QED
    BY <1>1, Invariance, PTL

\* No buffer is ever in two hands, or in somebody's hands and in a deque.
THEOREM OwnershipIsExclusive == Spec => []ExclusiveOwnership
  <1>1. IInv => ExclusiveOwnership
    BY DEF IInv
  <1> QED
    BY <1>1, Invariance, PTL

\* No buffer is lost, and the clients never get hold of all of them.
THEOREM NoBufferIsLost == Spec => []BuffersAccountedFor
  <1>1. IInv => BuffersAccountedFor
    BY DEF IInv
  <1> QED
    BY <1>1, Invariance, PTL

\* compositor_acquire always finds a buffer without waiting.
THEOREM CompositorNeverWaits == Spec => []CompositorFindsABuffer
  <1>1. IInv => CompositorFindsABuffer
    BY NumberOfBuffers
       DEF IInv, BuffersAccountedFor, CompositorFindsABuffer, Usable, Held, TypeOK
  <1> QED
    BY <1>1, Invariance, PTL

\* The only way into undefined behaviour is to destroy a surface in mid-frame.
THEOREM UndefinedOnlyOnDestroy == Spec => []UndefinedOnlyMidFrame
  <1>1. IInv => UndefinedOnlyMidFrame
    BY DEF IInv
  <1> QED
    BY <1>1, Invariance, PTL

\* What waits in compositor_queue follows the frame shown, and while nothing
\* waits that frame is intact: client_acquire takes the front of client_queue,
\* and compositor_release puts the buffer on screen at its back.
THEOREM ScreenIsNotOverwritten == Spec => []LastShownIsKept
  <1>1. IInv => LastShownIsKept
    BY DEF IInv
  <1> QED
    BY <1>1, Invariance, PTL

\* The swapper implements the abstract frame stream.
THEOREM RefinesFrameStream == Spec => FramesInOrder
  <1> USE NumberOfBuffers, BufferAssumption
  <1>1. Init => Stream!StreamInit
    BY DEF Init, Stream!StreamInit
  <1>2. IInv /\ [Next]_vars => [Stream!StreamNext]_(Stream!streamVars)
    <2> SUFFICES ASSUME IInv, [Next]_vars
                 PROVE  [Stream!StreamNext]_(Stream!streamVars)
      OBVIOUS
    <2> USE DEF Stream!StreamNext, Stream!streamVars
    <2>1. ASSUME NEW c \in Client, client_acquire(c) \/ SpuriousWakeup(c)
          PROVE  UNCHANGED Stream!streamVars
      BY <2>1 DEF client_acquire, SpuriousWakeup
    <2>2. ASSUME NEW c \in Client, client_release(c)
          PROVE  Stream!Post
      <3>1. status = "live" => posted - shown < N
        <4>1. status = "live" => posted = shown + Len(compositor_queue)
          BY DEF IInv, LastShownIsKept
        <4>2. status = "live" => Len(compositor_queue) < N
          <5>1. c \in Holders
            BY <2>2 DEF client_release, PostFrame, Holders
          <5>2. Cardinality(Holders) # 0
            BY <5>1, HoldersFinite, FS_EmptySet
          <5> QED
            BY <5>2, HoldersFinite
               DEF IInv, BuffersAccountedFor, Usable, Held, TypeOK
        <4> QED
          BY <4>1, <4>2 DEF IInv, TypeOK
      <3> QED
        BY <2>2, <3>1 DEF client_release, PostFrame, Stream!Post
    <2>3. CASE compositor_acquire
      <3>1. client_queue # << >> \/ compositor_queue # << >>
        BY <2>3, CompositorAcquireInvariant
      <3>2. /\ status = "live" /\ compositor_buffer = NoBuffer
            /\ UNCHANGED <<status, posted>>
            /\ shown' = IF compositor_buffer' = NoBuffer THEN shown
                        ELSE frame[compositor_buffer']
        BY <2>3, <3>1 DEF compositor_acquire
      <3>3. CASE compositor_queue # << >>
        <4>1. Len(compositor_queue) \in Nat \ {0}
              /\ Head(compositor_queue) = compositor_queue[1]
              /\ compositor_queue[1] \in Buffer
          BY <3>3 DEF IInv, TypeOK
        <4>2. frame[Head(compositor_queue)] = shown + 1
          BY <3>2, <4>1 DEF IInv, LastShownIsKept
        <4>3. compositor_buffer' = Head(compositor_queue)
          BY <2>3, <3>3 DEF compositor_acquire, FromCompositorQueue
        <4>4. shown' = shown + 1
          BY <3>2, <4>1, <4>2, <4>3
        <4>5. shown < posted
          BY <3>2, <4>1 DEF IInv, LastShownIsKept, TypeOK
        <4> QED
          BY <3>2, <4>4, <4>5 DEF Stream!Show
      <3>4. CASE compositor_queue = << >>
        <4>1. client_queue # << >> /\ frame[client_queue[Len(client_queue)]] = shown
              /\ posted = shown + Len(compositor_queue)
          BY <3>2, <3>4 DEF IInv, LastShownIsKept
        <4>2. compositor_buffer' = client_queue[Len(client_queue)]
          BY <2>3, <3>4, <4>1 DEF compositor_acquire, FromClientQueue
        <4>3. shown' = shown
          BY <3>2, <4>1, <4>2
        <4>4. ~(shown < posted)
          BY <3>4, <4>1 DEF IInv, TypeOK
        <4> QED
          BY <3>2, <4>3, <4>4 DEF Stream!Show
      <3> QED
        BY <3>3, <3>4
    <2>4. CASE compositor_release
      BY <2>4 DEF compositor_release
    <2>5. CASE CompositorStop
      BY <2>5 DEF CompositorStop, Stream!Close
    <2>6. CASE ServerShutdown
      BY <2>6 DEF ServerShutdown, shutdown, RefillClientQueue
    <2>7. CASE DestroySurface
      BY <2>7 DEF DestroySurface, shutdown, RefillClientQueue, Usable, Stream!Close
    <2>8. CASE UNCHANGED vars
      BY <2>8 DEF vars
    <2> QED
      BY <2>1, <2>2, <2>3, <2>4, <2>5, <2>6, <2>7, <2>8 DEF Next
  <1> QED
    BY <1>1, <1>2, Invariance, PTL DEF Spec, FramesInOrder, Stream!StreamSpec

=============================================================================
