------------------------ MODULE MirClientLibraryProofs ------------------------
(***************************************************************************)
(* Proofs about the client library, for any number of application threads, *)
(* surfaces and calls: that nothing is used after it was deleted, and that *)
(* calls complete in the order in which they were sent.                    *)
(***************************************************************************)
EXTENDS MirClientLibrary, FiniteSetTheorems, TLAPS

Connect == <<"connect", NoSurface>>
Disconnect == <<"disconnect", NoSurface>>
Create(s) == <<"create_surface", s>>
Release(s) == <<"release_surface", s>>

\* The calls an application makes once.
Once == {Connect, Disconnect} \cup {Create(s) : s \in Surface} \cup {Release(s) : s \in Surface}

\* Sent and not read yet; being read or completed by the io thread; being
\* completed and not yet reported to the application.
Sent == {requests[k] : k \in 1..Len(requests)}
Completing == io_pc \in {"callback", "stuck", "notify", "erase"}
Reporting == io_pc \in {"callback", "stuck", "notify"}

\* A call has one id.  It is in the cache from before it is sent until it has
\* been completed, and in one place: with its thread, on its way, or with the
\* io thread.
IdsAreUnique ==
    /\ \A k, l \in 1..Len(requests) : requests[k] = requests[l] => k = l
    /\ Sent \subseteq DOMAIN pending_calls
    /\ Completing => current \in DOMAIN pending_calls /\ current \notin Sent
    /\ \A t \in App : pc[t] = "send" =>
          /\ id[t] \in DOMAIN pending_calls /\ pending_calls[id[t]] = call[t]
          /\ id[t] \notin Sent
          /\ Completing => current # id[t]
          /\ \A u \in App : pc[u] = "send" /\ id[u] = id[t] => u = t

\* What was called, by what has become of the objects.
CallsFollowObjects ==
    /\ \A t \in App : pc[t] \in {"save", "send", "keep_handle", "check", "waiting"} =>
                          call[t] \in Call
    /\ \A i \in DOMAIN pending_calls :
          LET c == pending_calls[i] IN
          /\ connection # "none"
          /\ c = Disconnect => connection \in {"disconnecting", "deleted"}
          /\ c[2] \in Surface => surface[c[2]] # "none"
          /\ c[1] = "release_surface" => surface[c[2]] \in {"releasing", "deleted"}
    /\ \A i, j \in DOMAIN pending_calls :
          pending_calls[i] = pending_calls[j] /\ pending_calls[i] \in Once => i = j

\* What the threads are doing, by what has become of the objects: nobody is in
\* a call about a surface that another thread releases, and when the
\* connection is being released nobody is in any other call.
ThreadsFollowObjects ==
    \A t \in App : pc[t] # "idle" =>
        /\ connection \notin {"none", "error"}
        /\ call[t][1] = "release_surface" => surface[call[t][2]] \in {"releasing", "deleted"}
        /\ call[t][1] \in OnSurface /\ call[t][1] # "release_surface" =>
              surface[call[t][2]] \in {"creating", "live"}
        /\ connection \in {"disconnecting", "deleted"} =>
              /\ call[t] \in {Disconnect, NoCall}
              /\ \A u \in App \ {t} : pc[u] = "idle"
        /\ call[t] = Disconnect => connection = "disconnecting"
        /\ connection = "deleted" => pc[t] = "join"
        /\ pc[t] = "join" => connection = "deleted"
        /\ pc[t] = "delete" => connection = "disconnecting" /\ call[t] = NoCall
        /\ pc[t] = "save" /\ call[t] \in Once =>
              /\ \A i \in DOMAIN pending_calls : pending_calls[i] # call[t]
              /\ \A u \in App : pc[u] = "save" /\ call[u] = call[t] => u = t

\* A call whose callback has not run: with its thread, on its way, or read.
NotRun(i) ==
    \/ i \in Sent
    \/ io_pc \in {"callback", "stuck"} /\ current = i
    \/ \E t \in App : pc[t] = "send" /\ id[t] = i

\* Objects are in the state their creation or release leaves them in until its
\* callback has run.
ObjectsAwaitCallbacks ==
    /\ \A i \in DOMAIN pending_calls : NotRun(i) =>
          /\ pending_calls[i] = Connect => connection = "connecting"
          /\ pending_calls[i][1] = "create_surface" => surface[pending_calls[i][2]] = "creating"
          /\ pending_calls[i][1] = "release_surface" => surface[pending_calls[i][2]] = "releasing"
    /\ Completing /\ pending_calls[current][1] = "release_surface" =>
          surface[pending_calls[current][2]] = "releasing"
    /\ \A t \in App : pc[t] = "save" =>
          /\ call[t] = Connect => connection = "connecting"
          /\ call[t][1] = "create_surface" => surface[call[t][2]] = "creating"
          /\ call[t][1] = "release_surface" => surface[call[t][2]] = "releasing"

\* c releases what d is about.
Covers(c, d) == c = Disconnect \/ (c[1] = "release_surface" /\ d[2] = c[2])

\* A release is the last call about what it releases.
ReleasesComeLast ==
    /\ \A k, l \in 1..Len(requests) :
          k < l => ~ Covers(pending_calls[requests[k]], pending_calls[requests[l]])
    /\ Completing => \A k \in 1..Len(requests) :
                        ~ Covers(pending_calls[current], pending_calls[requests[k]])

\* After the surface's release nothing is about the surface.
DeletedSurfacesRest ==
    \A s \in Surface : surface[s] = "deleted" =>
        /\ \A k \in 1..Len(requests) : pending_calls[requests[k]][2] # s
        /\ Reporting => pending_calls[current][2] # s
        /\ \A t \in App : pc[t] \in {"save", "send"} => call[t][2] # s

\* Nothing is under way but, for a while, the callback of the disconnect.
AllReported ==
    /\ connection \in {"disconnecting", "deleted"}
    /\ requests = <<>>
    /\ Reporting => pending_calls[current] = Disconnect
    /\ \A t \in App : pc[t] \notin {"save", "send"}

Released == \/ received[Disconnect] > 0
            \/ \E t \in App : pc[t] \in {"delete", "join"}
            \/ connection = "deleted"

\* What follows the disconnect: its callback has deleted the handles, and its
\* result is there only after that.
DisconnectEnds ==
    /\ (\E s \in Surface : release_handle[s] = "deleted") => AllReported
    /\ Released => AllReported /\ ~ Reporting
    /\ Released \/ (io_pc \in {"notify", "erase"} /\ pending_calls[current] = Disconnect) =>
          \A s \in Surface : release_handle[s] # "kept"
    /\ expecting[Disconnect] = 0

IInv ==
    /\ TypeOK
    /\ IdsAreUnique
    /\ CallsFollowObjects
    /\ ThreadsFollowObjects
    /\ ObjectsAwaitCallbacks
    /\ ReleasesComeLast
    /\ DeletedSurfacesRest
    /\ DisconnectEnds

\* The calls that threads return from, and that they may wait for later.
UnwaitedInv ==
    /\ \A t \in App : pc[t] = "keep_handle" =>
          /\ call[t][1] = "release_surface"
          /\ id[t] \in DOMAIN pending_calls => pending_calls[id[t]] = call[t]
    /\ \A t \in App : \A w \in unwaited[t] :
          /\ w[1] # Disconnect
          /\ w[1][1] = "release_surface" => surface[w[1][2]] \in {"releasing", "deleted"}
          /\ w[2] \in DOMAIN pending_calls => pending_calls[w[2]] = w[1]

-----------------------------------------------------------------------------

\* A call is about a surface or about none.
LEMMA CallFacts ==
    /\ \A c \in Call : /\ c = <<c[1], c[2]>>
                       /\ \/ c[1] \in OnSurface /\ c[2] \in Surface
                          \/ c[1] \in OnConnection /\ c[2] = NoSurface
    /\ \A c \in Call : /\ c[1] = "connect" <=> c = Connect
                       /\ c[1] = "disconnect" <=> c = Disconnect
                       /\ c[1] = "create_surface" <=> c = Create(c[2])
                       /\ c[1] = "release_surface" <=> c = Release(c[2])
    /\ \A c \in Call : c \in Once <=> c[1] \in {"connect", "disconnect", "create_surface",
                                                "release_surface"}
    /\ Connect \in Call /\ Disconnect \in Call /\ NoCall \notin Call
    /\ NoSurface \notin Surface
  <1>1. ASSUME NEW c \in Call
        PROVE  /\ c = <<c[1], c[2]>>
               /\ \/ c[1] \in OnSurface /\ c[2] \in Surface
                  \/ c[1] \in OnConnection /\ c[2] = NoSurface
    BY DEF Call
  <1>2. \A c \in Call : /\ c[1] = "connect" <=> c = Connect
                        /\ c[1] = "disconnect" <=> c = Disconnect
                        /\ c[1] = "create_surface" <=> c = Create(c[2])
                        /\ c[1] = "release_surface" <=> c = Release(c[2])
    BY <1>1 DEF Connect, Disconnect, Create, Release, OnSurface, OnConnection
  <1>3. \A c \in Call : c \in Once <=> c[1] \in {"connect", "disconnect", "create_surface",
                                                 "release_surface"}
    BY <1>1, <1>2, ClientAssumption
       DEF Once, Connect, Disconnect, Create, Release, OnSurface, OnConnection
  <1>4. Connect \in Call /\ Disconnect \in Call /\ NoCall \notin Call
    BY DEF Call, Connect, Disconnect, NoCall, OnSurface, OnConnection
  <1> QED
    BY <1>1, <1>2, <1>3, <1>4, ClientAssumption

\* The same for a thread, which may be in no call.
LEMMA CallShape ==
    \A c \in Call \cup {NoCall} :
        /\ c[1] \in OnSurface <=> c[2] \in Surface
        /\ c[1] \in {"create_surface", "release_surface"} => c[2] \in Surface /\ c \in Once
        /\ c = Connect <=> c[1] = "connect"
        /\ c = Disconnect <=> c[1] = "disconnect"
        /\ c \in Once => c[1] \in {"connect", "disconnect", "create_surface", "release_surface"}
        /\ c = NoCall <=> c[1] = "none"
        /\ c[2] \in Surface \/ c[2] = NoSurface
  <1> SUFFICES ASSUME NEW c \in Call \cup {NoCall}
               PROVE  /\ c[1] \in OnSurface <=> c[2] \in Surface
                      /\ c[1] \in {"create_surface", "release_surface"} =>
                            c[2] \in Surface /\ c \in Once
                      /\ c = Connect <=> c[1] = "connect"
                      /\ c = Disconnect <=> c[1] = "disconnect"
                      /\ c \in Once => c[1] \in {"connect", "disconnect", "create_surface",
                                                 "release_surface"}
                      /\ c = NoCall <=> c[1] = "none"
                      /\ c[2] \in Surface \/ c[2] = NoSurface
    OBVIOUS
  <1>1. CASE c \in Call
    <2>1. /\ c = Connect <=> c[1] = "connect"
          /\ c = Disconnect <=> c[1] = "disconnect"
          /\ c \in Once <=> c[1] \in {"connect", "disconnect", "create_surface", "release_surface"}
          /\ c # NoCall
      BY <1>1, CallFacts
    <2>2. /\ c[1] \in OnSurface <=> c[2] \in Surface
          /\ c[1] \in {"create_surface", "release_surface"} => c[2] \in Surface
          /\ c[1] # "none"
          /\ c[2] \in Surface \/ c[2] = NoSurface
      BY <1>1, CallFacts DEF OnSurface, OnConnection
    <2> QED
      BY <2>1, <2>2
  <1>2. CASE c = NoCall
    BY <1>2, CallFacts DEF NoCall, Connect, Disconnect, Once, Create, Release, OnSurface
  <1> QED
    BY <1>1, <1>2

\* The queue of requests after send_message.
LEMMA QueueGrows ==
    ASSUME NEW S, NEW q \in Seq(S), NEW x \in S
    PROVE  /\ Append(q, x) \in Seq(S) /\ Len(Append(q, x)) = Len(q) + 1
           /\ \A k \in 1..Len(q) : Append(q, x)[k] = q[k]
           /\ Append(q, x)[Len(q) + 1] = x
  OBVIOUS

\* The queue after the first request's reply has been read.
LEMMA QueueShrinks ==
    ASSUME NEW S, NEW q \in Seq(S), q # <<>>
    PROVE  /\ Head(q) \in S /\ Head(q) = q[1] /\ 1 \in 1..Len(q)
           /\ Tail(q) \in Seq(S) /\ Len(Tail(q)) = Len(q) - 1
           /\ \A k \in 1..(Len(q) - 1) : Tail(q)[k] = q[k + 1]
  OBVIOUS

\* The queue after the server has gone.
LEMMA QueueIsCut ==
    ASSUME NEW S, NEW q \in Seq(S), NEW n \in 0..Len(q)
    PROVE  /\ SubSeq(q, 1, n) \in Seq(S) /\ Len(SubSeq(q, 1, n)) = n
           /\ \A k \in 1..n : SubSeq(q, 1, n)[k] = q[k]
  OBVIOUS

\* The queue when more ids have been handed out.
LEMMA QueueWidens ==
    ASSUME NEW S, NEW T, S \subseteq T, NEW q \in Seq(S)
    PROVE  q \in Seq(T)
  OBVIOUS

\* Nothing has been called at first.
LEMMA InitInvariant == Init => IInv
  <1> SUFFICES ASSUME Init PROVE IInv
    OBVIOUS
  <1>1. TypeOK
    BY CallFacts DEF Init, TypeOK
  <1>2. DOMAIN pending_calls = {} /\ Len(requests) = 0
    BY DEF Init
  <1>3. IdsAreUnique
    BY <1>2 DEF Init, IdsAreUnique, Sent, Completing
  <1>4. CallsFollowObjects /\ ThreadsFollowObjects
    BY <1>2 DEF Init, CallsFollowObjects, ThreadsFollowObjects
  <1>5. ObjectsAwaitCallbacks /\ ReleasesComeLast /\ DeletedSurfacesRest
    BY <1>2 DEF Init, ObjectsAwaitCallbacks, ReleasesComeLast, DeletedSurfacesRest, Completing,
                Reporting
  <1>6. DisconnectEnds
    BY CallFacts DEF Init, DisconnectEnds, Released
  <1> QED
    BY <1>1, <1>3, <1>4, <1>5, <1>6 DEF IInv

-----------------------------------------------------------------------------
(* The application's threads *)

\* What Begin does to the objects, by the call.
LEMMA BeginEffect ==
    ASSUME IInv, NEW t \in App, NEW c \in Call, Begin(t, c)
    PROVE  /\ UNCHANGED <<pending_calls, requests, current, id, received, release_handle,
                          next_message_id, threw, unwaited>>
           /\ pc[t] = "idle" /\ pc' = [pc EXCEPT ![t] = "save"] /\ call' = [call EXCEPT ![t] = c]
           /\ \/ /\ c = Connect /\ connection = "none" /\ connection' = "connecting"
                 /\ UNCHANGED surface /\ io_pc' = "idle" /\ link' = "up"
              \/ /\ c = Disconnect /\ connection = "connected" /\ connection' = "disconnecting"
                 /\ \A u \in App : pc[u] = "idle"
                 /\ UNCHANGED <<surface, io_pc, link>>
              \/ /\ c[1] = "create_surface" /\ connection = "connected"
                 /\ surface[c[2]] = "none" /\ surface' = [surface EXCEPT ![c[2]] = "creating"]
                 /\ UNCHANGED <<connection, io_pc, link>>
              \/ /\ c[1] = "release_surface" /\ connection = "connected"
                 /\ surface[c[2]] = "live" /\ surface' = [surface EXCEPT ![c[2]] = "releasing"]
                 /\ ~ InUse(t, c[2])
                 /\ UNCHANGED <<connection, io_pc, link>>
              \/ /\ c \notin Once /\ connection = "connected"
                 /\ c[2] \in Surface => surface[c[2]] = "live"
                 /\ UNCHANGED <<connection, surface, io_pc, link>>
           /\ expecting' \in [Call -> Nat]
           /\ expecting'[Disconnect] = expecting[Disconnect]
           /\ overlapped' \subseteq Call
  <1>0. /\ c[1] \in OnSurface \cup OnConnection
        /\ c[1] = "connect" <=> c = Connect
        /\ c[1] = "disconnect" <=> c = Disconnect
        /\ c \in Once <=> c[1] \in {"connect", "disconnect", "create_surface", "release_surface"}
        /\ c[1] = "create_surface" <=> c = Create(c[2])
        /\ c[1] = "release_surface" <=> c = Release(c[2])
        /\ c[2] \in Surface <=> c[1] \in OnSurface
    <2>1. /\ c[1] = "connect" <=> c = Connect
          /\ c[1] = "disconnect" <=> c = Disconnect
          /\ c[1] = "create_surface" <=> c = Create(c[2])
          /\ c[1] = "release_surface" <=> c = Release(c[2])
          /\ c \in Once <=> c[1] \in {"connect", "disconnect", "create_surface", "release_surface"}
      BY CallFacts
    <2>2. c[1] \in OnSurface \cup OnConnection /\ (c[2] \in Surface <=> c[1] \in OnSurface)
      BY CallFacts DEF OnSurface, OnConnection
    <2> QED
      BY <2>1, <2>2
  <1>1. /\ UNCHANGED <<pending_calls, requests, current, id, received, release_handle,
                       next_message_id, threw, unwaited>>
        /\ pc[t] = "idle" /\ pc' = [pc EXCEPT ![t] = "save"] /\ call' = [call EXCEPT ![t] = c]
        /\ MayCall(t, c)
    BY DEF Begin, Goto
  <1>2. expecting' \in [Call -> Nat] /\ expecting'[Disconnect] = expecting[Disconnect]
    <2>1. expecting' = [expecting EXCEPT ![c] = IF c[1] = "configure" THEN @ + 1 ELSE @]
      BY DEF Begin
    <2>2. expecting \in [Call -> Nat] /\ Disconnect \in Call
      BY CallFacts DEF IInv, TypeOK
    <2>3. c = Disconnect => c[1] # "configure"
      BY <1>0
    <2> QED
      BY <2>1, <2>2, <2>3
  <1>3. overlapped' \subseteq Call
    BY DEF Begin, IInv, TypeOK
  <1>4. \/ /\ c = Connect /\ connection = "none" /\ connection' = "connecting"
           /\ UNCHANGED surface /\ io_pc' = "idle" /\ link' = "up"
        \/ /\ c = Disconnect /\ connection = "connected" /\ connection' = "disconnecting"
           /\ \A u \in App : pc[u] = "idle"
           /\ UNCHANGED <<surface, io_pc, link>>
        \/ /\ c[1] = "create_surface" /\ connection = "connected"
           /\ surface[c[2]] = "none" /\ surface' = [surface EXCEPT ![c[2]] = "creating"]
           /\ UNCHANGED <<connection, io_pc, link>>
        \/ /\ c[1] = "release_surface" /\ connection = "connected"
           /\ surface[c[2]] = "live" /\ surface' = [surface EXCEPT ![c[2]] = "releasing"]
           /\ ~ InUse(t, c[2])
           /\ UNCHANGED <<connection, io_pc, link>>
        \/ /\ c \notin Once /\ connection = "connected"
           /\ c[2] \in Surface => surface[c[2]] = "live"
           /\ UNCHANGED <<connection, surface, io_pc, link>>
    <2>0. /\ connection = IF c[1] = "connect" THEN "none" ELSE "connected"
          /\ c[1] = "create_surface" => surface[c[2]] = "none"
          /\ c[1] \in OnSurface \ {"create_surface"} => surface[c[2]] = "live" /\ ~InUse(t, c[2])
          /\ c[1] = "disconnect" => \A u \in App : pc[u] = "idle"
          /\ connection' = IF c[1] = "connect" THEN "connecting"
                           ELSE IF c[1] = "disconnect" THEN "disconnecting" ELSE connection
          /\ c[1] = "connect" => link' = "up" /\ io_pc' = "idle"
          /\ c[1] # "connect" => UNCHANGED <<link, io_pc>>
      BY <1>1 DEF Begin, MayCall
    <2>s. /\ c[1] = "create_surface" => surface' = [surface EXCEPT ![c[2]] = "creating"]
          /\ c[1] = "release_surface" => surface' = [surface EXCEPT ![c[2]] = "releasing"]
          /\ c[1] \notin {"create_surface", "release_surface"} => surface' = surface
      <3>1. surface' = [s \in Surface |-> IF c = Create(s) THEN "creating"
                                          ELSE IF c = Release(s) THEN "releasing"
                                          ELSE surface[s]]
        BY DEF Begin, Create, Release
      <3>2. /\ surface \in [Surface -> {"none", "creating", "live", "releasing", "deleted"}]
            /\ \A s \in Surface : /\ c = Create(s) <=> c[1] = "create_surface" /\ s = c[2]
                                  /\ c = Release(s) <=> c[1] = "release_surface" /\ s = c[2]
        BY <1>0 DEF IInv, TypeOK, Create, Release
      <3>3. CASE c[1] = "create_surface"
        <4>1. \A s \in Surface : surface'[s] = IF s = c[2] THEN "creating" ELSE surface[s]
          BY <3>1, <3>2, <3>3
        <4> QED
          BY <3>1, <3>2, <3>3, <4>1
      <3>4. CASE c[1] = "release_surface"
        BY <3>1, <3>2, <3>4
      <3>5. CASE c[1] \notin {"create_surface", "release_surface"}
        <4>1. \A s \in Surface : surface'[s] = surface[s]
          BY <3>1, <3>2, <3>5
        <4> QED
          BY <3>1, <3>2, <3>5, <4>1
      <3> QED
        BY <3>3, <3>4, <3>5
    <2>1. CASE c[1] = "connect"
      BY <1>0, <2>0, <2>s, <2>1
    <2>2. CASE c[1] = "disconnect"
      BY <1>0, <2>0, <2>s, <2>2
    <2>3. CASE c[1] = "create_surface"
      BY <1>0, <2>0, <2>s, <2>3
    <2>4. CASE c[1] = "release_surface"
      BY <1>0, <2>0, <2>s, <2>4 DEF OnSurface
    <2>5. CASE c \notin Once
      BY <1>0, <2>0, <2>s, <2>5 DEF OnSurface
    <2> QED
      BY <1>0, <2>1, <2>2, <2>3, <2>4, <2>5
  <1> QED
    BY <1>1, <1>2, <1>3, <1>4

\* A call begins: no earlier one is about what it creates or releases.
LEMMA BeginInvariant ==
    ASSUME IInv, NEW t \in App, NEW c \in Call, Begin(t, c)
    PROVE  IInv'
  <1>1. /\ UNCHANGED <<pending_calls, requests, current, id, received, release_handle,
                       next_message_id, threw, unwaited>>
        /\ pc[t] = "idle" /\ pc' = [pc EXCEPT ![t] = "save"] /\ call' = [call EXCEPT ![t] = c]
        /\ expecting' \in [Call -> Nat] /\ expecting'[Disconnect] = expecting[Disconnect]
        /\ overlapped' \subseteq Call
    BY BeginEffect
  <1>2. \/ /\ c = Connect /\ connection = "none" /\ connection' = "connecting"
           /\ UNCHANGED surface /\ io_pc' = "idle" /\ link' = "up"
        \/ /\ c = Disconnect /\ connection = "connected" /\ connection' = "disconnecting"
           /\ \A u \in App : pc[u] = "idle"
           /\ UNCHANGED <<surface, io_pc, link>>
        \/ /\ c[1] = "create_surface" /\ connection = "connected"
           /\ surface[c[2]] = "none" /\ surface' = [surface EXCEPT ![c[2]] = "creating"]
           /\ UNCHANGED <<connection, io_pc, link>>
        \/ /\ c[1] = "release_surface" /\ connection = "connected"
           /\ surface[c[2]] = "live" /\ surface' = [surface EXCEPT ![c[2]] = "releasing"]
           /\ ~ InUse(t, c[2])
           /\ UNCHANGED <<connection, io_pc, link>>
        \/ /\ c \notin Once /\ connection = "connected"
           /\ c[2] \in Surface => surface[c[2]] = "live"
           /\ UNCHANGED <<connection, surface, io_pc, link>>
    BY BeginEffect
  <1>3. /\ TypeOK
        /\ surface \in [Surface -> {"none", "creating", "live", "releasing", "deleted"}]
        /\ pc \in [App -> {"idle", "save", "send", "keep_handle", "check", "waiting",
                           "delete", "join"}]
        /\ call \in [App -> Call \cup {NoCall}]
    BY DEF IInv, TypeOK
  <1>4. /\ c = Connect => c[1] = "connect" /\ c[2] \notin Surface
        /\ c = Disconnect => c[1] = "disconnect" /\ c[2] \notin Surface
        /\ c[1] \in {"create_surface", "release_surface"} => c[2] \in Surface /\ c \in Once
        /\ c[1] \in OnSurface <=> c[2] \in Surface
        /\ c = Connect \/ c = Disconnect => c \in Once
        /\ c \in Once => \/ c[1] = "create_surface" \/ c[1] = "release_surface"
                         \/ c = Connect \/ c = Disconnect
        /\ c # NoCall
    <2>1. /\ c = Connect => c[1] = "connect" /\ c[2] \notin Surface
          /\ c = Disconnect => c[1] = "disconnect" /\ c[2] \notin Surface
      BY CallFacts DEF Connect, Disconnect
    <2>2. /\ c[1] \in {"create_surface", "release_surface"} => c[2] \in Surface
          /\ c[1] \in OnSurface <=> c[2] \in Surface
      BY CallFacts DEF OnSurface, OnConnection
    <2>3. /\ c \in Once <=> c[1] \in {"connect", "disconnect", "create_surface", "release_surface"}
          /\ c[1] = "connect" <=> c = Connect
          /\ c[1] = "disconnect" <=> c = Disconnect
          /\ c # NoCall
      BY CallFacts
    <2> QED
      BY <2>1, <2>2, <2>3
  <1>5. /\ connection \in {"none", "connected"}
        /\ connection' \in {"connecting", "connected", "disconnecting"}
        /\ connection' = "disconnecting" => c = Disconnect /\ \A u \in App : pc[u] = "idle"
    BY <1>2
  <1>6. /\ \A s \in Surface : /\ surface'[s] = "none" => surface[s] = "none"
                              /\ surface[s] \in {"creating", "releasing", "deleted"} =>
                                    surface'[s] = surface[s]
                              /\ surface'[s] = "deleted" => surface[s] = "deleted"
                              /\ surface[s] = "live" /\ surface'[s] # "live" =>
                                    ~ InUse(t, s)
        /\ surface' \in [Surface -> {"none", "creating", "live", "releasing", "deleted"}]
    BY <1>2, <1>3, <1>4
  <1>7. /\ Completing' <=> Completing
        /\ Reporting' <=> Reporting
        /\ Completing \/ DOMAIN pending_calls # {} => connection = "connected"
        /\ Completing => io_pc' = io_pc
        /\ Reporting => io_pc' = io_pc
        /\ io_pc' \in {"callback", "stuck", "notify", "erase"} => Completing
    BY <1>2, <1>5 DEF Completing, Reporting, IInv, IdsAreUnique, CallsFollowObjects
  <1>8. /\ pc'[t] = "save" /\ call'[t] = c
        /\ \A u \in App \ {t} : pc'[u] = pc[u] /\ call'[u] = call[u]
        /\ \A u \in App : pc'[u] = "send" <=> pc[u] = "send"
        /\ Sent' = Sent
    BY <1>1, <1>3 DEF Sent
  <1>t. TypeOK'
    BY <1>1, <1>2, <1>3, <1>6 DEF TypeOK
  <1>i. IdsAreUnique'
    BY <1>1, <1>7, <1>8 DEF IInv, IdsAreUnique
  <1>c. CallsFollowObjects'
    <2>1. \A u \in App : pc'[u] \in {"save", "send", "keep_handle", "check", "waiting"} =>
                             call'[u] \in Call
      BY <1>8 DEF IInv, CallsFollowObjects
    <2>2. ASSUME NEW i \in DOMAIN pending_calls
          PROVE  /\ connection' # "none"
                 /\ pending_calls[i] = Disconnect => connection' \in {"disconnecting", "deleted"}
                 /\ pending_calls[i][2] \in Surface => surface'[pending_calls[i][2]] # "none"
                 /\ pending_calls[i][1] = "release_surface" =>
                       surface'[pending_calls[i][2]] \in {"releasing", "deleted"}
      <3>1. pending_calls[i][1] = "release_surface" => pending_calls[i][2] \in Surface
        BY <1>3, CallShape DEF TypeOK
      <3> QED
        BY <1>5, <1>6, <3>1 DEF IInv, CallsFollowObjects
    <2> QED
      BY <1>1, <2>1, <2>2 DEF IInv, CallsFollowObjects
  <1>h. ThreadsFollowObjects'
    <2> SUFFICES ASSUME NEW u \in App, pc'[u] # "idle"
                 PROVE  /\ connection' \notin {"none", "error"}
                        /\ call'[u][1] = "release_surface" =>
                              surface'[call'[u][2]] \in {"releasing", "deleted"}
                        /\ call'[u][1] \in OnSurface /\ call'[u][1] # "release_surface" =>
                              surface'[call'[u][2]] \in {"creating", "live"}
                        /\ connection' \in {"disconnecting", "deleted"} =>
                              /\ call'[u] \in {Disconnect, NoCall}
                              /\ \A v \in App \ {u} : pc'[v] = "idle"
                        /\ call'[u] = Disconnect => connection' = "disconnecting"
                        /\ connection' = "deleted" => pc'[u] = "join"
                        /\ pc'[u] = "join" => connection' = "deleted"
                        /\ pc'[u] = "delete" => connection' = "disconnecting" /\ call'[u] = NoCall
                        /\ pc'[u] = "save" /\ call'[u] \in Once =>
                              /\ \A i \in DOMAIN pending_calls : pending_calls[i] # call'[u]
                              /\ \A v \in App : pc'[v] = "save" /\ call'[v] = call'[u] => v = u
      BY <1>1 DEF ThreadsFollowObjects
    <2>1. ASSUME NEW v \in App \ {t}, pc[v] # "idle"
          PROVE  /\ call[v] \in Call \cup {NoCall}
                 /\ c \in Once => call[v] # c
                 /\ connection = "connected"
                 /\ call[v] # Disconnect
                 /\ pc[v] \notin {"join", "delete"}
      BY <1>2, <1>3, <1>4, <1>5, <2>1 DEF IInv, ThreadsFollowObjects, OnSurface
    <2>2. c \in Once => \A i \in DOMAIN pending_calls : pending_calls[i] # c
      BY <1>2, <1>4, <1>5 DEF IInv, CallsFollowObjects
    <2>3. CASE u = t
      BY <1>2, <1>3, <1>4, <1>5, <1>6, <1>8, <2>1, <2>2, <2>3 DEF OnSurface
    <2>4. CASE u # t
      <3>1. call[u][1] \in OnSurface => call[u][2] \in Surface
        BY <1>3, CallShape
      <3>2. /\ call[u][1] = "release_surface" =>
                              surface'[call[u][2]] \in {"releasing", "deleted"}
            /\ call[u][1] \in OnSurface /\ call[u][1] # "release_surface" =>
                              surface'[call[u][2]] \in {"creating", "live"}
        BY <1>6, <1>8, <2>4, <3>1 DEF IInv, ThreadsFollowObjects, InUse, OnSurface
      <3> QED
        BY <1>1, <1>5, <1>8, <2>1, <2>4, <3>2 DEF IInv, ThreadsFollowObjects
    <2> QED
      BY <2>3, <2>4
  <1>o. ObjectsAwaitCallbacks'
    <2>1. \A i \in DOMAIN pending_calls : NotRun(i)' <=> NotRun(i)
      BY <1>1, <1>2, <1>7, <1>8 DEF NotRun, Completing
    <2>2. /\ \A i \in DOMAIN pending_calls :
                pending_calls[i][1] \in {"create_surface", "release_surface"} =>
                    pending_calls[i][2] \in Surface
          /\ Completing => current \in DOMAIN pending_calls
          /\ DOMAIN pending_calls' = DOMAIN pending_calls
      BY <1>1, <1>3, CallShape DEF TypeOK, IInv, IdsAreUnique
    <2>3. \A u \in App : pc'[u] = "save" =>
              /\ call'[u] = Connect => connection' = "connecting"
              /\ call'[u][1] = "create_surface" => surface'[call'[u][2]] = "creating"
              /\ call'[u][1] = "release_surface" => surface'[call'[u][2]] = "releasing"
      <3>1. pc'[t] = "save" /\ call'[t] = c
        BY <1>8
      <3>2. /\ c = Connect => connection' = "connecting"
            /\ c[1] = "create_surface" => surface'[c[2]] = "creating"
            /\ c[1] = "release_surface" => surface'[c[2]] = "releasing"
        BY <1>2, <1>3, <1>4
      <3>3. ASSUME NEW u \in App \ {t}, pc[u] = "save"
            PROVE  /\ call[u] = Connect => connection' = "connecting"
                   /\ call[u][1] = "create_surface" => surface'[call[u][2]] = "creating"
                   /\ call[u][1] = "release_surface" => surface'[call[u][2]] = "releasing"
        <4>1. call[u][1] \in {"create_surface", "release_surface"} => call[u][2] \in Surface
          BY <1>3, CallShape
        <4> QED
          BY <1>5, <1>6, <3>3, <4>1 DEF IInv, ObjectsAwaitCallbacks
      <3> QED
        BY <1>8, <3>1, <3>2, <3>3
    <2>4. ASSUME NEW i \in DOMAIN pending_calls, NotRun(i)
          PROVE  /\ pending_calls[i] = Connect => connection' = "connecting"
                 /\ pending_calls[i][1] = "create_surface" =>
                       surface'[pending_calls[i][2]] = "creating"
                 /\ pending_calls[i][1] = "release_surface" =>
                       surface'[pending_calls[i][2]] = "releasing"
      BY <1>5, <1>6, <2>2, <2>4 DEF IInv, ObjectsAwaitCallbacks
    <2>5. Completing /\ pending_calls[current][1] = "release_surface" =>
              surface'[pending_calls[current][2]] = "releasing"
      BY <1>6, <2>2 DEF IInv, ObjectsAwaitCallbacks
    <2> QED
      BY <1>1, <1>7, <2>1, <2>2, <2>3, <2>4, <2>5 DEF ObjectsAwaitCallbacks
  <1>r. ReleasesComeLast'
    BY <1>1, <1>7 DEF IInv, ReleasesComeLast
  <1>d. DeletedSurfacesRest'
    BY <1>1, <1>2, <1>4, <1>6, <1>7, <1>8 DEF IInv, DeletedSurfacesRest
  <1>e. DisconnectEnds'
    <2>1. ~ AllReported
      BY <1>5 DEF AllReported
    <2>2. ~ Released' /\ \A s \in Surface : release_handle[s] # "deleted"
      BY <1>1, <1>5, <1>8, <2>1 DEF IInv, DisconnectEnds, Released
    <2>3. ~ (io_pc' \in {"notify", "erase"} /\ pending_calls[current] = Disconnect)
      BY <1>5, <1>7 DEF IInv, IdsAreUnique, CallsFollowObjects, Completing
    <2> QED
      BY <1>1, <2>2, <2>3 DEF IInv, DisconnectEnds
  <1> QED
    BY <1>t, <1>i, <1>c, <1>h, <1>o, <1>r, <1>d, <1>e DEF IInv

\* The socket cannot be connected: nothing has been called yet.
LEMMA ConnectFailsInvariant == IInv /\ ConnectFails => IInv'
  <1> SUFFICES ASSUME IInv, ConnectFails PROVE IInv'
    OBVIOUS
  <1>1. /\ connection = "none" /\ connection' = "error"
        /\ UNCHANGED <<channelVars, ioVars, pc, call, id, surface, handleVars, overlapped, unwaited>>
    BY DEF ConnectFails
  <1>2. /\ DOMAIN pending_calls = {} /\ \A t \in App : pc[t] = "idle"
        /\ ~ Completing /\ Sent = {} /\ ~ Reporting
    BY <1>1 DEF IInv, CallsFollowObjects, ThreadsFollowObjects, IdsAreUnique, Completing, Reporting
  <1>3. ~ Released /\ \A s \in Surface : release_handle[s] # "deleted"
    BY <1>1 DEF IInv, DisconnectEnds, AllReported
  <1>t. TypeOK'
    BY <1>1 DEF IInv, TypeOK, channelVars, ioVars, handleVars
  <1>i. IdsAreUnique'
    BY <1>1 DEF IInv, IdsAreUnique, Sent, Completing, channelVars, ioVars
  <1>c. CallsFollowObjects' /\ ThreadsFollowObjects'
    BY <1>1, <1>2 DEF IInv, CallsFollowObjects, ThreadsFollowObjects, channelVars
  <1>o. ObjectsAwaitCallbacks'
    BY <1>1, <1>2 DEF ObjectsAwaitCallbacks, Completing, channelVars, ioVars
  <1>r. ReleasesComeLast' /\ DeletedSurfacesRest'
    BY <1>1, <1>2 DEF IInv, ReleasesComeLast, DeletedSurfacesRest, Completing, Reporting,
                      channelVars, ioVars
  <1>e. DisconnectEnds'
    BY <1>1, <1>2, <1>3 DEF IInv, DisconnectEnds, Released, Completing, channelVars, ioVars,
                            handleVars
  <1> QED
    BY <1>t, <1>i, <1>c, <1>o, <1>r, <1>e DEF IInv

\* A call that is made once is in the cache once, and with the thread that makes it.
LEMMA OnceCalled ==
    ASSUME IInv, NEW i \in DOMAIN pending_calls, pending_calls[i] \in Once,
           NEW u \in App, pc[u] \in {"save", "send"}, call[u] = pending_calls[i]
    PROVE  pc[u] = "send" /\ id[u] = i
  <1>1. CASE pc[u] = "save"
    BY <1>1 DEF IInv, ThreadsFollowObjects
  <1>2. CASE pc[u] = "send"
    BY <1>2 DEF IInv, IdsAreUnique, CallsFollowObjects
  <1> QED
    BY <1>1, <1>2

\* next_id and save_completion_details: the id is new.
LEMMA SaveInvariant ==
    ASSUME IInv, NEW t \in App, save_completion_details(t)
    PROVE  IInv'
  <1> DEFINE n == next_message_id + 1
             c == call[t]
  <1>1. /\ UNCHANGED <<requests, link, io_pc, current, threw, call, connection, surface,
                       expecting, received, release_handle, overlapped, unwaited>>
        /\ pc[t] = "save" /\ pc' = [pc EXCEPT ![t] = "send"]
        /\ next_message_id' = n /\ id' = [id EXCEPT ![t] = n]
        /\ io_pc \in {"none", "idle", "ended", "joined"}
    BY DEF save_completion_details, Goto, cache_free, ioVars, objectVars, handleVars
  <1>2. /\ TypeOK /\ n \in Nat /\ n \notin DOMAIN pending_calls
        /\ pc \in [App -> {"idle", "save", "send", "keep_handle", "check", "waiting",
                           "delete", "join"}]
        /\ id \in [App -> 0..next_message_id]
        /\ c \in Call
        /\ 0..next_message_id \subseteq 0..n /\ 1..next_message_id \subseteq 1..n
        /\ n \in 1..n
    BY <1>1 DEF IInv, TypeOK, CallsFollowObjects
  <1>3. /\ DOMAIN pending_calls' = DOMAIN pending_calls \cup {n}
        /\ pending_calls'[n] = c
        /\ \A i \in DOMAIN pending_calls : pending_calls'[i] = pending_calls[i]
    <2>1. pending_calls' = [j \in DOMAIN pending_calls \cup {n} |->
                               IF j = n THEN c ELSE pending_calls[j]]
      BY <1>1 DEF save_completion_details, Saved
    <2> QED
      BY <1>2, <2>1
  <1>4. /\ pc'[t] = "send" /\ id'[t] = n
        /\ \A u \in App \ {t} : pc'[u] = pc[u] /\ id'[u] = id[u]
        /\ Sent' = Sent /\ Sent \subseteq DOMAIN pending_calls
        /\ ~ Completing /\ ~ Completing' /\ ~ Reporting'
    BY <1>1, <1>2 DEF IInv, IdsAreUnique, Sent, Completing, Reporting
  <1> HIDE DEF n, c
  <1>5. /\ connection \notin {"none", "error"}
        /\ c = Disconnect => connection = "disconnecting"
        /\ c[2] \in Surface => surface[c[2]] # "none"
        /\ c[1] = "release_surface" => surface[c[2]] \in {"releasing", "deleted"}
        /\ c \in Once => /\ \A i \in DOMAIN pending_calls : pending_calls[i] # c
                         /\ \A u \in App : pc[u] = "save" /\ call[u] = c => u = t
        /\ c = Connect => connection = "connecting"
        /\ c[1] = "create_surface" => surface[c[2]] = "creating"
        /\ c[1] = "release_surface" => surface[c[2]] = "releasing"
    <2>1. c[1] \in OnSurface <=> c[2] \in Surface
      BY <1>2, CallShape
    <2> QED
      BY <1>1, <2>1 DEF IInv, ThreadsFollowObjects, ObjectsAwaitCallbacks, c
  <1>t. TypeOK'
    <2>1. /\ DOMAIN pending_calls' \subseteq 1..n
          /\ \A i \in DOMAIN pending_calls' : pending_calls'[i] \in Call
          /\ requests' \in Seq(1..n) /\ current' \in 0..n
          /\ id' \in [App -> 0..n]
          /\ pc' \in [App -> {"idle", "save", "send", "keep_handle", "check", "waiting",
                              "delete", "join"}]
          /\ unwaited' \in [App -> SUBSET (Call \X (0..n))]
      <3>1. requests \in Seq(1..n)
        <4>1. requests \in Seq(1..next_message_id)
          BY <1>2 DEF TypeOK
        <4> QED
          BY <1>2, <4>1, QueueWidens
      <3>2. n \in 0..n
        BY <1>2
      <3>3. unwaited \in [App -> SUBSET (Call \X (0..n))]
        <4>1. 0..next_message_id \subseteq 0..n
          BY <1>2 DEF TypeOK
        <4>2. Call \X (0..next_message_id) \subseteq Call \X (0..n)
          BY <4>1
        <4>3. unwaited \in [App -> SUBSET (Call \X (0..next_message_id))]
          BY <1>2 DEF TypeOK
        <4> QED
          BY <4>2, <4>3
      <3> QED
        BY <1>1, <1>2, <1>3, <3>1, <3>2, <3>3 DEF TypeOK
    <2> QED
      BY <1>1, <1>2, <2>1 DEF TypeOK
  <1>i. IdsAreUnique'
    <2>1. \A u \in App : pc'[u] = "send" =>
              /\ id'[u] \in DOMAIN pending_calls' /\ pending_calls'[id'[u]] = call'[u]
              /\ id'[u] \notin Sent'
              /\ \A v \in App : pc'[v] = "send" /\ id'[v] = id'[u] => v = u
      <3>1. \A u \in App \ {t} : pc[u] = "send" => id[u] # n
        BY <1>2 DEF IInv, IdsAreUnique
      <3>2. n \notin Sent
        BY <1>2, <1>4
      <3> QED
        BY <1>1, <1>3, <1>4, <3>1, <3>2 DEF IInv, IdsAreUnique, c
    <2>2. \A k, l \in 1..Len(requests) : requests[k] = requests[l] => k = l
      BY DEF IInv, IdsAreUnique
    <2> QED
      BY <1>1, <1>3, <1>4, <2>1, <2>2 DEF IdsAreUnique
  <1>c. CallsFollowObjects'
    <2>1. \A u \in App : pc'[u] \in {"save", "send", "keep_handle", "check", "waiting"} =>
                             call'[u] \in Call
      BY <1>1, <1>2, <1>4 DEF IInv, CallsFollowObjects, c
    <2>2. \A i \in DOMAIN pending_calls' :
             /\ connection # "none"
             /\ pending_calls'[i] = Disconnect => connection \in {"disconnecting", "deleted"}
             /\ pending_calls'[i][2] \in Surface => surface[pending_calls'[i][2]] # "none"
             /\ pending_calls'[i][1] = "release_surface" =>
                   surface[pending_calls'[i][2]] \in {"releasing", "deleted"}
      BY <1>3, <1>5 DEF IInv, CallsFollowObjects
    <2>3. \A i, j \in DOMAIN pending_calls' :
             pending_calls'[i] = pending_calls'[j] /\ pending_calls'[i] \in Once => i = j
      BY <1>3, <1>5 DEF IInv, CallsFollowObjects
    <2> QED
      BY <1>1, <2>1, <2>2, <2>3 DEF CallsFollowObjects
  <1>h. ThreadsFollowObjects'
    <2> SUFFICES ASSUME NEW u \in App, pc'[u] # "idle"
                 PROVE  /\ connection \notin {"none", "error"}
                        /\ call[u][1] = "release_surface" =>
                              surface[call[u][2]] \in {"releasing", "deleted"}
                        /\ call[u][1] \in OnSurface /\ call[u][1] # "release_surface" =>
                              surface[call[u][2]] \in {"creating", "live"}
                        /\ connection \in {"disconnecting", "deleted"} =>
                              /\ call[u] \in {Disconnect, NoCall}
                              /\ \A v \in App \ {u} : pc'[v] = "idle"
                        /\ call[u] = Disconnect => connection = "disconnecting"
                        /\ connection = "deleted" => pc'[u] = "join"
                        /\ pc'[u] = "join" => connection = "deleted"
                        /\ pc'[u] = "delete" => connection = "disconnecting" /\ call[u] = NoCall
                        /\ pc'[u] = "save" /\ call[u] \in Once =>
                              /\ \A i \in DOMAIN pending_calls' : pending_calls'[i] # call[u]
                              /\ \A v \in App : pc'[v] = "save" /\ call[v] = call[u] => v = u
      BY <1>1 DEF ThreadsFollowObjects
    <2>1. pc[u] # "idle"
      BY <1>1, <1>4
    <2>2. connection # "deleted"
      BY <1>1 DEF IInv, ThreadsFollowObjects
    <2>3. pc'[u] = "save" /\ call[u] \in Once =>
              /\ \A i \in DOMAIN pending_calls' : pending_calls'[i] # call[u]
              /\ \A v \in App : pc'[v] = "save" /\ call[v] = call[u] => v = u
      BY <1>1, <1>3, <1>4 DEF IInv, ThreadsFollowObjects, c
    <2> QED
      BY <1>1, <1>4, <2>1, <2>2, <2>3 DEF IInv, ThreadsFollowObjects
  <1>o. ObjectsAwaitCallbacks'
    <2>1. \A i \in DOMAIN pending_calls : NotRun(i)' => NotRun(i)
      BY <1>1, <1>2, <1>4 DEF NotRun
    <2> QED
      BY <1>1, <1>3, <1>4, <1>5, <2>1 DEF IInv, ObjectsAwaitCallbacks
  <1>r. ReleasesComeLast'
    <2>1. \A k \in 1..Len(requests) : pending_calls'[requests[k]] = pending_calls[requests[k]]
      BY <1>3, <1>4 DEF Sent
    <2> QED
      BY <1>1, <1>4, <2>1 DEF IInv, ReleasesComeLast, Completing
  <1>d. DeletedSurfacesRest'
    <2>1. \A k \in 1..Len(requests) : pending_calls'[requests[k]] = pending_calls[requests[k]]
      BY <1>3, <1>4 DEF Sent
    <2> QED
      BY <1>1, <1>4, <2>1 DEF IInv, DeletedSurfacesRest
  <1>e. DisconnectEnds'
    <2>1. ~ AllReported
      BY <1>1 DEF AllReported
    <2>2. ~ Released' /\ \A s \in Surface : release_handle[s] # "deleted"
      BY <1>1, <1>4, <2>1 DEF IInv, DisconnectEnds, Released
    <2> QED
      BY <1>1, <2>2 DEF IInv, DisconnectEnds
  <1> QED
    BY <1>t, <1>i, <1>c, <1>h, <1>o, <1>r, <1>d, <1>e DEF IInv

\* Threads go on after their calls were sent: to a wait, or out of the call.
ThreadsGoOn ==
    \A u \in App :
        \/ pc'[u] = pc[u] /\ call'[u] = call[u] /\ id'[u] = id[u]
        \/ /\ pc[u] \in {"send", "keep_handle", "check", "waiting"} /\ connection # "deleted"
           /\ pc'[u] \in {"idle", "keep_handle", "check", "waiting", "delete"}
           /\ call'[u] \in {call[u], NoCall}
           /\ pc'[u] \in {"keep_handle", "check", "waiting"} =>
                 call'[u] = call[u] /\ id'[u] = id[u] /\ call[u] \in Call
           /\ pc'[u] = "delete" => connection = "disconnecting" /\ call'[u] = NoCall

\* It concerns neither the objects nor the cache.
LEMMA ThreadsMove ==
    ASSUME IInv, ThreadsGoOn, UNCHANGED <<pending_calls, connection, surface>>
    PROVE  /\ CallsFollowObjects' /\ ThreadsFollowObjects'
           /\ \A u \in App : pc'[u] \in {"save", "send"} =>
                                pc'[u] = pc[u] /\ call'[u] = call[u] /\ id'[u] = id[u]
  <1>1. CallsFollowObjects'
    <2>1. \A u \in App : pc'[u] \in {"save", "send", "keep_handle", "check", "waiting"} =>
                             call'[u] \in Call
      BY DEF IInv, CallsFollowObjects, ThreadsGoOn
    <2> QED
      BY <2>1 DEF IInv, CallsFollowObjects
  <1>2. \A u \in App : pc'[u] \in {"save", "send"} =>
                          pc'[u] = pc[u] /\ call'[u] = call[u] /\ id'[u] = id[u]
    BY DEF ThreadsGoOn
  <1>3. ThreadsFollowObjects'
    <2> SUFFICES ASSUME NEW u \in App, pc'[u] # "idle"
                 PROVE  /\ connection \notin {"none", "error"}
                        /\ call'[u][1] = "release_surface" =>
                              surface[call'[u][2]] \in {"releasing", "deleted"}
                        /\ call'[u][1] \in OnSurface /\ call'[u][1] # "release_surface" =>
                              surface[call'[u][2]] \in {"creating", "live"}
                        /\ connection \in {"disconnecting", "deleted"} =>
                              /\ call'[u] \in {Disconnect, NoCall}
                              /\ \A v \in App \ {u} : pc'[v] = "idle"
                        /\ call'[u] = Disconnect => connection = "disconnecting"
                        /\ connection = "deleted" => pc'[u] = "join"
                        /\ pc'[u] = "join" => connection = "deleted"
                        /\ pc'[u] = "delete" => connection = "disconnecting" /\ call'[u] = NoCall
                        /\ pc'[u] = "save" /\ call'[u] \in Once =>
                              /\ \A i \in DOMAIN pending_calls : pending_calls[i] # call'[u]
                              /\ \A v \in App : pc'[v] = "save" /\ call'[v] = call'[u] => v = u
      BY DEF ThreadsFollowObjects
    <2>1. pc[u] # "idle" /\ \A v \in App : pc[v] = "idle" => pc'[v] = "idle"
      BY DEF ThreadsGoOn
    <2>2. call'[u] \in {call[u], NoCall}
      BY DEF ThreadsGoOn
    <2>3. NoCall[1] \notin OnSurface /\ NoCall[1] # "release_surface" /\ NoCall # Disconnect
      BY DEF NoCall, OnSurface, Disconnect
    <2>4. pc'[u] = "save" /\ call'[u] \in Once =>
              /\ \A i \in DOMAIN pending_calls : pending_calls[i] # call'[u]
              /\ \A v \in App : pc'[v] = "save" /\ call'[v] = call'[u] => v = u
      BY <1>2 DEF IInv, ThreadsFollowObjects
    <2>5. /\ connection = "deleted" => pc'[u] = "join"
          /\ pc'[u] = "join" => connection = "deleted"
          /\ pc'[u] = "delete" => connection = "disconnecting" /\ call'[u] = NoCall
      BY <2>1 DEF IInv, ThreadsFollowObjects, ThreadsGoOn
    <2> QED
      BY <2>1, <2>2, <2>3, <2>4, <2>5 DEF IInv, ThreadsFollowObjects
  <1> QED
    BY <1>1, <1>2, <1>3

\* When nobody begins, saves or sends a call, the cache and the queue stay
\* what they are.
LEMMA QueueRests ==
    ASSUME IInv,
           \A u \in App : pc'[u] \in {"save", "send"} =>
                             pc'[u] = pc[u] /\ call'[u] = call[u] /\ id'[u] = id[u],
           UNCHANGED <<pending_calls, connection, surface, requests, io_pc, current>>
    PROVE  /\ IdsAreUnique'
           /\ ObjectsAwaitCallbacks' /\ ReleasesComeLast' /\ DeletedSurfacesRest'
           /\ AllReported => AllReported'
           /\ Reporting' <=> Reporting
  <1>1. \A u \in App : pc'[u] \in {"save", "send"} =>
                             pc'[u] = pc[u] /\ call'[u] = call[u] /\ id'[u] = id[u]
    OBVIOUS
  <1>2. /\ Completing' <=> Completing
        /\ Reporting' <=> Reporting
        /\ Sent' = Sent
        /\ \A i \in DOMAIN pending_calls : NotRun(i)' => NotRun(i)
    BY <1>1 DEF Completing, Reporting, Sent, NotRun
  <1>3. IdsAreUnique'
    BY <1>1, <1>2 DEF IInv, IdsAreUnique
  <1>4. ObjectsAwaitCallbacks'
    BY <1>1, <1>2 DEF IInv, ObjectsAwaitCallbacks
  <1>5. ReleasesComeLast' /\ DeletedSurfacesRest'
    BY <1>1, <1>2 DEF IInv, ReleasesComeLast, DeletedSurfacesRest
  <1>6. AllReported => AllReported'
    BY <1>1, <1>2 DEF AllReported
  <1> QED
    BY <1>1, <1>2, <1>3, <1>4, <1>5, <1>6

\* When nothing else happens, only the end of the connection is left to look at.
LEMMA ThreadsRest ==
    ASSUME IInv, ThreadsGoOn,
           UNCHANGED <<pending_calls, connection, surface, requests, io_pc, current>>
    PROVE  /\ IdsAreUnique' /\ CallsFollowObjects' /\ ThreadsFollowObjects'
           /\ ObjectsAwaitCallbacks' /\ ReleasesComeLast' /\ DeletedSurfacesRest'
           /\ AllReported => AllReported'
           /\ Reporting' <=> Reporting
  BY ThreadsMove, QueueRests

\* ReturnFrom lets the thread go on.
LEMMA ReturnGoesOn ==
    ASSUME IInv, NEW t \in App, pc[t] \in {"send", "keep_handle"}, ReturnFrom(t)
    PROVE  /\ ThreadsGoOn
           /\ pc' \in [App -> {"idle", "save", "send", "keep_handle", "check", "waiting",
                               "delete", "join"}]
           /\ call' \in [App -> Call \cup {NoCall}] /\ id' \in [App -> 0..next_message_id]
           /\ pc'[t] \in {"idle", "check"} /\ \A u \in App \ {t} : pc'[u] = pc[u]
           /\ unwaited' \in [App -> SUBSET (Call \X (0..next_message_id))]
  <1>1. /\ pc \in [App -> {"idle", "save", "send", "keep_handle", "check", "waiting",
                           "delete", "join"}]
        /\ call \in [App -> Call \cup {NoCall}] /\ id \in [App -> 0..next_message_id]
        /\ call[t] \in Call /\ connection # "deleted"
        /\ 0 \in 0..next_message_id
        /\ unwaited \in [App -> SUBSET (Call \X (0..next_message_id))]
    <2>1. call[t] \in Call /\ connection # "deleted"
      BY DEF IInv, CallsFollowObjects, ThreadsFollowObjects
    <2> QED
      BY <2>1 DEF IInv, TypeOK
  <1>2. unwaited' \in [App -> SUBSET (Call \X (0..next_message_id))]
    <2>1. {<<call[t], id[t]>>} \in SUBSET (Call \X (0..next_message_id))
      BY <1>1
    <2>2. \/ unwaited' = unwaited
          \/ unwaited' = [unwaited EXCEPT ![t] = @ \cup {<<call[t], id[t]>>}]
      BY DEF ReturnFrom
    <2> QED
      BY <1>1, <2>1, <2>2
  <1>3. CASE /\ pc' = [pc EXCEPT ![t] = "idle"]
             /\ call' = [call EXCEPT ![t] = NoCall]
             /\ id' = [id EXCEPT ![t] = 0]
    BY <1>1, <1>2, <1>3 DEF ThreadsGoOn
  <1>4. CASE /\ pc' = [pc EXCEPT ![t] = "check"]
             /\ UNCHANGED <<call, id>>
    BY <1>1, <1>2, <1>4 DEF ThreadsGoOn
  <1> QED
    BY <1>3, <1>4 DEF ReturnFrom, Goto

\* release_surface keeps the handle it returns: the connection is not being
\* released, so the handles have not been deleted.
LEMMA KeepInvariant ==
    ASSUME IInv, NEW t \in App, KeepReleaseHandle(t)
    PROVE  IInv'
  <1>1. /\ UNCHANGED <<next_message_id, pending_calls, requests, link, io_pc, current, threw,
                       connection, surface, expecting, received, overlapped>>
        /\ pc[t] = "keep_handle" /\ ReturnFrom(t)
        /\ release_handle' = [release_handle EXCEPT ![call[t][2]] = "kept"]
    BY DEF KeepReleaseHandle, channelVars, ioVars, objectVars
  <1>2. /\ ThreadsGoOn
        /\ pc' \in [App -> {"idle", "save", "send", "keep_handle", "check", "waiting",
                            "delete", "join"}]
        /\ call' \in [App -> Call \cup {NoCall}] /\ id' \in [App -> 0..next_message_id]
        /\ pc'[t] \in {"idle", "check"} /\ \A u \in App \ {t} : pc'[u] = pc[u]
        /\ unwaited' \in [App -> SUBSET (Call \X (0..next_message_id))]
    BY <1>1, ReturnGoesOn
  <1>3. /\ IdsAreUnique' /\ CallsFollowObjects' /\ ThreadsFollowObjects'
        /\ ObjectsAwaitCallbacks' /\ ReleasesComeLast' /\ DeletedSurfacesRest'
        /\ AllReported => AllReported'
        /\ Reporting' <=> Reporting
    BY <1>1, <1>2, ThreadsRest
  <1>4. release_handle \in [Surface -> {"none", "kept", "deleted"}]
    BY DEF IInv, TypeOK
  <1>t. TypeOK'
    BY <1>1, <1>2, <1>4 DEF IInv, TypeOK
  <1>e. DisconnectEnds'
    <2>1. connection \in {"disconnecting", "deleted"} => call[t][2] \notin Surface
      BY <1>1, CallFacts DEF IInv, ThreadsFollowObjects, Disconnect, NoCall
    <2>2. /\ Released' => Released
          /\ Released => connection \in {"disconnecting", "deleted"}
          /\ io_pc \in {"notify", "erase"} /\ pending_calls[current] = Disconnect =>
                connection \in {"disconnecting", "deleted"}
      BY <1>1, <1>2 DEF IInv, DisconnectEnds, Released, AllReported, IdsAreUnique, Completing,
                        CallsFollowObjects
    <2>3. \A s \in Surface : /\ release_handle'[s] = "deleted" => release_handle[s] = "deleted"
                             /\ call[t][2] \notin Surface => release_handle'[s] = release_handle[s]
      BY <1>1, <1>4
    <2> QED
      BY <1>1, <1>3, <2>1, <2>2, <2>3 DEF IInv, DisconnectEnds
  <1> QED
    BY <1>3, <1>t, <1>e DEF IInv

\* What send_message does to its thread.
LEMMA SendEffect ==
    ASSUME IInv, NEW t \in App, send_message(t)
    PROVE  /\ UNCHANGED <<next_message_id, pending_calls, link, io_pc, current, threw, connection,
                          surface, expecting, received, release_handle, overlapped>>
           /\ pc[t] = "send" /\ ThreadsGoOn
           /\ pc' \in [App -> {"idle", "save", "send", "keep_handle", "check", "waiting",
                               "delete", "join"}]
           /\ call' \in [App -> Call \cup {NoCall}] /\ id' \in [App -> 0..next_message_id]
           /\ pc'[t] \in {"idle", "keep_handle", "check"}
           /\ \A u \in App \ {t} : pc'[u] = pc[u]
           /\ requests' = requests \/ (link = "up" /\ requests' = Append(requests, id[t]))
           /\ unwaited' \in [App -> SUBSET (Call \X (0..next_message_id))]
  <1>1. /\ UNCHANGED <<next_message_id, pending_calls, link, io_pc, current, threw, connection,
                       surface, expecting, received, release_handle, overlapped>>
        /\ pc[t] = "send"
        /\ requests' = requests \/ (link = "up" /\ requests' = Append(requests, id[t]))
    BY DEF send_message, ioVars, objectVars, handleVars
  <1>2. /\ pc \in [App -> {"idle", "save", "send", "keep_handle", "check", "waiting",
                           "delete", "join"}]
        /\ call \in [App -> Call \cup {NoCall}] /\ id \in [App -> 0..next_message_id]
        /\ call[t] \in Call /\ connection # "deleted"
        /\ unwaited \in [App -> SUBSET (Call \X (0..next_message_id))]
    BY <1>1 DEF IInv, TypeOK, CallsFollowObjects, ThreadsFollowObjects
  <1>3. CASE AfterSend(call[t]) = "return"
    <2>1. ReturnFrom(t)
      BY <1>3 DEF send_message
    <2> QED
      BY <1>1, <2>1, ReturnGoesOn
  <1>4. CASE AfterSend(call[t]) # "return"
    <2>1. AfterSend(call[t]) \in {"keep_handle", "check"}
      BY <1>4 DEF AfterSend
    <2>2. pc' = [pc EXCEPT ![t] = AfterSend(call[t])] /\ UNCHANGED <<call, id, unwaited>>
      BY <1>4 DEF send_message, Goto
    <2> QED
      BY <1>1, <1>2, <2>1, <2>2 DEF ThreadsGoOn
  <1> QED
    BY <1>3, <1>4

\* send_message: a call is sent after those about what it releases, and before
\* nothing that is still to come about it.
LEMMA SendInvariant ==
    ASSUME IInv, NEW t \in App, send_message(t)
    PROVE  IInv'
  <1>1. /\ UNCHANGED <<next_message_id, pending_calls, link, io_pc, current, threw, connection,
                       surface, expecting, received, release_handle, overlapped>>
        /\ pc[t] = "send" /\ ThreadsGoOn
        /\ pc' \in [App -> {"idle", "save", "send", "keep_handle", "check", "waiting",
                            "delete", "join"}]
        /\ call' \in [App -> Call \cup {NoCall}] /\ id' \in [App -> 0..next_message_id]
        /\ pc'[t] \in {"idle", "keep_handle", "check"}
        /\ \A u \in App \ {t} : pc'[u] = pc[u]
        /\ requests' = requests \/ (link = "up" /\ requests' = Append(requests, id[t]))
        /\ unwaited' \in [App -> SUBSET (Call \X (0..next_message_id))]
    BY SendEffect
  <1>2. /\ CallsFollowObjects' /\ ThreadsFollowObjects'
        /\ \A u \in App : pc'[u] \in {"save", "send"} =>
                             pc'[u] = pc[u] /\ call'[u] = call[u] /\ id'[u] = id[u]
        /\ \A u \in App : pc'[u] \in {"save", "send"} => u # t
    BY <1>1, ThreadsMove
  <1>3. /\ id[t] \in DOMAIN pending_calls /\ pending_calls[id[t]] = call[t]
        /\ id[t] \notin Sent /\ (Completing => current # id[t])
        /\ \A u \in App : pc[u] = "send" /\ id[u] = id[t] => u = t
        /\ call[t] \in Call
        /\ requests \in Seq(1..next_message_id) /\ id[t] \in 1..next_message_id
    BY <1>1 DEF IInv, IdsAreUnique, CallsFollowObjects, TypeOK
  <1>e. DisconnectEnds'
    <2>1. ~ AllReported
      BY <1>1 DEF AllReported
    <2>2. ~ Released /\ \A s \in Surface : release_handle[s] # "deleted"
      BY <2>1 DEF IInv, DisconnectEnds
    <2>3. ~ Released'
      BY <1>1, <2>2 DEF Released
    <2> QED
      BY <1>1, <2>2, <2>3 DEF IInv, DisconnectEnds
  <1>4. CASE requests' = requests
    <2>1. /\ IdsAreUnique' /\ ObjectsAwaitCallbacks' /\ ReleasesComeLast' /\ DeletedSurfacesRest'
      BY <1>1, <1>4, ThreadsRest
    <2>2. TypeOK'
      BY <1>1, <1>4 DEF IInv, TypeOK
    <2> QED
      BY <1>2, <1>e, <2>1, <2>2 DEF IInv
  <1>5. CASE requests' = Append(requests, id[t])
    <2> DEFINE n == Len(requests) + 1
    <2>1. /\ requests' \in Seq(1..next_message_id) /\ Len(requests') = n
          /\ \A k \in 1..Len(requests) : requests'[k] = requests[k]
          /\ requests'[n] = id[t]
          /\ Len(requests) \in Nat
      BY <1>3, <1>5, QueueGrows
    <2>2. 1..Len(requests') = 1..Len(requests) \cup {n} /\ n \notin 1..Len(requests)
      BY <2>1
    <2>3. /\ Sent' = Sent \cup {id[t]}
          /\ Completing' <=> Completing
          /\ Reporting' <=> Reporting
      <3>1. \A x : x \in Sent' <=> x \in Sent \cup {id[t]}
        BY <2>1, <2>2 DEF Sent
      <3> QED
        BY <1>1, <3>1 DEF Completing, Reporting
    <2>4. \A i \in DOMAIN pending_calls :
              /\ NotRun(i)' => NotRun(i)
              /\ i # id[t] => ~ Covers(pending_calls[i], call[t])
      <3> SUFFICES ASSUME NEW i \in DOMAIN pending_calls
                   PROVE  /\ NotRun(i)' => NotRun(i)
                          /\ i # id[t] => ~ Covers(pending_calls[i], call[t])
        OBVIOUS
      <3>1. NotRun(i)' => NotRun(i)
        BY <1>1, <1>2, <2>3 DEF NotRun
      <3>2. ASSUME pending_calls[i] = Disconnect
            PROVE  i = id[t]
        <4>1. call[t] = Disconnect
          BY <1>1, <1>3, <3>2, CallFacts DEF IInv, CallsFollowObjects, ThreadsFollowObjects
        <4> QED
          BY <1>1, <3>2, <4>1, OnceCalled DEF Once
      <3>3. ASSUME pending_calls[i][1] = "release_surface", call[t][2] = pending_calls[i][2]
            PROVE  i = id[t]
        <4>1. pending_calls[i] \in Call
          BY DEF IInv, TypeOK
        <4>2. pending_calls[i][2] \in Surface /\ pending_calls[i] \in Once
          BY <3>3, <4>1, CallShape
        <4>3. surface[pending_calls[i][2]] \in {"releasing", "deleted"}
          BY <3>3 DEF IInv, CallsFollowObjects
        <4>4. call[t][1] \in OnSurface
          BY <1>3, <3>3, <4>2, CallShape
        <4>5. call[t][1] = "release_surface"
          BY <1>1, <3>3, <4>3, <4>4 DEF IInv, ThreadsFollowObjects
        <4>6. call[t] = pending_calls[i]
          <5>1. call[t] = <<call[t][1], call[t][2]>>
            BY <1>3, CallFacts
          <5>2. pending_calls[i] = <<pending_calls[i][1], pending_calls[i][2]>>
            BY <4>1, CallFacts
          <5> QED
            BY <3>3, <4>5, <5>1, <5>2
        <4> QED
          BY <1>1, <4>2, <4>6, OnceCalled
      <3> QED
        BY <3>1, <3>2, <3>3 DEF Covers
    <2> HIDE DEF n
    <2>t. TypeOK'
      BY <1>1, <2>1 DEF IInv, TypeOK
    <2>i. IdsAreUnique'
      <3>1. \A k, l \in 1..Len(requests') : requests'[k] = requests'[l] => k = l
        BY <1>3, <2>1, <2>2 DEF IInv, IdsAreUnique, Sent
      <3> QED
        <4>1. /\ Sent' \subseteq DOMAIN pending_calls
              /\ Completing => current \in DOMAIN pending_calls /\ current \notin Sent'
          BY <1>3, <2>3 DEF IInv, IdsAreUnique
        <4>2. ASSUME NEW u \in App, pc'[u] = "send"
              PROVE  /\ id'[u] \in DOMAIN pending_calls /\ pending_calls[id'[u]] = call'[u]
                     /\ id'[u] \notin Sent'
                     /\ Completing => current # id'[u]
                     /\ \A v \in App : pc'[v] = "send" /\ id'[v] = id'[u] => v = u
          <5>1. pc[u] = "send" /\ call'[u] = call[u] /\ id'[u] = id[u] /\ u # t
            BY <1>2, <4>2
          <5>2. \A v \in App : pc'[v] = "send" => pc[v] = "send" /\ id'[v] = id[v]
            BY <1>2
          <5> QED
            BY <1>3, <2>3, <5>1, <5>2 DEF IInv, IdsAreUnique
        <4> QED
          BY <1>1, <2>3, <3>1, <4>1, <4>2 DEF IdsAreUnique
    <2>o. ObjectsAwaitCallbacks'
      BY <1>1, <1>2, <2>3, <2>4 DEF IInv, ObjectsAwaitCallbacks
    <2>r. ReleasesComeLast'
      <3>1. \A k \in 1..Len(requests) : /\ requests[k] \in DOMAIN pending_calls
                                        /\ requests[k] # id[t]
        BY <1>3 DEF IInv, IdsAreUnique, Sent
      <3>2. ASSUME NEW k \in 1..Len(requests'), NEW l \in 1..Len(requests'), k < l
            PROVE  ~ Covers(pending_calls[requests'[k]], pending_calls[requests'[l]])
        <4>1. k \in 1..Len(requests)
          BY <2>1, <2>2, <3>2 DEF n
        <4>2. CASE l = n
          BY <1>3, <2>1, <2>4, <3>1, <4>1, <4>2
        <4>3. CASE l \in 1..Len(requests)
          BY <2>1, <3>2, <4>1, <4>3 DEF IInv, ReleasesComeLast
        <4> QED
          BY <2>2, <4>2, <4>3
      <3>3. ASSUME Completing, NEW k \in 1..Len(requests')
            PROVE  ~ Covers(pending_calls[current], pending_calls[requests'[k]])
        <4>1. current \in DOMAIN pending_calls
          BY <3>3 DEF IInv, IdsAreUnique
        <4>2. CASE k = n
          BY <1>3, <2>1, <2>4, <3>3, <4>1, <4>2
        <4>3. CASE k \in 1..Len(requests)
          BY <2>1, <3>3, <4>3 DEF IInv, ReleasesComeLast
        <4> QED
          BY <2>2, <4>2, <4>3
      <3> QED
        BY <1>1, <2>3, <3>2, <3>3 DEF ReleasesComeLast, Covers, Disconnect
    <2>d. DeletedSurfacesRest'
      <3>1. \A s \in Surface : surface[s] = "deleted" =>
                \A k \in 1..Len(requests') : pending_calls[requests'[k]][2] # s
        <4> SUFFICES ASSUME NEW s \in Surface, surface[s] = "deleted",
                            NEW k \in 1..Len(requests')
                     PROVE  pending_calls[requests'[k]][2] # s
          OBVIOUS
        <4>1. CASE k = n
          BY <1>1, <1>3, <2>1, <4>1 DEF IInv, DeletedSurfacesRest
        <4>2. CASE k \in 1..Len(requests)
          BY <2>1, <4>2 DEF IInv, DeletedSurfacesRest
        <4> QED
          BY <2>2, <4>1, <4>2
      <3> QED
        BY <1>1, <1>2, <2>3, <3>1 DEF IInv, DeletedSurfacesRest
    <2> QED
      BY <1>2, <1>e, <2>t, <2>i, <2>o, <2>r, <2>d DEF IInv
  <1> QED
    BY <1>1, <1>4, <1>5

\* wait_for_result: mir_connection_release waits for the answer of the
\* disconnect, since nothing was said to be expected.
LEMMA WaitInvariant ==
    ASSUME IInv, NEW t \in App, wait_for_result(t)
    PROVE  IInv'
  <1>1. /\ UNCHANGED <<next_message_id, pending_calls, requests, link, io_pc, current, threw,
                       connection, surface, release_handle, overlapped, unwaited>>
        /\ pc[t] = "check"
    BY DEF wait_for_result, channelVars, ioVars, objectVars
  <1>2. /\ pc \in [App -> {"idle", "save", "send", "keep_handle", "check", "waiting",
                           "delete", "join"}]
        /\ call \in [App -> Call \cup {NoCall}] /\ id \in [App -> 0..next_message_id]
        /\ call[t] \in Call /\ connection # "deleted"
        /\ expecting \in [Call -> Nat] /\ received \in [Call -> Nat]
        /\ Disconnect \in Call /\ expecting[Disconnect] = 0 /\ 0 \in 0..next_message_id
        /\ call[t][1] = "disconnect" <=> call[t] = Disconnect
        /\ call[t] = Disconnect => connection = "disconnecting"
    <2>1. call[t] \in Call
      BY <1>1 DEF IInv, CallsFollowObjects
    <2>2. Disconnect \in Call /\ (call[t][1] = "disconnect" <=> call[t] = Disconnect)
      BY <2>1, CallFacts
    <2>3. /\ connection # "deleted" /\ expecting[Disconnect] = 0
          /\ call[t] = Disconnect => connection = "disconnecting"
      BY <1>1 DEF IInv, ThreadsFollowObjects, DisconnectEnds
    <2> QED
      BY <2>1, <2>2, <2>3 DEF IInv, TypeOK
  <1>3. /\ ThreadsGoOn
        /\ pc' \in [App -> {"idle", "save", "send", "keep_handle", "check", "waiting",
                            "delete", "join"}]
        /\ call' \in [App -> Call \cup {NoCall}] /\ id' \in [App -> 0..next_message_id]
        /\ expecting' \in [Call -> Nat] /\ received' \in [Call -> Nat]
        /\ expecting'[Disconnect] = 0
        /\ received'[Disconnect] > 0 => received[Disconnect] > 0
        /\ \A u \in App : pc'[u] \in {"delete", "join"} =>
              pc[u] \in {"delete", "join"} \/ received[Disconnect] > 0
    <2>1. CASE /\ MustWait(call[t])
               /\ pc' = [pc EXCEPT ![t] = "waiting"] /\ UNCHANGED <<expecting, received, call, id>>
      BY <1>1, <1>2, <2>1 DEF ThreadsGoOn
    <2>2. CASE /\ ~ MustWait(call[t])
               /\ expecting' = [expecting EXCEPT ![call[t]] = 0]
               /\ received' = [received EXCEPT ![call[t]] = 0]
               /\ pc' = [pc EXCEPT ![t] = IF call[t][1] = "disconnect" THEN "delete" ELSE "idle"]
               /\ call' = [call EXCEPT ![t] = NoCall]
               /\ id' = [id EXCEPT ![t] = 0]
      <3>1. call[t] = Disconnect => received[Disconnect] > 0
        BY <1>2, <2>2 DEF MustWait
      <3>2. /\ expecting' \in [Call -> Nat] /\ received' \in [Call -> Nat]
            /\ expecting'[Disconnect] = 0
            /\ received'[Disconnect] > 0 => received[Disconnect] > 0
        BY <1>2, <2>2
      <3>3. /\ pc'[t] \in {"idle", "delete"}
            /\ pc'[t] = "delete" => call[t] = Disconnect
            /\ \A u \in App \ {t} : pc'[u] = pc[u] /\ call'[u] = call[u] /\ id'[u] = id[u]
            /\ call'[t] = NoCall
        BY <1>2, <2>2
      <3>4. ThreadsGoOn
        BY <1>1, <1>2, <3>3 DEF ThreadsGoOn
      <3> QED
        BY <1>2, <2>2, <3>1, <3>2, <3>3, <3>4
    <2> QED
      BY <2>1, <2>2 DEF wait_for_result, Goto
  <1>4. /\ IdsAreUnique' /\ CallsFollowObjects' /\ ThreadsFollowObjects'
        /\ ObjectsAwaitCallbacks' /\ ReleasesComeLast' /\ DeletedSurfacesRest'
        /\ AllReported => AllReported'
        /\ Reporting' <=> Reporting
    BY <1>1, <1>3, ThreadsRest
  <1>t. TypeOK'
    BY <1>1, <1>3 DEF IInv, TypeOK
  <1>e. DisconnectEnds'
    <2>1. Released' => Released
      BY <1>1, <1>3 DEF Released
    <2> QED
      BY <1>1, <1>3, <1>4, <2>1 DEF IInv, DisconnectEnds
  <1> QED
    BY <1>4, <1>t, <1>e DEF IInv

\* The connection is deleted when its last answer has been reported.
LEMMA DeleteInvariant ==
    ASSUME IInv, NEW t \in App, DeleteConnection(t)
    PROVE  IInv'
  <1>1. /\ UNCHANGED <<next_message_id, pending_calls, requests, link, io_pc, current, threw,
                       call, id, surface, expecting, received, release_handle, overlapped, unwaited>>
        /\ pc[t] = "delete" /\ pc' = [pc EXCEPT ![t] = "join"]
        /\ connection' = "deleted"
    BY DEF DeleteConnection, Goto, channelVars, ioVars, handleVars
  <1>2. /\ pc \in [App -> {"idle", "save", "send", "keep_handle", "check", "waiting",
                           "delete", "join"}]
        /\ connection = "disconnecting" /\ call[t] = NoCall
        /\ \A u \in App \ {t} : pc[u] = "idle"
        /\ AllReported /\ ~ Reporting
        /\ \A s \in Surface : release_handle[s] # "kept"
    BY <1>1 DEF IInv, TypeOK, ThreadsFollowObjects, DisconnectEnds, Released
  <1>3. /\ pc'[t] = "join" /\ \A u \in App \ {t} : pc'[u] = "idle"
        /\ Completing' <=> Completing
        /\ Sent' = Sent /\ ~ Reporting'
        /\ \A i \in DOMAIN pending_calls : NotRun(i)' => NotRun(i)
    BY <1>1, <1>2 DEF Completing, Reporting, Sent, NotRun
  <1>t. TypeOK'
    BY <1>1, <1>2 DEF IInv, TypeOK
  <1>i. IdsAreUnique'
    BY <1>1, <1>3 DEF IInv, IdsAreUnique
  <1>c. CallsFollowObjects'
    BY <1>1, <1>3 DEF IInv, CallsFollowObjects
  <1>h. ThreadsFollowObjects'
    <2>1. NoCall[1] \notin OnSurface /\ NoCall[1] # "release_surface" /\ NoCall # Disconnect
      BY DEF NoCall, OnSurface, Disconnect
    <2> QED
      BY <1>1, <1>2, <1>3, <2>1 DEF ThreadsFollowObjects
  <1>o. ObjectsAwaitCallbacks'
    BY <1>1, <1>2, <1>3 DEF IInv, ObjectsAwaitCallbacks
  <1>r. ReleasesComeLast' /\ DeletedSurfacesRest'
    BY <1>1, <1>3 DEF IInv, ReleasesComeLast, DeletedSurfacesRest
  <1>e. DisconnectEnds'
    BY <1>1, <1>2, <1>3 DEF IInv, DisconnectEnds, AllReported
  <1> QED
    BY <1>t, <1>i, <1>c, <1>h, <1>o, <1>r, <1>e DEF IInv

\* The channel goes with the connection.
LEMMA JoinInvariant ==
    ASSUME IInv, NEW t \in App, JoinIo(t)
    PROVE  IInv'
  <1>1. /\ UNCHANGED <<next_message_id, current, threw, call, id, connection, surface, expecting,
                       received, release_handle, overlapped, unwaited>>
        /\ pc[t] = "join" /\ pc' = [pc EXCEPT ![t] = "idle"]
        /\ io_pc' = "joined" /\ link' = "down"
        /\ requests' = <<>> /\ pending_calls' = <<>>
    BY DEF JoinIo, Goto, objectVars, handleVars
  <1>2. /\ pc \in [App -> {"idle", "save", "send", "keep_handle", "check", "waiting",
                           "delete", "join"}]
        /\ connection = "deleted" /\ \A u \in App \ {t} : pc[u] = "idle"
        /\ \A s \in Surface : release_handle[s] # "kept"
    BY <1>1 DEF IInv, TypeOK, ThreadsFollowObjects, DisconnectEnds, Released
  <1>3. /\ \A u \in App : pc'[u] = "idle"
        /\ ~ Completing' /\ ~ Reporting'
        /\ DOMAIN pending_calls' = {} /\ Len(requests') = 0
    BY <1>1, <1>2 DEF Completing, Reporting
  <1>t. TypeOK'
    BY <1>1, <1>2, <1>3 DEF IInv, TypeOK
  <1>i. IdsAreUnique'
    BY <1>1, <1>3 DEF IdsAreUnique, Sent
  <1>c. CallsFollowObjects' /\ ThreadsFollowObjects'
    BY <1>3 DEF CallsFollowObjects, ThreadsFollowObjects
  <1>o. ObjectsAwaitCallbacks'
    BY <1>3 DEF ObjectsAwaitCallbacks
  <1>r. ReleasesComeLast' /\ DeletedSurfacesRest'
    BY <1>3 DEF ReleasesComeLast, DeletedSurfacesRest
  <1>e. DisconnectEnds'
    BY <1>1, <1>2, <1>3 DEF IInv, DisconnectEnds, AllReported
  <1> QED
    BY <1>t, <1>i, <1>c, <1>o, <1>r, <1>e DEF IInv

-----------------------------------------------------------------------------
(* The io thread and the server *)

\* The first request sent is the one whose reply is read.
LEMMA ReadInvariant == IInv /\ ReadReply => IInv'
  <1> SUFFICES ASSUME IInv, ReadReply PROVE IInv'
    OBVIOUS
  <1> DEFINE n == Len(requests) - 1
  <1>1. /\ UNCHANGED <<next_message_id, pending_calls, link, threw, pc, call, id, connection,
                       surface, expecting, received, release_handle, overlapped, unwaited>>
        /\ io_pc = "idle" /\ requests # <<>> /\ requests' = Tail(requests)
    BY DEF ReadReply, objectVars, handleVars
  <1>2. /\ TypeOK /\ requests \in Seq(1..next_message_id) /\ next_message_id \in Nat
        /\ Head(requests) \in 1..next_message_id /\ Head(requests) = requests[1]
        /\ 1 \in 1..Len(requests)
        /\ requests' \in Seq(1..next_message_id) /\ Len(requests') = n
        /\ \A k \in 1..n : requests'[k] = requests[k + 1]
        /\ n \in Nat /\ Len(requests) \in Nat
    <2>1. TypeOK /\ requests \in Seq(1..next_message_id) /\ next_message_id \in Nat
      BY DEF IInv, TypeOK
    <2> QED
      BY <1>1, <2>1, QueueShrinks
  <1>3. \A k \in 1..n : k + 1 \in 1..Len(requests) /\ k + 1 # 1
    BY <1>2
  <1> HIDE DEF n
  <1>4. /\ Head(requests) \in DOMAIN pending_calls /\ current' = Head(requests)
        /\ io_pc' \in {"callback"}
        /\ Head(requests) \in Sent
    <2>1. Head(requests) \in Sent
      BY <1>2 DEF Sent
    <2>2. Head(requests) \in DOMAIN pending_calls
      BY <2>1 DEF IInv, IdsAreUnique
    <2> QED
      BY <2>1, <2>2 DEF ReadReply
  <1>u. \A k, l \in 1..Len(requests) : requests[k] = requests[l] => k = l
    BY DEF IInv, IdsAreUnique
  <1>5. /\ Sent' \subseteq Sent /\ current' \notin Sent' /\ current' \in Sent
        /\ \A i \in DOMAIN pending_calls : NotRun(i)' => NotRun(i)
        /\ ~ Completing
    <2>1. ASSUME NEW x \in Sent'
          PROVE  x \in Sent /\ x # Head(requests)
      <3>1. PICK k \in 1..n : x = requests[k + 1]
        BY <1>2 DEF Sent
      <3>2. k + 1 \in 1..Len(requests) /\ k + 1 # 1
        BY <1>3
      <3> QED
        BY <1>2, <1>u, <3>1, <3>2 DEF Sent
    <2> QED
      BY <1>1, <1>4, <2>1 DEF NotRun, Completing
  <1>t. TypeOK'
    <2>1. current' \in 0..next_message_id
      BY <1>2, <1>4
    <2> QED
      BY <1>1, <1>2, <1>4, <2>1 DEF TypeOK
  <1>i. IdsAreUnique'
    <2>1. \A k, l \in 1..Len(requests') : requests'[k] = requests'[l] => k = l
      <3> SUFFICES ASSUME NEW k \in 1..n, NEW l \in 1..n, requests'[k] = requests'[l]
                   PROVE  k = l
        BY <1>2
      <3>1. k + 1 = l + 1
        BY <1>2, <1>3, <1>u
      <3> QED
        BY <3>1
    <2> QED
      BY <1>1, <1>4, <1>5, <2>1 DEF IInv, IdsAreUnique
  <1>c. CallsFollowObjects' /\ ThreadsFollowObjects'
    BY <1>1 DEF IInv, CallsFollowObjects, ThreadsFollowObjects
  <1>o. ObjectsAwaitCallbacks'
    <2>1. pending_calls[current'][1] = "release_surface" =>
              surface[pending_calls[current'][2]] = "releasing"
      BY <1>4, <1>5 DEF IInv, ObjectsAwaitCallbacks, NotRun
    <2> QED
      BY <1>1, <1>5, <2>1 DEF IInv, ObjectsAwaitCallbacks
  <1>r. ReleasesComeLast'
    <2>1. ASSUME NEW k \in 1..n, NEW l \in 1..n, k < l
          PROVE  ~ Covers(pending_calls[requests'[k]], pending_calls[requests'[l]])
      <3>1. k + 1 < l + 1
        BY <2>1
      <3> QED
        BY <1>2, <1>3, <3>1 DEF IInv, ReleasesComeLast
    <2>2. ASSUME NEW k \in 1..n
          PROVE  ~ Covers(pending_calls[current'], pending_calls[requests'[k]])
      <3>1. 1 < k + 1
        OBVIOUS
      <3> QED
        BY <1>2, <1>3, <1>4, <3>1 DEF IInv, ReleasesComeLast
    <2> QED
      BY <1>1, <1>2, <2>1, <2>2 DEF ReleasesComeLast, Covers, Disconnect
  <1>d. DeletedSurfacesRest'
    <2>1. \A s \in Surface : surface[s] = "deleted" =>
              /\ \A k \in 1..Len(requests') : pending_calls[requests'[k]][2] # s
              /\ pending_calls[current'][2] # s
      BY <1>2, <1>3, <1>4 DEF IInv, DeletedSurfacesRest
    <2> QED
      BY <1>1, <2>1 DEF IInv, DeletedSurfacesRest
  <1>e. DisconnectEnds'
    <2>1. ~ Released /\ \A s \in Surface : release_handle[s] # "deleted"
      BY <1>1 DEF IInv, DisconnectEnds, AllReported
    <2> QED
      BY <1>1, <1>4, <2>1 DEF IInv, DisconnectEnds, Released
  <1> QED
    BY <1>t, <1>i, <1>c, <1>o, <1>r, <1>d, <1>e DEF IInv

\* Nothing is to follow the disconnect that the io thread completes.
LEMMA DisconnectIsLast ==
    ASSUME IInv, Completing, pending_calls[current] = Disconnect
    PROVE  /\ requests = <<>> /\ connection \in {"disconnecting", "deleted"}
           /\ \A u \in App : pc[u] \notin {"save", "send"}
  <1>1. connection \in {"disconnecting", "deleted"} /\ current \in DOMAIN pending_calls
    BY DEF IInv, IdsAreUnique, CallsFollowObjects
  <1>2. requests = <<>>
    <2>1. requests \in Seq(1..next_message_id)
      BY DEF IInv, TypeOK
    <2>2. 1 \notin 1..Len(requests)
      BY DEF IInv, ReleasesComeLast, Covers
    <2> QED
      BY <2>1, <2>2, QueueShrinks
  <1>3. ASSUME NEW u \in App, pc[u] \in {"save", "send"}
        PROVE  FALSE
    <2>1. call[u] = Disconnect
      BY <1>1, <1>3, CallFacts DEF IInv, ThreadsFollowObjects, CallsFollowObjects
    <2>2. pc[u] = "send" /\ id[u] = current
      BY <1>1, <1>3, <2>1, OnceCalled DEF Once
    <2> QED
      BY <2>2 DEF IInv, IdsAreUnique
  <1> QED
    BY <1>1, <1>2, <1>3

\* What a callback does to the objects: it hands over the one object that its
\* call asked for.
LEMMA CallbackEffect ==
    ASSUME IInv, RunCallback
    PROVE  LET c == pending_calls[current] IN
           /\ current \in DOMAIN pending_calls /\ c \in Call
           /\ \/ UNCHANGED connection
              \/ c = Connect /\ connection = "connecting" /\ connection' = "connected"
           /\ surface' \in [Surface -> {"none", "creating", "live", "releasing", "deleted"}]
           /\ \A s \in Surface :
                 \/ surface'[s] = surface[s]
                 \/ c = Create(s) /\ surface[s] = "creating" /\ surface'[s] = "live"
           /\ \/ UNCHANGED release_handle /\ c # Disconnect
              \/ /\ c = Disconnect
                 /\ release_handle' = [s \in Surface |->
                       IF release_handle[s] = "kept" THEN "deleted" ELSE release_handle[s]]
  <1> DEFINE c == pending_calls[current]
  <1>0. io_pc = "callback"
    BY DEF RunCallback
  <1>1. current \in DOMAIN pending_calls /\ c \in Call
    BY <1>0 DEF IInv, IdsAreUnique, Completing, TypeOK
  <1>2. /\ c[1] = "connect" <=> c = Connect
        /\ c[1] = "disconnect" <=> c = Disconnect
        /\ c[1] = "create_surface" => c = Create(c[2]) /\ c[2] \in Surface
    BY <1>1, CallFacts, CallShape
  <1>3. /\ c = Connect => connection = "connecting"
        /\ c[1] = "create_surface" => surface[c[2]] = "creating"
    BY <1>0, <1>1 DEF IInv, ObjectsAwaitCallbacks, NotRun
  <1>4. surface \in [Surface -> {"none", "creating", "live", "releasing", "deleted"}]
    BY DEF IInv, TypeOK
  <1>5. \/ c[1] = "connect" /\ connected
        \/ c[1] = "create_surface" /\ created(c[2])
        \/ c[1] = "disconnect" /\ done_disconnect
        \/ /\ c[1] \notin {"connect", "create_surface", "disconnect"}
           /\ UNCHANGED <<connection, surface, release_handle>>
    BY DEF RunCallback
  <1> HIDE DEF c
  <1>6. CASE c[1] = "connect" /\ connected
    BY <1>1, <1>2, <1>3, <1>4, <1>6 DEF connected, c
  <1>7. CASE c[1] = "create_surface" /\ created(c[2])
    <2>1. \A s \in Surface :
              \/ surface'[s] = surface[s]
              \/ c = Create(s) /\ surface[s] = "creating" /\ surface'[s] = "live"
      BY <1>2, <1>3, <1>4, <1>7 DEF created
    <2>2. surface' \in [Surface -> {"none", "creating", "live", "releasing", "deleted"}]
      BY <1>4, <1>7 DEF created
    <2> QED
      BY <1>1, <1>2, <1>7, <2>1, <2>2 DEF created, c
  <1>8. CASE c[1] = "disconnect" /\ done_disconnect
    BY <1>1, <1>2, <1>4, <1>8 DEF done_disconnect, c
  <1>9. CASE /\ c[1] \notin {"connect", "create_surface", "disconnect"}
             /\ UNCHANGED <<connection, surface, release_handle>>
    BY <1>1, <1>2, <1>4, <1>9 DEF c
  <1> QED
    BY <1>5, <1>6, <1>7, <1>8, <1>9

\* The callback of a reply.
LEMMA CallbackInvariant == IInv /\ RunCallback => IInv'
  <1> SUFFICES ASSUME IInv, RunCallback PROVE IInv'
    OBVIOUS
  <1> DEFINE c == pending_calls[current]
  <1>1. /\ UNCHANGED <<next_message_id, pending_calls, requests, link, current, threw, pc, call, id,
                       expecting, received, overlapped, unwaited>>
        /\ io_pc = "callback" /\ io_pc' \in {"notify", "erase"}
    BY DEF RunCallback, channelVars
  <1>2. /\ current \in DOMAIN pending_calls /\ c \in Call
        /\ \/ UNCHANGED connection
           \/ c = Connect /\ connection = "connecting" /\ connection' = "connected"
        /\ surface' \in [Surface -> {"none", "creating", "live", "releasing", "deleted"}]
        /\ \A s \in Surface :
              \/ surface'[s] = surface[s]
              \/ c = Create(s) /\ surface[s] = "creating" /\ surface'[s] = "live"
        /\ \/ UNCHANGED release_handle /\ c # Disconnect
           \/ /\ c = Disconnect
              /\ release_handle' = [s \in Surface |->
                    IF release_handle[s] = "kept" THEN "deleted" ELSE release_handle[s]]
    BY CallbackEffect
  <1> HIDE DEF c
  <1>3. /\ Completing /\ Completing' /\ Reporting
        /\ Sent' = Sent
        /\ \A i \in DOMAIN pending_calls : NotRun(i)' => NotRun(i) /\ i # current
    BY <1>1 DEF IInv, IdsAreUnique, Completing, Reporting, Sent, NotRun
  <1>4. /\ \A i \in DOMAIN pending_calls : c \in Once /\ i # current => pending_calls[i] # c
        /\ \A u \in App : pc[u] = "save" /\ c \in Once => call[u] # c
        /\ Connect \in Once /\ \A s \in Surface : Create(s) \in Once
    BY <1>2 DEF IInv, CallsFollowObjects, ThreadsFollowObjects, c, Once
  <1>t. TypeOK'
    <2>1. release_handle' \in [Surface -> {"none", "kept", "deleted"}]
      BY <1>2 DEF IInv, TypeOK
    <2>2. connection' \in {"none", "error", "connecting", "connected", "disconnecting", "deleted"}
      BY <1>2 DEF IInv, TypeOK
    <2> QED
      BY <1>1, <1>2, <2>1, <2>2 DEF IInv, TypeOK
  <1>i. IdsAreUnique'
    BY <1>1, <1>3 DEF IInv, IdsAreUnique
  <1>c. CallsFollowObjects'
    <2>1. \A i \in DOMAIN pending_calls :
             /\ connection' # "none"
             /\ pending_calls[i] = Disconnect => connection' \in {"disconnecting", "deleted"}
             /\ pending_calls[i][2] \in Surface => surface'[pending_calls[i][2]] # "none"
             /\ pending_calls[i][1] = "release_surface" =>
                   surface'[pending_calls[i][2]] \in {"releasing", "deleted"}
      <3> SUFFICES ASSUME NEW i \in DOMAIN pending_calls
                   PROVE  /\ connection' # "none"
                          /\ pending_calls[i] = Disconnect =>
                                connection' \in {"disconnecting", "deleted"}
                          /\ pending_calls[i][2] \in Surface => surface'[pending_calls[i][2]] # "none"
                          /\ pending_calls[i][1] = "release_surface" =>
                                surface'[pending_calls[i][2]] \in {"releasing", "deleted"}
        OBVIOUS
      <3>1. pending_calls[i][1] = "release_surface" => pending_calls[i][2] \in Surface
        BY CallShape DEF IInv, TypeOK
      <3> QED
        BY <1>2, <3>1 DEF IInv, CallsFollowObjects
    <2> QED
      BY <1>1, <2>1 DEF IInv, CallsFollowObjects
  <1>h. ThreadsFollowObjects'
    <2> SUFFICES ASSUME NEW u \in App, pc[u] # "idle"
                 PROVE  /\ connection' \notin {"none", "error"}
                        /\ call[u][1] = "release_surface" =>
                              surface'[call[u][2]] \in {"releasing", "deleted"}
                        /\ call[u][1] \in OnSurface /\ call[u][1] # "release_surface" =>
                              surface'[call[u][2]] \in {"creating", "live"}
                        /\ connection' \in {"disconnecting", "deleted"} =>
                              /\ call[u] \in {Disconnect, NoCall}
                              /\ \A v \in App \ {u} : pc[v] = "idle"
                        /\ call[u] = Disconnect => connection' = "disconnecting"
                        /\ connection' = "deleted" => pc[u] = "join"
                        /\ pc[u] = "join" => connection' = "deleted"
                        /\ pc[u] = "delete" => connection' = "disconnecting" /\ call[u] = NoCall
                        /\ pc[u] = "save" /\ call[u] \in Once =>
                              /\ \A i \in DOMAIN pending_calls : pending_calls[i] # call[u]
                              /\ \A v \in App : pc[v] = "save" /\ call[v] = call[u] => v = u
      BY <1>1 DEF ThreadsFollowObjects
    <2>1. call[u][1] \in OnSurface => call[u][2] \in Surface
      BY CallShape DEF IInv, TypeOK
    <2>2. /\ call[u][1] = "release_surface" => surface'[call[u][2]] \in {"releasing", "deleted"}
          /\ call[u][1] \in OnSurface /\ call[u][1] # "release_surface" =>
                surface'[call[u][2]] \in {"creating", "live"}
      BY <1>2, <2>1 DEF IInv, ThreadsFollowObjects, OnSurface
    <2> QED
      BY <1>2, <2>2 DEF IInv, ThreadsFollowObjects
  <1>o. ObjectsAwaitCallbacks'
    <2>1. ASSUME NEW i \in DOMAIN pending_calls, NotRun(i)'
          PROVE  /\ pending_calls[i] = Connect => connection' = "connecting"
                 /\ pending_calls[i][1] = "create_surface" =>
                       surface'[pending_calls[i][2]] = "creating"
                 /\ pending_calls[i][1] = "release_surface" =>
                       surface'[pending_calls[i][2]] = "releasing"
      <3>1. NotRun(i) /\ i # current
        BY <1>3, <2>1
      <3>2. pending_calls[i] \in Call
        BY DEF IInv, TypeOK
      <3>3. /\ pending_calls[i][1] \in {"create_surface", "release_surface"} =>
                  pending_calls[i][2] \in Surface
            /\ pending_calls[i][1] = "create_surface" =>
                  pending_calls[i] = Create(pending_calls[i][2])
        BY <3>2, CallShape, CallFacts
      <3> QED
        BY <1>2, <1>4, <3>1, <3>3 DEF IInv, ObjectsAwaitCallbacks
    <2>2. pending_calls[current][1] = "release_surface" =>
              surface'[pending_calls[current][2]] = "releasing"
      <3>1. pending_calls[current][1] = "release_surface" => pending_calls[current][2] \in Surface
        BY <1>2, CallShape DEF c
      <3> QED
        BY <1>2, <1>3, <3>1 DEF IInv, ObjectsAwaitCallbacks
    <2>3. ASSUME NEW u \in App, pc[u] = "save"
          PROVE  /\ call[u] = Connect => connection' = "connecting"
                 /\ call[u][1] = "create_surface" => surface'[call[u][2]] = "creating"
                 /\ call[u][1] = "release_surface" => surface'[call[u][2]] = "releasing"
      <3>2. call[u] \in Call
        BY <2>3 DEF IInv, CallsFollowObjects
      <3>3. /\ call[u][1] \in {"create_surface", "release_surface"} => call[u][2] \in Surface
            /\ call[u][1] = "create_surface" => call[u] = Create(call[u][2])
        BY <3>2, CallShape, CallFacts
      <3> QED
        BY <1>2, <1>4, <2>3, <3>3 DEF IInv, ObjectsAwaitCallbacks
    <2> QED
      BY <1>1, <2>1, <2>2, <2>3 DEF ObjectsAwaitCallbacks
  <1>r. ReleasesComeLast'
    BY <1>1, <1>3 DEF IInv, ReleasesComeLast
  <1>d. DeletedSurfacesRest'
    BY <1>1, <1>2, <1>3 DEF IInv, DeletedSurfacesRest
  <1>e. DisconnectEnds'
    <2>1. ~ Released /\ ~ Released'
      BY <1>1, <1>2, <1>3 DEF IInv, DisconnectEnds, Released
    <2>2. CASE UNCHANGED release_handle /\ c # Disconnect
      <3>1. \A s \in Surface : release_handle'[s] # "deleted"
        BY <1>3, <2>2 DEF IInv, DisconnectEnds, AllReported, c
      <3> QED
        BY <1>1, <2>1, <2>2, <3>1 DEF IInv, DisconnectEnds, c
    <2>3. CASE /\ c = Disconnect
               /\ release_handle' = [s \in Surface |->
                     IF release_handle[s] = "kept" THEN "deleted" ELSE release_handle[s]]
      <3>1. /\ requests = <<>> /\ connection \in {"disconnecting", "deleted"}
            /\ \A u \in App : pc[u] \notin {"save", "send"}
        BY <1>3, <2>3, DisconnectIsLast DEF c
      <3>2. AllReported'
        BY <1>1, <1>2, <2>3, <3>1 DEF AllReported, c
      <3>3. \A s \in Surface : release_handle'[s] # "kept"
        BY <2>3
      <3> QED
        BY <1>1, <2>1, <3>2, <3>3 DEF IInv, DisconnectEnds
    <2> QED
      BY <1>2, <2>2, <2>3
  <1> QED
    BY <1>t, <1>i, <1>c, <1>h, <1>o, <1>r, <1>d, <1>e DEF IInv

\* The io thread leaves its callback without a result, by an exception or by a
\* call that never returns; or it starts no other read.
LEMMA IoStopsInvariant == IInv /\ (CallbackThrows \/ CallbackCalls \/ Eof) => IInv'
  <1> SUFFICES ASSUME IInv, CallbackThrows \/ CallbackCalls \/ Eof PROVE IInv'
    OBVIOUS
  <1>1. /\ UNCHANGED <<channelVars, current, pc, call, id, connection, surface, expecting, received,
                       release_handle, overlapped, unwaited>>
        /\ \/ io_pc = "callback" /\ io_pc' = "idle" /\ threw' = threw \cup {pending_calls[current]}
           \/ io_pc = "callback" /\ io_pc' = "stuck" /\ threw' = threw
           \/ io_pc = "idle" /\ io_pc' = "ended" /\ threw' = threw
    BY DEF CallbackThrows, CallbackCalls, Eof, objectVars, handleVars
  <1>2. /\ Completing' => Completing
        /\ Reporting' => Reporting
        /\ Sent' = Sent
        /\ \A i \in DOMAIN pending_calls : NotRun(i)' => NotRun(i)
        /\ io_pc' \notin {"notify", "erase"}
    BY <1>1 DEF Completing, Reporting, Sent, NotRun, channelVars
  <1>t. TypeOK'
    <2>1. threw' \subseteq Call
      BY <1>1 DEF IInv, TypeOK, IdsAreUnique, Completing
    <2> QED
      BY <1>1, <2>1 DEF IInv, TypeOK, channelVars
  <1>i. IdsAreUnique'
    BY <1>1, <1>2 DEF IInv, IdsAreUnique, channelVars
  <1>c. CallsFollowObjects' /\ ThreadsFollowObjects'
    BY <1>1 DEF IInv, CallsFollowObjects, ThreadsFollowObjects, channelVars
  <1>o. ObjectsAwaitCallbacks'
    BY <1>1, <1>2 DEF IInv, ObjectsAwaitCallbacks, channelVars
  <1>r. ReleasesComeLast' /\ DeletedSurfacesRest'
    BY <1>1, <1>2 DEF IInv, ReleasesComeLast, DeletedSurfacesRest, channelVars
  <1>e. DisconnectEnds'
    <2>1. (AllReported => AllReported') /\ (Released' <=> Released)
      BY <1>1, <1>2 DEF AllReported, Released, channelVars
    <2> QED
      BY <1>1, <1>2, <2>1 DEF IInv, DisconnectEnds
  <1> QED
    BY <1>t, <1>i, <1>c, <1>o, <1>r, <1>e DEF IInv

\* The handle is notified, and with the disconnect's the connection's releaser
\* may go on: everything else has been reported before.
LEMMA NotifyInvariant == IInv /\ Notify => IInv'
  <1> SUFFICES ASSUME IInv, Notify PROVE IInv'
    OBVIOUS
  <1> DEFINE c == pending_calls[current]
  <1>1. /\ UNCHANGED <<next_message_id, pending_calls, requests, link, current, threw, call, id,
                       connection, surface, expecting, release_handle, overlapped, unwaited>>
        /\ io_pc = "notify" /\ io_pc' = "erase"
        /\ received' = [received EXCEPT ![c] = @ + 1]
        /\ pc' = [t \in App |-> IF pc[t] = "waiting" /\ call[t] = c THEN "check" ELSE pc[t]]
    BY DEF Notify, result_received, Woken, channelVars, objectVars
  <1>2. /\ Completing /\ Completing' /\ Reporting /\ ~ Reporting'
        /\ current \in DOMAIN pending_calls /\ c \in Call
        /\ pc \in [App -> {"idle", "save", "send", "keep_handle", "check", "waiting",
                           "delete", "join"}]
        /\ received \in [Call -> Nat]
    BY <1>1 DEF IInv, IdsAreUnique, TypeOK, Completing, Reporting
  <1> HIDE DEF c
  <1>3. ThreadsGoOn
    <2>1. \A u \in App : pc[u] = "waiting" => connection # "deleted" /\ call[u] \in Call
      BY DEF IInv, ThreadsFollowObjects, CallsFollowObjects
    <2> QED
      BY <1>1, <1>2, <2>1 DEF ThreadsGoOn
  <1>4. /\ CallsFollowObjects' /\ ThreadsFollowObjects'
        /\ \A u \in App : pc'[u] \in {"save", "send"} =>
                             pc'[u] = pc[u] /\ call'[u] = call[u] /\ id'[u] = id[u]
    BY <1>1, <1>3, ThreadsMove
  <1>5. Sent' = Sent /\ \A i \in DOMAIN pending_calls : NotRun(i)' => NotRun(i)
    BY <1>1, <1>4 DEF Sent, NotRun
  <1>t. TypeOK'
    <2>1. /\ received' \in [Call -> Nat]
          /\ pc' \in [App -> {"idle", "save", "send", "keep_handle", "check", "waiting",
                              "delete", "join"}]
      BY <1>1, <1>2
    <2> QED
      BY <1>1, <2>1 DEF IInv, TypeOK
  <1>i. IdsAreUnique'
    BY <1>1, <1>2, <1>4, <1>5 DEF IInv, IdsAreUnique
  <1>o. ObjectsAwaitCallbacks'
    BY <1>1, <1>2, <1>4, <1>5 DEF IInv, ObjectsAwaitCallbacks
  <1>r. ReleasesComeLast' /\ DeletedSurfacesRest'
    BY <1>1, <1>2, <1>4 DEF IInv, ReleasesComeLast, DeletedSurfacesRest
  <1>e. DisconnectEnds'
    <2>1. ~ Released
      BY <1>2 DEF IInv, DisconnectEnds
    <2>2. AllReported => AllReported'
      BY <1>1, <1>2, <1>4 DEF AllReported
    <2>3. CASE c = Disconnect
      <3>1. /\ requests = <<>> /\ connection \in {"disconnecting", "deleted"}
            /\ \A u \in App : pc[u] \notin {"save", "send"}
        BY <1>2, <2>3, DisconnectIsLast DEF c
      <3>2. AllReported
        BY <2>3, <3>1 DEF AllReported, c
      <3> QED
        BY <1>1, <1>2, <2>2, <2>3, <3>2 DEF IInv, DisconnectEnds, c
    <2>4. CASE c # Disconnect
      <3>1. ~ Released'
        BY <1>1, <1>2, <2>1, <2>4, CallFacts DEF Released
      <3> QED
        BY <1>1, <2>2, <2>4, <3>1 DEF IInv, DisconnectEnds, c
    <2> QED
      BY <2>3, <2>4
  <1> QED
    BY <1>4, <1>t, <1>i, <1>o, <1>r, <1>e DEF IInv

\* The call is erased, and a surface deleted when its release has been
\* reported: nothing about it is to follow.
LEMMA EraseInvariant == IInv /\ Erase => IInv'
  <1> SUFFICES ASSUME IInv, Erase PROVE IInv'
    OBVIOUS
  <1> DEFINE c == pending_calls[current]
  <1>1. /\ UNCHANGED <<next_message_id, requests, link, threw, pc, call, id, connection,
                       expecting, received, release_handle, overlapped, unwaited>>
        /\ io_pc = "erase" /\ io_pc' = "idle" /\ current' = 0
        /\ surface' = IF c[1] = "release_surface" THEN [surface EXCEPT ![c[2]] = "deleted"]
                      ELSE surface
    BY DEF Erase, handleVars
  <1>2. /\ DOMAIN pending_calls' = DOMAIN pending_calls \ {current}
        /\ \A i \in DOMAIN pending_calls' : pending_calls'[i] = pending_calls[i]
    BY DEF Erase, Restrict
  <1>3. /\ Completing /\ ~ Completing' /\ ~ Reporting'
        /\ current \in DOMAIN pending_calls /\ c \in Call /\ current \notin Sent
        /\ Sent' = Sent /\ Sent \subseteq DOMAIN pending_calls'
        /\ \A u \in App : pc[u] = "send" => id[u] # current
        /\ surface \in [Surface -> {"none", "creating", "live", "releasing", "deleted"}]
    BY <1>1, <1>2 DEF IInv, IdsAreUnique, TypeOK, Completing, Reporting, Sent
  <1>4. /\ c[1] = "release_surface" => /\ c[2] \in Surface /\ c \in Once
                                       /\ c = Release(c[2]) /\ surface[c[2]] = "releasing"
    BY <1>3, CallShape, CallFacts DEF IInv, ObjectsAwaitCallbacks
  <1> HIDE DEF c
  <1>5. /\ \A s \in Surface :
              \/ surface'[s] = surface[s]
              \/ /\ c = Release(s) /\ c[1] = "release_surface" /\ c[2] = s /\ c \in Once
                 /\ surface[s] = "releasing" /\ surface'[s] = "deleted"
        /\ surface' \in [Surface -> {"none", "creating", "live", "releasing", "deleted"}]
    BY <1>1, <1>3, <1>4
  <1>6. /\ \A i \in DOMAIN pending_calls' : c \in Once => pending_calls[i] # c
        /\ \A u \in App : c \in Once /\ pc[u] \in {"save", "send"} => call[u] # c
        /\ \A i \in DOMAIN pending_calls' : NotRun(i)' => NotRun(i)
    <2>1. \A i \in DOMAIN pending_calls' : c \in Once => pending_calls[i] # c
      BY <1>2, <1>3 DEF IInv, CallsFollowObjects, c
    <2>2. \A u \in App : c \in Once /\ pc[u] \in {"save", "send"} => call[u] # c
      BY <1>3, OnceCalled DEF c
    <2>3. \A i \in DOMAIN pending_calls' : NotRun(i)' => NotRun(i)
      BY <1>1, <1>3 DEF NotRun
    <2> QED
      BY <2>1, <2>2, <2>3
  <1>t. TypeOK'
    <2>1. current' \in 0..next_message_id
      BY <1>1 DEF IInv, TypeOK
    <2> QED
      BY <1>1, <1>2, <1>5, <2>1 DEF IInv, TypeOK
  <1>i. IdsAreUnique'
    BY <1>1, <1>2, <1>3 DEF IInv, IdsAreUnique
  <1>c. CallsFollowObjects'
    <2>1. ASSUME NEW i \in DOMAIN pending_calls'
          PROVE  /\ connection # "none"
                 /\ pending_calls[i] = Disconnect => connection \in {"disconnecting", "deleted"}
                 /\ pending_calls[i][2] \in Surface => surface'[pending_calls[i][2]] # "none"
                 /\ pending_calls[i][1] = "release_surface" =>
                       surface'[pending_calls[i][2]] \in {"releasing", "deleted"}
      <3>1. i \in DOMAIN pending_calls
        BY <1>2
      <3>2. pending_calls[i][1] = "release_surface" => pending_calls[i][2] \in Surface
        BY <3>1, CallShape DEF IInv, TypeOK
      <3> QED
        BY <1>5, <3>1, <3>2 DEF IInv, CallsFollowObjects
    <2>2. \A i, j \in DOMAIN pending_calls' :
             pending_calls'[i] = pending_calls'[j] /\ pending_calls'[i] \in Once => i = j
      BY <1>2 DEF IInv, CallsFollowObjects
    <2> QED
      BY <1>1, <1>2, <2>1, <2>2 DEF IInv, CallsFollowObjects
  <1>h. ThreadsFollowObjects'
    <2>1. ASSUME NEW u \in App, pc[u] # "idle"
          PROVE  /\ call[u][1] = "release_surface" => surface'[call[u][2]] \in {"releasing", "deleted"}
                 /\ call[u][1] \in OnSurface /\ call[u][1] # "release_surface" =>
                       surface'[call[u][2]] \in {"creating", "live"}
      <3>1. call[u][1] \in OnSurface => call[u][2] \in Surface
        BY CallShape DEF IInv, TypeOK
      <3> QED
        BY <1>5, <2>1, <3>1 DEF IInv, ThreadsFollowObjects, OnSurface
    <2> QED
      BY <1>1, <1>2, <2>1 DEF IInv, ThreadsFollowObjects
  <1>o. ObjectsAwaitCallbacks'
    <2>1. ASSUME NEW i \in DOMAIN pending_calls', NotRun(i)'
          PROVE  /\ pending_calls[i] = Connect => connection = "connecting"
                 /\ pending_calls[i][1] = "create_surface" =>
                       surface'[pending_calls[i][2]] = "creating"
                 /\ pending_calls[i][1] = "release_surface" =>
                       surface'[pending_calls[i][2]] = "releasing"
      <3>1. NotRun(i) /\ i \in DOMAIN pending_calls
        BY <1>2, <1>6, <2>1
      <3>2. pending_calls[i] \in Call
        BY <3>1 DEF IInv, TypeOK
      <3>3. /\ pending_calls[i][1] \in {"create_surface", "release_surface"} =>
                  pending_calls[i][2] \in Surface
            /\ pending_calls[i][1] = "release_surface" =>
                  pending_calls[i] = Release(pending_calls[i][2])
        BY <3>2, CallShape, CallFacts
      <3> QED
        BY <1>5, <1>6, <3>1, <3>3 DEF IInv, ObjectsAwaitCallbacks
    <2>2. ASSUME NEW u \in App, pc[u] = "save"
          PROVE  /\ call[u] = Connect => connection = "connecting"
                 /\ call[u][1] = "create_surface" => surface'[call[u][2]] = "creating"
                 /\ call[u][1] = "release_surface" => surface'[call[u][2]] = "releasing"
      <3>2. call[u] \in Call
        BY <2>2 DEF IInv, CallsFollowObjects
      <3>3. /\ call[u][1] \in {"create_surface", "release_surface"} => call[u][2] \in Surface
            /\ call[u][1] = "release_surface" => call[u] = Release(call[u][2])
        BY <3>2, CallShape, CallFacts
      <3> QED
        BY <1>5, <1>6, <2>2, <3>3 DEF IInv, ObjectsAwaitCallbacks
    <2> QED
      BY <1>1, <1>2, <1>3, <2>1, <2>2 DEF ObjectsAwaitCallbacks
  <1>r. ReleasesComeLast'
    <2>1. \A k \in 1..Len(requests) : pending_calls'[requests[k]] = pending_calls[requests[k]]
      BY <1>2, <1>3 DEF Sent
    <2> QED
      BY <1>1, <1>3, <2>1 DEF IInv, ReleasesComeLast
  <1>d. DeletedSurfacesRest'
    <2>0. \A k \in 1..Len(requests) : pending_calls'[requests[k]] = pending_calls[requests[k]]
      BY <1>2, <1>3 DEF Sent
    <2> SUFFICES ASSUME NEW s \in Surface, surface'[s] = "deleted"
                 PROVE  /\ \A k \in 1..Len(requests) : pending_calls[requests[k]][2] # s
                        /\ \A u \in App : pc[u] \in {"save", "send"} => call[u][2] # s
      BY <1>1, <1>3, <2>0 DEF DeletedSurfacesRest
    <2>1. CASE surface[s] = "deleted"
      BY <2>1 DEF IInv, DeletedSurfacesRest
    <2>2. CASE /\ c = Release(s) /\ c[1] = "release_surface" /\ c[2] = s /\ c \in Once
               /\ surface[s] = "releasing"
      <3>1. \A k \in 1..Len(requests) : pending_calls[requests[k]][2] # s
        BY <1>3, <2>2 DEF IInv, ReleasesComeLast, Covers, c
      <3>2. ASSUME NEW u \in App, pc[u] \in {"save", "send"}, call[u][2] = s
            PROVE  FALSE
        <4>1. call[u] \in Call
          BY <3>2 DEF IInv, CallsFollowObjects
        <4>2. call[u][1] \in OnSurface
          BY <3>2, <4>1, CallShape
        <4>3. call[u][1] = "release_surface"
          BY <2>2, <3>2, <4>2 DEF IInv, ThreadsFollowObjects
        <4>4. call[u] = c
          BY <2>2, <3>2, <4>1, <4>3, CallFacts
        <4> QED
          BY <1>6, <2>2, <3>2, <4>4
      <3> QED
        BY <3>1, <3>2
    <2> QED
      BY <1>5, <2>1, <2>2
  <1>e. DisconnectEnds'
    <2>1. (AllReported => AllReported') /\ (Released' <=> Released)
      BY <1>1, <1>3 DEF AllReported, Released
    <2> QED
      BY <1>1, <1>3, <2>1 DEF IInv, DisconnectEnds
  <1> QED
    BY <1>t, <1>i, <1>c, <1>h, <1>o, <1>r, <1>d, <1>e DEF IInv

\* The server goes away: what it has not answered is lost.
LEMMA ServerDiesInvariant == IInv /\ ServerDies => IInv'
  <1> SUFFICES ASSUME IInv, ServerDies PROVE IInv'
    OBVIOUS
  <1>1. /\ UNCHANGED <<next_message_id, pending_calls, io_pc, current, threw, pc, call, id,
                       connection, surface, expecting, received, release_handle, overlapped, unwaited>>
        /\ link' = "down"
    BY DEF ServerDies, ioVars, objectVars, handleVars
  <1>2. PICK n \in 0..Len(requests) : requests' = SubSeq(requests, 1, n)
    BY DEF ServerDies
  <1>3. /\ requests' \in Seq(1..next_message_id) /\ Len(requests') = n
        /\ \A k \in 1..n : requests'[k] = requests[k] /\ k \in 1..Len(requests)
        /\ Len(requests) \in Nat
    <2>1. requests \in Seq(1..next_message_id)
      BY DEF IInv, TypeOK
    <2>2. Len(requests) \in Nat /\ \A k \in 1..n : k \in 1..Len(requests)
      BY <2>1
    <2> QED
      BY <1>2, <2>1, <2>2, QueueIsCut
  <1>4. /\ Sent' \subseteq Sent
        /\ Completing' <=> Completing
        /\ Reporting' <=> Reporting
        /\ \A i \in DOMAIN pending_calls : NotRun(i)' => NotRun(i)
    <2>1. Sent' \subseteq Sent
      BY <1>3 DEF Sent
    <2> QED
      BY <1>1, <2>1 DEF Completing, Reporting, NotRun
  <1>t. TypeOK'
    BY <1>1, <1>3 DEF IInv, TypeOK
  <1>i. IdsAreUnique'
    <2>1. \A k, l \in 1..Len(requests') : requests'[k] = requests'[l] => k = l
      BY <1>3 DEF IInv, IdsAreUnique
    <2> QED
      BY <1>1, <1>4, <2>1 DEF IInv, IdsAreUnique
  <1>c. CallsFollowObjects' /\ ThreadsFollowObjects'
    BY <1>1 DEF IInv, CallsFollowObjects, ThreadsFollowObjects
  <1>o. ObjectsAwaitCallbacks'
    BY <1>1, <1>4 DEF IInv, ObjectsAwaitCallbacks
  <1>r. ReleasesComeLast'
    BY <1>1, <1>3, <1>4 DEF IInv, ReleasesComeLast, Covers, Disconnect
  <1>d. DeletedSurfacesRest'
    BY <1>1, <1>3, <1>4 DEF IInv, DeletedSurfacesRest
  <1>e. DisconnectEnds'
    <2>1. (AllReported => AllReported') /\ (Released' <=> Released)
      <3>1. requests = <<>> => requests' = <<>>
        BY <1>3
      <3> QED
        BY <1>1, <1>4, <3>1 DEF AllReported, Released
    <2> QED
      BY <1>1, <1>4, <2>1 DEF IInv, DisconnectEnds
  <1> QED
    BY <1>t, <1>i, <1>c, <1>o, <1>r, <1>d, <1>e DEF IInv

-----------------------------------------------------------------------------

\* mir_wait_for: the handle's object is not being released.
LEMMA WaitForInvariant ==
    ASSUME IInv, UnwaitedInv, NEW t \in App, mir_wait_for(t)
    PROVE  IInv'
  <1>1. PICK w \in unwaited[t] :
           /\ MayWait(t, w[1])
           /\ call' = [call EXCEPT ![t] = w[1]]
           /\ id' = [id EXCEPT ![t] = w[2]]
           /\ unwaited' = [unwaited EXCEPT ![t] = @ \ {w}]
    BY DEF mir_wait_for
  <1>2. /\ UNCHANGED <<next_message_id, pending_calls, requests, link, io_pc, current, threw,
                       connection, surface, expecting, received, release_handle, overlapped>>
        /\ pc[t] = "idle" /\ pc' = [pc EXCEPT ![t] = "check"]
    BY DEF mir_wait_for, Goto, channelVars, ioVars, objectVars, handleVars
  <1>3. /\ pc \in [App -> {"idle", "save", "send", "keep_handle", "check", "waiting",
                           "delete", "join"}]
        /\ call \in [App -> Call \cup {NoCall}] /\ id \in [App -> 0..next_message_id]
        /\ unwaited \in [App -> SUBSET (Call \X (0..next_message_id))]
    BY DEF IInv, TypeOK
  <1>4. /\ w[1] \in Call /\ w[2] \in 0..next_message_id /\ w[1] # Disconnect
        /\ w[1][1] = "release_surface" => surface[w[1][2]] \in {"releasing", "deleted"}
        /\ connection \in {"connecting", "connected"}
        /\ w[1][1] \in OnSurface /\ w[1][1] # "release_surface" =>
              surface[w[1][2]] \in {"creating", "live"}
    BY <1>1, <1>3 DEF UnwaitedInv, MayWait
  <1>5. /\ pc'[t] = "check" /\ call'[t] = w[1] /\ id'[t] = w[2]
        /\ \A u \in App \ {t} : pc'[u] = pc[u] /\ call'[u] = call[u] /\ id'[u] = id[u]
    BY <1>1, <1>2, <1>3
  <1>t. TypeOK'
    <2>1. /\ pc' \in [App -> {"idle", "save", "send", "keep_handle", "check", "waiting",
                             "delete", "join"}]
          /\ call' \in [App -> Call \cup {NoCall}] /\ id' \in [App -> 0..next_message_id]
          /\ unwaited' \in [App -> SUBSET (Call \X (0..next_message_id))]
      BY <1>1, <1>2, <1>3, <1>4
    <2> QED
      BY <1>2, <2>1 DEF IInv, TypeOK
  <1>c. CallsFollowObjects'
    <2>1. \A u \in App : pc'[u] \in {"save", "send", "keep_handle", "check", "waiting"} =>
                             call'[u] \in Call
      BY <1>4, <1>5 DEF IInv, CallsFollowObjects
    <2> QED
      BY <1>2, <2>1 DEF IInv, CallsFollowObjects
  <1>h. ThreadsFollowObjects'
    BY <1>2, <1>4, <1>5 DEF IInv, ThreadsFollowObjects
  <1>6. /\ IdsAreUnique'
        /\ ObjectsAwaitCallbacks' /\ ReleasesComeLast' /\ DeletedSurfacesRest'
        /\ AllReported => AllReported'
        /\ Reporting' <=> Reporting
    BY <1>2, <1>5, QueueRests
  <1>e. DisconnectEnds'
    <2>1. Released' => Released
      BY <1>2, <1>5 DEF Released
    <2> QED
      BY <1>2, <1>6, <2>1 DEF IInv, DisconnectEnds
  <1> QED
    BY <1>t, <1>c, <1>h, <1>6, <1>e DEF IInv

\* What threads may wait for later stays so: a surface that is being released
\* is not created again, and calls keep their ids.
LEMMA UnwaitedStays ==
    ASSUME IInv, UnwaitedInv, [Next]_vars
    PROVE  UnwaitedInv'
  <1>1. /\ pc \in [App -> {"idle", "save", "send", "keep_handle", "check", "waiting",
                           "delete", "join"}]
        /\ call \in [App -> Call \cup {NoCall}] /\ id \in [App -> 0..next_message_id]
        /\ unwaited \in [App -> SUBSET (Call \X (0..next_message_id))]
        /\ surface \in [Surface -> {"none", "creating", "live", "releasing", "deleted"}]
        /\ next_message_id \in Nat /\ DOMAIN pending_calls \subseteq 1..next_message_id
    BY DEF IInv, TypeOK
  <1>2. ASSUME \A i \in DOMAIN pending_calls' :
                  /\ i \in DOMAIN pending_calls => pending_calls'[i] = pending_calls[i]
                  /\ i \notin DOMAIN pending_calls => i = next_message_id + 1,
               \A s \in Surface : surface[s] \in {"releasing", "deleted"} =>
                                     surface'[s] \in {"releasing", "deleted"},
               \A t \in App : pc'[t] = "keep_handle" =>
                  /\ call'[t] = call[t] /\ id'[t] = id[t]
                  /\ \/ pc[t] = "keep_handle"
                     \/ pc[t] = "send" /\ call[t][1] = "release_surface",
               \A t \in App : \A w \in unwaited'[t] :
                  \/ w \in unwaited[t]
                  \/ /\ w = <<call[t], id[t]>> /\ call[t] # Disconnect
                     /\ pc[t] \in {"send", "keep_handle"}
        PROVE  UnwaitedInv'
    <2>1. \A t \in App : pc[t] = "send" => /\ id[t] \in DOMAIN pending_calls
                                           /\ pending_calls[id[t]] = call[t]
      BY DEF IInv, IdsAreUnique
    <2>2. ASSUME NEW t \in App, pc[t] \in {"send", "keep_handle"}
          PROVE  /\ id[t] \in DOMAIN pending_calls' => pending_calls'[id[t]] = call[t]
                 /\ call[t][1] = "release_surface" =>
                       surface'[call[t][2]] \in {"releasing", "deleted"}
      <3>1. id[t] # next_message_id + 1
        BY <1>1
      <3>2. call[t][1] = "release_surface" =>
                surface[call[t][2]] \in {"releasing", "deleted"} /\ call[t][2] \in Surface
        BY <1>1, <2>2, CallShape DEF IInv, ThreadsFollowObjects
      <3> QED
        BY <1>2, <2>1, <2>2, <3>1, <3>2 DEF UnwaitedInv
    <2>3. ASSUME NEW t \in App, NEW w \in unwaited[t]
          PROVE  /\ w[1] # Disconnect
                 /\ w[1][1] = "release_surface" => surface'[w[1][2]] \in {"releasing", "deleted"}
                 /\ w[2] \in DOMAIN pending_calls' => pending_calls'[w[2]] = w[1]
      <3>1. w[1] \in Call /\ w[2] \in 0..next_message_id /\ w[2] # next_message_id + 1
        BY <1>1
      <3>2. w[1][1] = "release_surface" => w[1][2] \in Surface
        BY <3>1, CallShape
      <3> QED
        BY <1>2, <3>1, <3>2 DEF UnwaitedInv
    <2>4. ASSUME NEW t \in App, NEW w \in unwaited'[t]
          PROVE  /\ w[1] # Disconnect
                 /\ w[1][1] = "release_surface" => surface'[w[1][2]] \in {"releasing", "deleted"}
                 /\ w[2] \in DOMAIN pending_calls' => pending_calls'[w[2]] = w[1]
      <3>1. CASE w \in unwaited[t]
        BY <2>3, <3>1
      <3>2. CASE /\ w = <<call[t], id[t]>> /\ call[t] # Disconnect
                 /\ pc[t] \in {"send", "keep_handle"}
        BY <2>2, <3>2
      <3> QED
        BY <1>2, <3>1, <3>2
    <2>5. ASSUME NEW t \in App, pc'[t] = "keep_handle"
          PROVE  /\ call'[t][1] = "release_surface"
                 /\ id'[t] \in DOMAIN pending_calls' => pending_calls'[id'[t]] = call'[t]
      BY <1>2, <2>2, <2>5 DEF UnwaitedInv
    <2> QED
      BY <2>4, <2>5 DEF UnwaitedInv
  <1>3. ASSUME NEW t \in App, NEW c \in Makes[t], Begin(t, c) PROVE UnwaitedInv'
    <2>1. c \in Call
      BY ClientAssumption
    <2>2. /\ UNCHANGED <<pending_calls, id, unwaited>>
          /\ pc' = [pc EXCEPT ![t] = "save"] /\ call' = [call EXCEPT ![t] = c]
      BY <1>3, <2>1, BeginEffect
    <2>3. ASSUME NEW s \in Surface, surface[s] \in {"releasing", "deleted"}
          PROVE  surface'[s] \in {"releasing", "deleted"}
      BY <1>1, <1>3, <2>1, <2>3, BeginEffect
    <2> QED
      BY <1>1, <1>2, <2>2, <2>3
  <1>4. ASSUME NEW t \in App, mir_wait_for(t) PROVE UnwaitedInv'
    <2>1. UNCHANGED <<pending_calls, surface>> /\ pc' = [pc EXCEPT ![t] = "check"]
      BY <1>4 DEF mir_wait_for, Goto, channelVars, objectVars
    <2>2. \A u \in App : unwaited'[u] \subseteq unwaited[u]
      BY <1>1, <1>4 DEF mir_wait_for
    <2>3. \A u \in App \ {t} : call'[u] = call[u] /\ id'[u] = id[u]
      BY <1>1, <1>4 DEF mir_wait_for
    <2> QED
      BY <1>1, <1>2, <2>1, <2>2, <2>3
  <1>5. ASSUME NEW t \in App, save_completion_details(t) PROVE UnwaitedInv'
    <2>1. /\ UNCHANGED <<call, surface, unwaited>>
          /\ pc' = [pc EXCEPT ![t] = "send"] /\ id' = [id EXCEPT ![t] = next_message_id + 1]
          /\ pending_calls' = [j \in DOMAIN pending_calls \cup {next_message_id + 1} |->
                                  IF j = next_message_id + 1 THEN call[t] ELSE pending_calls[j]]
      BY <1>5 DEF save_completion_details, Goto, Saved, objectVars
    <2>2. next_message_id + 1 \notin DOMAIN pending_calls
      BY <1>1
    <2> QED
      BY <1>1, <1>2, <2>1, <2>2
  <1>6. ASSUME NEW t \in App, pc[t] \in {"send", "keep_handle"}, call[t] # Disconnect, ReturnFrom(t)
        PROVE  /\ \A u \in App : pc'[u] = "keep_handle" =>
                      pc[u] = "keep_handle" /\ call'[u] = call[u] /\ id'[u] = id[u]
               /\ \A u \in App : \A w \in unwaited'[u] :
                      \/ w \in unwaited[u]
                      \/ /\ w = <<call[u], id[u]>> /\ call[u] # Disconnect
                         /\ pc[u] \in {"send", "keep_handle"}
    BY <1>1, <1>6 DEF ReturnFrom, Goto
  <1>7. ASSUME NEW t \in App, send_message(t) PROVE UnwaitedInv'
    <2>1. UNCHANGED <<pending_calls, surface>> /\ pc[t] = "send"
      BY <1>7 DEF send_message, objectVars
    <2>2. CASE AfterSend(call[t]) = "return"
      <3>1. call[t] # Disconnect /\ ReturnFrom(t)
        BY <1>7, <2>2 DEF send_message, AfterSend, Disconnect
      <3> QED
        BY <1>2, <1>6, <2>1, <3>1
    <2>3. CASE AfterSend(call[t]) # "return"
      <3>1. pc' = [pc EXCEPT ![t] = AfterSend(call[t])] /\ UNCHANGED <<call, id, unwaited>>
        BY <1>7, <2>3 DEF send_message, Goto
      <3>2. AfterSend(call[t]) = "keep_handle" => call[t][1] = "release_surface"
        BY DEF AfterSend
      <3> QED
        BY <1>1, <1>2, <2>1, <3>1, <3>2
    <2> QED
      BY <2>2, <2>3
  <1>8. ASSUME NEW t \in App, KeepReleaseHandle(t) PROVE UnwaitedInv'
    <2>1. UNCHANGED <<pending_calls, surface>> /\ pc[t] = "keep_handle" /\ ReturnFrom(t)
      BY <1>8 DEF KeepReleaseHandle, channelVars, objectVars
    <2>2. call[t] # Disconnect
      BY <2>1 DEF UnwaitedInv, Disconnect
    <2> QED
      BY <1>2, <1>6, <2>1, <2>2
  <1>9. ASSUME NEW t \in App, wait_for_result(t) \/ DeleteConnection(t) \/ JoinIo(t)
        PROVE  UnwaitedInv'
    <2>1. /\ UNCHANGED <<surface, unwaited>>
          /\ pending_calls' = pending_calls \/ DOMAIN pending_calls' = {}
      BY <1>9 DEF wait_for_result, DeleteConnection, JoinIo, channelVars, objectVars
    <2>2. \A u \in App : pc'[u] = "keep_handle" =>
              pc[u] = "keep_handle" /\ call'[u] = call[u] /\ id'[u] = id[u]
      BY <1>1, <1>9 DEF wait_for_result, DeleteConnection, JoinIo, Goto
    <2> QED
      BY <1>2, <2>1, <2>2
  <1>10. CASE IoStep
    <2>1. /\ UNCHANGED <<call, id, unwaited>>
          /\ \A u \in App : pc'[u] = "keep_handle" => pc[u] = "keep_handle"
      BY <1>10 DEF IoStep, ReadReply, RunCallback, CallbackThrows, CallbackCalls, Notify, Erase,
                   Eof, result_received, Woken
    <2>2. \A i \in DOMAIN pending_calls' :
              i \in DOMAIN pending_calls /\ pending_calls'[i] = pending_calls[i]
      BY <1>10 DEF IoStep, ReadReply, RunCallback, CallbackThrows, CallbackCalls, Notify, Erase,
                   Eof, channelVars, Restrict
    <2>3. ASSUME NEW s \in Surface, surface[s] \in {"releasing", "deleted"}
          PROVE  surface'[s] \in {"releasing", "deleted"}
      <3>1. CASE RunCallback
        <4>1. /\ current \in DOMAIN pending_calls /\ NotRun(current)
          BY <3>1 DEF RunCallback, IInv, IdsAreUnique, Completing, NotRun
        <4>2. pending_calls[current][1] = "create_surface" =>
                  surface[pending_calls[current][2]] = "creating"
          BY <4>1 DEF IInv, ObjectsAwaitCallbacks
        <4>3. \/ surface' = surface
              \/ /\ pending_calls[current][1] = "create_surface"
                 /\ surface' = [surface EXCEPT ![pending_calls[current][2]] = "live"]
          BY <3>1 DEF RunCallback, connected, created, done_disconnect
        <4> QED
          BY <1>1, <2>3, <4>2, <4>3
      <3>2. CASE Erase
        BY <1>1, <2>3, <3>2 DEF Erase
      <3>3. CASE ReadReply \/ CallbackThrows \/ CallbackCalls \/ Notify \/ Eof
        BY <2>3, <3>3 DEF ReadReply, CallbackThrows, CallbackCalls, Notify, Eof, objectVars
      <3> QED
        BY <1>10, <3>1, <3>2, <3>3 DEF IoStep
    <2> QED
      BY <1>2, <2>1, <2>2, <2>3
  <1>11. CASE ConnectFails \/ ServerDies \/ UNCHANGED vars
    <2>1. UNCHANGED <<pending_calls, surface, pc, call, id, unwaited>>
      BY <1>11 DEF ConnectFails, ServerDies, vars, channelVars, objectVars
    <2> QED
      BY <1>2, <2>1
  <1> QED
    BY <1>3, <1>4, <1>5, <1>7, <1>8, <1>9, <1>10, <1>11 DEF Next, CallStep

\* Every step keeps the invariant.
LEMMA NextInvariant == IInv /\ UnwaitedInv /\ [Next]_vars => IInv'
  <1> SUFFICES ASSUME IInv, UnwaitedInv, [Next]_vars PROVE IInv'
    OBVIOUS
  <1>1. ASSUME NEW t \in App, NEW c \in Makes[t], Begin(t, c) PROVE IInv'
    BY <1>1, ClientAssumption, BeginInvariant
  <1>2. ASSUME NEW t \in App, CallStep(t) PROVE IInv'
    BY <1>2, SaveInvariant, SendInvariant, KeepInvariant, WaitInvariant, DeleteInvariant,
       JoinInvariant DEF CallStep
  <1>7. ASSUME NEW t \in App, mir_wait_for(t) PROVE IInv'
    BY <1>7, WaitForInvariant
  <1>3. CASE ConnectFails
    BY <1>3, ConnectFailsInvariant
  <1>4. CASE IoStep
    BY <1>4, ReadInvariant, CallbackInvariant, IoStopsInvariant, NotifyInvariant, EraseInvariant
       DEF IoStep
  <1>5. CASE ServerDies
    BY <1>5, ServerDiesInvariant
  <1>6. CASE UNCHANGED vars
    BY <1>6 DEF vars, channelVars, ioVars, objectVars, handleVars, IInv, TypeOK, IdsAreUnique,
                CallsFollowObjects, ThreadsFollowObjects, ObjectsAwaitCallbacks, ReleasesComeLast,
                DeletedSurfacesRest, DisconnectEnds, AllReported, Released, NotRun, Sent,
                Completing, Reporting, Covers, Connect, Disconnect, Create, Release, Once
  <1> QED
    BY <1>1, <1>2, <1>3, <1>4, <1>5, <1>6, <1>7 DEF Next

\* The invariant, with what threads may wait for later.
LEMMA InvarianceWithWaits == Spec => [](IInv /\ UnwaitedInv)
  <1>1. Init => UnwaitedInv
    BY DEF Init, UnwaitedInv
  <1>2. IInv /\ UnwaitedInv /\ [Next]_vars => UnwaitedInv'
    BY UnwaitedStays
  <1> QED
    BY <1>1, <1>2, InitInvariant, NextInvariant, PTL DEF Spec

\* Whatever the application's threads do within the API, and whenever the
\* server goes away, the library's cache, objects and handles agree.
THEOREM Invariance == Spec => []IInv
  BY InvarianceWithWaits, PTL

\* The state of the client library has its type.
THEOREM TypeCorrect == Spec => []TypeOK
  <1>1. IInv => TypeOK
    BY DEF IInv
  <1> QED
    BY <1>1, Invariance, PTL

\* The invariant says that nothing dangles: what is reported or waited for is
\* not deleted before.
LEMMA InvariantKeepsAlive ==
    ASSUME IInv
    PROVE  NothingDangles
  <1>1. ASSUME io_pc \in {"callback", "notify"}
        PROVE  Alive(pending_calls[current])
    <2> DEFINE c == pending_calls[current]
    <2>1. Reporting /\ c \in Call
      BY <1>1 DEF IInv, Reporting, Completing, IdsAreUnique, TypeOK
    <2>2. /\ c[1] \in OnSurface => c[2] \in Surface
          /\ c = Disconnect <=> c[1] = "disconnect"
      BY <2>1, CallShape
    <2>3. connection # "deleted"
      BY <2>1 DEF IInv, DisconnectEnds, Released
    <2>4. c[1] = "release_surface" => release_handle[c[2]] # "deleted"
      BY <2>1, <2>2 DEF IInv, DisconnectEnds, AllReported, OnSurface
    <2>5. c[1] \in OnSurface => surface[c[2]] # "deleted"
      BY <2>1, <2>2 DEF IInv, DeletedSurfacesRest
    <2> QED
      BY <2>3, <2>4, <2>5 DEF Alive
  <1>2. ASSUME NEW t \in App, pc[t] \in {"check", "waiting"}
        PROVE  Alive(call[t])
    <2>1. /\ call[t][1] \in OnSurface => call[t][2] \in Surface
          /\ call[t] = Disconnect <=> call[t][1] = "disconnect"
          /\ call[t] = NoCall <=> call[t][1] = "none"
      BY CallShape DEF IInv, TypeOK
    <2>2. connection # "deleted"
      BY <1>2 DEF IInv, ThreadsFollowObjects
    <2>3. call[t][1] = "release_surface" => release_handle[call[t][2]] # "deleted"
      BY <1>2, <2>1 DEF IInv, DisconnectEnds, AllReported, ThreadsFollowObjects, OnSurface
    <2>4. call[t][1] \in OnSurface \ {"release_surface"} => surface[call[t][2]] # "deleted"
      BY <1>2, <2>1 DEF IInv, ThreadsFollowObjects
    <2> QED
      BY <2>2, <2>3, <2>4 DEF Alive
  <1>3. connection = "deleted" => \A s \in Surface : release_handle[s] # "kept"
    BY DEF IInv, DisconnectEnds, Released
  <1> QED
    BY <1>1, <1>2, <1>3 DEF NothingDangles

\* Neither the io thread nor a thread that waits touches a surface, a handle or
\* a connection that released(), done_disconnect() or mir_connection_release()
\* has deleted, and no kept handle outlives the connection.
THEOREM NothingDanglesEver == Spec => []NothingDangles
  BY Invariance, InvariantKeepsAlive, PTL

-----------------------------------------------------------------------------
(* Calls complete in the order in which they were sent *)

\* Sequences with one more at the front.
LEMMA FirstInFlight ==
    ASSUME NEW q \in Seq(Nat), NEW r \in Nat
    PROVE  /\ <<r>> \o q \in Seq(Nat) /\ <<r>> \o q # <<>> /\ <<>> \o q = q
           /\ Tail(<<r>> \o q) = q
           /\ q # <<>> => <<Head(q)>> \o Tail(q) = q
           /\ \A n \in Nat : Append(<<r>> \o q, n) = <<r>> \o Append(q, n)
           /\ \A n \in 0..Len(q) : <<r>> \o SubSeq(q, 1, n) = SubSeq(<<r>> \o q, 1, n + 1)
           /\ Len(<<r>> \o q) = Len(q) + 1
  <1>1. /\ <<r>> \o q \in Seq(Nat) /\ <<r>> \o q # <<>> /\ <<>> \o q = q
        /\ Len(<<r>> \o q) = Len(q) + 1
    OBVIOUS
  <1>2. Tail(<<r>> \o q) = q
    OBVIOUS
  <1>3. q # <<>> => <<Head(q)>> \o Tail(q) = q
    OBVIOUS
  <1>4. \A n \in Nat : Append(<<r>> \o q, n) = <<r>> \o Append(q, n)
    OBVIOUS
  <1>5. \A n \in 0..Len(q) : <<r>> \o SubSeq(q, 1, n) = SubSeq(<<r>> \o q, 1, n + 1)
    OBVIOUS
  <1> QED
    BY <1>1, <1>2, <1>3, <1>4, <1>5

\* The calls in flight, by whether the io thread reports one.
LEMMA InFlightIs ==
    ASSUME IInv
    PROVE  /\ requests \in Seq(Nat) /\ current \in Nat
           /\ Reporting => InFlight = <<current>> \o requests
           /\ ~ Reporting => InFlight = requests
           /\ InFlight \in Seq(Nat)
  <1>1. requests \in Seq(Nat) /\ current \in Nat
    <2>1. /\ requests \in Seq(1..next_message_id) /\ 1..next_message_id \subseteq Nat
          /\ current \in Nat
      BY DEF IInv, TypeOK
    <2> QED
      BY <2>1, QueueWidens
  <1>2. Reporting => InFlight = <<current>> \o requests
    BY DEF Reporting, InFlight
  <1>3. ~ Reporting => InFlight = requests
    BY <1>1, FirstInFlight DEF Reporting, InFlight
  <1> QED
    BY <1>1, <1>2, <1>3, FirstInFlight

\* The same after a step.
LEMMA InFlightNext ==
    ASSUME IInv'
    PROVE  /\ requests' \in Seq(Nat) /\ current' \in Nat
           /\ Reporting' => InFlight' = <<current'>> \o requests'
           /\ ~ Reporting' => InFlight' = requests'
           /\ InFlight' \in Seq(Nat)
  <1>1. requests' \in Seq(Nat) /\ current' \in Nat
    <2>1. /\ requests' \in Seq(1..next_message_id') /\ 1..next_message_id' \subseteq Nat
          /\ current' \in Nat
      BY DEF IInv, TypeOK
    <2> QED
      BY <2>1, QueueWidens
  <1>2. Reporting' => InFlight' = <<current'>> \o requests'
    BY DEF Reporting, InFlight
  <1>3. ~ Reporting' => InFlight' = requests'
    BY <1>1, FirstInFlight DEF Reporting, InFlight
  <1> QED
    BY <1>1, <1>2, <1>3, FirstInFlight

\* A call that is sent comes last, and its id is none of those in flight.
LEMMA SendSends ==
    ASSUME IInv, IInv', NEW t \in App, send_message(t)
    PROVE  [RR!Next]_InFlight
  <1> DEFINE r == id[t]
  <1>1. /\ UNCHANGED <<io_pc, current>> /\ pc[t] = "send"
        /\ requests' = requests \/ requests' = Append(requests, r)
    BY SendEffect
  <1>2. /\ Reporting' <=> Reporting
        /\ r \in Nat /\ r \notin Sent /\ (Reporting => r # current)
    <2>1. /\ id[t] \in DOMAIN pending_calls /\ r \notin Sent
          /\ Completing => r # current
      BY <1>1 DEF IInv, IdsAreUnique
    <2> QED
      BY <1>1, <2>1 DEF IInv, TypeOK, Reporting, Completing
  <1> HIDE DEF r
  <1>3. CASE requests' = requests
    BY <1>1, <1>3 DEF InFlight
  <1>4. CASE requests' = Append(requests, r)
    <2>1. /\ InFlight' = Append(InFlight, r)
          /\ \A i \in DOMAIN InFlight : InFlight[i] # r
      <3>1. requests \in Seq(Nat) /\ \A i \in DOMAIN requests : requests[i] # r
        BY <1>2, InFlightIs DEF Sent
      <3>2. CASE ~ Reporting
        BY <1>2, <1>4, <3>1, <3>2, InFlightIs, InFlightNext
      <3>3. CASE Reporting
        <4>1. current \in Nat /\ current # r /\ InFlight = <<current>> \o requests
          BY <1>2, <3>3, InFlightIs
        <4>2. InFlight' = <<current>> \o Append(requests, r)
          BY <1>1, <1>2, <1>4, <3>3, InFlightNext
        <4>3. Append(<<current>> \o requests, r) = <<current>> \o Append(requests, r)
          BY <1>2, <3>1, <4>1, FirstInFlight
        <4>4. \A i \in DOMAIN InFlight : InFlight[i] # r
          BY <3>1, <4>1
        <4> QED
          BY <4>1, <4>2, <4>3, <4>4
      <3> QED
        BY <3>2, <3>3
    <2>2. r \in {InFlight'[i] : i \in DOMAIN InFlight'}
      <3>1. InFlight \in Seq(Nat)
        BY InFlightIs
      <3>2. /\ Append(InFlight, r)[Len(InFlight) + 1] = r
            /\ Len(InFlight) + 1 \in DOMAIN Append(InFlight, r)
        BY <1>2, <3>1
      <3> QED
        BY <2>1, <3>2
    <2> QED
      BY <2>1, <2>2 DEF RR!Next, RR!Send
  <1> QED
    BY <1>1, <1>3, <1>4

\* The reply of the first call is read, and it is in flight until it is
\* reported.
LEMMA ReadKeepsOrder ==
    ASSUME IInv, IInv', ReadReply
    PROVE  InFlight' = InFlight
  <1>1. /\ io_pc = "idle" /\ requests # <<>> /\ requests' = Tail(requests)
        /\ requests \in Seq(Nat)
    BY InFlightIs DEF ReadReply
  <1>2. current' = Head(requests) /\ Reporting'
    <2>1. requests \in Seq(1..next_message_id) /\ Head(requests) = requests[1] /\ 1 \in 1..Len(requests)
      BY <1>1, QueueShrinks DEF IInv, TypeOK
    <2>2. Head(requests) \in DOMAIN pending_calls
      BY <2>1 DEF IInv, IdsAreUnique, Sent
    <2> QED
      BY <2>2 DEF ReadReply, Reporting
  <1>3. InFlight = requests
    BY <1>1, InFlightIs DEF Reporting
  <1>4. InFlight' = <<Head(requests)>> \o Tail(requests)
    BY <1>1, <1>2, InFlightNext
  <1>5. <<Head(requests)>> \o Tail(requests) = requests
    BY <1>1, FirstInFlight, 0 \in Nat
  <1> QED
    BY <1>3, <1>4, <1>5

\* The io thread has reported the first call.
LEMMA ReportAnswers ==
    ASSUME IInv, IInv', Reporting, ~ Reporting', requests' = requests
    PROVE  RR!Next
  <1>1. InFlight = <<current>> \o requests /\ current \in Nat /\ requests \in Seq(Nat)
    BY InFlightIs
  <1>2. InFlight' = requests
    BY InFlightNext
  <1>3. InFlight # <<>> /\ Tail(InFlight) = requests
    BY <1>1, FirstInFlight
  <1> QED
    BY <1>2, <1>3 DEF RR!Next, RR!Answer

\* The server goes away or the channel does: the calls sent last are lost.
LEMMA LossLoses ==
    ASSUME IInv, IInv', UNCHANGED current, Reporting' <=> Reporting,
           NEW n \in 0..Len(requests), requests' = SubSeq(requests, 1, n)
    PROVE  RR!Next
  <1>1. requests \in Seq(Nat) /\ current \in Nat
    BY InFlightIs
  <1>2. CASE ~ Reporting
    BY <1>1, <1>2, InFlightIs, InFlightNext DEF RR!Next, RR!Lose
  <1>3. CASE Reporting
    <2>1. InFlight = <<current>> \o requests /\ InFlight' = <<current>> \o SubSeq(requests, 1, n)
      BY <1>3, InFlightIs, InFlightNext
    <2>2. /\ <<current>> \o SubSeq(requests, 1, n) = SubSeq(<<current>> \o requests, 1, n + 1)
          /\ Len(<<current>> \o requests) = Len(requests) + 1
      BY <1>1, FirstInFlight
    <2>3. n + 1 \in 0..Len(InFlight)
      BY <1>1, <2>1, <2>2
    <2> QED
      BY <2>1, <2>2, <2>3 DEF RR!Next, RR!Lose
  <1> QED
    BY <1>2, <1>3

\* Every step sends a call, reports the first one, loses some, or changes
\* nothing of what is in flight.
LEMMA EveryStepInOrder ==
    ASSUME IInv, UnwaitedInv, [Next]_vars
    PROVE  [RR!Next]_InFlight
  <1>0. IInv'
    BY NextInvariant
  <1>1. ASSUME NEW t \in App, NEW c \in Makes[t], Begin(t, c) PROVE [RR!Next]_InFlight
    <2>1. UNCHANGED <<requests, current>>
      BY <1>1 DEF Begin
    <2>2. UNCHANGED io_pc \/ (connection = "none" /\ io_pc' = "idle")
      BY <1>1 DEF Begin, MayCall
    <2>3. connection = "none" => ~ Reporting
      BY DEF IInv, IdsAreUnique, CallsFollowObjects, Reporting, Completing
    <2> QED
      BY <2>1, <2>2, <2>3 DEF InFlight, Reporting
  <1>2. ASSUME NEW t \in App, CallStep(t) PROVE [RR!Next]_InFlight
    <2>1. CASE send_message(t)
      BY <1>0, <2>1, SendSends
    <2>2. CASE JoinIo(t)
      <3>1. /\ UNCHANGED current /\ ~ Reporting /\ ~ Reporting' /\ requests' = <<>>
        BY <2>2 DEF JoinIo, cache_free, Reporting
      <3>2. requests \in Seq(Nat)
        BY InFlightIs
      <3>3. 0 \in 0..Len(requests) /\ requests' = SubSeq(requests, 1, 0)
        BY <3>1, <3>2
      <3> QED
        BY <1>0, <3>1, <3>3, LossLoses
    <2>3. CASE \/ save_completion_details(t) \/ KeepReleaseHandle(t) \/ wait_for_result(t)
               \/ DeleteConnection(t)
      BY <2>3 DEF save_completion_details, KeepReleaseHandle, wait_for_result, DeleteConnection,
                  channelVars, ioVars, InFlight
    <2> QED
      BY <1>2, <2>1, <2>2, <2>3 DEF CallStep
  <1>7. ASSUME NEW t \in App, mir_wait_for(t) PROVE [RR!Next]_InFlight
    BY <1>7 DEF mir_wait_for, channelVars, ioVars, InFlight
  <1>3. CASE ConnectFails
    BY <1>3 DEF ConnectFails, channelVars, ioVars, InFlight
  <1>4. CASE IoStep
    <2>1. CASE ReadReply
      BY <1>0, <2>1, ReadKeepsOrder
    <2>2. CASE RunCallback
      <3>1. UNCHANGED <<requests, current>> /\ Reporting
        BY <2>2 DEF RunCallback, channelVars, Reporting
      <3>2. CASE io_pc' = "notify"
        BY <2>2, <3>1, <3>2 DEF InFlight, Reporting
      <3>3. CASE io_pc' = "erase"
        BY <1>0, <3>1, <3>3, ReportAnswers DEF Reporting
      <3> QED
        BY <2>2, <3>2, <3>3 DEF RunCallback
    <2>3. CASE CallbackThrows
      BY <1>0, <2>3, ReportAnswers DEF CallbackThrows, channelVars, Reporting
    <2>4. CASE Notify
      BY <1>0, <2>4, ReportAnswers DEF Notify, channelVars, Reporting
    <2>5. CASE CallbackCalls \/ Erase \/ Eof
      BY <2>5 DEF CallbackCalls, Erase, Eof, channelVars, InFlight
    <2> QED
      BY <1>4, <2>1, <2>2, <2>3, <2>4, <2>5 DEF IoStep
  <1>5. CASE ServerDies
    <2>1. PICK n \in 0..Len(requests) : requests' = SubSeq(requests, 1, n)
      BY <1>5 DEF ServerDies
    <2> QED
      BY <1>0, <1>5, <2>1, LossLoses DEF ServerDies, ioVars, Reporting
  <1>6. CASE UNCHANGED vars
    BY <1>6 DEF vars, channelVars, ioVars, InFlight
  <1> QED
    BY <1>1, <1>2, <1>3, <1>4, <1>5, <1>6, <1>7 DEF Next

\* The channel with its cache of pending calls completes the calls of all
\* threads once each, in the order in which they were sent (MirSocketRpcChannel
\* and PendingCallCache).
THEOREM CallsAreInOrder == Spec => CallsCompleteInOrder
  <1>1. Init => RR!Init
    BY DEF Init, RR!Init, InFlight
  <1> QED
    BY <1>1, InvarianceWithWaits, EveryStepInOrder, PTL DEF Spec, CallsCompleteInOrder, RR!Spec

-----------------------------------------------------------------------------
(* A wait ends only when its call has been completed *)

\* The calls of handle c that are in the cache and not completed, and the
\* threads about to put one there.
Uncompleted(c) == {i \in DOMAIN pending_calls : pending_calls[i] = c /\ ~ Completed(i)}
Saving(c) == {u \in App : pc[u] = "save" /\ call[u] = c}

\* The results that c has, and those that are to come.
Owed(c) == received[c] + Cardinality(Uncompleted(c)) + (IF Saving(c) = {} THEN 0 ELSE 1)

\* One result is to come for a handle that is not used again before its result
\* is taken; configure counts them.
HandleIsExact(c) ==
    /\ \A u, v \in Saving(c) : u = v
    /\ Owed(c) <= IF c[1] = "configure" THEN expecting[c] ELSE 1

HandleInv ==
    /\ \A c \in Call : c[1] # "configure" => expecting[c] = 0
    /\ \A t \in App : /\ pc[t] \in {"keep_handle", "check", "waiting"}
                      /\ id[t] \in DOMAIN pending_calls
                      => pending_calls[id[t]] = call[t]
    /\ \A c \in Call : c[1] = "configure" \/ c \notin overlapped => HandleIsExact(c)

\* Calls under way are finitely many.
LEMMA UncompletedIsFinite ==
    ASSUME IInv, NEW c
    PROVE  IsFiniteSet(Uncompleted(c)) /\ Cardinality(Uncompleted(c)) \in Nat
  <1>1. IsFiniteSet(1..next_message_id)
    BY FS_Interval DEF IInv, TypeOK
  <1>2. Uncompleted(c) \subseteq 1..next_message_id
    BY DEF IInv, TypeOK, Uncompleted
  <1> QED
    BY <1>1, <1>2, FS_Subset, FS_CardinalityType

\* A handle owes no more when results are taken or calls leave the cache.
LEMMA ExactStays ==
    ASSUME IInv, NEW c \in Call, HandleIsExact(c),
           received'[c] \in Nat, received'[c] <= received[c], expecting'[c] = expecting[c],
           Uncompleted(c)' \subseteq Uncompleted(c), Saving(c)' \subseteq Saving(c)
    PROVE  HandleIsExact(c)'
  <1>1. /\ IsFiniteSet(Uncompleted(c)) /\ Cardinality(Uncompleted(c)) \in Nat
        /\ Cardinality(Uncompleted(c)') \in Nat
        /\ Cardinality(Uncompleted(c)') <= Cardinality(Uncompleted(c))
    BY UncompletedIsFinite, FS_Subset, FS_CardinalityType
  <1>2. received[c] \in Nat /\ expecting[c] \in Nat
    BY DEF IInv, TypeOK
  <1>3. (IF Saving(c)' = {} THEN 0 ELSE 1) <= (IF Saving(c) = {} THEN 0 ELSE 1)
    OBVIOUS
  <1>4. Owed(c)' <= Owed(c) /\ Owed(c) \in Nat /\ Owed(c)' \in Nat
    BY <1>1, <1>2, <1>3 DEF Owed
  <1> QED
    BY <1>2, <1>4 DEF HandleIsExact

\* The steps that neither begin nor save a call nor give or take a result.
LEMMA HandlesRest ==
    ASSUME IInv, HandleInv, UNCHANGED <<received, expecting, overlapped>>,
           DOMAIN pending_calls' \subseteq DOMAIN pending_calls,
           \A i \in DOMAIN pending_calls' : /\ pending_calls'[i] = pending_calls[i]
                                            /\ Completed(i) => Completed(i)',
           ThreadsGoOn \/ UNCHANGED <<pc, call, id>>
    PROVE  HandleInv'
  <1>1. /\ \A u \in App : pc'[u] = "save" => pc[u] = "save" /\ call'[u] = call[u]
        /\ \A u \in App : pc'[u] \in {"keep_handle", "check", "waiting"} =>
              /\ pc[u] \in {"send", "keep_handle", "check", "waiting"}
              /\ call'[u] = call[u] /\ id'[u] = id[u]
    BY DEF ThreadsGoOn
  <1>2. \A t \in App : /\ pc'[t] \in {"keep_handle", "check", "waiting"}
                       /\ id'[t] \in DOMAIN pending_calls'
                       => pending_calls'[id'[t]] = call'[t]
    BY <1>1 DEF HandleInv, IInv, IdsAreUnique
  <1>3. ASSUME NEW c \in Call, c[1] = "configure" \/ c \notin overlapped
        PROVE  HandleIsExact(c)'
    <2>1. Uncompleted(c)' \subseteq Uncompleted(c) /\ Saving(c)' \subseteq Saving(c)
      BY <1>1 DEF Uncompleted, Saving
    <2>2. received[c] \in Nat /\ received[c] <= received[c]
      BY DEF IInv, TypeOK
    <2> QED
      BY <1>3, <2>1, <2>2, ExactStays DEF HandleInv
  <1> QED
    BY <1>2, <1>3 DEF HandleInv

\* A call that begins on a handle that is not unsettled is the only one on it.
LEMMA BeginIsExact ==
    ASSUME IInv, HandleInv, NEW t \in App, NEW d \in Call, Begin(t, d)
    PROVE  HandleInv'
  <1>1. /\ UNCHANGED <<pending_calls, requests, current, id, received, release_handle,
                       next_message_id, threw, unwaited>>
        /\ pc[t] = "idle" /\ pc' = [pc EXCEPT ![t] = "save"] /\ call' = [call EXCEPT ![t] = d]
        /\ expecting' = [expecting EXCEPT ![d] = IF d[1] = "configure" THEN @ + 1 ELSE @]
        /\ overlapped' = overlapped \cup {e \in {d} : Unsettled(t, e)}
        /\ d[1] = "configure" => ~ InUse(t, d[2])
    BY BeginEffect DEF Begin, MayCall, OnSurface
  <1>2. /\ pc \in [App -> {"idle", "save", "send", "keep_handle", "check", "waiting",
                           "delete", "join"}]
        /\ call \in [App -> Call \cup {NoCall}]
        /\ expecting \in [Call -> Nat] /\ received \in [Call -> Nat]
    BY DEF IInv, TypeOK
  <1>3. \A i \in DOMAIN pending_calls : Completed(i)' <=> Completed(i)
    <2>1. io_pc' = io_pc \/ (connection = "none" /\ io_pc' = "idle")
      BY DEF Begin, MayCall
    <2>2. connection = "none" => DOMAIN pending_calls = {}
      BY DEF IInv, CallsFollowObjects
    <2> QED
      BY <1>1, <2>1, <2>2 DEF Completed
  <1>4. /\ \A c \in Call : Uncompleted(c)' = Uncompleted(c)
        /\ \A c \in Call \ {d} : Saving(c)' = Saving(c)
        /\ Saving(d)' = Saving(d) \cup {t}
    BY <1>1, <1>2, <1>3 DEF Uncompleted, Saving
  <1>5. /\ \A c \in Call : c[1] # "configure" => expecting'[c] = 0
        /\ \A u \in App : /\ pc'[u] \in {"keep_handle", "check", "waiting"}
                          /\ id'[u] \in DOMAIN pending_calls'
                          => pending_calls'[id'[u]] = call'[u]
    BY <1>1, <1>2 DEF HandleInv
  <1>6. ASSUME NEW c \in Call \ {d}, c[1] = "configure" \/ c \notin overlapped'
        PROVE  HandleIsExact(c)'
    <2>1. received'[c] = received[c] /\ expecting'[c] = expecting[c] /\ received[c] \in Nat
          /\ received[c] <= received[c]
      BY <1>1, <1>2
    <2>2. HandleIsExact(c)
      BY <1>1, <1>6 DEF HandleInv
    <2> QED
      BY <1>4, <2>1, <2>2, ExactStays
  <1>7. ASSUME d[1] = "configure" \/ d \notin overlapped'
        PROVE  HandleIsExact(d)'
    <2>1. Saving(d) = {} /\ Saving(d)' = {t}
      <3>1. CASE d[1] = "configure"
        BY <1>1, <1>4, <3>1 DEF Saving, InUse
      <3>2. CASE d \notin overlapped'
        <4>1. ~ Unsettled(t, d)
          BY <1>1, <3>2
        <4> QED
          BY <1>1, <1>4, <4>1 DEF Saving, Unsettled
      <3> QED
        BY <1>7, <3>1, <3>2
    <2>2. Owed(d)' = received[d] + Cardinality(Uncompleted(d)) + 1
      BY <1>1, <1>4, <2>1 DEF Owed
    <2>3. Owed(d) = received[d] + Cardinality(Uncompleted(d)) + 0
      BY <2>1 DEF Owed
    <2>4. Cardinality(Uncompleted(d)) \in Nat /\ received[d] \in Nat /\ expecting[d] \in Nat
      BY <1>2, UncompletedIsFinite
    <2>5. CASE d[1] = "configure"
      <3>1. expecting'[d] = expecting[d] + 1 /\ Owed(d) <= expecting[d]
        BY <1>1, <1>2, <2>5 DEF HandleInv, HandleIsExact
      <3> QED
        BY <2>1, <2>2, <2>3, <2>4, <2>5, <3>1 DEF HandleIsExact
    <2>6. CASE d[1] # "configure"
      <3>1. ~ Unsettled(t, d)
        BY <1>1, <1>7, <2>6
      <3>2. received[d] = 0 /\ Uncompleted(d) = {}
        BY <2>4, <3>1 DEF Unsettled, Uncompleted
      <3>3. Cardinality(Uncompleted(d)) = 0
        BY <3>2, FS_EmptySet
      <3> QED
        BY <2>1, <2>2, <2>6, <3>2, <3>3 DEF HandleIsExact
    <2> QED
      BY <2>5, <2>6
  <1> QED
    BY <1>5, <1>6, <1>7 DEF HandleInv

\* A call that is saved is owed as it was before.
LEMMA SaveIsExact ==
    ASSUME IInv, HandleInv, NEW t \in App, save_completion_details(t)
    PROVE  HandleInv'
  <1> DEFINE n == next_message_id + 1
  <1>1. /\ UNCHANGED <<io_pc, current, call, expecting, received, overlapped>>
        /\ pc[t] = "save" /\ pc' = [pc EXCEPT ![t] = "send"]
        /\ id' = [id EXCEPT ![t] = n]
        /\ io_pc # "erase"
    BY DEF save_completion_details, Goto, cache_free, ioVars, handleVars
  <1>2. /\ n \notin DOMAIN pending_calls /\ n \in Nat
        /\ pc \in [App -> {"idle", "save", "send", "keep_handle", "check", "waiting",
                           "delete", "join"}]
        /\ id \in [App -> 0..next_message_id]
        /\ \A u \in App : id[u] # n
        /\ expecting \in [Call -> Nat] /\ received \in [Call -> Nat]
    BY DEF IInv, TypeOK
  <1>3. /\ DOMAIN pending_calls' = DOMAIN pending_calls \cup {n}
        /\ pending_calls'[n] = call[t]
        /\ \A i \in DOMAIN pending_calls : pending_calls'[i] = pending_calls[i]
    <2>1. pending_calls' = [j \in DOMAIN pending_calls \cup {n} |->
                               IF j = n THEN call[t] ELSE pending_calls[j]]
      BY DEF save_completion_details, Saved
    <2> QED
      BY <1>2, <2>1
  <1> HIDE DEF n
  <1>4. PICK d : d = call[t]
    OBVIOUS
  <1>5. /\ \A c : c # d => Uncompleted(c)' = Uncompleted(c) /\ Saving(c)' = Saving(c)
        /\ Uncompleted(d)' = Uncompleted(d) \cup {n} /\ n \notin Uncompleted(d)
        /\ Saving(d)' = Saving(d) \ {t} /\ t \in Saving(d)
    BY <1>1, <1>2, <1>3, <1>4 DEF Uncompleted, Saving, Completed
  <1>6. \A u \in App : /\ pc'[u] \in {"keep_handle", "check", "waiting"}
                       /\ id'[u] \in DOMAIN pending_calls'
                       => pending_calls'[id'[u]] = call'[u]
    BY <1>1, <1>2, <1>3 DEF HandleInv
  <1>7. ASSUME NEW c \in Call, c[1] = "configure" \/ c \notin overlapped
        PROVE  HandleIsExact(c)'
    <2>0. HandleIsExact(c) /\ received[c] \in Nat /\ received[c] <= received[c]
      BY <1>2, <1>7 DEF HandleInv
    <2>1. CASE c # d
      BY <1>1, <1>5, <2>0, <2>1, ExactStays
    <2>2. CASE c = d
      <3>1. Saving(c)' = {} /\ Saving(c) # {}
        BY <1>5, <2>0, <2>2 DEF HandleIsExact
      <3>2. Cardinality(Uncompleted(c)') = Cardinality(Uncompleted(c)) + 1
            /\ Cardinality(Uncompleted(c)) \in Nat
        BY <1>5, <2>2, UncompletedIsFinite, FS_AddElement
      <3>3. Owed(c)' = Owed(c)
        BY <1>1, <2>0, <3>1, <3>2 DEF Owed
      <3> QED
        BY <1>1, <2>0, <3>1, <3>3 DEF HandleIsExact
    <2> QED
      BY <2>1, <2>2
  <1> QED
    BY <1>1, <1>6, <1>7 DEF HandleInv

\* A wait that ends leaves nothing uncompleted on its handle.
LEMMA WaitEndsCompleted ==
    ASSUME IInv, HandleInv, NEW c \in Call, ~ MustWait(c),
           c[1] = "configure" \/ c \notin overlapped
    PROVE  /\ Uncompleted(c) = {}
           /\ c[1] = "configure" => received[c] = expecting[c] /\ Saving(c) = {}
  <1>1. /\ received[c] \in Nat /\ expecting[c] \in Nat /\ Cardinality(Uncompleted(c)) \in Nat
        /\ IsFiniteSet(Uncompleted(c))
    BY UncompletedIsFinite DEF IInv, TypeOK
  <1>2. /\ received[c] + Cardinality(Uncompleted(c)) + (IF Saving(c) = {} THEN 0 ELSE 1)
              <= IF c[1] = "configure" THEN expecting[c] ELSE 1
        /\ c[1] # "configure" => expecting[c] = 0
    BY DEF HandleInv, HandleIsExact, Owed
  <1>3. /\ Cardinality(Uncompleted(c)) = 0
        /\ c[1] = "configure" => received[c] = expecting[c] /\ Saving(c) = {}
    <2>1. CASE c[1] = "configure"
      BY <1>1, <1>2, <2>1 DEF MustWait
    <2>2. CASE c[1] # "configure"
      BY <1>1, <1>2, <2>2 DEF MustWait
    <2> QED
      BY <2>1, <2>2
  <1> QED
    BY <1>1, <1>3, FS_EmptySet

\* The results of a handle are taken together.
LEMMA WaitIsExact ==
    ASSUME IInv, HandleInv, NEW t \in App, wait_for_result(t)
    PROVE  HandleInv'
  <1>1. /\ UNCHANGED <<pending_calls, io_pc, current, overlapped>> /\ pc[t] = "check"
        /\ call[t] \in Call
    BY DEF wait_for_result, channelVars, ioVars, IInv, CallsFollowObjects
  <1>2. PICK d \in Call : d = call[t]
    BY <1>1
  <1>3. /\ pc \in [App -> {"idle", "save", "send", "keep_handle", "check", "waiting",
                           "delete", "join"}]
        /\ call \in [App -> Call \cup {NoCall}]
        /\ id \in [App -> 0..next_message_id]
        /\ expecting \in [Call -> Nat] /\ received \in [Call -> Nat]
    BY DEF IInv, TypeOK
  <1>4. CASE /\ MustWait(d)
             /\ pc' = [pc EXCEPT ![t] = "waiting"] /\ UNCHANGED <<expecting, received, call, id>>
    <2>1. /\ \A c : Uncompleted(c)' = Uncompleted(c) /\ Saving(c)' = Saving(c)
          /\ \A u \in App : /\ pc'[u] \in {"keep_handle", "check", "waiting"}
                            /\ id'[u] \in DOMAIN pending_calls'
                            => pending_calls'[id'[u]] = call'[u]
      BY <1>1, <1>3, <1>4 DEF HandleInv, Uncompleted, Saving, Completed
    <2>2. ASSUME NEW c \in Call, c[1] = "configure" \/ c \notin overlapped
          PROVE  HandleIsExact(c)'
      <3>1. HandleIsExact(c) /\ received[c] \in Nat /\ received[c] <= received[c]
        BY <1>3, <2>2 DEF HandleInv
      <3> QED
        BY <1>4, <2>1, <3>1, ExactStays
    <2> QED
      BY <1>1, <1>4, <2>1, <2>2 DEF HandleInv
  <1>5. CASE /\ ~ MustWait(d)
             /\ expecting' = [expecting EXCEPT ![d] = 0]
             /\ received' = [received EXCEPT ![d] = 0]
             /\ pc' = [pc EXCEPT ![t] = IF d[1] = "disconnect" THEN "delete" ELSE "idle"]
             /\ call' = [call EXCEPT ![t] = NoCall]
             /\ id' = [id EXCEPT ![t] = 0]
    <2>0. pc'[t] \in {"delete", "idle"} /\ \A u \in App \ {t} : pc'[u] = pc[u] /\ call'[u] = call[u]
                                                             /\ id'[u] = id[u]
      BY <1>3, <1>5
    <2>1. /\ \A c : Uncompleted(c)' = Uncompleted(c) /\ Saving(c)' = Saving(c)
          /\ \A u \in App : /\ pc'[u] \in {"keep_handle", "check", "waiting"}
                            /\ id'[u] \in DOMAIN pending_calls'
                            => pending_calls'[id'[u]] = call'[u]
      BY <1>1, <1>3, <2>0 DEF HandleInv, Uncompleted, Saving, Completed
    <2>2. \A c \in Call : c[1] # "configure" => expecting'[c] = 0
      BY <1>3, <1>5 DEF HandleInv
    <2>3. ASSUME NEW c \in Call, c[1] = "configure" \/ c \notin overlapped
          PROVE  HandleIsExact(c)'
      <3>1. HandleIsExact(c) /\ received[c] \in Nat /\ received[c] <= received[c]
        BY <1>3, <2>3 DEF HandleInv
      <3>2. CASE c # d
        BY <1>3, <1>5, <2>1, <3>1, <3>2, ExactStays
      <3>3. CASE c = d /\ c[1] # "configure"
        <4>1. received'[c] = 0 /\ expecting'[c] = expecting[c] /\ 0 \in Nat /\ 0 <= received[c]
          BY <1>3, <1>5, <2>2, <3>1, <3>3 DEF HandleInv
        <4> QED
          BY <2>1, <3>1, <4>1, ExactStays
      <3>4. CASE c = d /\ c[1] = "configure"
        <4>1. Uncompleted(c)' = {} /\ Saving(c)' = {} /\ received'[c] = 0 /\ expecting'[c] = 0
          BY <1>3, <1>5, <2>1, <3>4, WaitEndsCompleted
        <4>2. Cardinality(Uncompleted(c)') = 0
          BY <4>1, FS_EmptySet
        <4> QED
          BY <3>4, <4>1, <4>2 DEF HandleIsExact, Owed
      <3> QED
        BY <3>2, <3>3, <3>4
    <2> QED
      BY <1>1, <2>1, <2>2, <2>3 DEF HandleInv
  <1> QED
    BY <1>2, <1>4, <1>5 DEF wait_for_result, Goto

\* A result that is given was owed.
LEMMA NotifyIsExact ==
    ASSUME IInv, HandleInv, Notify
    PROVE  HandleInv'
  <1>1. /\ UNCHANGED <<pending_calls, current, call, id, expecting, overlapped>>
        /\ io_pc = "notify" /\ io_pc' = "erase"
        /\ received' = [received EXCEPT ![pending_calls[current]] = @ + 1]
        /\ pc' = [t \in App |-> IF pc[t] = "waiting" /\ call[t] = pending_calls[current]
                                THEN "check" ELSE pc[t]]
    BY DEF Notify, result_received, Woken, channelVars
  <1>2. /\ current \in DOMAIN pending_calls /\ pending_calls[current] \in Call
        /\ received \in [Call -> Nat]
    BY <1>1 DEF IInv, IdsAreUnique, TypeOK, Completing
  <1>3. PICK d \in Call : d = pending_calls[current]
    BY <1>2
  <1>4. /\ \A c : Saving(c)' = Saving(c)
        /\ \A c : c # d => Uncompleted(c)' = Uncompleted(c)
        /\ Uncompleted(d)' = Uncompleted(d) \ {current} /\ current \in Uncompleted(d)
        /\ \A u \in App : /\ pc'[u] \in {"keep_handle", "check", "waiting"}
                          /\ id'[u] \in DOMAIN pending_calls'
                          => pending_calls'[id'[u]] = call'[u]
    <2>1. \A u \in App : /\ pc'[u] = "save" <=> pc[u] = "save"
                         /\ pc'[u] \in {"keep_handle", "check", "waiting"} =>
                               pc[u] \in {"keep_handle", "check", "waiting"}
      BY <1>1
    <2>2. \A u \in App : /\ pc'[u] \in {"keep_handle", "check", "waiting"}
                         /\ id'[u] \in DOMAIN pending_calls'
                         => pending_calls'[id'[u]] = call'[u]
      BY <1>1, <2>1 DEF HandleInv
    <2>3. \A c : Saving(c)' = Saving(c)
      BY <1>1, <2>1 DEF Saving
    <2>4. /\ \A c : c # d => Uncompleted(c)' = Uncompleted(c)
          /\ Uncompleted(d)' = Uncompleted(d) \ {current} /\ current \in Uncompleted(d)
      BY <1>1, <1>2, <1>3 DEF Uncompleted, Completed
    <2> QED
      BY <2>2, <2>3, <2>4
  <1>5. ASSUME NEW c \in Call, c[1] = "configure" \/ c \notin overlapped
        PROVE  HandleIsExact(c)'
    <2>1. HandleIsExact(c) /\ received[c] \in Nat /\ received[c] <= received[c]
      BY <1>2, <1>5 DEF HandleInv
    <2>2. CASE c # d
      BY <1>1, <1>2, <1>3, <1>4, <2>1, <2>2, ExactStays
    <2>3. CASE c = d
      <3>1. /\ Cardinality(Uncompleted(c)') = Cardinality(Uncompleted(c)) - 1
            /\ Cardinality(Uncompleted(c)) \in Nat
        BY <1>4, <2>3, UncompletedIsFinite, FS_RemoveElement
      <3>2. received'[c] = received[c] + 1
        BY <1>1, <1>2, <1>3, <2>3
      <3>3. Owed(c)' = Owed(c)
        BY <1>4, <2>1, <3>1, <3>2 DEF Owed
      <3> QED
        BY <1>1, <1>4, <2>1, <3>3 DEF HandleIsExact
    <2> QED
      BY <2>2, <2>3
  <1> QED
    BY <1>1, <1>4, <1>5 DEF HandleInv

\* mir_wait_for: the call that is waited for has the id it was saved with.
LEMMA WaitForIsExact ==
    ASSUME IInv, UnwaitedInv, HandleInv, NEW t \in App, mir_wait_for(t)
    PROVE  HandleInv'
  <1>1. PICK w \in unwaited[t] :
           /\ call' = [call EXCEPT ![t] = w[1]]
           /\ id' = [id EXCEPT ![t] = w[2]]
    BY DEF mir_wait_for
  <1>2. /\ UNCHANGED <<pending_calls, io_pc, current, expecting, received, overlapped>>
        /\ pc[t] = "idle" /\ pc' = [pc EXCEPT ![t] = "check"]
    BY DEF mir_wait_for, Goto, channelVars, ioVars, handleVars
  <1>3. /\ pc \in [App -> {"idle", "save", "send", "keep_handle", "check", "waiting",
                           "delete", "join"}]
        /\ call \in [App -> Call \cup {NoCall}] /\ id \in [App -> 0..next_message_id]
        /\ received \in [Call -> Nat]
    BY DEF IInv, TypeOK
  <1>4. /\ pc'[t] = "check" /\ call'[t] = w[1] /\ id'[t] = w[2]
        /\ \A u \in App \ {t} : pc'[u] = pc[u] /\ call'[u] = call[u] /\ id'[u] = id[u]
    BY <1>1, <1>2, <1>3
  <1>5. w[2] \in DOMAIN pending_calls => pending_calls[w[2]] = w[1]
    BY DEF UnwaitedInv
  <1>6. \A u \in App : /\ pc'[u] \in {"keep_handle", "check", "waiting"}
                       /\ id'[u] \in DOMAIN pending_calls'
                       => pending_calls'[id'[u]] = call'[u]
    BY <1>2, <1>4, <1>5 DEF HandleInv
  <1>7. \A c : Uncompleted(c)' = Uncompleted(c) /\ Saving(c)' = Saving(c)
    <2>1. \A u \in App : /\ pc'[u] = "save" <=> pc[u] = "save"
                         /\ pc'[u] = "save" => call'[u] = call[u]
      BY <1>2, <1>4
    <2> QED
      BY <1>2, <2>1 DEF Uncompleted, Saving, Completed
  <1>8. ASSUME NEW c \in Call, c[1] = "configure" \/ c \notin overlapped
        PROVE  HandleIsExact(c)'
    <2>1. HandleIsExact(c) /\ received[c] \in Nat /\ received[c] <= received[c]
      BY <1>3, <1>8 DEF HandleInv
    <2> QED
      BY <1>2, <1>7, <2>1, ExactStays
  <1> QED
    BY <1>2, <1>6, <1>8 DEF HandleInv

\* Every step keeps the handles exact.
LEMMA NextIsExact ==
    ASSUME IInv, UnwaitedInv, HandleInv, [Next]_vars
    PROVE  HandleInv'
  <1>1. ASSUME NEW t \in App, NEW c \in Makes[t], Begin(t, c) PROVE HandleInv'
    BY <1>1, ClientAssumption, BeginIsExact
  <1>2. ASSUME NEW t \in App, CallStep(t) PROVE HandleInv'
    <2>1. CASE send_message(t)
      BY <2>1, SendEffect, HandlesRest DEF Completed
    <2>2. CASE KeepReleaseHandle(t)
      <3>1. ThreadsGoOn
        BY <2>2, ReturnGoesOn DEF KeepReleaseHandle
      <3> QED
        BY <2>2, <3>1, HandlesRest DEF KeepReleaseHandle, channelVars, ioVars, Completed
    <2>3. CASE DeleteConnection(t) \/ JoinIo(t)
      <3>1. /\ UNCHANGED <<received, expecting, overlapped>>
            /\ DOMAIN pending_calls' \subseteq DOMAIN pending_calls
            /\ \A i \in DOMAIN pending_calls' : /\ pending_calls'[i] = pending_calls[i]
                                                /\ Completed(i) => Completed(i)'
            /\ UNCHANGED <<call, id>>
            /\ \A u \in App : pc'[u] = pc[u] \/ pc'[u] \in {"idle", "join"}
        BY <2>3 DEF DeleteConnection, JoinIo, Goto, channelVars, ioVars, handleVars, Completed,
                    IInv, TypeOK
      <3>2. \A t1 \in App : /\ pc'[t1] \in {"keep_handle", "check", "waiting"}
                            /\ id'[t1] \in DOMAIN pending_calls'
                            => pending_calls'[id'[t1]] = call'[t1]
        BY <3>1 DEF HandleInv
      <3>3. ASSUME NEW c \in Call, c[1] = "configure" \/ c \notin overlapped
            PROVE  HandleIsExact(c)'
        <4>1. Uncompleted(c)' \subseteq Uncompleted(c) /\ Saving(c)' \subseteq Saving(c)
          BY <3>1 DEF Uncompleted, Saving
        <4>2. received[c] \in Nat /\ received[c] <= received[c] /\ HandleIsExact(c)
          BY <3>3 DEF IInv, TypeOK, HandleInv
        <4> QED
          BY <3>1, <4>1, <4>2, ExactStays
      <3> QED
        BY <3>1, <3>2, <3>3 DEF HandleInv
    <2> QED
      BY <1>2, <2>1, <2>2, <2>3, SaveIsExact, WaitIsExact DEF CallStep
  <1>5. ASSUME NEW t \in App, mir_wait_for(t) PROVE HandleInv'
    BY <1>5, WaitForIsExact
  <1>3. CASE ConnectFails \/ ServerDies \/ UNCHANGED vars
    BY <1>3, HandlesRest DEF ConnectFails, ServerDies, vars, channelVars, ioVars, handleVars,
                             Completed
  <1>4. CASE IoStep
    <2>1. CASE ReadReply \/ CallbackThrows \/ CallbackCalls \/ Eof
      <3>1. /\ UNCHANGED <<received, expecting, overlapped, pending_calls, pc, call, id>>
            /\ io_pc # "erase"
        BY <2>1 DEF ReadReply, CallbackThrows, CallbackCalls, Eof, channelVars, handleVars
      <3> QED
        BY <3>1, HandlesRest DEF Completed
    <2>2. CASE RunCallback
      <3>1. /\ UNCHANGED <<received, expecting, overlapped, pending_calls, pc, call, id>>
            /\ io_pc # "erase"
        BY <2>2 DEF RunCallback, channelVars
      <3> QED
        BY <3>1, HandlesRest DEF Completed
    <2>3. CASE Erase
      <3>1. /\ UNCHANGED <<received, expecting, overlapped, pc, call, id>>
            /\ DOMAIN pending_calls' = DOMAIN pending_calls \ {current}
            /\ \A i \in DOMAIN pending_calls' : pending_calls'[i] = pending_calls[i]
        BY <2>3 DEF Erase, Restrict, handleVars
      <3>2. \A i \in DOMAIN pending_calls' : ~ Completed(i)
        BY <3>1 DEF Completed
      <3> QED
        BY <3>1, <3>2, HandlesRest
    <2> QED
      BY <1>4, <2>1, <2>2, <2>3, NotifyIsExact DEF IoStep
  <1> QED
    BY <1>1, <1>2, <1>3, <1>4, <1>5 DEF Next

\* Only wait_for_result lets a thread go on from its test.
LEMMA OnlyWaitEnds ==
    ASSUME IInv, [Next]_vars, NEW t \in App, pc[t] = "check", pc'[t] \notin {"check", "waiting"}
    PROVE  wait_for_result(t)
  <1>0. pc \in [App -> {"idle", "save", "send", "keep_handle", "check", "waiting",
                        "delete", "join"}]
    BY DEF IInv, TypeOK
  <1>1. ASSUME NEW u \in App, NEW c \in Makes[u], Begin(u, c) PROVE FALSE
    BY <1>0, <1>1 DEF Begin, Goto
  <1>2. ASSUME NEW u \in App, CallStep(u) PROVE wait_for_result(t)
    BY <1>0, <1>2 DEF CallStep, save_completion_details, send_message, KeepReleaseHandle,
                      wait_for_result, DeleteConnection, JoinIo, ReturnFrom, Goto
  <1>5. ASSUME NEW u \in App, mir_wait_for(u) PROVE FALSE
    BY <1>0, <1>5 DEF mir_wait_for, Goto
  <1>3. CASE ConnectFails \/ ServerDies \/ UNCHANGED vars
    BY <1>3 DEF ConnectFails, ServerDies, vars
  <1>4. ~ IoStep
    BY <1>0 DEF IoStep, ReadReply, RunCallback, CallbackThrows, CallbackCalls, Notify, Erase, Eof,
                result_received, Woken
  <1> QED
    BY <1>1, <1>2, <1>3, <1>4, <1>5 DEF Next

\* mir_wait_for, and the _sync functions, return only when the callback of
\* their call has run: without expect_result this needs that the handle was
\* not used again before its result was taken; configure, which counts, does
\* without (MirWaitHandle's wait_for_result and result_received).
THEOREM WaitsMeanCompleted == Spec => WaitMeansCompleted
  <1>1. Init => HandleInv
    <2> SUFFICES ASSUME Init PROVE HandleInv
      OBVIOUS
    <2>1. /\ \A c : Uncompleted(c) = {} /\ Saving(c) = {}
          /\ \A c \in Call : received[c] = 0 /\ expecting[c] = 0
          /\ DOMAIN pending_calls = {}
      BY DEF Init, Uncompleted, Saving
    <2>2. Cardinality({}) = 0
      BY FS_EmptySet
    <2>3. ASSUME NEW c \in Call PROVE HandleIsExact(c)
      <3>1. Owed(c) = 0
        <4>1. Uncompleted(c) = {} /\ Saving(c) = {} /\ received[c] = 0
          BY <2>1
        <4>2. Cardinality(Uncompleted(c)) = 0
          BY <2>2, <4>1
        <4> QED
          BY <4>1, <4>2 DEF Owed
      <3> QED
        BY <2>1, <3>1 DEF HandleIsExact
    <2> QED
      BY <2>1, <2>3 DEF HandleInv
  <1>2. ASSUME IInv, HandleInv, [Next]_vars, NEW t \in App, pc[t] = "check",
               pc'[t] \notin {"check", "waiting"},
               ~ (call[t] \in overlapped /\ call[t][1] # "configure")
        PROVE  Completed(id[t])
    <2>1. wait_for_result(t) /\ call[t] \in Call
      BY <1>2, OnlyWaitEnds DEF IInv, CallsFollowObjects
    <2>2. ~ MustWait(call[t])
      <3>1. pc \in [App -> {"idle", "save", "send", "keep_handle", "check", "waiting",
                            "delete", "join"}]
        BY <1>2 DEF IInv, TypeOK
      <3> QED
        BY <1>2, <2>1, <3>1 DEF wait_for_result, Goto
    <2>3. Uncompleted(call[t]) = {}
      BY <1>2, <2>1, <2>2, WaitEndsCompleted
    <2>4. id[t] \in DOMAIN pending_calls => pending_calls[id[t]] = call[t]
      BY <1>2 DEF HandleInv
    <2> QED
      BY <2>3, <2>4 DEF Uncompleted, Completed
  <1>3. Spec => [](IInv /\ HandleInv)
    <2>1. IInv /\ UnwaitedInv /\ HandleInv /\ [Next]_vars => HandleInv'
      BY NextIsExact
    <2> QED
      BY <1>1, <2>1, InvarianceWithWaits, PTL DEF Spec
  <1>4. IInv /\ HandleInv /\ [Next]_vars =>
            [\A t \in App : pc[t] = "check" /\ pc'[t] \notin {"check", "waiting"}
               => Completed(id[t]) \/ (call[t] \in overlapped /\ call[t][1] # "configure")]_vars
    BY <1>2
  <1> QED
    BY <1>3, <1>4, PTL DEF Spec, WaitMeansCompleted

=============================================================================
