-------------------------- MODULE MirClientLibrary --------------------------
(***************************************************************************)
(* The client library: threads of an application make calls of the server *)
(* through MirSocketRpcChannel, one io thread reads the replies and runs   *)
(* the callbacks, and MirWaitHandles let the application wait for them.    *)
(*                                                                         *)
(* PendingCallCache keeps what is needed to complete a call under a mutex  *)
(* that the io thread holds while the callback runs.  The callbacks hand   *)
(* the objects to the application, notify the wait handles, and delete     *)
(* what is released: surfaces in released(), the handles of releases in    *)
(* done_disconnect(); mir_connection_release() deletes the connection.     *)
(*                                                                         *)
(* The server is external: it answers in order and may go away at any      *)
(* time.  The application follows the API: it uses a connection or a       *)
(* surface between the callback that hands it over and the call that       *)
(* releases it, a surface from one thread at a time, and it releases the   *)
(* connection when no other thread is in a call.  A thread need not wait   *)
(* for a call it made; it waits at most once for one, at any later time.   *)
(***************************************************************************)
EXTENDS Naturals, Sequences, FiniteSets, Functions

CONSTANTS App,         \* threads of the application
          Surface,
          NoSurface,   \* of a call that is not about a surface
          Makes,       \* the calls each thread of the application makes
          Sync,        \* those it makes with the _sync functions, which wait
          MaxCall,     \* bound: calls the application makes
          MaxPending   \* bound: calls under way at a time

VARIABLES next_message_id,
          pending_calls,        \* the calls saved in PendingCallCache, by id
          requests,             \* ids sent whose reply has not been read
          link,                 \* whether the server is there
          io_pc, current,       \* the io thread: step, id it completes
          pc, call, id,         \* each thread: step, its latest call, that call's id
          connection, surface,  \* life of the MirConnection and of each MirSurface
          expecting, received,  \* of every MirWaitHandle
          release_handle,       \* handle of a surface's release
          threw,                \* history: calls whose callback ended with an exception
          unwaited,             \* each thread: calls it may still wait for, with their ids
          overlapped            \* history: handles of a call made before the previous was waited for

channelVars == <<next_message_id, pending_calls, requests, link>>
ioVars == <<io_pc, current, threw>>
handleVars == <<expecting, received, release_handle>>
objectVars == <<connection, surface>>
vars == <<channelVars, ioVars, pc, call, id, objectVars, handleVars, overlapped, unwaited>>

\* A call is its method and the surface it is about; its wait handle goes by
\* the same name.  select_focus has no handle.
OnSurface == {"create_surface", "next_buffer", "configure", "release_surface"}
OnConnection == {"connect", "drm_auth_magic", "select_focus", "disconnect"}
Call == (OnSurface \X Surface) \cup (OnConnection \X {NoSurface})
NoCall == <<"none", NoSurface>>

ASSUME ClientAssumption == /\ NoSurface \notin Surface /\ MaxCall \in Nat /\ MaxPending \in Nat
                           /\ Makes \in [App -> SUBSET Call]
                           /\ Sync \subseteq Call \ {<<"select_focus", NoSurface>>}

\* The calls whose completion runs a callback of the application.
HasCallback == {"connect", "create_surface", "next_buffer", "release_surface", "drm_auth_magic"}

Init ==
    /\ next_message_id = 0 /\ pending_calls = <<>>
    /\ requests = <<>> /\ link = "none"
    /\ io_pc = "none" /\ current = 0
    /\ pc = [t \in App |-> "idle"]
    /\ call = [t \in App |-> NoCall]
    /\ id = [t \in App |-> 0]
    /\ connection = "none"
    /\ surface = [s \in Surface |-> "none"]
    /\ expecting = [c \in Call |-> 0]
    /\ received = [c \in Call |-> 0]
    /\ release_handle = [s \in Surface |-> "none"]
    /\ threw = {} /\ overlapped = {}
    /\ unwaited = [t \in App |-> {}]

Goto(t, step) == pc' = [pc EXCEPT ![t] = step]

\* complete_response holds the mutex of the cache from its find to its erase.
cache_free == io_pc \in {"none", "idle", "ended", "joined"}

\* The callback of call i has run and its handle been notified.
Completed(i) == i \notin DOMAIN pending_calls \/ (io_pc = "erase" /\ current = i)

-----------------------------------------------------------------------------
(* The application's threads *)

\* Another thread is in a call about s.
InUse(t, s) == \E u \in App \ {t} : pc[u] # "idle" /\ call[u][2] = s

MayCall(t, c) ==
    /\ connection = IF c[1] = "connect" THEN "none" ELSE "connected"
    /\ c[1] = "create_surface" => surface[c[2]] = "none"
    /\ c[1] \in OnSurface \ {"create_surface"} => surface[c[2]] = "live" /\ ~InUse(t, c[2])
    /\ c[1] = "disconnect" => \A u \in App : pc[u] = "idle"

\* An earlier call with this handle is under way or its result is not taken.
Unsettled(t, c) ==
    \/ received[c] > 0
    \/ \E i \in DOMAIN pending_calls : pending_calls[i] = c /\ ~Completed(i)
    \/ \E u \in App \ {t} : call[u] = c /\ pc[u] # "idle"

Beginning == Cardinality({u \in App : pc[u] = "save"})

\* A call begins.  Configure is the only one to say that it expects a result.
Begin(t, c) ==
    /\ pc[t] = "idle" /\ MayCall(t, c)
    /\ next_message_id + Beginning < MaxCall
    /\ Cardinality(DOMAIN pending_calls) + Beginning < MaxPending
    /\ Goto(t, "save")
    /\ call' = [call EXCEPT ![t] = c]
    /\ connection' = IF c[1] = "connect" THEN "connecting"
                     ELSE IF c[1] = "disconnect" THEN "disconnecting" ELSE connection
    /\ surface' = [s \in Surface |-> IF c = <<"create_surface", s>> THEN "creating"
                                 ELSE IF c = <<"release_surface", s>> THEN "releasing"
                                 ELSE surface[s]]
    /\ IF c[1] = "connect" THEN link' = "up" /\ io_pc' = "idle"
       ELSE UNCHANGED <<link, io_pc>>
    /\ expecting' = [expecting EXCEPT ![c] = IF c[1] = "configure" THEN @ + 1 ELSE @]
    /\ overlapped' = overlapped \cup {d \in {c} : Unsettled(t, d)}
    /\ UNCHANGED <<next_message_id, pending_calls, requests, current, id, threw, received, release_handle,
                   unwaited>>

\* mir_connect when the socket cannot be connected: the callback is given
\* error_connection, of which there is nothing to use or to release.
ConnectFails ==
    /\ connection = "none" /\ MaxCall > 0
    /\ connection' = "error"
    /\ UNCHANGED <<channelVars, ioVars, pc, call, id, surface, handleVars, overlapped, unwaited>>

\* The cache with call c under id i.
Saved(i, c) == [j \in DOMAIN pending_calls \cup {i} |-> IF j = i THEN c ELSE pending_calls[j]]

\* Mutant: next_id is read and written back without compare_exchange.
SaveWithRacyId(t) ==
    /\ pc[t] = "save" /\ cache_free
    /\ next_message_id' = IF \E u \in App : pc[u] = "send" THEN next_message_id
                          ELSE next_message_id + 1
    /\ id' = [id EXCEPT ![t] = next_message_id']
    /\ pending_calls' = Saved(next_message_id', call[t])
    /\ Goto(t, "send")
    /\ UNCHANGED <<requests, link, ioVars, call, objectVars, handleVars, overlapped, unwaited>>

\* next_id and save_completion_details.
save_completion_details(t) ==
    /\ pc[t] = "save" /\ cache_free
    /\ next_message_id' = next_message_id + 1
    /\ id' = [id EXCEPT ![t] = next_message_id']
    /\ pending_calls' = Saved(next_message_id', call[t])
    /\ Goto(t, "send")
    /\ UNCHANGED <<requests, link, ioVars, call, objectVars, handleVars, overlapped, unwaited>>

\* Mutant: mir_connection_release does not wait for the answer.
AfterSendNoWait(c) == IF c[1] = "release_surface" THEN "keep_handle"
                      ELSE IF c[1] = "disconnect" THEN "delete" ELSE "return"

AfterSend(c) == IF c[1] = "release_surface" THEN "keep_handle"
                ELSE IF c[1] = "disconnect" THEN "check" ELSE "return"

\* The thread returns from its call, or waits for it at once in a _sync
\* function.  select_focus gives it no handle to wait for later.
ReturnFrom(t) ==
    IF call[t] \in Sync
    THEN Goto(t, "check") /\ UNCHANGED <<call, id, unwaited>>
    ELSE /\ Goto(t, "idle")
         /\ call' = [call EXCEPT ![t] = NoCall]
         /\ id' = [id EXCEPT ![t] = 0]
         /\ unwaited' = IF call[t][1] = "select_focus" THEN unwaited
                        ELSE [unwaited EXCEPT ![t] = @ \cup {<<call[t], id[t]>>}]

\* send_message: the write fails, with nothing but a message in the log, when
\* the server is gone.
send_message(t) ==
    /\ pc[t] = "send"
    /\ requests' = IF link = "up" THEN Append(requests, id[t]) ELSE requests
    /\ IF AfterSend(call[t]) = "return" THEN ReturnFrom(t)
       ELSE Goto(t, AfterSend(call[t])) /\ UNCHANGED <<call, id, unwaited>>
    /\ UNCHANGED <<next_message_id, pending_calls, link, ioVars, objectVars, handleVars, overlapped>>

\* release_surface keeps the handle it returns for done_disconnect to delete.
KeepReleaseHandle(t) ==
    /\ pc[t] = "keep_handle"
    /\ release_handle' = [release_handle EXCEPT ![call[t][2]] = "kept"]
    /\ ReturnFrom(t)
    /\ UNCHANGED <<channelVars, ioVars, objectVars, expecting, received, overlapped>>

-----------------------------------------------------------------------------
(* MirWaitHandle *)

\* Mutant: the handle does not wait unless a result was expected.
WaitOnlyIfExpected(c) == received[c] < expecting[c]

MustWait(c) == (expecting[c] = 0 /\ received[c] = 0) \/ received[c] < expecting[c]

\* The handle of c is not gone with its surface or with the connection.
MayWait(t, c) ==
    /\ connection \in {"connecting", "connected"}
    /\ c[1] \in OnSurface \ {"release_surface"} =>
          surface[c[2]] \in {"creating", "live"} /\ ~InUse(t, c[2])

\* A thread waits for a call it made earlier, before or after others.
mir_wait_for(t) ==
    /\ pc[t] = "idle"
    /\ \E w \in unwaited[t] :
          /\ MayWait(t, w[1])
          /\ call' = [call EXCEPT ![t] = w[1]]
          /\ id' = [id EXCEPT ![t] = w[2]]
          /\ unwaited' = [unwaited EXCEPT ![t] = @ \ {w}]
    /\ Goto(t, "check")
    /\ UNCHANGED <<channelVars, ioVars, objectVars, handleVars, overlapped>>

\* wait_for_result tests its condition.  A spurious wakeup repeats the test.
wait_for_result(t) ==
    /\ pc[t] = "check"
    /\ IF MustWait(call[t])
       THEN Goto(t, "waiting") /\ UNCHANGED <<expecting, received, call, id>>
       ELSE /\ expecting' = [expecting EXCEPT ![call[t]] = 0]
            /\ received' = [received EXCEPT ![call[t]] = 0]
            /\ Goto(t, IF call[t][1] = "disconnect" THEN "delete" ELSE "idle")
            /\ call' = [call EXCEPT ![t] = NoCall]
            /\ id' = [id EXCEPT ![t] = 0]
    /\ UNCHANGED <<channelVars, ioVars, objectVars, release_handle, overlapped, unwaited>>

\* Mutant: nobody is notified.
WokenNobody(c) == pc

Woken(c) == [t \in App |-> IF pc[t] = "waiting" /\ call[t] = c THEN "check" ELSE pc[t]]

result_received(c) ==
    /\ received' = [received EXCEPT ![c] = @ + 1]
    /\ pc' = Woken(c)

-----------------------------------------------------------------------------
(* The io thread *)

\* on_header_read, read_message and the find of complete_response, on a reply
\* of the server.  A result nobody waits for is an orphan and is dropped.
\* receive_file_descriptors loops until ancil_recv_fds is content, as it is at
\* the end of the stream too: the callback runs whether or not they came.
ReadReply ==
    /\ io_pc = "idle" /\ requests # <<>>
    /\ requests' = Tail(requests)
    /\ IF Head(requests) \in DOMAIN pending_calls
       THEN /\ current' = Head(requests)
            /\ io_pc' = "callback"
       ELSE UNCHANGED <<current, io_pc>>
    /\ UNCHANGED <<next_message_id, pending_calls, link, threw, pc, call, id,
                   objectVars, handleVars, overlapped, unwaited>>

\* What the callbacks do to the objects before they notify their handle.
connected == connection' = "connected" /\ UNCHANGED <<surface, release_handle>>

created(s) ==
    /\ surface' = [surface EXCEPT ![s] = "live"]
    /\ UNCHANGED <<connection, release_handle>>

done_disconnect ==
    /\ release_handle' = [s \in Surface |-> IF release_handle[s] = "kept" THEN "deleted"
                                            ELSE release_handle[s]]
    /\ UNCHANGED <<connection, surface>>

\* The callback of the reply, the application's own included.  The one of
\* select_focus does nothing.
RunCallback ==
    LET c == pending_calls[current] IN
    /\ io_pc = "callback"
    /\ io_pc' = IF c[1] = "select_focus" THEN "erase" ELSE "notify"
    /\ \/ c[1] = "connect" /\ connected
       \/ c[1] = "create_surface" /\ created(c[2])
       \/ c[1] = "disconnect" /\ done_disconnect
       \/ /\ c[1] \notin {"connect", "create_surface", "disconnect"}
          /\ UNCHANGED <<connection, surface, release_handle>>
    /\ UNCHANGED <<channelVars, current, threw, pc, call, id, expecting, received, overlapped, unwaited>>

\* connected and created build platform objects, which may throw: read_message
\* catches it, the call stays in the cache and nobody is notified.
CallbackThrows ==
    /\ io_pc = "callback" /\ pending_calls[current][1] \in {"connect", "create_surface"}
    /\ threw' = threw \cup {pending_calls[current]}
    /\ io_pc' = "idle"
    /\ UNCHANGED <<channelVars, current, pc, call, id, objectVars, handleVars, overlapped, unwaited>>

\* An application's callback that makes a call waits for the mutex that its own
\* thread holds.
CallbackCalls ==
    /\ io_pc = "callback" /\ pending_calls[current][1] \in HasCallback
    /\ next_message_id < MaxCall
    /\ io_pc' = "stuck"
    /\ UNCHANGED <<channelVars, current, threw, pc, call, id, objectVars,
                   handleVars, overlapped, unwaited>>

Notify ==
    /\ io_pc = "notify"
    /\ result_received(pending_calls[current])
    /\ io_pc' = "erase"
    /\ UNCHANGED <<channelVars, current, threw, call, id, objectVars, expecting,
                   release_handle, overlapped, unwaited>>

\* The end of released(), and of complete_response.
Erase ==
    LET c == pending_calls[current] IN
    /\ io_pc = "erase"
    /\ surface' = IF c[1] = "release_surface" THEN [surface EXCEPT ![c[2]] = "deleted"] ELSE surface
    /\ pending_calls' = Restrict(pending_calls, DOMAIN pending_calls \ {current})
    /\ io_pc' = "idle" /\ current' = 0
    /\ UNCHANGED <<next_message_id, requests, link, threw, pc, call, id, connection, handleVars, overlapped, unwaited>>

\* The read of the next header fails: no read is started again.
Eof ==
    /\ io_pc = "idle" /\ link = "down" /\ requests = <<>>
    /\ io_pc' = "ended"
    /\ UNCHANGED <<channelVars, current, threw, pc, call, id, objectVars,
                   handleVars, overlapped, unwaited>>

-----------------------------------------------------------------------------
(* The end of mir_connection_release *)

\* The destructor of MirConnection: its members, but for the channel.
DeleteConnection(t) ==
    /\ pc[t] = "delete"
    /\ connection' = "deleted"
    /\ Goto(t, "join")
    /\ UNCHANGED <<channelVars, ioVars, call, id, surface, handleVars, overlapped, unwaited>>

\* The destructor of the channel stops the io_service, whose thread finishes
\* what it is doing, and joins it.
JoinIo(t) ==
    /\ pc[t] = "join" /\ cache_free
    /\ io_pc' = "joined" /\ link' = "down"
    /\ requests' = <<>> /\ pending_calls' = <<>>
    /\ Goto(t, "idle")
    /\ UNCHANGED <<next_message_id, current, threw, call, id, objectVars, handleVars,
                   overlapped, unwaited>>

-----------------------------------------------------------------------------
(* The server *)

\* The server goes away: the replies it has sent can still be read.
ServerDies ==
    /\ link = "up"
    /\ link' = "down"
    /\ \E n \in 0..Len(requests) : requests' = SubSeq(requests, 1, n)
    /\ UNCHANGED <<next_message_id, pending_calls, ioVars, pc, call, id, objectVars, handleVars,
                   overlapped, unwaited>>

-----------------------------------------------------------------------------

CallStep(t) == \/ save_completion_details(t) \/ send_message(t) \/ KeepReleaseHandle(t)
               \/ wait_for_result(t)
               \/ DeleteConnection(t) \/ JoinIo(t)

IoStep == \/ ReadReply \/ RunCallback \/ CallbackThrows \/ CallbackCalls \/ Notify \/ Erase \/ Eof

Next ==
    \/ \E t \in App : \/ \E c \in Makes[t] : Begin(t, c)
                      \/ mir_wait_for(t)
                      \/ CallStep(t)
    \/ ConnectFails \/ IoStep \/ ServerDies

Spec == Init /\ [][Next]_vars

\* Threads are scheduled; a server that is there answers.
FairSpec ==
    /\ Spec
    /\ \A t \in App : WF_vars(CallStep(t))
    /\ WF_vars(IoStep)

-----------------------------------------------------------------------------
(* Properties *)

\* The type of the state; an id is never used before it was handed out.
TypeOK ==
    /\ next_message_id \in Nat
    /\ DOMAIN pending_calls \subseteq 1..next_message_id
    /\ \A i \in DOMAIN pending_calls : pending_calls[i] \in Call
    /\ requests \in Seq(1..next_message_id)
    /\ link \in {"none", "up", "down"}
    /\ io_pc \in {"none", "idle", "callback", "stuck", "notify", "erase",
                  "ended", "joined"}
    /\ current \in 0..next_message_id
    /\ pc \in [App -> {"idle", "save", "send", "keep_handle", "check", "waiting",
                       "delete", "join"}]
    /\ call \in [App -> Call \cup {NoCall}]
    /\ id \in [App -> 0..next_message_id]
    /\ connection \in {"none", "error", "connecting", "connected", "disconnecting", "deleted"}
    /\ surface \in [Surface -> {"none", "creating", "live", "releasing", "deleted"}]
    /\ expecting \in [Call -> Nat] /\ received \in [Call -> Nat]
    /\ release_handle \in [Surface -> {"none", "kept", "deleted"}]
    /\ threw \subseteq Call /\ overlapped \subseteq Call
    /\ unwaited \in [App -> SUBSET (Call \X (0..next_message_id))]

\* The object a wait handle is part of still exists.
Alive(c) ==
    /\ c[1] \in OnConnection => connection # "deleted"
    /\ c[1] = "release_surface" => release_handle[c[2]] # "deleted"
    /\ c[1] \in OnSurface \ {"release_surface"} => surface[c[2]] # "deleted"

\* Neither a reply that is being completed nor a thread that is waiting touches
\* an object that has been deleted, whatever is still under way when surfaces
\* and the connection are released (mir_connection.cpp's released and
\* done_disconnect, mir_connection_release).
NothingDangles ==
    /\ io_pc \in {"callback", "notify"} => Alive(pending_calls[current])
    /\ \A t \in App : pc[t] \in {"check", "waiting"} => Alive(call[t])
    /\ connection = "deleted" => \A s \in Surface : release_handle[s] # "kept"

\* A wait ends only after the callback of the call it is for (the header's
\* "until the associated request has completed").  Without expect_result this
\* needs that no other call was made on the handle before its result was
\* taken; configure, which counts what it expects, does without.
WaitMeansCompleted ==
    [][\A t \in App :
         pc[t] = "check" /\ pc'[t] \notin {"check", "waiting"}
         => Completed(id[t]) \/ (call[t] \in overlapped /\ call[t][1] # "configure")]_vars

\* What keeps a wait from ending: a server that is gone, an io thread whose
\* callback made a call, a callback that threw, and a handle whose one result
\* was taken by another wait.
Hopeless(t) ==
    \/ call[t] \in overlapped
    \/ call[t] \in threw
    \/ ~Completed(id[t]) /\ (link = "down" \/ io_pc = "stuck")

Waiting(t) == pc[t] \in {"check", "waiting"}

\* Every other wait ends: no result comes between the test of the condition and
\* the wait (MirWaitHandle), and mir_connection_release gets its answer and
\* joins the io thread that gave it.
WaitReturns ==
    \A t \in App : /\ Waiting(t) ~> ~Waiting(t) \/ Hopeless(t)
                   /\ pc[t] = "delete" ~> io_pc = "joined"

\* What the server has been sent and the application not yet been told.
InFlight == (IF io_pc \in {"callback", "stuck", "notify"}
             THEN <<current>> ELSE <<>>) \o requests

RR == INSTANCE RequestReply WITH outstanding <- InFlight

\* The channel with its cache of pending calls, whichever threads use it,
\* completes the calls once each and in the order in which they were sent, and
\* no two calls under way have the same id.
CallsCompleteInOrder == RR!Spec
=============================================================================
