------------------------------ MODULE Frontend ------------------------------
(***************************************************************************)
(* The frontend: ProtobufSocketCommunicator runs a pool of io threads that *)
(* accept connections and handle messages.  Every connection has a         *)
(* SocketSession, kept alive by its entry in ConnectedSessions only: the   *)
(* handlers hold a bare pointer to it.  ProtobufMessageProcessor runs one  *)
(* operation of the SessionMediator per message and sends the reply, with  *)
(* the file descriptors of a resource kept in ResourceCache until then.    *)
(*                                                                         *)
(* A request for a buffer may block in the swapper and then keeps its io   *)
(* thread.  It goes on when the compositor renders the surface, or when    *)
(* DisplayServer goes down: compositor stopped, shell shut down (which     *)
(* frees a buffer of every surface, once), io_service stopped, threads     *)
(* joined, connections cleared.                                            *)
(*                                                                         *)
(* Clients are external and send whatever they like; a connection may      *)
(* break at any time, between two messages or within one.  The shell is    *)
(* SessionManager's: here it is the set of the sessions it holds.          *)
(***************************************************************************)
EXTENDS Naturals, Sequences, Functions

CONSTANTS Client,
          Thread,       \* io_service_threads
          Nobody,
          Buffers,      \* of a surface
          Fragile,      \* clients whose connection may break
          MaxUnderWay   \* bound: requests of each client that are not yet answered

ASSUME FrontendAssumption ==
    /\ Nobody \notin Client
    /\ Buffers \in Nat \ {0, 1} /\ Fragile \subseteq Client
    /\ MaxUnderWay \in [Client -> Nat]

VARIABLES link,                 \* of each client: none, up, broken
          requests,             \* those it has sent and that are not read
          connected_sessions,   \* clients whose SocketSession exists
          reading,              \* SocketSessions with an async_read under way
          session,              \* mediators that have a session
          surface,              \* sessions with a surface
          registered,           \* sessions the shell holds
          free,                 \* buffers in a surface's client_queue, while it has a client
          shown,                \* session whose surface is rendered
          pc, conn, kind,       \* each io thread: step, connection, request's method
          request,              \* and the request itself
          resources,            \* ResourceCache: clients for whose reply it keeps a resource
          main,                 \* where the main thread is
          late                  \* history: clients that got a buffer after the shell's shutdown

clientVars == <<link, requests>>
sessionVars == <<connected_sessions, reading>>
shellVars == <<session, surface, registered, free, shown>>
threadVars == <<pc, conn, kind, request, resources>>
vars == <<clientVars, sessionVars, shellVars, threadVars, main, late>>

\* Replies: with the descriptors of a resource (connect, create_surface and
\* next_buffer), to a disconnect, and others, errors among them.
Kind == {"descriptors", "plain", "disconnect"}

Init ==
    /\ link = [c \in Client |-> "none"]
    /\ requests = [c \in Client |-> <<>>]
    /\ connected_sessions = {} /\ reading = {}
    /\ session = {} /\ surface = {} /\ registered = {}
    /\ free = [c \in Client |-> Buffers]
    /\ shown = Nobody
    /\ pc = [t \in Thread |-> "idle"]
    /\ conn = [t \in Thread |-> Nobody]
    /\ kind = [t \in Thread |-> "plain"]
    /\ request = [t \in Thread |-> 0]
    /\ resources = {}
    /\ main = "running" /\ late = {}

Goto(t, step) == pc' = [pc EXCEPT ![t] = step]

Broken(c) == link[c] = "broken"

Handling(c) == {t \in Thread : conn[t] = c}
UnderWay(c) == Range(requests[c]) \cup {request[t] : t \in Handling(c)}
Id(c) == 1..MaxUnderWay[c]
NewId(c) == CHOOSE r \in Id(c) : r \notin UnderWay(c)

\* io_service::run has not been stopped and no exception has left it.
Running == main \notin {"joining", "done", "terminated"}

\* Thread t takes the next handler.  Idle threads are alike, and one of them is
\* as good as another.
Ready(t) == /\ Running /\ pc[t] = "idle"
            /\ t = CHOOSE u \in Thread : pc[u] = "idle"

-----------------------------------------------------------------------------
(* The clients and the rest of the server *)

\* A request has an id that none of those under way has.
Send(c) ==
    /\ link[c] = "up" /\ Id(c) \ UnderWay(c) # {}
    /\ requests' = [requests EXCEPT ![c] = Append(@, NewId(c))]
    /\ UNCHANGED <<link, sessionVars, shellVars, threadVars, main, late>>

\* What was sent can still be read.
Break(c) ==
    /\ link[c] = "up" /\ c \in Fragile
    /\ link' = [link EXCEPT ![c] = "broken"]
    /\ UNCHANGED <<requests, sessionVars, shellVars, threadVars, main, late>>

\* The focus moves, and with it what is rendered.
FocusChanges ==
    /\ shown' \in registered \ {shown}
    /\ UNCHANGED <<clientVars, sessionVars, session, surface, registered, free, threadVars, main, late>>

\* Mutant: the buffer is given back and the waiting client not told.
RenderWithoutNotify ==
    /\ main = "running" /\ shown \in surface
    /\ UNCHANGED vars

\* The compositor shows the oldest frame of the surface and gives the buffer back.
Render ==
    /\ main = "running" /\ shown \in surface
    /\ LET held == IF \E t \in Thread : conn[t] = shown /\ pc[t] = "advance" THEN 0 ELSE 1
       IN free[shown] + held < Buffers
    /\ free' = [free EXCEPT ![shown] = @ + 1]
    /\ UNCHANGED <<clientVars, sessionVars, session, surface, registered, shown, threadVars, main, late>>

-----------------------------------------------------------------------------
(* ProtobufSocketCommunicator and SocketSession *)

\* A client connects: on_new_connection, and the accept it starts again.
on_new_connection(t, c) ==
    /\ Ready(t) /\ link[c] = "none"
    /\ link' = [link EXCEPT ![c] = "up"]
    /\ connected_sessions' = connected_sessions \cup {c}
    /\ reading' = reading \cup {c}
    /\ UNCHANGED <<requests, shellVars, threadVars, main, late>>

\* connected_sessions->remove destroys the SocketSession, and with it the
\* socket, the processor and the mediator.  The shell keeps a session that is
\* not closed.
RemoveSession(c) ==
    /\ connected_sessions' = connected_sessions \ {c}
    /\ session' = session \ {c}
    /\ link' = [link EXCEPT ![c] = "broken"]
    /\ requests' = [requests EXCEPT ![c] = <<>>]
    /\ free' = [free EXCEPT ![c] = Buffers]

\* on_read_size with an error: there is nothing that it does.  The connection
\* broke between two messages.
HeaderReadFails(t, c) ==
    /\ Ready(t) /\ c \in reading /\ requests[c] = <<>> /\ Broken(c)
    /\ reading' = reading \ {c}
    /\ UNCHANGED <<clientVars, connected_sessions, shellVars, threadVars, main, late>>

\* on_new_message with an error, when the connection broke within a message: it
\* removes the session and throws out of io_service::run, and so out of the
\* thread, which terminates the server.
BodyReadFails(t, c) ==
    /\ Ready(t) /\ c \in reading /\ requests[c] = <<>> /\ Broken(c)
    /\ reading' = reading \ {c}
    /\ RemoveSession(c)
    /\ main' = "terminated"
    /\ UNCHANGED <<surface, registered, shown, threadVars, late>>

\* The end of on_new_message: the next message is read, or the session goes.
Finish(t, more) ==
    LET c == conn[t] IN
    /\ IF more THEN reading' = reading \cup {c} /\ UNCHANGED <<connected_sessions, session, clientVars, free>>
       ELSE RemoveSession(c) /\ UNCHANGED reading
    /\ Goto(t, "idle")
    /\ conn' = [conn EXCEPT ![t] = Nobody]
    /\ kind' = [kind EXCEPT ![t] = "plain"]
    /\ request' = [request EXCEPT ![t] = 0]

-----------------------------------------------------------------------------
(* SessionMediator *)

\* Thread t goes on for c with what is to end in reply k.
Continue(t, c, k, step) ==
    /\ Goto(t, step)
    /\ conn' = [conn EXCEPT ![t] = c]
    /\ kind' = [kind EXCEPT ![t] = k]

\* The operation has thrown: the reply is its error.
Fail(t, c) == Continue(t, c, "plain", "reply") /\ UNCHANGED resources

save_resource(c) == resources' = resources \cup {c}
free_resource(c) == resources' = resources \ {c}

\* open_session: the session is registered and, by the shell, given the focus.
open_session(c) ==
    /\ session' = session \cup {c}
    /\ registered' = registered \cup {c}
    /\ shown' = c

\* The session is opened; what follows may throw and leaves it open.  A client
\* connects once.
connect(t, c) ==
    /\ c \notin session
    /\ \/ open_session(c) /\ save_resource(c) /\ Continue(t, c, "descriptors", "reply")
       \/ open_session(c) /\ Fail(t, c)
       \/ UNCHANGED <<session, registered, shown>> /\ Fail(t, c)
    /\ UNCHANGED <<surface, free>>

\* create_surface_for, which gives the session the focus; the client's first
\* buffer comes next.  A client has one surface at a time.
create_surface(t, c) ==
    /\ c \notin surface
    /\ \/ /\ c \in session
          /\ surface' = surface \cup {c}
          /\ free' = [free EXCEPT ![c] = Buffers]
          /\ shown' = c
          /\ Continue(t, c, "descriptors", "advance") /\ UNCHANGED resources
       \/ Fail(t, c) /\ UNCHANGED <<surface, free, shown>>
    /\ UNCHANGED <<session, registered>>

\* A session or a surface that is not there is an error.
next_buffer(t, c) ==
    /\ IF c \in session \cap surface
       THEN Continue(t, c, "descriptors", "advance") /\ UNCHANGED resources
       ELSE Fail(t, c)
    /\ UNCHANGED shellVars

\* configure_surface, select_focus_by_lightdm_id and drm_auth_magic; and
\* release_surface, which destroys the surface.
other(t, c) ==
    /\ surface' \in {surface, surface \ {c}}
    /\ Continue(t, c, "plain", "reply")
    /\ UNCHANGED <<session, registered, free, shown, resources>>

\* close_session, after which the shell focuses another session, may throw.
disconnect(t, c) ==
    /\ \/ /\ c \in session
          /\ session' = session \ {c} /\ registered' = registered \ {c}
          /\ surface' = surface \ {c}
          /\ shown' \in IF registered' = {} THEN {Nobody} ELSE registered'
       \/ UNCHANGED <<session, registered, surface, shown>>
    /\ Continue(t, c, "disconnect", "reply")
    /\ UNCHANGED <<free, resources>>

\* advance_client_buffer, once there is a buffer, and the rest of the operation.
advance_client_buffer(t) ==
    LET c == conn[t] IN
    /\ pc[t] = "advance" /\ free[c] > 0
    /\ free' = [free EXCEPT ![c] = @ - 1]
    /\ save_resource(c)
    /\ Goto(t, "reply")
    /\ late' = IF main \in {"shutdown", "joining"} THEN late \cup {c} ELSE late
    /\ UNCHANGED <<clientVars, sessionVars, session, surface, registered, shown,
                   conn, kind, request, main>>

-----------------------------------------------------------------------------
(* ProtobufMessageProcessor *)

\* dispatch of a message with a method that it knows.
dispatch(t, c) ==
    \/ connect(t, c) \/ create_surface(t, c) \/ next_buffer(t, c)
    \/ other(t, c) \/ disconnect(t, c)

\* Mutant: the next message is read before this one has been processed.
ReadAhead(t, c) ==
    /\ Ready(t) /\ c \in reading /\ requests[c] # <<>>
    /\ requests' = [requests EXCEPT ![c] = Tail(@)]
    /\ request' = [request EXCEPT ![t] = Head(requests[c])]
    /\ dispatch(t, c)
    /\ UNCHANGED <<link, sessionVars, main, late>>

\* Mutant: the message stays in the buffer it has been read into.
MessageNotConsumed(t, c) ==
    /\ Ready(t) /\ c \in reading /\ requests[c] # <<>>
    /\ reading' = reading \ {c}
    /\ request' = [request EXCEPT ![t] = Head(requests[c])]
    /\ dispatch(t, c)
    /\ UNCHANGED <<clientVars, connected_sessions, main, late>>

\* on_read_size and on_new_message, up to where the operation waits or replies.
on_new_message(t, c) ==
    /\ Ready(t) /\ c \in reading /\ requests[c] # <<>>
    /\ requests' = [requests EXCEPT ![c] = Tail(@)]
    /\ reading' = reading \ {c}
    /\ request' = [request EXCEPT ![t] = Head(requests[c])]
    /\ dispatch(t, c)
    /\ UNCHANGED <<link, connected_sessions, main, late>>

\* A method that dispatch does not know: no reply, and the session goes.
UnknownMethod(t, c) ==
    /\ Ready(t) /\ c \in reading /\ requests[c] # <<>>
    /\ reading' = reading \ {c}
    /\ RemoveSession(c)
    /\ UNCHANGED <<surface, registered, shown, threadVars, main, late>>

\* Mutant: the resource is freed with the connection only.
ResourceNotFreed(t) ==
    /\ pc[t] = "reply"
    /\ Finish(t, ~Broken(conn[t]) /\ kind[t] # "disconnect")
    /\ UNCHANGED <<surface, registered, shown, resources, main, late>>

\* send_response: the message and the descriptors are sent and the resource is
\* freed; then the next message is read, but after a disconnect.  Writing to a
\* connection that is broken throws; so does sending the error that invoke
\* makes of it, and dispatch gives up: the resource is not freed.
send_response(t) ==
    /\ pc[t] = "reply"
    /\ IF Broken(conn[t]) THEN UNCHANGED resources ELSE free_resource(conn[t])
    /\ Finish(t, ~Broken(conn[t]) /\ kind[t] # "disconnect")
    /\ UNCHANGED <<surface, registered, shown, main, late>>

-----------------------------------------------------------------------------
(* DisplayServer *)

\* A signal has come: run() stops the compositor and returns.
StopCompositor ==
    /\ main = "running" /\ main' = "stopped"
    /\ UNCHANGED <<clientVars, sessionVars, shellVars, threadVars, late>>

\* Mutant: the waiting clients are woken and find no buffer.
ShutdownWithoutBuffer ==
    /\ main = "stopped" /\ main' = "shutdown"
    /\ UNCHANGED <<clientVars, sessionVars, shellVars, threadVars, late>>

\* ~DisplayServer: a buffer is made available to every client that has none.
ShellShutdown ==
    /\ main = "stopped" /\ main' = "shutdown"
    /\ free' = [c \in Client |-> IF c \in registered \cap surface /\ free[c] = 0 THEN 1 ELSE free[c]]
    /\ UNCHANGED <<clientVars, sessionVars, session, surface, registered, shown, threadVars, late>>

\* ~ProtobufSocketCommunicator.
StopIoService ==
    /\ main = "shutdown" /\ main' = "joining"
    /\ UNCHANGED <<clientVars, sessionVars, shellVars, threadVars, late>>

JoinThreads ==
    /\ main = "joining" /\ \A t \in Thread : pc[t] = "idle"
    /\ main' = "done"
    /\ connected_sessions' = {} /\ reading' = {} /\ session' = {}
    /\ link' = [c \in Client |-> "broken"]
    /\ requests' = [c \in Client |-> <<>>]
    /\ free' = [c \in Client |-> Buffers]
    /\ UNCHANGED <<surface, registered, shown, threadVars, late>>

-----------------------------------------------------------------------------

\* A thread goes on with the message it has.
Process(t) ==
    /\ main # "terminated"
    /\ advance_client_buffer(t) \/ send_response(t)

Accept == \E t \in Thread, c \in Client : on_new_connection(t, c)
Receive(c) == \E t \in Thread : \/ on_new_message(t, c) \/ UnknownMethod(t, c)
                                \/ HeaderReadFails(t, c) \/ BodyReadFails(t, c)
MainStep == ShellShutdown \/ StopIoService \/ JoinThreads

Next ==
    \/ \E c \in Client : Send(c) \/ Break(c) \/ Receive(c)
    \/ \E t \in Thread : Process(t)
    \/ Accept \/ FocusChanges \/ Render \/ StopCompositor \/ MainStep

Spec == Init /\ [][Next]_vars

\* Threads are scheduled and the io_service forgets no socket that is ready
\* when a thread is; the compositor renders what is shown.
FairSpec ==
    /\ Spec
    /\ \A c \in Client : SF_vars(Receive(c))
    /\ \A t \in Thread : WF_vars(Process(t))
    /\ WF_vars(Render) /\ WF_vars(MainStep)

-----------------------------------------------------------------------------
(* Properties *)

\* The type of the state; a thread has a request exactly while it has a
\* connection, one of those its client may have under way.
TypeOK ==
    /\ link \in [Client -> {"none", "up", "broken"}]
    /\ requests \in [Client -> Seq(Nat)] /\ \A c \in Client : requests[c] \in Seq(Id(c))
    /\ connected_sessions \subseteq Client /\ reading \subseteq Client
    /\ session \subseteq Client /\ surface \subseteq Client /\ registered \subseteq Client
    /\ free \in [Client -> 0..Buffers]
    /\ shown \in Client \cup {Nobody}
    /\ pc \in [Thread -> {"idle", "advance", "reply"}]
    /\ conn \in [Thread -> Client \cup {Nobody}]
    /\ kind \in [Thread -> Kind]
    /\ request \in [Thread -> Nat]
    /\ \A t \in Thread : IF conn[t] = Nobody THEN request[t] = 0 ELSE request[t] \in Id(conn[t])
    /\ resources \subseteq Client /\ late \subseteq Client
    /\ main \in {"running", "stopped", "shutdown", "joining", "done", "terminated"}

\* A SocketSession has one handler or one read under way, never both, and only
\* while its entry in ConnectedSessions keeps it alive; an entry that has
\* neither is one of a broken connection (on_read_size ignores the error).
SessionsAreDriven ==
    \A c \in Client :
        /\ \A t \in Handling(c) : Handling(c) = {t} /\ c \notin reading
        /\ c \in reading \/ Handling(c) # {} => c \in connected_sessions
        /\ c \in connected_sessions => c \in reading \/ Handling(c) # {} \/ Broken(c)

\* A resource stays in the cache after its message has been handled only if the
\* connection broke before the reply could be sent: free_resource comes after
\* the send that throws.
ResourcesFollowReplies == \A c \in resources : Handling(c) # {} \/ Broken(c)

\* The requests of a client that is there, from the one being handled on.
Outstanding(c) ==
    IF link[c] # "up" \/ c \notin connected_sessions THEN <<>>
    ELSE (IF Handling(c) = {} THEN <<>> ELSE <<request[CHOOSE t \in Handling(c) : TRUE]>>)
         \o requests[c]

RR(c) == INSTANCE RequestReply WITH outstanding <- Outstanding(c)

\* On every connection the io threads between them give one reply to every
\* request, in order, until the connection ends.
RepliesInOrder ==
    /\ \A c \in Client : RR(c)!Init
    /\ [][\A c \in Client : [RR(c)!Next]_(Outstanding(c))]_vars

WaitsForBuffer(t) == pc[t] = "advance" /\ free[conn[t]] = 0

\* What may keep a client waiting: it is not the one that is shown and there is
\* no buffer for it, or such clients hold every io thread, or the server stops.
Excused(c) == \/ \E t \in Handling(c) : WaitsForBuffer(t) /\ shown # c
              \/ \A t \in Thread : WaitsForBuffer(t)
              \/ main # "running"

\* A client's request is taken up by an io thread and its reply sent, or the
\* connection ends.
RequestsAnswered ==
    \A c \in Client :
        /\ c \in reading /\ requests[c] # <<>>
             ~> Handling(c) # {} \/ c \notin connected_sessions \/ Excused(c)
        /\ Handling(c) # {} ~> Handling(c) = {} \/ Excused(c)

\* A thread waits for a buffer after the shell has been shut down: its client
\* got one since then and has asked for another.
Stranded == \E t \in Thread : WaitsForBuffer(t) /\ conn[t] \in late

\* A server that is told to stop joins its threads, also those that were
\* waiting for a buffer: BufferSwapperMulti::shutdown lets each of them go on,
\* but only once.
ServerStops == main = "stopped" ~> main \in {"done", "terminated"} \/ Stranded
=============================================================================
