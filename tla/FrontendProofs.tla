---------------------------- MODULE FrontendProofs ----------------------------
(***************************************************************************)
(* Proofs about the frontend, for any number of clients and io threads:    *)
(* the lifetime of SocketSessions and of cached resources, and that every  *)
(* connection is a request-reply channel.                                  *)
(***************************************************************************)
EXTENDS Frontend, SequenceTheorems, TLAPS

\* A thread has a connection exactly while it handles a message, and then it
\* is past the point where it could be taken for another one.
BusyThreads == \A t \in Thread : conn[t] = Nobody <=> pc[t] = "idle"

\* A SocketSession is made for a new connection; nothing can have been sent on
\* a connection that has not been made.
SessionsHaveLinks ==
    \A c \in Client : /\ c \in connected_sessions => link[c] # "none"
                      /\ link[c] = "none" => requests[c] = <<>>

IInv ==
    /\ TypeOK
    /\ BusyThreads
    /\ SessionsHaveLinks
    /\ SessionsAreDriven
    /\ ResourcesFollowReplies

-----------------------------------------------------------------------------

\* The id of a new request is one of the client's, and of none under way.
LEMMA NewIdIsNew ==
    ASSUME NEW c \in Client, Id(c) \ UnderWay(c) # {}
    PROVE  NewId(c) \in Id(c) /\ NewId(c) \notin UnderWay(c)
  BY DEF NewId

\* Ids are numbers.
LEMMA IdsAreNumbers == \A c \in Client : Id(c) \subseteq Nat
  BY FrontendAssumption DEF Id

\* An idle thread that takes a message up becomes a handler of its connection,
\* and of no other.
LEMMA HandlingBegins ==
    ASSUME TypeOK, BusyThreads, NEW t \in Thread, pc[t] = "idle", NEW c \in Client,
           conn' = [conn EXCEPT ![t] = c]
    PROVE  /\ Handling(c)' = Handling(c) \cup {t}
           /\ \A d \in Client \ {c} : Handling(d)' = Handling(d)
  BY FrontendAssumption DEF TypeOK, BusyThreads, Handling

\* A thread that has replied handles its connection no more.
LEMMA HandlingEnds ==
    ASSUME TypeOK, NEW t \in Thread, NEW c \in Client, conn[t] = c,
           conn' = [conn EXCEPT ![t] = Nobody]
    PROVE  /\ t \in Handling(c)
           /\ Handling(c)' = Handling(c) \ {t}
           /\ \A d \in Client \ {c} : Handling(d)' = Handling(d)
  BY FrontendAssumption DEF TypeOK, Handling

-----------------------------------------------------------------------------
(* The invariant *)

\* Nothing is connected at first.
LEMMA InitInvariant == Init => IInv
  <1> SUFFICES ASSUME Init PROVE IInv
    OBVIOUS
  <1>1. TypeOK
    BY FrontendAssumption DEF Init, TypeOK, Kind
  <1>2. \A c \in Client : Handling(c) = {}
    BY FrontendAssumption DEF Init, Handling
  <1> QED
    BY <1>1, <1>2 DEF Init, IInv, BusyThreads, SessionsHaveLinks, SessionsAreDriven,
                      ResourcesFollowReplies

\* A client sends a request.
LEMMA SendInvariant ==
    ASSUME IInv, NEW c \in Client, Send(c)
    PROVE  IInv'
  <1> USE DEF Send, sessionVars, shellVars, threadVars
  <1>1. NewId(c) \in Id(c) /\ Id(c) \subseteq Nat
    BY NewIdIsNew, IdsAreNumbers
  <1>2. TypeOK'
    <2>1. requests' \in [Client -> Seq(Nat)]
      BY <1>1 DEF IInv, TypeOK
    <2>2. \A d \in Client : requests'[d] \in Seq(Id(d))
      BY <1>1 DEF IInv, TypeOK
    <2> QED
      BY <2>1, <2>2 DEF IInv, TypeOK, Id
  <1>3. BusyThreads' /\ SessionsHaveLinks' /\ SessionsAreDriven' /\ ResourcesFollowReplies'
    BY DEF IInv, TypeOK, BusyThreads, SessionsHaveLinks, SessionsAreDriven,
           ResourcesFollowReplies, Handling, Broken
  <1> QED
    BY <1>2, <1>3 DEF IInv

\* A connection breaks, the focus moves, a frame is shown, or the server stops
\* up to joining its threads: no session changes hands.
LEMMA EnvironmentInvariant ==
    ASSUME IInv,
           \/ \E c \in Client : Break(c)
           \/ FocusChanges \/ Render \/ StopCompositor \/ ShellShutdown \/ StopIoService
    PROVE  IInv'
  <1>1. /\ UNCHANGED <<requests, connected_sessions, reading, session, surface, registered, pc,
                       conn, kind, request, resources, late>>
        /\ link' \in [Client -> {"none", "up", "broken"}]
        /\ \A c \in Client : /\ link'[c] = "none" <=> link[c] = "none"
                             /\ Broken(c) => Broken(c)'
    BY DEF IInv, TypeOK, Break, FocusChanges, Render, StopCompositor, ShellShutdown,
           StopIoService, clientVars, sessionVars, shellVars, threadVars, Broken
  <1>2. /\ shown' \in Client \cup {Nobody}
        /\ main' \in {"running", "stopped", "shutdown", "joining", "done", "terminated"}
    BY DEF IInv, TypeOK, Break, FocusChanges, Render, StopCompositor, ShellShutdown,
           StopIoService, shellVars
  <1>3. free' \in [Client -> 0..Buffers]
    <2>1. CASE Render
      <3>1. shown \in Client /\ free[shown] \in 0..Buffers
        BY <2>1 DEF IInv, TypeOK, Render
      <3>2. free[shown] + 1 \in 0..Buffers
        BY <2>1, <3>1, FrontendAssumption DEF Render
      <3> QED
        BY <2>1, <3>1, <3>2 DEF IInv, TypeOK, Render
    <2>2. CASE ShellShutdown
      BY <2>2, FrontendAssumption DEF IInv, TypeOK, ShellShutdown
    <2>3. CASE ~ Render /\ ~ ShellShutdown
      BY <2>3 DEF IInv, TypeOK, Break, FocusChanges, StopCompositor, StopIoService, shellVars
    <2> QED
      BY <2>1, <2>2, <2>3
  <1>4. TypeOK'
    BY <1>1, <1>2, <1>3 DEF IInv, TypeOK, Id
  <1>5. BusyThreads' /\ SessionsHaveLinks'
    BY <1>1 DEF IInv, BusyThreads, SessionsHaveLinks
  <1>6. \A c \in Client : Handling(c)' = Handling(c)
    BY <1>1 DEF Handling
  <1>7. SessionsAreDriven' /\ ResourcesFollowReplies'
    BY <1>1, <1>6 DEF IInv, TypeOK, SessionsAreDriven, ResourcesFollowReplies
  <1> QED
    BY <1>4, <1>5, <1>7 DEF IInv

\* A SocketSession is made and begins to read.
LEMMA ConnectionInvariant ==
    ASSUME IInv, NEW t \in Thread, NEW c \in Client, on_new_connection(t, c)
    PROVE  IInv'
  <1> USE DEF on_new_connection, shellVars, threadVars
  <1>1. TypeOK'
    BY DEF IInv, TypeOK, Id
  <1>2. BusyThreads' /\ SessionsHaveLinks'
    BY DEF IInv, TypeOK, BusyThreads, SessionsHaveLinks
  <1>3. SessionsAreDriven'
    BY DEF IInv, TypeOK, SessionsHaveLinks, SessionsAreDriven, Handling, Broken
  <1>4. ResourcesFollowReplies'
    BY DEF IInv, TypeOK, ResourcesFollowReplies, Handling, Broken
  <1> QED
    BY <1>1, <1>2, <1>3, <1>4 DEF IInv

\* A SocketSession is destroyed with what belongs to it.
LEMMA RemoveSessionType ==
    ASSUME TypeOK, NEW c \in Client, RemoveSession(c)
    PROVE  /\ link' \in [Client -> {"none", "up", "broken"}]
           /\ requests' \in [Client -> Seq(Nat)]
           /\ \A d \in Client : requests'[d] \in Seq(Id(d))
           /\ connected_sessions' \subseteq Client /\ session' \subseteq Client
           /\ free' \in [Client -> 0..Buffers]
  <1> USE DEF RemoveSession, TypeOK
  <1>1. <<>> \in Seq(Nat) /\ <<>> \in Seq(Id(c))
    OBVIOUS
  <1>2. Buffers \in 0..Buffers
    BY FrontendAssumption
  <1>3. requests' \in [Client -> Seq(Nat)]
    BY <1>1
  <1>4. \A d \in Client : requests'[d] \in Seq(Id(d))
    BY <1>1
  <1>5. free' \in [Client -> 0..Buffers]
    BY <1>2
  <1> QED
    BY <1>3, <1>4, <1>5

\* A SocketSession that no thread handles stops reading: its connection broke
\* between two messages or within one, or its message has an unknown method.
LEMMA ReadEndsInvariant ==
    ASSUME IInv, NEW t \in Thread, NEW c \in Client,
           HeaderReadFails(t, c) \/ BodyReadFails(t, c) \/ UnknownMethod(t, c)
    PROVE  IInv'
  <1>1. TypeOK'
    <2>1. CASE HeaderReadFails(t, c)
      BY <2>1 DEF HeaderReadFails, IInv, TypeOK, Id, clientVars, shellVars, threadVars
    <2>2. CASE BodyReadFails(t, c) \/ UnknownMethod(t, c)
      <3>1. RemoveSession(c) /\ TypeOK
        BY <2>2 DEF IInv, BodyReadFails, UnknownMethod
      <3>2. /\ link' \in [Client -> {"none", "up", "broken"}]
            /\ requests' \in [Client -> Seq(Nat)]
            /\ \A d \in Client : requests'[d] \in Seq(Id(d))
            /\ connected_sessions' \subseteq Client /\ session' \subseteq Client
            /\ free' \in [Client -> 0..Buffers]
        BY <3>1, RemoveSessionType
      <3>3. /\ UNCHANGED <<surface, registered, shown, threadVars, late>>
            /\ reading' = reading \ {c} /\ main' \in {main, "terminated"}
        BY <2>2 DEF BodyReadFails, UnknownMethod
      <3> QED
        BY <3>1, <3>2, <3>3 DEF TypeOK, Id, threadVars
    <2> QED
      BY <2>1, <2>2
  <1>2. /\ UNCHANGED <<conn, pc, resources>>
        /\ reading' = reading \ {c}
        /\ c \in reading
        /\ connected_sessions' \in {connected_sessions, connected_sessions \ {c}}
        /\ connected_sessions' = connected_sessions => Broken(c)
        /\ link' \in {link, [link EXCEPT ![c] = "broken"]}
        /\ requests' \in {requests, [requests EXCEPT ![c] = <<>>]}
    BY DEF HeaderReadFails, BodyReadFails, UnknownMethod, RemoveSession, clientVars, shellVars,
           threadVars, IInv, SessionsAreDriven
  <1>3. BusyThreads' /\ SessionsHaveLinks'
    BY <1>2 DEF IInv, TypeOK, BusyThreads, SessionsHaveLinks
  <1>4. \A d \in Client : Handling(d)' = Handling(d)
    BY <1>2 DEF Handling
  <1>5. SessionsAreDriven'
    BY <1>2, <1>4 DEF IInv, TypeOK, SessionsAreDriven, Broken
  <1>6. ResourcesFollowReplies'
    BY <1>2, <1>4 DEF IInv, TypeOK, ResourcesFollowReplies, Broken
  <1> QED
    BY <1>1, <1>3, <1>5, <1>6 DEF IInv

\* dispatch keeps the shell's and the mediators' state well typed, and leaves
\* the thread with a connection and past its idle state.
LEMMA DispatchEffect ==
    ASSUME TypeOK, NEW t \in Thread, NEW c \in Client, dispatch(t, c)
    PROVE  /\ session' \subseteq Client /\ surface' \subseteq Client /\ registered' \subseteq Client
           /\ free' \in [Client -> 0..Buffers]
           /\ shown' \in Client \cup {Nobody}
           /\ pc' \in [Thread -> {"idle", "advance", "reply"}] /\ pc'[t] # "idle"
           /\ \A u \in Thread \ {t} : pc'[u] = pc[u]
           /\ conn' = [conn EXCEPT ![t] = c]
           /\ kind' \in [Thread -> Kind]
           /\ resources' \in {resources, resources \cup {c}}
  <1> USE DEF TypeOK, Continue, Goto, Kind
  <1>1. CASE connect(t, c)
    BY <1>1 DEF connect, open_session, Fail, save_resource
  <1>2. CASE create_surface(t, c)
    <2>1. Buffers \in 0..Buffers
      BY FrontendAssumption
    <2> QED
      BY <1>2, <2>1 DEF create_surface, Fail
  <1>3. CASE next_buffer(t, c)
    BY <1>3 DEF next_buffer, Fail, shellVars
  <1>4. CASE other(t, c)
    BY <1>4 DEF other
  <1>5. CASE disconnect(t, c)
    BY <1>5 DEF disconnect
  <1> QED
    BY <1>1, <1>2, <1>3, <1>4, <1>5 DEF dispatch

\* A message is read and its handling begins: from then on the handler, and no
\* read, is what drives the session.
LEMMA MessageInvariant ==
    ASSUME IInv, NEW t \in Thread, NEW c \in Client, on_new_message(t, c)
    PROVE  IInv'
  <1> USE DEF on_new_message
  <1>0. /\ TypeOK /\ BusyThreads
        /\ pc[t] = "idle" /\ conn[t] = Nobody
        /\ dispatch(t, c)
    BY DEF IInv, BusyThreads, Ready
  <1>1. /\ session' \subseteq Client /\ surface' \subseteq Client /\ registered' \subseteq Client
        /\ free' \in [Client -> 0..Buffers]
        /\ shown' \in Client \cup {Nobody}
        /\ pc' \in [Thread -> {"idle", "advance", "reply"}] /\ pc'[t] # "idle"
        /\ \A u \in Thread \ {t} : pc'[u] = pc[u]
        /\ conn' = [conn EXCEPT ![t] = c]
        /\ kind' \in [Thread -> Kind]
        /\ resources' \in {resources, resources \cup {c}}
    BY <1>0, DispatchEffect
  <1>2. /\ Handling(c)' = Handling(c) \cup {t}
        /\ \A d \in Client \ {c} : Handling(d)' = Handling(d)
    BY <1>0, <1>1, HandlingBegins
  <1>3. TypeOK'
    <2>1. Head(requests[c]) \in Id(c) /\ Tail(requests[c]) \in Seq(Id(c)) /\ Id(c) \subseteq Nat
      BY <1>0, IdsAreNumbers DEF TypeOK
    <2>2. /\ requests' \in [Client -> Seq(Nat)]
          /\ \A d \in Client : requests'[d] \in Seq(Id(d))
      BY <1>0, <2>1 DEF TypeOK
    <2>3. /\ request' \in [Thread -> Nat]
          /\ \A u \in Thread : IF conn'[u] = Nobody THEN request'[u] = 0
                               ELSE request'[u] \in Id(conn'[u])
      BY <1>0, <1>1, <2>1, FrontendAssumption DEF TypeOK
    <2>4. conn' \in [Thread -> Client \cup {Nobody}] /\ resources' \subseteq Client
      BY <1>0, <1>1 DEF TypeOK
    <2> QED
      BY <1>0, <1>1, <2>2, <2>3, <2>4 DEF TypeOK, Id
  <1>4. BusyThreads'
    BY <1>0, <1>1, FrontendAssumption DEF TypeOK, BusyThreads
  <1>5. SessionsHaveLinks'
    BY <1>0 DEF IInv, TypeOK, SessionsHaveLinks
  <1>6. SessionsAreDriven'
    <2>1. Handling(c) = {}
      BY DEF IInv, SessionsAreDriven
    <2> QED
      BY <1>2, <2>1 DEF IInv, SessionsAreDriven, Broken
  <1>7. ResourcesFollowReplies'
    BY <1>1, <1>2 DEF IInv, TypeOK, ResourcesFollowReplies, Broken
  <1> QED
    BY <1>3, <1>4, <1>5, <1>6, <1>7 DEF IInv

\* The operation gets its buffer, and with it a resource for the reply.
LEMMA AdvanceInvariant ==
    ASSUME IInv, NEW t \in Thread, advance_client_buffer(t)
    PROVE  IInv'
  <1> USE DEF advance_client_buffer, clientVars, sessionVars
  <1>1. conn[t] \in Client /\ free[conn[t]] \in 0..Buffers /\ free[conn[t]] > 0
    BY DEF IInv, TypeOK, BusyThreads
  <1>2. TypeOK'
    <2>1. free' \in [Client -> 0..Buffers]
      BY <1>1, FrontendAssumption DEF IInv, TypeOK
    <2> QED
      BY <1>1, <2>1 DEF IInv, TypeOK, Id, Goto, save_resource
  <1>3. BusyThreads' /\ SessionsHaveLinks' /\ SessionsAreDriven' /\ ResourcesFollowReplies'
    BY <1>1 DEF IInv, TypeOK, BusyThreads, SessionsHaveLinks, SessionsAreDriven,
                ResourcesFollowReplies, Handling, Broken, Goto, save_resource
  <1> QED
    BY <1>2, <1>3 DEF IInv

\* The reply is sent and the session reads on, or the session goes.
LEMMA ResponseInvariant ==
    ASSUME IInv, NEW t \in Thread, send_response(t)
    PROVE  IInv'
  <1>0. PICK c \in Client : c = conn[t] /\ c # Nobody
    BY DEF IInv, TypeOK, BusyThreads, send_response
  <1>a. /\ conn' = [conn EXCEPT ![t] = Nobody]
        /\ pc' = [pc EXCEPT ![t] = "idle"]
    BY DEF send_response, Finish, Goto
  <1>1. /\ Handling(c) = {t} /\ c \notin reading /\ c \in connected_sessions
        /\ Handling(c)' = {}
        /\ \A d \in Client \ {c} : Handling(d)' = Handling(d)
    <2>1. /\ t \in Handling(c)
          /\ Handling(c)' = Handling(c) \ {t}
          /\ \A d \in Client \ {c} : Handling(d)' = Handling(d)
      BY <1>0, <1>a, HandlingEnds DEF IInv
    <2>2. Handling(c) = {t} /\ c \notin reading /\ c \in connected_sessions
      BY <2>1 DEF IInv, SessionsAreDriven
    <2> QED
      BY <2>1, <2>2
  <1>2. TypeOK'
    <2>1. /\ requests' \in [Client -> Seq(Nat)]
          /\ \A d \in Client : requests'[d] \in Seq(Id(d))
          /\ free' \in [Client -> 0..Buffers]
          /\ link' \in [Client -> {"none", "up", "broken"}]
          /\ connected_sessions' \subseteq Client /\ session' \subseteq Client
          /\ reading' \subseteq Client
      BY <1>0, RemoveSessionType DEF IInv, TypeOK, send_response, Finish, clientVars
    <2>2. /\ request' \in [Thread -> Nat]
          /\ \A u \in Thread : IF conn'[u] = Nobody THEN request'[u] = 0
                               ELSE request'[u] \in Id(conn'[u])
      BY <1>a DEF IInv, TypeOK, send_response, Finish
    <2>3. /\ UNCHANGED <<surface, registered, shown, main, late>>
          /\ kind' = [kind EXCEPT ![t] = "plain"]
          /\ resources' \subseteq resources
      BY DEF send_response, Finish, free_resource
    <2> QED
      BY <1>a, <2>1, <2>2, <2>3 DEF IInv, TypeOK, Id, Kind
  <1>3. BusyThreads'
    BY <1>a DEF IInv, TypeOK, BusyThreads
  <1>4. \/ /\ reading' = reading \cup {c} /\ ~ Broken(c) /\ resources' = resources \ {c}
           /\ UNCHANGED <<connected_sessions, requests, link>>
        \/ /\ UNCHANGED reading
           /\ connected_sessions' = connected_sessions \ {c}
           /\ link' = [link EXCEPT ![c] = "broken"]
           /\ requests' = [requests EXCEPT ![c] = <<>>]
           /\ resources' \in {resources, resources \ {c}}
    BY <1>0 DEF send_response, Finish, RemoveSession, clientVars, free_resource
  <1>5. SessionsHaveLinks'
    BY <1>0, <1>4 DEF IInv, TypeOK, SessionsHaveLinks
  <1>6. SessionsAreDriven'
    BY <1>0, <1>1, <1>4 DEF IInv, TypeOK, SessionsAreDriven, Broken
  <1>7. ResourcesFollowReplies'
    BY <1>0, <1>1, <1>4 DEF IInv, TypeOK, ResourcesFollowReplies, Broken
  <1> QED
    BY <1>2, <1>3, <1>5, <1>6, <1>7 DEF IInv

\* The threads are joined and the connections cleared.
LEMMA JoinInvariant ==
    ASSUME IInv, JoinThreads
    PROVE  IInv'
  <1> USE DEF JoinThreads, threadVars
  <1>1. TypeOK'
    BY FrontendAssumption DEF IInv, TypeOK, Id
  <1>2. \A c \in Client : Handling(c)' = {}
    BY FrontendAssumption DEF IInv, BusyThreads, Handling
  <1>3. BusyThreads' /\ SessionsHaveLinks' /\ SessionsAreDriven' /\ ResourcesFollowReplies'
    BY <1>2 DEF IInv, TypeOK, BusyThreads, SessionsHaveLinks, SessionsAreDriven,
                ResourcesFollowReplies, Broken
  <1> QED
    BY <1>1, <1>3 DEF IInv

\* Every step of the clients, the io threads and the main thread preserves the
\* invariant.
LEMMA NextInvariant == IInv /\ [Next]_vars => IInv'
  <1> SUFFICES ASSUME IInv, [Next]_vars PROVE IInv'
    OBVIOUS
  <1>1. CASE \E c \in Client : Send(c)
    BY <1>1, SendInvariant
  <1>2. CASE \E c \in Client : Receive(c)
    BY <1>2, MessageInvariant, ReadEndsInvariant DEF Receive
  <1>3. CASE \E t \in Thread : Process(t)
    BY <1>3, AdvanceInvariant, ResponseInvariant DEF Process
  <1>4. CASE Accept
    BY <1>4, ConnectionInvariant DEF Accept
  <1>5. CASE JoinThreads
    BY <1>5, JoinInvariant
  <1>6. CASE (\E c \in Client : Break(c)) \/ FocusChanges \/ Render \/ StopCompositor
               \/ ShellShutdown \/ StopIoService
    BY <1>6, EnvironmentInvariant
  <1>7. CASE UNCHANGED vars
    BY <1>7 DEF vars, clientVars, sessionVars, shellVars, threadVars, IInv, TypeOK, Id,
                BusyThreads, SessionsHaveLinks, SessionsAreDriven, ResourcesFollowReplies,
                Handling, Broken
  <1> QED
    BY <1>1, <1>2, <1>3, <1>4, <1>5, <1>6, <1>7 DEF Next, MainStep

-----------------------------------------------------------------------------
(* What the frontend promises *)

\* The inductive invariant holds in every reachable state.
THEOREM Invariance == Spec => []IInv
  BY InitInvariant, NextInvariant, PTL DEF Spec

\* The state of the frontend is well typed; a thread has a request exactly
\* while it has a connection.
THEOREM TypeCorrect == Spec => []TypeOK
  <1>1. IInv => TypeOK
    BY DEF IInv
  <1> QED
    BY <1>1, Invariance, PTL

\* The bare pointer to a SocketSession that a handler or a read has is valid,
\* and no session is handled by two threads or read while it is handled.
THEOREM HandlersHaveSessions == Spec => []SessionsAreDriven
  <1>1. IInv => SessionsAreDriven
    BY DEF IInv
  <1> QED
    BY <1>1, Invariance, PTL

\* ResourceCache grows only by connections that broke before a reply.
THEOREM ResourcesAreFreed == Spec => []ResourcesFollowReplies
  <1>1. IInv => ResourcesFollowReplies
    BY DEF IInv
  <1> QED
    BY <1>1, Invariance, PTL

-----------------------------------------------------------------------------
(* Every connection is a request-reply channel *)

\* The first of a queue of requests is taken off it.
LEMMA TakeFirst ==
    ASSUME NEW s \in Seq(Nat), NEW r \in Nat
    PROVE  /\ <<r>> \o s \in Seq(Nat) /\ <<r>> \o s # <<>>
           /\ Tail(<<r>> \o s) = s
           /\ s # <<>> => <<Head(s)>> \o Tail(s) = s
           /\ \A n \in Nat : Append(<<r>> \o s, n) = <<r>> \o Append(s, n)
  <1>1. <<r>> \o s \in Seq(Nat) /\ <<r>> \o s # <<>>
    OBVIOUS
  <1>2. Tail(<<r>> \o s) = s
    OBVIOUS
  <1>3. s # <<>> => <<Head(s)>> \o Tail(s) = s
    OBVIOUS
  <1>4. \A n \in Nat : Append(<<r>> \o s, n) = <<r>> \o Append(s, n)
    OBVIOUS
  <1> QED
    BY <1>1, <1>2, <1>3, <1>4

\* The request being handled comes before those that wait.
LEMMA OutstandingIs ==
    ASSUME IInv, NEW c \in Client, link[c] = "up", c \in connected_sessions
    PROVE  /\ Handling(c) = {} => Outstanding(c) = requests[c]
           /\ \A t \in Handling(c) : /\ Outstanding(c) = <<request[t]>> \o requests[c]
                                     /\ request[t] \in Nat
           /\ requests[c] \in Seq(Nat) /\ Outstanding(c) \in Seq(Nat)
  <1>1. requests[c] \in Seq(Nat) /\ \A t \in Handling(c) : request[t] \in Nat
    BY DEF IInv, TypeOK, Handling
  <1>2. Handling(c) = {} => Outstanding(c) = requests[c]
    BY <1>1 DEF Outstanding
  <1>3. ASSUME NEW t \in Handling(c) PROVE Outstanding(c) = <<request[t]>> \o requests[c]
    <2>1. Handling(c) = {t}
      BY DEF IInv, SessionsAreDriven
    <2>2. (CHOOSE u \in Handling(c) : TRUE) = t
      BY <2>1
    <2> QED
      BY <2>1, <2>2 DEF Outstanding
  <1> QED
    BY <1>1, <1>2, <1>3, TakeFirst

\* What a client has outstanding is a sequence of requests.
LEMMA OutstandingType ==
    ASSUME IInv, NEW c \in Client
    PROVE  Outstanding(c) \in Seq(Nat)
  <1>1. CASE link[c] = "up" /\ c \in connected_sessions
    BY <1>1, OutstandingIs
  <1>2. CASE ~ (link[c] = "up" /\ c \in connected_sessions)
    BY <1>2 DEF Outstanding
  <1> QED
    BY <1>1, <1>2

\* A step that neither touches a client's connection nor the thread that
\* handles it leaves its requests as they are.
LEMMA OthersKeepRequests ==
    ASSUME NEW c \in Client,
           link'[c] = link[c], requests'[c] = requests[c],
           c \in connected_sessions' <=> c \in connected_sessions,
           Handling(c)' = Handling(c), \A t \in Handling(c) : request'[t] = request[t]
    PROVE  Outstanding(c)' = Outstanding(c)
  <1>1. CASE Handling(c) = {}
    BY <1>1 DEF Outstanding
  <1>2. CASE Handling(c) # {}
    <2> DEFINE t == CHOOSE u \in Handling(c) : TRUE
    <2>1. t \in Handling(c)
      BY <1>2
    <2>2. request'[t] = request[t]
      BY <2>1
    <2>3. (CHOOSE u \in Handling(c) : TRUE)' = t
      BY DEF Handling
    <2> QED
      BY <1>2, <2>2, <2>3 DEF Outstanding
  <1> QED
    BY <1>1, <1>2

\* The requests of a connection that ends are lost.
LEMMA EndLoses ==
    ASSUME IInv, NEW c \in Client, Outstanding(c)' = <<>>
    PROVE  RR(c)!Next
  <1>1. Outstanding(c) \in Seq(Nat)
    BY OutstandingType
  <1>2. 0 \in 0..Len(Outstanding(c)) /\ SubSeq(Outstanding(c), 1, 0) = <<>>
    BY <1>1, SubSeqEmpty
  <1> QED
    BY <1>2 DEF RR!Next, RR!Lose

\* What a client has outstanding after a step, by the thread that then handles
\* its connection.
LEMMA OutstandingNext ==
    ASSUME NEW c \in Client, requests'[c] \in Seq(Nat)
    PROVE  /\ link'[c] # "up" \/ c \notin connected_sessions' => Outstanding(c)' = <<>>
           /\ link'[c] = "up" /\ c \in connected_sessions' =>
                 /\ Handling(c)' = {} => Outstanding(c)' = requests'[c]
                 /\ \A t : Handling(c)' = {t} => Outstanding(c)' = <<request'[t]>> \o requests'[c]
  <1>1. Handling(c)' = {} /\ link'[c] = "up" /\ c \in connected_sessions' =>
            Outstanding(c)' = requests'[c]
    BY DEF Outstanding
  <1>2. ASSUME NEW t, Handling(c)' = {t}, link'[c] = "up", c \in connected_sessions'
        PROVE  Outstanding(c)' = <<request'[t]>> \o requests'[c]
    <2>1. (CHOOSE u \in Handling(c) : TRUE)' = t
      BY <1>2
    <2> QED
      BY <1>2, <2>1 DEF Outstanding
  <1> QED
    BY <1>1, <1>2 DEF Outstanding

\* A request that is sent comes last, and is none of those outstanding.
LEMMA SendSends ==
    ASSUME IInv, NEW c \in Client, Send(c)
    PROVE  [RR(c)!Next]_(Outstanding(c))
  <1> DEFINE r == NewId(c)
  <1>1. r \in Nat /\ r \notin UnderWay(c)
    BY NewIdIsNew, IdsAreNumbers DEF Send
  <1>2. /\ UNCHANGED <<link, connected_sessions, conn, request>>
        /\ Handling(c)' = Handling(c)
    BY DEF Send, sessionVars, threadVars, Handling
  <1>3. requests[c] \in Seq(Nat) /\ requests'[c] = Append(requests[c], r)
    BY DEF IInv, TypeOK, Send
  <1> HIDE DEF r
  <1>4. requests'[c] \in Seq(Nat)
    BY <1>1, <1>3
  <1>5. CASE c \notin connected_sessions
    BY <1>2, <1>5 DEF Outstanding
  <1>6. CASE c \in connected_sessions
    <2>0. link[c] = "up" /\ link'[c] = "up" /\ c \in connected_sessions'
      BY <1>2, <1>6 DEF Send
    <2>1. Outstanding(c) \in Seq(Nat)
      BY OutstandingType
    <2>2. /\ Outstanding(c)' = Append(Outstanding(c), r)
          /\ \A i \in DOMAIN Outstanding(c) : Outstanding(c)[i] # r
      <3>0. \A i \in DOMAIN requests[c] : requests[c][i] # r
        BY <1>1 DEF UnderWay, Range
      <3>1. CASE Handling(c) = {}
        BY <1>2, <1>3, <1>4, <2>0, <3>0, <3>1, <1>6, OutstandingIs, OutstandingNext
      <3>2. CASE Handling(c) # {}
        <4>1. PICK t : t \in Handling(c)
          BY <3>2
        <4>2. Handling(c)' = {t}
          BY <1>2, <4>1 DEF IInv, SessionsAreDriven
        <4>3. request[t] \in Nat /\ request[t] # r /\ request'[t] = request[t]
          BY <1>1, <1>2, <1>6, <2>0, <4>1, OutstandingIs DEF UnderWay
        <4>4. Outstanding(c) = <<request[t]>> \o requests[c]
          BY <1>6, <2>0, <4>1, OutstandingIs
        <4>5. Outstanding(c)' = <<request[t]>> \o Append(requests[c], r)
          BY <1>3, <1>4, <2>0, <4>2, <4>3, OutstandingNext
        <4>6. Outstanding(c)' = Append(Outstanding(c), r)
          <5>1. Append(<<request[t]>> \o requests[c], r) = <<request[t]>> \o Append(requests[c], r)
            BY <1>1, <1>3, <4>3, TakeFirst
          <5> QED
            BY <4>4, <4>5, <5>1, Zenon
        <4>7. \A i \in DOMAIN Outstanding(c) : Outstanding(c)[i] # r
          BY <1>3, <3>0, <4>3, <4>4
        <4> QED
          BY <4>6, <4>7
      <3> QED
        BY <3>1, <3>2
    <2>3. r \in {Outstanding(c)'[i] : i \in DOMAIN Outstanding(c)'}
      <3>1. Append(Outstanding(c), r)[Len(Outstanding(c)) + 1] = r
        BY <1>1, <2>1
      <3>2. Len(Outstanding(c)) + 1 \in DOMAIN Append(Outstanding(c), r)
        BY <1>1, <2>1
      <3> QED
        BY <2>2, <3>1, <3>2
    <2> QED
      BY <2>2, <2>3 DEF RR!Next, RR!Send
  <1> QED
    BY <1>5, <1>6

\* A message is taken up: the request being handled is still the first one.
LEMMA MessageStays ==
    ASSUME IInv, NEW t \in Thread, NEW c \in Client, on_new_message(t, c)
    PROVE  Outstanding(c)' = Outstanding(c)
  <1>0. /\ TypeOK /\ BusyThreads /\ pc[t] = "idle" /\ dispatch(t, c)
        /\ UNCHANGED <<link, connected_sessions>>
    BY DEF IInv, on_new_message, Ready
  <1>1. CASE link[c] # "up"
    BY <1>0, <1>1 DEF Outstanding
  <1>2. CASE link[c] = "up"
    <2>1. Handling(c) = {} /\ c \in connected_sessions
      BY DEF IInv, on_new_message, SessionsAreDriven
    <2>2. conn' = [conn EXCEPT ![t] = c]
      BY <1>0, DispatchEffect
    <2>3. Handling(c)' = {t}
      BY <1>0, <2>1, <2>2, HandlingBegins
    <2>4. /\ requests[c] \in Seq(Nat) /\ requests[c] # <<>>
          /\ requests'[c] = Tail(requests[c]) /\ request'[t] = Head(requests[c])
      BY <1>0 DEF TypeOK, on_new_message
    <2>5. requests'[c] \in Seq(Nat)
      BY <2>4
    <2>6. Outstanding(c)' = <<Head(requests[c])>> \o Tail(requests[c])
      BY <1>0, <1>2, <2>1, <2>3, <2>4, <2>5, OutstandingNext
    <2>7. Outstanding(c) = requests[c]
      BY <1>2, <2>1, OutstandingIs
    <2> QED
      BY <2>4, <2>6, <2>7, TakeFirst
  <1> QED
    BY <1>1, <1>2

\* A reply answers the first request, unless it was to a connection that ends.
LEMMA ResponseAnswers ==
    ASSUME IInv, NEW t \in Thread, NEW c \in Client, c = conn[t], send_response(t)
    PROVE  [RR(c)!Next]_(Outstanding(c))
  <1>1. CASE UNCHANGED <<link, requests, connected_sessions>>
    <2>1. t \in Handling(c) /\ Handling(c) = {t} /\ c \in connected_sessions
      BY DEF IInv, SessionsAreDriven, Handling
    <2>2. conn' = [conn EXCEPT ![t] = Nobody]
      BY DEF send_response, Finish
    <2>3. Handling(c)' = {}
      <3>1. Handling(c)' = Handling(c) \ {t}
        BY <2>2, HandlingEnds DEF IInv
      <3> QED
        BY <2>1, <3>1
    <2>4. CASE link[c] # "up"
      BY <1>1, <2>4 DEF Outstanding
    <2>5. CASE link[c] = "up"
      <3>1. /\ Outstanding(c) = <<request[t]>> \o requests[c]
            /\ request[t] \in Nat /\ requests[c] \in Seq(Nat)
        BY <2>1, <2>5, OutstandingIs
      <3>2. Outstanding(c)' = requests[c]
        BY <1>1, <2>1, <2>3, <2>5, <3>1, OutstandingNext
      <3> QED
        <4>1. Outstanding(c) # <<>> /\ Tail(Outstanding(c)) = requests[c]
          BY <3>1, TakeFirst
        <4> QED
          BY <3>2, <4>1 DEF RR!Next, RR!Answer
    <2> QED
      BY <2>4, <2>5
  <1>2. CASE ~ UNCHANGED <<link, requests, connected_sessions>>
    <2>1. c \notin connected_sessions'
      BY <1>2 DEF send_response, Finish, RemoveSession, clientVars
    <2>2. Outstanding(c)' = <<>>
      BY <2>1 DEF Outstanding
    <2> QED
      BY <2>2, EndLoses
  <1> QED
    BY <1>1, <1>2

\* Seen from one connection, every step of the frontend is a request sent, a
\* reply, the end of the connection, or nothing.
LEMMA EveryStepReplies ==
    ASSUME IInv, [Next]_vars, NEW c \in Client
    PROVE  [RR(c)!Next]_(Outstanding(c))
  <1> DEFINE Same == /\ link'[c] = link[c] /\ requests'[c] = requests[c]
                     /\ c \in connected_sessions' <=> c \in connected_sessions
                     /\ Handling(c)' = Handling(c)
                     /\ \A t \in Handling(c) : request'[t] = request[t]
             Goal == [RR(c)!Next]_(Outstanding(c))
  <1>a. Same => Goal
    BY OthersKeepRequests
  <1>b. link'[c] # "up" \/ c \notin connected_sessions' => Goal
    <2> SUFFICES ASSUME link'[c] # "up" \/ c \notin connected_sessions' PROVE Goal
      OBVIOUS
    <2>1. Outstanding(c)' = <<>>
      BY DEF Outstanding
    <2> QED
      BY <2>1, EndLoses
  <1> HIDE DEF Goal
  <1>1. ASSUME NEW d \in Client, Send(d) PROVE Goal
    <2>1. CASE d = c
      BY <1>1, <2>1, SendSends DEF Goal
    <2>2. CASE d # c
      BY <1>1, <1>a, <2>2 DEF IInv, TypeOK, Send, sessionVars, threadVars, Handling
    <2> QED
      BY <2>1, <2>2
  <1>2. ASSUME NEW d \in Client, Break(d) PROVE Goal
    <2>1. CASE d = c
      BY <1>2, <1>b, <2>1 DEF IInv, TypeOK, Break
    <2>2. CASE d # c
      BY <1>2, <1>a, <2>2 DEF IInv, TypeOK, Break, sessionVars, threadVars, Handling
    <2> QED
      BY <2>1, <2>2
  <1>3. ASSUME NEW d \in Client, NEW t \in Thread, on_new_message(t, d) PROVE Goal
    <2>1. CASE d = c
      BY <1>3, <2>1, MessageStays DEF Goal
    <2>2. CASE d # c
      <3>1. TypeOK /\ BusyThreads /\ pc[t] = "idle" /\ dispatch(t, d)
        BY <1>3 DEF IInv, on_new_message, Ready
      <3>2. conn' = [conn EXCEPT ![t] = d]
        BY <3>1, DispatchEffect
      <3>3. Handling(c)' = Handling(c)
        BY <2>2, <3>1, <3>2, HandlingBegins
      <3>4. t \notin Handling(c)
        BY <3>1, FrontendAssumption DEF BusyThreads, Handling
      <3> QED
        BY <1>3, <1>a, <2>2, <3>1, <3>3, <3>4 DEF TypeOK, on_new_message, Handling
    <2> QED
      BY <2>1, <2>2
  <1>4. ASSUME NEW d \in Client, NEW t \in Thread,
               HeaderReadFails(t, d) \/ BodyReadFails(t, d) \/ UnknownMethod(t, d)
        PROVE  Goal
    <2>1. CASE HeaderReadFails(t, d)
      BY <1>a, <2>1 DEF HeaderReadFails, clientVars, threadVars, Handling
    <2>2. CASE ~ HeaderReadFails(t, d) /\ d = c
      BY <1>4, <1>b, <2>2 DEF BodyReadFails, UnknownMethod, RemoveSession
    <2>3. CASE ~ HeaderReadFails(t, d) /\ d # c
      BY <1>4, <1>a, <2>3
         DEF IInv, TypeOK, BodyReadFails, UnknownMethod, RemoveSession, threadVars, Handling
    <2> QED
      BY <2>1, <2>2, <2>3
  <1>5. ASSUME NEW t \in Thread, advance_client_buffer(t) PROVE Goal
    BY <1>5, <1>a DEF advance_client_buffer, clientVars, sessionVars, Handling
  <1>6. ASSUME NEW t \in Thread, send_response(t) PROVE Goal
    <2>1. PICK d \in Client : d = conn[t] /\ d # Nobody
      BY <1>6 DEF IInv, TypeOK, BusyThreads, send_response
    <2>2. CASE d = c
      BY <1>6, <2>1, <2>2, ResponseAnswers DEF Goal
    <2>3. CASE d # c
      <3>1. conn' = [conn EXCEPT ![t] = Nobody] /\ request' = [request EXCEPT ![t] = 0]
        BY <1>6 DEF send_response, Finish
      <3>2. Handling(c)' = Handling(c)
        BY <2>1, <2>3, <3>1, HandlingEnds DEF IInv
      <3>3. \A u \in Handling(c) : request'[u] = request[u]
        BY <2>1, <2>3, <3>1 DEF IInv, TypeOK, Handling
      <3>4. /\ link'[c] = link[c] /\ requests'[c] = requests[c]
            /\ c \in connected_sessions' <=> c \in connected_sessions
        BY <1>6, <2>1, <2>3
           DEF IInv, TypeOK, send_response, Finish, RemoveSession, clientVars
      <3> QED
        BY <1>a, <3>2, <3>3, <3>4
    <2> QED
      BY <2>2, <2>3
  <1>7. ASSUME NEW t \in Thread, NEW d \in Client, on_new_connection(t, d) PROVE Goal
    <2>1. CASE d = c
      <3>1. Handling(c)' = {} /\ requests'[c] = <<>>
        BY <1>7, <2>1
           DEF IInv, SessionsHaveLinks, SessionsAreDriven, on_new_connection, threadVars, Handling
      <3>2. Outstanding(c)' = <<>>
        BY <3>1 DEF Outstanding
      <3> QED
        BY <3>2, EndLoses DEF Goal
    <2>2. CASE d # c
      BY <1>7, <1>a, <2>2 DEF IInv, TypeOK, on_new_connection, threadVars, Handling
    <2> QED
      BY <2>1, <2>2
  <1>8. ASSUME JoinThreads PROVE Goal
    BY <1>8, <1>b DEF JoinThreads
  <1>9. ASSUME \/ FocusChanges \/ Render \/ StopCompositor \/ ShellShutdown \/ StopIoService
               \/ UNCHANGED vars
        PROVE  Goal
    BY <1>9, <1>a
       DEF FocusChanges, Render, StopCompositor, ShellShutdown, StopIoService, vars, clientVars,
           sessionVars, threadVars, Handling
  <1>10. Goal
    BY <1>1, <1>2, <1>3, <1>4, <1>5, <1>6, <1>7, <1>8, <1>9
       DEF Next, Receive, Process, Accept, MainStep
  <1> QED
    BY <1>10 DEF Goal

\* The io threads between them answer the requests of every connection in the
\* order in which they were sent, each once: the frontend implements
\* RequestReply for every client at the same time.
THEOREM FrontendReplies == Spec => RepliesInOrder
  <1>1. Init => \A c \in Client : RR(c)!Init
    BY DEF Init, Outstanding, RR!Init
  <1>2. IInv /\ [Next]_vars => [\A c \in Client : [RR(c)!Next]_(Outstanding(c))]_vars
    BY EveryStepReplies
  <1> QED
    BY <1>1, <1>2, Invariance, PTL DEF Spec, RepliesInOrder

=============================================================================
