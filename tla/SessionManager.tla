---------------------------- MODULE SessionManager ----------------------------
(***************************************************************************)
(* msh::SessionManager with the ApplicationSessions it manages and the     *)
(* SingleVisibilityFocusMechanism.  A session is served by the frontend    *)
(* thread of its own connection, one request at a time; requests of        *)
(* different sessions run concurrently, and a shell thread may call        *)
(* focus_next.                                                             *)
(*                                                                         *)
(* open_session and create_surface_for call the focus setter without       *)
(* SessionManager::mutex, and create_surface_for writes focus_application  *)
(* without it, a data race: an assignment is two steps, and one that       *)
(* overlaps another leaves its own value or a torn one.  The focus setter  *)
(* holds the container's guard from its first session to its last, but     *)
(* each session's surfaces have a mutex of their own.                      *)
(*                                                                         *)
(* The input manager's set_input_focus_to is part of the walk: it throws   *)
(* when the surface was destroyed since it was chosen.  Its application     *)
(* handles hold shared pointers to a session: the manager's own, and the   *)
(* dispatcher's, which is the one it was told of last.                     *)
(***************************************************************************)
EXTENDS SessionContainer, FiniteSets

CONSTANTS shell,       \* the thread that calls focus_next
          Id,          \* lightdm ids
          Tagged,      \* the clients that connect with a lightdm id
          NoThread,    \* nobody holds the mutex or the guard
          NoSurface,   \* the null surface
          Torn,        \* what overlapping writes may leave
          MaxSurface   \* bound: surfaces a session creates

ASSUME ThreadAssumption ==
    /\ shell \notin Session
    /\ NoThread \notin Session \cup {shell}
    /\ Tagged \subseteq Session
    /\ MaxSurface \in Nat
    /\ Torn \notin Session \cup {NoSession}

VARIABLES mutex,              \* holder of SessionManager::mutex
          focus_application, tags,
          guard, cursor,      \* for_each: who walks apps, and where
          op, pc, target,     \* each thread: operation, step, session to focus
          surfaces,           \* ApplicationSession::surfaces, the ids
          next_surface_id,
          stack, hidden,      \* surfaces on the stack; those that are hidden
          chosen,             \* default_surface() as the walk has read it
          missed,             \* sessions a walk that threw left as they were
          input_focus,        \* session and surface the input goes to
          focused_application_handle,  \* the session the input manager keeps alive
          input_application   \* the session the dispatcher keeps alive

vars == <<apps, mutex, focus_application, tags, guard, cursor, op, pc, target,
          surfaces, next_surface_id, stack, hidden, chosen, missed, input_focus,
          focused_application_handle, input_application>>

handleVars == <<focused_application_handle, input_application>>
inputVars == <<chosen, missed, input_focus, focused_application_handle, input_application>>
surfaceVars == <<surfaces, next_surface_id, stack, hidden, inputVars>>

Thread == Session \cup {shell}
Surface == Session \X (0..MaxSurface - 1)
Of(s, ids) == {s} \X ids
NoInput == [session |-> NoSession, surface |-> NoSurface]

Init ==
    /\ ContainerInit
    /\ mutex = NoThread
    /\ focus_application = NoSession
    /\ tags = {}
    /\ guard = NoThread
    /\ cursor = 1
    /\ op = [t \in Thread |-> "none"]
    /\ pc = [t \in Thread |-> IF t = shell THEN "idle" ELSE "start"]
    /\ target = [t \in Thread |-> NoSession]
    /\ surfaces = [s \in Session |-> {}]
    /\ next_surface_id = [s \in Session |-> 0]
    /\ stack = {}
    /\ hidden = {}
    /\ chosen = NoSurface
    /\ missed = {}
    /\ input_focus = NoInput
    /\ focused_application_handle = NoSession
    /\ input_application = NoSession

Goto(t, step) == pc' = [pc EXCEPT ![t] = step]

Lock(t) == mutex = NoThread /\ mutex' = t

\* The operation's local variables go out of scope.
Finish(t) ==
    /\ op' = [op EXCEPT ![t] = "none"]
    /\ target' = [target EXCEPT ![t] = NoSession]

\* ~ApplicationSession of the closed sessions that nobody refers to any more:
\* their surfaces leave the stack and focus_application expires.
DestroyUnreferenced(closed) ==
    LET dead == {s \in closed : /\ s \notin Registered
                                /\ \A p \in tags' : p[2] # s
                                /\ focused_application_handle' # s
                                /\ input_application' # s}
    IN  /\ stack' = {w \in stack : w[1] \notin dead}
        /\ surfaces' = [s \in Session |-> IF s \in dead THEN {} ELSE surfaces[s]]
        /\ focus_application' = IF focus_application \in dead THEN NoSession
                                ELSE focus_application

Closed == {s \in Session : pc[s] \in {"closed", "lost"}}

-----------------------------------------------------------------------------
(* set_focus_to: the assignment, then the focus mechanism's walk *)

Assigning == {"assign", "racing"}
Walking == {"visit", "input"}

\* Thread t starts to write x into focus_application.
BeginAssign(t, x) ==
    /\ target' = [target EXCEPT ![t] = x]
    /\ LET others == {u \in Thread \ {t} : pc[u] \in Assigning}
       IN  pc' = [u \in Thread |->
                     CASE u = t -> IF others = {} THEN "assign" ELSE "racing"
                       [] u \in others -> "racing"
                       [] OTHER -> pc[u]]

\* open_session gives the mutex back before it calls the focus setter.
EndAssign(t) ==
    /\ pc[t] \in Assigning
    /\ focus_application' \in
          {target[t]} \cup (IF pc[t] = "racing" THEN {Torn} ELSE {})
    /\ mutex' = IF op[t] = "open" THEN NoThread ELSE mutex
    /\ Goto(t, "focus")
    /\ UNCHANGED <<apps, tags, guard, cursor, op, target, surfaceVars>>

Enter(t) ==
    /\ pc[t] = "focus"
    /\ guard = NoThread
    /\ guard' = t
    /\ cursor' = 1
    /\ Goto(t, "visit")
    /\ UNCHANGED <<apps, mutex, focus_application, tags, op, target, surfaceVars>>

default_surface(s) ==
    IF surfaces[s] = {} THEN NoSurface
    ELSE CHOOSE i \in surfaces[s] : \A j \in surfaces[s] : i <= j

show(s) == hidden' = hidden \ Of(s, surfaces[s])

\* Mutant: the other sessions stay visible.
DoNotHide(s) == UNCHANGED hidden

hide(s) == hidden' = hidden \cup Of(s, surfaces[s])

\* SingleVisibilityFocusMechanism::set_focus_to, one session of the walk; the
\* default surface of the focused one is read and then handed on.
Visit(t) ==
    /\ pc[t] = "visit"
    /\ cursor <= Len(apps)
    /\ cursor' = cursor + 1
    /\ IF apps[cursor] = target[t]
       THEN /\ show(apps[cursor])
            /\ chosen' = default_surface(apps[cursor])
            /\ Goto(t, "input")
       ELSE /\ hide(apps[cursor])
            /\ UNCHANGED <<chosen, pc>>
    /\ UNCHANGED <<apps, mutex, focus_application, tags, guard, op, target, surfaces,
                   next_surface_id, stack, missed, input_focus, handleVars>>

\* InputManager::set_input_focus_to: without a surface the dispatcher is not
\* told of the application and keeps the one it has; the manager drops its own
\* handle along with that of a window.
set_input_focus_to(t) ==
    /\ pc[t] = "input"
    /\ chosen = NoSurface \/ <<target[t], chosen>> \in stack
    /\ input_focus' = [session |-> target[t], surface |-> chosen]
    /\ focused_application_handle' =
          CASE chosen # NoSurface -> target[t]
            [] chosen = NoSurface /\ input_focus.surface # NoSurface -> NoSession
            [] OTHER -> focused_application_handle
    /\ input_application' = IF chosen = NoSurface THEN input_application ELSE target[t]
    /\ chosen' = NoSurface
    /\ Goto(t, "visit")
    /\ UNCHANGED tags
    /\ DestroyUnreferenced(Closed)
    /\ hidden' = hidden \cap stack'
    /\ UNCHANGED <<apps, mutex, guard, cursor, op, target, next_surface_id, missed>>

\* The surface was destroyed in between: its size() throws, when the manager
\* has a new application handle and the dispatcher has not been told of it.
\* The walk ends where it is, with the target shown and the later sessions not
\* hidden, and the locks are released.  A client's close_session fails without
\* removing the tags, and its mediator goes with the connection.
InputWindowThrows(t) ==
    /\ pc[t] = "input"
    /\ chosen # NoSurface /\ <<target[t], chosen>> \notin stack
    /\ input_focus' = NoInput
    /\ chosen' = NoSurface
    /\ missed' = {target[t]} \cup {apps[i] : i \in cursor..Len(apps)}
    /\ focused_application_handle' = target[t]
    /\ guard' = NoThread
    /\ cursor' = 1
    /\ mutex' = IF mutex = t THEN NoThread ELSE mutex
    /\ Goto(t, IF op[t] = "close" THEN "failed" ELSE "idle")
    /\ Finish(t)
    /\ UNCHANGED <<tags, input_application>>
    /\ DestroyUnreferenced(Closed)
    /\ hidden' = hidden \cap stack'
    /\ UNCHANGED <<apps, next_surface_id>>

\* Mutant: the mutex stays locked.
LeaveLocked(t) ==
    /\ pc[t] = "visit"
    /\ cursor > Len(apps)
    /\ missed' = {}
    /\ guard' = NoThread
    /\ cursor' = 1
    /\ tags' = IF op[t] = "close" THEN {p \in tags : p[2] # t} ELSE tags
    /\ Goto(t, CASE op[t] = "open" -> "tag"
                 [] op[t] = "close" -> "reset"
                 [] OTHER -> "idle")
    /\ Finish(t)
    /\ UNCHANGED <<apps, mutex, focus_application, surfaces, next_surface_id, stack,
                   hidden, chosen, input_focus, handleVars>>

\* The walk ends and the operation goes on; the ones that hold the mutex
\* release it, close_session after it has removed the session's tags.
Leave(t) ==
    /\ pc[t] = "visit"
    /\ cursor > Len(apps)
    /\ missed' = {}
    /\ guard' = NoThread
    /\ cursor' = 1
    /\ mutex' = IF mutex = t THEN NoThread ELSE mutex
    /\ tags' = IF op[t] = "close" THEN {p \in tags : p[2] # t} ELSE tags
    /\ Goto(t, CASE op[t] = "open" -> "tag"
                 [] op[t] = "close" -> "reset"
                 [] OTHER -> "idle")
    /\ Finish(t)
    /\ UNCHANGED <<apps, focus_application, surfaces, next_surface_id, stack, hidden,
                   chosen, input_focus, handleVars>>

SetFocus(t) ==
    \/ EndAssign(t)
    \/ Enter(t)
    \/ Visit(t)
    \/ set_input_focus_to(t)
    \/ InputWindowThrows(t)
    \/ Leave(t)

-----------------------------------------------------------------------------
(* open_session, as SessionMediator::connect calls it *)

OpenSession(s) ==
    \/ /\ pc[s] = "start"
       /\ guard = NoThread
       /\ insert_session(s)
       /\ Goto(s, "opened")
       /\ UNCHANGED <<mutex, focus_application, tags, guard, cursor, op, target, surfaceVars>>
    \/ /\ pc[s] = "opened"
       /\ Lock(s)
       /\ op' = [op EXCEPT ![s] = "open"]
       /\ BeginAssign(s, s)
       /\ UNCHANGED <<apps, focus_application, tags, guard, cursor, surfaceVars>>

\* connect tags the session if the client has a lightdm id.
tag_session_with_lightdm_id(s) ==
    /\ pc[s] = "tag"
    /\ \/ /\ s \in Tagged
          /\ mutex = NoThread
          /\ \E id \in Id :
                tags' = {p \in tags : p[1] # id /\ p[2] # s} \cup {<<id, s>>}
       \/ /\ s \notin Tagged
          /\ UNCHANGED tags
    /\ Goto(s, "idle")
    /\ UNCHANGED inputVars
    /\ DestroyUnreferenced(Closed)
    /\ hidden' = hidden \cap stack'
    /\ UNCHANGED <<apps, mutex, guard, cursor, op, target, next_surface_id>>

-----------------------------------------------------------------------------
(* Requests of a connected session *)

\* ApplicationSession::create_surface puts a visible surface on the stack and
\* then enters it in its map; create_surface_for goes on to set_focus_to.
CreateSurface(s) ==
    \/ /\ pc[s] = "idle"
       /\ next_surface_id[s] < MaxSurface
       /\ stack' = stack \cup {<<s, next_surface_id[s]>>}
       /\ Goto(s, "created")
       /\ op' = [op EXCEPT ![s] = "create"]
       /\ UNCHANGED <<target, surfaces, next_surface_id>>
    \/ /\ pc[s] = "created"
       /\ surfaces' = [surfaces EXCEPT ![s] = @ \cup {next_surface_id[s]}]
       /\ next_surface_id' = [next_surface_id EXCEPT ![s] = @ + 1]
       /\ Goto(s, "mapped")
       /\ UNCHANGED <<op, target, stack>>
    \/ /\ pc[s] = "mapped"
       /\ BeginAssign(s, s)
       /\ UNCHANGED <<op, surfaces, next_surface_id, stack>>

create_surface_for(s) ==
    /\ CreateSurface(s)
    /\ UNCHANGED <<apps, mutex, focus_application, tags, guard, cursor, hidden, inputVars>>

destroy_surface(s) ==
    /\ pc[s] = "idle"
    /\ \E id \in surfaces[s] :
          /\ surfaces' = [surfaces EXCEPT ![s] = @ \ {id}]
          /\ stack' = stack \ {<<s, id>>}
          /\ hidden' = hidden \ {<<s, id>>}
    /\ UNCHANGED <<apps, mutex, focus_application, tags, guard, cursor, op, pc,
                   target, next_surface_id, inputVars>>

\* An id nobody is tagged with changes nothing.
focus_session_with_lightdm_id(s) ==
    /\ pc[s] = "idle"
    /\ Lock(s)
    /\ \E p \in tags : BeginAssign(s, p[2])
    /\ op' = [op EXCEPT ![s] = "by_id"]
    /\ UNCHANGED <<apps, focus_application, tags, guard, cursor, surfaceVars>>

\* Mutant: close_session does not take the mutex.
LockForgotten(s) ==
    /\ pc[s] = "idle"
    /\ op' = [op EXCEPT ![s] = "close"]
    /\ Goto(s, "remove")
    /\ UNCHANGED <<mutex, apps, target>>

LockToClose(s) ==
    /\ pc[s] = "idle"
    /\ Lock(s)
    /\ op' = [op EXCEPT ![s] = "close"]
    /\ Goto(s, "remove")
    /\ UNCHANGED <<apps, target>>

close_session(s) ==
    /\ \/ LockToClose(s)
       \/ /\ pc[s] = "remove"
          /\ guard = NoThread
          /\ remove_session(s)
          /\ Goto(s, "default")
          /\ UNCHANGED <<mutex, op, target>>
       \/ /\ pc[s] = "default"
          /\ guard = NoThread
          /\ BeginAssign(s, default_focus)
          /\ UNCHANGED <<apps, mutex, op>>
    /\ UNCHANGED <<focus_application, tags, guard, cursor, surfaceVars>>

\* The mediator drops its reference to the session.
ResetSession(s) ==
    /\ pc[s] \in {"reset", "failed"}
    /\ Goto(s, IF pc[s] = "reset" THEN "closed" ELSE "lost")
    /\ UNCHANGED <<tags, inputVars>>
    /\ DestroyUnreferenced({s})
    /\ hidden' = hidden \cap stack'
    /\ UNCHANGED <<apps, mutex, guard, cursor, op, target, next_surface_id>>

\* The client goes away without disconnect: nobody closes its session.
ConnectionLost(s) ==
    /\ pc[s] = "idle"
    /\ Goto(s, "gone")
    /\ UNCHANGED <<apps, mutex, focus_application, tags, guard, cursor, op,
                   target, surfaceVars>>

-----------------------------------------------------------------------------

\* focus_application.lock(); reading it while another thread writes it, or
\* after writes overlapped, may give anything.
ReadFocus ==
    /\ pc[shell] = "read"
    /\ target' \in {[target EXCEPT ![shell] = x] :
                      x \in IF focus_application = Torn
                               \/ \E u \in Session : pc[u] \in Assigning
                            THEN {s \in Session : pc[s] # "start"}
                                 \cup {NoSession}
                            ELSE {focus_application}}
    /\ Goto(shell, "successor")
    /\ UNCHANGED <<apps, mutex, op>>

\* The exception of successor_of leaves focus_next and unlocks the mutex.
Successor ==
    /\ pc[shell] = "successor"
    /\ guard = NoThread
    /\ LET next == IF target[shell] = NoSession THEN default_focus
                   ELSE successor_of(target[shell])
       IN  IF next = Throws
           THEN /\ Goto(shell, "idle")
                /\ mutex' = NoThread
                /\ Finish(shell)
           ELSE /\ BeginAssign(shell, next)
                /\ UNCHANGED <<mutex, op>>
    /\ UNCHANGED apps

focus_next ==
    /\ \/ /\ pc[shell] = "idle"
          /\ Lock(shell)
          /\ op' = [op EXCEPT ![shell] = "next"]
          /\ Goto(shell, "read")
          /\ UNCHANGED <<apps, target>>
       \/ ReadFocus
       \/ Successor
    /\ UNCHANGED <<focus_application, tags, guard, cursor, surfaceVars>>

\* What the thread of session s does on its own behalf.
Request(s) ==
    \/ OpenSession(s)
    \/ tag_session_with_lightdm_id(s)
    \/ create_surface_for(s)
    \/ destroy_surface(s)
    \/ focus_session_with_lightdm_id(s)
    \/ close_session(s)
    \/ ResetSession(s)
    \/ ConnectionLost(s)

Next ==
    \/ \E t \in Thread : SetFocus(t)
    \/ \E s \in Session : Request(s)
    \/ focus_next

Spec == Init /\ [][Next]_vars

\* Steps of an operation already begun; clients begin them as they like.
Resting == {"start", "idle", "closed", "lost", "gone"}
Continue(t) ==
    /\ pc[t] \notin Resting
    /\ SetFocus(t) \/ (IF t = shell THEN focus_next ELSE Request(t))

\* Threads inside an operation run on, and get the locks they wait for.
FairSpec == Spec /\ \A t \in Thread : SF_vars(Continue(t))

-----------------------------------------------------------------------------

\* The type of the shell's state; a walk never leaves the container's bounds.
TypeOK ==
    /\ apps \in Seq(Session)
    /\ mutex \in Thread \cup {NoThread}
    /\ focus_application \in Session \cup {NoSession, Torn}
    /\ tags \subseteq Id \X Session
    /\ guard \in Thread \cup {NoThread}
    /\ cursor \in 1..Len(apps) + 1
    /\ op \in [Thread -> {"none", "open", "create", "by_id", "close", "next"}]
    /\ pc \in [Thread -> Resting \cup Assigning \cup Walking \cup
                  {"opened", "focus", "tag", "created", "mapped", "remove", "default",
                   "reset", "failed", "read", "successor"}]
    /\ target \in [Thread -> Session \cup {NoSession}]
    /\ surfaces \in [Session -> SUBSET (0..MaxSurface - 1)]
    /\ next_surface_id \in [Session -> 0..MaxSurface]
    /\ stack \subseteq Surface
    /\ hidden \subseteq stack
    /\ chosen \in (0..MaxSurface - 1) \cup {NoSurface}
    /\ missed \subseteq Session
    /\ input_focus.session \in Session \cup {NoSession}
    /\ focused_application_handle \in Session \cup {NoSession}
    /\ input_application \in Session \cup {NoSession}

\* The session's thread has put a surface on the stack and has not yet made
\* its session the focused one.
Creating(s) == op[s] = "create" /\ pc[s] \notin Resting

\* When no focus change is under way, the only registered session with a
\* visible surface is the one that has the input focus, whatever the order in
\* which the walks of open_session, create_surface_for, close_session and
\* focus_next came, with two exceptions: a session still creating its surface,
\* and, when the last walk was cut short by the input manager's exception, the
\* session it had just shown and the ones behind it that it did not get to hide.
InputGoesToVisibleSession ==
    guard = NoThread =>
        \A w \in stack \ hidden :
            w[1] \in Registered /\ ~Creating(w[1]) =>
                input_focus.session = w[1] \/ w[1] \in missed

\* The focused session is one the container holds, so successor_of finds it
\* and focus_next does not throw, with two exceptions: writes of
\* focus_application overlapped, or the session's close_session was cut short
\* by the input manager and left its tag for others to select.
FocusIsRegistered ==
    mutex = NoThread =>
        \/ focus_application \in Registered \cup {NoSession, Torn}
        \/ pc[focus_application] \in {"failed", "lost"}

\* Every operation returns: the mutex, the container's guard and the walks
\* under them never leave two threads waiting for each other.
OperationsReturn ==
    \A t \in Thread : pc[t] \notin Resting ~> pc[t] \in Resting

\* A closed session is gone: "Focus is cleared when the session is closed", so
\* the input does not go to it, and as the test
\* closing_session_removes_surfaces has it, none of its surfaces is on the stack.
ClosedSessionIsGone ==
    \A s \in Session :
        pc[s] = "closed" =>
            /\ input_focus.session = s => input_focus.surface = NoSurface
            /\ \A w \in stack : w[1] # s

=============================================================================
