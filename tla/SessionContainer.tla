--------------------------- MODULE SessionContainer ---------------------------
(***************************************************************************)
(* msh::SessionContainer, the sessions of the server in the order they     *)
(* were opened, and msh::RegistrationOrderFocusSequence, which walks it to *)
(* find the session that gets the focus next.                              *)
(*                                                                         *)
(* for_each calls its function on every session in order.  A walk gives    *)
(* the variables the lambda captures after each call, from their initial   *)
(* values on.                                                              *)
(***************************************************************************)
EXTENDS Naturals, SequencesExt

CONSTANTS Session,    \* sessions the clients open
          NoSession,  \* the null session
          Throws      \* the outcome std::logic_error("Invalid session")

ASSUME SessionAssumption ==
    NoSession \notin Session /\ Throws \notin Session /\ Throws # NoSession

VARIABLE apps

Registered == {apps[i] : i \in 1..Len(apps)}

insert_session(s) == apps' = Append(apps, s)

\* std::find and erase; a session that is not there throws, changing nothing.
remove_session(s) ==
    \E i \in 1..Len(apps) :
        /\ apps[i] = s
        /\ \A j \in 1..i - 1 : apps[j] # s
        /\ apps' = RemoveAt(apps, i)

-----------------------------------------------------------------------------

\* Mutant: the last session that is not s, whether or not s came before it.
SuccessorForgetsFound(s, acc, x) ==
    [first  |-> IF acc.first = NoSession THEN x ELSE acc.first,
     found  |-> acc.found \/ x = s,
     result |-> IF x # s THEN x ELSE acc.result]

\* The lambda of successor_of, called on session x.
SuccessorVisit(s, acc, x) ==
    [first  |-> IF acc.first = NoSession THEN x ELSE acc.first,
     found  |-> acc.found \/ x = s,
     result |-> IF acc.found /\ acc.result = NoSession THEN x ELSE acc.result]

SuccessorWalk(s) ==
    LET walk[n \in 0..Len(apps)] ==
            IF n = 0 THEN [first |-> NoSession, found |-> FALSE, result |-> NoSession]
            ELSE SuccessorVisit(s, walk[n - 1], apps[n])
    IN  walk

successor_of(s) ==
    LET end == SuccessorWalk(s)[Len(apps)]
    IN  IF end.result # NoSession THEN end.result
        ELSE IF end.found THEN end.first ELSE Throws

\* The lambda of predecessor_of.
PredecessorVisit(s, acc, x) ==
    [last   |-> x,
     found  |-> acc.found \/ x = s,
     result |-> IF x # s /\ ~acc.found THEN x ELSE acc.result]

PredecessorWalk(s) ==
    LET walk[n \in 0..Len(apps)] ==
            IF n = 0 THEN [last |-> NoSession, found |-> FALSE, result |-> NoSession]
            ELSE PredecessorVisit(s, walk[n - 1], apps[n])
    IN  walk

predecessor_of(s) ==
    LET end == PredecessorWalk(s)[Len(apps)]
    IN  IF end.result # NoSession THEN end.result
        ELSE IF end.found THEN end.last ELSE Throws

\* Mutant: the session opened first.
FirstSession == IF apps = << >> THEN NoSession ELSE apps[1]

\* Its lambda overwrites the result on every call: the session visited last.
default_focus == IF apps = << >> THEN NoSession ELSE apps[Len(apps)]

-----------------------------------------------------------------------------

ContainerInit == apps = << >>

\* SessionManager opens a session once and closes it once; it asks for the
\* focus only of what the container holds.
ContainerNext ==
    \E s \in Session :
        \/ s \notin Registered /\ insert_session(s)
        \/ remove_session(s)

ContainerSpec == ContainerInit /\ [][ContainerNext]_apps

-----------------------------------------------------------------------------

\* Repeated focus_next visits every session once before it returns to the
\* first, in the order they were opened: the successor of the i-th session is
\* the next one round, and going back is the inverse of going forward.
FocusCyclesInOrder ==
    \A i \in 1..Len(apps) :
        /\ successor_of(apps[i]) = apps[(i % Len(apps)) + 1]
        /\ predecessor_of(successor_of(apps[i])) = apps[i]

\* Closing the session that has the default focus hands it to the one opened
\* before it, as closing_applications_transfers_focus expects, and closing any
\* other session leaves the default focus where it is.
ClosingTransfersFocus ==
    [][\A s \in Session : remove_session(s) =>
          default_focus' = IF s # default_focus THEN default_focus
                           ELSE IF Len(apps) = 1 THEN NoSession
                           ELSE predecessor_of(s)]_apps

=============================================================================
