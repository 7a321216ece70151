-------------------------- MODULE SessionManagerProofs --------------------------
(***************************************************************************)
(* Proofs about the container of sessions, the walks that choose the one   *)
(* to focus, and the session manager, for any number of clients.           *)
(***************************************************************************)
EXTENDS SessionManager, SequenceTheorems, WellFoundedInduction, TLAPS

\* A session is registered once.
NoRepeat == \A i, j \in 1..Len(apps) : apps[i] = apps[j] => i = j

ContainerInv == apps \in Seq(Session) /\ NoRepeat

\* The steps that the operations have in common.
Focusing == Assigning \cup Walking \cup {"focus"}

\* The session s has not been inserted, or it has been removed.
Out(s) == \/ pc[s] \in {"start", "reset", "failed", "closed", "lost"}
          \/ op[s] = "close" /\ pc[s] # "remove"

\* The steps of each operation, and whose they are.
StepsOf(t) ==
    /\ op[t] = "none" => pc[t] \in Resting \cup {"opened", "tag", "reset", "failed"}
    /\ op[t] = "open" => pc[t] \in Focusing
    /\ op[t] = "create" => pc[t] \in Focusing \cup {"created", "mapped"}
    /\ op[t] = "by_id" => pc[t] \in Focusing
    /\ op[t] = "close" => pc[t] \in Focusing \cup {"remove", "default"}
    /\ op[t] = "next" => pc[t] \in Focusing \cup {"read", "successor"} /\ t = shell
    /\ t = shell => op[t] = "next" \/ (op[t] = "none" /\ pc[t] = "idle")
    /\ op[t] \in {"open", "create"} /\ pc[t] \in Focusing => target[t] = t

\* Whether thread t holds SessionManager::mutex, and the container's guard.
LocksOf(t) ==
    /\ mutex = t <=> \/ op[t] \in {"close", "by_id", "next"}
                     \/ op[t] = "open" /\ pc[t] \in Assigning
    /\ guard = t <=> pc[t] \in Walking

\* A session's surfaces are on the stack, and no others are but the one that
\* is being created.
SurfacesOf(s) ==
    /\ \A id \in surfaces[s] : id < next_surface_id[s] /\ <<s, id>> \in stack
    /\ \A id \in 0..MaxSurface - 1 :
          <<s, id>> \in stack =>
              id \in surfaces[s] \/ (pc[s] = "created" /\ id = next_surface_id[s])
    /\ pc[s] = "start" => surfaces[s] = {}
    /\ pc[s] = "created" => next_surface_id[s] < MaxSurface /\ <<s, next_surface_id[s]>> \in stack

\* The container holds the sessions that were opened and not closed.
RegisteredOnce ==
    /\ NoRepeat
    /\ \A s \in Session : s \in Registered <=> ~Out(s)
    /\ guard = NoThread => cursor = 1

ControlInv ==
    /\ TypeOK
    /\ \A t \in Thread : StepsOf(t) /\ LocksOf(t)
    /\ \A s \in Session : SurfacesOf(s)
    /\ RegisteredOnce

\* A session that can be focused: it is registered, or its close_session failed.
Known(s) == s \in Registered \/ pc[s] \in {"failed", "lost"}

\* A session that is being closed keeps its tags until the walk has ended, and
\* focus_application until close_session replaces it.
Taggable(s) == Known(s) \/ op[s] = "close"
Focused(s) == Known(s) \/ (op[s] = "close" /\ pc[s] \in Assigning \cup {"default"})

FocusIsKnown ==
    /\ \A p \in tags : Taggable(p[2])
    /\ \A t \in Thread : pc[t] \in Assigning => target[t] = NoSession \/ Known(target[t])
    /\ focus_application \in {NoSession, Torn} \/ Focused(focus_application)

\* Session s shows nothing, or its thread is about to give it the focus.
Quiet(s) == Creating(s) \/ \A w \in stack \ hidden : w[1] # s

\* How far the walk has come: what it has passed is quiet, apart from the
\* session it focuses, which has the input as soon as it was passed.
WalkHidesOthers ==
    \A t \in Thread : guard = t =>
        /\ \A j \in 1..Len(apps) : j < cursor /\ apps[j] # target[t] => Quiet(apps[j])
        /\ pc[t] = "input" => cursor > 1 /\ apps[cursor - 1] = target[t]
        /\ pc[t] = "visit" =>
              \A j \in 1..Len(apps) : j < cursor /\ apps[j] = target[t] =>
                  input_focus.session = target[t]

\* InputGoesToVisibleSession, session by session.
OthersAreQuiet ==
    guard = NoThread =>
        \A s \in Registered : Quiet(s) \/ input_focus.session = s \/ s \in missed

IInv ==
    /\ ControlInv
    /\ FocusIsKnown
    /\ WalkHidesOthers
    /\ OthersAreQuiet

-----------------------------------------------------------------------------
(* What the walks compute *)

\* The first of some numbers is one of them.
LEMMA SmallestExists ==
    ASSUME NEW S \in SUBSET Nat, S # {}
    PROVE  \E x \in S : \A y \in S : x <= y
  <1> DEFINE R == {p \in Nat \X Nat : p[1] < p[2]}
  <1>1. IsWellFoundedOn(R, Nat)
    BY NatLessThanWellFounded DEF OpToRel
  <1>2. PICK x \in S : \A y \in S : ~ (<<y, x>> \in R)
    BY <1>1, WFMin
  <1>3. ASSUME NEW y \in S PROVE x <= y
    <2>1. x \in Nat /\ y \in Nat /\ <<y, x>> \in Nat \X Nat
      OBVIOUS
    <2>2. ~(y < x)
      BY <1>2, <2>1
    <2> QED
      BY <2>1, <2>2
  <1> QED
    BY <1>3

\* Two walks that begin alike and go on alike are the same: the induction that
\* the walks need.
LEMMA WalksAgree ==
    ASSUME NEW n \in Nat, NEW v, NEW w, v[0] = w[0],
           \A k \in 1..n : v[k - 1] = w[k - 1] => v[k] = w[k]
    PROVE  \A k \in 0..n : v[k] = w[k]
  <1> DEFINE S == {k \in 0..n : v[k] # w[k]}
  <1> SUFFICES ASSUME S # {} PROVE FALSE
    OBVIOUS
  <1>1. PICK x \in S : \A y \in S : x <= y
    <2>1. S \in SUBSET Nat
      OBVIOUS
    <2> QED
      BY <2>1, SmallestExists
  <1>2. x \in 1..n /\ x - 1 \in 0..n
    OBVIOUS
  <1>3. x - 1 \notin S
    BY <1>1, <1>2
  <1> QED
    BY <1>2, <1>3

\* w begins and goes on as the variables that successor_of's lambda captures.
SuccessorFollows(s, w, n) ==
    /\ w[0] = [first |-> NoSession, found |-> FALSE, result |-> NoSession]
    /\ \A k \in 1..n : w[k] = SuccessorVisit(s, w[k - 1], apps[k])

\* The lambda determines what it captures.
LEMMA SuccessorUnique ==
    ASSUME NEW n \in Nat, NEW s, NEW v, NEW w, SuccessorFollows(s, v, n), SuccessorFollows(s, w, n)
    PROVE  v[n] = w[n]
  <1>1. \A k \in 1..n : v[k - 1] = w[k - 1] => v[k] = w[k]
    BY DEF SuccessorFollows
  <1>2. v[0] = w[0]
    BY DEF SuccessorFollows
  <1>3. \A k \in 0..n : v[k] = w[k]
    BY <1>1, <1>2, WalksAgree
  <1> QED
    BY <1>3

\* successor_of's walk follows its lambda, if anything does.
LEMMA SuccessorWalkIs ==
    ASSUME Len(apps) \in Nat, NEW s, NEW R, NEW w \in [0..Len(apps) -> R], SuccessorFollows(s, w, Len(apps))
    PROVE  SuccessorWalk(s)[Len(apps)] = w[Len(apps)]
  <1> DEFINE L == Len(apps)
             start == [first |-> NoSession, found |-> FALSE, result |-> NoSession]
             Is(v) == v = [n \in 0..L |-> IF n = 0 THEN start
                                          ELSE SuccessorVisit(s, v[n - 1], apps[n])]
  <1>1. Is(w)
    BY DEF SuccessorFollows
  <1>2. Is(SuccessorWalk(s))
    BY <1>1 DEF SuccessorWalk
  <1>3. ASSUME NEW v, Is(v) PROVE SuccessorFollows(s, v, Len(apps))
    <2>1. 0 \in 0..L /\ \A k \in 1..L : k \in 0..L /\ k # 0
      OBVIOUS
    <2> QED
      BY <1>3, <2>1 DEF SuccessorFollows
  <1>4. SuccessorFollows(s, SuccessorWalk(s), Len(apps))
    BY <1>2, <1>3
  <1> HIDE DEF Is
  <1> QED
    BY <1>4, SuccessorUnique

\* w begins and goes on as the variables that predecessor_of's lambda captures.
PredecessorFollows(s, w, n) ==
    /\ w[0] = [last |-> NoSession, found |-> FALSE, result |-> NoSession]
    /\ \A k \in 1..n : w[k] = PredecessorVisit(s, w[k - 1], apps[k])

\* The lambda determines what it captures.
LEMMA PredecessorUnique ==
    ASSUME NEW n \in Nat, NEW s, NEW v, NEW w, PredecessorFollows(s, v, n), PredecessorFollows(s, w, n)
    PROVE  v[n] = w[n]
  <1>1. \A k \in 1..n : v[k - 1] = w[k - 1] => v[k] = w[k]
    BY DEF PredecessorFollows
  <1>2. v[0] = w[0]
    BY DEF PredecessorFollows
  <1>3. \A k \in 0..n : v[k] = w[k]
    BY <1>1, <1>2, WalksAgree
  <1> QED
    BY <1>3

\* predecessor_of's walk follows its lambda, if anything does.
LEMMA PredecessorWalkIs ==
    ASSUME Len(apps) \in Nat, NEW s, NEW R, NEW w \in [0..Len(apps) -> R], PredecessorFollows(s, w, Len(apps))
    PROVE  PredecessorWalk(s)[Len(apps)] = w[Len(apps)]
  <1> DEFINE L == Len(apps)
             start == [last |-> NoSession, found |-> FALSE, result |-> NoSession]
             Is(v) == v = [n \in 0..L |-> IF n = 0 THEN start
                                          ELSE PredecessorVisit(s, v[n - 1], apps[n])]
  <1>1. Is(w)
    BY DEF PredecessorFollows
  <1>2. Is(PredecessorWalk(s))
    BY <1>1 DEF PredecessorWalk
  <1>3. ASSUME NEW v, Is(v) PROVE PredecessorFollows(s, v, Len(apps))
    <2>1. 0 \in 0..L /\ \A k \in 1..L : k \in 0..L /\ k # 0
      OBVIOUS
    <2> QED
      BY <1>3, <2>1 DEF PredecessorFollows
  <1>4. PredecessorFollows(s, PredecessorWalk(s), Len(apps))
    BY <1>2, <1>3
  <1> HIDE DEF Is
  <1> QED
    BY <1>4, PredecessorUnique

\* successor_of the i-th session is the next one, and the first after the last.
LEMMA SuccessorIs ==
    ASSUME ContainerInv, NEW i \in 1..Len(apps)
    PROVE  successor_of(apps[i]) = IF i = Len(apps) THEN apps[1] ELSE apps[i + 1]
  <1> DEFINE s == apps[i]
             L == Len(apps)
             first(n) == IF n = 0 THEN NoSession ELSE apps[1]
             result(n) == IF n <= i THEN NoSession ELSE apps[i + 1]
             w == [n \in 0..L |-> [first |-> first(n), found |-> n >= i, result |-> result(n)]]
  <1>1. /\ L \in Nat /\ i \in Nat /\ i >= 1 /\ i <= L
        /\ \A k \in 1..L : apps[k] \in Session /\ apps[k] # NoSession
        /\ \A k \in 1..L : apps[k] = s <=> k = i
    BY SessionAssumption DEF ContainerInv, NoRepeat
  <1>2. ASSUME NEW n \in 1..L PROVE w[n] = SuccessorVisit(s, w[n - 1], apps[n])
    <2>1. /\ n \in 0..L /\ n - 1 \in 0..L
          /\ w[n] = [first |-> first(n), found |-> n >= i, result |-> result(n)]
          /\ w[n - 1] = [first |-> first(n - 1), found |-> n - 1 >= i, result |-> result(n - 1)]
      BY <1>1
    <2>2. first(n) = IF first(n - 1) = NoSession THEN apps[n] ELSE first(n - 1)
      BY <1>1
    <2>3. (n >= i) = (n - 1 >= i \/ apps[n] = s)
      BY <1>1
    <2>4. result(n) = IF n - 1 >= i /\ result(n - 1) = NoSession THEN apps[n] ELSE result(n - 1)
      BY <1>1
    <2> HIDE DEF first, result, w, s
    <2>5. /\ w[n - 1].first = first(n - 1)
          /\ w[n - 1].found = (n - 1 >= i)
          /\ w[n - 1].result = result(n - 1)
      BY <2>1
    <2>6. SuccessorVisit(s, w[n - 1], apps[n])
            = [first  |-> IF first(n - 1) = NoSession THEN apps[n] ELSE first(n - 1),
               found  |-> n - 1 >= i \/ apps[n] = s,
               result |-> IF n - 1 >= i /\ result(n - 1) = NoSession
                          THEN apps[n] ELSE result(n - 1)]
      BY <2>5, Zenon DEF SuccessorVisit
    <2> QED
      BY <2>1, <2>2, <2>3, <2>4, <2>6, Zenon
  <1>3. w[0] = [first |-> NoSession, found |-> FALSE, result |-> NoSession]
    <2>1. 0 \in 0..L /\ (0 >= i) = FALSE /\ first(0) = NoSession /\ result(0) = NoSession
      BY <1>1
    <2> HIDE DEF first, result
    <2> QED
      BY <2>1
  <1>4. SuccessorWalk(s)[L] = w[L]
    <2>1. w \in [0..L -> {w[n] : n \in 0..L}]
      OBVIOUS
    <2> HIDE DEF w, s
    <2>2. SuccessorFollows(s, w, Len(apps))
      BY <1>2, <1>3 DEF SuccessorFollows
    <2> QED
      BY <1>1, <2>1, <2>2, SuccessorWalkIs
  <1>5. SuccessorWalk(s)[L] = [first |-> apps[1], found |-> TRUE, result |-> result(L)]
    <2>1. L \in 0..L /\ (L >= i) = TRUE /\ first(L) = apps[1]
      BY <1>1
    <2> HIDE DEF first, result
    <2> QED
      BY <1>4, <2>1
  <1>6. successor_of(s) = IF result(L) # NoSession THEN result(L) ELSE apps[1]
    <2> HIDE DEF s, result
    <2> QED
      BY <1>5 DEF successor_of
  <1> QED
    BY <1>1, <1>6

\* A session that is not in the container has no successor.
LEMMA SuccessorThrows ==
    ASSUME ContainerInv, NEW s, s \notin Registered
    PROVE  successor_of(s) = Throws
  <1> DEFINE L == Len(apps)
             first(n) == IF n = 0 THEN NoSession ELSE apps[1]
             w == [n \in 0..L |-> [first |-> first(n), found |-> FALSE, result |-> NoSession]]
  <1>1. /\ L \in Nat
        /\ \A k \in 1..L : apps[k] # NoSession /\ apps[k] # s
    BY SessionAssumption DEF ContainerInv, Registered
  <1>2. ASSUME NEW n \in 1..L PROVE w[n] = SuccessorVisit(s, w[n - 1], apps[n])
    <2>1. /\ n \in 0..L /\ n - 1 \in 0..L /\ (apps[n] = s) = FALSE
          /\ w[n] = [first |-> first(n), found |-> FALSE, result |-> NoSession]
          /\ w[n - 1] = [first |-> first(n - 1), found |-> FALSE, result |-> NoSession]
      BY <1>1
    <2>2. first(n) = IF first(n - 1) = NoSession THEN apps[n] ELSE first(n - 1)
      BY <1>1
    <2> HIDE DEF first, w
    <2>3. /\ w[n - 1].first = first(n - 1)
          /\ w[n - 1].found = FALSE
          /\ w[n - 1].result = NoSession
      BY <2>1
    <2>4. SuccessorVisit(s, w[n - 1], apps[n])
            = [first  |-> IF first(n - 1) = NoSession THEN apps[n] ELSE first(n - 1),
               found  |-> FALSE,
               result |-> NoSession]
      BY <2>1, <2>3, Zenon DEF SuccessorVisit
    <2> QED
      BY <2>1, <2>2, <2>4, Zenon
  <1>3. w[0] = [first |-> NoSession, found |-> FALSE, result |-> NoSession]
    BY <1>1
  <1>4. SuccessorWalk(s)[L] = w[L]
    <2>1. w \in [0..L -> {w[n] : n \in 0..L}]
      OBVIOUS
    <2> HIDE DEF w
    <2>2. SuccessorFollows(s, w, Len(apps))
      BY <1>2, <1>3 DEF SuccessorFollows
    <2> QED
      BY <1>1, <2>1, <2>2, SuccessorWalkIs
  <1>5. SuccessorWalk(s)[L] = [first |-> first(L), found |-> FALSE, result |-> NoSession]
    BY <1>1, <1>4
  <1> QED
    BY <1>5 DEF successor_of

\* predecessor_of the i-th session is the one before it, and the last before
\* the first.
LEMMA PredecessorIs ==
    ASSUME ContainerInv, NEW i \in 1..Len(apps)
    PROVE  predecessor_of(apps[i]) = IF i = 1 THEN apps[Len(apps)] ELSE apps[i - 1]
  <1> DEFINE s == apps[i]
             L == Len(apps)
             last(n) == IF n = 0 THEN NoSession ELSE apps[n]
             result(n) == IF n < i THEN last(n) ELSE last(i - 1)
             w == [n \in 0..L |-> [last |-> last(n), found |-> n >= i, result |-> result(n)]]
  <1>1. /\ L \in Nat /\ i \in Nat /\ i >= 1 /\ i <= L
        /\ \A k \in 1..L : apps[k] \in Session /\ apps[k] # NoSession
        /\ \A k \in 1..L : apps[k] = s <=> k = i
    BY SessionAssumption DEF ContainerInv, NoRepeat
  <1>2. ASSUME NEW n \in 1..L PROVE w[n] = PredecessorVisit(s, w[n - 1], apps[n])
    <2>1. /\ n \in 0..L /\ n - 1 \in 0..L
          /\ w[n] = [last |-> last(n), found |-> n >= i, result |-> result(n)]
          /\ w[n - 1] = [last |-> last(n - 1), found |-> n - 1 >= i, result |-> result(n - 1)]
      BY <1>1
    <2>2. last(n) = apps[n]
      BY <1>1
    <2>3. (n >= i) = (n - 1 >= i \/ apps[n] = s)
      BY <1>1
    <2>4. result(n) = IF apps[n] # s /\ ~(n - 1 >= i) THEN apps[n] ELSE result(n - 1)
      BY <1>1
    <2> HIDE DEF last, result, w, s
    <2>5. /\ w[n - 1].found = (n - 1 >= i)
          /\ w[n - 1].result = result(n - 1)
      BY <2>1
    <2>6. PredecessorVisit(s, w[n - 1], apps[n])
            = [last   |-> apps[n],
               found  |-> n - 1 >= i \/ apps[n] = s,
               result |-> IF apps[n] # s /\ ~(n - 1 >= i) THEN apps[n] ELSE result(n - 1)]
      BY <2>5, Zenon DEF PredecessorVisit
    <2> QED
      BY <2>1, <2>2, <2>3, <2>4, <2>6, Zenon
  <1>3. w[0] = [last |-> NoSession, found |-> FALSE, result |-> NoSession]
    <2>1. 0 \in 0..L /\ (0 >= i) = FALSE /\ last(0) = NoSession /\ result(0) = NoSession
      BY <1>1
    <2> HIDE DEF last, result
    <2> QED
      BY <2>1
  <1>4. PredecessorWalk(s)[L] = w[L]
    <2>1. w \in [0..L -> {w[n] : n \in 0..L}]
      OBVIOUS
    <2> HIDE DEF w, s
    <2>2. PredecessorFollows(s, w, Len(apps))
      BY <1>2, <1>3 DEF PredecessorFollows
    <2> QED
      BY <1>1, <2>1, <2>2, PredecessorWalkIs
  <1>5. PredecessorWalk(s)[L] = [last |-> apps[L], found |-> TRUE, result |-> result(L)]
    <2>1. L \in 0..L /\ (L >= i) = TRUE /\ last(L) = apps[L]
      BY <1>1
    <2> HIDE DEF last, result
    <2> QED
      BY <1>4, <2>1
  <1>6. predecessor_of(s) = IF result(L) # NoSession THEN result(L) ELSE apps[L]
    <2> HIDE DEF s, result
    <2> QED
      BY <1>5 DEF predecessor_of
  <1> QED
    BY <1>1, <1>6

-----------------------------------------------------------------------------
(* The container *)

\* Where the sessions are after one of them was erased.
LEMMA Erased ==
    ASSUME ContainerInv, NEW i \in 1..Len(apps)
    PROVE  /\ RemoveAt(apps, i) \in Seq(Session)
           /\ Len(RemoveAt(apps, i)) = Len(apps) - 1
           /\ \A k \in 1..Len(apps) - 1 :
                 RemoveAt(apps, i)[k] = IF k < i THEN apps[k] ELSE apps[k + 1]
  <1> DEFINE before == SubSeq(apps, 1, i - 1)
             after == SubSeq(apps, i + 1, Len(apps))
  <1>1. apps \in Seq(Session) /\ Len(apps) \in Nat /\ i \in Nat /\ i >= 1 /\ i <= Len(apps)
    BY DEF ContainerInv
  <1>2. /\ before \in Seq(Session)
        /\ Len(before) = i - 1
        /\ \A k \in 1..i - 1 : before[k] = apps[k]
    BY <1>1
  <1>3. /\ after \in Seq(Session)
        /\ Len(after) = Len(apps) - i
        /\ \A k \in 1..Len(apps) - i : after[k] = apps[i + k]
    BY <1>1
  <1> DEFINE both == before \o after
  <1> HIDE DEF before, after
  <1>4. /\ both \in Seq(Session)
        /\ Len(both) = Len(before) + Len(after)
        /\ \A k \in 1..Len(before) + Len(after) :
              both[k] = IF k <= Len(before) THEN before[k]
                                     ELSE after[k - Len(before)]
    BY <1>2, <1>3, ConcatProperties
  <1> HIDE DEF both
  <1>5. ASSUME NEW k \in 1..Len(apps) - 1
        PROVE  both[k] = IF k < i THEN apps[k] ELSE apps[k + 1]
    <2>0. /\ k \in 1..Len(before) + Len(after)
          /\ k \in Nat /\ (k <= Len(before)) = (k < i) /\ k - Len(before) = k - (i - 1)
      BY <1>1, <1>2, <1>3
    <2>1. CASE k < i
      <3>1. both[k] = before[k]
        BY <1>4, <2>0, <2>1, Zenon
      <3> QED
        BY <1>1, <1>2, <2>1, <3>1
    <2>2. CASE ~(k < i)
      <3>1. both[k] = after[k - (i - 1)]
        BY <1>4, <2>0, <2>2, Zenon
      <3>2. k - (i - 1) \in 1..Len(apps) - i /\ i + (k - (i - 1)) = k + 1
        BY <1>1, <2>2
      <3> QED
        BY <1>3, <2>2, <3>1, <3>2
    <2> QED
      BY <1>1, <2>1, <2>2
  <1>6. Len(both) = Len(apps) - 1
    BY <1>1, <1>2, <1>3, <1>4
  <1> QED
    BY <1>4, <1>5, <1>6 DEF RemoveAt, both, before, after

\* Erasing a session leaves the others, each once.
LEMMA RemoveSession ==
    ASSUME ContainerInv, NEW s, remove_session(s)
    PROVE  /\ ContainerInv'
           /\ s \in Registered
           /\ Registered' = Registered \ {s}
  <1>1. PICK i \in 1..Len(apps) : apps[i] = s /\ apps' = RemoveAt(apps, i)
    BY DEF remove_session
  <1>2. /\ Len(apps) \in Nat /\ i \in Nat /\ i >= 1 /\ i <= Len(apps)
        /\ apps' \in Seq(Session)
        /\ Len(apps') = Len(apps) - 1
        /\ \A k \in 1..Len(apps') : apps'[k] = IF k < i THEN apps[k] ELSE apps[k + 1]
    <2>1. Len(apps) \in Nat /\ i \in Nat /\ i >= 1 /\ i <= Len(apps)
      BY DEF ContainerInv
    <2>2. /\ apps' \in Seq(Session)
          /\ Len(apps') = Len(apps) - 1
          /\ \A k \in 1..Len(apps) - 1 : apps'[k] = IF k < i THEN apps[k] ELSE apps[k + 1]
      BY <1>1, Erased, Zenon
    <2> QED
      BY <2>1, <2>2, Zenon
  <1>3. NoRepeat'
    BY <1>2 DEF NoRepeat, ContainerInv
  <1>4. ASSUME NEW x \in Registered' PROVE x \in Registered \ {s}
    <2>1. PICK k \in 1..Len(apps') : x = apps'[k]
      BY DEF Registered
    <2> QED
      BY <1>1, <1>2, <2>1 DEF Registered, ContainerInv, NoRepeat
  <1>5. ASSUME NEW x \in Registered \ {s} PROVE x \in Registered'
    <2>1. PICK k \in 1..Len(apps) : x = apps[k] /\ k # i
      BY <1>1 DEF Registered
    <2>2. CASE k < i
      <3>1. k \in 1..Len(apps') /\ apps'[k] = x
        BY <1>2, <2>1, <2>2
      <3> QED
        BY <3>1 DEF Registered
    <2>3. CASE k > i
      <3>1. k - 1 \in 1..Len(apps') /\ apps'[k - 1] = x
        BY <1>2, <2>1, <2>3
      <3> QED
        BY <3>1 DEF Registered
    <2> QED
      BY <1>2, <2>1, <2>2, <2>3
  <1>6. s \in Registered
    BY <1>1 DEF Registered
  <1> QED
    BY <1>2, <1>3, <1>4, <1>5, <1>6 DEF ContainerInv

\* A new session comes last.
LEMMA InsertSession ==
    ASSUME ContainerInv, NEW s \in Session, s \notin Registered, insert_session(s)
    PROVE  ContainerInv' /\ Registered' = Registered \cup {s}
  <1>1. /\ Len(apps) \in Nat
        /\ apps' \in Seq(Session)
        /\ Len(apps') = Len(apps) + 1
        /\ \A k \in 1..Len(apps) : apps'[k] = apps[k]
        /\ apps'[Len(apps) + 1] = s
    BY DEF insert_session, ContainerInv
  <1>2. \A k \in 1..Len(apps) : apps[k] # s
    BY DEF Registered
  <1>3. NoRepeat'
    BY <1>1, <1>2 DEF NoRepeat, ContainerInv
  <1>4. Registered' = Registered \cup {s}
    BY <1>1 DEF Registered
  <1> QED
    BY <1>1, <1>3, <1>4 DEF ContainerInv

\* No session is twice in the container.
THEOREM SessionsAreDistinct == ContainerSpec => []ContainerInv
  <1>1. ContainerInit => ContainerInv
    BY DEF ContainerInit, ContainerInv, NoRepeat
  <1>2. ContainerInv /\ [ContainerNext]_apps => ContainerInv'
    <2> SUFFICES ASSUME ContainerInv, [ContainerNext]_apps PROVE ContainerInv'
      OBVIOUS
    <2>1. CASE UNCHANGED apps
      BY <2>1 DEF ContainerInv, NoRepeat
    <2> QED
      BY <2>1, InsertSession, RemoveSession DEF ContainerNext
  <1> QED
    BY <1>1, <1>2, PTL DEF ContainerSpec

\* What i % n is for the places in a sequence.
LEMMA RoundTheEnd ==
    ASSUME NEW n \in Nat, NEW i \in 1..n
    PROVE  (i % n) + 1 = IF i = n THEN 1 ELSE i + 1
  <1>1. CASE i < n
    <2>1. i % n = i
      BY <1>1
    <2> QED
      BY <1>1, <2>1
  <1>2. CASE i = n
    <2>1. i % n = 0
      BY <1>2
    <2> QED
      BY <1>2, <2>1
  <1> QED
    BY <1>1, <1>2

\* focus_next visits every session once in the order of registration before it
\* comes back, and predecessor_of undoes it, however many sessions there are.
THEOREM FocusGoesRound == ContainerSpec => []FocusCyclesInOrder
  <1>1. ContainerInv => FocusCyclesInOrder
    <2> SUFFICES ASSUME ContainerInv, NEW i \in 1..Len(apps)
                 PROVE  /\ successor_of(apps[i]) = apps[(i % Len(apps)) + 1]
                        /\ predecessor_of(successor_of(apps[i])) = apps[i]
      BY DEF FocusCyclesInOrder
    <2> DEFINE j == IF i = Len(apps) THEN 1 ELSE i + 1
    <2>1. Len(apps) \in Nat /\ j \in 1..Len(apps)
      BY DEF ContainerInv
    <2>2. successor_of(apps[i]) = apps[j]
      BY SuccessorIs
    <2>3. (i % Len(apps)) + 1 = j
      BY <2>1, RoundTheEnd
    <2>4. predecessor_of(apps[j]) = IF j = 1 THEN apps[Len(apps)] ELSE apps[j - 1]
      BY <2>1, PredecessorIs
    <2>5. (IF j = 1 THEN apps[Len(apps)] ELSE apps[j - 1]) = apps[i]
      BY <2>1
    <2> HIDE DEF j
    <2> QED
      BY <2>2, <2>3, <2>4, <2>5
  <1> QED
    BY <1>1, SessionsAreDistinct, PTL

\* Closing the session with the default focus hands it to the one opened before
\* it, and closing another leaves it, however many sessions there are.
THEOREM ClosingHandsFocusOver == ContainerSpec => ClosingTransfersFocus
  <1> DEFINE Handover ==
               \A s \in Session : remove_session(s) =>
                  default_focus' = IF s # default_focus THEN default_focus
                                   ELSE IF Len(apps) = 1 THEN NoSession
                                   ELSE predecessor_of(s)
  <1>1. ContainerInv => Handover
    <2> SUFFICES ASSUME ContainerInv, NEW s \in Session, remove_session(s)
                 PROVE  default_focus' = IF s # default_focus THEN default_focus
                                         ELSE IF Len(apps) = 1 THEN NoSession
                                         ELSE predecessor_of(s)
      OBVIOUS
    <2> DEFINE L == Len(apps)
    <2>1. PICK i \in 1..L : apps[i] = s /\ apps' = RemoveAt(apps, i)
      BY DEF remove_session
    <2>2. /\ L \in Nat /\ i \in Nat /\ i >= 1 /\ i <= L
          /\ default_focus = apps[L]
          /\ s = default_focus <=> i = L
      BY <2>1 DEF ContainerInv, NoRepeat, default_focus
    <2>3. /\ apps' \in Seq(Session)
          /\ Len(apps') = L - 1
          /\ \A k \in 1..L - 1 : apps'[k] = IF k < i THEN apps[k] ELSE apps[k + 1]
      BY <2>1, Erased, Zenon
    <2>4. L # 1 => default_focus' = apps'[L - 1]
      BY <2>2, <2>3 DEF default_focus
    <2>5. L = 1 => default_focus' = NoSession
      BY <2>2, <2>3 DEF default_focus
    <2>6. i = L => predecessor_of(s) = IF L = 1 THEN apps[L] ELSE apps[L - 1]
      BY <2>1, PredecessorIs
    <2>7. L # 1 => apps'[L - 1] = IF L - 1 < i THEN apps[L - 1] ELSE apps[L]
      BY <2>2, <2>3
    <2>8. CASE i = L /\ L = 1
      BY <2>2, <2>5, <2>8
    <2>9. CASE i = L /\ L # 1
      <3>1. default_focus' = apps[L - 1]
        BY <2>2, <2>4, <2>7, <2>9
      <3> QED
        BY <2>2, <2>6, <2>9, <3>1
    <2>10. CASE i # L
      <3>1. default_focus' = apps[L]
        BY <2>2, <2>4, <2>7, <2>10
      <3> QED
        BY <2>2, <2>10, <3>1
    <2> QED
      BY <2>8, <2>9, <2>10
  <1> QED
    BY <1>1, SessionsAreDistinct, PTL DEF ClosingTransfersFocus

-----------------------------------------------------------------------------
(* What a step of one thread leaves alone *)

\* A step of thread t: of the others' states it changes only that an assignment
\* under way becomes a race.
StepOf(t) ==
    \A u \in Thread \ {t} :
        /\ op'[u] = op[u]
        /\ target'[u] = target[u]
        /\ pc'[u] = pc[u] \/ (pc[u] \in Assigning /\ pc'[u] \in Assigning)
        /\ mutex' = u <=> mutex = u
        /\ guard' = u <=> guard = u

\* The container changes only by the session of thread t.
ContainerStepOf(t) ==
    /\ NoRepeat'
    /\ \A s \in Session \ {t} : s \in Registered' <=> s \in Registered
    /\ t \in Session => (t \in Registered' <=> ~Out(t)')
    /\ guard' = NoThread => cursor' = 1

\* The other threads' part of the invariant stays.
LEMMA ControlStays ==
    ASSUME ControlInv, TypeOK', NEW t \in Thread, StepOf(t), ContainerStepOf(t),
           StepsOf(t)', LocksOf(t)', \A s \in Session : SurfacesOf(s)'
    PROVE  ControlInv'
  <1>1. ASSUME NEW u \in Thread \ {t} PROVE StepsOf(u)' /\ LocksOf(u)'
    <2>1. StepsOf(u) /\ LocksOf(u)
      BY DEF ControlInv
    <2> QED
      BY <2>1 DEF StepOf, StepsOf, LocksOf, Resting, Focusing, Assigning, Walking
  <1>2. ASSUME NEW s \in Session PROVE s \in Registered' <=> ~Out(s)'
    <2>1. CASE s = t
      BY <2>1 DEF ContainerStepOf
    <2>2. CASE s # t
      <3>1. s \in Thread
        BY DEF Thread
      <3>2. s \in Registered' <=> s \in Registered
        BY <2>2 DEF ContainerStepOf
      <3>3. s \in Registered <=> ~Out(s)
        BY DEF ControlInv, RegisteredOnce
      <3>4. Out(s)' <=> Out(s)
        BY <2>2, <3>1 DEF StepOf, Out, Assigning
      <3> QED
        BY <3>2, <3>3, <3>4
    <2> QED
      BY <2>1, <2>2
  <1> QED
    BY <1>1, <1>2 DEF ControlInv, RegisteredOnce, ContainerStepOf

\* What there is to show of the session of thread t for FocusIsKnown.
LEMMA FocusStays ==
    ASSUME ControlInv, FocusIsKnown, ControlInv', NEW t \in Thread, StepOf(t), ContainerStepOf(t),
           \A p \in tags' : p \in tags \/ p[2] = t,
           \A p \in tags' : p[2] = t => Taggable(t)',
           pc'[t] \in Assigning => target'[t] = NoSession \/ Known(target[t])',
           \A u \in Thread \ {t} :
              pc[u] \in Assigning /\ target[u] = t /\ t \in Session => Known(t)',
           \/ focus_application' \in {focus_application, NoSession, Torn}
           \/ Known(focus_application)',
           focus_application' = t /\ t \in Session => Focused(t)'
    PROVE  FocusIsKnown'
  <1>1. ASSUME NEW s \in Session \ {t}
        PROVE  /\ Known(s)' <=> Known(s)
               /\ Taggable(s)' <=> Taggable(s)
               /\ Focused(s)' <=> Focused(s)
    <2>1. s \in Thread
      BY DEF Thread
    <2>2. s \in Registered' <=> s \in Registered
      BY DEF ContainerStepOf
    <2> QED
      BY <2>1, <2>2 DEF StepOf, Known, Taggable, Focused, Assigning
  <1>2. ASSUME NEW p \in tags' PROVE Taggable(p[2])'
    <2>1. p[2] \in Session
      BY DEF ControlInv, TypeOK
    <2> QED
      BY <1>1, <2>1 DEF FocusIsKnown
  <1>3. ASSUME NEW u \in Thread, pc'[u] \in Assigning
        PROVE  target'[u] = NoSession \/ Known(target[u])'
    <2>1. CASE u # t
      <3>1. pc[u] \in Assigning /\ target'[u] = target[u]
        BY <1>3, <2>1 DEF StepOf
      <3>2. target[u] \in Session \cup {NoSession}
        BY DEF ControlInv, TypeOK
      <3>3. target[u] = NoSession \/ Known(target[u])
        BY <3>1 DEF FocusIsKnown
      <3> QED
        BY <1>1, <2>1, <3>1, <3>2, <3>3
    <2> QED
      BY <1>3, <2>1
  <1>4. focus_application' \in {NoSession, Torn} \/ Focused(focus_application)'
    <2>1. focus_application' \in Session \cup {NoSession, Torn}
      BY DEF ControlInv, TypeOK
    <2>2. focus_application \in {NoSession, Torn} \/ Focused(focus_application)
      BY DEF FocusIsKnown
    <2>3. Known(focus_application)' => Focused(focus_application)'
      BY DEF Focused
    <2> QED
      BY <1>1, <2>1, <2>2, <2>3
  <1> QED
    BY <1>2, <1>3, <1>4 DEF FocusIsKnown

\* The same when the session of thread t stays what it is.
LEMMA FocusKept ==
    ASSUME ControlInv, FocusIsKnown, ControlInv', NEW t \in Thread, StepOf(t), ContainerStepOf(t),
           tags' \subseteq tags,
           focus_application' \in {focus_application, NoSession},
           pc'[t] \in Assigning => target'[t] = NoSession \/ Known(target[t])',
           t \in Session => /\ Known(t) => Known(t)'
                            /\ Taggable(t) => Taggable(t)'
                            /\ Focused(t) => Focused(t)'
    PROVE  FocusIsKnown'
  <1>1. \A p \in tags' : p[2] = t => Taggable(t)'
    BY DEF FocusIsKnown, ControlInv, TypeOK
  <1>2. \A u \in Thread \ {t} :
           pc[u] \in Assigning /\ target[u] = t /\ t \in Session => Known(t)'
    BY SessionAssumption DEF FocusIsKnown
  <1>3. focus_application' = t /\ t \in Session => Focused(t)'
    BY SessionAssumption, ThreadAssumption DEF FocusIsKnown
  <1> QED
    BY <1>1, <1>2, <1>3, FocusStays

\* A step outside the walks, after which every session is as quiet as before.
LEMMA QuietStays ==
    ASSUME IInv, ControlInv', NEW t \in Thread, StepOf(t), pc[t] \notin Walking,
           UNCHANGED <<apps, guard, cursor, missed, input_focus>>,
           \A s \in Session : Quiet(s) => Quiet(s)'
    PROVE  WalkHidesOthers' /\ OthersAreQuiet'
  <1>1. OthersAreQuiet'
    BY DEF IInv, ControlInv, TypeOK, OthersAreQuiet, Registered
  <1>2. ASSUME NEW u \in Thread, guard' = u
        PROVE /\ guard = u /\ pc'[u] = pc[u] /\ target'[u] = target[u]
    <2>1. guard = u /\ u # t /\ pc[u] \in Walking
      BY <1>2 DEF IInv, ControlInv, LocksOf
    <2> QED
      BY <2>1 DEF StepOf, Walking, Assigning
  <1>3. \A j \in 1..Len(apps) : apps[j] \in Session
    BY DEF IInv, ControlInv, TypeOK
  <1> QED
    BY <1>1, <1>2, <1>3 DEF IInv, WalkHidesOthers

\* Nobody's surfaces change.
LEMMA SurfacesStay ==
    ASSUME ControlInv, NEW t \in Thread, StepOf(t),
           UNCHANGED <<surfaces, next_surface_id, stack>>,
           pc[t] # "created", pc'[t] \notin {"start", "created"}
    PROVE  \A s \in Session : SurfacesOf(s)'
  <1> SUFFICES ASSUME NEW s \in Session PROVE SurfacesOf(s)'
    OBVIOUS
  <1>1. SurfacesOf(s) /\ s \in Thread
    BY DEF ControlInv, Thread
  <1>2. pc'[s] = "created" <=> pc[s] = "created"
    BY <1>1 DEF StepOf, Assigning
  <1>3. pc'[s] = "start" => pc[s] = "start"
    BY <1>1 DEF StepOf, Assigning
  <1> QED
    BY <1>1, <1>2, <1>3 DEF SurfacesOf

\* No session is inserted or removed.
LEMMA ContainerStays ==
    ASSUME ControlInv, NEW t, UNCHANGED apps, t \in Session => (Out(t)' <=> Out(t)),
           guard' = NoThread => cursor' = 1
    PROVE  ContainerStepOf(t)
  <1>1. Registered' = Registered /\ NoRepeat'
    BY DEF Registered, NoRepeat, ControlInv, RegisteredOnce
  <1> QED
    BY <1>1 DEF ControlInv, RegisteredOnce, ContainerStepOf

\* Every session is as quiet as before.
LEMMA QuietAsBefore ==
    ASSUME NEW t \in Thread, StepOf(t), stack' \ hidden' \subseteq stack \ hidden,
           NEW s \in Session, Quiet(s),
           s = t /\ Creating(s) => Creating(s)'
    PROVE  Quiet(s)'
  <1>1. s \in Thread
    BY DEF Thread
  <1>2. Creating(s) => Creating(s)'
    BY <1>1 DEF StepOf, Creating, Resting, Assigning
  <1> QED
    BY <1>2 DEF Quiet

-----------------------------------------------------------------------------
(* The steps of set_focus_to *)

\* The write of focus_application ends: what it leaves is a known session or torn.
LEMMA EndAssignKeeps ==
    ASSUME IInv, NEW t \in Thread, EndAssign(t)
    PROVE  IInv'
  <1> USE DEF Resting, Assigning, Walking
  <1>1. /\ TypeOK /\ StepsOf(t) /\ LocksOf(t) /\ ControlInv
        /\ pc' = [pc EXCEPT ![t] = "focus"]
        /\ pc'[t] = "focus" /\ \A u \in Thread \ {t} : pc'[u] = pc[u]
    BY DEF IInv, ControlInv, EndAssign, Goto, TypeOK
  <1>2. TypeOK'
    BY <1>1, ThreadAssumption DEF TypeOK, EndAssign, Goto, surfaceVars, inputVars
  <1>3. StepOf(t)
    BY <1>1, ThreadAssumption DEF StepOf, EndAssign, LocksOf, TypeOK, Thread
  <1>4. StepsOf(t)' /\ LocksOf(t)'
    BY <1>1, ThreadAssumption DEF StepsOf, LocksOf, EndAssign, Focusing, Thread
  <1>5. \A s \in Session : SurfacesOf(s)'
    BY <1>1, <1>3, SurfacesStay DEF EndAssign, surfaceVars
  <1>6. ContainerStepOf(t)
    BY <1>1, ContainerStays DEF EndAssign, Out, ControlInv, RegisteredOnce
  <1>7. ControlInv'
    BY <1>1, <1>2, <1>3, <1>4, <1>5, <1>6, ControlStays
  <1>8. FocusIsKnown'
    <2>1. ASSUME NEW s \in Session, Known(s) PROVE Known(s)'
      BY <1>1, <2>1 DEF Known, EndAssign, Registered, TypeOK, Thread
    <2>2. target[t] = NoSession \/ (target[t] \in Session /\ Known(target[t]))
      BY <1>1 DEF IInv, FocusIsKnown, EndAssign, TypeOK
    <2>3. \/ focus_application' \in {NoSession, Torn}
          \/ focus_application' \in Session /\ Known(focus_application)'
      BY <2>1, <2>2 DEF EndAssign
    <2>4. FocusIsKnown /\ op' = op /\ tags' = tags /\ pc'[t] \notin Assigning
      BY <1>1 DEF IInv, EndAssign
    <2>5. \A p \in tags : p[2] = t => Taggable(t)'
      BY <1>1, <2>1, <2>4 DEF FocusIsKnown, Taggable, TypeOK
    <2>6. \A u \in Thread \ {t} :
             pc[u] \in Assigning /\ target[u] = t /\ t \in Session => Known(t)'
      BY <2>1, <2>4, SessionAssumption DEF FocusIsKnown
    <2>7. focus_application' = t /\ t \in Session => Focused(t)'
      BY <2>3, ThreadAssumption, SessionAssumption DEF Focused
    <2> QED
      BY <1>1, <1>3, <1>6, <1>7, <2>3, <2>4, <2>5, <2>6, <2>7, FocusStays
  <1>9. ASSUME NEW s \in Session, Quiet(s) PROVE Quiet(s)'
    <2>1. s = t /\ Creating(s) => Creating(s)'
      BY <1>1 DEF Creating, EndAssign
    <2>2. stack' \ hidden' \subseteq stack \ hidden
      BY DEF EndAssign, surfaceVars
    <2> QED
      BY <1>3, <1>9, <2>1, <2>2, QuietAsBefore
  <1> QED
    BY <1>1, <1>3, <1>7, <1>8, <1>9, QuietStays DEF IInv, EndAssign, surfaceVars, inputVars

\* The focus setter takes the container's guard and has passed nobody yet.
LEMMA EnterKeeps ==
    ASSUME IInv, NEW t \in Thread, Enter(t)
    PROVE  IInv'
  <1> USE DEF Resting, Assigning, Walking
  <1>1. /\ TypeOK /\ StepsOf(t) /\ LocksOf(t) /\ ControlInv /\ FocusIsKnown
        /\ pc'[t] = "visit" /\ \A u \in Thread \ {t} : pc'[u] = pc[u]
    BY DEF IInv, ControlInv, Enter, Goto, TypeOK
  <1>2. TypeOK'
    BY <1>1, ThreadAssumption DEF TypeOK, Enter, Goto, surfaceVars, inputVars
  <1>3. StepOf(t)
    BY <1>1, ThreadAssumption DEF StepOf, Enter, Thread
  <1>4. StepsOf(t)' /\ LocksOf(t)'
    BY <1>1, ThreadAssumption DEF StepsOf, LocksOf, Enter, Focusing, Thread
  <1>5. \A s \in Session : SurfacesOf(s)'
    BY <1>1, <1>3, SurfacesStay DEF Enter, surfaceVars
  <1>6. ContainerStepOf(t)
    BY <1>1, ContainerStays DEF Enter, Out
  <1>7. ControlInv'
    BY <1>1, <1>2, <1>3, <1>4, <1>5, <1>6, ControlStays
  <1>8. FocusIsKnown'
    <2>1. /\ Known(t)' <=> Known(t)
          /\ Taggable(t)' <=> Taggable(t)
          /\ Focused(t) => Focused(t)'
      BY <1>1 DEF Known, Taggable, Focused, Enter, Registered
    <2> QED
      BY <1>1, <1>3, <1>6, <1>7, <2>1, FocusKept DEF Enter
  <1>9. WalkHidesOthers' /\ OthersAreQuiet'
    <2>1. guard' = t /\ cursor' = 1 /\ pc'[t] = "visit" /\ t # NoThread
      BY <1>1, ThreadAssumption DEF Enter, Thread
    <2> QED
      BY <2>1 DEF WalkHidesOthers, OthersAreQuiet
  <1> QED
    BY <1>7, <1>8, <1>9 DEF IInv

\* The default surface is one of the session's.
LEMMA DefaultSurfaceType ==
    ASSUME TypeOK, NEW s \in Session
    PROVE  default_surface(s) \in (0..MaxSurface - 1) \cup {NoSurface}
  <1>1. surfaces[s] \in SUBSET (0..MaxSurface - 1) /\ surfaces[s] \in SUBSET Nat
    BY ThreadAssumption DEF TypeOK
  <1>2. CASE surfaces[s] # {}
    <2>1. \E i \in surfaces[s] : \A j \in surfaces[s] : i <= j
      BY <1>1, <1>2, SmallestExists
    <2>2. default_surface(s) \in surfaces[s]
      BY <1>2, <2>1 DEF default_surface
    <2> QED
      BY <1>1, <2>2
  <1>3. CASE surfaces[s] = {}
    BY <1>3 DEF default_surface
  <1> QED
    BY <1>2, <1>3

\* What the walk does to the surfaces: it hides those of a session that does
\* not get the focus, all but one that is being created.
LEMMA VisitHides ==
    ASSUME ControlInv, NEW t \in Thread, Visit(t), StepOf(t), pc'[t] \notin Resting,
           NEW s \in Session, s # target[t], Quiet(s) \/ s = apps[cursor]
    PROVE  Quiet(s)'
  <1>1. Creating(s) => Creating(s)'
    BY DEF Visit, StepOf, Creating, Resting, Assigning, Thread
  <1>2. ASSUME ~Creating(s), NEW w \in stack' \ hidden', w[1] = s PROVE FALSE
    <2>1. w \in stack /\ w[1] = s /\ w[2] \in 0..MaxSurface - 1 /\ w = <<s, w[2]>>
      BY <1>2 DEF Visit, ControlInv, TypeOK, Surface
    <2>2. CASE s = apps[cursor]
      <3>1. hidden' = hidden \cup Of(s, surfaces[s])
        BY <2>2 DEF Visit, hide
      <3>2. w[2] \notin surfaces[s]
        BY <1>2, <2>1, <3>1 DEF Of
      <3>3. pc[s] = "created" /\ s \in Thread
        <4>1. SurfacesOf(s) /\ <<s, w[2]>> \in stack
          BY <2>1 DEF ControlInv
        <4> QED
          BY <2>1, <3>2, <4>1 DEF SurfacesOf, Thread
      <3>4. op[s] = "create"
        BY <3>3 DEF ControlInv, TypeOK, StepsOf, Focusing, Resting, Assigning, Walking
      <3> QED
        BY <1>2, <3>3, <3>4 DEF Creating, Resting
    <2>3. CASE s # apps[cursor]
      <3>1. w \notin hidden
        BY <1>2, <2>1, <2>3 DEF Visit, hide, show, Of
      <3> QED
        BY <1>2, <2>1, <2>3, <3>1 DEF Quiet
    <2> QED
      BY <2>2, <2>3
  <1> QED
    BY <1>1, <1>2 DEF Quiet

\* The walk passes one more session.
LEMMA VisitKeeps ==
    ASSUME IInv, NEW t \in Thread, Visit(t)
    PROVE  IInv'
  <1> USE DEF Resting, Assigning, Walking
  <1>1. /\ TypeOK /\ StepsOf(t) /\ LocksOf(t) /\ ControlInv /\ FocusIsKnown
        /\ pc[t] = "visit"
        /\ pc'[t] \in {"visit", "input"} /\ \A u \in Thread \ {t} : pc'[u] = pc[u]
        /\ apps[cursor] \in Session
        /\ cursor \in 1..Len(apps) /\ Len(apps) \in Nat
    <2>1. /\ TypeOK /\ StepsOf(t) /\ LocksOf(t) /\ ControlInv /\ FocusIsKnown
          /\ pc[t] = "visit"
      BY DEF IInv, ControlInv, Visit
    <2>2. pc' = pc \/ pc' = [pc EXCEPT ![t] = "input"]
      BY DEF Visit, Goto
    <2>3. cursor \in 1..Len(apps) /\ Len(apps) \in Nat /\ apps[cursor] \in Session
      BY <2>1 DEF Visit, TypeOK
    <2> QED
      BY <2>1, <2>2, <2>3 DEF TypeOK
  <1>2. TypeOK'
    <2>1. Of(apps[cursor], surfaces[apps[cursor]]) \subseteq stack
      <3>1. SurfacesOf(apps[cursor])
        BY <1>1 DEF ControlInv
      <3>2. \A id \in surfaces[apps[cursor]] : <<apps[cursor], id>> \in stack
        BY <3>1 DEF SurfacesOf
      <3> QED
        BY <3>2 DEF Of
    <2>2. hidden' \subseteq stack
      BY <1>1, <2>1 DEF Visit, hide, show, TypeOK
    <2>3. chosen' \in (0..MaxSurface - 1) \cup {NoSurface}
      BY <1>1, DefaultSurfaceType DEF Visit, TypeOK
    <2>4. pc' \in [Thread -> Resting \cup Assigning \cup Walking \cup
                  {"opened", "focus", "tag", "created", "mapped", "remove", "default",
                   "reset", "failed", "read", "successor"}]
      BY <1>1 DEF Visit, Goto, TypeOK
    <2>5. cursor' \in 1..Len(apps) + 1
      BY <1>1 DEF Visit
    <2> QED
      BY <1>1, <2>2, <2>3, <2>4, <2>5 DEF TypeOK, Visit, handleVars
  <1>3. StepOf(t)
    BY <1>1 DEF StepOf, Visit
  <1>4. StepsOf(t)' /\ LocksOf(t)'
    BY <1>1 DEF StepsOf, LocksOf, Visit, Focusing
  <1>5. \A s \in Session : SurfacesOf(s)'
    BY <1>1, <1>3, SurfacesStay DEF Visit
  <1>6. ContainerStepOf(t)
    BY <1>1, ThreadAssumption, ContainerStays DEF Visit, Out, LocksOf, Thread
  <1>7. ControlInv'
    BY <1>1, <1>2, <1>3, <1>4, <1>5, <1>6, ControlStays
  <1>8. FocusIsKnown'
    <2>1. /\ Known(t)' <=> Known(t)
          /\ Taggable(t)' <=> Taggable(t)
          /\ Focused(t) => Focused(t)'
      BY <1>1 DEF Known, Taggable, Focused, Visit, Registered
    <2> QED
      BY <1>1, <1>3, <1>6, <1>7, <2>1, FocusKept DEF Visit
  <1>9. guard = t /\ guard' = t /\ t # NoThread /\ target' = target /\ apps' = apps
    BY <1>1, ThreadAssumption DEF Visit, LocksOf, Thread
  <1>10. WalkHidesOthers'
    <2>1. ASSUME NEW j \in 1..Len(apps), j < cursor', apps[j] # target[t]
          PROVE  Quiet(apps[j])'
      <3>1. j < cursor \/ j = cursor
        BY <1>1, <2>1 DEF Visit
      <3>2. Quiet(apps[j]) \/ apps[j] = apps[cursor]
        BY <1>9, <2>1, <3>1 DEF IInv, WalkHidesOthers
      <3>3. apps[j] \in Session
        BY <1>1 DEF TypeOK
      <3>4. pc'[t] \notin Resting
        BY <1>1
      <3>5. \A s \in Session : s # target[t] /\ (Quiet(s) \/ s = apps[cursor]) => Quiet(s)'
        BY <1>1, <1>3, <3>4, VisitHides
      <3> QED
        BY <1>9, <2>1, <3>2, <3>3, <3>5
    <2>2. pc'[t] = "input" => cursor' > 1 /\ apps[cursor' - 1] = target[t]
      BY <1>1 DEF Visit
    <2>3. ASSUME pc'[t] = "visit", NEW j \in 1..Len(apps), j < cursor', apps[j] = target[t]
          PROVE  input_focus'.session = target[t]
      <3>1. apps[cursor] # target[t]
        BY <1>1, <2>3 DEF Visit, Goto, TypeOK
      <3>2. j < cursor
        BY <1>1, <2>3, <3>1 DEF Visit
      <3> QED
        BY <1>1, <1>9, <2>3, <3>2 DEF IInv, WalkHidesOthers, Visit
    <2> QED
      BY <1>9, <2>1, <2>2, <2>3 DEF WalkHidesOthers
  <1>11. OthersAreQuiet'
    BY <1>9 DEF OthersAreQuiet
  <1> QED
    BY <1>7, <1>8, <1>10, <1>11 DEF IInv

\* What ~ApplicationSession takes away.
LEMMA Destroyed ==
    ASSUME ControlInv, NEW closed \in SUBSET Session, DestroyUnreferenced(closed),
           hidden' = hidden \cap stack', UNCHANGED next_surface_id,
           \A s \in closed : pc[s] # "created",
           \A s \in Session : /\ pc'[s] = "created" <=> pc[s] = "created"
                              /\ pc'[s] = "start" => pc[s] = "start"
    PROVE  /\ focus_application' \in {focus_application, NoSession}
           /\ surfaces' \in [Session -> SUBSET (0..MaxSurface - 1)]
           /\ stack' \subseteq Surface /\ hidden' \subseteq stack'
           /\ stack' \ hidden' \subseteq stack \ hidden
           /\ \A s \in Session : SurfacesOf(s)'
  <1> DEFINE dead == {s \in closed : /\ s \notin Registered
                                     /\ \A p \in tags' : p[2] # s
                                     /\ focused_application_handle' # s
                                     /\ input_application' # s}
  <1>1. /\ stack' = {w \in stack : w[1] \notin dead}
        /\ surfaces' = [s \in Session |-> IF s \in dead THEN {} ELSE surfaces[s]]
        /\ focus_application' = IF focus_application \in dead THEN NoSession
                                ELSE focus_application
    BY DEF DestroyUnreferenced
  <1>2. dead \subseteq closed
    OBVIOUS
  <1> HIDE DEF dead
  <1>3. /\ stack \subseteq Surface /\ hidden \subseteq stack
        /\ surfaces \in [Session -> SUBSET (0..MaxSurface - 1)]
    BY DEF ControlInv, TypeOK
  <1>4. ASSUME NEW s \in Session PROVE SurfacesOf(s)'
    <2>1. SurfacesOf(s) /\ surfaces'[s] = IF s \in dead THEN {} ELSE surfaces[s]
      BY <1>1 DEF ControlInv
    <2>2. \A id \in 0..MaxSurface - 1 : <<s, id>> \in stack' <=> <<s, id>> \in stack /\ s \notin dead
      BY <1>1
    <2>3. surfaces[s] \subseteq 0..MaxSurface - 1
      BY <1>3
    <2>4. CASE s \in dead
      BY <1>2, <2>1, <2>2, <2>4 DEF SurfacesOf
    <2>5. CASE s \notin dead
      <3>1. \A id \in surfaces[s] : <<s, id>> \in stack'
        BY <2>1, <2>2, <2>3, <2>5 DEF SurfacesOf
      <3>2. pc[s] = "created" => <<s, next_surface_id[s]>> \in stack'
        BY <1>1, <2>1, <2>5 DEF SurfacesOf
      <3> QED
        BY <2>1, <2>2, <2>5, <3>1, <3>2 DEF SurfacesOf
    <2> QED
      BY <2>4, <2>5
  <1> QED
    BY <1>1, <1>3, <1>4

\* The input goes to the session that the walk has just passed.
LEMMA SetInputFocusKeeps ==
    ASSUME IInv, NEW t \in Thread, set_input_focus_to(t)
    PROVE  IInv'
  <1> USE DEF Resting, Assigning, Walking
  <1>1. /\ TypeOK /\ StepsOf(t) /\ LocksOf(t) /\ ControlInv /\ FocusIsKnown
        /\ pc[t] = "input"
        /\ pc'[t] = "visit" /\ \A u \in Thread \ {t} : pc'[u] = pc[u]
        /\ UNCHANGED <<apps, mutex, guard, cursor, op, target, tags, next_surface_id, missed>>
        /\ input_focus'.session = target[t]
    BY DEF IInv, ControlInv, set_input_focus_to, Goto, TypeOK
  <1>2. /\ focus_application' \in {focus_application, NoSession}
        /\ surfaces' \in [Session -> SUBSET (0..MaxSurface - 1)]
        /\ stack' \subseteq Surface /\ hidden' \subseteq stack'
        /\ stack' \ hidden' \subseteq stack \ hidden
        /\ \A s \in Session : SurfacesOf(s)'
    <2>1. /\ Closed \in SUBSET Session
          /\ \A s \in Closed : pc[s] # "created"
      BY DEF Closed
    <2>2. \A s \in Session : /\ pc'[s] = "created" <=> pc[s] = "created"
                             /\ pc'[s] = "start" => pc[s] = "start"
      BY <1>1 DEF Thread
    <2>3. /\ DestroyUnreferenced(Closed)
          /\ hidden' = hidden \cap stack'
      BY DEF set_input_focus_to
    <2> QED
      BY <1>1, <2>1, <2>2, <2>3, Destroyed
  <1>3. TypeOK'
    <2>1. pc' \in [Thread -> Resting \cup Assigning \cup Walking \cup
                  {"opened", "focus", "tag", "created", "mapped", "remove", "default",
                   "reset", "failed", "read", "successor"}]
      BY <1>1 DEF set_input_focus_to, Goto, TypeOK
    <2>2. target[t] \in Session \cup {NoSession}
      BY <1>1 DEF TypeOK
    <2>3. /\ chosen' = NoSurface
          /\ focused_application_handle' \in {focused_application_handle, target[t], NoSession}
          /\ input_application' \in {input_application, target[t]}
      BY DEF set_input_focus_to
    <2> QED
      BY <1>1, <1>2, <2>1, <2>2, <2>3 DEF TypeOK
  <1>4. StepOf(t)
    BY <1>1 DEF StepOf
  <1>5. StepsOf(t)' /\ LocksOf(t)'
    BY <1>1 DEF StepsOf, LocksOf, Focusing
  <1>6. ContainerStepOf(t)
    BY <1>1, ThreadAssumption, ContainerStays DEF Out, LocksOf, Thread
  <1>7. ControlInv'
    BY <1>1, <1>2, <1>3, <1>4, <1>5, <1>6, ControlStays
  <1>8. FocusIsKnown'
    <2>1. /\ Known(t)' <=> Known(t)
          /\ Taggable(t)' <=> Taggable(t)
          /\ Focused(t) => Focused(t)'
      BY <1>1 DEF Known, Taggable, Focused, Registered
    <2> QED
      BY <1>1, <1>2, <1>4, <1>6, <1>7, <2>1, FocusKept
  <1>9. guard = t /\ guard' = t /\ t # NoThread
    BY <1>1, ThreadAssumption DEF LocksOf, Thread
  <1>10. WalkHidesOthers'
    <2>1. \A s \in Session : Quiet(s) => Quiet(s)'
      <3>1. \A s \in Session : s = t /\ Creating(s) => Creating(s)'
        BY <1>1 DEF Creating
      <3> QED
        BY <1>2, <1>4, <3>1, QuietAsBefore
    <2>2. ASSUME NEW j \in 1..Len(apps), j < cursor, apps[j] # target[t]
          PROVE  Quiet(apps[j])'
      <3>1. Quiet(apps[j])
        BY <1>9, <2>2 DEF IInv, WalkHidesOthers
      <3>2. apps[j] \in Session
        BY <1>1 DEF TypeOK
      <3> QED
        BY <1>1, <2>1, <3>1, <3>2
    <2> QED
      BY <1>1, <1>9, <2>2 DEF WalkHidesOthers
  <1>11. OthersAreQuiet'
    BY <1>9 DEF OthersAreQuiet
  <1> QED
    BY <1>7, <1>8, <1>10, <1>11 DEF IInv

\* The walk is cut short; a session whose close_session this was stays known.
LEMMA InputWindowThrowsKeeps ==
    ASSUME IInv, NEW t \in Thread, InputWindowThrows(t)
    PROVE  IInv'
  <1> USE DEF Resting, Assigning, Walking
  <1> DEFINE end == IF op[t] = "close" THEN "failed" ELSE "idle"
  <1>1. /\ TypeOK /\ StepsOf(t) /\ LocksOf(t) /\ ControlInv /\ FocusIsKnown
        /\ pc[t] = "input" /\ guard = t /\ t # NoThread
        /\ op'[t] = "none" /\ \A u \in Thread \ {t} : op'[u] = op[u]
        /\ target'[t] = NoSession /\ \A u \in Thread \ {t} : target'[u] = target[u]
        /\ pc'[t] = end /\ \A u \in Thread \ {t} : pc'[u] = pc[u]
        /\ UNCHANGED <<apps, tags, next_surface_id>>
    BY ThreadAssumption
    DEF IInv, ControlInv, InputWindowThrows, Goto, Finish, TypeOK, LocksOf, Thread
  <1>10. /\ cursor > 1 /\ apps[cursor - 1] = target[t] /\ target[t] \in Session
         /\ missed' = {target[t]} \cup {apps[i] : i \in cursor..Len(apps)}
         /\ missed' \subseteq Session
    <2>1. cursor > 1 /\ apps[cursor - 1] = target[t]
      BY <1>1 DEF IInv, WalkHidesOthers
    <2>2. target[t] \in Session
      BY <1>1, <2>1 DEF TypeOK
    <2>3. \A i \in cursor..Len(apps) : apps[i] \in Session
      BY <1>1, <2>1 DEF TypeOK
    <2> QED
      BY <2>1, <2>2, <2>3 DEF InputWindowThrows
  <1>5. /\ focus_application' \in {focus_application, NoSession}
        /\ surfaces' \in [Session -> SUBSET (0..MaxSurface - 1)]
        /\ stack' \subseteq Surface /\ hidden' \subseteq stack'
        /\ stack' \ hidden' \subseteq stack \ hidden
        /\ \A s \in Session : SurfacesOf(s)'
    <2>1. /\ Closed \in SUBSET Session
          /\ \A s \in Closed : pc[s] # "created"
      BY DEF Closed
    <2>2. \A s \in Session : /\ pc'[s] = "created" <=> pc[s] = "created"
                             /\ pc'[s] = "start" => pc[s] = "start"
      BY <1>1 DEF Thread
    <2>3. /\ DestroyUnreferenced(Closed)
          /\ hidden' = hidden \cap stack'
      BY DEF InputWindowThrows
    <2> QED
      BY <1>1, <2>1, <2>2, <2>3, Destroyed
  <1>2. TypeOK'
    <2>1. Len(apps) \in Nat /\ 1 \in 1..Len(apps) + 1
      BY <1>1 DEF TypeOK
    <2>2. /\ pc' = [pc EXCEPT ![t] = end]
          /\ op' = [op EXCEPT ![t] = "none"]
          /\ target' = [target EXCEPT ![t] = NoSession]
          /\ mutex' \in {mutex, NoThread} /\ guard' = NoThread /\ cursor' = 1
          /\ chosen' = NoSurface /\ input_focus'.session = NoSession
          /\ focused_application_handle' = target[t]
          /\ UNCHANGED input_application
      BY DEF InputWindowThrows, Goto, Finish, NoInput
    <2> QED
      BY <1>1, <1>5, <1>10, <2>1, <2>2, ThreadAssumption DEF TypeOK
  <1>3. StepOf(t)
    BY <1>1, ThreadAssumption DEF StepOf, InputWindowThrows, Thread
  <1>4. StepsOf(t)' /\ LocksOf(t)'
    BY <1>1, ThreadAssumption DEF StepsOf, LocksOf, InputWindowThrows, Thread
  <1>6. ContainerStepOf(t)
    <2>1. Out(t)' <=> Out(t)
      BY <1>1 DEF Out
    <2> QED
      BY <1>1, <2>1, ContainerStays DEF InputWindowThrows
  <1>7. ControlInv'
    BY <1>1, <1>2, <1>3, <1>4, <1>5, <1>6, ControlStays
  <1>8. FocusIsKnown'
    <2>1. /\ Known(t) => Known(t)'
          /\ op[t] = "close" => Known(t)'
      BY <1>1 DEF Known, InputWindowThrows, Registered
    <2>2. /\ Taggable(t) => Taggable(t)'
          /\ Focused(t) => Focused(t)'
      BY <2>1 DEF Taggable, Focused
    <2> QED
      BY <1>1, <1>3, <1>5, <1>6, <1>7, <2>1, <2>2, FocusKept
  <1>9. guard' = NoThread
    BY DEF InputWindowThrows
  <1>11. WalkHidesOthers'
    BY <1>9, ThreadAssumption DEF WalkHidesOthers, Thread
  <1>12. OthersAreQuiet'
    <2> SUFFICES ASSUME NEW j \in 1..Len(apps), apps[j] \notin missed'
                 PROVE  Quiet(apps[j])'
      BY <1>1 DEF OthersAreQuiet, Registered
    <2>1. j < cursor /\ apps[j] # target[t] /\ apps[j] \in Session
      BY <1>1, <1>10 DEF TypeOK
    <2>2. Quiet(apps[j])
      BY <1>1, <2>1 DEF IInv, WalkHidesOthers
    <2>3. ~(apps[j] = t /\ Creating(apps[j]))
      BY <1>1, <2>1 DEF Creating, StepsOf, Focusing
    <2> HIDE DEF end
    <2> QED
      BY <1>1, <1>3, <1>5, <2>1, <2>2, <2>3, QuietAsBefore
  <1> QED
    BY <1>7, <1>8, <1>11, <1>12 DEF IInv

\* The walk ends: it has hidden all sessions but the one that has the input, and
\* nothing refers any more to a session that it closes.
LEMMA LeaveKeeps ==
    ASSUME IInv, NEW t \in Thread, Leave(t)
    PROVE  IInv'
  <1> USE DEF Resting, Assigning, Walking
  <1>1. /\ TypeOK /\ StepsOf(t) /\ LocksOf(t) /\ ControlInv /\ FocusIsKnown
        /\ pc[t] = "visit" /\ guard = t /\ t # NoThread
        /\ op'[t] = "none" /\ \A u \in Thread \ {t} : op'[u] = op[u]
        /\ target'[t] = NoSession /\ \A u \in Thread \ {t} : target'[u] = target[u]
        /\ pc'[t] = CASE op[t] = "open" -> "tag"
                      [] op[t] = "close" -> "reset"
                      [] OTHER -> "idle"
        /\ \A u \in Thread \ {t} : pc'[u] = pc[u]
    BY ThreadAssumption DEF IInv, ControlInv, Leave, Goto, Finish, TypeOK, LocksOf, Thread
  <1>2. /\ op[t] = "open" => pc'[t] = "tag"
        /\ op[t] = "close" => pc'[t] = "reset"
        /\ op[t] \notin {"open", "close"} => pc'[t] = "idle"
        /\ pc'[t] \in {"tag", "reset", "idle"}
    BY <1>1
  <1>3. TypeOK'
    <2>1. Len(apps) \in Nat /\ 1 \in 1..Len(apps) + 1
      BY <1>1 DEF TypeOK
    <2>2. pc' \in [Thread -> Resting \cup Assigning \cup Walking \cup
                  {"opened", "focus", "tag", "created", "mapped", "remove", "default",
                   "reset", "failed", "read", "successor"}]
      BY <1>1 DEF Leave, Goto, TypeOK
    <2>3. tags' \subseteq tags
      BY DEF Leave
    <2> QED
      BY <1>1, <2>1, <2>2, <2>3, ThreadAssumption DEF TypeOK, Leave, Finish, handleVars
  <1>4. StepOf(t)
    BY <1>1, ThreadAssumption DEF StepOf, Leave, Thread
  <1>5. StepsOf(t)' /\ LocksOf(t)'
    BY <1>1, <1>2, ThreadAssumption DEF StepsOf, LocksOf, Leave, Thread
  <1>6. \A s \in Session : SurfacesOf(s)'
    BY <1>1, <1>2, <1>4, SurfacesStay DEF Leave
  <1>7. Out(t)' <=> Out(t)
    BY <1>1, <1>2 DEF Out
  <1>8. ContainerStepOf(t)
    BY <1>1, <1>7, ContainerStays DEF Leave
  <1>9. ControlInv'
    BY <1>1, <1>3, <1>4, <1>5, <1>6, <1>8, ControlStays
  <1>10. FocusIsKnown'
    <2>1. t \in Session /\ Known(t) => Known(t)'
      BY <1>1, <1>2 DEF Known, Leave, Registered
    <2>2. /\ tags' \subseteq tags /\ focus_application' = focus_application
          /\ op[t] = "close" => \A p \in tags' : p[2] # t
      BY DEF Leave
    <2>3. \A p \in tags' : p[2] = t => Taggable(t)'
      <3> SUFFICES ASSUME NEW p \in tags', p[2] = t PROVE Known(t)'
        BY DEF Taggable
      <3>1. t \in Session /\ op[t] # "close" /\ p \in tags
        BY <1>1, <2>2 DEF TypeOK
      <3>2. Taggable(p[2])
        BY <1>1, <3>1 DEF FocusIsKnown
      <3> QED
        BY <2>1, <3>1, <3>2 DEF Taggable
    <2>4. \A u \in Thread \ {t} :
             pc[u] \in Assigning /\ target[u] = t /\ t \in Session => Known(t)'
      BY <1>1, <2>1, SessionAssumption DEF FocusIsKnown
    <2>5. focus_application' = t /\ t \in Session => Focused(t)'
      BY <1>1, <2>1, <2>2, SessionAssumption, ThreadAssumption DEF FocusIsKnown, Focused
    <2> QED
      BY <1>1, <1>2, <1>4, <1>8, <1>9, <2>2, <2>3, <2>4, <2>5, FocusStays
  <1>11. OthersAreQuiet'
    <2> SUFFICES ASSUME NEW s \in Registered' PROVE Quiet(s)' \/ input_focus'.session = s
      BY DEF OthersAreQuiet
    <2>1. PICK j \in 1..Len(apps) : s = apps[j]
      BY DEF Leave, Registered
    <2>2. s \in Session /\ j < cursor
      BY <1>1, <2>1 DEF Leave, TypeOK
    <2>3. CASE s = target[t]
      BY <1>1, <2>1, <2>2, <2>3 DEF IInv, WalkHidesOthers, Leave
    <2>4. CASE s # target[t]
      <3>1. Quiet(s)
        BY <1>1, <2>1, <2>2, <2>4 DEF IInv, WalkHidesOthers
      <3>2. ~(s = t /\ Creating(s))
        BY <1>1, <2>4 DEF StepsOf, Creating, Focusing
      <3>3. stack' \ hidden' \subseteq stack \ hidden
        BY DEF Leave
      <3> QED
        BY <1>4, <2>2, <3>1, <3>2, <3>3, QuietAsBefore
    <2> QED
      BY <2>3, <2>4
  <1>12. WalkHidesOthers'
    BY ThreadAssumption DEF WalkHidesOthers, Leave, Thread
  <1> QED
    BY <1>9, <1>10, <1>11, <1>12 DEF IInv

\* set_focus_to begins: whoever calls it, with a session that is known.
LEMMA AssignKeeps ==
    ASSUME IInv, NEW t \in Thread, NEW x \in Session \cup {NoSession},
           x = NoSession \/ Known(x), BeginAssign(t, x),
           UNCHANGED <<apps, focus_application, tags, guard, cursor, surfaceVars>>,
           pc[t] \in {"opened", "mapped", "idle", "default", "successor"},
           NEW o \in {"open", "create", "by_id", "close", "next"},
           op' = [op EXCEPT ![t] = o], op[t] \in {"none", o},
           o = "close" => op[t] = "close" /\ pc[t] = "default",
           o = "next" <=> t = shell,
           o \in {"open", "create"} => x = t,
           o = "create" => mutex' = mutex,
           o # "create" => mutex' = t /\ mutex \in {t, NoThread}
    PROVE  IInv'
  <1> USE DEF Resting, Assigning, Walking
  <1>1. /\ TypeOK /\ StepsOf(t) /\ LocksOf(t) /\ ControlInv /\ FocusIsKnown
        /\ op'[t] = o /\ \A u \in Thread \ {t} : op'[u] = op[u]
        /\ target' = [target EXCEPT ![t] = x]
        /\ target'[t] = x /\ \A u \in Thread \ {t} : target'[u] = target[u]
    BY DEF IInv, ControlInv, BeginAssign, TypeOK
  <1>2. /\ pc'[t] \in Assigning
        /\ \A u \in Thread \ {t} :
              pc'[u] = pc[u] \/ (pc[u] \in Assigning /\ pc'[u] \in Assigning)
        /\ pc' \in [Thread -> Resting \cup Assigning \cup Walking \cup
                  {"opened", "focus", "tag", "created", "mapped", "remove", "default",
                   "reset", "failed", "read", "successor"}]
    <2> DEFINE others == {u \in Thread \ {t} : pc[u] \in Assigning}
               step(u) == CASE u = t -> IF others = {} THEN "assign" ELSE "racing"
                            [] u \in others -> "racing"
                            [] OTHER -> pc[u]
    <2>1. pc' = [u \in Thread |-> step(u)]
      BY DEF BeginAssign
    <2>2. step(t) \in Assigning
      OBVIOUS
    <2>3. ASSUME NEW u \in Thread \ {t}
          PROVE  step(u) = IF u \in others THEN "racing" ELSE pc[u]
      OBVIOUS
    <2> HIDE DEF step
    <2>4. \A u \in Thread \ {t} :
             pc'[u] = pc[u] \/ (pc[u] \in Assigning /\ pc'[u] \in Assigning)
      BY <2>1, <2>3
    <2>5. pc'[t] \in Assigning
      BY <2>1, <2>2
    <2> QED
      BY <1>1, <2>1, <2>4, <2>5 DEF TypeOK
  <1>3. TypeOK'
    BY <1>1, <1>2, ThreadAssumption DEF TypeOK, surfaceVars, inputVars
  <1>4. StepOf(t)
    BY <1>1, <1>2, ThreadAssumption DEF StepOf, Thread
  <1>5. StepsOf(t)' /\ LocksOf(t)'
    <2>1. mutex' = t <=> o # "create"
      BY <1>1, ThreadAssumption DEF LocksOf, Thread
    <2>2. guard' # t /\ pc'[t] \notin Walking
      BY <1>1, <1>2 DEF LocksOf
    <2> QED
      BY <1>1, <1>2, <2>1, <2>2 DEF StepsOf, LocksOf, Focusing
  <1>6. \A s \in Session : SurfacesOf(s)'
    BY <1>1, <1>2, <1>4, SurfacesStay DEF surfaceVars
  <1>7. ContainerStepOf(t)
    <2>1. Out(t)' <=> Out(t)
      BY <1>1, <1>2 DEF Out
    <2> QED
      BY <1>1, <2>1, ContainerStays DEF ControlInv, RegisteredOnce
  <1>8. ControlInv'
    BY <1>1, <1>3, <1>4, <1>5, <1>6, <1>7, ControlStays
  <1>9. FocusIsKnown'
    <2>1. \A s \in Session : Known(s) => Known(s)'
      BY <1>2 DEF Known, Registered, Thread
    <2>2. op[t] = "close" => op'[t] = "close"
      BY <1>1
    <2>3. t \in Session => /\ Taggable(t) => Taggable(t)'
                           /\ Focused(t) => Focused(t)'
      BY <1>2, <2>1, <2>2 DEF Taggable, Focused
    <2>4. target'[t] = NoSession \/ Known(target[t])'
      BY <1>1, <2>1 DEF Known
    <2> QED
      BY <1>1, <1>4, <1>7, <1>8, <2>1, <2>3, <2>4, FocusKept
  <1>10. \A s \in Session : Quiet(s) => Quiet(s)'
    <2>1. \A s \in Session : s = t /\ Creating(s) => Creating(s)'
      BY <1>1, <1>2 DEF Creating
    <2>2. stack' \ hidden' \subseteq stack \ hidden
      BY DEF surfaceVars
    <2> QED
      BY <1>4, <2>1, <2>2, QuietAsBefore
  <1> QED
    BY <1>1, <1>4, <1>8, <1>9, <1>10, QuietStays DEF IInv, surfaceVars, inputVars

-----------------------------------------------------------------------------
(* The requests *)

\* A new session has no surfaces, and the focus is set to it.
LEMMA OpenSessionKeeps ==
    ASSUME IInv, NEW s \in Session, OpenSession(s)
    PROVE  IInv'
  <1> USE DEF Resting, Assigning, Walking
  <1>1. /\ TypeOK /\ StepsOf(s) /\ LocksOf(s) /\ SurfacesOf(s) /\ ControlInv /\ FocusIsKnown
        /\ s \in Thread /\ s # shell /\ s # NoThread
    BY ThreadAssumption DEF IInv, ControlInv, Thread
  <1>2. CASE pc[s] = "opened"
    <2>1. s \in Registered
      BY <1>1, <1>2 DEF ControlInv, RegisteredOnce, Out, StepsOf, Focusing
    <2>2. /\ BeginAssign(s, s) /\ mutex = NoThread /\ mutex' = s
          /\ op' = [op EXCEPT ![s] = "open"]
          /\ UNCHANGED <<apps, focus_application, tags, guard, cursor, surfaceVars>>
      BY <1>2 DEF OpenSession, Lock
    <2>3. op[s] = "none"
      BY <1>1, <1>2 DEF StepsOf, Focusing, TypeOK
    <2> QED
      BY <1>1, <1>2, <2>1, <2>2, <2>3, AssignKeeps DEF Known
  <1>3. CASE pc[s] = "start"
    <2>1. /\ guard = NoThread /\ insert_session(s)
          /\ pc' = [pc EXCEPT ![s] = "opened"]
          /\ pc'[s] = "opened" /\ \A u \in Thread \ {s} : pc'[u] = pc[u]
          /\ UNCHANGED <<mutex, focus_application, tags, guard, cursor, op, target, surfaceVars>>
      BY <1>1, <1>3 DEF OpenSession, Goto, TypeOK
    <2>2. /\ s \notin Registered
          /\ ContainerInv' /\ Registered' = Registered \cup {s}
          /\ cursor = 1
      <3>1. s \notin Registered /\ ContainerInv /\ cursor = 1
        BY <1>1, <1>3, <2>1 DEF ControlInv, RegisteredOnce, Out, ContainerInv, TypeOK
      <3> QED
        BY <2>1, <3>1, InsertSession
    <2>3. TypeOK'
      <3>1. apps' \in Seq(Session) /\ Len(apps') \in Nat /\ cursor' \in 1..Len(apps') + 1
        BY <2>1, <2>2 DEF ContainerInv
      <3> QED
        BY <1>1, <2>1, <3>1 DEF TypeOK, surfaceVars, inputVars
    <2>4. StepOf(s)
      BY <2>1 DEF StepOf
    <2>5. StepsOf(s)' /\ LocksOf(s)'
      BY <1>1, <1>3, <2>1 DEF StepsOf, LocksOf, Focusing
    <2>6. \A r \in Session : SurfacesOf(r)'
      BY <1>1, <1>3, <2>1, <2>4, SurfacesStay DEF surfaceVars
    <2>7. ContainerStepOf(s)
      <3>1. ~Out(s)'
        BY <1>1, <1>3, <2>1 DEF Out, StepsOf, Focusing
      <3> QED
        BY <2>1, <2>2, <3>1 DEF ContainerStepOf, ContainerInv
    <2>8. ControlInv'
      BY <1>1, <2>3, <2>4, <2>5, <2>6, <2>7, ControlStays
    <2>9. FocusIsKnown'
      <3>1. Known(s)'
        BY <2>2 DEF Known
      <3>2. Taggable(s)' /\ Focused(s)'
        BY <3>1 DEF Taggable, Focused
      <3> QED
        BY <1>1, <2>1, <2>4, <2>7, <2>8, <3>1, <3>2, FocusKept
    <2>10. OthersAreQuiet'
      <3> SUFFICES ASSUME NEW r \in Registered'
                   PROVE  Quiet(r)' \/ input_focus'.session = r \/ r \in missed'
        BY <2>1 DEF OthersAreQuiet, surfaceVars, inputVars
      <3>1. CASE r = s
        <4>1. ASSUME NEW w \in stack PROVE w[1] # s
          <5>1. w = <<w[1], w[2]>> /\ w[2] \in 0..MaxSurface - 1
            BY <1>1 DEF TypeOK, Surface
          <5> QED
            BY <1>1, <1>3, <5>1 DEF SurfacesOf
        <4> QED
          BY <2>1, <3>1, <4>1 DEF Quiet, surfaceVars
      <3>2. CASE r # s
        <4>1. r \in Registered /\ r \in Session
          <5>1. r \in Registered
            BY <2>2, <3>2
          <5> QED
            BY <1>1, <5>1 DEF Registered, TypeOK
        <4>2. Quiet(r) \/ input_focus.session = r \/ r \in missed
          BY <2>1, <4>1 DEF IInv, OthersAreQuiet
        <4>3. /\ stack' \ hidden' \subseteq stack \ hidden
              /\ input_focus' = input_focus /\ missed' = missed
          BY <2>1 DEF surfaceVars, inputVars
        <4> QED
          BY <1>1, <2>4, <3>2, <4>1, <4>2, <4>3, QuietAsBefore
      <3> QED
        BY <3>1, <3>2
    <2>11. WalkHidesOthers'
      BY <2>1, ThreadAssumption DEF WalkHidesOthers, Thread
    <2> QED
      BY <2>8, <2>9, <2>10, <2>11 DEF IInv
  <1> QED
    BY <1>2, <1>3 DEF OpenSession

\* connect tags the session it opened.
LEMMA TagKeeps ==
    ASSUME IInv, NEW s \in Session, tag_session_with_lightdm_id(s)
    PROVE  IInv'
  <1> USE DEF Resting, Assigning, Walking
  <1>1. /\ TypeOK /\ StepsOf(s) /\ LocksOf(s) /\ ControlInv /\ FocusIsKnown
        /\ s \in Thread /\ s # shell /\ s # NoThread
        /\ pc[s] = "tag" /\ op[s] = "none"
        /\ pc' = [pc EXCEPT ![s] = "idle"]
        /\ pc'[s] = "idle" /\ \A u \in Thread \ {s} : pc'[u] = pc[u]
        /\ UNCHANGED <<apps, mutex, guard, cursor, op, target, next_surface_id, inputVars>>
    BY ThreadAssumption DEF IInv, ControlInv, Thread, tag_session_with_lightdm_id, Goto, TypeOK,
       StepsOf, Focusing
  <1>2. /\ focus_application' \in {focus_application, NoSession}
        /\ surfaces' \in [Session -> SUBSET (0..MaxSurface - 1)]
        /\ stack' \subseteq Surface /\ hidden' \subseteq stack'
        /\ stack' \ hidden' \subseteq stack \ hidden
        /\ \A r \in Session : SurfacesOf(r)'
    <2>1. /\ Closed \in SUBSET Session
          /\ \A r \in Closed : pc[r] # "created"
      BY DEF Closed
    <2>2. \A r \in Session : /\ pc'[r] = "created" <=> pc[r] = "created"
                             /\ pc'[r] = "start" => pc[r] = "start"
      BY <1>1 DEF Thread
    <2>3. /\ DestroyUnreferenced(Closed)
          /\ hidden' = hidden \cap stack'
      BY DEF tag_session_with_lightdm_id
    <2> QED
      BY <1>1, <2>1, <2>2, <2>3, Destroyed
  <1>3. /\ tags' \subseteq Id \X Session
        /\ \A p \in tags' : p \in tags \/ p[2] = s
    BY <1>1 DEF tag_session_with_lightdm_id, TypeOK
  <1>4. TypeOK'
    BY <1>1, <1>2, <1>3 DEF TypeOK, inputVars
  <1>5. StepOf(s)
    BY <1>1 DEF StepOf
  <1>6. StepsOf(s)' /\ LocksOf(s)'
    BY <1>1 DEF StepsOf, LocksOf, Focusing
  <1>7. s \in Registered /\ Registered' = Registered
    BY <1>1 DEF ControlInv, RegisteredOnce, Out, Registered
  <1>8. ContainerStepOf(s)
    BY <1>1, ContainerStays DEF Out, ControlInv, RegisteredOnce
  <1>9. ControlInv'
    BY <1>1, <1>2, <1>4, <1>5, <1>6, <1>8, ControlStays
  <1>10. FocusIsKnown'
    <2>1. Known(s)' /\ Taggable(s)' /\ Focused(s)'
      BY <1>7 DEF Known, Taggable, Focused
    <2>2. pc'[s] \notin Assigning
      BY <1>1
    <2> QED
      BY <1>1, <1>2, <1>3, <1>5, <1>8, <1>9, <2>1, <2>2, FocusStays
  <1>11. \A r \in Session : Quiet(r) => Quiet(r)'
    <2>1. \A r \in Session : r = s /\ Creating(r) => Creating(r)'
      BY <1>1 DEF Creating
    <2> QED
      BY <1>1, <1>2, <1>5, <2>1, QuietAsBefore
  <1> QED
    BY <1>1, <1>5, <1>9, <1>10, <1>11, QuietStays DEF IInv, inputVars

\* A surface appears, is entered in the session's map, and the focus follows.
LEMMA CreateSurfaceKeeps ==
    ASSUME IInv, NEW s \in Session, create_surface_for(s)
    PROVE  IInv'
  <1> USE DEF Resting, Assigning, Walking
  <1>1. /\ TypeOK /\ StepsOf(s) /\ LocksOf(s) /\ SurfacesOf(s) /\ ControlInv /\ FocusIsKnown
        /\ s \in Thread /\ s # shell /\ s # NoThread
        /\ UNCHANGED <<apps, mutex, focus_application, tags, guard, cursor, hidden, inputVars>>
        /\ CreateSurface(s)
    BY ThreadAssumption DEF IInv, ControlInv, Thread, create_surface_for
  <1>2. CASE pc[s] = "mapped"
    <2>1. op[s] = "create"
      BY <1>1, <1>2 DEF StepsOf, Focusing, TypeOK
    <2>2. s \in Registered
      BY <1>1, <1>2, <2>1 DEF ControlInv, RegisteredOnce, Out
    <2>3. BeginAssign(s, s) /\ UNCHANGED <<op, surfaces, next_surface_id, stack>>
      BY <1>1, <1>2 DEF CreateSurface
    <2>4. op' = [op EXCEPT ![s] = "create"]
      BY <1>1, <2>1, <2>3 DEF TypeOK
    <2> QED
      BY <1>1, <1>2, <2>1, <2>2, <2>3, <2>4, AssignKeeps DEF Known, surfaceVars
  <1>3. ASSUME pc[s] \in {"idle", "created"},
               StepOf(s), TypeOK', pc'[s] \in {"created", "mapped"}, op'[s] = "create",
               op[s] \in {"none", "create"}, target' = target,
               stack' = stack \cup {<<s, next_surface_id[s]>>},
               \A r \in Session : SurfacesOf(r)'
        PROVE  IInv'
    <2>1. StepsOf(s)' /\ LocksOf(s)'
      BY <1>1, <1>3 DEF StepsOf, LocksOf, Focusing
    <2>2. ContainerStepOf(s)
      BY <1>1, <1>3, ContainerStays DEF Out, ControlInv, RegisteredOnce
    <2>3. ControlInv'
      BY <1>1, <1>3, <2>1, <2>2, ControlStays
    <2>4. FocusIsKnown'
      <3>1. /\ Known(s) => Known(s)'
            /\ Taggable(s) => Taggable(s)'
            /\ Focused(s) => Focused(s)'
        BY <1>1, <1>3 DEF Known, Taggable, Focused, Registered
      <3> QED
        BY <1>1, <1>3, <2>2, <2>3, <3>1, FocusKept
    <2>5. ASSUME NEW r \in Session, Quiet(r) PROVE Quiet(r)'
      <3>1. CASE r = s
        BY <1>3, <3>1 DEF Quiet, Creating
      <3>2. CASE r # s
        <4>1. Creating(r) => Creating(r)'
          BY <1>3, <3>2 DEF StepOf, Creating, Thread
        <4>2. \A w \in stack' \ hidden' : w[1] = r => w \in stack \ hidden
          BY <1>1, <1>3, <3>2
        <4> QED
          BY <2>5, <4>1, <4>2 DEF Quiet
      <3> QED
        BY <3>1, <3>2
    <2> QED
      BY <1>1, <1>3, <2>3, <2>4, <2>5, QuietStays DEF IInv, inputVars
  <1>4. CASE pc[s] = "idle"
    <2>1. /\ next_surface_id[s] < MaxSurface
          /\ stack' = stack \cup {<<s, next_surface_id[s]>>}
          /\ pc' = [pc EXCEPT ![s] = "created"]
          /\ pc'[s] = "created" /\ \A u \in Thread \ {s} : pc'[u] = pc[u]
          /\ op' = [op EXCEPT ![s] = "create"]
          /\ op'[s] = "create" /\ \A u \in Thread \ {s} : op'[u] = op[u]
          /\ UNCHANGED <<target, surfaces, next_surface_id>>
          /\ op[s] = "none"
      BY <1>1, <1>4 DEF CreateSurface, Goto, TypeOK, StepsOf, Focusing
    <2>2. next_surface_id[s] \in 0..MaxSurface - 1
      BY <1>1, <2>1, ThreadAssumption DEF TypeOK
    <2>3. TypeOK'
      BY <1>1, <2>1, <2>2 DEF TypeOK, inputVars, Surface
    <2>4. StepOf(s)
      BY <1>1, <2>1 DEF StepOf
    <2>5. ASSUME NEW r \in Session PROVE SurfacesOf(r)'
      <3>1. CASE r = s
        BY <1>1, <1>4, <2>1, <3>1 DEF SurfacesOf
      <3>2. CASE r # s
        <4>1. SurfacesOf(r) /\ pc'[r] = pc[r]
          BY <2>1, <3>2 DEF IInv, ControlInv, Thread
        <4>2. \A id : <<r, id>> \in stack' <=> <<r, id>> \in stack
          BY <2>1, <3>2
        <4> QED
          BY <2>1, <4>1, <4>2 DEF SurfacesOf
      <3> QED
        BY <3>1, <3>2
    <2> QED
      BY <1>3, <1>4, <2>1, <2>3, <2>4, <2>5
  <1>5. CASE pc[s] = "created"
    <2> DEFINE n == next_surface_id[s]
    <2>1. /\ surfaces' = [surfaces EXCEPT ![s] = @ \cup {n}]
          /\ next_surface_id' = [next_surface_id EXCEPT ![s] = @ + 1]
          /\ pc' = [pc EXCEPT ![s] = "mapped"]
          /\ pc'[s] = "mapped" /\ \A u \in Thread \ {s} : pc'[u] = pc[u]
          /\ UNCHANGED <<op, target, stack>>
          /\ op[s] = "create"
      BY <1>1, <1>5 DEF CreateSurface, Goto, TypeOK, StepsOf, Focusing
    <2>2. n \in 0..MaxSurface - 1 /\ n + 1 \in 0..MaxSurface /\ <<s, n>> \in stack
      BY <1>1, <1>5, ThreadAssumption DEF TypeOK, SurfacesOf
    <2>3. TypeOK'
      BY <1>1, <2>1, <2>2 DEF TypeOK, inputVars
    <2>4. StepOf(s)
      BY <1>1, <2>1 DEF StepOf
    <2>5. ASSUME NEW r \in Session PROVE SurfacesOf(r)'
      <3>1. CASE r = s
        <4>1. surfaces'[s] = surfaces[s] \cup {n} /\ next_surface_id'[s] = n + 1
          BY <1>1, <2>1 DEF TypeOK
        <4>2. \A id \in surfaces[s] : id \in 0..MaxSurface - 1
          BY <1>1 DEF TypeOK
        <4>3. \A id \in surfaces'[s] : id < n + 1 /\ <<s, id>> \in stack
          BY <1>1, <2>2, <4>1, <4>2, ThreadAssumption DEF SurfacesOf
        <4>4. \A id \in 0..MaxSurface - 1 : <<s, id>> \in stack => id \in surfaces'[s]
          BY <1>1, <4>1 DEF SurfacesOf
        <4> QED
          BY <2>1, <3>1, <4>1, <4>3, <4>4 DEF SurfacesOf
      <3>2. CASE r # s
        <4>1. SurfacesOf(r) /\ pc'[r] = pc[r]
          BY <2>1, <3>2 DEF IInv, ControlInv, Thread
        <4> QED
          BY <1>1, <2>1, <3>2, <4>1 DEF SurfacesOf, TypeOK
      <3> QED
        BY <3>1, <3>2
    <2>6. stack' = stack \cup {<<s, n>>}
      BY <2>1, <2>2
    <2> QED
      BY <1>3, <1>5, <2>1, <2>3, <2>4, <2>5, <2>6
  <1> QED
    BY <1>1, <1>2, <1>4, <1>5 DEF CreateSurface

\* A surface of the session goes.
LEMMA DestroySurfaceKeeps ==
    ASSUME IInv, NEW s \in Session, destroy_surface(s)
    PROVE  IInv'
  <1> USE DEF Resting, Assigning, Walking
  <1>1. /\ TypeOK /\ StepsOf(s) /\ LocksOf(s) /\ SurfacesOf(s) /\ ControlInv /\ FocusIsKnown
        /\ s \in Thread
        /\ pc[s] = "idle"
        /\ UNCHANGED <<apps, mutex, focus_application, tags, guard, cursor, op, pc,
                       target, next_surface_id, inputVars>>
    BY DEF IInv, ControlInv, Thread, destroy_surface
  <1>2. PICK id \in surfaces[s] :
           /\ surfaces' = [surfaces EXCEPT ![s] = @ \ {id}]
           /\ stack' = stack \ {<<s, id>>}
           /\ hidden' = hidden \ {<<s, id>>}
    BY DEF destroy_surface
  <1>3. TypeOK'
    BY <1>1, <1>2 DEF TypeOK, inputVars
  <1>4. StepOf(s) /\ StepsOf(s)' /\ LocksOf(s)'
    BY <1>1 DEF StepOf, StepsOf, LocksOf
  <1>5. ASSUME NEW r \in Session PROVE SurfacesOf(r)'
    <2>1. SurfacesOf(r)
      BY <1>1 DEF ControlInv
    <2>2. surfaces'[r] = IF r = s THEN surfaces[r] \ {id} ELSE surfaces[r]
      BY <1>1, <1>2 DEF TypeOK
    <2>3. \A i : <<r, i>> \in stack' <=> <<r, i>> \in stack /\ (r # s \/ i # id)
      BY <1>2
    <2>4. pc'[r] = pc[r] /\ next_surface_id'[r] = next_surface_id[r]
      BY <1>1
    <2>5. r = s => pc[r] # "created" /\ pc[r] # "start"
      BY <1>1
    <2> QED
      BY <2>1, <2>2, <2>3, <2>4, <2>5 DEF SurfacesOf
  <1>6. ContainerStepOf(s)
    BY <1>1, ContainerStays DEF Out, ControlInv, RegisteredOnce
  <1>7. ControlInv'
    BY <1>1, <1>3, <1>4, <1>5, <1>6, ControlStays
  <1>8. FocusIsKnown'
    <2>1. /\ Known(s)' <=> Known(s)
          /\ Taggable(s)' <=> Taggable(s)
          /\ Focused(s)' <=> Focused(s)
          /\ pc'[s] \notin Assigning
      BY <1>1 DEF Known, Taggable, Focused, Registered
    <2> QED
      BY <1>1, <1>4, <1>6, <1>7, <2>1, FocusKept
  <1>9. \A r \in Session : Quiet(r) => Quiet(r)'
    <2>1. \A r \in Session : r = s /\ Creating(r) => Creating(r)'
      BY <1>1 DEF Creating
    <2>2. stack' \ hidden' \subseteq stack \ hidden
      BY <1>2
    <2> QED
      BY <1>1, <1>4, <2>1, <2>2, QuietAsBefore
  <1> QED
    BY <1>1, <1>4, <1>7, <1>8, <1>9, QuietStays DEF IInv, inputVars

\* The session with a tag is a known one: nobody closes it while the mutex is free.
LEMMA FocusByIdKeeps ==
    ASSUME IInv, NEW s \in Session, focus_session_with_lightdm_id(s)
    PROVE  IInv'
  <1>1. /\ TypeOK /\ StepsOf(s) /\ ControlInv /\ FocusIsKnown
        /\ s \in Thread /\ s # shell /\ s # NoThread
        /\ pc[s] = "idle" /\ mutex = NoThread /\ mutex' = s
        /\ op' = [op EXCEPT ![s] = "by_id"]
        /\ UNCHANGED <<apps, focus_application, tags, guard, cursor, surfaceVars>>
    BY ThreadAssumption DEF IInv, ControlInv, Thread, focus_session_with_lightdm_id, Lock
  <1>2. PICK p \in tags : BeginAssign(s, p[2])
    BY DEF focus_session_with_lightdm_id
  <1>3. op[s] = "none"
    BY <1>1 DEF StepsOf, Focusing, TypeOK, Assigning, Walking
  <1>4. p[2] \in Session /\ Known(p[2])
    <2>1. p[2] \in Session /\ Taggable(p[2])
      BY <1>1 DEF FocusIsKnown, TypeOK
    <2>2. op[p[2]] # "close"
      BY <1>1, <2>1, ThreadAssumption DEF ControlInv, LocksOf, Thread
    <2> QED
      BY <2>1, <2>2 DEF Taggable
  <1> QED
    BY <1>1, <1>2, <1>3, <1>4, AssignKeeps

\* Nothing but the step, the operation and the mutex of thread t changes.
LEMMA OnlyStepKeeps ==
    ASSUME IInv, NEW t \in Thread, StepOf(t), StepsOf(t)', LocksOf(t)', TypeOK',
           UNCHANGED <<apps, focus_application, tags, guard, cursor, surfaceVars>>,
           pc[t] \in {"idle", "read", "successor"},
           pc'[t] \in {"idle", "remove", "gone", "read", "successor"},
           pc'[t] = "remove" \/ (op[t] # "close" /\ op'[t] # "close"),
           op[t] # "create"
    PROVE  IInv'
  <1> USE DEF Resting, Assigning, Walking
  <1>1. /\ TypeOK /\ StepsOf(t) /\ LocksOf(t) /\ ControlInv /\ FocusIsKnown
    BY DEF IInv, ControlInv
  <1>2. \A s \in Session : SurfacesOf(s)'
    BY <1>1, SurfacesStay DEF surfaceVars
  <1>3. ContainerStepOf(t)
    <2>1. Out(t)' <=> Out(t)
      BY <1>1 DEF Out, StepsOf, Focusing
    <2> QED
      BY <1>1, <2>1, ContainerStays DEF ControlInv, RegisteredOnce
  <1>4. ControlInv'
    BY <1>1, <1>2, <1>3, ControlStays
  <1>5. FocusIsKnown'
    <2>1. /\ op[t] # "close"
          /\ Known(t)' <=> Known(t)
      BY <1>1 DEF Known, Registered, StepsOf, Focusing
    <2>2. /\ Taggable(t) => Taggable(t)'
          /\ Focused(t) => Focused(t)'
      BY <2>1 DEF Taggable, Focused
    <2> QED
      BY <1>1, <1>3, <1>4, <2>1, <2>2, FocusKept
  <1>6. \A s \in Session : Quiet(s) => Quiet(s)'
    <2>1. \A s \in Session : s = t /\ Creating(s) => Creating(s)'
      BY DEF Creating
    <2>2. stack' \ hidden' \subseteq stack \ hidden
      BY DEF surfaceVars
    <2> QED
      BY <2>1, <2>2, QuietAsBefore
  <1> QED
    BY <1>1, <1>4, <1>5, <1>6, QuietStays DEF IInv, surfaceVars, inputVars

\* A lost connection leaves its session registered.
LEMMA ConnectionLostKeeps ==
    ASSUME IInv, NEW s \in Session, ConnectionLost(s)
    PROVE  IInv'
  <1> USE DEF Resting, Assigning, Walking
  <1>1. /\ TypeOK /\ StepsOf(s) /\ LocksOf(s) /\ s \in Thread /\ s # shell
        /\ pc[s] = "idle"
        /\ pc' = [pc EXCEPT ![s] = "gone"]
        /\ pc'[s] = "gone" /\ \A u \in Thread \ {s} : pc'[u] = pc[u]
        /\ UNCHANGED <<apps, mutex, focus_application, tags, guard, cursor, op,
                       target, surfaceVars>>
    BY ThreadAssumption DEF IInv, ControlInv, Thread, ConnectionLost, Goto, TypeOK
  <1>2. op[s] = "none"
    BY <1>1 DEF StepsOf, Focusing, TypeOK
  <1>3. TypeOK'
    BY <1>1 DEF TypeOK, surfaceVars, inputVars
  <1>4. StepOf(s) /\ StepsOf(s)' /\ LocksOf(s)'
    BY <1>1, <1>2 DEF StepOf, StepsOf, LocksOf, Focusing
  <1> QED
    BY <1>1, <1>2, <1>3, <1>4, OnlyStepKeeps

\* A session that is removed is the target of nobody else: the others that
\* could have chosen it hold the mutex to do so.
LEMMA ClosedIsNoTarget ==
    ASSUME ControlInv, NEW s \in Session, op[s] = "close",
           NEW u \in Thread \ {s}, pc[u] \in Assigning
    PROVE  target[u] # s
  <1>1. StepsOf(u) /\ LocksOf(u) /\ LocksOf(s) /\ s \in Thread /\ TypeOK
    BY DEF ControlInv, Thread
  <1>2. mutex = s
    BY <1>1 DEF LocksOf
  <1>3. op[u] = "create"
    BY <1>1, <1>2 DEF StepsOf, LocksOf, TypeOK, Resting, Assigning
  <1> QED
    BY <1>1, <1>3 DEF StepsOf, Focusing

\* close_session: the lock, the removal, and the focus on the default session.
LEMMA CloseSessionKeeps ==
    ASSUME IInv, NEW s \in Session, close_session(s)
    PROVE  IInv'
  <1> USE DEF Resting, Assigning, Walking
  <1>1. /\ TypeOK /\ StepsOf(s) /\ LocksOf(s) /\ ControlInv /\ FocusIsKnown
        /\ s \in Thread /\ s # shell /\ s # NoThread
        /\ UNCHANGED <<focus_application, tags, guard, cursor, surfaceVars>>
    BY ThreadAssumption DEF IInv, ControlInv, Thread, close_session
  <1>2. CASE LockToClose(s)
    <2>1. /\ pc[s] = "idle" /\ mutex = NoThread /\ mutex' = s
          /\ op' = [op EXCEPT ![s] = "close"]
          /\ op'[s] = "close" /\ \A u \in Thread \ {s} : op'[u] = op[u]
          /\ pc' = [pc EXCEPT ![s] = "remove"]
          /\ pc'[s] = "remove" /\ \A u \in Thread \ {s} : pc'[u] = pc[u]
          /\ UNCHANGED <<apps, target>>
      BY <1>1, <1>2 DEF LockToClose, Lock, Goto, TypeOK
    <2>2. op[s] = "none"
      BY <1>1, <2>1 DEF StepsOf, Focusing, TypeOK
    <2>3. TypeOK'
      BY <1>1, <2>1 DEF TypeOK, surfaceVars, inputVars
    <2>4. StepOf(s)
      BY <1>1, <2>1, ThreadAssumption DEF StepOf, Thread
    <2>5. StepsOf(s)' /\ LocksOf(s)'
      BY <1>1, <2>1, <2>2 DEF StepsOf, LocksOf, Focusing
    <2> QED
      BY <1>1, <2>1, <2>2, <2>3, <2>4, <2>5, OnlyStepKeeps
  <1>3. CASE pc[s] = "remove" /\ guard = NoThread /\ remove_session(s)
             /\ Goto(s, "default") /\ UNCHANGED <<mutex, op, target>>
    <2>1. /\ pc[s] = "remove"
          /\ pc' = [pc EXCEPT ![s] = "default"]
          /\ pc'[s] = "default" /\ \A u \in Thread \ {s} : pc'[u] = pc[u]
          /\ guard = NoThread
          /\ UNCHANGED <<mutex, op, target>>
      BY <1>1, <1>3 DEF Goto, TypeOK
    <2>2. op[s] = "close"
      BY <1>1, <2>1 DEF StepsOf, Focusing, TypeOK
    <2>3. /\ ContainerInv' /\ Registered' = Registered \ {s}
          /\ cursor = 1
      <3>1. ContainerInv /\ cursor = 1
        BY <1>1, <2>1 DEF ControlInv, RegisteredOnce, ContainerInv, TypeOK
      <3> QED
        BY <1>3, <3>1, RemoveSession
    <2>4. TypeOK'
      <3>1. apps' \in Seq(Session) /\ Len(apps') \in Nat /\ cursor' \in 1..Len(apps') + 1
        BY <1>1, <2>3 DEF ContainerInv
      <3> QED
        BY <1>1, <2>1, <3>1 DEF TypeOK, surfaceVars, inputVars
    <2>5. StepOf(s)
      BY <1>1, <2>1 DEF StepOf
    <2>6. StepsOf(s)' /\ LocksOf(s)'
      BY <1>1, <2>1, <2>2 DEF StepsOf, LocksOf, Focusing
    <2>7. \A r \in Session : SurfacesOf(r)'
      BY <1>1, <2>1, <2>5, SurfacesStay DEF surfaceVars
    <2>8. ContainerStepOf(s)
      <3>1. Out(s)'
        BY <2>1, <2>2 DEF Out
      <3> QED
        BY <1>1, <2>1, <2>3, <3>1 DEF ContainerStepOf, ContainerInv
    <2>9. ControlInv'
      BY <1>1, <2>4, <2>5, <2>6, <2>7, <2>8, ControlStays
    <2>10. FocusIsKnown'
      <3>1. Taggable(s)' /\ Focused(s)' /\ pc'[s] \notin Assigning
        BY <2>1, <2>2 DEF Taggable, Focused
      <3>2. \A u \in Thread \ {s} : pc[u] \in Assigning => target[u] # s
        BY <1>1, <2>2, ClosedIsNoTarget
      <3> QED
        BY <1>1, <2>5, <2>8, <2>9, <3>1, <3>2, FocusStays
    <2>11. OthersAreQuiet'
      <3> SUFFICES ASSUME NEW r \in Registered'
                   PROVE  Quiet(r)' \/ input_focus'.session = r \/ r \in missed'
        BY <1>1, <2>1 DEF OthersAreQuiet, surfaceVars, inputVars
      <3>1. r \in Registered /\ r # s
        BY <2>3
      <3>2. r \in Session
        BY <1>1, <3>1 DEF Registered, TypeOK
      <3>3. Quiet(r) \/ input_focus.session = r \/ r \in missed
        BY <2>1, <3>1 DEF IInv, OthersAreQuiet
      <3>4. stack' \ hidden' \subseteq stack \ hidden /\ input_focus' = input_focus /\ missed' = missed
        BY <1>1 DEF surfaceVars, inputVars
      <3> QED
        BY <1>1, <2>5, <3>1, <3>2, <3>3, <3>4, QuietAsBefore
    <2>12. WalkHidesOthers'
      BY <1>1, <2>1, ThreadAssumption DEF WalkHidesOthers, Thread
    <2> QED
      BY <2>9, <2>10, <2>11, <2>12 DEF IInv
  <1>4. CASE pc[s] = "default" /\ BeginAssign(s, default_focus) /\ UNCHANGED <<apps, mutex, op>>
    <2>1. op[s] = "close"
      BY <1>1, <1>4 DEF StepsOf, Focusing, TypeOK
    <2>2. mutex = s /\ op' = [op EXCEPT ![s] = "close"]
      BY <1>1, <1>4, <2>1 DEF LocksOf, TypeOK
    <2>3. default_focus \in Session \cup {NoSession}
      BY <1>1 DEF default_focus, TypeOK
    <2>4. default_focus = NoSession \/ default_focus \in Registered
      BY <1>1 DEF default_focus, Registered, TypeOK
    <2>5. default_focus = NoSession \/ Known(default_focus)
      BY <2>4 DEF Known
    <2> DEFINE x == default_focus
    <2> HIDE DEF x
    <2>6. BeginAssign(s, x) /\ x \in Session \cup {NoSession} /\ (x = NoSession \/ Known(x))
      BY <1>4, <2>3, <2>5 DEF x
    <2> QED
      BY <1>1, <1>4, <2>1, <2>2, <2>6, AssignKeeps
  <1> QED
    BY <1>2, <1>3, <1>4 DEF close_session

\* The mediator's reference goes, and with it perhaps the session.
LEMMA ResetSessionKeeps ==
    ASSUME IInv, NEW s \in Session, ResetSession(s)
    PROVE  IInv'
  <1> USE DEF Resting, Assigning, Walking
  <1>1. /\ TypeOK /\ StepsOf(s) /\ LocksOf(s) /\ ControlInv /\ FocusIsKnown
        /\ s \in Thread /\ s # shell /\ s # NoThread
        /\ pc[s] \in {"reset", "failed"} /\ op[s] = "none"
        /\ pc' = [pc EXCEPT ![s] = IF pc[s] = "reset" THEN "closed" ELSE "lost"]
        /\ pc'[s] = IF pc[s] = "reset" THEN "closed" ELSE "lost"
        /\ \A u \in Thread \ {s} : pc'[u] = pc[u]
        /\ UNCHANGED <<apps, mutex, guard, cursor, op, target, next_surface_id, tags, inputVars>>
    BY ThreadAssumption DEF IInv, ControlInv, Thread, ResetSession, Goto, TypeOK,
       StepsOf, Focusing
  <1>2. /\ focus_application' \in {focus_application, NoSession}
        /\ surfaces' \in [Session -> SUBSET (0..MaxSurface - 1)]
        /\ stack' \subseteq Surface /\ hidden' \subseteq stack'
        /\ stack' \ hidden' \subseteq stack \ hidden
        /\ \A r \in Session : SurfacesOf(r)'
    <2>1. /\ {s} \in SUBSET Session
          /\ \A r \in {s} : pc[r] # "created"
      BY <1>1
    <2>2. \A r \in Session : /\ pc'[r] = "created" <=> pc[r] = "created"
                             /\ pc'[r] = "start" => pc[r] = "start"
      BY <1>1 DEF Thread
    <2>3. /\ DestroyUnreferenced({s})
          /\ hidden' = hidden \cap stack'
      BY DEF ResetSession
    <2> QED
      BY <1>1, <2>1, <2>2, <2>3, Destroyed
  <1>3. TypeOK'
    BY <1>1, <1>2 DEF TypeOK, inputVars
  <1>4. StepOf(s)
    BY <1>1 DEF StepOf
  <1>5. StepsOf(s)' /\ LocksOf(s)'
    BY <1>1 DEF StepsOf, LocksOf, Focusing
  <1>6. ContainerStepOf(s)
    BY <1>1, ContainerStays DEF Out, ControlInv, RegisteredOnce
  <1>7. ControlInv'
    BY <1>1, <1>2, <1>3, <1>4, <1>5, <1>6, ControlStays
  <1>8. FocusIsKnown'
    <2>1. /\ Known(s) => Known(s)'
          /\ Taggable(s) => Taggable(s)'
          /\ Focused(s) => Focused(s)'
          /\ pc'[s] \notin Assigning
      BY <1>1 DEF Known, Taggable, Focused, Registered
    <2> QED
      BY <1>1, <1>2, <1>4, <1>6, <1>7, <2>1, FocusKept
  <1>9. \A r \in Session : Quiet(r) => Quiet(r)'
    <2>1. \A r \in Session : r = s /\ Creating(r) => Creating(r)'
      BY <1>1 DEF Creating
    <2> QED
      BY <1>1, <1>2, <1>4, <2>1, QuietAsBefore
  <1> QED
    BY <1>1, <1>4, <1>7, <1>8, <1>9, QuietStays DEF IInv, inputVars

\* successor_of gives a session of the container, or throws.
LEMMA SuccessorIsRegistered ==
    ASSUME ContainerInv, NEW s
    PROVE  successor_of(s) \in Registered \cup {Throws}
  <1>1. CASE s \notin Registered
    BY <1>1, SuccessorThrows
  <1>2. CASE s \in Registered
    <2>1. PICK i \in 1..Len(apps) : s = apps[i]
      BY <1>2 DEF Registered
    <2> DEFINE j == IF i = Len(apps) THEN 1 ELSE i + 1
    <2>2. successor_of(apps[i]) = apps[j] /\ j \in 1..Len(apps)
      BY SuccessorIs DEF ContainerInv
    <2> HIDE DEF j
    <2> QED
      BY <2>1, <2>2 DEF Registered
  <1> QED
    BY <1>1, <1>2

\* focus_next: the lock, the read of focus_application, and its successor.
LEMMA FocusNextKeeps ==
    ASSUME IInv, focus_next
    PROVE  IInv'
  <1> USE DEF Resting, Assigning, Walking
  <1>1. /\ TypeOK /\ StepsOf(shell) /\ LocksOf(shell) /\ ControlInv
        /\ shell \in Thread /\ shell # NoThread
        /\ UNCHANGED <<focus_application, tags, guard, cursor, surfaceVars>>
    BY ThreadAssumption DEF IInv, ControlInv, Thread, focus_next
  <1>2. CASE /\ pc[shell] = "idle" /\ Lock(shell) /\ op' = [op EXCEPT ![shell] = "next"]
             /\ Goto(shell, "read") /\ UNCHANGED <<apps, target>>
    <2>1. /\ mutex = NoThread /\ mutex' = shell
          /\ op'[shell] = "next" /\ \A u \in Thread \ {shell} : op'[u] = op[u]
          /\ pc' = [pc EXCEPT ![shell] = "read"]
          /\ pc'[shell] = "read" /\ \A u \in Thread \ {shell} : pc'[u] = pc[u]
      BY <1>1, <1>2 DEF Lock, Goto, TypeOK
    <2>2. op[shell] = "none"
      BY <1>1, <1>2 DEF StepsOf, Focusing, TypeOK
    <2>3. TypeOK'
      BY <1>1, <1>2, <2>1 DEF TypeOK, surfaceVars, inputVars
    <2>4. StepOf(shell)
      BY <1>1, <1>2, <2>1, ThreadAssumption DEF StepOf, Thread
    <2>5. StepsOf(shell)' /\ LocksOf(shell)'
      BY <1>1, <1>2, <2>1 DEF StepsOf, LocksOf, Focusing
    <2> QED
      BY <1>1, <1>2, <2>1, <2>2, <2>3, <2>4, <2>5, OnlyStepKeeps
  <1>3. CASE ReadFocus
    <2>1. /\ pc[shell] = "read" /\ op[shell] = "next"
          /\ pc' = [pc EXCEPT ![shell] = "successor"]
          /\ pc'[shell] = "successor" /\ \A u \in Thread \ {shell} : pc'[u] = pc[u]
          /\ UNCHANGED <<apps, mutex, op>>
      BY <1>1, <1>3 DEF ReadFocus, Goto, TypeOK, StepsOf
    <2>2. PICK x \in Session \cup {NoSession} : target' = [target EXCEPT ![shell] = x]
      BY <1>1, <1>3 DEF ReadFocus, TypeOK
    <2>3. \A u \in Thread \ {shell} : target'[u] = target[u]
      BY <1>1, <2>2 DEF TypeOK
    <2>4. TypeOK'
      BY <1>1, <2>1, <2>2 DEF TypeOK, surfaceVars, inputVars
    <2>5. StepOf(shell)
      BY <1>1, <2>1, <2>3 DEF StepOf
    <2>6. StepsOf(shell)' /\ LocksOf(shell)'
      BY <1>1, <2>1 DEF StepsOf, LocksOf, Focusing
    <2> QED
      BY <1>1, <2>1, <2>4, <2>5, <2>6, OnlyStepKeeps
  <1>4. CASE Successor
    <2> DEFINE next == IF target[shell] = NoSession THEN default_focus
                       ELSE successor_of(target[shell])
    <2>1. /\ pc[shell] = "successor" /\ op[shell] = "next" /\ mutex = shell /\ apps' = apps
      BY <1>1, <1>4 DEF Successor, StepsOf, LocksOf
    <2>2. next \in Registered \cup {NoSession, Throws}
      <3>1. ContainerInv
        BY <1>1 DEF ControlInv, RegisteredOnce, ContainerInv, TypeOK
      <3>2. default_focus \in Registered \cup {NoSession}
        BY <1>1 DEF default_focus, Registered, TypeOK
      <3> QED
        BY <3>1, <3>2, SuccessorIsRegistered
    <2>3. IF next = Throws THEN Goto(shell, "idle") /\ mutex' = NoThread /\ Finish(shell)
          ELSE BeginAssign(shell, next) /\ UNCHANGED <<mutex, op>>
      BY <1>4 DEF Successor
    <2> HIDE DEF next
    <2>4. CASE next = Throws
      <3>1. /\ pc' = [pc EXCEPT ![shell] = "idle"]
            /\ pc'[shell] = "idle" /\ \A u \in Thread \ {shell} : pc'[u] = pc[u]
            /\ op' = [op EXCEPT ![shell] = "none"]
            /\ op'[shell] = "none" /\ \A u \in Thread \ {shell} : op'[u] = op[u]
            /\ target' = [target EXCEPT ![shell] = NoSession]
            /\ \A u \in Thread \ {shell} : target'[u] = target[u]
            /\ mutex' = NoThread
        BY <1>1, <2>3, <2>4 DEF Goto, Finish, TypeOK
      <3>2. TypeOK'
        BY <1>1, <2>1, <3>1 DEF TypeOK, surfaceVars, inputVars
      <3>3. StepOf(shell)
        BY <1>1, <2>1, <3>1, ThreadAssumption DEF StepOf, Thread
      <3>4. StepsOf(shell)' /\ LocksOf(shell)'
        BY <1>1, <2>1, <3>1 DEF StepsOf, LocksOf, Focusing
      <3> QED
        BY <1>1, <2>1, <3>1, <3>2, <3>3, <3>4, OnlyStepKeeps
    <2>5. CASE next # Throws
      <3>1. op' = [op EXCEPT ![shell] = "next"] /\ mutex' = mutex
        BY <1>1, <2>1, <2>3, <2>5 DEF TypeOK
      <3>2. next \in Session \cup {NoSession} /\ (next = NoSession \/ Known(next))
        <4>1. \A s \in Registered : s \in Session /\ Known(s)
          BY <1>1 DEF Registered, Known, TypeOK
        <4> QED
          BY <2>2, <2>5, <4>1
      <3>3. BeginAssign(shell, next)
        BY <2>3, <2>5
      <3> QED
        BY <1>1, <2>1, <3>1, <3>2, <3>3, AssignKeeps
    <2> QED
      BY <2>4, <2>5
  <1> QED
    BY <1>2, <1>3, <1>4 DEF focus_next

-----------------------------------------------------------------------------
(* The theorems about the shell *)

\* Nobody is connected at first.
LEMMA InitEstablishes == Init => IInv
  <1> SUFFICES ASSUME Init PROVE IInv
    OBVIOUS
  <1> USE ThreadAssumption DEF Init, ContainerInit
  <1>1. TypeOK
    <2>1. apps \in Seq(Session) /\ Len(apps) = 0 /\ cursor \in 1..Len(apps) + 1
      OBVIOUS
    <2>2. pc \in [Thread -> Resting]
      BY DEF Resting
    <2>3. next_surface_id \in [Session -> 0..MaxSurface]
      OBVIOUS
    <2>4. surfaces \in [Session -> SUBSET (0..MaxSurface - 1)]
      OBVIOUS
    <2>5. input_focus.session = NoSession
      BY DEF NoInput
    <2>6. /\ op \in [Thread -> {"none"}]
          /\ target \in [Thread -> Session \cup {NoSession}]
      OBVIOUS
    <2> QED
      BY <2>1, <2>2, <2>3, <2>4, <2>5, <2>6 DEF TypeOK
  <1>2. ASSUME NEW t \in Thread PROVE StepsOf(t) /\ LocksOf(t)
    BY DEF StepsOf, LocksOf, Resting, Assigning, Walking, Thread
  <1>3. ASSUME NEW s \in Session PROVE SurfacesOf(s)
    BY DEF SurfacesOf, Thread
  <1>4. RegisteredOnce
    <2>1. Registered = {} /\ NoRepeat
      BY DEF Registered, NoRepeat
    <2>2. \A s \in Session : Out(s)
      BY DEF Out, Thread
    <2> QED
      BY <2>1, <2>2 DEF RegisteredOnce
  <1>5. FocusIsKnown
    BY DEF FocusIsKnown, Assigning
  <1>6. WalkHidesOthers /\ OthersAreQuiet
    BY DEF WalkHidesOthers, OthersAreQuiet, Quiet, Thread
  <1> QED
    BY <1>1, <1>2, <1>3, <1>4, <1>5, <1>6 DEF IInv, ControlInv

\* Steps of others leave the shell alone.
LEMMA StutterKeeps == IInv /\ UNCHANGED vars => IInv'
  <1> SUFFICES ASSUME IInv, UNCHANGED vars PROVE IInv'
    OBVIOUS
  <1> USE DEF vars
  <1>1. TypeOK'
    BY DEF IInv, ControlInv, TypeOK
  <1>2. \A t \in Thread : StepsOf(t)' /\ LocksOf(t)'
    BY DEF IInv, ControlInv, StepsOf, LocksOf
  <1>3. \A s \in Session : SurfacesOf(s)'
    BY DEF IInv, ControlInv, SurfacesOf
  <1>4. RegisteredOnce'
    BY DEF IInv, ControlInv, RegisteredOnce, NoRepeat, Registered, Out
  <1>5. FocusIsKnown'
    BY DEF IInv, FocusIsKnown, Taggable, Focused, Known, Registered
  <1>6. WalkHidesOthers' /\ OthersAreQuiet'
    BY DEF IInv, WalkHidesOthers, OthersAreQuiet, Quiet, Creating, Registered
  <1> QED
    BY <1>1, <1>2, <1>3, <1>4, <1>5, <1>6 DEF IInv, ControlInv

\* Every step preserves the invariant.
LEMMA StepKeeps == IInv /\ [Next]_vars => IInv'
  <1> SUFFICES ASSUME IInv, [Next]_vars PROVE IInv'
    OBVIOUS
  <1>1. CASE UNCHANGED vars
    BY <1>1, StutterKeeps
  <1>2. ASSUME NEW t \in Thread, SetFocus(t) PROVE IInv'
    BY <1>2, EndAssignKeeps, EnterKeeps, VisitKeeps, SetInputFocusKeeps,
       InputWindowThrowsKeeps, LeaveKeeps DEF SetFocus
  <1>3. ASSUME NEW s \in Session, Request(s) PROVE IInv'
    BY <1>3, OpenSessionKeeps, TagKeeps, CreateSurfaceKeeps, DestroySurfaceKeeps,
       FocusByIdKeeps, CloseSessionKeeps, ResetSessionKeeps, ConnectionLostKeeps DEF Request
  <1> QED
    BY <1>1, <1>2, <1>3, FocusNextKeeps DEF Next

\* The inductive invariant holds of the shell, for any number of clients.
THEOREM Invariance == Spec => []IInv
  BY InitEstablishes, StepKeeps, PTL DEF Spec

\* The types of the shell's state: a walk never leaves the container's bounds,
\* and only surfaces on the stack are hidden.
THEOREM TypeCorrect == Spec => []TypeOK
  <1>1. IInv => TypeOK
    BY DEF IInv, ControlInv
  <1> QED
    BY <1>1, Invariance, PTL

\* At most one thread is in an operation that holds SessionManager::mutex, and
\* at most one walks the container.
THEOREM OneAtATime ==
    Spec => [](\A t, u \in Thread :
                  /\ pc[t] \in Walking /\ pc[u] \in Walking => t = u
                  /\ /\ op[t] \in {"close", "by_id", "next"}
                     /\ op[u] \in {"close", "by_id", "next"}
                     => t = u)
  <1> DEFINE Exclusive ==
               \A t, u \in Thread :
                  /\ pc[t] \in Walking /\ pc[u] \in Walking => t = u
                  /\ /\ op[t] \in {"close", "by_id", "next"}
                     /\ op[u] \in {"close", "by_id", "next"}
                     => t = u
  <1>1. IInv => Exclusive
    BY DEF IInv, ControlInv, LocksOf
  <1> QED
    BY <1>1, Invariance, PTL

\* The focused session is one the container holds unless writes overlapped or
\* its close_session failed, so that focus_next finds where to go on from.
THEOREM FocusStaysRegistered == Spec => []FocusIsRegistered
  <1>1. IInv => FocusIsRegistered
    <2> SUFFICES ASSUME IInv, mutex = NoThread,
                        focus_application \notin Registered \cup {NoSession, Torn}
                 PROVE  pc[focus_application] \in {"failed", "lost"}
      BY DEF FocusIsRegistered
    <2>1. focus_application \in Thread
      BY DEF IInv, ControlInv, TypeOK, Thread
    <2>2. op[focus_application] # "close"
      BY <2>1, ThreadAssumption DEF IInv, ControlInv, LocksOf, Thread
    <2> QED
      BY <2>2 DEF IInv, FocusIsKnown, Focused, Known
  <1> QED
    BY <1>1, Invariance, PTL

\* Between walks the only registered session with a visible surface is the one
\* that has the input focus, apart from one that is creating its surface and
\* from those that a walk which threw showed or did not get to hide.
THEOREM VisibleSessionHasInput == Spec => []InputGoesToVisibleSession
  <1>1. IInv => InputGoesToVisibleSession
    <2> SUFFICES ASSUME IInv, guard = NoThread, NEW w \in stack \ hidden,
                        w[1] \in Registered, ~Creating(w[1])
                 PROVE  input_focus.session = w[1] \/ w[1] \in missed
      BY DEF InputGoesToVisibleSession
    <2> QED
      BY DEF IInv, OthersAreQuiet, Quiet
  <1> QED
    BY <1>1, Invariance, PTL

=============================================================================
