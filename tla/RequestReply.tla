----------------------------- MODULE RequestReply -----------------------------
(***************************************************************************)
(* What a connection between a client and the server promises, with no     *)
(* threads, sockets or caches in it: requests are answered in the order in *)
(* which they were sent, each once, until the connection ends and the      *)
(* rest of them are lost.  The frontend implements it for every            *)
(* connection, and the client library for the calls made through it.       *)
(***************************************************************************)
EXTENDS Naturals, Sequences

VARIABLE outstanding     \* requests sent and not yet answered, oldest first

Init == outstanding = <<>>

\* A new request, one that is not outstanding.
Send == \E r \in {outstanding'[i] : i \in DOMAIN outstanding'} :
            /\ \A i \in DOMAIN outstanding : outstanding[i] # r
            /\ outstanding' = Append(outstanding, r)

Answer == outstanding # <<>> /\ outstanding' = Tail(outstanding)

Lose == \E n \in 0..Len(outstanding) : outstanding' = SubSeq(outstanding, 1, n)

Next == Send \/ Answer \/ Lose

Spec == Init /\ [][Next]_outstanding

=============================================================================
