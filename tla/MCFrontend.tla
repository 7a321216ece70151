----------------------------- MODULE MCFrontend -----------------------------
(* Two clients and two io threads; the second client waits for its answers. *)
EXTENDS Frontend, TLC

CONSTANTS c1, c2

MCClient == {c1, c2}
MCFragile == {c1}
MCMaxUnderWay == (c1 :> 2) @@ (c2 :> 1)
=============================================================================
