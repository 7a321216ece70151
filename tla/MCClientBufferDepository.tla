----------------------- MODULE MCClientBufferDepository -----------------------
(* The instance of ClientBufferDepository for TLC: one client, triple        *)
(* buffered.                                                                 *)
EXTENDS ClientBufferDepository

CONSTANTS b1, b2, b3, c1

MCBuffer == {b1, b2, b3}
MCClient == {c1}

=============================================================================
