------------------------ MODULE MCBufferSwapperMulti ------------------------
(* Instances of BufferSwapperMulti for TLC. *)
EXTENDS BufferSwapperMulti

CONSTANTS b1, b2, b3, c1, c2, c3

ThreeBuffers == {b1, b2, b3}
ThreeClients == {c1, c2, c3}

=============================================================================
