------------------------- MODULE MCCompositedSurface -------------------------
(* Instances of CompositedSurface for TLC. *)
EXTENDS CompositedSurface

CONSTANTS b1, b2, b3

TwoBuffers == {b1, b2}
ThreeBuffers == {b1, b2, b3}

=============================================================================
