-------------------------- MODULE MCGBMDisplayBuffer --------------------------
(* A display buffer shown on two outputs, and another thread with one crtc. *)
EXTENDS GBMDisplayBuffer

CONSTANTS c1, c2, c3, other

MCCrtc == {c1, c2, c3}
MCThread == {display, other}
MCOwner == [c \in MCCrtc |-> IF c = c3 THEN other ELSE display]

=============================================================================
