------------------------- MODULE MCMirClientLibrary -------------------------
(* One thread owns the surface; the other shares the connection with it. *)
EXTENDS MirClientLibrary, TLC

CONSTANTS a1, a2, s1

MCApp == {a1, a2}
MCSurface == {s1}
MCMakes == (a1 :> Call \ ({"drm_auth_magic", "select_focus"} \X {NoSurface})) @@
           (a2 :> {"drm_auth_magic", "select_focus"} \X {NoSurface})
MCSync == {<<"connect", NoSurface>>, <<"create_surface", s1>>}
=============================================================================
