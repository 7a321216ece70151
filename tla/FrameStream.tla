----------------------------- MODULE FrameStream -----------------------------
(***************************************************************************)
(* What a surface's buffer swapper promises the screen, with no buffers in *)
(* it: the client posts frames 1, 2, 3, ... and the compositor, whenever   *)
(* it asks, is given without waiting the oldest frame it has not shown, or *)
(* the frame it showed last when there is none newer.  The stream is open  *)
(* until the compositor is detached from the surface; from then on frames  *)
(* may still be posted, but none is shown.                                 *)
(***************************************************************************)
EXTENDS Naturals

CONSTANT Depth      \* frames that may be posted ahead of the one shown

VARIABLES posted,   \* the number of the last posted frame
          shown,    \* the number of the last frame given to the compositor
          open      \* the compositor may still ask for frames

streamVars == <<posted, shown, open>>

StreamInit ==
    /\ posted = 0
    /\ shown = 0
    /\ open = TRUE

Post ==
    /\ open => posted - shown < Depth
    /\ posted' = posted + 1
    /\ UNCHANGED <<shown, open>>

Show ==
    /\ open
    /\ shown' = IF shown < posted THEN shown + 1 ELSE shown
    /\ UNCHANGED <<posted, open>>

Close ==
    /\ open
    /\ open' = FALSE
    /\ UNCHANGED <<posted, shown>>

StreamNext == Post \/ Show \/ Close

StreamSpec == StreamInit /\ [][StreamNext]_streamVars

=============================================================================
