-------------------------- MODULE MCSequentialParts --------------------------
(* The parts that run under one thread or one lock, checked together: the   *)
(* outputs of the display and the sequence of sessions.  They share no      *)
(* state, so sessions come and go only beside a card with nothing wired.    *)
EXTENDS SessionContainer, KMSOutput

parts_vars == <<apps, kms_vars>>

NothingWired ==
    /\ card.connected = {}
    /\ \A c \in Connector : card.encoders[c] = {}
    /\ \A e \in Encoder : card.possible_crtcs[e] = {}

PartsInit == ContainerInit /\ KMSInit

PartsNext ==
    \/ KMSNext /\ UNCHANGED apps
    \/ NothingWired /\ ContainerNext /\ UNCHANGED kms_vars

PartsSpec == PartsInit /\ [][PartsNext]_parts_vars

=============================================================================
