------------------------------ MODULE KMSOutput ------------------------------
(***************************************************************************)
(* mgg::GBMDisplay::configure and the mgg::KMSOutput of each connector:    *)
(* when the display is created every connector gets an output, every       *)
(* connected output finds itself a crtc and is set to the first frame, and *)
(* when the display goes each output puts back what its connector showed   *)
(* before.                                                                 *)
(*                                                                         *)
(* The mode-setting kernel is external: encoder_id and crtc_id are what    *)
(* drmModeGetConnector and drmModeGetEncoder report, 0 for none.  An       *)
(* output keeps the connector it read when it was created, and reads       *)
(* encoders and crtcs afresh.  Connectors, encoders and crtcs are numbered *)
(* from 1 in the order the kernel lists them.                              *)
(***************************************************************************)
EXTENDS Naturals, FiniteSetsExt

CONSTANTS Connectors, Encoders, Crtcs   \* how many of each the card has

ASSUME CardAssumption ==
    Connectors \in Nat /\ Encoders \in Nat /\ Crtcs \in Nat

Connector == 1..Connectors
Encoder   == 1..Encoders
CrtcId    == 1..Crtcs

VARIABLES card,            \* how the card is wired, and what is plugged in
          encoder_id,      \* kernel: the encoder of each connector
          crtc_id,         \* kernel: the crtc of each encoder
          ours,            \* kernel: crtcs that show a frame of the display
          made,            \* how many outputs configure has created
          connector,       \* the encoder_id each output has cached
          current_crtc, saved_crtc, using_saved_crtc,
          phase,           \* the display: "create", "set", "up", "down" or "failed"
          took             \* history: the driver took an encoder away

kernel == <<encoder_id, crtc_id, ours>>
output == <<made, connector, current_crtc, saved_crtc, using_saved_crtc>>
kms_vars == <<card, kernel, output, phase, took>>

\* The crtc a connector shows, 0 when it is dark.
CrtcOf(enc, crtc, c) == IF enc[c] = 0 THEN 0 ELSE crtc[enc[c]]

\* What the firmware or the console may leave: no two connectors have one
\* encoder, though two may be clones on one crtc.
KMSInit ==
    /\ card \in [encoders      : [Connector -> SUBSET Encoder],
                 possible_crtcs : [Encoder -> SUBSET CrtcId],
                 connected     : SUBSET Connector]
    /\ encoder_id \in {f \in [Connector -> 0..Encoders] :
          /\ \A c \in Connector : f[c] \in card.encoders[c] \cup {0}
          /\ \A c, d \in Connector : f[c] = f[d] => c = d \/ f[c] = 0}
    /\ crtc_id \in {f \in [Encoder -> 0..Crtcs] :
          \A e \in Encoder : f[e] \in card.possible_crtcs[e] \cup {0}}
    /\ ours = {}
    /\ made = 0
    /\ connector = [c \in Connector |-> 0]
    /\ current_crtc = [c \in Connector |-> 0]
    /\ saved_crtc = [c \in Connector |-> 0]
    /\ using_saved_crtc = [c \in Connector |-> TRUE]
    /\ phase = "create"
    /\ took = FALSE

-----------------------------------------------------------------------------

\* get_kms_output_for, in the order of the connectors.  configure is called once,
\* by the constructor: no connector has an output yet that would be reset.
get_kms_output_for(c) ==
    /\ phase = "create"
    /\ c = made + 1
    /\ c \in Connector
    /\ made' = c
    /\ connector' = [connector EXCEPT ![c] = encoder_id[c]]
    /\ saved_crtc' = [saved_crtc EXCEPT ![c] = CrtcOf(encoder_id, crtc_id, c)]
    /\ UNCHANGED <<card, kernel, current_crtc, using_saved_crtc, phase, took>>

OutputsMade ==
    /\ phase = "create"
    /\ made = Connectors
    /\ phase' = "set"
    /\ UNCHANGED <<card, kernel, output, took>>

\* drmModeSetCrtc with one connector (external): the driver chooses one of the
\* connector's encoders that can be driven by the crtc, takes it from any
\* other connector that has it, and switches off what else showed the crtc.
SetCrtc(c, crtc, shown) ==
    \E e \in card.encoders[c] :
        /\ crtc \in card.possible_crtcs[e]
        /\ encoder_id' = [d \in Connector |-> IF d = c THEN e
                            ELSE IF encoder_id[d] = e THEN 0 ELSE encoder_id[d]]
        /\ crtc_id' = [f \in Encoder |-> IF f = e THEN crtc
                         ELSE IF crtc_id[f] = crtc THEN 0 ELSE crtc_id[f]]
        /\ ours' = IF shown = "frame" THEN ours \cup {crtc} ELSE ours \ {crtc}
        /\ took' = (took \/ \E d \in Connector \ {c} : encoder_id[d] = e)

encoder_is_used(e) == \E d \in Connector : encoder_id[d] = e /\ crtc_id[e] # 0

\* Mutant: crtcs that other connectors use are not passed over.
UsedByNobody(k) == FALSE

crtc_is_used(k) == \E d \in Connector : CrtcOf(encoder_id, crtc_id, d) = k

connector_available_encoders(c) ==
    {e \in card.encoders[c] : ~encoder_is_used(e)}

\* The crtc that ensure_crtc finds for an output that has none, 0 for none:
\* the one its cached connector's encoder has now, or the first that nobody
\* uses and one of the available encoders supports.
ensure_crtc(c) ==
    LET free == {k \in CrtcId : /\ ~crtc_is_used(k)
                                /\ \E e \in connector_available_encoders(c) :
                                      k \in card.possible_crtcs[e]}
    IN  IF CrtcOf(connector, crtc_id, c) # 0 THEN CrtcOf(connector, crtc_id, c)
        ELSE IF free # {} THEN Min(free) ELSE 0

\* The outputs the constructor of GBMDisplayBuffer has still to set.
Unset == {c \in card.connected : using_saved_crtc[c]}

\* set_crtc of the next connected output.  With no crtc to be had, or when
\* drmModeSetCrtc refuses, the constructor throws and the display is undone.
set_crtc(c) ==
    /\ phase = "set"
    /\ Unset # {}
    /\ c = Min(Unset)
    /\ LET crtc == ensure_crtc(c) IN
       \/ /\ crtc # 0
          /\ SetCrtc(c, crtc, "frame")
          /\ current_crtc' = [current_crtc EXCEPT ![c] = crtc]
          /\ using_saved_crtc' = [using_saved_crtc EXCEPT ![c] = FALSE]
          /\ UNCHANGED phase
       \/ /\ phase' = "failed"
          /\ UNCHANGED <<kernel, took, current_crtc, using_saved_crtc>>
    /\ UNCHANGED <<card, made, connector, saved_crtc>>

DisplayMade ==
    /\ phase = "set"
    /\ Unset = {}
    /\ phase' = "up"
    /\ UNCHANGED <<card, kernel, output, took>>

\* The server stops: ~GBMDisplay.
StopDisplay ==
    /\ phase = "up"
    /\ phase' = "down"
    /\ UNCHANGED <<card, kernel, output, took>>

\* Mutant: an undone display is not restored.
RestoreOnlyWhenUp(c) ==
    /\ phase \in {"down", "failed"}
    /\ ~using_saved_crtc[c]
    /\ IF phase = "down" /\ saved_crtc[c] # 0
       THEN SetCrtc(c, saved_crtc[c], "console")
       ELSE UNCHANGED <<kernel, took>>
    /\ using_saved_crtc' = [using_saved_crtc EXCEPT ![c] = TRUE]
    /\ UNCHANGED <<card, made, connector, current_crtc, saved_crtc, phase>>

\* ~KMSOutput, in any order: an output that was set is set back.  There is no
\* crtc 0: the call is refused for a connector that was dark.
restore_saved_crtc(c) ==
    /\ phase \in {"down", "failed"}
    /\ ~using_saved_crtc[c]
    /\ IF saved_crtc[c] # 0
       THEN SetCrtc(c, saved_crtc[c], "console")
       ELSE UNCHANGED <<kernel, took>>
    /\ using_saved_crtc' = [using_saved_crtc EXCEPT ![c] = TRUE]
    /\ UNCHANGED <<card, made, connector, current_crtc, saved_crtc, phase>>

KMSNext ==
    \/ OutputsMade
    \/ DisplayMade
    \/ StopDisplay
    \/ \E c \in Connector : get_kms_output_for(c) \/ set_crtc(c)
                            \/ restore_saved_crtc(c)

KMSSpec == KMSInit /\ [][KMSNext]_kms_vars

-----------------------------------------------------------------------------

\* The type of the outputs' and the kernel's state.
KMSTypeOK ==
    /\ card \in [encoders       : [Connector -> SUBSET Encoder],
                 possible_crtcs : [Encoder -> SUBSET CrtcId],
                 connected      : SUBSET Connector]
    /\ encoder_id \in [Connector -> 0..Encoders]
    /\ crtc_id \in [Encoder -> 0..Crtcs]
    /\ ours \subseteq CrtcId
    /\ made \in 0..Connectors
    /\ connector \in [Connector -> 0..Encoders]
    /\ current_crtc \in [Connector -> 0..Crtcs]
    /\ saved_crtc \in [Connector -> 0..Crtcs]
    /\ using_saved_crtc \in [Connector -> BOOLEAN]
    /\ phase \in {"create", "set", "up", "down", "failed"}
    /\ took \in BOOLEAN

\* Clones: the firmware showed one picture on two connectors.
Cloned == \E c, d \in Connector : c # d /\ saved_crtc[c] = saved_crtc[d]
                                  /\ saved_crtc[c] # 0

\* Every connected output gets a crtc of its own, without which the second
\* schedule_flip of a frame would throw, clones included: drmModeSetCrtc has
\* switched the second connector off before it looks for a crtc.  The one
\* exception is the stale connector: the driver gives the first output the
\* encoder that the second one still believes to be its own.
OutputsHaveOwnCrtcs ==
    \A c, d \in Connector :
        c # d /\ current_crtc[c] = current_crtc[d] /\ current_crtc[c] # 0 => took

\* When the display has gone, or was undone half way through its creation,
\* every connector that showed something is back on its crtc and the crtc
\* shows the console again, unless two were clones or the driver moved an
\* encoder.
ConsoleIsRestored ==
    phase \in {"down", "failed"} /\ (\A c \in Connector : using_saved_crtc[c])
    /\ ~took /\ ~Cloned =>
        \A c \in Connector :
            saved_crtc[c] # 0 =>
                /\ CrtcOf(encoder_id, crtc_id, c) = saved_crtc[c]
                /\ saved_crtc[c] \notin ours

=============================================================================
