--------------------------- MODULE TwoButtonPolicy ---------------------------
(***************************************************************************)
(* The pure half of the two-button slice: which local action a persisted   *)
(* intent, its reference observation, the observation at execution time    *)
(* and a level reading allow, and which press an execute decision stands   *)
(* for.                                                                    *)
(*                                                                         *)
(* An observation is a record of its identifier, source, frame (frame and  *)
(* calibration together) and set of detections; a canonical digest is      *)
(* equality of content, so an intent's reference_digest is the observation *)
(* it was authored from.  Positions are integers on a line.                *)
(***************************************************************************)
EXTENDS Integers, FiniteSets

Holds == {"HOLD_REFERENCE_MISMATCH", "HOLD_CONTEXT_MISMATCH", "HOLD_AMBIGUOUS"}
Executes == {"EXECUTE", "REANCHOR_EXECUTE"}
Actions == Holds \cup Executes \cup {"RECOGNIZE_EFFECT"}

\* The detections of an observation that carry an identifier.
Named(observation, id) == {d \in observation.detections : d.id = id}
The(detections) == CHOOSE d \in detections : TRUE

\* What the value types refuse at construction: observations with a repeated
\* detection, contexts whose embedded reference is not the one they name.
WellFormed(observation) ==
    \A d, e \in observation.detections : d.id = e.id => d = e

Embeds(intent, reference) ==
    reference.id = intent.reference_id /\ reference = intent.digest

\* verify_reference: the first check that fails gives the action.
VerifyReference(intent, reference) ==
    LET named == Named(reference, intent.detection) IN
    IF reference.id # intent.reference_id THEN "HOLD_REFERENCE_MISMATCH"
    ELSE IF reference.frame # intent.frame THEN "HOLD_CONTEXT_MISMATCH"
    ELSE IF reference # intent.digest THEN "HOLD_REFERENCE_MISMATCH"
    ELSE IF Cardinality(named) # 1 THEN "HOLD_REFERENCE_MISMATCH"
    ELSE IF The(named).candidates # {intent.target} THEN "HOLD_AMBIGUOUS"
    ELSE IF The(named).pos # intent.pos THEN "HOLD_REFERENCE_MISMATCH"
    ELSE "VALID"

\* _verify_current_context.
InContext(intent, reference, current) ==
    /\ current.source = reference.source
    /\ current.frame = intent.frame

\* _matching_unique_detection: what the observation shows of the target, when
\* that is one visible detection that can be nothing else.
UniqueMatch(observation, target) ==
    LET matching == {d \in observation.detections : target \in d.candidates}
    IN  IF Cardinality(matching) = 1
        THEN {d \in matching : d.candidates = {target} /\ d.visible}
        ELSE {}

Distance(p, q) == IF p >= q THEN p - q ELSE q - p

\* How far the target moved, and whether that is still the same place.
AnyDisplacement(intent, displacement) == TRUE
WithinTolerance(intent, displacement) == displacement <= intent.max_displacement

\* decide_two_button.
Decide(intent, reference, current, level, device) ==
    LET unique == UniqueMatch(current, intent.target)
        displacement == Distance(The(Named(reference, intent.detection)).pos,
                                 The(unique).pos)
    IN  IF VerifyReference(intent, reference) # "VALID"
        THEN VerifyReference(intent, reference)
        ELSE IF ~InContext(intent, reference, current) THEN "HOLD_CONTEXT_MISMATCH"
        ELSE IF level.target # intent.target \/ level.device # device
             THEN "HOLD_CONTEXT_MISMATCH"
        ELSE IF level.latched THEN "RECOGNIZE_EFFECT"
        ELSE IF unique = {} THEN "HOLD_AMBIGUOUS"
        ELSE IF ~WithinTolerance(intent, displacement) THEN "HOLD_AMBIGUOUS"
        ELSE IF displacement = 0 THEN "EXECUTE" ELSE "REANCHOR_EXECUTE"

\* derive_spatial_press_command: the selected detection's pose, from the
\* reference when nothing moved and from the current observation otherwise.
AlwaysReference(intent, reference, current, action) ==
    [from |-> reference.id, frame |-> reference.frame,
     pos |-> The(Named(reference, intent.detection)).pos]

DeriveCommand(intent, reference, current, action) ==
    LET source == IF action = "EXECUTE" THEN reference ELSE current
        selected == IF action = "EXECUTE"
                    THEN The(Named(reference, intent.detection))
                    ELSE The(UniqueMatch(current, intent.target))
    IN  [from |-> source.id, frame |-> source.frame, pos |-> selected.pos]
=============================================================================
