-------------------------- MODULE TwoButtonRobotMC --------------------------
(***************************************************************************)
(* Instances of TwoButtonRobot for TLC: the contents a spatial context may *)
(* have, one for every branch of the policy, and where the buttons are.    *)
(***************************************************************************)
EXTENDS TwoButtonRobot, TLC

CONSTANTS o1, x1, x2, x3

Seen(id, candidates, pos) ==
    [id |-> id, candidates |-> candidates, visible |-> TRUE, pos |-> pos]

Observation(id, frame, detections) ==
    [id |-> id, source |-> "observer", frame |-> frame, detections |-> detections]

\* The buttons were at 2 and 4 when the Field looked; A may have been elsewhere
\* when the intent was written.
Both == {Seen("a", {"A"}, 2), Seen("b", {"B"}, 4)}
CurrentOf(detections) == Observation("current", "bench", detections)
ReferenceAt(pos) ==
    Observation("reference", "bench", {Seen("a", {"A"}, pos), Seen("b", {"B"}, 4)})

ContextOn(reference, detections) ==
    [contract |-> o1, operation |-> o1, device |-> "device",
     reference |-> reference, current |-> CurrentOf(detections),
     intent |-> [target |-> "A", reference_id |-> "reference", digest |-> reference,
                 detection |-> "a", frame |-> "bench",
                 pos |-> (CHOOSE d \in reference.detections : d.id = "a").pos,
                 max_displacement |-> 1]]

Still == ContextOn(ReferenceAt(2), Both)
Moved == ContextOn(ReferenceAt(1), Both)

Scenarios ==
    {Still, Moved,
     ContextOn(ReferenceAt(0), Both),
     ContextOn(ReferenceAt(2), {Seen("b", {"B"}, 4)}),
     ContextOn(ReferenceAt(2), {Seen("a", {"A", "B"}, 2), Seen("b", {"B"}, 4)}),
     ContextOn(ReferenceAt(2), Both \cup {Seen("c", {"A"}, 3)}),
     ContextOn(ReferenceAt(2), {[Seen("a", {"A"}, 2) EXCEPT !.visible = FALSE]}),
     [Still EXCEPT !.current.frame = "other"],
     [Still EXCEPT !.device = "elsewhere"],
     [Still EXCEPT !.intent.pos = 3],
     [Still EXCEPT !.intent.target = "C"],
     [Still EXCEPT !.reference = NoObservation],
     [Still EXCEPT !.intent.digest = ReferenceAt(1)],
     [Still EXCEPT !.contract = "another"]}

\* A context of another operation, which only its envelope may relate to this one.
Foreign == [Still EXCEPT !.contract = "another", !.operation = "another"]
TheCorrelation == (x1 :> o1) @@ (x2 :> o1) @@ (x3 :> "another")

\* The context alone, delivered twice, or with another one; a foreign one, in the
\* operation's correlation or in its own, alone or with the operation's.
OneOrTwoContexts ==
    {[x \in {x1} |-> c] : c \in Scenarios}
    \cup {[x \in {x1, x2} |-> IF x = x1 THEN c ELSE Still] :
             c \in {Still, Moved, Foreign}}
    \cup {x1 :> Foreign, x3 :> Foreign}

TheWorlds == <<[A |-> 2, B |-> 4], [A |-> 4, B |-> 2]>>
=============================================================================
