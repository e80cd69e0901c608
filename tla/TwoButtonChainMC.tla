-------------------------- MODULE TwoButtonChainMC --------------------------
(***************************************************************************)
(* Instances of TwoButtonChain for TLC: an intent with what can speak      *)
(* against it, and the copies of an effect proof a node may be sent.       *)
(***************************************************************************)
EXTENDS TwoButtonChain, TLC

CONSTANTS ref, ref2, now, now2, i1, i2, e1, e2

Seen(id, target, pos) ==
    [id |-> id, candidates |-> {target}, visible |-> TRUE, pos |-> pos]
Observe(id, rev, frame, pos) ==
    [id |-> id, source |-> "observer", rev |-> rev, frame |-> frame,
     detections |-> {Seen("a", "A", pos), Seen("b", "B", 4)}]

Reference0 == Observe("reference", 1, "bench", 2)
Current0 == Observe("current", 2, "bench", 2)
Intent0 ==
    [target |-> "A", reference_id |-> "reference", digest |-> Reference0,
     detection |-> "a", frame |-> "bench", pos |-> 2, max_displacement |-> 1,
     expires |-> FALSE]

Applied ==
    [source |-> "robot", contract |-> "own", target |-> "A", device |-> "device",
     command |-> "own", verified |-> TRUE, outcome |-> "APPLIED", contact |-> "A",
     executed |-> "yes", goal |-> "yes"]
NotApplied ==
    [Applied EXCEPT !.outcome = "NOT_APPLIED", !.contact = "NONE", !.executed = "no",
                    !.goal = "no"]
Unverified ==
    [Applied EXCEPT !.verified = FALSE, !.outcome = "UNKNOWN", !.contact = "null",
                    !.executed = "null", !.goal = "null"]

Plain ==
    [observations |-> (ref :> Reference0) @@ (now :> Current0), local |-> {now},
     intents |-> (i1 :> Intent0), effects |-> (e1 :> Applied),
     direct |-> [e \in {} |-> Applied], substituted |-> FALSE,
     decisions |-> {"hold", "recognize", "execute"}, faults |-> 1]

\* Where the admission is the subject, the Robot recognizes; where the effect is, the
\* current observation travels no further than the Field.
Refused == [Plain EXCEPT !.decisions = {"recognize"}]
Observing(f) ==
    [Refused EXCEPT !.observations = f @@ @,
                    !.local = {now, now2} \cap DOMAIN (f @@ Plain.observations)]
Claiming(claim) == [Refused EXCEPT !.intents = @ @@ (i2 :> claim)]
Reporting(effects) ==
    [Plain EXCEPT !.effects = effects, !.local = {}, !.decisions = {"execute"}]
Bypassing == [Reporting(Plain.effects) EXCEPT !.faults = 0]

\* What the Field may find when it decides on the intent.
AdmissionScenarios ==
    {Claiming(Intent0),
     Claiming([Intent0 EXCEPT !.target = "B"]),
     [Refused EXCEPT !.intents = (i1 :> [Intent0 EXCEPT !.expires = TRUE])],
     [Refused EXCEPT !.intents = (i1 :> [Intent0 EXCEPT !.pos = 3])],
     [Claiming([Intent0 EXCEPT !.pos = 3]) EXCEPT
          !.intents = (i1 :> [Intent0 EXCEPT !.pos = 3]) @@ @],
     [Observing(now2 :> Observe("later", 3, "bench", 3)) EXCEPT !.faults = 0],
     Observing(now :> Observe("current", 2, "other", 2)),
     Observing(ref2 :> Observe("reference", 1, "bench", 3)),
     Observing(ref2 :> Observe("reference", 1, "other", 2))}

\* The intent is held on an observation in another frame, is repeated, and is
\* admitted on a later one: a hold and a decision to execute go to Mission.
HeldAtFirst ==
    [Claiming(Intent0) EXCEPT
        !.observations = (now :> Observe("current", 2, "other", 2))
                         @@ (now2 :> Observe("later", 3, "bench", 2)) @@ @,
        !.local = {}, !.decisions = {"execute"}, !.faults = 0]

\* What the Field may be sent of the effect.
EffectScenarios ==
    {[Plain EXCEPT !.decisions = {"hold", "execute"}], Reporting(e1 :> Unverified),
     Reporting((e1 :> Applied) @@ (e2 :> Unverified))}
    \cup {[Reporting((e1 :> Applied) @@ (e2 :> copy)) EXCEPT !.faults = 0] :
             copy \in {NotApplied, [Applied EXCEPT !.contact = "B"],
                       [Applied EXCEPT !.source = "another"]}}

\* What Mission may be sent past the Field.
BypassScenarios ==
    {[Bypassing EXCEPT !.direct = (e2 :> copy)] :
        copy \in {Applied, NotApplied, Unverified,
                  [Applied EXCEPT !.device = "elsewhere"],
                  [Applied EXCEPT !.contract = "other"],
                  [Applied EXCEPT !.target = "B"]}}
    \cup {[Bypassing EXCEPT !.substituted = TRUE],
          [Bypassing EXCEPT !.substituted = TRUE,
                            !.direct = (e2 :> [Applied EXCEPT !.device = "elsewhere"])]}

AllScenarios ==
    AdmissionScenarios \cup EffectScenarios \cup BypassScenarios \cup {HeldAtFirst}
=============================================================================
