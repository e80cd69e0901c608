--------------------------- MODULE TwoButtonChain ---------------------------
(***************************************************************************)
(* The evidence chain of one operation of the two-button slice: the Field  *)
(* (_M3aFieldMixin) binds the intent, admits or holds it on the persisted  *)
(* observations, and validates, binds and forwards what the Robot reports; *)
(* Mission (_M3aMissionMixin) binds context and effect proof and shows     *)
(* what is attributable.  The Robot is what TwoButtonRobot lets it report. *)
(*                                                                         *)
(* Rows of an outbox arrive at any time and in any order, as Delivery      *)
(* allows.  An endpoint takes one frame at a time; two connections that    *)
(* share a store are the subject of FieldReconciliation.  Level evidence   *)
(* and lifecycle events other than the terminal one travel like the        *)
(* decision and select nothing.                                            *)
(***************************************************************************)
EXTENDS TwoButtonPolicy, NodeStore

CONSTANTS
    Observations,   \* envelopes of m3a.two_button.observation
    Intents,        \* envelopes of m3a.ensure_latched.intent, one operation
    Effects,        \* envelopes of m3a.spatial.effect
    Scenarios,      \* what the envelopes contain, what the Robot may decide, and
                    \* the bound of crashes and exceptions
    Device,         \* the Field's m3a_device_id
    NoMessage, NoIntent, NoBundle, NoContext, NoProof
Nodes == {"field", "mission"}
Observation(x) == <<"observation", x>>
Intent(i) == <<"intent", i>>
Context == <<"context", "field">>
Substitute == <<"context", "other">>
FieldDecision == <<"decision", "field">>
Decision == <<"decision", "robot">>
Command == <<"command", "robot">>
TerminalEvent == <<"event", "robot">>
EffectMessages == {"effect", "direct"} \X Effects
Reports == {Decision, Command, TerminalEvent}
Messages ==
    {Observation(x) : x \in Observations} \cup {Intent(i) : i \in Intents}
        \cup {Context, Substitute, FieldDecision} \cup Reports \cup EffectMessages

ASSUME TwoButtonChainAssumption ==
    /\ IsFiniteSet(Messages)
    /\ NoMessage \notin Messages
    /\ \A s \in Scenarios :
          /\ DOMAIN s.observations \subseteq Observations
          /\ s.local \subseteq DOMAIN s.observations
          /\ DOMAIN s.intents \subseteq Intents
          /\ DOMAIN s.effects \cup DOMAIN s.direct \subseteq Effects
          /\ s.substituted \in BOOLEAN
          /\ s.decisions \subseteq {"hold", "recognize", "execute"}
          /\ s.faults \in Nat
          /\ \A i \in DOMAIN s.intents : s.intents[i] # NoIntent
          /\ \A e \in DOMAIN s.effects : s.effects[e] # NoProof
          /\ \A e \in DOMAIN s.direct : s.direct[e] # NoProof
          /\ \A seen \in SUBSET {s.observations[x] : x \in DOMAIN s.observations} :
                seen # {} => \E o \in seen : \A p \in seen : p.rev <= o.rev

VARIABLES
    inbox,        \* durable, per node: processing_state of every message
    received_at,  \* durable, per node: order of the messages that may wait
    root,         \* Field, durable: m3a_intent_binding
    bundle,       \* Field outbox: intent, reference and current of the bundle
    held,         \* Field outbox: hold decisions with reason and cause
    outbox,       \* Field outbox: messages for Mission
    proof,        \* durable, per node: m3a_effect_binding of the contract
    diagnostic,   \* durable, per node: m3a_effect_diagnostic of the contract
    disputed,     \* durable, per node: messages that left a conflict row
    context,      \* Mission, durable: m3a_context_binding of the contract
    decided,      \* what the Robot decided on the bundle's context
    fresh,        \* local observations recorded in the Field's present boot
    pc, task, left,   \* per node: the handler, its message, claims it may make
    recovering,   \* nodes whose call is recover()
    sent,         \* the scenario, fixed
    faults

rows == <<inbox, received_at>>
admission == <<root, bundle, held>>
bindings == <<proof, diagnostic, disputed, context>>
outside == <<decided, sent>>
call == <<left, recovering>>
vars == <<rows, admission, outbox, bindings, outside, fresh, pc, task, call, faults>>
-----------------------------------------------------------------------------
Labels == {"down", "idle", "loop", "process", "intake", "diagnose", "forward",
           "complete"}
Working == Labels \ {"down", "idle", "loop"}
Decisions == {"none", "hold", "recognize", "execute"}

Contents(n, m) == CASE m[1] = "effect" -> sent.effects[m[2]]
                    [] m[1] = "direct" -> sent.direct[m[2]]
Proofs == {NoProof} \cup UNION {{s.effects[e] : e \in DOMAIN s.effects}
                                \cup {s.direct[e] : e \in DOMAIN s.direct} : s \in Scenarios}

\* Every table, row and local is of its type.
TypeOK ==
    /\ inbox \in [Nodes -> [Messages -> InboxState]]
    /\ \A n \in Nodes : received_at[n] \in [Messages -> 0..Cardinality(Messages)]
    /\ root = NoIntent \/ \E i \in DOMAIN sent.intents : root = sent.intents[i]
    /\ bundle # NoBundle => /\ bundle.intent = root
                            /\ {bundle.reference, bundle.current} \subseteq
                                  {sent.observations[x] : x \in DOMAIN sent.observations}
    /\ \A h \in held : h.cause \in {Intent(i) : i \in Intents} /\ h.action \in Holds
    /\ outbox \subseteq Messages /\ fresh \subseteq Observations
    /\ {proof[n] : n \in Nodes} \cup {diagnostic[n] : n \in Nodes} \subseteq Proofs
    /\ UNION {disputed[n] : n \in Nodes} \subseteq Messages
    /\ context \in {NoContext, Context, Substitute}
    /\ decided \in Decisions
    /\ pc \in [Nodes -> Labels] /\ task \in [Nodes -> Messages \cup {NoMessage}]
    /\ \A n \in Nodes : left[n] \in 0..2 * Cardinality(Messages)
    /\ recovering \subseteq Nodes /\ faults \in 0..sent.faults

Init ==
    /\ inbox = [n \in Nodes |-> [m \in Messages |-> "ABSENT"]]
    /\ received_at = [n \in Nodes |-> [m \in Messages |-> 0]]
    /\ root = NoIntent
    /\ bundle = NoBundle
    /\ held = {}
    /\ outbox = {}
    /\ proof = [n \in Nodes |-> NoProof]
    /\ diagnostic = [n \in Nodes |-> NoProof]
    /\ disputed = [n \in Nodes |-> {}]
    /\ context = NoContext
    /\ decided = "none"
    /\ fresh = {}
    /\ pc = [n \in Nodes |-> "idle"]
    /\ task = [n \in Nodes |-> NoMessage]
    /\ left = [n \in Nodes |-> 0]
    /\ recovering = {}
    /\ sent \in Scenarios
    /\ faults = 0
-----------------------------------------------------------------------------
(* Where the messages come from.                                           *)

\* The Robot decides on the context of the bundle, once; for a hold and for a
\* recognized effect there is no command and no effect.
RobotDecides(d) ==
    /\ bundle # NoBundle
    /\ decided = "none"
    /\ d \in sent.decisions
    /\ decided' = d
    /\ UNCHANGED <<rows, admission, outbox, bindings, fresh, pc, task, call, sent,
                   faults>>

Sendable(n, m) ==
    IF n = "mission"
    THEN \/ m \in outbox
         \/ m[1] = "direct" /\ m[2] \in DOMAIN sent.direct /\ decided = "execute"
         \/ m = Substitute /\ sent.substituted /\ bundle # NoBundle
    ELSE CASE m[1] = "observation" -> m[2] \in DOMAIN sent.observations
           [] m[1] = "intent" -> m[2] \in DOMAIN sent.intents
           [] m \in {Decision, TerminalEvent} -> decided # "none"
           [] m = Command -> decided = "execute"
           [] m[1] = "effect" -> decided = "execute" /\ m[2] \in DOMAIN sent.effects
           [] OTHER -> FALSE
-----------------------------------------------------------------------------
(* The frame of a call, as in TwoButtonRobot, at either node.              *)

Persisted(n) == {m \in Messages : inbox[n][m] # "ABSENT"}
MayWait(m) == m[1] \in {"intent", "effect", "direct"}
Goto(n, label) == pc' = [pc EXCEPT ![n] = label]

NextClaim(n) ==
    /\ Goto(n, "loop")
    /\ task' = [task EXCEPT ![n] = NoMessage]

\* The nodes share nothing but rows of an outbox, each of them durable before it
\* is read: calls at the two commute, and the model takes them one after the other.
Quiet == \A n \in Nodes : pc[n] \in {"idle", "down"}

\* receive_frames, and the Field's local observer, then handle(): durable, claimed,
\* and one that waits after it.  A crash between the two leaves what one after
\* the claim does.
Handle(n, m) ==
    /\ Quiet
    /\ pc[n] = "idle"
    /\ Sendable(n, m)
    /\ inbox[n][m] = "ABSENT"
    /\ inbox' = [inbox EXCEPT ![n] = Claim(Receive(@, m), m)]
    /\ received_at' = [received_at EXCEPT ![n][m] =
          IF MayWait(m) THEN Cardinality({k \in Persisted(n) : MayWait(k)}) + 1 ELSE 0]
    /\ fresh' = IF n = "field" /\ m \in {Observation(x) : x \in sent.local}
                THEN fresh \cup {m[2]} ELSE fresh
    /\ Goto(n, "process")
    /\ task' = [task EXCEPT ![n] = m]
    /\ left' = [left EXCEPT ![n] = 1]
    /\ UNCHANGED <<admission, outbox, bindings, outside, recovering, faults>>

NeverClaims(n) == FALSE
AlwaysClaims(n) == TRUE
MayClaim(n) == left[n] > 0

ClaimNext(n, m) ==
    /\ pc[n] = "loop"
    /\ MayClaim(n)
    /\ m \in NextInbox(inbox[n], received_at[n])
    /\ inbox' = [inbox EXCEPT ![n] = Claim(@, m)]
    /\ Goto(n, "process")
    /\ task' = [task EXCEPT ![n] = m]
    /\ left' = [left EXCEPT ![n] = @ - 1]
    /\ UNCHANGED <<received_at, admission, outbox, bindings, outside, fresh,
                   recovering, faults>>

\* A call ends: nothing is claimed any more.
Leave(n, label) ==
    /\ Goto(n, label)
    /\ task' = [task EXCEPT ![n] = NoMessage]
    /\ left' = [left EXCEPT ![n] = 0]
    /\ recovering' = recovering \ {n}

Return(n) ==
    /\ pc[n] = "loop"
    /\ ~MayClaim(n) \/ Claimable(inbox[n]) = {}
    /\ Leave(n, "idle")
    /\ UNCHANGED <<rows, admission, outbox, bindings, outside, fresh, faults>>

\* The process dies and comes back with another boot_id; recover() first.
Crash(n) ==
    /\ pc[n] # "down"
    /\ faults < sent.faults
    /\ faults' = faults + 1
    /\ Leave(n, "down")
    /\ fresh' = IF n = "field" THEN {} ELSE fresh
    /\ UNCHANGED <<rows, admission, outbox, bindings, outside>>

Start(n) ==
    /\ Quiet
    /\ pc[n] = "down"
    /\ inbox' = [inbox EXCEPT ![n] = RecoverInterrupted(@)]
    /\ left' = [left EXCEPT ![n] = 2 * Cardinality(Claimable(inbox'[n]))]
    /\ recovering' = recovering \cup {n}
    /\ Goto(n, "loop")
    /\ UNCHANGED <<received_at, admission, outbox, bindings, outside, fresh, task,
                   faults>>

\* An exception ends the connection, or recover() and the process; the row stays
\* PROCESSING.
Raise(n) ==
    /\ Leave(n, IF n \in recovering THEN "down" ELSE "idle")
    /\ fresh' = IF n = "field" /\ n \in recovering THEN {} ELSE fresh

Fails(n) ==
    /\ pc[n] \in Working
    /\ faults < sent.faults
    /\ faults' = faults + 1
    /\ Raise(n)
    /\ UNCHANGED <<rows, admission, outbox, bindings, outside>>

\* complete_inbox with the outgoing messages, and fail_inbox: one transaction.
Finish(n) ==
    /\ inbox' = [inbox EXCEPT ![n] = Complete(@, task[n])]
    /\ NextClaim(n)

Wait(n) ==
    /\ inbox' = [inbox EXCEPT ![n] = Fail(@, task[n])]
    /\ NextClaim(n)

CompleteInbox(n) ==
    /\ pc[n] = "complete"
    /\ Finish(n)
    /\ UNCHANGED <<received_at, admission, outbox, bindings, outside, fresh, call,
                   faults>>
-----------------------------------------------------------------------------
(* The Field: observations, reports and the intent.                        *)

Takes(n, kinds) == pc[n] = "process" /\ task[n][1] \in kinds

\* A local observation is forwarded as it is completed, but only in the boot it
\* was recorded in; what came from Mission is not sent back.
IsLocal(x) == x \in fresh
TakeObservation ==
    /\ Takes("field", {"observation"})
    /\ outbox' = IF IsLocal(task["field"][2]) THEN outbox \cup {task["field"]} ELSE outbox
    /\ Finish("field")
    /\ UNCHANGED <<received_at, admission, bindings, outside, fresh, call, faults>>

ForwardReport ==
    /\ Takes("field", {"decision", "command", "event"})
    /\ outbox' = outbox \cup {task["field"]}
    /\ Finish("field")
    /\ UNCHANGED <<received_at, admission, bindings, outside, fresh, call, faults>>

\* bind_m3a_intent: the first claim about the operation is its root; a changed
\* one leaves a conflict row and is completed, an equal one goes on.
Claims(i) == sent.intents[i]
IsAnyRoot(claim) == TRUE
IsRoot(claim) == root \in {NoIntent, claim}

BindIntent ==
    LET claim == Claims(task["field"][2]) IN
    /\ Takes("field", {"intent"})
    /\ IF IsRoot(claim)
       THEN root' = claim /\ Goto("field", "intake") /\ UNCHANGED disputed
       ELSE /\ disputed' = [disputed EXCEPT !["field"] = @ \cup {task["field"]}]
            /\ Goto("field", "complete")
            /\ UNCHANGED root
    /\ UNCHANGED <<rows, bundle, held, outbox, proof, diagnostic, context, outside,
                   fresh, task, call, faults>>

Observed == {sent.observations[m[2]] : m \in {k \in Persisted("field") : k[1] = "observation"}}

\* _m3a_reference_candidates and _m3a_current_candidate.  When references differ
\* nothing is used of them but their source, which they share.
References(intent) == {o \in Observed : o.id = intent.reference_id}
Reference(intent) == CHOOSE o \in References(intent) : TRUE

AnyCurrents(intent) ==
    {o \in Observed : \E r \in References(intent) : o.source = r.source}
Currents(intent) == {o \in Observed : /\ o.id # intent.reference_id
                                      /\ \E r \in References(intent) : o.source = r.source}
Current(intent) ==
    CHOOSE o \in Currents(intent) : \A p \in Currents(intent) : p.rev <= o.rev

\* What speaks against an intent: first its reference, then the current
\* observation, then its age.  The Field's clock may have passed an expiry or not.
ReferenceObjection(intent) ==
    IF References(intent) = {} THEN {}
    ELSE IF Cardinality(References(intent)) > 1
    THEN IF \E o \in References(intent) : o.frame # intent.frame
         THEN {[reason |-> "REFERENCE_CONTEXT_CONFLICT", action |-> "HOLD_CONTEXT_MISMATCH"]}
         ELSE {[reason |-> "REFERENCE_OBSERVATION_UUID_CONFLICT",
                action |-> "HOLD_REFERENCE_MISMATCH"]}
    ELSE LET verification == VerifyReference(intent, Reference(intent)) IN
         IF verification = "VALID" THEN {}
         ELSE {[reason |-> verification, action |-> verification]}

CurrentObjection(intent) ==
    IF InContext(intent, Reference(intent), Current(intent)) THEN {}
    ELSE {[reason |-> "CURRENT_OBSERVATION_CONTEXT_MISMATCH",
           action |-> "HOLD_CONTEXT_MISMATCH"]}

Expiry == [reason |-> "INTENT_EXPIRED", action |-> "HOLD_CONTEXT_MISMATCH"]

Objections(intent) ==
    IF ReferenceObjection(intent) # {} THEN ReferenceObjection(intent)
    ELSE IF References(intent) = {} \/ Currents(intent) = {} THEN {}
    ELSE IF CurrentObjection(intent) # {} THEN CurrentObjection(intent)
    ELSE IF intent.expires THEN {Expiry} ELSE {}

Admissible(intent) ==
    /\ References(intent) # {}
    /\ ReferenceObjection(intent) = {}
    /\ Currents(intent) # {}
    /\ CurrentObjection(intent) = {}

Intake ==
    /\ pc["field"] = "intake"
    /\ UNCHANGED <<received_at, root, bindings, outside, faults>>

\* An exact duplicate: the prior bundle is enqueued again, which changes nothing.
IntentKnown ==
    /\ Intake
    /\ bundle # NoBundle
    /\ Finish("field")
    /\ UNCHANGED <<bundle, held, outbox, fresh, call>>

IntentWaits ==
    /\ Intake
    /\ bundle = NoBundle
    /\ \/ References(root) = {}
       \/ Currents(root) = {} /\ ReferenceObjection(root) = {}
    /\ Wait("field")
    /\ UNCHANGED <<bundle, held, outbox, fresh, call>>

\* A hold needs a current observation to name.  Its identifier is that of its
\* reason: a second envelope cannot be held for the same one.
Clashes(objection) ==
    \E h \in held : h.reason = objection.reason /\ h.cause # task["field"]

HoldIntent ==
    /\ Intake
    /\ bundle = NoBundle
    /\ References(root) # {}
    /\ \E objection \in Objections(root) :
          IF Currents(root) = {}
          THEN Finish("field") /\ UNCHANGED <<held, outbox, fresh, call>>
          ELSE IF Clashes(objection)
          THEN Raise("field") /\ UNCHANGED <<inbox, held, outbox>>
          ELSE /\ held' = held \cup {[reason |-> objection.reason,
                                      action |-> objection.action,
                                      cause |-> task["field"]]}
               /\ outbox' = outbox \cup {FieldDecision}
               /\ Finish("field")
               /\ UNCHANGED <<fresh, call>>
    /\ UNCHANGED bundle

\* _m3a_make_bundle: snapshot, plan, assignment, contract, context and Mission's
\* copy of it, with the completion of the intent.
AdmitIntent ==
    /\ Intake
    /\ bundle = NoBundle
    /\ Admissible(root)
    /\ bundle' = [intent |-> root, reference |-> Reference(root), current |-> Current(root)]
    /\ outbox' = outbox \cup {Context}
    /\ Finish("field")
    /\ UNCHANGED <<held, fresh, call>>
-----------------------------------------------------------------------------
(* Effect proofs, at either node.                                          *)

Effect(n) == IF task[n][1] = "effect" THEN sent.effects[task[n][2]]
             ELSE sent.direct[task[n][2]]

\* An unverified proof claims nothing; a success is a contact with the target.
Coherent(effect) ==
    IF effect.verified
    THEN /\ effect.outcome = "APPLIED" =>
               effect.executed = "yes" /\ effect.goal = "yes" /\ effect.contact = bundle.intent.target
         /\ effect.goal = "yes" => effect.outcome = "APPLIED"
    ELSE /\ effect.outcome = "UNKNOWN"
         /\ {effect.contact, effect.executed, effect.goal} = {"null"}

\* _m3a_effect_validation_reason, in its order: what is refused or waits.  The
\* Robot's decision to execute and its command name the same digest.
Related(effect) ==
    /\ effect.source = "robot"
    /\ effect.contract = "own"
    /\ effect.target = bundle.intent.target
    /\ effect.device = Device

FieldVerdict(effect) ==
    IF ~Related(effect) THEN "refused"
    ELSE IF Command \notin Persisted("field") THEN "waits"
    ELSE IF effect.command # "own" THEN "refused"
    ELSE IF Decision \notin Persisted("field") THEN "waits"
    ELSE IF Coherent(effect) THEN "valid" ELSE "refused"

\* Mission: route and intent, the dependencies in their order, then everything
\* again for attribution.  To be waited for no longer, any decision about the
\* operation will do, a hold of the Field's as well as the Robot's.
BoundDevice == IF context = Context THEN Device ELSE "elsewhere"

MissingDependency(effect) ==
    \/ context = NoContext \/ effect.contract # "own"
    \/ /\ effect.device = BoundDevice
       /\ \/ TerminalEvent \notin Persisted("mission")
          \/ Command \notin Persisted("mission")
          \/ effect.command = "own" /\ {Decision, FieldDecision} \cap Persisted("mission") = {}

Attributable(effect) ==
    /\ effect.target = bundle.intent.target
    /\ effect.contract = "own"
    /\ context # NoContext
    /\ effect.device = BoundDevice
    /\ {TerminalEvent, Command, Decision} \subseteq Persisted("mission")
    /\ effect.command = "own"
    /\ decided = "execute"
    /\ Coherent(effect)

MissionVerdict(effect) ==
    IF effect.target # bundle.intent.target THEN "refused"
    ELSE IF MissingDependency(effect) THEN "waits"
    ELSE IF Attributable(effect) THEN "valid" ELSE "refused"

Verdict(n) == IF n = "field" THEN FieldVerdict(Effect(n)) ELSE MissionVerdict(Effect(n))
Onward(n) == IF n = "field" THEN "forward" ELSE "complete"
Drops(n) == disputed' = disputed
Disputes(n) == disputed' = [disputed EXCEPT ![n] = @ \cup {task[n]}]

EffectWaits(n) ==
    /\ Takes(n, {"effect", "direct"})
    /\ Verdict(n) = "waits"
    /\ Wait(n)
    /\ UNCHANGED <<received_at, admission, outbox, bindings, outside, fresh, call,
                   faults>>

\* Refused after a proof was bound for its contract, it leaves a conflict row.
EffectRefused(n) ==
    /\ Takes(n, {"effect", "direct"})
    /\ Verdict(n) = "refused"
    /\ IF Effect(n).contract = "own" /\ proof[n] # NoProof
       THEN Disputes(n) ELSE UNCHANGED disputed
    /\ Goto(n, "complete")
    /\ UNCHANGED <<rows, admission, outbox, proof, diagnostic, context, outside,
                   fresh, task, call, faults>>

\* bind_m3a_effect: the first verified proof of a contract is bound, a different
\* one leaves a conflict row; an unverified one binds nothing.
Rebinds(n, effect) == FALSE
Diverges(n, effect) == proof[n] \notin {NoProof, effect}

BindEffect(n) ==
    LET effect == Effect(n) IN
    /\ Takes(n, {"effect", "direct"})
    /\ Verdict(n) = "valid"
    /\ IF Diverges(n, effect)
       THEN Disputes(n) /\ Goto(n, "complete") /\ UNCHANGED proof
       ELSE /\ proof' = IF effect.verified THEN [proof EXCEPT ![n] = effect] ELSE proof
            /\ Goto(n, IF effect.verified THEN Onward(n) ELSE "diagnose")
            /\ UNCHANGED disputed
    /\ UNCHANGED <<rows, admission, outbox, diagnostic, context, outside, fresh, task,
                   call, faults>>

\* bind_m3a_effect_diagnostic, while there is no proof.
BindDiagnostic(n) ==
    LET effect == Effect(n) IN
    /\ pc[n] = "diagnose"
    /\ IF diagnostic[n] \notin {NoProof, effect}
       THEN Disputes(n) /\ Goto(n, "complete") /\ UNCHANGED diagnostic
       ELSE /\ diagnostic' = [diagnostic EXCEPT ![n] = effect]
            /\ Goto(n, Onward(n))
            /\ UNCHANGED disputed
    /\ UNCHANGED <<rows, admission, outbox, proof, context, outside, fresh, task, call,
                   faults>>

\* The canonical proof, which the message's own is equal to by now, is forwarded.
ForwardEffect ==
    /\ pc["field"] = "forward"
    /\ outbox' = outbox \cup {task["field"]}
    /\ Finish("field")
    /\ UNCHANGED <<received_at, admission, bindings, outside, fresh, call, faults>>
-----------------------------------------------------------------------------
(* Mission.                                                                *)

\* bind_m3a_context: the first context of the contract.
BindContext ==
    /\ Takes("mission", {"context"})
    /\ IF context \in {NoContext, task["mission"]}
       THEN context' = task["mission"] /\ UNCHANGED disputed
       ELSE Disputes("mission") /\ UNCHANGED context
    /\ Goto("mission", "complete")
    /\ UNCHANGED <<rows, admission, outbox, proof, diagnostic, outside, fresh, task,
                   call, faults>>

TakeReport ==
    /\ Takes("mission", {"observation", "decision", "command", "event"})
    /\ Finish("mission")
    /\ UNCHANGED <<received_at, admission, outbox, bindings, outside, fresh, call,
                   faults>>

\* m3a_view_state: an effect is shown when one that arrived is attributable, and
\* then it is the one that was bound first, or the diagnostic before there is one.
Arrived == {IF m[1] = "effect" THEN sent.effects[m[2]] ELSE sent.direct[m[2]] :
               m \in Persisted("mission") \cap EffectMessages}

AnyEffect ==
    IF Arrived = {} THEN NoProof ELSE CHOOSE effect \in Arrived : TRUE

Shown ==
    IF ~\E effect \in Arrived : Attributable(effect) THEN NoProof
    ELSE IF proof["mission"] # NoProof THEN proof["mission"]
    ELSE diagnostic["mission"]

BusinessResult ==
    IF Shown # NoProof
    THEN IF Shown.goal = "yes" THEN "APPLIED"
         ELSE IF Shown.outcome = "NOT_APPLIED"
         THEN "NOT_APPLIED_AFTER_UNCERTAIN_DISPATCH"
         ELSE "OUTCOME_UNKNOWN"
    ELSE IF Decision \in Persisted("mission") /\ decided = "recognize"
    THEN "RECOGNIZED_ALREADY_EFFECTIVE"
    ELSE "none"
-----------------------------------------------------------------------------
NodeStep(n) ==
    \/ \E m \in Messages : ClaimNext(n, m)
    \/ Return(n)
    \/ EffectWaits(n)
    \/ EffectRefused(n)
    \/ BindEffect(n)
    \/ BindDiagnostic(n)
    \/ CompleteInbox(n)

FieldStep ==
    \/ NodeStep("field")
    \/ TakeObservation
    \/ ForwardReport
    \/ BindIntent
    \/ IntentKnown
    \/ IntentWaits
    \/ HoldIntent
    \/ AdmitIntent
    \/ ForwardEffect

MissionStep ==
    \/ NodeStep("mission")
    \/ BindContext
    \/ TakeReport

Progress ==
    \/ FieldStep
    \/ MissionStep
    \/ \E d \in Decisions \ {"none"} : RobotDecides(d)
    \/ \E n \in Nodes : Start(n) \/ \E m \in Messages : Handle(n, m)

Next ==
    \/ Progress
    \/ \E n \in Nodes : Crash(n) \/ Fails(n)

Spec == Init /\ [][Next]_vars

\* Handlers run to their end, a process that is down is started again, the Robot
\* decides, and what is in an outbox is delivered in the end (Delivery, under a
\* supervised link): something of this happens while any of it can.
FairSpec == Spec /\ WF_vars(Progress)
-----------------------------------------------------------------------------
(* What the chain promises.                                                *)

Bypassed == DOMAIN sent.direct # {} \/ sent.substituted

\* The first claim about an operation is the one that counts: it stays the root,
\* and once it is admitted there is no second bundle and no hold any more.
OneAdmission ==
    [][/\ root # NoIntent => root' = root
       /\ bundle # NoBundle => bundle' = bundle /\ held' = held]_vars

\* What is admitted rests on durable evidence: the reference is the one the intent
\* was authored from, the current one is another observation of the same observer
\* and frame, and both are in the Field's inbox.
AdmittedOnEvidence ==
    bundle # NoBundle =>
        /\ VerifyReference(bundle.intent, bundle.reference) = "VALID"
        /\ bundle.current.id # bundle.reference.id
        /\ InContext(bundle.intent, bundle.reference, bundle.current)
        /\ {bundle.reference, bundle.current} \subseteq Observed

\* Mission shows the proof that was bound first: while nothing but the Field speaks
\* to it, the proof, or before there is one the diagnostic, that the Field bound
\* first of what the Robot sent.  Whatever speaks to it, an operation the Robot did
\* not execute has no effect, a success is a contact with the target, what is
\* unverified says nothing, and the device is that of the context bound first: the
\* Field's own, unless another context may have reached Mission.
ShownIsFirstProof ==
    /\ ~Bypassed =>
          /\ proof["mission"] \in {NoProof, proof["field"]}
          /\ diagnostic["mission"] \in {NoProof, diagnostic["field"]}
    /\ Shown # NoProof =>
          /\ decided = "execute"
          /\ Shown.verified => Shown = proof["mission"]
          /\ ~Shown.verified => Shown.contact = "null" /\ BusinessResult = "OUTCOME_UNKNOWN"
          /\ Shown.device = BoundDevice /\ Shown.command = "own"
          /\ ~sent.substituted => Shown.device = Device
    /\ BusinessResult = "APPLIED" => Shown.contact = bundle.intent.target
    /\ BusinessResult = "RECOGNIZED_ALREADY_EFFECTIVE" => decided = "recognize"

\* A proof is never replaced, and what Mission shows changes once more at most:
\* from a diagnostic to a proof.
ProofIsFinal ==
    [][/\ \A n \in Nodes : proof[n] # NoProof => proof'[n] = proof[n]
       /\ Shown # NoProof =>
             Shown' = Shown \/ (~Shown.verified /\ Shown'.verified)]_vars

\* A copy that differs from the proof of its contract is not dropped without a
\* trace: when it is completed, its conflict row is durable.
DivergenceIsRecorded ==
    [][\A n \in Nodes : \A m \in EffectMessages :
          (/\ inbox[n][m] = "PROCESSING" /\ inbox'[n][m] = "PROCESSED"
           /\ proof[n] # NoProof
           /\ Contents(n, m).contract = "own" /\ Contents(n, m) # proof[n])
          => m \in disputed'[n]]_vars

\* An exception has left a claimed row behind, which only a restart frees.
Orphaned ==
    \E n \in Nodes : pc[n] = "idle" /\ \E m \in Messages : inbox[n][m] = "PROCESSING"

\* With one intent and one effect, whatever the order in which the evidence comes
\* in and through a crash of either node: in the end the intent is answered, what
\* an executed press did is shown, and the current observation is at Mission unless
\* the Field was restarted before it had forwarded it.
Alone ==
    /\ Cardinality(DOMAIN sent.intents) = 1
    /\ Cardinality(DOMAIN sent.effects) = 1
    /\ ~Bypassed

ChainIsComplete ==
    /\ \E i \in Intents : inbox["field"][Intent(i)] = "PROCESSED"
    /\ decided = "execute" => \E e \in DOMAIN sent.effects : Shown = sent.effects[e]
    /\ \A x \in fresh : Observation(x) \in Persisted("mission")

ChainCompletes == (Alone /\ root # NoIntent) ~> (ChainIsComplete \/ Orphaned)
-----------------------------------------------------------------------------
(* Why these hold.                                                         *)

\* What has arrived at a node could be sent to it, and still can.
Arrivals == \A n \in Nodes : \A m \in Persisted(n) : Sendable(n, m)

\* A handler works on a row that is there; what it does only for one kind of row
\* it does for that kind.
AtWork(n) ==
    /\ IF pc[n] \in Working THEN task[n] \in Persisted(n) ELSE task[n] = NoMessage
    /\ pc[n] \in {"intake", "forward"} => n = "field"
    /\ pc[n] = "intake" => task[n][1] = "intent" /\ root # NoIntent
    /\ pc[n] \in {"diagnose", "forward"} => task[n] \in EffectMessages
    /\ pc[n] = "diagnose" => proof[n] = NoProof /\ ~Effect(n).verified

InPlace == \A n \in Nodes : AtWork(n)

\* A bound proof is verified and a diagnostic is not; what the Robot decided it
\* decided on a bundle, and a bundle is of a root.
BoundAsMeant ==
    /\ \A n \in Nodes : proof[n] # NoProof => proof[n].verified
    /\ \A n \in Nodes : diagnostic[n] # NoProof => ~diagnostic[n].verified
    /\ decided # "none" => bundle # NoBundle
    /\ bundle # NoBundle => root # NoIntent

\* The Field forwards the effect that it has bound, and no context but its own.
Bound(m) ==
    LET effect == sent.effects[m[2]] IN
    /\ m[1] = "effect" /\ m[2] \in DOMAIN sent.effects
    /\ IF effect.verified THEN proof["field"] = effect ELSE diagnostic["field"] = effect

ForwardsBound ==
    /\ \A m \in outbox \cap EffectMessages : Bound(m)
    /\ pc["field"] = "forward" => Bound(task["field"])
    /\ Substitute \notin outbox

\* What Mission binds is attributable, and the Field's while nothing else speaks
\* to it.
BindsAttributable ==
    /\ \A effect \in {proof["mission"], diagnostic["mission"]} :
          effect # NoProof => Attributable(effect)
    /\ pc["mission"] = "diagnose" => Attributable(Effect("mission"))
    /\ context # NoContext => context \in Persisted("mission")
    /\ ~Bypassed => /\ proof["mission"] \in {NoProof, proof["field"]}
                    /\ diagnostic["mission"] \in {NoProof, diagnostic["field"]}

\* A copy that diverges from the proof has its row before it is completed.
DivergenceInHand ==
    \A n \in Nodes :
        (/\ pc[n] \in {"forward", "complete"} /\ task[n] \in EffectMessages
         /\ proof[n] # NoProof
         /\ Effect(n).contract = "own" /\ Effect(n) # proof[n])
        => task[n] \in disputed[n]

\* What is inductive of all that.
ChainInv ==
    /\ TypeOK
    /\ Arrivals
    /\ InPlace
    /\ BoundAsMeant
    /\ AdmittedOnEvidence
    /\ ForwardsBound
    /\ BindsAttributable
    /\ DivergenceInHand
=============================================================================
