------------------------ MODULE TwoButtonChainProofs ------------------------
(***************************************************************************)
(* What the Field admits rests on durable evidence, its first admission is *)
(* its last, the first proof of an effect is the one that is shown and     *)
(* stays so, and a copy that diverges from it leaves a row: for any        *)
(* observations, intents, proofs and scenarios of TwoButtonChain.  Every   *)
(* part of ChainInv but the evidence of the admission is proved in the     *)
(* second half, from what a step does to each table.                       *)
(***************************************************************************)
EXTENDS TwoButtonChain, FiniteSetTheorems, TLAPS

-----------------------------------------------------------------------------
(* What every step does to the tables: rows and bindings are only added.   *)

\* The tables and locals are functions on the nodes.
Tables ==
    /\ inbox \in [Nodes -> [Messages -> InboxState]]
    /\ proof = [n \in Nodes |-> proof[n]]
    /\ diagnostic = [n \in Nodes |-> diagnostic[n]]
    /\ pc = [n \in Nodes |-> pc[n]]
    /\ task = [n \in Nodes |-> task[n]]

\* No row of an inbox is ever deleted.
InboxGrows ==
    /\ inbox' \in [Nodes -> [Messages -> InboxState]]
    /\ \A n \in Nodes : Persisted(n) \subseteq Persisted(n)'

\* A binding that has been made is never changed.
BindingsStay ==
    /\ \A n \in Nodes : proof[n] # NoProof => proof'[n] = proof[n]
    /\ \A n \in Nodes : diagnostic[n] # NoProof => diagnostic'[n] = diagnostic[n]
    /\ context # NoContext => context' = context

AdmissionStays ==
    /\ root # NoIntent => root' = root
    /\ bundle # NoBundle => bundle' = bundle /\ held' = held

\* The Robot decides once, on a bundle.
DecisionStays ==
    /\ sent' = sent
    /\ decided # "none" => decided' = decided
    /\ decided' # decided => bundle # NoBundle

\* A transaction on one node's table that deletes no row of it.
LEMMA TableGrows ==
    ASSUME Tables, NEW n \in Nodes, NEW table \in [Messages -> InboxState],
           \A m \in Messages : inbox[n][m] # "ABSENT" => table[m] # "ABSENT",
           inbox' = [inbox EXCEPT ![n] = table]
    PROVE  InboxGrows
BY DEF Tables, InboxGrows, Persisted

\* The transactions of the store, whatever message they are called with.
LEMMA Transactions ==
    ASSUME NEW table \in [Messages -> InboxState], NEW m
    PROVE  /\ Claim(table, m) \in [Messages -> InboxState]
           /\ Complete(table, m) \in [Messages -> InboxState]
           /\ Fail(table, m) \in [Messages -> InboxState]
           /\ Receive(table, m) \in [Messages -> InboxState]
           /\ RecoverInterrupted(table) \in [Messages -> InboxState]
           /\ \A k \in Messages : table[k] # "ABSENT" =>
                 /\ Claim(table, m)[k] # "ABSENT" /\ Complete(table, m)[k] # "ABSENT"
                 /\ Fail(table, m)[k] # "ABSENT" /\ Receive(table, m)[k] # "ABSENT"
                 /\ RecoverInterrupted(table)[k] # "ABSENT"
BY DEF Claim, Complete, Fail, Receive, RecoverInterrupted, InboxState

\* Completion, retry and claim of a message, and recover(), each on one node.
LEMMA InboxSteps ==
    ASSUME Tables, NEW n \in Nodes
    PROVE  /\ Finish(n) => InboxGrows
           /\ Wait(n) => InboxGrows
           /\ Start(n) => InboxGrows
           /\ \A m \in Messages : ClaimNext(n, m) \/ Handle(n, m) => InboxGrows
<1>1. inbox[n] \in [Messages -> InboxState]
  BY DEF Tables
<1> DEFINE Grows(table) == /\ table \in [Messages -> InboxState]
                           /\ \A m \in Messages : inbox[n][m] # "ABSENT" => table[m] # "ABSENT"
<1>2. Finish(n) => InboxGrows
  <2>1. Grows(Complete(inbox[n], task[n]))
    BY <1>1, Transactions
  <2> QED BY <2>1, TableGrows DEF Finish
<1>3. Wait(n) => InboxGrows
  <2>1. Grows(Fail(inbox[n], task[n]))
    BY <1>1, Transactions
  <2> QED BY <2>1, TableGrows DEF Wait
<1>4. Start(n) => InboxGrows
  <2>1. Grows(RecoverInterrupted(inbox[n]))
    BY <1>1, Transactions
  <2> QED BY <2>1, TableGrows DEF Start
<1>5. ASSUME NEW m \in Messages, ClaimNext(n, m)
      PROVE  InboxGrows
  <2>1. Grows(Claim(inbox[n], m))
    BY <1>1, Transactions
  <2> QED BY <1>5, <2>1, TableGrows DEF ClaimNext
<1>6. ASSUME NEW m \in Messages, Handle(n, m)
      PROVE  InboxGrows
  <2>1. /\ Receive(inbox[n], m) \in [Messages -> InboxState]
        /\ \A k \in Messages : inbox[n][k] # "ABSENT" => Receive(inbox[n], m)[k] # "ABSENT"
    BY <1>1, Transactions
  <2> DEFINE table == Claim(Receive(inbox[n], m), m)
  <2>2. /\ table \in [Messages -> InboxState]
        /\ \A k \in Messages : inbox[n][k] # "ABSENT" => table[k] # "ABSENT"
    BY <2>1, Transactions
  <2>3. inbox' = [inbox EXCEPT ![n] = table]
    BY <1>6 DEF Handle
  <2> HIDE DEF table
  <2> QED BY <2>2, <2>3, TableGrows
<1> QED BY <1>2, <1>3, <1>4, <1>5, <1>6

LEMMA InboxKept == Tables /\ UNCHANGED inbox => InboxGrows
BY DEF Tables, InboxGrows, Persisted

\* What all steps have in common.
Moves == InboxGrows /\ BindingsStay /\ AdmissionStays /\ DecisionStays

\* Steps that touch only rows, the outbox and the handler.
LEMMA RowsOnly ==
    ASSUME InboxGrows, UNCHANGED <<admission, bindings, outside>>
    PROVE  Moves
BY DEF Moves, BindingsStay, AdmissionStays, DecisionStays, admission, bindings, outside

LEMMA StepMoves ==
    ASSUME Tables, [Next]_vars
    PROVE  Moves
<1>0. CASE UNCHANGED vars
  BY <1>0, InboxKept, RowsOnly DEF vars, rows
<1>1. ASSUME NEW n \in Nodes, Crash(n) \/ Fails(n) \/ Return(n)
      PROVE  Moves
  BY <1>1, InboxKept, RowsOnly DEF Crash, Fails, Return, rows
<1>2. ASSUME NEW n \in Nodes, NEW m \in Messages, ClaimNext(n, m) \/ Handle(n, m)
      PROVE  Moves
  <2>1. InboxGrows
    BY <1>2, InboxSteps
  <2> QED BY <1>2, <2>1, RowsOnly DEF ClaimNext, Handle
<1>3. ASSUME NEW n \in Nodes, Start(n) \/ CompleteInbox(n) \/ EffectWaits(n)
      PROVE  Moves
  <2>1. InboxGrows
    BY <1>3, InboxSteps DEF CompleteInbox, EffectWaits
  <2> QED BY <1>3, <2>1, RowsOnly DEF Start, CompleteInbox, EffectWaits
<1>4. CASE TakeObservation \/ ForwardReport \/ ForwardEffect \/ TakeReport
  <2>1. InboxGrows
    BY <1>4, InboxSteps DEF TakeObservation, ForwardReport, ForwardEffect, TakeReport, Nodes
  <2> QED BY <1>4, <2>1, RowsOnly DEF TakeObservation, ForwardReport, ForwardEffect, TakeReport
<1>5. ASSUME NEW n \in Nodes, EffectRefused(n)
      PROVE  Moves
  <2>1. InboxGrows
    BY <1>5, InboxKept DEF EffectRefused, rows
  <2> QED BY <1>5, <2>1 DEF EffectRefused, Moves, BindingsStay, AdmissionStays, DecisionStays,
                            admission, outside
<1>6. ASSUME NEW n \in Nodes, BindEffect(n)
      PROVE  Moves
  <2>1. InboxGrows
    BY <1>6, InboxKept DEF BindEffect, rows
  <2>2. BindingsStay
    BY <1>6 DEF BindEffect, Diverges, BindingsStay, Tables
  <2> QED BY <1>6, <2>1, <2>2 DEF BindEffect, Moves, AdmissionStays, DecisionStays,
                                  admission, outside
<1>7. ASSUME NEW n \in Nodes, BindDiagnostic(n)
      PROVE  Moves
  <2>1. InboxGrows
    BY <1>7, InboxKept DEF BindDiagnostic, rows
  <2>2. BindingsStay
    BY <1>7 DEF BindDiagnostic, BindingsStay, Tables
  <2> QED BY <1>7, <2>1, <2>2 DEF BindDiagnostic, Moves, AdmissionStays, DecisionStays,
                                  admission, outside
<1>8. CASE BindContext
  <2>1. InboxGrows
    BY <1>8, InboxKept DEF BindContext, rows
  <2>2. BindingsStay
    BY <1>8 DEF BindContext, BindingsStay
  <2> QED BY <1>8, <2>1, <2>2 DEF BindContext, Moves, AdmissionStays, DecisionStays,
                                  admission, outside
<1>9. CASE BindIntent
  <2>1. InboxGrows
    BY <1>9, InboxKept DEF BindIntent, rows
  <2> QED BY <1>9, <2>1 DEF BindIntent, IsRoot, Moves, BindingsStay, AdmissionStays,
                            DecisionStays, outside
<1>10. CASE IntentKnown \/ IntentWaits \/ AdmitIntent
  <2>1. InboxGrows
    BY <1>10, InboxSteps DEF IntentKnown, IntentWaits, AdmitIntent, Nodes
  <2> QED BY <1>10, <2>1 DEF IntentKnown, IntentWaits, AdmitIntent, Intake, Moves, BindingsStay,
                             AdmissionStays, DecisionStays, bindings, outside
<1>11. CASE HoldIntent
  <2>1. Finish("field") => InboxGrows
    BY InboxSteps DEF Nodes
  <2>2. InboxGrows
    BY <1>11, <2>1, InboxKept DEF HoldIntent
  <2> QED BY <1>11, <2>2 DEF HoldIntent, Intake, Moves, BindingsStay, AdmissionStays,
                             DecisionStays, bindings, outside
<1>12. ASSUME NEW d \in Decisions, RobotDecides(d)
       PROVE  Moves
  <2>1. InboxGrows
    BY <1>12, InboxKept DEF RobotDecides, rows
  <2> QED BY <1>12, <2>1 DEF RobotDecides, Moves, BindingsStay, AdmissionStays, DecisionStays,
                             admission, bindings
<1> QED
  BY <1>0, <1>1, <1>2, <1>3, <1>4, <1>5, <1>6, <1>7, <1>8, <1>9, <1>10, <1>11, <1>12
  DEF Next, Progress, FieldStep, MissionStep, NodeStep, Nodes

\* The next-state relation, action by action: what the proofs below split on.
LEMMA Steps ==
    ASSUME Next
    PROVE  \/ \E n \in Nodes : Crash(n) \/ Fails(n) \/ Return(n) \/ Start(n)
           \/ \E n \in Nodes : CompleteInbox(n) \/ EffectWaits(n) \/ EffectRefused(n)
           \/ \E n \in Nodes : BindEffect(n) \/ BindDiagnostic(n)
           \/ \E n \in Nodes, m \in Messages : ClaimNext(n, m) \/ Handle(n, m)
           \/ TakeObservation \/ ForwardReport \/ ForwardEffect \/ TakeReport
           \/ BindContext \/ BindIntent
           \/ IntentKnown \/ IntentWaits \/ AdmitIntent \/ HoldIntent
           \/ \E d \in Decisions : RobotDecides(d)
BY DEF Next, Progress, FieldStep, MissionStep, NodeStep, Nodes

LEMMA TablesStart == Init => Tables
BY DEF Init, Tables, InboxState

LEMMA TablesKept ==
    ASSUME Tables, [Next]_vars
    PROVE  Tables'
<1>1. inbox' \in [Nodes -> [Messages -> InboxState]]
  BY StepMoves DEF Moves, InboxGrows
<1> DEFINE Functions(p, d, c, t) == /\ p = [n \in Nodes |-> p[n]]
                                    /\ d = [n \in Nodes |-> d[n]]
                                    /\ c = [n \in Nodes |-> c[n]]
                                    /\ t = [n \in Nodes |-> t[n]]
<1>2. Functions(proof, diagnostic, pc, task)
  BY DEF Tables
<1>3. Functions(proof', diagnostic', pc', task')
  <2>0. CASE UNCHANGED vars
    BY <1>2, <2>0 DEF vars, bindings
  <2>1. ASSUME NEW n \in Nodes, Crash(n) \/ Fails(n) \/ Return(n) \/ Start(n)
        PROVE  Functions(proof', diagnostic', pc', task')
    BY <1>2, <2>1 DEF Crash, Fails, Return, Start, Raise, Leave, Goto, bindings
  <2>2. ASSUME NEW n \in Nodes, CompleteInbox(n) \/ EffectWaits(n) \/ EffectRefused(n)
        PROVE  Functions(proof', diagnostic', pc', task')
    BY <1>2, <2>2 DEF CompleteInbox, EffectWaits, EffectRefused, Finish, Wait, NextClaim,
                      Goto, bindings
  <2>3. ASSUME NEW n \in Nodes, BindEffect(n) \/ BindDiagnostic(n)
        PROVE  Functions(proof', diagnostic', pc', task')
    BY <1>2, <2>3 DEF BindEffect, BindDiagnostic, Goto
  <2>4. ASSUME NEW n \in Nodes, NEW m \in Messages, ClaimNext(n, m) \/ Handle(n, m)
        PROVE  Functions(proof', diagnostic', pc', task')
    BY <1>2, <2>4 DEF ClaimNext, Handle, Goto, bindings
  <2>5. CASE TakeObservation \/ ForwardReport \/ ForwardEffect \/ TakeReport
    BY <1>2, <2>5 DEF TakeObservation, ForwardReport, ForwardEffect, TakeReport, Finish,
                      NextClaim, Goto, bindings
  <2>6. CASE BindContext \/ BindIntent
    BY <1>2, <2>6 DEF BindContext, BindIntent, Goto
  <2>7. CASE IntentKnown \/ IntentWaits \/ AdmitIntent
    BY <1>2, <2>7 DEF IntentKnown, IntentWaits, AdmitIntent, Intake, Finish, Wait, NextClaim,
                      Goto, bindings
  <2>8. CASE HoldIntent
    BY <1>2, <2>8 DEF HoldIntent, Intake, Finish, Raise, Leave, NextClaim, Goto, bindings
  <2>9. ASSUME NEW d \in Decisions, RobotDecides(d)
        PROVE  Functions(proof', diagnostic', pc', task')
    BY <1>2, <2>9 DEF RobotDecides, bindings
  <2> QED BY Steps, <2>0, <2>1, <2>2, <2>3, <2>4, <2>5, <2>6, <2>7, <2>8, <2>9
<1> QED BY <1>1, <1>3 DEF Tables

-----------------------------------------------------------------------------
(* The admission.                                                          *)

\* The first claim about an operation is its root, and what was admitted first is
\* not replaced and not held any more: bind_m3a_intent and _process_m3a_intent.
THEOREM FirstAdmission == Spec => OneAdmission
<1>1. Tables /\ [Next]_vars => Tables'
  BY TablesKept
<1>2. Tables /\ [Next]_vars =>
        [/\ root # NoIntent => root' = root
         /\ bundle # NoBundle => bundle' = bundle /\ held' = held]_vars
  BY StepMoves DEF Moves, AdmissionStays
<1> QED BY TablesStart, <1>1, <1>2, PTL DEF Spec, OneAdmission

\* An observation that is in the Field's inbox stays in it.
LEMMA ObservedGrows ==
    ASSUME InboxGrows, sent' = sent
    PROVE  Observed \subseteq Observed'
BY DEF InboxGrows, Observed, Nodes

\* Steps that do not enqueue a bundle.
LEMMA EvidenceKept ==
    ASSUME AdmittedOnEvidence, InboxGrows, sent' = sent, bundle' = bundle
    PROVE  AdmittedOnEvidence'
BY ObservedGrows DEF AdmittedOnEvidence

\* What is observed is of the scenario, so that one of it is the newest.
LEMMA NewestIsCurrent ==
    ASSUME sent \in Scenarios,
           Observed \subseteq {sent.observations[x] : x \in DOMAIN sent.observations},
           NEW intent, Currents(intent) # {}
    PROVE  Current(intent) \in Currents(intent)
<1>1. Currents(intent) \in SUBSET {sent.observations[x] : x \in DOMAIN sent.observations}
  BY DEF Currents
<1>2. \E o \in Currents(intent) : \A p \in Currents(intent) : p.rev <= o.rev
  BY <1>1, TwoButtonChainAssumption
<1> QED BY <1>2 DEF Current

\* What no objection of the Field speaks against.
LEMMA AdmissibleIsEvidence ==
    ASSUME sent \in Scenarios,
           Observed \subseteq {sent.observations[x] : x \in DOMAIN sent.observations},
           NEW intent, Admissible(intent)
    PROVE  /\ VerifyReference(intent, Reference(intent)) = "VALID"
           /\ Current(intent).id # Reference(intent).id
           /\ InContext(intent, Reference(intent), Current(intent))
           /\ {Reference(intent), Current(intent)} \subseteq Observed
<1>1. Reference(intent) \in References(intent)
  BY DEF Admissible, Reference
<1>2. Current(intent) \in Currents(intent)
  BY NewestIsCurrent DEF Admissible
<1>3. VerifyReference(intent, Reference(intent)) = "VALID"
  BY DEF Admissible, ReferenceObjection
<1>4. InContext(intent, Reference(intent), Current(intent))
  BY DEF Admissible, CurrentObjection
<1> QED BY <1>1, <1>2, <1>3, <1>4 DEF References, Currents

\* What the Field has observed was sent to it: its inbox has no other rows.
ObservedIsSent ==
    /\ sent \in Scenarios
    /\ \A x \in Observations :
          Observation(x) \in Persisted("field") => x \in DOMAIN sent.observations

\* A handler works on a row that is there.
RowsInHand == \A n \in Nodes : task[n] \in Persisted(n) \cup {NoMessage}

EvidenceInv == Tables /\ RowsInHand /\ ObservedIsSent /\ AdmittedOnEvidence

LEMMA ObservedOfScenario ==
    ASSUME ObservedIsSent
    PROVE  Observed \subseteq {sent.observations[x] : x \in DOMAIN sent.observations}
<1>1. ASSUME NEW m \in Persisted("field"), m[1] = "observation"
      PROVE  m[2] \in DOMAIN sent.observations
  <2>1. m \in Messages
    BY DEF Persisted
  <2>2. PICK x \in Observations : m = Observation(x)
    BY <1>1, <2>1 DEF Messages, Observation, Intent, Context, Substitute, FieldDecision,
                      Reports, Decision, Command, TerminalEvent, EffectMessages
  <2> QED BY <1>1, <2>2 DEF ObservedIsSent, Observation
<1> QED BY <1>1 DEF Observed

\* Only what arrives adds a row.
NoNewRows == \A n \in Nodes : Persisted(n)' \subseteq Persisted(n)

LEMMA NoNewRow ==
    ASSUME Tables, RowsInHand, NEW n \in Nodes
    PROVE  /\ Finish(n) \/ Wait(n) \/ Start(n) => NoNewRows
           /\ \A m \in Messages : ClaimNext(n, m) => NoNewRows
<1>1. NoMessage \notin Messages
  BY TwoButtonChainAssumption
<1>2. ASSUME Finish(n) \/ Wait(n)
      PROVE  NoNewRows
  BY <1>1, <1>2 DEF Finish, Wait, Complete, Fail, Tables, RowsInHand, NoNewRows, Persisted
<1>3. ASSUME Start(n)
      PROVE  NoNewRows
  BY <1>3 DEF Start, RecoverInterrupted, Tables, NoNewRows, Persisted
<1>4. ASSUME NEW m \in Messages, ClaimNext(n, m)
      PROVE  NoNewRows
  BY <1>4 DEF ClaimNext, NextInbox, Claimable, Claim, Tables, NoNewRows, Persisted
<1> QED BY <1>2, <1>3, <1>4

LEMMA NoRow == Tables /\ UNCHANGED inbox => NoNewRows
BY DEF NoNewRows, Persisted

LEMMA RowsAdded ==
    ASSUME Tables, RowsInHand, [Next]_vars
    PROVE  \/ NoNewRows
           \/ \E n \in Nodes, m \in Messages : Handle(n, m)
<1>0. CASE UNCHANGED vars
  BY <1>0, NoRow DEF vars, rows
<1>1. ASSUME NEW n \in Nodes, Crash(n) \/ Fails(n) \/ Return(n) \/ Start(n)
      PROVE  NoNewRows
  BY <1>1, NoNewRow, NoRow DEF Crash, Fails, Return, rows
<1>2. ASSUME NEW n \in Nodes, CompleteInbox(n) \/ EffectWaits(n) \/ EffectRefused(n)
      PROVE  NoNewRows
  BY <1>2, NoNewRow, NoRow DEF CompleteInbox, EffectWaits, EffectRefused, rows
<1>3. ASSUME NEW n \in Nodes, BindEffect(n) \/ BindDiagnostic(n)
      PROVE  NoNewRows
  BY <1>3, NoRow DEF BindEffect, BindDiagnostic, rows
<1>4. ASSUME NEW n \in Nodes, NEW m \in Messages, ClaimNext(n, m)
      PROVE  NoNewRows
  BY <1>4, NoNewRow
<1>5. CASE TakeObservation \/ ForwardReport \/ ForwardEffect \/ TakeReport
  BY <1>5, NoNewRow DEF TakeObservation, ForwardReport, ForwardEffect, TakeReport, Nodes
<1>6. CASE BindContext \/ BindIntent
  BY <1>6, NoRow DEF BindContext, BindIntent, rows
<1>7. CASE IntentKnown \/ IntentWaits \/ AdmitIntent
  BY <1>7, NoNewRow DEF IntentKnown, IntentWaits, AdmitIntent, Nodes
<1>8. CASE HoldIntent
  <2>1. Finish("field") => NoNewRows
    BY NoNewRow DEF Nodes
  <2> QED BY <1>8, <2>1, NoRow DEF HoldIntent
<1>9. ASSUME NEW d \in Decisions, RobotDecides(d)
      PROVE  NoNewRows
  BY <1>9, NoRow DEF RobotDecides, rows
<1> QED BY Steps, <1>0, <1>1, <1>2, <1>3, <1>4, <1>5, <1>6, <1>7, <1>8, <1>9

LEMMA HandledIsPersisted ==
    ASSUME Tables, NEW n \in Nodes, NEW m \in Messages, Handle(n, m)
    PROVE  /\ Persisted(n)' \subseteq Persisted(n) \cup {m} /\ m \in Persisted(n)'
           /\ \A k \in Nodes \ {n} : Persisted(k)' = Persisted(k)
<1>1. inbox' = [inbox EXCEPT ![n] = Claim(Receive(inbox[n], m), m)]
  BY DEF Handle
<1> QED BY <1>1 DEF Claim, Receive, Tables, Persisted

LEMMA RowsInHandKept ==
    ASSUME Tables, RowsInHand, [Next]_vars
    PROVE  RowsInHand'
<1>1. \A n \in Nodes : Persisted(n) \subseteq Persisted(n)'
  BY StepMoves DEF Moves, InboxGrows
<1>2. \A n \in Nodes : task[n] \in Persisted(n)' \cup {NoMessage}
  BY <1>1 DEF RowsInHand
<1>3. ASSUME NEW n \in Nodes, Finish(n) \/ Wait(n) \/ Raise(n) \/ Leave(n, "down") \/ Leave(n, "idle")
      PROVE  RowsInHand'
  BY <1>2, <1>3 DEF Finish, Wait, NextClaim, Raise, Leave, RowsInHand, Tables
<1>4. ASSUME UNCHANGED task
      PROVE  RowsInHand'
  BY <1>2, <1>4 DEF RowsInHand
<1>5. CASE UNCHANGED vars
  BY <1>4, <1>5 DEF vars
<1>6. ASSUME NEW n \in Nodes, Crash(n) \/ Fails(n) \/ Return(n) \/ Start(n)
      PROVE  RowsInHand'
  BY <1>3, <1>4, <1>6 DEF Crash, Fails, Return, Start
<1>7. ASSUME NEW n \in Nodes, CompleteInbox(n) \/ EffectWaits(n) \/ EffectRefused(n)
      PROVE  RowsInHand'
  BY <1>3, <1>4, <1>7 DEF CompleteInbox, EffectWaits, EffectRefused
<1>8. ASSUME NEW n \in Nodes, BindEffect(n) \/ BindDiagnostic(n)
      PROVE  RowsInHand'
  BY <1>4, <1>8 DEF BindEffect, BindDiagnostic
<1>9. ASSUME NEW n \in Nodes, NEW m \in Messages, ClaimNext(n, m)
      PROVE  RowsInHand'
  <2>1. m \in Persisted(n)'
    BY <1>9 DEF ClaimNext, Claim, Tables, Persisted
  <2> QED BY <1>2, <1>9, <2>1 DEF ClaimNext, RowsInHand, Tables
<1>10. ASSUME NEW n \in Nodes, NEW m \in Messages, Handle(n, m)
       PROVE  RowsInHand'
  <2>1. m \in Persisted(n)'
    BY <1>10, HandledIsPersisted
  <2> QED BY <1>2, <1>10, <2>1 DEF Handle, RowsInHand, Tables
<1>11. CASE TakeObservation \/ ForwardReport \/ ForwardEffect \/ TakeReport
  BY <1>3, <1>11 DEF TakeObservation, ForwardReport, ForwardEffect, TakeReport, Nodes
<1>12. CASE BindContext \/ BindIntent
  BY <1>4, <1>12 DEF BindContext, BindIntent
<1>13. CASE IntentKnown \/ IntentWaits \/ AdmitIntent
  BY <1>3, <1>13 DEF IntentKnown, IntentWaits, AdmitIntent, Nodes
<1>14. CASE HoldIntent
  <2>1. Finish("field") \/ Raise("field") => RowsInHand'
    BY <1>3 DEF Nodes
  <2> QED BY <1>14, <2>1 DEF HoldIntent
<1>15. ASSUME NEW d \in Decisions, RobotDecides(d)
       PROVE  RowsInHand'
  BY <1>4, <1>15 DEF RobotDecides
<1> QED BY Steps, <1>5, <1>6, <1>7, <1>8, <1>9, <1>10, <1>11, <1>12, <1>13, <1>14, <1>15

LEMMA ObservedIsSentKept ==
    ASSUME Tables, RowsInHand, ObservedIsSent, [Next]_vars
    PROVE  ObservedIsSent'
<1>1. sent' = sent
  BY StepMoves DEF Moves, DecisionStays
<1>2. CASE NoNewRows
  BY <1>1, <1>2 DEF NoNewRows, ObservedIsSent, Nodes
<1>3. ASSUME NEW n \in Nodes, NEW m \in Messages, Handle(n, m)
      PROVE  ObservedIsSent'
  <2>1. CASE n = "field"
    <3>1. Persisted("field")' \subseteq Persisted("field") \cup {m}
      BY <1>3, <2>1, HandledIsPersisted
    <3>2. Sendable("field", m)
      BY <1>3, <2>1 DEF Handle
    <3>3. ASSUME NEW x \in Observations, m = Observation(x)
          PROVE  x \in DOMAIN sent.observations
      <4>1. m[1] = "observation" /\ m[2] = x
        BY <3>3 DEF Observation
      <4> QED BY <3>2, <4>1 DEF Sendable, Decision, TerminalEvent, Command
    <3> QED BY <1>1, <3>1, <3>3 DEF ObservedIsSent
  <2>2. CASE n # "field"
    <3>1. Persisted("field")' = Persisted("field")
      BY <1>3, <2>2, HandledIsPersisted DEF Nodes
    <3> QED BY <1>1, <3>1 DEF ObservedIsSent
  <2> QED BY <2>1, <2>2
<1> QED BY RowsAdded, <1>2, <1>3

LEMMA BundleWritten == [Next]_vars => bundle' = bundle \/ AdmitIntent
BY Steps DEF Crash, Fails, Return, Start, CompleteInbox, EffectWaits, EffectRefused,
             BindEffect, BindDiagnostic, ClaimNext, Handle, TakeObservation, ForwardReport,
             ForwardEffect, TakeReport, BindContext, BindIntent, IntentKnown, IntentWaits,
             HoldIntent, RobotDecides, admission, vars

LEMMA EvidenceInvKept ==
    ASSUME EvidenceInv, [Next]_vars
    PROVE  EvidenceInv'
<1>1. Tables' /\ RowsInHand' /\ ObservedIsSent'
  BY TablesKept, RowsInHandKept, ObservedIsSentKept DEF EvidenceInv
<1>2. InboxGrows /\ sent' = sent
  BY StepMoves DEF Moves, DecisionStays, EvidenceInv
<1>3. CASE bundle' = bundle
  BY <1>1, <1>2, <1>3, EvidenceKept DEF EvidenceInv
<1>4. CASE AdmitIntent
  <2>1. /\ VerifyReference(root, Reference(root)) = "VALID"
        /\ Current(root).id # Reference(root).id
        /\ InContext(root, Reference(root), Current(root))
        /\ {Reference(root), Current(root)} \subseteq Observed
    BY <1>4, AdmissibleIsEvidence, ObservedOfScenario
    DEF AdmitIntent, EvidenceInv, ObservedIsSent
  <2>2. bundle' = [intent |-> root, reference |-> Reference(root), current |-> Current(root)]
    BY <1>4 DEF AdmitIntent
  <2>3. /\ bundle'.intent = root
        /\ bundle'.reference = Reference(root) /\ bundle'.current = Current(root)
    BY <2>2
  <2>4. AdmittedOnEvidence'
    BY <1>2, <2>1, <2>3, ObservedGrows DEF AdmittedOnEvidence
  <2> QED BY <1>1, <2>4 DEF EvidenceInv
<1> QED BY <1>3, <1>4, BundleWritten

\* Whatever the Field admits, its reference and its current observation are in its
\* inbox, show what the intent was written on and were made in one frame by one
\* observer: _process_m3a_intent and _m3a_make_bundle.
THEOREM AdmissionRestsOnEvidence == Spec => []AdmittedOnEvidence
<1>1. Init => EvidenceInv
  BY TablesStart DEF Init, EvidenceInv, RowsInHand, ObservedIsSent, AdmittedOnEvidence,
                     Persisted, Observation, Messages, Nodes
<1>2. EvidenceInv /\ [Next]_vars => EvidenceInv'
  BY EvidenceInvKept
<1>3. EvidenceInv => AdmittedOnEvidence
  BY DEF EvidenceInv
<1> QED BY <1>1, <1>2, <1>3, PTL DEF Spec

-----------------------------------------------------------------------------
(* The effect.                                                             *)

\* Only an unverified proof is on its way to the diagnostic table.
Diagnosing == \A n \in Nodes : pc[n] = "diagnose" => ~Effect(n).verified

\* A bound proof is verified and a diagnostic is not; what the Robot decided it
\* decided on a bundle.
ProofInv ==
    /\ Tables
    /\ Diagnosing
    /\ decided # "none" => bundle # NoBundle
    /\ \A n \in Nodes : proof[n] # NoProof => proof[n].verified
    /\ \A n \in Nodes : diagnostic[n] # NoProof => ~diagnostic[n].verified

\* A handler reaches the diagnostic table from bind_m3a_effect alone.
ToDiagnosis(n) == (pc[n] = "diagnose" /\ task'[n] = task[n]) \/ BindEffect(n)

LEMMA DiagnosesBound ==
    ASSUME Tables, [Next]_vars, NEW n \in Nodes, pc'[n] = "diagnose"
    PROVE  ToDiagnosis(n)
<1>0. CASE UNCHANGED vars
  BY <1>0 DEF ToDiagnosis, vars
<1>1. ASSUME NEW k \in Nodes, Crash(k) \/ Fails(k) \/ Return(k) \/ Start(k)
      PROVE  ToDiagnosis(n)
  BY <1>1 DEF ToDiagnosis, Crash, Fails, Return, Start, Raise, Leave, Goto, Tables
<1>2. ASSUME NEW k \in Nodes, CompleteInbox(k) \/ EffectWaits(k) \/ EffectRefused(k)
      PROVE  ToDiagnosis(n)
  BY <1>2 DEF ToDiagnosis, CompleteInbox, EffectWaits, EffectRefused, Finish, Wait, NextClaim, Goto, Tables
<1>3. ASSUME NEW k \in Nodes, BindEffect(k)
      PROVE  ToDiagnosis(n)
  <2>1. CASE k = n
    BY <1>3, <2>1 DEF ToDiagnosis
  <2>2. CASE k # n
    BY <1>3, <2>2 DEF ToDiagnosis, BindEffect, Goto, Tables
  <2> QED BY <2>1, <2>2
<1>4. ASSUME NEW k \in Nodes, BindDiagnostic(k)
      PROVE  ToDiagnosis(n)
  BY <1>4 DEF ToDiagnosis, BindDiagnostic, Onward, Goto, Tables
<1>5. ASSUME NEW k \in Nodes, NEW m \in Messages, ClaimNext(k, m) \/ Handle(k, m)
      PROVE  ToDiagnosis(n)
  BY <1>5 DEF ToDiagnosis, ClaimNext, Handle, Goto, Tables
<1>6. CASE TakeObservation \/ ForwardReport \/ ForwardEffect \/ TakeReport
  BY <1>6 DEF ToDiagnosis, TakeObservation, ForwardReport, ForwardEffect, TakeReport, Finish, NextClaim,
              Goto, Tables
<1>7. CASE BindContext \/ BindIntent
  BY <1>7 DEF ToDiagnosis, BindContext, BindIntent, Goto, Tables
<1>8. CASE IntentKnown \/ IntentWaits \/ AdmitIntent
  BY <1>8 DEF ToDiagnosis, IntentKnown, IntentWaits, AdmitIntent, Finish, Wait, NextClaim, Goto, Tables
<1>9. CASE HoldIntent
  <2>1. Finish("field") \/ Raise("field")
    BY <1>9 DEF HoldIntent
  <2> QED BY <2>1 DEF ToDiagnosis, Finish, Raise, Leave, NextClaim, Goto, Tables
<1>10. ASSUME NEW d \in Decisions, RobotDecides(d)
       PROVE  ToDiagnosis(n)
  BY <1>10 DEF ToDiagnosis, RobotDecides
<1> QED BY Steps, <1>0, <1>1, <1>2, <1>3, <1>4, <1>5, <1>6, <1>7, <1>8, <1>9, <1>10

LEMMA DiagnosingKept ==
    ASSUME Tables, Diagnosing, [Next]_vars
    PROVE  Diagnosing'
<1> SUFFICES ASSUME NEW n \in Nodes, pc'[n] = "diagnose"
             PROVE  ~Effect(n)'.verified
  BY DEF Diagnosing
<1>1. sent' = sent
  BY StepMoves DEF Moves, DecisionStays
<1>2. CASE pc[n] = "diagnose" /\ task'[n] = task[n]
  BY <1>1, <1>2 DEF Diagnosing, Effect
<1>3. CASE BindEffect(n)
  <2>1. task' = task
    BY <1>3 DEF BindEffect
  <2>2. ~Effect(n).verified
    BY <1>3 DEF BindEffect, Goto, Onward, Tables
  <2> QED BY <1>1, <2>1, <2>2 DEF Effect
<1> QED BY DiagnosesBound, <1>2, <1>3 DEF ToDiagnosis

\* The two tables are written by two actions.
LEMMA ProofsWritten ==
    ASSUME [Next]_vars
    PROVE  \/ UNCHANGED <<proof, diagnostic>>
           \/ \E n \in Nodes : BindEffect(n) \/ BindDiagnostic(n)
BY ZenonT(30), Steps
DEF Crash, Fails, Return, Start, CompleteInbox, EffectWaits, EffectRefused, ClaimNext, Handle,
    TakeObservation, ForwardReport, ForwardEffect, TakeReport, BindContext, BindIntent, Intake,
    IntentKnown, IntentWaits, AdmitIntent, HoldIntent, RobotDecides, bindings, vars

LEMMA ProofInvKept ==
    ASSUME ProofInv, [Next]_vars
    PROVE  ProofInv'
<1> USE DEF ProofInv
<1>1. Tables' /\ Diagnosing' /\ Moves
  BY TablesKept, DiagnosingKept, StepMoves
<1>2. decided' # "none" => bundle' # NoBundle
  BY <1>1 DEF Moves, AdmissionStays, DecisionStays
<1>3. /\ \A n \in Nodes : proof'[n] # NoProof => proof'[n].verified
      /\ \A n \in Nodes : diagnostic'[n] # NoProof => ~diagnostic'[n].verified
  <2>1. CASE UNCHANGED <<proof, diagnostic>>
    BY <2>1
  <2>2. ASSUME NEW n \in Nodes, BindEffect(n)
        PROVE  <1>3
    BY <2>2 DEF BindEffect, Tables
  <2>3. ASSUME NEW n \in Nodes, BindDiagnostic(n)
        PROVE  <1>3
    BY <2>3 DEF BindDiagnostic, Diagnosing, Tables
  <2> QED BY ProofsWritten, <2>1, <2>2, <2>3
<1> QED BY <1>1, <1>2, <1>3

\* What is attributable stays so: its context, its decision and the rows it rests
\* on do.
LEMMA AttributionStays ==
    ASSUME ProofInv, Moves, NEW effect, Attributable(effect)
    PROVE  Attributable(effect)'
<1>1. bundle' = bundle /\ decided' = decided /\ context' = context
  BY DEF Attributable, ProofInv, Moves, AdmissionStays, DecisionStays, BindingsStay
<1>2. Persisted("mission") \subseteq Persisted("mission")'
  BY DEF Moves, InboxGrows, Nodes
<1>3. BoundDevice' = BoundDevice
  BY <1>1 DEF BoundDevice
<1>4. Coherent(effect)' <=> Coherent(effect)
  BY <1>1 DEF Coherent
<1> QED BY <1>1, <1>2, <1>3, <1>4 DEF Attributable

LEMMA ArrivedGrows ==
    ASSUME InboxGrows, sent' = sent
    PROVE  Arrived \subseteq Arrived'
BY DEF InboxGrows, Arrived, Nodes

\* What Mission shows gives way to nothing but the first verified proof.
LEMMA ShownStays ==
    ASSUME ProofInv, ProofInv', Moves, Shown # NoProof
    PROVE  Shown' = Shown \/ (~Shown.verified /\ Shown'.verified)
<1>1. PICK effect \in Arrived : Attributable(effect)
  BY DEF Shown
<1>2. effect \in Arrived' /\ Attributable(effect)'
  BY <1>1, AttributionStays, ArrivedGrows DEF Moves, DecisionStays
<1>3. Shown' = IF proof'["mission"] # NoProof THEN proof'["mission"]
               ELSE diagnostic'["mission"]
  BY <1>2 DEF Shown
<1>4. Shown = IF proof["mission"] # NoProof THEN proof["mission"]
              ELSE diagnostic["mission"]
  BY <1>1 DEF Shown
<1>5. CASE proof["mission"] # NoProof
  BY <1>3, <1>4, <1>5 DEF Moves, BindingsStay, Nodes
<1>6. CASE proof["mission"] = NoProof
  <2>1. diagnostic'["mission"] = diagnostic["mission"] /\ ~Shown.verified
    BY <1>4, <1>6 DEF Moves, BindingsStay, ProofInv, Nodes
  <2>2. proof'["mission"] # NoProof => proof'["mission"].verified
    BY DEF ProofInv, Nodes
  <2> QED BY <1>3, <1>4, <1>6, <2>1, <2>2
<1> QED BY <1>5, <1>6

\* The first verified proof of an effect is final at Field and at Mission, and what
\* Mission shows changes at most once more, from a diagnostic to a proof, in
\* whatever order proofs, diagnostics and divergent copies arrive: bind_m3a_effect,
\* bind_m3a_effect_diagnostic and m3a_view_state.
THEOREM FirstProofIsFinal == Spec => ProofIsFinal
<1>1. Init => ProofInv
  BY TablesStart DEF Init, ProofInv, Diagnosing
<1>2. ProofInv /\ [Next]_vars => ProofInv'
  BY ProofInvKept
<1>3. ProofInv /\ ProofInv' /\ [Next]_vars =>
        [/\ \A n \in Nodes : proof[n] # NoProof => proof'[n] = proof[n]
         /\ Shown # NoProof =>
               Shown' = Shown \/ (~Shown.verified /\ Shown'.verified)]_vars
  <2> SUFFICES ASSUME ProofInv, ProofInv', [Next]_vars
               PROVE  /\ \A n \in Nodes : proof[n] # NoProof => proof'[n] = proof[n]
                      /\ Shown # NoProof =>
                            Shown' = Shown \/ (~Shown.verified /\ Shown'.verified)
    OBVIOUS
  <2>1. Moves
    BY StepMoves DEF ProofInv
  <2> QED BY <2>1, ShownStays DEF Moves, BindingsStay
<1> QED BY <1>1, <1>2, <1>3, PTL DEF Spec, ProofIsFinal

-----------------------------------------------------------------------------
(* What a step is to the handlers: what the proofs below split on.         *)

\* What TypeOK says of tables one by one, as functions on the nodes.
Counts == 0..Cardinality(Messages)
Claimed == 0..2 * Cardinality(Messages)
Columns ==
    /\ received_at \in [Nodes -> [Messages -> Counts]]
    /\ left \in [Nodes -> Claimed]
    /\ disputed \in [Nodes -> SUBSET Messages]

Still(k) == pc'[k] = pc[k] /\ task'[k] = task[k]
OthersStill(n) == \A k \in Nodes \ {n} : Still(k)

\* No step of a handler, or the start of one: the Robot decides.
Idles == \A n \in Nodes : Still(n)

\* The row in hand is put away, or the call is over.
Rests(n) ==
    /\ OthersStill(n)
    /\ pc'[n] \in {"down", "idle", "loop"}
    /\ task'[n] = NoMessage

\* A row is taken in hand.
Begins(n) ==
    /\ OthersStill(n)
    /\ pc'[n] = "process"
    /\ task'[n] \in Messages /\ task'[n] \in Persisted(n)'

Unbinding == UNCHANGED <<proof, diagnostic, disputed, context>>

Turn ==
    \/ Idles /\ Unbinding
    \/ \E n \in Nodes : (Rests(n) \/ Begins(n)) /\ Unbinding
    \/ \E n \in Nodes : EffectRefused(n) \/ BindEffect(n) \/ BindDiagnostic(n)
    \/ BindContext \/ BindIntent

LEMMA Turns ==
    ASSUME Tables, InPlace, [Next]_vars
    PROVE  Turn
<1> USE DEF bindings
<1>0. CASE UNCHANGED vars
  <2>1. Idles /\ Unbinding
    BY <1>0 DEF Idles, Still, Unbinding, vars
  <2> QED BY <2>1 DEF Turn
<1>1. ASSUME NEW n \in Nodes, Finish(n) \/ Wait(n) \/ Raise(n) \/ Leave(n, "down")
                                \/ Leave(n, "idle")
      PROVE  Rests(n)
  BY <1>1 DEF Finish, Wait, NextClaim, Raise, Leave, Goto, Rests, OthersStill, Still, Tables
<1>2. ASSUME NEW n \in Nodes, Crash(n) \/ Fails(n) \/ Return(n)
      PROVE  Turn
  <2>1. Rests(n) /\ Unbinding
    BY <1>1, <1>2 DEF Crash, Fails, Return, Unbinding
  <2> QED BY <2>1 DEF Turn
<1>3. ASSUME NEW n \in Nodes, Start(n)
      PROVE  Turn
  <2>1. task[n] = NoMessage
    BY <1>3 DEF Start, InPlace, AtWork, Working, Labels
  <2>2. Rests(n) /\ Unbinding
    BY <1>3, <2>1 DEF Start, Goto, Rests, OthersStill, Still, Tables, Unbinding
  <2> QED BY <2>2 DEF Turn
<1>4. ASSUME NEW n \in Nodes, CompleteInbox(n) \/ EffectWaits(n)
      PROVE  Turn
  <2>1. Rests(n) /\ Unbinding
    BY <1>1, <1>4 DEF CompleteInbox, EffectWaits, Unbinding
  <2> QED BY <2>1 DEF Turn
<1>5. ASSUME NEW n \in Nodes, NEW m \in Messages, ClaimNext(n, m)
      PROVE  Turn
  <2>1. m \in Persisted(n)'
    BY <1>5 DEF ClaimNext, Claim, Tables, Persisted
  <2>2. Begins(n) /\ Unbinding
    BY <1>5, <2>1 DEF ClaimNext, Goto, Begins, OthersStill, Still, Tables, Unbinding
  <2> QED BY <2>2 DEF Turn
<1>6. ASSUME NEW n \in Nodes, NEW m \in Messages, Handle(n, m)
      PROVE  Turn
  <2>1. m \in Persisted(n)'
    BY <1>6, HandledIsPersisted
  <2>2. Begins(n) /\ Unbinding
    BY <1>6, <2>1 DEF Handle, Goto, Begins, OthersStill, Still, Tables, Unbinding
  <2> QED BY <2>2 DEF Turn
<1>7. CASE TakeObservation \/ ForwardReport \/ ForwardEffect \/ TakeReport
  <2>1. \E n \in Nodes : Rests(n) /\ Unbinding
    BY <1>1, <1>7 DEF TakeObservation, ForwardReport, ForwardEffect, TakeReport, Unbinding,
                      Nodes
  <2> QED BY <2>1 DEF Turn
<1>8. CASE IntentKnown \/ IntentWaits \/ AdmitIntent
  <2>1. Rests("field") /\ Unbinding
    BY <1>1, <1>8 DEF IntentKnown, IntentWaits, AdmitIntent, Intake, Unbinding, Nodes
  <2> QED BY <2>1 DEF Turn, Nodes
<1>9. CASE HoldIntent
  <2>1. Finish("field") \/ Raise("field")
    BY <1>9 DEF HoldIntent
  <2>2. Rests("field") /\ Unbinding
    BY <1>1, <1>9, <2>1 DEF HoldIntent, Intake, Unbinding, Nodes
  <2> QED BY <2>2 DEF Turn, Nodes
<1>10. ASSUME NEW d \in Decisions, RobotDecides(d)
       PROVE  Turn
  <2>1. Idles /\ Unbinding
    BY <1>10 DEF RobotDecides, Idles, Still, Unbinding
  <2> QED BY <2>1 DEF Turn
<1>11. CASE \/ \E n \in Nodes : EffectRefused(n) \/ BindEffect(n) \/ BindDiagnostic(n)
            \/ BindContext \/ BindIntent
  BY <1>11 DEF Turn
<1> QED BY Steps, <1>0, <1>2, <1>3, <1>4, <1>5, <1>6, <1>7, <1>8, <1>9, <1>10, <1>11

\* A handler stays with its row between its transactions.
LEMMA TurnsOn ==
    ASSUME Tables, Columns, NEW n \in Nodes,
           EffectRefused(n) \/ BindEffect(n) \/ BindDiagnostic(n)
    PROVE  /\ OthersStill(n) /\ task' = task
           /\ \A k \in Nodes \ {n} : proof'[k] = proof[k] /\ disputed'[k] = disputed[k]
           /\ pc[n] \in {"process", "diagnose"}
           /\ pc'[n] \in {"complete", "diagnose", "forward"}
           /\ UNCHANGED <<inbox, outbox, root, context, sent, decided>>
BY DEF EffectRefused, BindEffect, BindDiagnostic, Takes, Disputes, Goto, Onward, OthersStill,
       Still, Tables, Columns, rows, admission, outside

-----------------------------------------------------------------------------
(* What has arrived could be sent.                                         *)

Carried == {"observation", "decision", "command", "event"}
OutboxGrows ==
    /\ outbox \subseteq outbox'
    /\ \A m \in outbox' \ outbox :
          \/ m \in {FieldDecision, Context}
          \/ m = task["field"] /\ (pc["field"] = "forward" \/ Takes("field", Carried))

\* The rows of an outbox stay, and what is added is the Field's own or what its
\* handler has in hand.
LEMMA OutboxWritten == [Next]_vars => OutboxGrows
<1>1. CASE TakeObservation \/ ForwardReport \/ ForwardEffect
  BY <1>1 DEF TakeObservation, ForwardReport, ForwardEffect, Takes, Carried, OutboxGrows
<1>2. CASE AdmitIntent \/ HoldIntent
  BY <1>2 DEF AdmitIntent, HoldIntent, OutboxGrows
<1>3. CASE outbox' = outbox
  BY <1>3 DEF OutboxGrows
<1>4. [Next]_vars => \/ outbox' = outbox
                    \/ TakeObservation \/ ForwardReport \/ ForwardEffect
                    \/ AdmitIntent \/ HoldIntent
  BY Steps DEF Crash, Fails, Return, Start, CompleteInbox, EffectWaits, EffectRefused,
               BindEffect, BindDiagnostic, ClaimNext, Handle, TakeReport, BindContext,
               BindIntent, IntentKnown, IntentWaits, RobotDecides, vars
<1> QED BY <1>1, <1>2, <1>3, <1>4

LEMMA StaysSendable ==
    ASSUME Moves, OutboxGrows, BoundAsMeant, NEW n \in Nodes, NEW m \in Messages, Sendable(n, m)
    PROVE  Sendable(n, m)'
<1>1. /\ sent' = sent /\ outbox \subseteq outbox'
      /\ decided # "none" => decided' = decided
      /\ bundle # NoBundle => bundle' = bundle
  BY DEF Moves, DecisionStays, AdmissionStays, OutboxGrows
<1>2. CASE n = "mission"
  BY <1>1, <1>2 DEF Sendable
<1>3. CASE n # "mission"
  BY <1>1, <1>3 DEF Sendable
<1> QED BY <1>2, <1>3

LEMMA ArrivalsKept ==
    ASSUME Tables, RowsInHand, BoundAsMeant, Arrivals, [Next]_vars
    PROVE  Arrivals'
<1>1. Moves /\ OutboxGrows
  BY StepMoves, OutboxWritten
<1>2. \A n \in Nodes : \A m \in Persisted(n) : Sendable(n, m)'
  BY <1>1, StaysSendable DEF Arrivals, Persisted
<1>3. CASE NoNewRows
  BY <1>2, <1>3 DEF NoNewRows, Arrivals
<1>4. ASSUME NEW n \in Nodes, NEW m \in Messages, Handle(n, m)
      PROVE  Arrivals'
  <2>1. Sendable(n, m)'
    BY <1>1, <1>4, StaysSendable DEF Handle
  <2>2. /\ Persisted(n)' \subseteq Persisted(n) \cup {m}
        /\ \A k \in Nodes \ {n} : Persisted(k)' = Persisted(k)
    BY <1>4, HandledIsPersisted
  <2> QED BY <1>2, <2>1, <2>2 DEF Arrivals
<1> QED BY RowsAdded, <1>3, <1>4

\* The kinds of message, and what may be said of one that arrived.
LEMMA Kinds ==
    ASSUME NEW m \in Messages
    PROVE  /\ m[1] = "intent" => m[2] \in Intents /\ m = Intent(m[2])
           /\ m[1] = "observation" => m[2] \in Observations /\ m = Observation(m[2])
           /\ m[1] = "context" => m \in {Context, Substitute}
           /\ m[1] \in {"effect", "direct"} <=> m \in EffectMessages
           /\ m \in EffectMessages => m[2] \in Effects
BY DEF Messages, Intent, Observation, Context, Substitute, FieldDecision, Reports, Decision,
       Command, TerminalEvent, EffectMessages

LEMMA FieldArrivals ==
    ASSUME Arrivals, NEW m \in Persisted("field")
    PROVE  /\ m[1] = "intent" => m[2] \in DOMAIN sent.intents
           /\ m[1] = "observation" => m[2] \in DOMAIN sent.observations
           /\ m \in EffectMessages =>
                 m[1] = "effect" /\ m[2] \in DOMAIN sent.effects /\ decided = "execute"
<1>1. Sendable("field", m) /\ m \in Messages
  BY DEF Arrivals, Nodes, Persisted
<1>2. m[1] = "intent" => m[2] \in DOMAIN sent.intents
  BY <1>1 DEF Sendable, Decision, TerminalEvent, Command
<1>3. m[1] = "observation" => m[2] \in DOMAIN sent.observations
  BY <1>1 DEF Sendable, Decision, TerminalEvent, Command
<1>4. m[1] = "effect" => m[2] \in DOMAIN sent.effects /\ decided = "execute"
  BY <1>1 DEF Sendable, Decision, TerminalEvent, Command
<1>5. m[1] # "direct"
  BY <1>1 DEF Sendable, Decision, TerminalEvent, Command
<1> QED BY <1>1, <1>2, <1>3, <1>4, <1>5, Kinds

-----------------------------------------------------------------------------
(* Types.                                                                  *)

LEMMA MessagesFinite ==
    /\ Cardinality(Messages) \in Nat
    /\ Messages # {} => Cardinality(Messages) >= 1
    /\ \A S \in SUBSET Messages : /\ IsFiniteSet(S) /\ Cardinality(S) \in Counts
                                  /\ S # Messages => Cardinality(S) + 1 \in Counts
<1>1. IsFiniteSet(Messages)
  BY TwoButtonChainAssumption
<1>2. Cardinality(Messages) \in Nat
  BY <1>1, FS_CardinalityType
<1>3. Messages # {} => Cardinality(Messages) >= 1
  BY <1>1, <1>2, FS_EmptySet
<1>4. ASSUME NEW S \in SUBSET Messages
      PROVE  /\ IsFiniteSet(S) /\ Cardinality(S) \in Counts
             /\ S # Messages => Cardinality(S) + 1 \in Counts
  <2>1. /\ IsFiniteSet(S) /\ Cardinality(S) <= Cardinality(Messages)
        /\ Cardinality(S) = Cardinality(Messages) => S = Messages
    BY <1>1, FS_Subset
  <2>2. Cardinality(S) \in Nat
    BY <2>1, FS_CardinalityType
  <2> QED BY <1>2, <2>1, <2>2 DEF Counts
<1> QED BY <1>2, <1>3, <1>4

\* The n-th row that may wait is at most the last, and a restart has at most two
\* claims for every row.
LEMMA RowNumbered ==
    ASSUME Tables, NEW n \in Nodes, NEW m \in Messages, inbox[n][m] = "ABSENT"
    PROVE  Cardinality({k \in Persisted(n) : MayWait(k)}) + 1 \in Counts
<1> DEFINE S == {k \in Persisted(n) : MayWait(k)}
<1>1. S \in SUBSET Messages /\ m \notin S
  BY DEF Persisted
<1> HIDE DEF S
<1>2. Cardinality(S) + 1 \in Counts
  BY <1>1, MessagesFinite
<1> QED BY <1>2 DEF S

LEMMA ClaimsCounted ==
    ASSUME NEW table \in [Messages -> InboxState]
    PROVE  2 * Cardinality(Claimable(table)) \in Claimed
<1>1. Claimable(table) \in SUBSET Messages
  BY DEF Claimable
<1>2. Cardinality(Claimable(table)) \in Counts /\ Cardinality(Messages) \in Nat
  BY <1>1, MessagesFinite
<1> QED BY <1>2 DEF Counts, Claimed

LEMMA ColumnsKept ==
    ASSUME Tables, Columns, InPlace, [Next]_vars
    PROVE  Columns'
<1> DEFINE Received(r) == r \in [Nodes -> [Messages -> Counts]]
           Left(l) == l \in [Nodes -> Claimed]
           Disputed(d) == d \in [Nodes -> SUBSET Messages]
<1> USE DEF bindings, rows, call
<1>0. /\ Received(received_at) /\ Left(left) /\ Disputed(disputed)
      /\ 0 \in Claimed /\ 0 \in Counts
      /\ Messages # {} => 1 \in Claimed
  BY MessagesFinite DEF Columns, Counts, Claimed
<1>1. Received(received_at')
  <2>1. ASSUME NEW n \in Nodes, NEW m \in Messages, Handle(n, m)
        PROVE  Received(received_at')
    <3>1. Cardinality({k \in Persisted(n) : MayWait(k)}) + 1 \in Counts
      BY <2>1, RowNumbered DEF Handle
    <3> QED BY <1>0, <2>1, <3>1 DEF Handle
  <2>2. received_at' = received_at \/ \E n \in Nodes, m \in Messages : Handle(n, m)
    BY Steps DEF Crash, Fails, Return, Start, CompleteInbox, EffectWaits, EffectRefused,
                 BindEffect, BindDiagnostic, ClaimNext, TakeObservation, ForwardReport,
                 ForwardEffect, TakeReport, BindContext, BindIntent, IntentKnown, IntentWaits,
                 AdmitIntent, HoldIntent, Intake, RobotDecides, vars
  <2> QED BY <1>0, <2>1, <2>2
<1>2. Left(left')
  <2>1. ASSUME NEW n \in Nodes, Crash(n) \/ Fails(n) \/ Return(n)
        PROVE  Left(left')
    BY <1>0, <2>1 DEF Crash, Fails, Return, Raise, Leave
  <2>2. ASSUME NEW n \in Nodes, Start(n)
        PROVE  Left(left')
    <3>1. inbox'[n] \in [Messages -> InboxState]
      BY StepMoves DEF Moves, InboxGrows
    <3>2. 2 * Cardinality(Claimable(inbox'[n])) \in Claimed
      BY <3>1, ClaimsCounted
    <3> QED BY <1>0, <2>2, <3>2 DEF Start
  <2>3. ASSUME NEW n \in Nodes, NEW m \in Messages, ClaimNext(n, m)
        PROVE  Left(left')
    <3>1. left[n] \in Claimed /\ left[n] > 0
      BY <1>0, <2>3 DEF ClaimNext, MayClaim
    <3>2. left[n] - 1 \in Claimed
      BY <3>1, MessagesFinite DEF Claimed
    <3> QED BY <1>0, <2>3, <3>2 DEF ClaimNext
  <2>4. ASSUME NEW n \in Nodes, NEW m \in Messages, Handle(n, m)
        PROVE  Left(left')
    BY <1>0, <2>4 DEF Handle
  <2>5. CASE HoldIntent
    BY <1>0, <2>5 DEF HoldIntent, Raise, Leave
  <2>6. CASE left' = left
    BY <1>0, <2>6
  <2>7. \/ left' = left \/ HoldIntent
        \/ \E n \in Nodes : Crash(n) \/ Fails(n) \/ Return(n) \/ Start(n)
        \/ \E n \in Nodes, m \in Messages : ClaimNext(n, m) \/ Handle(n, m)
    BY Steps DEF CompleteInbox, EffectWaits, EffectRefused, BindEffect, BindDiagnostic,
                 TakeObservation, ForwardReport, ForwardEffect, TakeReport, BindContext,
                 BindIntent, IntentKnown, IntentWaits, AdmitIntent, RobotDecides, vars
  <2> QED BY <2>1, <2>2, <2>3, <2>4, <2>5, <2>6, <2>7
<1>3. Disputed(disputed')
  <2>1. ASSUME NEW n \in Nodes, Disputes(n), task[n] \in Messages
        PROVE  Disputed(disputed')
    BY <1>0, <2>1 DEF Disputes
  <2>2. ASSUME NEW n \in Nodes, pc[n] \in {"process", "diagnose"}
        PROVE  task[n] \in Messages
    BY <2>2 DEF InPlace, AtWork, Working, Labels, Persisted
  <2>3. ASSUME NEW n \in Nodes, EffectRefused(n) \/ BindEffect(n) \/ BindDiagnostic(n)
        PROVE  Disputed(disputed')
    <3>1. task[n] \in Messages
      BY <2>2, <2>3 DEF EffectRefused, BindEffect, BindDiagnostic, Takes
    <3> QED BY <1>0, <2>1, <2>3, <3>1 DEF EffectRefused, BindEffect, BindDiagnostic
  <2>4. CASE BindContext
    <3>1. task["mission"] \in Messages
      BY <2>2, <2>4 DEF BindContext, Takes, Nodes
    <3> QED BY <1>0, <2>1, <2>4, <3>1 DEF BindContext, Nodes
  <2>5. CASE BindIntent
    <3>1. task["field"] \in Messages
      BY <2>2, <2>5 DEF BindIntent, Takes, Nodes
    <3> QED BY <1>0, <2>5, <3>1 DEF BindIntent
  <2>6. CASE Unbinding
    BY <1>0, <2>6 DEF Unbinding
  <2> QED BY Turns, <2>3, <2>4, <2>5, <2>6 DEF Turn
<1> QED BY <1>1, <1>2, <1>3 DEF Columns

\* What can be objected to an intent is a hold.
LEMMA ObjectionsHold ==
    ASSUME NEW intent, NEW objection \in Objections(intent)
    PROVE  objection.action \in Holds
<1>1. ASSUME NEW reference
      PROVE  VerifyReference(intent, reference) \in Holds \cup {"VALID"}
  BY DEF VerifyReference, Holds
<1>2. \A o \in ReferenceObjection(intent) : o.action \in Holds
  BY <1>1 DEF ReferenceObjection, Holds
<1>3. \A o \in CurrentObjection(intent) \cup {Expiry} : o.action \in Holds
  BY DEF CurrentObjection, Expiry, Holds
<1> QED BY <1>2, <1>3 DEF Objections

-----------------------------------------------------------------------------
(* The invariant of the chain.                                             *)

Inv == Tables /\ Columns /\ ObservedIsSent /\ ChainInv

LEMMA InvParts ==
    ASSUME Inv
    PROVE  /\ Tables /\ Columns /\ InPlace /\ RowsInHand /\ Arrivals /\ BoundAsMeant
           /\ EvidenceInv /\ ProofInv /\ ForwardsBound /\ BindsAttributable
           /\ DivergenceInHand
<1>1. RowsInHand
  BY DEF Inv, ChainInv, InPlace, AtWork, RowsInHand
<1>2. ProofInv
  BY DEF Inv, ChainInv, InPlace, AtWork, BoundAsMeant, ProofInv, Diagnosing
<1> QED BY <1>1, <1>2 DEF Inv, ChainInv, EvidenceInv

\* The row in hand is a message, of the kind the handler is at.
LEMMA InHand ==
    ASSUME Inv, NEW n \in Nodes, pc[n] \in Working
    PROVE  /\ task[n] \in Persisted(n) /\ task[n] \in Messages
           /\ Sendable(n, task[n])
BY InvParts DEF InPlace, AtWork, Persisted, Arrivals

\* What binds an effect, or refuses it, has one in hand.
LEMMA BindsInHand ==
    ASSUME Inv, NEW n \in Nodes, EffectRefused(n) \/ BindEffect(n) \/ BindDiagnostic(n)
    PROVE  pc[n] \in Working /\ task[n] \in EffectMessages /\ task[n] \in Persisted(n)
<1>1. pc[n] \in Working
  BY DEF EffectRefused, BindEffect, BindDiagnostic, Takes, Working, Labels
<1>2. CASE Takes(n, {"effect", "direct"})
  BY <1>1, <1>2, InHand, Kinds DEF Takes
<1>3. CASE pc[n] = "diagnose"
  BY <1>1, <1>3, InvParts, InHand DEF InPlace, AtWork
<1> QED BY <1>2, <1>3 DEF EffectRefused, BindEffect, BindDiagnostic

\* What is in hand of an effect is one of the scenario's.
LEMMA EffectInHand ==
    ASSUME Inv, NEW n \in Nodes, pc[n] \in Working, task[n] \in EffectMessages
    PROVE  /\ Effect(n) # NoProof /\ Effect(n) \in Proofs
           /\ task[n][1] = "effect" => /\ task[n][2] \in DOMAIN sent.effects
                                       /\ Effect(n) = sent.effects[task[n][2]]
           /\ task[n][1] # "effect" => n = "mission" /\ DOMAIN sent.direct # {}
           /\ n = "mission" /\ task[n][1] = "effect" => task[n] \in outbox
           /\ Contents(n, task[n]) = Effect(n)
<1>1. /\ task[n] \in Messages /\ Sendable(n, task[n]) /\ task[n] \in Persisted(n)
      /\ sent \in Scenarios /\ InPlace /\ Arrivals /\ ForwardsBound
  BY InHand, InvParts DEF EvidenceInv, ObservedIsSent
<1>2. task[n][1] \in {"effect", "direct"} /\ task[n] \notin {Context, Substitute}
  BY <1>1, Kinds DEF EffectMessages, Context, Substitute
<1>3. ASSUME NEW e \in DOMAIN sent.effects
      PROVE  sent.effects[e] # NoProof /\ sent.effects[e] \in Proofs
  BY <1>1, TwoButtonChainAssumption DEF Proofs
<1>4. ASSUME NEW e \in DOMAIN sent.direct
      PROVE  sent.direct[e] # NoProof /\ sent.direct[e] \in Proofs
  BY <1>1, TwoButtonChainAssumption DEF Proofs
<1>5. CASE n = "field"
  <2>1. task[n][1] = "effect" /\ task[n][2] \in DOMAIN sent.effects
    BY <1>1, <1>5, FieldArrivals
  <2> QED BY <1>3, <1>5, <2>1 DEF Effect, Contents
<1>6. CASE n = "mission"
  <2>1. task[n] \in outbox \/ (task[n][1] = "direct" /\ task[n][2] \in DOMAIN sent.direct)
    BY <1>1, <1>2, <1>6 DEF Sendable
  <2>2. CASE task[n] \in outbox
    <3>1. task[n][1] = "effect" /\ task[n][2] \in DOMAIN sent.effects
      BY <1>1, <2>2 DEF ForwardsBound, Bound
    <3> QED BY <1>3, <1>6, <2>2, <3>1 DEF Effect, Contents
  <2>3. CASE task[n][1] = "direct" /\ task[n][2] \in DOMAIN sent.direct
    BY <1>4, <1>6, <2>3 DEF Effect, Contents
  <2> QED BY <2>1, <2>2, <2>3
<1> QED BY <1>5, <1>6 DEF Nodes

LEMMA BoundStays ==
    ASSUME Inv, [Next]_vars, NEW m, Bound(m)
    PROVE  Bound(m)'
<1>1. /\ sent' = sent
      /\ proof["field"] # NoProof => proof'["field"] = proof["field"]
      /\ diagnostic["field"] # NoProof => diagnostic'["field"] = diagnostic["field"]
  BY InvParts, StepMoves DEF Moves, BindingsStay, DecisionStays, Nodes
<1>2. sent.effects[m[2]] # NoProof
  BY InvParts, TwoButtonChainAssumption DEF Bound, EvidenceInv, ObservedIsSent
<1> QED BY <1>1, <1>2 DEF Bound

\* A handler that is not at a transaction of its bindings.
LEMMA StaysAtWork ==
    ASSUME Inv, [Next]_vars, NEW k \in Nodes, Still(k), proof'[k] = proof[k]
    PROVE  AtWork(k)'
<1>1. /\ AtWork(k) /\ sent' = sent /\ Persisted(k) \subseteq Persisted(k)'
      /\ root # NoIntent => root' = root
  BY InvParts, StepMoves DEF InPlace, Moves, InboxGrows, AdmissionStays, DecisionStays
<1> QED BY <1>1 DEF AtWork, Still, Effect

LEMMA InPlaceKept ==
    ASSUME Inv, [Next]_vars
    PROVE  InPlace'
<1>1. /\ Tables /\ Columns /\ InPlace
      /\ \A n \in Nodes : Persisted(n) \subseteq Persisted(n)' /\ sent' = sent
  BY InvParts, StepMoves DEF Moves, InboxGrows, DecisionStays
<1>2. CASE Idles /\ Unbinding
  BY <1>2, StaysAtWork DEF Idles, Unbinding, InPlace
<1>3. ASSUME NEW n \in Nodes, Rests(n) \/ Begins(n), Unbinding
      PROVE  InPlace'
  <2>1. AtWork(n)'
    BY <1>3 DEF Rests, Begins, AtWork, Working, Labels
  <2>2. \A k \in Nodes \ {n} : AtWork(k)'
    BY <1>3, StaysAtWork DEF Rests, Begins, OthersStill, Unbinding
  <2> QED BY <2>1, <2>2 DEF InPlace
<1>4. ASSUME NEW n \in Nodes, EffectRefused(n) \/ BindEffect(n) \/ BindDiagnostic(n)
      PROVE  InPlace'
  <2>1. \A k \in Nodes \ {n} : AtWork(k)'
    BY <1>1, <1>4, TurnsOn, StaysAtWork DEF OthersStill
  <2>2. task[n] \in Persisted(n)' /\ task'[n] = task[n] /\ Effect(n)' = Effect(n)
    <3>1. task[n] \in Persisted(n)
      BY <1>4, BindsInHand
    <3> QED BY <1>1, <1>4, <3>1, TurnsOn DEF Effect
  <2>3. task[n] \in EffectMessages
    BY <1>4, BindsInHand
  <2>4. pc'[n] = "forward" => n = "field"
    BY <1>1, <1>4 DEF EffectRefused, BindEffect, BindDiagnostic, Onward, Goto, Tables
  <2>5. pc'[n] = "diagnose" => proof'[n] = NoProof /\ ~Effect(n).verified
    BY <1>1, <1>4, InvParts
    DEF EffectRefused, BindEffect, BindDiagnostic, Diverges, Onward, Goto, Tables, BoundAsMeant
  <2>6. AtWork(n)'
    <3>1. pc'[n] \in {"complete", "diagnose", "forward"}
      BY <1>1, <1>4, TurnsOn
    <3> QED BY <2>2, <2>3, <2>4, <2>5, <3>1 DEF AtWork, Working, Labels
  <2> QED BY <2>1, <2>6 DEF InPlace
<1>5. CASE BindContext
  <2>1. AtWork("field")'
    BY <1>1, <1>5, StaysAtWork DEF BindContext, Goto, Tables, Nodes, Still
  <2>2. task["mission"] \in Persisted("mission")
    BY <1>5, InHand DEF BindContext, Takes, Working, Labels, Nodes
  <2>3. AtWork("mission")'
    BY <1>1, <1>5, <2>2 DEF BindContext, Goto, Tables, Nodes, AtWork, Working, Labels
  <2> QED BY <2>1, <2>3 DEF InPlace, Nodes
<1>6. CASE BindIntent
  <2>1. AtWork("mission")'
    BY <1>1, <1>6, StaysAtWork DEF BindIntent, Goto, Tables, Nodes, Still
  <2>2. task["field"] \in Persisted("field") /\ task["field"][1] = "intent"
    BY <1>6, InHand DEF BindIntent, Takes, Working, Labels, Nodes
  <2>3. Claims(task["field"][2]) # NoIntent
    <3>1. task["field"][2] \in DOMAIN sent.intents
      BY <2>2, FieldArrivals, InvParts
    <3> QED BY <3>1, InvParts, TwoButtonChainAssumption DEF Claims, EvidenceInv, ObservedIsSent
  <2>4. pc'["field"] = "intake" => root' # NoIntent
    BY <1>1, <1>6, <2>3 DEF BindIntent, Goto, Tables, Nodes
  <2>5. pc'["field"] \in {"intake", "complete"} /\ task' = task
    BY <1>1, <1>6 DEF BindIntent, Goto, Tables, Nodes
  <2>6. task["field"] \in Persisted("field")'
    BY <1>1, <2>2 DEF Nodes
  <2>7. AtWork("field")'
    BY <2>2, <2>4, <2>5, <2>6 DEF AtWork, Working, Labels
  <2> QED BY <2>1, <2>7 DEF InPlace, Nodes
<1> QED BY <1>1, <1>2, <1>3, <1>4, <1>5, <1>6, Turns DEF Turn

LEMMA BoundAsMeantKept ==
    ASSUME Inv, [Next]_vars
    PROVE  BoundAsMeant'
<1>1. ProofInv' /\ Moves
  BY InvParts, ProofInvKept, StepMoves
<1>2. bundle' # NoBundle => root' # NoIntent
  <2>1. CASE bundle' = bundle
    BY <1>1, <2>1, InvParts DEF BoundAsMeant, Moves, AdmissionStays
  <2>2. CASE AdmitIntent
    <3>1. pc["field"] = "intake" /\ root' = root
      BY <2>2 DEF AdmitIntent, Intake
    <3> QED BY <3>1, InvParts DEF InPlace, AtWork, Nodes
  <2> QED BY <2>1, <2>2, BundleWritten
<1> QED BY <1>1, <1>2 DEF ProofInv, BoundAsMeant

LEMMA ForwardsBoundKept ==
    ASSUME Inv, [Next]_vars
    PROVE  ForwardsBound'
<1>1. Tables /\ Columns /\ ForwardsBound /\ InPlace /\ OutboxGrows /\ sent' = sent
  BY InvParts, OutboxWritten, StepMoves DEF Moves, DecisionStays
<1>2. ASSUME NEW m \in outbox' \ outbox
      PROVE  m # Substitute /\ (m \in EffectMessages => Bound(m))
  <2>1. CASE m \in {FieldDecision, Context}
    BY <2>1 DEF FieldDecision, Context, Substitute, EffectMessages
  <2>2. CASE m = task["field"] /\ pc["field"] = "forward"
    BY <1>1, <2>2 DEF ForwardsBound, Bound, Substitute
  <2>3. CASE m = task["field"] /\ Takes("field", Carried)
    BY <2>3 DEF Takes, Carried, Substitute, EffectMessages
  <2> QED BY <1>1, <2>1, <2>2, <2>3 DEF OutboxGrows
<1>3. \A m \in outbox' : m # Substitute /\ (m \in EffectMessages => Bound(m)')
  BY <1>1, <1>2, BoundStays DEF ForwardsBound
<1>4. ASSUME pc'["field"] = "forward"
      PROVE  Bound(task["field"])'
  <2>0. PICK m : m = task["field"]
    OBVIOUS
  <2>1. CASE Still("field")
    <3>1. Bound(m)
      BY <1>1, <1>4, <2>0, <2>1 DEF ForwardsBound, Still
    <3>2. task'["field"] = m
      BY <2>0, <2>1 DEF Still
    <3>3. Bound(m)'
      BY <3>1, BoundStays
    <3> QED BY <1>1, <3>2, <3>3 DEF Bound
  <2>2. CASE EffectRefused("field")
    BY <1>1, <1>4, <2>2 DEF EffectRefused, Goto, Tables, Nodes
  <2>3. CASE BindEffect("field") \/ BindDiagnostic("field")
    <3>1. /\ task'["field"] = m /\ m \in EffectMessages /\ pc["field"] \in Working
          /\ m[1] = "effect" /\ m[2] \in DOMAIN sent.effects
          /\ Effect("field") = sent.effects[m[2]]
      <4>1. pc["field"] \in Working /\ task'["field"] = m /\ m \in EffectMessages
        BY <1>1, <2>0, <2>3, TurnsOn, BindsInHand DEF Nodes
      <4> QED BY <2>0, <4>1, EffectInHand DEF Nodes
    <3>2. CASE BindEffect("field")
      BY <1>1, <1>4, <3>1, <3>2 DEF BindEffect, Diverges, Goto, Tables, Nodes, Bound
    <3>3. CASE BindDiagnostic("field")
      <4>1. ~Effect("field").verified
        BY <1>1, <3>3 DEF BindDiagnostic, InPlace, AtWork, Nodes
      <4> QED BY <1>1, <1>4, <3>1, <3>3, <4>1 DEF BindDiagnostic, Goto, Tables, Nodes, Bound
    <3> QED BY <2>3, <3>2, <3>3
  <2>4. CASE BindIntent
    BY <1>1, <1>4, <2>4 DEF BindIntent, Goto, Tables, Nodes
  <2>5. ASSUME NEW n \in Nodes, Rests(n) \/ Begins(n)
        PROVE  Still("field")
    BY <1>4, <2>5 DEF Rests, Begins, OthersStill, Nodes
  <2>6. CASE \E n \in Nodes \ {"field"} : EffectRefused(n) \/ BindEffect(n) \/ BindDiagnostic(n)
    BY <1>1, <2>1, <2>6, TurnsOn DEF OthersStill, Nodes
  <2>7. CASE BindContext
    BY <1>1, <2>1, <2>7 DEF BindContext, Goto, Tables, Nodes, Still
  <2> QED BY <1>1, Turns, <2>1, <2>2, <2>3, <2>4, <2>5, <2>6, <2>7 DEF Turn, Idles, Nodes
<1> QED BY <1>3, <1>4 DEF ForwardsBound

\* The bindings of Mission are written by its own handler.
LEMMA MissionBinds ==
    ASSUME Inv, [Next]_vars
    PROVE  \/ UNCHANGED <<proof["mission"], diagnostic["mission"]>>
           \/ BindEffect("mission") \/ BindDiagnostic("mission")
BY InvParts, ProofsWritten DEF BindEffect, BindDiagnostic, Tables, Nodes

\* What is valid for Mission is attributable.
LEMMA ValidIsAttributable ==
    ASSUME Verdict("mission") = "valid"
    PROVE  Attributable(Effect("mission"))
BY DEF Verdict, MissionVerdict

LEMMA BindsAttributableKept ==
    ASSUME Inv, [Next]_vars
    PROVE  BindsAttributable'
<1>1. Tables /\ Columns /\ BindsAttributable /\ InPlace /\ ProofInv /\ Moves /\ ForwardsBound
  BY InvParts, StepMoves
<1>2. /\ sent' = sent
      /\ \A effect : Attributable(effect) => Attributable(effect)'
      /\ Persisted("mission") \subseteq Persisted("mission")'
      /\ proof["field"] # NoProof => proof'["field"] = proof["field"]
      /\ diagnostic["field"] # NoProof => diagnostic'["field"] = diagnostic["field"]
  BY <1>1, AttributionStays DEF Moves, DecisionStays, InboxGrows, BindingsStay, Nodes
<1>3. ASSUME BindEffect("mission") \/ BindDiagnostic("mission")
      PROVE  /\ Attributable(Effect("mission")) /\ Effect("mission") # NoProof
             /\ ~Bypassed => IF Effect("mission").verified
                             THEN proof["field"] = Effect("mission")
                             ELSE diagnostic["field"] = Effect("mission")
  <2>1. pc["mission"] \in Working /\ task["mission"] \in EffectMessages
    BY <1>3, BindsInHand DEF Nodes
  <2>3. Attributable(Effect("mission"))
    BY <1>1, <1>3, ValidIsAttributable DEF BindEffect, BindDiagnostic, BindsAttributable
  <2>4. ASSUME ~Bypassed
        PROVE  /\ Effect("mission") = sent.effects[task["mission"][2]]
               /\ Bound(task["mission"])
    BY <1>1, <2>1, <2>4, EffectInHand DEF Bypassed, ForwardsBound, Nodes
  <2> QED BY <2>1, <2>3, <2>4, EffectInHand DEF Bound, Nodes
<1>4. \A effect \in {proof'["mission"], diagnostic'["mission"]} :
        effect # NoProof => Attributable(effect)'
  <2>1. \A effect \in {proof'["mission"], diagnostic'["mission"]} :
          effect # NoProof => Attributable(effect)
    BY <1>1, <1>3, MissionBinds DEF BindEffect, BindDiagnostic, BindsAttributable, Tables, Nodes
  <2> QED BY <1>2, <2>1
<1>5. ASSUME pc'["mission"] = "diagnose"
      PROVE  Attributable(Effect("mission"))'
  <2>1. ToDiagnosis("mission")
    BY <1>1, <1>5, DiagnosesBound DEF Nodes
  <2>2. task'["mission"] = task["mission"]
    BY <2>1 DEF ToDiagnosis, BindEffect
  <2>3. Effect("mission")' = Effect("mission")
    BY <1>2, <2>2 DEF Effect
  <2>4. Attributable(Effect("mission"))
    BY <1>1, <1>3, <2>1 DEF ToDiagnosis, BindsAttributable
  <2> DEFINE effect == Effect("mission")
  <2>5. effect' = effect /\ Attributable(effect)
    BY <2>3, <2>4
  <2> HIDE DEF effect
  <2>6. PICK e : e = effect
    OBVIOUS
  <2>7. Attributable(e)' /\ effect' = e
    BY <1>2, <2>5, <2>6
  <2> QED BY <2>7 DEF effect, Attributable, Coherent
<1>6. context' # NoContext => context' \in Persisted("mission")'
  <2>1. context' = context \/ BindContext
    BY <1>1, Turns, TurnsOn DEF Turn, Unbinding, BindIntent
  <2>2. CASE BindContext
    <3>1. task["mission"] \in Persisted("mission")
      BY <2>2, InHand DEF BindContext, Takes, Working, Labels, Nodes
    <3> QED BY <1>1, <1>2, <2>2, <3>1 DEF BindContext, BindsAttributable
  <2> QED BY <1>1, <1>2, <2>1, <2>2 DEF BindsAttributable
<1>7. ASSUME ~Bypassed'
      PROVE  /\ proof'["mission"] \in {NoProof, proof'["field"]}
             /\ diagnostic'["mission"] \in {NoProof, diagnostic'["field"]}
  <2>1. ~Bypassed
    BY <1>2, <1>7 DEF Bypassed
  <2>2. CASE UNCHANGED <<proof["mission"], diagnostic["mission"]>>
    BY <1>1, <1>2, <2>1, <2>2 DEF BindsAttributable
  <2>3. CASE BindEffect("mission")
    BY <1>1, <1>2, <1>3, <2>1, <2>3 DEF BindsAttributable, BindEffect, Tables, Nodes
  <2>4. CASE BindDiagnostic("mission")
    <3>1. ~Effect("mission").verified
      BY <1>1, <2>4 DEF BindDiagnostic, InPlace, AtWork, Nodes
    <3> QED BY <1>1, <1>2, <1>3, <2>1, <2>4, <3>1
            DEF BindsAttributable, BindDiagnostic, Tables, Nodes
  <2> QED BY MissionBinds, <2>2, <2>3, <2>4
<1> QED BY <1>4, <1>5, <1>6, <1>7 DEF BindsAttributable

LEMMA DivergenceInHandKept ==
    ASSUME Inv, [Next]_vars
    PROVE  DivergenceInHand'
<1> DEFINE Forgets(n) == /\ pc'[n] \in {"forward", "complete"} /\ task'[n] \in EffectMessages
                         /\ proof'[n] # NoProof
                         /\ Effect(n)'.contract = "own" /\ Effect(n)' # proof'[n]
                         /\ task'[n] \notin disputed'[n]
<1> SUFFICES ASSUME NEW n \in Nodes, Forgets(n)
             PROVE  FALSE
  BY DEF DivergenceInHand
<1>1. Tables /\ Columns /\ InPlace /\ DivergenceInHand /\ sent' = sent
  BY InvParts, StepMoves DEF Moves, DecisionStays
<1>2. ASSUME Still(n), proof'[n] = proof[n], disputed'[n] = disputed[n]
      PROVE  FALSE
  BY <1>1, <1>2 DEF Still, DivergenceInHand, Effect
<1>3. CASE Idles /\ Unbinding
  BY <1>2, <1>3 DEF Idles, Unbinding
<1>4. ASSUME NEW k \in Nodes, Rests(k) \/ Begins(k), Unbinding
      PROVE  FALSE
  BY <1>2, <1>4 DEF Rests, Begins, OthersStill, Unbinding
<1>5. ASSUME NEW k \in Nodes \ {n}, EffectRefused(k) \/ BindEffect(k) \/ BindDiagnostic(k)
      PROVE  FALSE
  BY <1>1, <1>2, <1>5, TurnsOn DEF OthersStill
<1>6. CASE EffectRefused(n) \/ BindEffect(n) \/ BindDiagnostic(n)
  <2>1. task'[n] = task[n] /\ Effect(n)' = Effect(n)
    BY <1>1, <1>6, TurnsOn DEF Effect
  <2>2. ~Disputes(n)
    BY <1>1, <2>1 DEF Disputes, Columns
  <2>3. CASE EffectRefused(n)
    BY <2>1, <2>2, <2>3 DEF EffectRefused
  <2>4. CASE BindEffect(n)
    BY <1>1, <2>1, <2>2, <2>4 DEF BindEffect, Diverges, Goto, Tables
  <2>5. CASE BindDiagnostic(n)
    BY <1>1, <2>5 DEF BindDiagnostic, InPlace, AtWork
  <2> QED BY <1>6, <2>3, <2>4, <2>5
<1>7. CASE BindContext
  <2>1. task["mission"] \notin EffectMessages /\ task' = task
    BY <1>7 DEF BindContext, Takes, EffectMessages
  <2>2. n = "field"
    BY <2>1 DEF Nodes
  <2> QED BY <1>1, <1>2, <1>7, <2>2 DEF BindContext, Disputes, Goto, Tables, Columns, Still, Nodes
<1>8. CASE BindIntent
  <2>1. task["field"] \notin EffectMessages /\ task' = task
    BY <1>8 DEF BindIntent, Takes, EffectMessages
  <2>2. n = "mission"
    BY <2>1 DEF Nodes
  <2> QED BY <1>1, <1>2, <1>8, <2>2 DEF BindIntent, Goto, Tables, Columns, Still, Nodes
<1> QED BY <1>1, <1>3, <1>4, <1>5, <1>6, <1>7, <1>8, Turns DEF Turn

-----------------------------------------------------------------------------
(* Types, and the whole.                                                   *)

\* What TypeOK says besides of the bindings and of the handlers.
LEMMA TypeKept ==
    ASSUME Inv, [Next]_vars, Tables', Columns', InPlace', EvidenceInv'
    PROVE  TypeOK'
<1>1. /\ Tables /\ Columns /\ InPlace /\ EvidenceInv /\ Arrivals /\ Moves /\ TypeOK
      /\ sent' = sent /\ sent \in Scenarios
  BY InvParts, StepMoves DEF Moves, DecisionStays, EvidenceInv, ObservedIsSent, Inv, ChainInv
<1>2. /\ inbox' \in [Nodes -> [Messages -> InboxState]]
      /\ \A n \in Nodes : received_at'[n] \in [Messages -> 0..Cardinality(Messages)]
      /\ \A n \in Nodes : left'[n] \in 0..2 * Cardinality(Messages)
      /\ UNION {disputed'[n] : n \in Nodes} \subseteq Messages
  BY DEF Tables, Columns, Counts, Claimed
<1>3. root' = NoIntent \/ \E i \in DOMAIN sent'.intents : root' = sent'.intents[i]
  <2>1. CASE BindIntent
    <3>1. task["field"][2] \in DOMAIN sent.intents
      <4>1. task["field"] \in Persisted("field") /\ task["field"][1] = "intent"
        BY <2>1, InHand DEF BindIntent, Takes, Working, Labels, Nodes
      <4> QED BY <1>1, <4>1, FieldArrivals
    <3> QED BY <1>1, <2>1, <3>1 DEF BindIntent, Claims, TypeOK
  <2>2. CASE root' = root
    BY <1>1, <2>2 DEF TypeOK
  <2>3. root' = root \/ BindIntent
    BY ZenonT(30), Steps
       DEF Crash, Fails, Return, Start, CompleteInbox, EffectWaits, EffectRefused,
           BindEffect, BindDiagnostic, ClaimNext, Handle, TakeObservation, ForwardReport,
           ForwardEffect, TakeReport, BindContext, IntentKnown, IntentWaits, AdmitIntent,
           HoldIntent, Intake, RobotDecides, admission, vars
  <2> QED BY <2>1, <2>2, <2>3
<1>4. bundle' # NoBundle =>
         /\ bundle'.intent = root'
         /\ {bundle'.reference, bundle'.current} \subseteq
               {sent'.observations[x] : x \in DOMAIN sent'.observations}
  <2>1. CASE bundle' = bundle
    <3>1. bundle # NoBundle => root' = root
      BY <1>1, InvParts DEF BoundAsMeant, Moves, AdmissionStays
    <3> QED BY <1>1, <2>1, <3>1 DEF TypeOK
  <2>2. CASE AdmitIntent
    <3>1. bundle' = [intent |-> root, reference |-> Reference(root), current |-> Current(root)]
          /\ root' = root
      BY <2>2 DEF AdmitIntent, Intake
    <3>2. Observed \subseteq {sent.observations[x] : x \in DOMAIN sent.observations}
      BY <1>1, ObservedOfScenario DEF EvidenceInv
    <3>3. {Reference(root), Current(root)} \subseteq Observed
      BY <1>1, <2>2, <3>2, AdmissibleIsEvidence DEF AdmitIntent
    <3> QED BY <1>1, <3>1, <3>2, <3>3
  <2> QED BY <2>1, <2>2, BundleWritten
<1>5. \A h \in held' : h.cause \in {Intent(i) : i \in Intents} /\ h.action \in Holds
  <2>1. CASE held' = held
    BY <1>1, <2>1 DEF TypeOK
  <2>2. CASE HoldIntent
    <3>1. task["field"] \in {Intent(i) : i \in Intents}
      <4>1. pc["field"] = "intake"
        BY <2>2 DEF HoldIntent, Intake
      <4>2. task["field"] \in Messages /\ task["field"][1] = "intent"
        BY <1>1, <4>1, InHand DEF InPlace, AtWork, Working, Labels, Nodes
      <4> QED BY <4>2, Kinds
    <3> QED BY <1>1, <2>2, <3>1, ObjectionsHold DEF HoldIntent, TypeOK
  <2>3. held' = held \/ HoldIntent
    BY Steps DEF Crash, Fails, Return, Start, CompleteInbox, EffectWaits, EffectRefused,
                 BindEffect, BindDiagnostic, ClaimNext, Handle, TakeObservation, ForwardReport,
                 ForwardEffect, TakeReport, BindContext, BindIntent, IntentKnown, IntentWaits,
                 AdmitIntent, RobotDecides, admission, vars
  <2> QED BY <2>1, <2>2, <2>3
<1>6. outbox' \subseteq Messages
  <2>1. ASSUME NEW m \in outbox' \ outbox
        PROVE  m \in Messages
    <3>1. CASE m \in {FieldDecision, Context}
      BY <3>1 DEF Messages
    <3>2. CASE m = task["field"] /\ (pc["field"] = "forward" \/ Takes("field", Carried))
      BY <3>2, InHand DEF Takes, Working, Labels, Nodes
    <3> QED BY <3>1, <3>2, OutboxWritten DEF OutboxGrows
  <2> QED BY <1>1, <2>1 DEF TypeOK
<1>7. fresh' \subseteq Observations
  <2>1. ASSUME NEW n \in Nodes, NEW m \in Messages, Handle(n, m)
        PROVE  fresh' \subseteq Observations
    <3>1. sent.local \subseteq Observations
      BY <1>1, TwoButtonChainAssumption
    <3> QED BY <1>1, <2>1, <3>1 DEF Handle, TypeOK, Observation
  <2>2. fresh' \in {fresh, {}} \/ \E n \in Nodes, m \in Messages : Handle(n, m)
    BY Steps DEF Crash, Fails, Return, Start, Raise, CompleteInbox, EffectWaits, EffectRefused,
                 BindEffect, BindDiagnostic, ClaimNext, TakeObservation, ForwardReport,
                 ForwardEffect, TakeReport, BindContext, BindIntent, IntentKnown, IntentWaits,
                 AdmitIntent, HoldIntent, RobotDecides, vars
  <2> QED BY <1>1, <2>1, <2>2 DEF TypeOK
<1>8. {proof'[n] : n \in Nodes} \cup {diagnostic'[n] : n \in Nodes} \subseteq Proofs
  <2>1. ASSUME NEW n \in Nodes, BindEffect(n) \/ BindDiagnostic(n)
        PROVE  Effect(n) \in Proofs
    BY <2>1, BindsInHand, EffectInHand
  <2>2. \A n \in Nodes : proof[n] \in Proofs /\ diagnostic[n] \in Proofs
    BY <1>1 DEF TypeOK
  <2>3. CASE UNCHANGED <<proof, diagnostic>>
    BY <2>2, <2>3
  <2>4. ASSUME NEW n \in Nodes, BindEffect(n)
        PROVE  \A k \in Nodes : proof'[k] \in Proofs /\ diagnostic'[k] \in Proofs
    <3>1. proof' \in {proof, [proof EXCEPT ![n] = Effect(n)]} /\ diagnostic' = diagnostic
      BY <2>4 DEF BindEffect
    <3> QED BY <1>1, <2>1, <2>2, <2>4, <3>1 DEF Tables
  <2>5. ASSUME NEW n \in Nodes, BindDiagnostic(n)
        PROVE  \A k \in Nodes : proof'[k] \in Proofs /\ diagnostic'[k] \in Proofs
    <3>1. proof' = proof /\ diagnostic' \in {diagnostic, [diagnostic EXCEPT ![n] = Effect(n)]}
      BY <2>5 DEF BindDiagnostic
    <3> QED BY <1>1, <2>1, <2>2, <2>5, <3>1 DEF Tables
  <2>6. \A k \in Nodes : proof'[k] \in Proofs /\ diagnostic'[k] \in Proofs
    BY ProofsWritten, <2>3, <2>4, <2>5
  <2> QED BY <2>6
<1>9. context' \in {NoContext, Context, Substitute}
  <2>1. CASE BindContext
    <3>1. task["mission"] \in {Context, Substitute}
      BY <2>1, InHand, Kinds DEF BindContext, Takes, Working, Labels, Nodes
    <3> QED BY <1>1, <2>1, <3>1 DEF BindContext, TypeOK
  <2>2. context' = context \/ BindContext
    BY <1>1, Turns, TurnsOn DEF Turn, Unbinding, BindIntent
  <2> QED BY <1>1, <2>1, <2>2 DEF TypeOK
<1>10. decided' \in Decisions
  <2>1. decided' = decided \/ \E d \in Decisions : RobotDecides(d)
    BY Steps DEF Crash, Fails, Return, Start, CompleteInbox, EffectWaits, EffectRefused,
                 BindEffect, BindDiagnostic, ClaimNext, Handle, TakeObservation, ForwardReport,
                 ForwardEffect, TakeReport, BindContext, BindIntent, IntentKnown, IntentWaits,
                 AdmitIntent, HoldIntent, Intake, outside, vars
  <2> QED BY <1>1, <2>1 DEF RobotDecides, TypeOK
<1>11. pc' \in [Nodes -> Labels] /\ task' \in [Nodes -> Messages \cup {NoMessage}]
  <2>1. \A n \in Nodes : pc'[n] \in Labels
    <3>1. \A n \in Nodes : pc[n] \in Labels
      BY <1>1 DEF TypeOK
    <3>2. CASE Idles
      BY <3>1, <3>2 DEF Idles, Still
    <3>3. ASSUME NEW n \in Nodes, Rests(n) \/ Begins(n)
          PROVE  \A k \in Nodes : pc'[k] \in Labels
      BY <3>1, <3>3 DEF Rests, Begins, OthersStill, Still, Labels
    <3>4. ASSUME NEW n \in Nodes, EffectRefused(n) \/ BindEffect(n) \/ BindDiagnostic(n)
          PROVE  \A k \in Nodes : pc'[k] \in Labels
      BY <1>1, <3>1, <3>4, TurnsOn DEF OthersStill, Still, Labels
    <3>5. CASE BindContext \/ BindIntent
      BY <1>1, <3>1, <3>5 DEF BindContext, BindIntent, Goto, Tables, Labels, Nodes
    <3> QED BY <1>1, <3>2, <3>3, <3>4, <3>5, Turns DEF Turn
  <2>2. \A n \in Nodes : task'[n] \in Messages \cup {NoMessage}
    BY DEF InPlace, AtWork, Persisted
  <2> QED BY <2>1, <2>2 DEF Tables
<1>12. recovering' \subseteq Nodes
  <2>1. \/ recovering' \in SUBSET recovering
        \/ \E n \in Nodes : recovering' = recovering \cup {n}
    BY ZenonT(30), Steps
       DEF Crash, Fails, Return, Start, Raise, Leave, CompleteInbox, EffectWaits,
           EffectRefused, BindEffect, BindDiagnostic, ClaimNext, Handle, TakeObservation,
           ForwardReport, ForwardEffect, TakeReport, BindContext, BindIntent, IntentKnown,
           IntentWaits, AdmitIntent, HoldIntent, Finish, RobotDecides, call, vars
  <2> QED BY <1>1, <2>1 DEF TypeOK
<1>13. faults' \in 0..sent'.faults
  <2>1. faults' = faults \/ (faults < sent.faults /\ faults' = faults + 1)
    BY ZenonT(30), Steps
       DEF Crash, Fails, Return, Start, CompleteInbox, EffectWaits, EffectRefused,
           BindEffect, BindDiagnostic, ClaimNext, Handle, TakeObservation, ForwardReport,
           ForwardEffect, TakeReport, BindContext, BindIntent, IntentKnown, IntentWaits,
           AdmitIntent, HoldIntent, Intake, RobotDecides, vars
  <2>2. sent.faults \in Nat
    BY <1>1, TwoButtonChainAssumption
  <2> QED BY <1>1, <2>1, <2>2 DEF TypeOK
<1> QED BY <1>2, <1>3, <1>4, <1>5, <1>6, <1>7, <1>8, <1>9, <1>10, <1>11, <1>12, <1>13
        DEF TypeOK

LEMMA InvInit == Init => Inv
<1> SUFFICES ASSUME Init
             PROVE  Inv
  OBVIOUS
<1> USE DEF Init
<1>1. \A n \in Nodes : Persisted(n) = {}
  BY DEF Persisted
<1>2. 0 \in Counts /\ 0 \in Claimed
  BY MessagesFinite DEF Counts, Claimed
<1>3. Tables /\ Columns
  BY <1>2, TablesStart DEF Columns
<1>4. ObservedIsSent
  BY <1>1 DEF ObservedIsSent, Nodes
<1>5. TypeOK
  <2>1. sent.faults \in Nat
    BY TwoButtonChainAssumption
  <2>2. /\ inbox \in [Nodes -> [Messages -> InboxState]]
        /\ \A n \in Nodes : received_at[n] \in [Messages -> 0..Cardinality(Messages)]
        /\ \A n \in Nodes : left[n] \in 0..2 * Cardinality(Messages)
    BY <1>2, <1>3 DEF Tables, Counts, Claimed
  <2>3. {proof[n] : n \in Nodes} \cup {diagnostic[n] : n \in Nodes} \subseteq Proofs
    BY DEF Proofs
  <2>4. faults \in 0..sent.faults
    BY <2>1
  <2>5. pc \in [Nodes -> Labels] /\ task \in [Nodes -> Messages \cup {NoMessage}]
    BY DEF Labels
  <2> QED BY <2>2, <2>3, <2>4, <2>5 DEF TypeOK, Decisions
<1>6. InPlace /\ Arrivals
  BY <1>1 DEF InPlace, AtWork, Arrivals, Working, Labels
<1>7. BoundAsMeant /\ AdmittedOnEvidence
  BY DEF BoundAsMeant, AdmittedOnEvidence
<1>8. ForwardsBound /\ BindsAttributable /\ DivergenceInHand
  BY DEF ForwardsBound, BindsAttributable, DivergenceInHand, Nodes
<1> QED BY <1>3, <1>4, <1>5, <1>6, <1>7, <1>8 DEF Inv, ChainInv

LEMMA InvNext == Inv /\ [Next]_vars => Inv'
<1> SUFFICES ASSUME Inv, [Next]_vars
             PROVE  Inv'
  OBVIOUS
<1>1. Tables' /\ Columns' /\ InPlace' /\ EvidenceInv'
  BY InvParts, TablesKept, ColumnsKept, InPlaceKept, EvidenceInvKept
<1>2. TypeOK'
  BY <1>1, TypeKept
<1>3. Arrivals'
  BY InvParts, ArrivalsKept
<1>4. BoundAsMeant' /\ ForwardsBound' /\ BindsAttributable' /\ DivergenceInHand'
  BY BoundAsMeantKept, ForwardsBoundKept, BindsAttributableKept, DivergenceInHandKept
<1> QED BY <1>1, <1>2, <1>3, <1>4 DEF Inv, ChainInv, EvidenceInv

LEMMA Invariant == Spec => []Inv
<1>1. Inv /\ [Next]_vars => Inv'
  BY InvNext
<1> QED BY <1>1, InvInit, PTL DEF Spec

-----------------------------------------------------------------------------
(* What the chain promises.                                                *)

\* Of everything that arrives at Field and Mission in any order, and through their
\* crashes: a handler has a row of its kind in hand, what is forwarded was bound,
\* what Mission binds is attributable, and a divergent copy has its row.
THEOREM ChainInvariant == Spec => []ChainInv
<1>1. Inv => ChainInv
  BY DEF Inv
<1> QED BY <1>1, Invariant, PTL

\* The tables of Field and Mission stay within their types, and a call never has a
\* negative number of claims left, nor more than twice the rows there are.
THEOREM ChainTypeCorrect == Spec => []TypeOK
<1>1. Inv => TypeOK
  BY DEF Inv, ChainInv
<1> QED BY <1>1, Invariant, PTL

LEMMA InvShows == Inv => ShownIsFirstProof
<1> SUFFICES ASSUME Inv
             PROVE  ShownIsFirstProof
  OBVIOUS
<1>1. BindsAttributable /\ ProofInv /\ ForwardsBound /\ Arrivals
  BY InvParts
<1>2. \/ Shown = NoProof
      \/ Shown = proof["mission"] /\ Shown.verified
      \/ Shown = diagnostic["mission"] /\ ~Shown.verified
  BY <1>1 DEF Shown, ProofInv, Nodes
<1>3. Shown # NoProof => Attributable(Shown)
  BY <1>1, <1>2 DEF BindsAttributable
<1>4. Attributable(Shown) => /\ decided = "execute" /\ Coherent(Shown)
                             /\ Shown.device = BoundDevice /\ Shown.command = "own"
                             /\ context # NoContext
  BY DEF Attributable
<1>5. ~sent.substituted /\ context # NoContext => BoundDevice = Device
  <2>1. context \in {NoContext, Context, Substitute}
    BY DEF Inv, ChainInv, TypeOK
  <2>2. context # NoContext => Sendable("mission", context)
    BY <1>1 DEF BindsAttributable, Arrivals, Nodes
  <2>3. Sendable("mission", Substitute) => sent.substituted
    BY <1>1 DEF Sendable, ForwardsBound, Substitute
  <2> QED BY <2>1, <2>2, <2>3 DEF BoundDevice
<1>6. ASSUME Shown # NoProof, ~Shown.verified
      PROVE  Shown.contact = "null" /\ BusinessResult = "OUTCOME_UNKNOWN"
  <2>1. Shown.outcome = "UNKNOWN" /\ Shown.contact = "null" /\ Shown.goal = "null"
    BY <1>3, <1>4, <1>6 DEF Coherent
  <2> QED BY <1>6, <2>1 DEF BusinessResult
<1>7. ASSUME BusinessResult = "APPLIED"
      PROVE  Shown.contact = bundle.intent.target
  <2>1. Shown # NoProof /\ Shown.goal = "yes"
    BY <1>7 DEF BusinessResult
  <2> QED BY <1>3, <1>4, <2>1 DEF Coherent
<1>8. BusinessResult = "RECOGNIZED_ALREADY_EFFECTIVE" => decided = "recognize"
  BY DEF BusinessResult
<1>9. ~Bypassed => /\ proof["mission"] \in {NoProof, proof["field"]}
                  /\ diagnostic["mission"] \in {NoProof, diagnostic["field"]}
  BY <1>1 DEF BindsAttributable
<1>10. Shown # NoProof =>
          /\ decided = "execute"
          /\ Shown.verified => Shown = proof["mission"]
          /\ ~Shown.verified => Shown.contact = "null" /\ BusinessResult = "OUTCOME_UNKNOWN"
          /\ Shown.device = BoundDevice /\ Shown.command = "own"
          /\ ~sent.substituted => Shown.device = Device
  BY <1>2, <1>3, <1>4, <1>5, <1>6
<1> QED BY <1>7, <1>8, <1>9, <1>10 DEF ShownIsFirstProof

\* What Mission shows of an effect is the first proof, the Field's own unless it was
\* bypassed, and is true of the command that was executed: _process_m3a_effect and
\* m3a_view_state.
THEOREM FirstProofIsShown == Spec => []ShownIsFirstProof
BY InvShows, Invariant, PTL

\* What completes a row of an effect has it in hand.
LEMMA CompletesInHand ==
    ASSUME Inv, [Next]_vars, NEW n \in Nodes, NEW m \in EffectMessages,
           inbox[n][m] = "PROCESSING", inbox'[n][m] = "PROCESSED"
    PROVE  /\ pc[n] \in {"forward", "complete"} /\ m = task[n]
           /\ disputed' = disputed
<1> USE DEF bindings, rows
<1>0. Tables /\ InPlace /\ m \in Messages
  BY InvParts DEF Messages
<1>1. CASE UNCHANGED inbox
  BY <1>1
<1>2. ASSUME NEW k \in Nodes, Wait(k) \/ Start(k)
      PROVE  FALSE
  <2>1. /\ inbox[n] \in [Messages -> InboxState] /\ m \in Messages
        /\ k # n => inbox'[n] = inbox[n]
        /\ k = n => inbox'[n] \in {Fail(inbox[n], task[n]), RecoverInterrupted(inbox[n])}
    BY <1>0, <1>2 DEF Wait, Start, Tables
  <2>2. Fail(inbox[n], task[n])[m] \in {"PROCESSING", "FAILED"}
    BY <2>1 DEF Fail
  <2>3. RecoverInterrupted(inbox[n])[m] = "RECEIVED"
    BY <2>1 DEF RecoverInterrupted
  <2> QED BY <2>1, <2>2, <2>3
<1>3. ASSUME NEW k \in Nodes, NEW l \in Messages, ClaimNext(k, l) \/ Handle(k, l)
      PROVE  FALSE
  BY SMTT(30), <1>0, <1>3 DEF ClaimNext, Handle, Claim, Receive, Tables
<1>4. ASSUME NEW k \in Nodes, Finish(k)
      PROVE  k = n /\ m = task[n]
  BY <1>0, <1>4 DEF Finish, Complete, Tables
<1>5. ASSUME NEW k \in Nodes, CompleteInbox(k)
      PROVE  /\ pc[n] \in {"forward", "complete"} /\ m = task[n]
             /\ disputed' = disputed
  BY <1>4, <1>5 DEF CompleteInbox
<1>6. CASE ForwardEffect
  BY <1>4, <1>6 DEF ForwardEffect, Nodes
<1>7. ASSUME NEW k \in Nodes, Finish(k), task[k][1] \notin {"effect", "direct"}
      PROVE  FALSE
  BY <1>4, <1>7 DEF EffectMessages
<1>8. CASE TakeObservation \/ ForwardReport \/ TakeReport
  BY <1>7, <1>8 DEF TakeObservation, ForwardReport, TakeReport, Takes, Nodes
<1>9. CASE IntentKnown \/ IntentWaits \/ AdmitIntent \/ HoldIntent
  <2>1. task["field"][1] = "intent"
    BY <1>0, <1>9 DEF IntentKnown, IntentWaits, AdmitIntent, HoldIntent, Intake, InPlace, AtWork,
                      Nodes
  <2>2. Finish("field") \/ Wait("field") \/ UNCHANGED inbox
    BY <1>9 DEF IntentKnown, IntentWaits, AdmitIntent, HoldIntent
  <2> QED BY <1>1, <1>2, <1>7, <2>1, <2>2 DEF Nodes
<1>10. ASSUME NEW k \in Nodes, EffectWaits(k)
       PROVE  FALSE
  BY <1>2, <1>10 DEF EffectWaits
<1> QED
  BY Steps, <1>1, <1>2, <1>3, <1>5, <1>6, <1>8, <1>9, <1>10
  DEF Crash, Fails, Return, EffectRefused, BindEffect, BindDiagnostic, BindContext, BindIntent,
      RobotDecides, vars

\* A divergent copy of a proof is not lost without a trace: whatever the order in
\* which the copies come in, its conflict row is there when it is completed.
THEOREM DivergenceLeavesRow == Spec => DivergenceIsRecorded
<1>1. Inv /\ [Next]_vars =>
        [\A n \in Nodes : \A m \in EffectMessages :
            (/\ inbox[n][m] = "PROCESSING" /\ inbox'[n][m] = "PROCESSED"
             /\ proof[n] # NoProof
             /\ Contents(n, m).contract = "own" /\ Contents(n, m) # proof[n])
            => m \in disputed'[n]]_vars
  <2> SUFFICES ASSUME Inv, [Next]_vars, NEW n \in Nodes, NEW m \in EffectMessages,
                      inbox[n][m] = "PROCESSING", inbox'[n][m] = "PROCESSED",
                      proof[n] # NoProof,
                      Contents(n, m).contract = "own", Contents(n, m) # proof[n]
               PROVE  m \in disputed'[n]
    OBVIOUS
  <2>1. pc[n] \in {"forward", "complete"} /\ m = task[n] /\ disputed' = disputed
    BY CompletesInHand
  <2>2. Contents(n, m) = Effect(n)
    BY <2>1, EffectInHand DEF Working, Labels
  <2> QED BY <2>1, <2>2, InvParts DEF DivergenceInHand
<1> QED BY <1>1, Invariant, PTL DEF Spec, DivergenceIsRecorded
=============================================================================
