# Verification of the Deferred Teleoperation runtime

TLA+ models of the Python runtime in `src/python/src/deferred_teleop`, the TLC
runs that check them, and theorems proved with TLAPS.

Mission, Field and Robot are separate processes, each with its own SQLite
database. They exchange envelopes through a link with long delays that loses,
repeats and reorders frames. The central promise is that one operation causes at
most one physical impulse, and that what the Field and Mission report about it
is true, whatever crashes, restarts or arrives twice.

## 1. The system

| Component | State it keeps | Operations | Hard behaviour |
|---|---|---|---|
| **Node store** (`storage.py`) | inbox, outbox, execution journal, autonomy budget, denials, legacy classification, audit; a sidecar lock file | receive, claim, complete, fail, recover, enqueue, acknowledge; accept, admit, reserve, resolve, deny | every method is one `BEGIN IMMEDIATE` transaction, and handlers are several of them: a crash may fall between any two |
| **Robot execution** (`runtime.py`, `DummyRobotService`) | only the store; per call: the claimed message, `dispatch_recorded_now`, the adapter's answer | `recover`, `handle`, admission, reservation, press, observation, resolution, database dummy, terminal replay | crash around the press, redelivery, two processes on one database, a clock that steps back, another device or window after a restart, version 3 rows |
| **External effect adapter** (`external_effect.py`) | the device's own record of impulses | `press`, `observe` | raises before or after it acted; answers UNKNOWN |
| **Field** (`FieldService`) | its store | admit or hold an intent, forward Robot messages, add the reconciled snapshot | repeated intents, expiry in the inbox, two connections on one inbox, evidence of another operation |
| **Mission** (`MissionService`, `mission_view.py`) | its store, view counters | submit, confirm, select and project the view | messages in any order, contradicting terminal states, clock steps |
| **Endpoint loop** (`node.py`) | connections, tasks | `receive_frames`, `send_pending`, `_connect_forever`, node start | an exit in either task ends the other; acknowledged rows in a batch already read |
| **Development link** (`link.py`) | volatile queue, lanes, connections | submit with faults, delivery at a computed time, relay | full queue, death of the delivery task, expiry in flight |
| **M3a two-button services** (`runtime.py` mixins, `m3a_types.py`) | bindings of intent, context and effect, diagnostics, conflicts, decisions | observe, admit or hold an intent, bundle; bind a context, decide, dispatch, press, report; validate, bind, forward and show an effect | two transactions around the dispatch boundary, conflicting contexts, evidence in any order, divergent or unverified proofs |
| **M3a policy and fixture** (`two_button_policy.py`, `two_button_fixture.py`) | the device's journal of bindings and presses, hidden positions | local decision; bind, press, level, observe | bounds and ties of the decision, buttons moved or latched by others |
| **Protocol, schema** | none | validation | none |
| **Unreal client** (`src/unreal`) | view state, sequence numbers | parse, reconnect, draw | reconnection |

How they interact: Mission enqueues an `operation.intent`; the Field decides it
and enqueues, in the transaction that completes the intent, a snapshot, an
assignment and an `execution.contract`; the Robot executes the contract and
enqueues events and telemetry; the Field forwards these with new identifiers;
Mission's view is a pure function of its inbox and outbox. In the two-button
slice Mission's intent names an observation it was authored on; the Field admits
it on that and on a newer one and sends the Robot a spatial context with both;
the Robot decides locally, binds the command to the device, presses, and reports
decision, command, event and effect proof, which the Field validates before it
forwards them. All messages go
through `receive_frames`, which stores before it acknowledges and then calls
`handle()`.

What makes each correct:

- store: a message is completed once, what a crash interrupts can be claimed
  again, an acknowledged message is stored;
- Robot: one impulse per effect key, none without a durable reservation, none
  after a terminal state; verdicts that agree with the device; one contract per
  operation; every processed message answered; every durable one answered;
- Field: one decision per operation, one forward per report, evidence only of
  the operation itself;
- Mission: what is shown is true, and a shown ending stays;
- two-button slice: a press strikes what durable evidence showed, one decision
  per contract, the first verified proof of an effect is the one that is shown;
- delivery: what does not expire is acknowledged in the end.

## 2. The modules

| Module | Models | Kind |
|---|---|---|
| `NodeStore` | the inbox transactions, as operators | used by all below |
| `SingleShot` | what an operation's executor promises: commit, act once, one true account | abstract specification |
| `RobotExecution` | the whole Robot: `handle`, `recover`, admission, budget, dispatch, press, observe, resolve, dummy, replay; implements `SingleShot` | component |
| `Delivery` | one direction between two endpoints: outbox, retry, relay, inbox, acknowledgement, deaths of processes and connections | composition of endpoint loop, link and store |
| `FieldReconciliation` | the Field between a Mission and a Robot that is `SingleShot`, and what Mission's view selects | composition |
| `TwoButtonPolicy` | reference verification, `decide_two_button`, the derived command | pure operators |
| `TwoButtonRobot` | the M3a Robot with the spatial device: context, decision, device binding, dispatch, press, evidence; implements `SingleShot` | component |
| `TwoButtonChain` | the M3a Field and Mission around a Robot that reports what `TwoButtonRobot` lets it | composition |
| `RobotExecutionMC`, `DeliveryMC`, `FieldReconciliationMC`, `TwoButtonRobotMC`, `TwoButtonChainMC` | instances for TLC | |
| `RobotExecutionProofs` | lemmas and type correctness | proofs |
| `RobotPressProofs` | `PressInv`: one impulse, one contract | proofs |
| `RobotAccountProofs` | `AccountInv`: verdicts, budget, devices, reports, finality | proofs |
| `RobotRefinementProofs` | `RobotExecution` implements `SingleShot` | proofs |
| `DeliveryProofs` | `DeliveryInv`: acknowledgement, completion, capacity | proofs |
| `FieldProofs` | `FieldInv`: decision, forwarding, reconciliation, what Mission shows | proofs |
| `TwoButtonRobotProofs` | `AimInv`: press, aim, evidence, refusal; `TwoButtonRobot` implements `SingleShot` | proofs |
| `TwoButtonChainProofs` | `ChainInv`: admission on evidence, the first proof, divergence | proofs |

### NodeStore

The table `inbox` is a function from message identifiers to a processing state.
`Receive`, `Claim`, `NextInbox`, `Fail`, `Complete` and `RecoverInterrupted` are
the methods of the same purpose. `NextInbox` follows the `ORDER BY`: RECEIVED
before FAILED, then `received_at`; ties go either way, because the second key of
the code is a random identifier.

### RobotExecution

A step is at most one transaction or one adapter call, so `Crash` can fall
between any two. `pc[s]` says where process `s` is in
`handle()`/`recover()` and `_process_contract`; `task[s]` holds its locals.

| Code | Actions |
|---|---|
| `run_robot`, `recover` | `Start`, `ClaimNext`, `Return` |
| `receive_frames`, `handle`, the owner lock | `ReceiveFrame`, `AckFails`, `Handle`, `HandleBusy` |
| `process_claimed`, admission | `TakeAssignment`, `MissingAssignment`, `HoldUnsupported`, `HoldLegacy`, `Accept`, `Resume`, `DenyScope`, `RefuseAdmission` |
| `reserve_external_dispatch_with_budget`, `record_dispatch` | `Reserve`, `DenyBudget`, `RefuseRollback`, `RecordDispatch` |
| `_process_external_contract` | `RunExternal`, `RefuseClock`, `Press`, `PressRaises`, `Observe`, `ObserveRaises`, `Resolve`, `RefuseResolution` |
| database dummy | `RunDummy`, `CancelPhases`, `CommitDummyEffect` |
| terminal replay, completion | `ReplayTerminal`, `ReplayCollides`, `CompleteInbox` |
| environment | `Crash`, `Tick`, `StepBack` |

`journal`, `budget`, `denial`, `legacy` are the tables; an outbox row is its
identifier, a contract (or envelope, for a replay) and an event name, because
the identifiers are derived from those. Times are small numbers, 0 is NULL.
`impulses` is the device's own record. An exception that leaves `recover()` ends
the process; one that leaves `handle()` ends the connection: `Raise`.

`Init` includes the databases a version 3 process could have left, classified as
`_migration_4` does.

### Delivery

`outbox`, `inbox` are durable; `queue` is the relay's, at most `Capacity` frames.
`Submit` drops at capacity and may duplicate. `DeliveryTaskDies` is the
`ConnectionClosed` that ends `_delivery_loop`. `AttemptRaises` is
`record_attempt` on a row acknowledged since the batch was read. A pending row is
due at any time (the retry interval is abstracted), and the order of frames is
arbitrary (so are delays).

### FieldReconciliation

The Field's calls do not suspend between transactions; an acknowledgement does,
so the two connections (`waiting`) interleave there. `Finish` is
`complete_inbox`: the completion and all outgoing rows in one commit. A second
row of the same type and cause has another `copy`, which is how a repeated
handler would show. The Robot takes its steps from `SingleShot`, which
`RobotExecution` implements, and adds the messages that go with them in the order
the Robot's code emits them: telemetry before the dummy's effect, none from an
adapter, the terminal event with the terminal state. `ShownTerminal` and
`ShownRevision` are what `_select_mission_view` selects for an operation.

`received_at` is a host clock that may be stepped, so inbox rows may be claimed
in any order. `Expiring` also stands for intents that the Field's rules refuse
(selector, executor, capability, policy): they take the same branch. The
Robot's intermediate events and forecasts, and the grounded and plan messages,
influence no decision and are left out.

### TwoButtonPolicy

An observation is its identifier, source, frame and detections; a digest is
equality of content. `Decide` keeps the order of the checks of
`decide_two_button`: reference, context, level, uniqueness and visibility,
displacement. Positions are integers on a line, a tolerance is one of them.
It is exercised through the contexts of `TwoButtonRobotMC`, one for every branch.

### TwoButtonRobot

| Code | Actions |
|---|---|
| `bind_m3a_context` | `BindContext` |
| `_process_m3a_contract` up to the decision | `MissingDependency`, `Refuse`, `Replay`, `TakeDecision`, `LevelError` |
| `adapter.bind`, `admit_external_budget_contract` | `BindCommand`, `BindRaises`, `Admit` |
| `reserve_external_dispatch_with_budget`, `record_m3a_decision` | `Reserve`, `ReservationRefused`, `RecordDecision` |
| `_process_external_contract` with a context | `Run`, `Press`, `PressRaises`, `Resolve`, `ResolveUnverified` |
| environment | `Crash`, `Fails`, `WorldMoves`, `UnrelatedImpulse` |

`RecordHold` is `_m3a_record_hold`: the denial of an accepted row is one
transaction with its event and completion, any other hold is recorded first and
completed after. `binding` and `presses` are the device's journal, `Worlds` its
hidden positions. The command, the decision's identity and the budget's digest
are the command itself. `Correlation` belongs to the envelope of a context, not to
its content: it decides only whether a context of another operation is a candidate
(and then the reason of a hold). Rival contracts, a second process, the clock and
changed configurations are the subject of `RobotExecution`, which models the same store
methods with them; `ReservationRefused` stands for a window that has elapsed or
changed.

### TwoButtonChain

One operation. `root`, `proof`, `diagnostic`, `context` and `disputed` are the
binding and conflict tables; `bundle` and `held` are what the Field has enqueued.
The scenario `sent` fixes what the envelopes contain, and any message of it may
arrive at any time. `EffectWaits`, `EffectRefused`, `BindEffect` and
`BindDiagnostic` are the four ways an effect is taken at either node, with
`FieldVerdict` and `MissionVerdict` in the order of the code's checks. `Shown`
and `BusinessResult` are functions of Mission's tables, as in `m3a_view_state`.
Calls at the two nodes commute (they share only outbox rows that are durable
before they are read), so the model takes one call after the other. An insert and
its claim are one step: what a crash between them leaves, `recover` turns into
what it makes of a crash after the claim.

## 3. The runs

A run is complete: TLC exhausts the reachable states.

| Run | Question | Bounds |
|---|---|---|
| `RobotInterleaved` | two processes on one database, one contract in two envelopes | 2 faults, fixed clock |
| `RobotReconfigured` | version 3 rows; two devices or none and two windows after each restart; clock steps, redelivery | 2 faults, clock 1..3 |
| `RobotRivals` | two contracts on one operation, an unsupported third twice, with and without adapter | 1 fault, clock 1..2 |
| `RobotRestart` | liveness after a crash anywhere | 1 fault |
| `DeliverySafety` | two messages, one expiring | 2 copies, 2 faults |
| `DeliverySupervised` | liveness when a stopped link is restarted | 2 faults |
| `FieldReconciled` | two intents on one operation or on two | 1 fault |
| `TwoButtonRobot` | one contract; 14 kinds of context, alone, repeated or conflicting, and one of another operation; buttons moved, or one latched by others | 2 faults |
| `TwoButtonChain` | 9 admission, 6 effect and 8 bypass scenarios of one operation, and one with a hold before the admission | 1 fault, none where the scenario has its own |
| `RobotReplayCollision`, `DeliveryStalled`, `TwoButtonOrphanedDispatch` | disagreements, section 5 | |

The bounds. A fault is a crash, an exception of the adapter, a lost
acknowledgement, a cancelled handler or a clock step back. Two faults are the
first number at which one can hit the recovery from another; where the state
space of several contracts is large, one fault is allowed. Two envelopes of a
contract are the first number at which a redelivery meets every stage of the
first delivery. Three clock values let a window be open, end exactly at its
deadline, and be left. A capacity of two holds a frame and its duplicate, or a
frame and an acknowledgement. Two operations are enough for evidence of one to be
taken for another's; intents and operations are interchangeable in
`FieldReconciled`, so its symmetry is sound (it checks no liveness).

In `TwoButtonRobot` the tolerance is 1 and the target has moved by 0, 1 or 2, so
both sides of the bound are met; the world changes at most once, because the
properties compare what was observed with what is struck. In `TwoButtonChain` two
intents, two observations beside the first pair and two copies of a proof are
what it takes for one to differ from another; what the copies differ in is one
field each, the fields the checks of the code look at.

### Properties

Safety of the Robot: `AtMostOnePress`, `VerdictMatchesDevice`,
`NoPressAfterTerminal`, `TerminalImmutable`, `TerminalEventDurable`,
`EffectWhereDispatched` (an effect is on the device, or the dummy, that was
recorded with the dispatch), `DispatchWithinBudget` (dispatch and reservation are
one, within the window, and the lifecycle's times are ordered),
`OneContractPerOperation`, `ProcessedIsAnswered`, and `AccountInv`, the inductive
invariant (section 4). `ImplementsSingleShot` is the refinement: an operation's phase,
effects and account, read off the tables and the device, follow `SingleShot`.

Field and Mission: `OneDecisionPerOperation`, `ForwardedOnce`,
`ReconciledByEvidence`, `ShownTerminalIsTrue`, `ShownTerminalStable`,
`ShownRevisionGrows`.

Delivery: `AckedIsPersisted`, `CompletedOnce`, `DeliveryIsEventual`.

Two-button Robot: `PressIsDecided` (a press is the only one of its operation,
after its dispatch, of the command that decision, budget and device hold),
`AimIsJustified` (a command rests on evidence that shows one thing),
`MissedOnlyIfMoved`, `EvidenceMatchesDevice`, `RefusedStaysRefused`,
`AnsweredAfterRestart`, and the refinement of `SingleShot`, where only a contact
with the target is an effect.

Two-button chain: `AdmittedOnEvidence`, `OneAdmission`, `ShownIsFirstProof`,
`ProofIsFinal`, `DivergenceIsRecorded`, `ChainCompletes`. Of the device of a shown
effect, `ShownIsFirstProof` says what the code guarantees: it is the one of the
context that Mission bound first. That is the Field's device unless another
context may have reached Mission; with such a context, an effect of the device it
names is shown (the eighth bypass scenario).

Every property is one that some plausible error in the code breaks: the project
file names, for each, a changed definition under which TLC finds it violated.

### Fairness

- `RobotExecution`: a running process takes its next step (handlers are
  sequential code without unbounded waits), a dead one is started again, the
  clock advances. Nothing is assumed of frames, and faults are not fair.
  `AnsweredAfterRestart` and `DispatchResolvedAfterRestart` are stated from a
  process that is down, because only a restart calls `recover()`.
- `Delivery`: endpoints take their steps, reconnect (`_connect_forever` does) and
  are restarted. The link is fair-lossy, hence strong fairness of the sends that
  leave a copy in the queue and of the deliveries: frames that are sent over and
  over are not all dropped. `FairSpec` restarts a link that died;
  `SupervisedSpec` also one that stopped delivering. The code has no such
  supervisor: `DeliveryStalled` shows what happens without.
- `TwoButtonRobot`: a handler goes on and a dead process is started again.
  `AnsweredAfterRestart` leaves out contracts whose context cannot be used, for
  the reason in section 5.
- `TwoButtonChain`: something happens while anything but a fault can: handlers
  end, processes are restarted, the Robot decides and rows of an outbox arrive,
  which is what `Delivery` shows under supervision. Without a second envelope
  of the intent no step can be repeated for ever, so this is enough.
  `ChainCompletes` is stated for one intent and one proof from the Field, and excepts a row an exception left claimed in a process
  that was not restarted (`Orphaned`).

## 4. The theorems

Every safety property and every action property that a run checks is proved for
all values of the constants, and so are both refinements of `SingleShot`.

| Module | Theorem | States `Spec =>` |
|---|---|---|
| `RobotExecutionProofs` | `TypeCorrect` | `[]TypeOK` |
| `RobotPressProofs` | `PressInvariant` | `[]PressInv` |
| | `SinglePress` | `[]AtMostOnePress` |
| | `SingleContract` | `[]OneContractPerOperation` |
| `RobotAccountProofs` | `AccountInvariant` | `[]AccountInv` |
| | `VerdictIsTrue` | `[]VerdictMatchesDevice` |
| | `EffectIsDispatched` | `[]EffectWhereDispatched` |
| | `DispatchIsBudgeted` | `[]DispatchWithinBudget` |
| | `EndingIsReported` | `[]TerminalEventDurable` |
| | `AnswerIsDurable` | `[]ProcessedIsAnswered` |
| | `TerminalStays` | `TerminalImmutable` |
| | `NoLatePress` | `NoPressAfterTerminal` |
| `RobotRefinementProofs` | `SingleShotImplemented` | `ImplementsSingleShot` |
| `DeliveryProofs` | `DeliveryInvariant` | `[]DeliveryInv` |
| | `DeliveryTypeCorrect` | `[]TypeOK` |
| | `AckedIsDurable` | `[]AckedIsPersisted` |
| | `CommittedAtMostOnce` | `[]CompletedOnce` |
| | `LinkIsBounded` | `[]WithinCapacity` |
| `FieldProofs` | `FieldInvariant` | `[]FieldInv` |
| | `FieldTypeCorrect` | `[]TypeOK` |
| | `OneDecisionEver` | `[]OneDecisionPerOperation` |
| | `ForwardedOnceEver` | `[]ForwardedOnce` |
| | `SnapshotsAreBacked` | `[]ReconciledByEvidence` |
| | `ShownIsTrue` | `[]ShownTerminalIsTrue` |
| | `ShownStays` | `ShownTerminalStable` |
| | `RevisionGrows` | `ShownRevisionGrows` |
| `TwoButtonRobotProofs` | `AimInvariant` | `[]AimInv` |
| | `AimTypeCorrect` | `[]TypeOK` |
| | `PressesAreDecided` | `[]PressIsDecided` |
| | `AimsAreJustified` | `[]AimIsJustified` |
| | `MissesAreMoves` | `[]MissedOnlyIfMoved` |
| | `EvidenceIsTrue` | `[]EvidenceMatchesDevice` |
| | `RefusalIsFinal` | `RefusedStaysRefused` |
| | `TargetIsSingleShot` | `ImplementsSingleShot` |
| `TwoButtonChainProofs` | `ChainInvariant` | `[]ChainInv` |
| | `ChainTypeCorrect` | `[]TypeOK` |
| | `FirstAdmission` | `OneAdmission` |
| | `AdmissionRestsOnEvidence` | `[]AdmittedOnEvidence` |
| | `FirstProofIsShown` | `[]ShownIsFirstProof` |
| | `FirstProofIsFinal` | `ProofIsFinal` |
| | `DivergenceLeavesRow` | `DivergenceIsRecorded` |

Each component's inductive invariant stands at the end of its module, as a
conjunction of named parts. TLC checked every one of them on the instances of
section 3 before it was proved; `AccountInv` stays an invariant of `RobotRivals`.

### The Robot

The theorems hold for every value of the constants that satisfies
`RobotAssumption`: any number of processes, contracts, envelopes, operations,
devices, windows, rows of version 3, and any bounds on clock and faults.

`TypeOK` is not inductive: a process at `terminal` reads the journal row of its
task, so `WorkInHand` (a handler past admission works on an envelope; a replay
has a row) is added: `TypeInv`. `RobotExecutionProofs` proves it one action at a
time.

`AtMostOnePress` is not inductive either: nothing in it says that the process
about to press is the only one, or that no impulse has been given yet. The
argument, `PressInv`:

1. `OwnerWorks`: whoever is between claim and completion holds the lock, so no
   two processes are in a handler.
2. `RightToPress`: the local flag `fresh` (`dispatch_recorded_now`) is set only
   by the reservation, is gone at the next claim, and while it is set the
   operation is dispatched and not pressed.
3. `PressedIsDispatched`, `OpenIsUndispatched`, `AcceptedInHand`: an impulse
   implies a dispatch, an open row has none, and only an accepted contract is
   reserved; hence the reservation finds its operation unpressed.
4. `OneContractPerOperation`: a second contract on the effect key would carry
   its own reservation.

That an account is true needs more than that it is single. `AccountInv` adds:

1. `JournalShape`: a row never holds half of a transaction (`RowShape`), and
   budget, denial and legacy classification are those of a row that bears them
   out (`RowBacked`).
2. `ReportsAgree`: what the outbox reports of a contract is its row's ending; the
   one exception is a refusal that was reported without a row, which then never
   gets another.
3. `HandlersAgree`: what a handler believes of its row is so. In particular the
   process that is about to press, observe or resolve is configured with the
   device of the dispatch, and the answer it holds is still the device's: nobody
   else can press between its observation and its verdict, because it owns the
   lock.

The action properties follow from `AccountInv` before the step: a terminal row
is in the hands of handlers that only replay it, so no step touches it.

The refinement reads an operation's row (`RowOf`): there is at most one, by
`OneContractPerOperation`, so it is that of whichever contract acts. Each action
is then one of `SingleShot`'s or a stutter: a reservation or `RecordDispatch`
commits, a press or the dummy's commit acts, a resolution ends with one of the
accounts that `VerdictMatchesDevice` allows for the effects so far, and a refusal
refuses. The initial states include those of version 3, which `SingleShot`'s
`Init` allows for every operation.

### Delivery

For any messages, capacity and number of faults. `AckedIsPersisted` counts the
acknowledgements in flight and the message in hand, and so is inductive with
`InCall`, which says that a claimed message is claimed in the inbox and that a
receiver that is down is in no call. `CompletedOnce` follows from the stronger
`CommittedWithRow`, which counts completions by the rows.

`WithinCapacity` is about the sum of the copies of all frames (`Load`). What
a sum is for every set is an induction over data, and the library's induction
theorems are beyond the provers; the proof takes a least counterexample instead
(a nonempty set of subsets of a finite set has a minimal one: `WFMin` of
`WellFoundedInduction`, which has no operator parameter), and from there on works
with what one more copy, or one less, does to the sum.

### Field and Mission

For any intents, operations and faults, with and without the fixture's
compatibility. `FieldInv` says of every point at which the process can die:

1. `OriginsFirst`: nothing arrives, is reported or is taken by the Robot before
   what it follows from is in an outbox.
2. `RowsBacked`: every row of the Field's outbox belongs to a processed message
   and is the first copy; every processed report has its forward. This makes
   `ForwardedOnce` countable.
3. `OneDecision`: two rows that decide the same operation are the same row. It is
   preserved because the duplicate check looks at the same tables in the same
   transaction as the completion.
4. `ReconciledByInbox`: the evidence of a snapshot is in the inbox and of its
   operation.
5. `ReportsTrue`: phase, effects, account and reports of the Robot agree; this is
   where the promise of `SingleShot` is used.

What Mission shows is a choice among the rows it has confirmed. `ShownIsTrue`
follows because every candidate is true; `ShownStays` because two terminal rows
of one operation cannot contradict each other, so the choice has only one value.

### The two-button Robot

For any operations, contents, deliveries, surroundings and faults that satisfy
the assumptions of `TwoButtonRobot`. `ContentAssumption` is what the message
schema guarantees (positions are numbers, an observation has finitely many
detections and a real identifier). `WorldAssumption` is about the surroundings:
the two buttons are apart, intents are written in the device's frame, and an
observation that shows the target once shows it where it was. Without the last,
`MissedOnlyIfMoved` would be false: a press follows the evidence, and a false
observation makes it miss. Both are evaluated by TLC in `TwoButtonRobot`.

`AimInv`:

1. `Arrivals`: rows are numbered in the order of their arrival, so the context
   that is bound is the first, and what arrives later does not come before it.
2. `RowFits`: journal, budget, decision and device binding of an operation fit
   together; a recorded command was derived of the operation's own context
   (`Aimed`) and is the one that was bound and budgeted.
3. `CallInPlace`: a call is where the tables say it is; with a fresh reservation
   in hand the operation is not pressed.
4. `PressIsDecided`, `MissedOnlyIfMoved`, `EvidenceMatchesDevice`,
   `EvidenceIsVerdict`: what the device recorded, and what is said of it.

Every step of the Robot is summarised in one formula, `Told`: which part of an
operation's story it adds to, and that it leaves the rest as it was.
`RefusedStaysRefused` and the refinement both follow from `AimInv` and that
summary, without looking at the actions again.

### The two-button chain

The theorems hold for every set of scenarios that satisfies
`TwoButtonChainAssumption`: any intents, observations, proofs and faults. The
assumption includes that a nonempty set of a scenario's observations has a newest
one, which holds because they are finitely many, and that `NoIntent` and
`NoProof`, which stand for an absent row, are no contents.

The lemma under all theorems is `StepMoves`: no step takes a row from an inbox,
and what is bound (intent, bundle, context, proof) is written once (`Moves`).
`FirstAdmission` is a consequence. The others need more:

- `EvidenceInv`, for `AdmissionRestsOnEvidence`: the message a handler works on is
  persisted, and an observation in an inbox is one of the scenario, so the
  newest observation the bundle takes exists and is in the Field's hands.
- `ProofInv`, for `FirstProofIsFinal`: a bound proof is verified and a diagnostic
  is not, a handler on its way to the diagnostic table (`Diagnosing`) works on an
  unverified proof, and the Robot decides on a bundle. With `Moves`, an effect that
  is attributable stays so, hence what Mission shows is never withdrawn, and
  gives way only to the verified proof.
- `ChainInv`, for `FirstProofIsShown` and `DivergenceLeavesRow`: what has arrived
  could be sent (`Arrivals`); a handler works on a row that is there (`InPlace`);
  the Field forwards the effect it has bound and no context but its own
  (`ForwardsBound`), so without a bypass Mission can only bind the same; Mission
  binds only what is attributable (`BindsAttributable`); and a divergent copy has
  its conflict row before the handler reaches completion (`DivergenceInHand`),
  also when the copy was met again after a crash.

An earlier form of `ShownIsFirstProof` said that a shown effect is always that of
the Field's device. The proof stopped at Mission's check, which compares the
effect with the context Mission bound first and with nothing else; TLC confirmed
it with a context of another device. The property now says what the code
guarantees (section 3).

### What stays with TLC

The liveness properties: `AnsweredAfterRestart` and
`DispatchResolvedAfterRestart` of the Robot, `DeliveryIsEventual`,
`AnsweredAfterRestart` of the two-button Robot, and `ChainCompletes`. They rest
on fairness, which the prover cannot treat. `NodeStore`, `TwoButtonPolicy` and
`SingleShot` have no theorems of their own: what is needed of them is proved as
lemmas in the modules that use them.

## 5. Disagreements found

- `RobotReplayCollision`: a terminal replay enqueued just before a crash keeps
  every later recovery from finishing: the same identifier is built with other
  bytes (`runtime.py:2222`).
- `DeliveryStalled`: a frame for a connection that has just closed ends the
  relay's delivery task for good (`link.py:421`).
- `TwoButtonOrphanedDispatch`: the two-button Robot records the dispatch
  (`runtime.py:4705`) and the decision with its command (`runtime.py:4748`) in
  two transactions. After a crash between them the contract is decided anew, and
  a hold or a recognized effect may be recorded beside the dispatch, without the
  command that `storage.py:1132` promises for its replay. The press stays safe:
  without a reservation of its own the new call only observes.

Seen while modelling, without a run of their own:

- a contract that cannot succeed takes every retry of `recover()`
  (`runtime.py:831`) and of `handle()` (`runtime.py:817`);
- a row whose acknowledgement failed is not handled by its redelivery
  (`node.py:88`), only after a restart or with another message;
- a hold of an unusable context that a crash separated from its completion raises
  in every recovery (`runtime.py:4473`: refusals come before the replay);
- a second envelope held for the same reason raises in every recovery
  (`runtime.py:3365`: the hold's identifier is derived from its reason);
- an observation recorded before a restart of the Field and completed after it is
  not forwarded (`runtime.py:3556`); the model has this too, and `ChainCompletes`
  excepts it;
- `_m3a_effect_missing_dependency`, which is to give "a retry reason when Mission
  has not received chain facts yet" (`runtime.py:2618`), takes any decision of the
  operation for the one an effect waits for (`runtime.py:2676`). When an intent was
  first held at the Field, then repeated and admitted, the forwarded hold is such a
  decision: an effect that overtakes the Robot's decision is not retried but
  refused for good, and Mission never shows the executed press. The scenario
  `HeldAtFirst` of `TwoButtonChainMC` reaches this; the safety properties hold in
  it, and `ChainCompletes` is stated for one intent, where no hold precedes the
  bundle.

## 6. What is not modelled

- The audit table: appended to and never read by the services.
- SQLite itself, schema upgrades before version 4, `next_attempt_at` and the
  order of due rows.
- Timestamps as text (`storage.py:124`): times are numbers here.
- The choice of the newest intent, projected poses and WebSocket views of
  Mission; `dummy_fixture_compatibility` is a constant, FALSE in the run as in
  `run_field`.
- The link's arithmetic of delays, lanes and blackouts.
- Of M3a: level evidence on its way to Mission, the view's projected poses, a
  device answer of UNKNOWN with a matching digest (the spatial adapter never
  gives one), a torn line of the device's journal (`two_button_fixture.py:636`).
- Protocol validation, robot geometry, launchers, the Unreal client.

## 7. Plan

In this order:

1. Proofs: a refinement of the link by an abstract delivery (at most once, in any
   order) for `Delivery`; the two-button chain's Robot (`decided`, reports) shown
   to be what `TwoButtonRobot` lets it report, which is so far a matter of
   comparing two models.
2. `LinkSchedule`: `DeterministicLink.submit`: delivery times from delay,
   bandwidth lanes, blackouts and expiry; FIFO within a lane, nothing delivered
   in a blackout or after expiry; implements the arbitrary order of `Delivery`.
3. `MissionSelection`: `_select_mission_view` over bounded inboxes against the
   rules of `docs/m1/MISSION_OPERATION_SELECTION.md`, with `created_at`.
4. `TimestampText`: the order of text timestamps against the order of instants.
