--------------------------- MODULE TwoButtonRobot ---------------------------
(***************************************************************************)
(* The Robot endpoint of the two-button slice (_M3aRobotMixin over one     *)
(* NodeStore) with the simulated device: binding of a spatial context,     *)
(* local decision, device binding, budget, dispatch boundary, decision     *)
(* record, press, observation, verdict and effect evidence.                *)
(*                                                                         *)
(* One Robot process; a step is at most one SQLite transaction or one call *)
(* of the adapter.  Second processes, the clock and changes of             *)
(* configuration are the subject of RobotExecution.                        *)
(***************************************************************************)
EXTENDS TwoButtonPolicy, Sequences, NodeStore

CONSTANTS
    Operations,     \* an operation, its contract and its effect_key
    Contexts,       \* m3a.spatial.context messages
    Deliveries,     \* contents the contexts may have: functions of Contexts
    Correlation,    \* the operation a context's envelope is correlated with
    NoContext,
    NoMessage,
    NoObservation,  \* a context without an embedded reference
    Device,         \* the device_id of the configured adapter
    Worlds,         \* hidden button positions, the first the observed one
    Others,         \* buttons an unrelated impulse may latch at any time
    MaxFaults       \* bound of crashes, exceptions and unusable answers

Buttons == {"A", "B"}
DeviceFrame == "bench"
Contracts == {"contract"} \X Operations
Assignments == {"assignment"} \X Operations
ContextMessages == {"context"} \X Contexts
Messages == Contracts \cup Assignments \cup ContextMessages
NoCommand == [from |-> "none", frame |-> "none", pos |-> 0]

ASSUME TwoButtonAssumption ==
    /\ IsFiniteSet(Messages)
    /\ NoMessage \notin Messages
    /\ \A f \in Deliveries : \A x \in DOMAIN f : f[x] # NoContext
    /\ \A f \in Deliveries : DOMAIN f \subseteq Contexts
    /\ Contexts \subseteq DOMAIN Correlation
    /\ Worlds \in Seq([Buttons -> Nat]) /\ Worlds # <<>>
    /\ Others \subseteq Buttons
    /\ "unrelated" \notin Operations
    /\ MaxFaults \in Nat

\* The contents that may be sent, and the observations in one of them.
Given == UNION {{f[x] : x \in DOMAIN f} : f \in Deliveries}
ObservationsIn(content) == {content.current} \cup ({content.reference} \ {NoObservation})

\* What the message schema and the value types guarantee of a content.
ASSUME ContentAssumption ==
    \A content \in Given :
        /\ content.intent.max_displacement \in Nat
        /\ \A observation \in ObservationsIn(content) :
              /\ observation.id # "none"
              /\ IsFiniteSet(observation.detections)
              /\ \A d \in observation.detections : d.pos \in Nat

\* The surroundings: the two buttons are apart, intents are written in the
\* device's frame, and what an observation shows unmistakably is where it was.
ASSUME WorldAssumption ==
    /\ Worlds[1]["A"] # Worlds[1]["B"]
    /\ \A content \in Given :
          /\ content.intent.frame = DeviceFrame
          /\ \A d \in UniqueMatch(content.current, content.intent.target) :
                \A b \in Buttons :
                    b = content.intent.target => d.pos = Worlds[1][b]

VARIABLES
    inbox,        \* durable: processing_state of every message
    received_at,  \* durable: order of insertion
    bound,        \* durable: m3a_context_binding of a contract
    disputed,     \* durable: contracts with an m3a_context_conflict row
    journal,      \* durable: execution_journal
    budget,       \* durable: autonomy_budget with its command digest
    decision,     \* durable: m3a_decision
    outbox,       \* durable: execution events ever enqueued
    evidence,     \* durable: the effect evidence in the outbox
    binding,      \* device journal: command bound to an effect key
    presses,      \* device journal: every press, in order
    world,        \* which of Worlds the buttons are in
    sent,         \* the content of the contexts, fixed
    pc, mode, task, loops, faults

rows == <<inbox, received_at>>
contexts == <<bound, disputed>>
store == <<journal, budget, decision, outbox, evidence>>
device == <<binding, presses, world>>
call == <<mode, loops>>
vars == <<rows, contexts, store, device, sent, pc, call, task, faults>>
-----------------------------------------------------------------------------
Terminal == {"SUCCEEDED", "HELD"}
NoRow == [state |-> "NONE", dispatched |-> FALSE]
NoBudget == [command |-> NoCommand, reserved |-> FALSE, resolution |-> "none"]
NoDecision == [action |-> "none", command |-> NoCommand]
NoEvidence == [outcome |-> "none", verified |-> FALSE, contact |-> "null",
               executed |-> "null", goal |-> "null"]
NoTask == [msg |-> NoMessage, action |-> "none", command |-> NoCommand,
           fresh |-> FALSE]
Labels == {"down", "idle", "received", "loop", "process", "bind", "admit",
           "reserve", "decide", "running", "press", "resolve", "complete"}
Working == Labels \ {"down", "idle"}

Contents == {NoContext} \cup Given
IsCommand(c) == c = NoCommand \/ c.pos \in Nat

\* Every table and every local stays within its type; a call never has a
\* negative number of claims left.
TypeOK ==
    /\ inbox \in [Messages -> InboxState]
    /\ received_at \in [Messages -> 0..Cardinality(Messages)]
    /\ bound \in [Operations -> Contents]
    /\ disputed \subseteq Operations
    /\ journal \in [Operations ->
          [state : {"NONE", "ACCEPTED", "DISPATCH_RECORDED"} \cup Terminal,
           dispatched : BOOLEAN]]
    /\ \A o \in Operations :
          /\ IsCommand(budget[o].command) /\ budget[o].reserved \in BOOLEAN
          /\ decision[o].action \in {"none"} \cup Actions
          /\ IsCommand(decision[o].command) /\ IsCommand(binding[o])
    /\ outbox \subseteq Operations \X {"RUNNING", "SUCCEEDED", "HELD"}
    /\ presses \in Seq([key : Operations \cup {"unrelated"}, pos : Nat,
                        contact : Buttons \cup {"NONE"}])
    /\ world \in DOMAIN Worlds
    /\ pc \in Labels /\ mode \in {"handle", "recover"}
    /\ task.msg \in Messages \cup {NoMessage}
    /\ loops \in Nat /\ faults \in 0..MaxFaults

Init ==
    /\ inbox = [m \in Messages |-> "ABSENT"]
    /\ received_at = [m \in Messages |-> 0]
    /\ bound = [o \in Operations |-> NoContext]
    /\ disputed = {}
    /\ journal = [o \in Operations |-> NoRow]
    /\ budget = [o \in Operations |-> NoBudget]
    /\ decision = [o \in Operations |-> NoDecision]
    /\ outbox = {}
    /\ evidence = [o \in Operations |-> NoEvidence]
    /\ binding = [o \in Operations |-> NoCommand]
    /\ presses = <<>>
    /\ world = 1
    /\ sent \in Deliveries
    /\ pc = "down"
    /\ mode = "recover"
    /\ task = NoTask
    /\ loops = 0
    /\ faults = 0
-----------------------------------------------------------------------------
(* The frame of a call, as in RobotExecution.                              *)

Operation == task.msg[2]
Content(m) == sent[m[2]]
Goto(label) == pc' = label
Fault == faults < MaxFaults /\ faults' = faults + 1

NextClaim ==
    /\ Goto("loop")
    /\ task' = NoTask

\* An exception ends handle() and its connection, or recover() and the process.
Raise ==
    /\ Goto(IF mode = "recover" THEN "down" ELSE "idle")
    /\ task' = NoTask
    /\ loops' = 0

Start ==
    /\ pc = "down"
    /\ mode' = "recover"
    /\ inbox' = RecoverInterrupted(inbox)
    /\ loops' = 2 * Cardinality(Claimable(inbox'))
    /\ Goto("loop")
    /\ UNCHANGED <<received_at, contexts, store, device, sent, task, faults>>

\* receive_frames: durable before anything else happens with it.
ReceiveFrame(m) ==
    /\ pc = "idle"
    /\ inbox[m] = "ABSENT"
    /\ m \in ContextMessages => m[2] \in DOMAIN sent
    /\ inbox' = Receive(inbox, m)
    /\ received_at' = [received_at EXCEPT
          ![m] = Cardinality({n \in Messages : inbox[n] # "ABSENT"}) + 1]
    /\ task' = [NoTask EXCEPT !.msg = m]
    /\ Goto("received")
    /\ UNCHANGED <<contexts, store, device, sent, call, faults>>

Handle ==
    /\ pc = "received"
    /\ inbox' = Claim(inbox, task.msg)
    /\ mode' = "handle"
    /\ loops' = 1
    /\ Goto("process")
    /\ UNCHANGED <<received_at, contexts, store, device, sent, task, faults>>

MayAlwaysClaim == loops >= 0
MayClaim == loops > 0

ClaimNext(m) ==
    /\ pc = "loop"
    /\ MayClaim
    /\ m \in NextInbox(inbox, received_at)
    /\ inbox' = Claim(inbox, m)
    /\ loops' = loops - 1
    /\ task' = [NoTask EXCEPT !.msg = m]
    /\ Goto("process")
    /\ UNCHANGED <<received_at, contexts, store, device, sent, mode, faults>>

Return ==
    /\ pc = "loop"
    /\ ~MayClaim \/ Claimable(inbox) = {}
    /\ Goto("idle")
    /\ loops' = 0
    /\ UNCHANGED <<rows, contexts, store, device, sent, mode, task, faults>>

\* The process dies; the locals of the handler are gone.
Crash ==
    /\ pc # "down"
    /\ Fault
    /\ Goto("down")
    /\ task' = NoTask
    /\ loops' = 0
    /\ UNCHANGED <<rows, contexts, store, device, sent, mode>>

\* A transaction or a call of the handler raises something it does not catch:
\* the message stays PROCESSING.
Fails ==
    /\ pc \in Working \ {"received", "loop"}
    /\ Fault
    /\ Raise
    /\ UNCHANGED <<rows, contexts, store, device, sent, mode>>

CompleteInbox ==
    /\ pc = "complete"
    /\ inbox' = Complete(inbox, task.msg)
    /\ NextClaim
    /\ UNCHANGED <<received_at, contexts, store, device, sent, call, faults>>
-----------------------------------------------------------------------------
(* process_claimed: assignments and contexts.                              *)

TakeAssignment ==
    /\ pc = "process"
    /\ task.msg \in Assignments
    /\ inbox' = Complete(inbox, task.msg)
    /\ NextClaim
    /\ UNCHANGED <<received_at, contexts, store, device, sent, call, faults>>

\* bind_m3a_context: the first content is bound, a different one leaves a
\* conflict row.  Both transactions are repeated after a crash.
Differs(o, content) == bound[o] # NoContext /\ bound[o] # content

BindContext ==
    LET content == Content(task.msg) IN
    /\ pc = "process"
    /\ task.msg \in ContextMessages
    /\ IF content.contract \notin Operations
       THEN UNCHANGED contexts
       ELSE IF Differs(content.contract, content)
       THEN /\ disputed' = disputed \cup {content.contract}
            /\ UNCHANGED bound
       ELSE /\ bound' = [bound EXCEPT ![content.contract] = content]
            /\ UNCHANGED disputed
    /\ Goto("complete")
    /\ UNCHANGED <<rows, store, device, sent, call, task, faults>>
-----------------------------------------------------------------------------
(* The evidence a contract is decided on.                                  *)

Persisted == {m \in Messages : inbox[m] # "ABSENT"}

\* _m3a_context_candidates_for: the contexts of the contract or, when there is
\* none, those of the operation or of its correlation.
Candidates(o) ==
    LET persisted == Persisted \cap ContextMessages
        exact == {m \in persisted : Content(m).contract = o}
    IN  IF exact # {} THEN exact
        ELSE {m \in persisted : Content(m).operation = o \/ Correlation[m[2]] = o}

\* _m3a_context_for: the candidate that arrived first.
ContextFor(o) ==
    LET first == CHOOSE m \in Candidates(o) :
                    \A n \in Candidates(o) : received_at[m] <= received_at[n]
    IN  Content(first)

\* _m3a_context_has_conflict.
OnlyRecorded(o) == o \in disputed

Conflict(o) ==
    \/ \E m, n \in Candidates(o) : Content(m) # Content(n)
    \/ o \in disputed
    \/ bound[o] # NoContext /\ bound[o] # ContextFor(o)

Latched(b) == \E i \in DOMAIN presses : presses[i].contact = b

\* What the level sensor of the configured device says of the target.
Level(target) ==
    [target |-> target, device |-> Device, latched |-> Latched(target)]

Decided(o) == decision[o].action # "none"
Withheld(o) == decision[o].action \in Actions \ Executes
Commanded(o) == decision[o].command # NoCommand

\* The refusals that precede the policy, in their order; a recorded decision is
\* not called into question by a conflict that came after it.
Refusal(o) ==
    LET context == ContextFor(o) IN
    IF context.reference # NoObservation
       /\ ~(/\ Embeds(context.intent, context.reference)
            /\ WellFormed(context.reference)
            /\ WellFormed(context.current))
    THEN "HOLD_CONTEXT_MISMATCH"
    ELSE IF Conflict(o) /\ ~Decided(o) THEN "HOLD_CONTEXT_MISMATCH"
    ELSE IF context.operation # o \/ context.contract # o
    THEN "HOLD_CONTEXT_MISMATCH"
    ELSE IF context.reference = NoObservation THEN "HOLD_REFERENCE_MISMATCH"
    ELSE IF ~Decided(o) /\ context.intent.target \notin Buttons
    THEN "HOLD_CONTEXT_MISMATCH"
    ELSE "none"

Processing(o) ==
    /\ pc = "process"
    /\ task.msg = <<"contract", o>>

Ready(o) ==
    /\ Processing(o)
    /\ <<"assignment", o>> \in Persisted
    /\ Candidates(o) # {}

MissingDependency(o) ==
    /\ Processing(o)
    /\ ~Ready(o)
    /\ inbox' = Fail(inbox, task.msg)
    /\ NextClaim
    /\ UNCHANGED <<received_at, contexts, store, device, sent, call, faults>>

\* _m3a_record_hold.  An accepted row is denied: decision, end of the row,
\* event and completion in one transaction.  Otherwise the decision and its
\* event are one transaction and the completion another.
RecordHold(o, action) ==
    LET held == [action |-> action, command |-> NoCommand] IN
    IF Decided(o)
    THEN /\ Raise
         /\ UNCHANGED <<inbox, store>>
    ELSE /\ decision' = [decision EXCEPT ![o] = held]
         /\ outbox' = outbox \cup {<<o, "HELD">>}
         /\ IF journal[o].state = "ACCEPTED"
            THEN /\ journal' = [journal EXCEPT ![o].state = "HELD"]
                 /\ budget' = [budget EXCEPT ![o].resolution = "DENIED"]
                 /\ inbox' = Complete(inbox, task.msg)
                 /\ NextClaim
            ELSE /\ Goto("complete")
                 /\ UNCHANGED <<inbox, journal, budget, task>>
         /\ UNCHANGED <<evidence, loops>>

Refuse(o) ==
    /\ Ready(o)
    /\ Refusal(o) # "none"
    /\ RecordHold(o, Refusal(o))
    /\ UNCHANGED <<received_at, contexts, device, sent, mode, faults>>
-----------------------------------------------------------------------------
(* A decision that is recorded is replayed, never taken again.             *)

\* _m3a_assert_binding: budget and device hold the durable command.
Proven(o, command) == budget[o].command = command /\ binding[o] = command

Replay(o) ==
    /\ Ready(o)
    /\ Refusal(o) = "none"
    /\ Decided(o)
    /\ IF Commanded(o) /\ ~Proven(o, decision[o].command)
       THEN Raise
       ELSE /\ Goto(IF Commanded(o) /\ journal[o].state = "DISPATCH_RECORDED"
                    THEN "running" ELSE "complete")
            /\ task' = [task EXCEPT !.command = decision[o].command]
            /\ UNCHANGED loops
    /\ UNCHANGED <<rows, contexts, store, device, sent, mode, faults>>
-----------------------------------------------------------------------------
(* The decision, the device binding and the budget.                        *)

Deciding(o) ==
    /\ Ready(o)
    /\ Refusal(o) = "none"
    /\ ~Decided(o)

\* The level is read, the policy applied and an execute decision turned into a
\* command; any other decision is a hold.
TakeDecision(o) ==
    LET context == ContextFor(o)
        action == Decide(context.intent, context.reference, context.current,
                         Level(context.intent.target), context.device)
    IN  /\ Deciding(o)
        /\ IF action \in Executes
           THEN /\ task' = [task EXCEPT
                      !.action = action,
                      !.command = DeriveCommand(context.intent, context.reference,
                                                context.current, action)]
                /\ Goto("bind")
                /\ UNCHANGED <<inbox, store, loops>>
           ELSE RecordHold(o, action)
        /\ UNCHANGED <<received_at, contexts, device, sent, mode, faults>>

\* The level cannot be read: whatever the policy says, the contract is held.
LevelError(o) ==
    /\ Deciding(o)
    /\ Fault
    /\ RecordHold(o, "HOLD_CONTEXT_MISMATCH")
    /\ UNCHANGED <<received_at, contexts, device, sent, mode>>

\* bind_command: an effect key keeps the first command it was bound to.
Bindable(o, command) == binding[o] \in {NoCommand, command}

BindCommand ==
    /\ pc = "bind"
    /\ IF Bindable(Operation, task.command)
       THEN /\ binding' = [binding EXCEPT ![Operation] = task.command]
            /\ Goto("admit")
            /\ UNCHANGED <<inbox, store, task, loops>>
       ELSE /\ RecordHold(Operation, "HOLD_CONTEXT_MISMATCH")
            /\ UNCHANGED binding
    /\ UNCHANGED <<received_at, contexts, presses, world, sent, mode, faults>>

\* The adapter raises, with its record appended or not.
BindRaises ==
    /\ pc = "bind"
    /\ Fault
    /\ \/ binding' = [binding EXCEPT ![Operation] = task.command]
       \/ UNCHANGED binding
    /\ RecordHold(Operation, "HOLD_CONTEXT_MISMATCH")
    /\ UNCHANGED <<received_at, contexts, presses, world, sent, mode>>

\* admit_external_budget_contract: journal row and command-bound budget.  What
\* is known already goes on from where its journal stands.
Admit ==
    LET o == Operation IN
    /\ pc = "admit"
    /\ IF journal[o].state = "NONE"
       THEN /\ journal' = [journal EXCEPT ![o].state = "ACCEPTED"]
            /\ budget' = [budget EXCEPT ![o].command = task.command]
            /\ Goto("reserve")
            /\ UNCHANGED <<inbox, decision, outbox, evidence, task, loops>>
       ELSE IF budget[o].command = task.command
       THEN /\ Goto(IF journal[o].state = "ACCEPTED" THEN "reserve" ELSE "decide")
            /\ UNCHANGED <<inbox, store, task, loops>>
       ELSE RecordHold(o, "HOLD_CONTEXT_MISMATCH")
    /\ UNCHANGED <<received_at, contexts, device, sent, mode, faults>>

\* reserve_external_dispatch_with_budget: the dispatch boundary.
Reserve ==
    LET o == Operation IN
    /\ pc = "reserve"
    /\ journal' = [journal EXCEPT ![o] = [state |-> "DISPATCH_RECORDED",
                                          dispatched |-> TRUE]]
    /\ budget' = [budget EXCEPT ![o].reserved = TRUE]
    /\ task' = [task EXCEPT !.fresh = TRUE]
    /\ Goto("decide")
    /\ UNCHANGED <<rows, contexts, decision, outbox, evidence, device, sent,
                   call, faults>>

\* The window has elapsed since the acceptance, or the policy was changed.
ReservationRefused ==
    /\ pc = "reserve"
    /\ RecordHold(Operation, "HOLD_CONTEXT_MISMATCH")
    /\ UNCHANGED <<received_at, contexts, device, sent, mode, faults>>

\* record_m3a_decision: decision, level and command in one transaction, after
\* the dispatch; the binding is then proved again.
RecordDecision ==
    /\ pc = "decide"
    /\ decision' = [decision EXCEPT ![Operation] =
                       [action |-> task.action, command |-> task.command]]
    /\ IF Proven(Operation, task.command)
       THEN Goto("running") /\ UNCHANGED <<task, loops>>
       ELSE Raise
    /\ UNCHANGED <<rows, contexts, journal, budget, outbox, evidence, device,
                   sent, mode, faults>>
-----------------------------------------------------------------------------
(* _process_external_contract with a spatial context.                      *)

PressesAgain == TRUE
PressesNow == task.fresh

Run ==
    /\ pc = "running"
    /\ outbox' = outbox \cup {<<Operation, "RUNNING">>}
    /\ Goto(IF PressesNow THEN "press" ELSE "resolve")
    /\ UNCHANGED <<rows, contexts, journal, budget, decision, evidence, device,
                   sent, call, task, faults>>

\* _resolve_contact: the one button at the commanded point, in the device's own
\* frame, or nothing.
Contact(command) ==
    LET touched == {b \in Buttons : Worlds[world][b] = command.pos}
    IN  IF command.frame = DeviceFrame /\ Cardinality(touched) = 1
        THEN CHOOSE b \in touched : TRUE
        ELSE "NONE"

\* press: the device acts on the command it was bound to, not on an argument.
Impulse(o) ==
    presses' = Append(presses, [key |-> o, pos |-> binding[o].pos,
                                contact |-> Contact(binding[o])])

Press ==
    /\ pc = "press"
    /\ Impulse(Operation)
    /\ Goto("resolve")
    /\ UNCHANGED <<rows, contexts, store, binding, world, sent, call, task, faults>>

PressRaises ==
    /\ pc = "press"
    /\ Fault
    /\ Impulse(Operation) \/ UNCHANGED presses
    /\ Raise
    /\ UNCHANGED <<rows, contexts, store, binding, world, sent, mode>>

\* observe: the device's last record of the effect key.
AnyRecord(o) == DOMAIN presses
OwnRecords(o) == {i \in DOMAIN presses : presses[i].key = o}

Observed(o) ==
    IF OwnRecords(o) = {} THEN "null"
    ELSE presses[CHOOSE i \in OwnRecords(o) : \A j \in OwnRecords(o) : j <= i].contact

\* The verdict: only a contact with the target is a success, any other proof
\* leaves the goal unattained, and an answer whose command digest cannot be
\* matched proves nothing.
AnyContact(o, contact) == contact \in Buttons
Attains(o, contact) == contact = ContextFor(o).intent.target

Proof(o, contact) ==
    [outcome |-> IF Attains(o, contact) THEN "APPLIED" ELSE "NOT_APPLIED",
     verified |-> TRUE,
     contact |-> contact,
     executed |-> contact \in Buttons,
     goal |-> Attains(o, contact)]

Unverified == [NoEvidence EXCEPT !.outcome = "UNKNOWN"]

\* resolve_external_outcome: verdict, event, resolution and effect evidence in
\* one transaction.
ResolveAs(o, proof) ==
    LET verdict == IF proof.outcome = "APPLIED" THEN "SUCCEEDED" ELSE "HELD" IN
    /\ pc = "resolve"
    /\ journal' = [journal EXCEPT ![o].state = verdict]
    /\ budget' = [budget EXCEPT ![o].resolution = proof.outcome]
    /\ outbox' = outbox \cup {<<o, verdict>>}
    /\ evidence' = [evidence EXCEPT ![o] = proof]
    /\ Goto("complete")
    /\ UNCHANGED <<rows, contexts, decision, device, sent, call, task>>

Resolve ==
    /\ ResolveAs(Operation, Proof(Operation, Observed(Operation)))
    /\ UNCHANGED faults

ResolveUnverified ==
    /\ Fault
    /\ ResolveAs(Operation, Unverified)
-----------------------------------------------------------------------------
\* The surroundings interfere once: the hidden buttons are moved, whatever was
\* observed of them, or an impulse that is not the Robot's latches one.
Undisturbed ==
    /\ world = 1
    /\ \A i \in DOMAIN presses : presses[i].key # "unrelated"

WorldMoves(w) ==
    /\ Undisturbed
    /\ w # 1
    /\ world' = w
    /\ UNCHANGED <<rows, contexts, store, binding, presses, sent, pc, call, task,
                   faults>>

UnrelatedImpulse(b) ==
    /\ Undisturbed
    /\ presses' = Append(presses, [key |-> "unrelated", pos |-> Worlds[1][b],
                                   contact |-> b])
    /\ UNCHANGED <<rows, contexts, store, binding, world, sent, pc, call, task,
                   faults>>

Handler(o) ==
    \/ MissingDependency(o)
    \/ Refuse(o)
    \/ Replay(o)
    \/ TakeDecision(o)

Progress ==
    \/ Handle
    \/ \E m \in Messages : ClaimNext(m)
    \/ Return
    \/ TakeAssignment
    \/ BindContext
    \/ \E o \in Operations : Handler(o)
    \/ BindCommand
    \/ Admit
    \/ Reserve
    \/ RecordDecision
    \/ Run
    \/ Press
    \/ Resolve
    \/ CompleteInbox

Faulty ==
    \/ Crash
    \/ Fails
    \/ \E o \in Operations : LevelError(o)
    \/ BindRaises
    \/ PressRaises
    \/ ResolveUnverified

Next ==
    \/ Start
    \/ \E m \in Messages : ReceiveFrame(m)
    \/ Progress
    \/ ReservationRefused
    \/ Faulty
    \/ \E w \in DOMAIN Worlds : WorldMoves(w)
    \/ \E b \in Others : UnrelatedImpulse(b)

Spec == Init /\ [][Next]_vars

\* The handler is sequential code without unbounded waits, and a process that
\* is down is started again; frames, faults and the world owe nothing.
FairSpec == Spec /\ WF_vars(Progress) /\ WF_vars(Start)
-----------------------------------------------------------------------------
(* What the Robot promises.                                                *)

PressesOf(o) == {i \in DOMAIN presses : presses[i].key = o}

\* Nothing is pressed that was not decided: a press of an operation is the only
\* one, comes after its dispatch, and strikes the point of the command that the
\* decision, the budget and the device binding all hold.
PressIsDecided ==
    \A o \in Operations : \A i \in PressesOf(o) :
        /\ PressesOf(o) = {i}
        /\ journal[o].dispatched /\ budget[o].reserved
        /\ Commanded(o) /\ Proven(o, decision[o].command)
        /\ presses[i].pos = decision[o].command.pos

Justified(o, command) ==
    LET context == ContextFor(o)
        intent == context.intent
        shown == {d \in context.current.detections : intent.target \in d.candidates}
    IN  /\ context.reference = intent.digest
        /\ context.device = Device
        /\ context.current.source = context.reference.source
        /\ \A d \in shown : /\ d.candidates = {intent.target} /\ d.visible
                           /\ d.pos = command.pos
        /\ \E d \in shown : \E r \in context.reference.detections :
              /\ r.id = intent.detection /\ r.candidates = {intent.target}
              /\ d.pos - r.pos \in -intent.max_displacement..intent.max_displacement
        /\ command.frame = context.current.frame
        /\ context.current.frame = context.reference.frame

\* A command is derived only from evidence that shows one thing: the reference
\* is the one the intent was written on, and the target, visible and not to be
\* confused, is seen where the command strikes, no further away than the intent
\* allows, in the frame both were measured in, on the expected device.
AimIsJustified ==
    \A o \in Operations : Commanded(o) => Justified(o, decision[o].command)

\* A press misses its target only if the buttons were moved after they had been
\* observed: the slice does not look again before it presses.
MissedOnlyIfMoved ==
    \A o \in Operations : \A i \in PressesOf(o) :
        presses[i].contact = ContextFor(o).intent.target \/ world # 1

\* The evidence that leaves the Robot is the device's own record: contact, goal
\* and execution are those of the operation's press, or nothing is claimed.
\* It is in the outbox exactly when the dispatch has its verdict.
EvidenceMatchesDevice ==
    \A o \in Operations :
        /\ (evidence[o] # NoEvidence) <=>
              (journal[o].dispatched /\ journal[o].state \in Terminal)
        /\ evidence[o].verified =>
              LET contact == IF PressesOf(o) = {} THEN "null"
                             ELSE presses[CHOOSE i \in PressesOf(o) : TRUE].contact
              IN
              /\ evidence[o].contact = contact
              /\ evidence[o].executed <=> contact \in Buttons
              /\ evidence[o].goal <=> contact = ContextFor(o).intent.target
              /\ (journal[o].state = "SUCCEEDED") <=> evidence[o].goal
        /\ ~evidence[o].verified => evidence[o].contact = "null"

\* A refusal is final: no press, no dispatch, no other decision.  And two contexts
\* that differ, once both have arrived, refuse an operation that is not decided.
RefusedStaysRefused ==
    [][\A o \in Operations :
          /\ Withheld(o) => /\ decision'[o] = decision[o]
                            /\ PressesOf(o)' = PressesOf(o)
                            /\ journal'[o].dispatched => journal[o].dispatched
          /\ (/\ ~Decided(o)
              /\ \E m, n \in Candidates(o) : Content(m) # Content(n))
                => decision'[o].command = NoCommand]_vars

\* A contract whose decision can be taken, and which was durable with all it
\* depends on when the process went down, is answered after the restart.
AnsweredAfterRestart ==
    \A o \in Operations :
        (/\ pc = "down"
         /\ {<<"contract", o>>, <<"assignment", o>>} \subseteq Persisted
         /\ Candidates(o) # {} /\ Refusal(o) = "none")
        ~> inbox[<<"contract", o>>] = "PROCESSED"

\* "a crash cannot leave a durable dispatch without the command needed for exact
\* replay": a contract that is dispatched and decided has its command.
DispatchKeepsCommand ==
    \A o \in Operations : (journal[o].dispatched /\ Decided(o)) => Commanded(o)
-----------------------------------------------------------------------------
(* Refinement: pressing the target for an operation is a single shot.      *)

PhaseOf(o) ==
    IF ~journal[o].dispatched
    THEN IF Withheld(o) THEN "refused" ELSE "open"
    ELSE IF journal[o].state = "DISPATCH_RECORDED" THEN "committed" ELSE "ended"

AccountOf(o) ==
    CASE evidence[o].outcome = "APPLIED" -> "DONE"
      [] evidence[o].outcome = "NOT_APPLIED" -> "NOT_DONE"
      [] evidence[o].outcome = "UNKNOWN" -> "UNKNOWN"
      [] OTHER -> "none"

Abstract == INSTANCE SingleShot WITH
    phase <- [o \in Operations |-> PhaseOf(o)],
    effects <- [o \in Operations |->
        Cardinality({i \in PressesOf(o) :
                        presses[i].contact = ContextFor(o).intent.target})],
    account <- [o \in Operations |-> AccountOf(o)]

\* Through crashes, refusals, moved buttons and unusable answers an operation
\* touches its target at most once, under one authority, and what is reported of
\* it is true and final.
ImplementsSingleShot == Abstract!Spec
-----------------------------------------------------------------------------
(* Why these hold.                                                         *)

\* The rows that arrived are numbered in the order of their arrival.
Arrivals ==
    /\ sent \in Deliveries
    /\ \A m \in Persisted :
          /\ received_at[m] \in 1..Cardinality(Persisted)
          /\ m \in ContextMessages => m[2] \in DOMAIN sent
          /\ \A n \in Persisted : received_at[m] = received_at[n] => m = n

\* The contract has a context of its own, of which its command was derived; what
\* arrives later does not come before it.
Aimed(o, command) ==
    LET context == ContextFor(o)
        target == context.intent.target
    IN  /\ \E m \in Persisted \cap ContextMessages : Content(m).contract = o
        /\ context \in Given
        /\ target \in Buttons
        /\ command # NoCommand /\ command.pos \in Nat
        /\ command.frame = context.intent.frame
        /\ \E d \in UniqueMatch(context.current, target) : d.pos = command.pos
        /\ Justified(o, command)

\* A call on a contract is where the tables say it is: what was bound, budgeted
\* and dispatched is the command the call has decided on.
InPlace(o) ==
    /\ pc \in {"bind", "admit", "reserve", "decide"} =>
          /\ ~Decided(o) /\ Candidates(o) # {} /\ Refusal(o) = "none"
          /\ task.action \in Executes /\ Aimed(o, task.command)
    /\ pc \in {"admit", "reserve", "decide"} => binding[o] = task.command
    /\ pc \in {"reserve", "decide"} => budget[o].command = task.command
    /\ pc = "reserve" => journal[o].state = "ACCEPTED"
    /\ pc \in {"decide", "running", "press", "resolve"} =>
          journal[o].state = "DISPATCH_RECORDED"
    /\ pc \in {"running", "press", "resolve"} => Commanded(o)
    /\ pc \in {"decide", "running"} /\ task.fresh => PressesOf(o) = {}
    /\ pc = "press" => PressesOf(o) = {}

CallInPlace ==
    /\ IF pc \in {"down", "idle", "loop"} THEN task = NoTask ELSE task.msg \in Persisted
    /\ pc \in {"received", "process", "bind", "admit", "reserve"} => ~task.fresh
    /\ pc \in {"bind", "admit", "reserve", "decide", "running", "press", "resolve"} =>
          task.msg \in Contracts
    /\ \A o \in Operations : task.msg = <<"contract", o>> => InPlace(o)

\* Journal, budget, decision and device binding of an operation fit together.
RowFits(o) ==
    /\ journal[o].dispatched => budget[o].reserved
    /\ journal[o].state \in {"NONE", "ACCEPTED"} => ~journal[o].dispatched
    /\ journal[o].state = "DISPATCH_RECORDED" => journal[o].dispatched
    /\ journal[o].state \in Terminal =>
          IF journal[o].dispatched THEN Commanded(o) ELSE Withheld(o)
    /\ Commanded(o) <=> decision[o].action \in Executes
    /\ Commanded(o) => /\ journal[o].dispatched
                       /\ Proven(o, decision[o].command)
                       /\ Aimed(o, decision[o].command)

\* The evidence is one of a verdict.
EvidenceIsVerdict ==
    \A o \in Operations : evidence[o] # NoEvidence =>
        IF evidence[o].verified
        THEN evidence[o].outcome = IF evidence[o].goal THEN "APPLIED" ELSE "NOT_APPLIED"
        ELSE evidence[o].outcome = "UNKNOWN"

\* What is inductive of all that.
AimInv ==
    /\ TypeOK
    /\ Arrivals
    /\ CallInPlace
    /\ \A o \in Operations : RowFits(o)
    /\ PressIsDecided
    /\ MissedOnlyIfMoved
    /\ EvidenceMatchesDevice
    /\ EvidenceIsVerdict
=============================================================================
