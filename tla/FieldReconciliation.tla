------------------------ MODULE FieldReconciliation ------------------------
(***************************************************************************)
(* The Field between Mission and Robot: it admits or holds an operation,   *)
(* forwards what the Robot reports, and adds the snapshot that reconciles  *)
(* an operation that succeeded.  The Robot is SingleShot, which the module *)
(* RobotExecution implements, together with the messages it emits.  Mission *)
(* is its inbox and what the view selects from it.                         *)
(*                                                                         *)
(* Delivery is abstracted to what Delivery guarantees: a row that is in an *)
(* outbox arrives any number of times, at any time and in any order.       *)
(* received_at is a host clock that may be stepped, so the rows of the     *)
(* inbox may be claimed in any order.  grounded and plan messages, and the *)
(* Robot's other reports, are forwarded alike and select nothing.          *)
(***************************************************************************)
EXTENDS Naturals, FiniteSets, NodeStore

CONSTANTS
    Intents,       \* operation.intent envelopes
    Operations,
    Expiring,      \* intents with an expires_at, or otherwise refusable
    Fixture,       \* dummy_fixture_compatibility
    MaxFaults,     \* bound of crashes, also the Robot's, and lost acknowledgements
    NoMessage,
    NoOperation

Links == {"mission", "robot"}
Intent(i) == <<"intent", i, 0>>
RobotMessages ==
    {"state", "SUCCEEDED", "HELD"} \X Intents \X {0}
        \cup {"SUCCEEDED", "HELD"} \X Intents \X {1}   \* replays
Messages == {Intent(i) : i \in Intents} \cup RobotMessages
OriginOf(m) == IF m[1] = "intent" THEN "mission" ELSE "robot"

ASSUME FieldAssumption ==
    /\ IsFiniteSet(Intents)
    /\ Expiring \subseteq Intents
    /\ Fixture \in BOOLEAN
    /\ MaxFaults \in Nat
    /\ NoMessage \notin Messages
    /\ NoOperation \notin Operations

VARIABLES
    submitted,   \* Mission's outbox: the operation of every intent
    confirmed,   \* Mission's inbox: rows of the Field's outbox
    expired,     \* intents whose expires_at has passed, or that are refused
    inbox,       \* the Field's inbox: processing_state of every row
    outbox,      \* the Field's outbox
    up,          \* the Field process runs
    waiting,     \* per connection: the message being acknowledged
    working,     \* the message handle() or recover() has claimed
    left,        \* claims the current call may still make
    calling,     \* a call of handle() or recover() is in progress
    adapter,     \* the Robot has an external adapter
    taken,       \* contracts the Robot has received
    reports,     \* the Robot's outbox
    phase, effects, account,   \* the Robot as SingleShot
    faults

robot == <<adapter, taken, reports, phase, effects, account>>
mission == <<submitted, confirmed, expired>>
call == <<working, left, calling>>
vars == <<mission, inbox, outbox, up, waiting, call, robot, faults>>

Robot == INSTANCE SingleShot

\* A message is about the contract its intent leads to, and carries the
\* operation of that intent as its correlation.
Operation(m) == submitted[m[2]]

RowTypes == {"snapshot", "contract", "held contract", "held", "forward",
             "reconciled"}
OutboxRows == [type : RowTypes, cause : Messages,
               evidence : RobotMessages \cup {NoMessage}, copy : Nat]

\* Every table and place is of its type, and a call never claims more rows than
\* it may.
TypeOK ==
    /\ submitted \in [Intents -> Operations \cup {NoOperation}]
    /\ confirmed \subseteq outbox
    /\ expired \subseteq Expiring
    /\ inbox \in [Messages -> InboxState]
    /\ \A r \in outbox : r \in OutboxRows
    /\ up \in BOOLEAN /\ calling \in BOOLEAN /\ adapter \in BOOLEAN
    /\ waiting \in [Links -> Messages \cup {NoMessage}]
    /\ working \in Messages \cup {NoMessage}
    /\ left \in 0..2 * Cardinality(Messages)
    /\ taken \subseteq Intents
    /\ reports \subseteq RobotMessages
    /\ phase \in [Operations -> {"open", "committed", "refused", "ended"}]
    /\ effects \in [Operations -> Nat]
    /\ account \in [Operations -> {"none", "DONE", "NOT_DONE", "UNKNOWN"}]
    /\ faults \in 0..MaxFaults

Init ==
    /\ submitted = [i \in Intents |-> NoOperation]
    /\ confirmed = {}
    /\ expired = {}
    /\ inbox = [m \in Messages |-> "ABSENT"]
    /\ outbox = {}
    /\ up = TRUE
    /\ waiting = [l \in Links |-> NoMessage]
    /\ working = NoMessage
    /\ left = 0
    /\ calling = FALSE
    /\ adapter \in BOOLEAN
    /\ taken = {}
    /\ reports = {}
    /\ phase = [o \in Operations |-> "open"]
    /\ effects = [o \in Operations |-> 0]
    /\ account = [o \in Operations |-> "none"]
    /\ faults = 0

Fault == faults < MaxFaults /\ faults' = faults + 1
-----------------------------------------------------------------------------
(* Mission.                                                                *)

Submit(i, o) ==
    /\ submitted[i] = NoOperation
    /\ submitted' = [submitted EXCEPT ![i] = o]
    /\ UNCHANGED <<confirmed, expired, inbox, outbox, up, waiting, call, robot,
                   faults>>

Expire(i) ==
    /\ i \in Expiring \ expired
    /\ expired' = expired \cup {i}
    /\ UNCHANGED <<submitted, confirmed, inbox, outbox, up, waiting, call, robot,
                   faults>>

\* The rows _select_mission_view looks at; the others are stored and no more.
Selectable(r) ==
    \/ r.type \in {"held", "snapshot", "reconciled"}
    \/ r.type = "forward" /\ r.cause[1] \in {"SUCCEEDED", "HELD"}

\* Mission stores what arrives; its views read the inbox, handled or not.
Confirm(r) ==
    /\ r \in outbox \ confirmed
    /\ Selectable(r)
    /\ confirmed' = confirmed \cup {r}
    /\ UNCHANGED <<submitted, expired, inbox, outbox, up, waiting, call, robot,
                   faults>>

TerminalOf(r) == IF r.type = "held" THEN "HELD" ELSE r.cause[1]

\* The terminal states Mission has for the correlation of an operation.
TerminalsOfAnyone(o) ==
    {TerminalOf(r) : r \in {s \in confirmed : s.type \in {"held", "forward"}}}
Terminals(o) ==
    {TerminalOf(r) : r \in {s \in confirmed : /\ s.type \in {"held", "forward"}
                                              /\ Operation(s.cause) = o}}

\* Contradicting terminal states select none.
ShownTerminal(o) ==
    IF Cardinality(Terminals(o)) = 1
    THEN CHOOSE t \in Terminals(o) : TRUE ELSE "none"

Snapshots(o) == {r \in confirmed : /\ r.type \in {"snapshot", "reconciled"}
                                   /\ Operation(r.cause) = o}
Revision(r) == IF r.type = "reconciled" THEN 2 ELSE 1

\* The greatest world_revision is shown, 0 before there is one.
LeastRevision(o) ==
    IF Snapshots(o) = {} THEN 0
    ELSE IF \E r \in Snapshots(o) : Revision(r) = 1 THEN 1 ELSE 2
ShownRevision(o) ==
    IF Snapshots(o) = {} THEN 0
    ELSE IF \E r \in Snapshots(o) : Revision(r) = 2 THEN 2 ELSE 1
-----------------------------------------------------------------------------
(* The Field's connections and the frame of a call.  A call does not       *)
(* suspend between its transactions, so it is overtaken by nothing but the *)
(* death of the process; an acknowledgement is awaited, and the other      *)
(* connection goes on meanwhile.                                           *)

Idle == up /\ ~calling

Arrived(m) == IF m[1] = "intent" THEN Operation(m) # NoOperation ELSE m \in reports

ReceiveFrame(m) ==
    /\ Idle
    /\ Arrived(m)
    /\ waiting[OriginOf(m)] = NoMessage
    /\ inbox[m] = "ABSENT"
    /\ inbox' = Receive(inbox, m)
    /\ waiting' = [waiting EXCEPT ![OriginOf(m)] = m]
    /\ UNCHANGED <<mission, outbox, up, call, robot, faults>>

AckFails(l) ==
    /\ Idle
    /\ waiting[l] # NoMessage
    /\ Fault
    /\ waiting' = [waiting EXCEPT ![l] = NoMessage]
    /\ UNCHANGED <<mission, inbox, outbox, up, call, robot>>

\* handle(): a message that the other connection's call has already claimed as
\* its second one is left alone.
Handle(l) ==
    /\ Idle
    /\ waiting[l] # NoMessage
    /\ waiting' = [waiting EXCEPT ![l] = NoMessage]
    /\ IF waiting[l] \in Claimable(inbox)
       THEN /\ inbox' = Claim(inbox, waiting[l])
            /\ working' = waiting[l]
            /\ left' = 1
            /\ calling' = TRUE
       ELSE UNCHANGED <<inbox, call>>
    /\ UNCHANGED <<mission, outbox, up, robot, faults>>

MayAlwaysClaim == TRUE
MayClaim == left > 0

ClaimNext(m) ==
    /\ up /\ calling
    /\ working = NoMessage
    /\ MayClaim
    /\ m \in Claimable(inbox)
    /\ inbox' = Claim(inbox, m)
    /\ working' = m
    /\ left' = left - 1
    /\ UNCHANGED <<mission, outbox, up, waiting, calling, robot, faults>>

Return ==
    /\ up /\ calling
    /\ working = NoMessage
    /\ ~MayClaim \/ Claimable(inbox) = {}
    /\ left' = 0
    /\ calling' = FALSE
    /\ UNCHANGED <<mission, inbox, outbox, up, waiting, working, robot, faults>>

Crash ==
    /\ up
    /\ Fault
    /\ up' = FALSE
    /\ waiting' = [l \in Links |-> NoMessage]
    /\ working' = NoMessage
    /\ left' = 0
    /\ calling' = FALSE
    /\ UNCHANGED <<mission, inbox, outbox, robot>>

\* run_field: recover() before the first connection.
Restart ==
    /\ ~up
    /\ up' = TRUE
    /\ inbox' = RecoverInterrupted(inbox)
    /\ left' = 2 * Cardinality(Claimable(inbox'))
    /\ calling' = TRUE
    /\ UNCHANGED <<mission, outbox, waiting, working, robot, faults>>
-----------------------------------------------------------------------------
(* process_claimed.                                                        *)

\* A row of the outbox; its identifier is fresh, so a second one is another.
NewRow(type, m, evidence) ==
    [type |-> type, cause |-> m, evidence |-> evidence,
     copy |-> Cardinality({r \in outbox : r.type = type /\ r.cause = m})]

\* complete_inbox: the handler's consequences and its completion are one commit.
Finish(rows) ==
    /\ inbox' = Complete(inbox, working)
    /\ outbox' = outbox \cup rows
    /\ working' = NoMessage
    /\ UNCHANGED <<mission, up, waiting, left, calling, robot, faults>>

\* The contract an operation has, also one that was held at the Field.
NoPriorContracts(o) == {}
ContractsForRobot(o) ==
    {r \in outbox : r.type = "contract" /\ Operation(r.cause) = o}
PriorContracts(o) ==
    {r \in outbox : /\ r.type \in {"contract", "held contract"}
                    /\ Operation(r.cause) = o}

\* hold_reason: expired, or refused by the Field's own rules, which comes to
\* the same as an intent that has expired before it arrives.
HoldsIntent(i) == i \in expired

HandlesIntent ==
    /\ up
    /\ working # NoMessage
    /\ working[1] = "intent"

DuplicateOperation ==
    /\ HandlesIntent
    /\ PriorContracts(Operation(working)) # {}
    /\ Finish({})

HoldOperation ==
    /\ HandlesIntent
    /\ PriorContracts(Operation(working)) = {}
    /\ HoldsIntent(working[2])
    /\ Finish({NewRow("held contract", working, NoMessage),
               NewRow("held", working, NoMessage)})

AdmitOperation ==
    /\ HandlesIntent
    /\ PriorContracts(Operation(working)) = {}
    /\ ~HoldsIntent(working[2])
    /\ Finish({NewRow("snapshot", working, NoMessage),
               NewRow("contract", working, NoMessage)})

\* The RobotState rows of the same correlation, handled or not.
EvidenceOfAnyone(o) ==
    {m \in RobotMessages : m[1] = "state" /\ inbox[m] # "ABSENT"}
EvidenceFor(o) ==
    {m \in RobotMessages : /\ m[1] = "state"
                           /\ Operation(m) = o
                           /\ inbox[m] # "ABSENT"}

\* Measured evidence, or the fixture's own state where that is allowed.
Reconciling(o) ==
    IF EvidenceFor(o) # {} THEN EvidenceFor(o)
    ELSE IF Fixture THEN {NoMessage} ELSE {}

ForwardRobotMessage ==
    /\ up
    /\ working \in RobotMessages
    /\ LET forwarded == NewRow("forward", working, NoMessage)
           evidence == Reconciling(Operation(working))
       IN  IF working[1] = "SUCCEEDED" /\ evidence # {}
           THEN \E e \in evidence :
                   Finish({forwarded, NewRow("reconciled", working, e)})
           ELSE Finish({forwarded})
-----------------------------------------------------------------------------
(* The Robot: SingleShot and the messages that go with its steps.          *)

field == <<mission, inbox, outbox, up, waiting, call, faults>>

\* A second contract of an operation is denied.
TakeContract(r) ==
    LET i == r.cause[2]
        rivals == {j \in taken : submitted[j] = submitted[i]}
    IN  /\ r \in outbox
        /\ r.type = "contract"
        /\ i \notin taken
        /\ taken' = taken \cup {i}
        /\ reports' = IF rivals = {} THEN reports
                      ELSE reports \cup {<<"HELD", i, 0>>}
        /\ UNCHANGED <<field, adapter, phase, effects, account>>

\* A contract that was denied has its report already.
InService(i) == i \in taken /\ <<"HELD", i, 0>> \notin reports

Report(i, kind) == reports' = reports \cup {<<kind, i, 0>>}

RobotCommits(i) ==
    /\ InService(i)
    /\ Robot!Commit(submitted[i])
    /\ UNCHANGED <<field, adapter, taken, reports>>

RobotRefuses(i) ==
    /\ InService(i)
    /\ adapter
    /\ Robot!Refuse(submitted[i])
    /\ Report(i, "HELD")
    /\ UNCHANGED <<field, adapter, taken>>

RobotActs(i) ==
    /\ InService(i)
    /\ adapter
    /\ Robot!Act(submitted[i])
    /\ UNCHANGED <<field, adapter, taken, reports>>

RobotEnds(i) ==
    LET o == submitted[i] IN
    /\ InService(i)
    /\ adapter
    /\ Robot!End(o)
    /\ Report(i, IF account'[o] = "DONE" THEN "SUCCEEDED" ELSE "HELD")
    /\ UNCHANGED <<field, adapter, taken>>

\* The dummy emits telemetry before its effect; an adapter emits none.
RobotTelemetry(i) ==
    /\ InService(i)
    /\ ~adapter
    /\ phase[submitted[i]] = "committed"
    /\ <<"state", i, 0>> \notin reports
    /\ Report(i, "state")
    /\ UNCHANGED <<field, adapter, taken, phase, effects, account>>

DummyEnds(i) ==
    /\ InService(i)
    /\ ~adapter
    /\ <<"state", i, 0>> \in reports
    /\ Robot!ActAndEnd(submitted[i])
    /\ Report(i, "SUCCEEDED")
    /\ UNCHANGED <<field, adapter, taken>>

\* The Robot died between the terminal commit and the completion of its inbox:
\* the result is sent again under another identifier.
RobotReplays(i, kind) ==
    /\ <<kind, i, 0>> \in reports
    /\ <<kind, i, 1>> \notin reports
    /\ Fault
    /\ reports' = reports \cup {<<kind, i, 1>>}
    /\ UNCHANGED <<mission, inbox, outbox, up, waiting, call, adapter, taken,
                   phase, effects, account>>
-----------------------------------------------------------------------------
FieldStep ==
    \/ \E l \in Links : Handle(l)
    \/ \E m \in Messages : ClaimNext(m)
    \/ Return
    \/ DuplicateOperation \/ HoldOperation \/ AdmitOperation
    \/ ForwardRobotMessage

RobotStep ==
    \/ \E r \in outbox : TakeContract(r)
    \/ \E i \in Intents :
          \/ RobotCommits(i) \/ RobotRefuses(i) \/ RobotActs(i) \/ RobotEnds(i)
          \/ RobotTelemetry(i) \/ DummyEnds(i)
          \/ \E kind \in {"SUCCEEDED", "HELD"} : RobotReplays(i, kind)

Next ==
    \/ \E i \in Intents : Expire(i) \/ \E o \in Operations : Submit(i, o)
    \/ \E r \in outbox : Confirm(r)
    \/ \E m \in Messages : ReceiveFrame(m)
    \/ \E l \in Links : AckFails(l)
    \/ Crash \/ Restart
    \/ FieldStep
    \/ RobotStep

Spec == Init /\ [][Next]_vars
-----------------------------------------------------------------------------
\* An operation is decided once: however often its intent is repeated, held or
\* expired in between, and whenever the Field dies, it has one contract, and an
\* operation that was held never reaches the Robot.
OneDecisionPerOperation ==
    \A o \in Operations : Cardinality(
        {r \in outbox : /\ r.type \in {"contract", "held contract"}
                        /\ Operation(r.cause) = o}) <= 1

\* What Mission shows is what happened: SUCCEEDED only after the effect, HELD
\* never for an operation the Robot has accounted for as done.
ShownTerminalIsTrue ==
    \A o \in Operations :
        /\ ShownTerminal(o) = "SUCCEEDED" => effects[o] = 1
        /\ ShownTerminal(o) = "HELD" =>
              /\ account[o] # "DONE"
              /\ account[o] = "none" => effects[o] = 0

\* A terminal state, once shown for an operation, is never replaced or hidden
\* by what arrives later.
ShownTerminalStable ==
    [][\A o \in Operations : ShownTerminal(o) # "none" =>
          ShownTerminal(o)' = ShownTerminal(o)]_vars

\* The snapshot shown for an operation does not fall back to an older revision
\* when the messages of the Field overtake each other.
ShownRevisionGrows ==
    [][\A o \in Operations : ShownRevision(o)' >= ShownRevision(o)]_vars

\* The reconciled snapshot stands for an effect of its own operation, and
\* outside the fixture it carries what that operation's robot measured.
ReconciledByEvidence ==
    \A r \in outbox : r.type = "reconciled" =>
        /\ effects[Operation(r.cause)] = 1
        /\ IF r.evidence = NoMessage THEN Fixture
           ELSE Operation(r.evidence) = Operation(r.cause)

\* A report of the Robot is forwarded exactly when it is processed, and once.
ForwardedOnce ==
    \A m \in RobotMessages :
        Cardinality({r \in outbox : r.type = "forward" /\ r.cause = m})
            = IF inbox[m] = "PROCESSED" THEN 1 ELSE 0
-----------------------------------------------------------------------------
(* Why these hold: what the Field's tables, the Robot's reports and the    *)
(* Robot's account say of each other.                                      *)

Row(type, m) == [type |-> type, cause |-> m, evidence |-> NoMessage, copy |-> 0]

\* What a call has claimed is claimed, and is let go with the process.
ClaimedInCall ==
    working # NoMessage => up /\ calling /\ inbox[working] = "PROCESSING"

\* Nothing arrives, is reported or is taken before what it follows from.
OriginsFirst ==
    /\ \A m \in Messages : inbox[m] # "ABSENT" => Arrived(m)
    /\ \A m \in reports : m[2] \in taken
    /\ \A i \in taken : Row("contract", Intent(i)) \in outbox

\* All rows of a message are written by its completion, so there is one of each
\* type.
RowsBacked ==
    /\ \A r \in outbox :
          /\ inbox[r.cause] = "PROCESSED" /\ r.copy = 0
          /\ r.type \in {"forward", "reconciled"} <=> r.cause \in RobotMessages
          /\ r.type # "reconciled" => r.evidence = NoMessage
          /\ r.type = "held" => Row("held contract", r.cause) \in outbox
    /\ \A m \in RobotMessages :
          inbox[m] = "PROCESSED" => Row("forward", m) \in outbox
    /\ \A r \in confirmed : Selectable(r)

\* A snapshot is reconciled by an ending and by evidence in the inbox.
ReconciledByInbox ==
    \A r \in outbox : r.type = "reconciled" =>
        /\ r.cause[1] = "SUCCEEDED"
        /\ IF r.evidence = NoMessage THEN Fixture
           ELSE /\ inbox[r.evidence] # "ABSENT"
                /\ Operation(r.evidence) = Operation(r.cause)

Decides(r) == r.type \in {"contract", "held contract"}

OneDecision ==
    \A r, q \in outbox :
        Decides(r) /\ Decides(q) /\ Operation(r.cause) = Operation(q.cause) => r = q

\* The Robot works for a contract it has taken, and reports what it accounts for.
ReportsTrue ==
    /\ \A o \in Operations :
          /\ effects[o] \in {0, 1}
          /\ phase[o] \in {"open", "refused"} => effects[o] = 0
          /\ IF phase[o] = "ended" THEN account[o] \in Robot!Accounts(effects[o])
             ELSE account[o] = "none"
          /\ phase[o] # "open" => \E i \in taken : submitted[i] = o
    /\ \A m \in reports :
          /\ m[1] = "SUCCEEDED" => account[Operation(m)] = "DONE"
          /\ m[1] = "HELD" => /\ phase[Operation(m)] \in {"refused", "ended"}
                              /\ account[Operation(m)] # "DONE"

\* The tables of the Field follow from each other and from what the Robot has
\* done, at every point at which a process can die.
FieldInv ==
    /\ TypeOK
    /\ IsFiniteSet(outbox)
    /\ ClaimedInCall
    /\ OriginsFirst
    /\ RowsBacked
    /\ ReconciledByInbox
    /\ OneDecision
    /\ ReportsTrue
=============================================================================
