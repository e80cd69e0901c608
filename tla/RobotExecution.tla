--------------------------- MODULE RobotExecution ---------------------------
(***************************************************************************)
(* The Robot endpoint (DummyRobotService over one NodeStore): admission of *)
(* a contract, the durable autonomy budget, the dispatch boundary, the     *)
(* external press, its observation and the terminal commit, with the       *)
(* crashes, exceptions, clock steps, second processes and changes of       *)
(* configuration between restarts that the code is written against.        *)
(*                                                                         *)
(* A step is at most one SQLite transaction or one call of the external    *)
(* adapter, so every point at which the process can die with a different   *)
(* durable state lies between two steps.  The execution audit is an        *)
(* append-only log that nothing reads, and is left out.                    *)
(***************************************************************************)
EXTENDS Integers, Sequences, FiniteSets, NodeStore

CONSTANTS
    Services,       \* Robot processes that open this database
    NoService,
    Assignments,    \* task.assignment messages
    Envelopes,      \* execution.contract messages, several per contract
    Contracts,
    Operations,
    NoContract,
    ContractOf,     \* contract carried by an envelope
    AssignmentOf,   \* assignment a contract names
    OperationOf,    \* operation a contract serves; its effect_key
    Unsupported,    \* contracts for another executor or of another revision
    Devices,
    NoDevice,
    Adapters,       \* what a process is configured with: devices, or NoDevice
    Windows,        \* configured max_elapsed_seconds
    LegacyRows,     \* kinds of row a version 3 database may hold
    MaxClock,       \* bound of the clock
    MaxFaults       \* bound of crashes, exceptions and clock steps

Messages == Assignments \cup Envelopes
RowKinds == {"NONE", "ACCEPTED", "DISPATCHED", "DISPATCHED_DUMMY", "SUCCEEDED"}

ASSUME RobotAssumption ==
    /\ IsFiniteSet(Messages)
    /\ NoService \notin Services \cup Messages
    /\ NoDevice \notin Devices
    /\ NoContract \notin Contracts
    /\ Assignments \cap Envelopes = {}
    /\ Contracts \cap Envelopes = {}
    /\ ContractOf \in [Envelopes -> Contracts]
    /\ AssignmentOf \in [Contracts -> Assignments]
    /\ OperationOf \in [Contracts -> Operations]
    /\ Unsupported \subseteq Contracts
    /\ Adapters \subseteq Devices \cup {NoDevice}
    /\ Windows \subseteq Nat \ {0}
    /\ LegacyRows \subseteq RowKinds
    /\ MaxClock \in Nat \ {0}
    /\ MaxFaults \in Nat

VARIABLES
    inbox,        \* durable: processing_state of every message
    received_at,  \* durable: when a row was inserted
    journal,      \* durable: execution_journal
    legacy,       \* durable: autonomy_budget_legacy
    budget,       \* durable: autonomy_budget
    denial,       \* durable: autonomy_budget_denial, the reason
    outbox,       \* durable: identifiers of the rows ever inserted
    impulses,     \* the devices' own record of presses, per effect key
    clock,        \* the host clock
    owner,        \* holder of the sidecar lock
    pc,           \* where each process is
    mode,         \* inside handle() or recover()
    task,         \* the claimed message and the handler's locals
    config,       \* adapter and policy of the running process
    loops,        \* claims the current call may still make
    faults        \* faults that have happened

store == <<journal, legacy, budget, denial, outbox>>
rows == <<inbox, received_at>>
world == <<impulses, clock>>
locals == <<mode, config>>
vars == <<rows, store, world, owner, pc, locals, task, loops, faults>>
-----------------------------------------------------------------------------
Terminal == {"SUCCEEDED", "HELD"}
JournalState == {"NONE", "ACCEPTED", "DISPATCH_RECORDED"} \cup Terminal
Outcomes == {"APPLIED", "NOT_APPLIED", "UNKNOWN"}
Resolutions == {"APPLIED", "NOT_APPLIED_AFTER_UNCERTAIN_DISPATCH",
                "OUTCOME_UNKNOWN"}
Reasons == {"SCOPE_CONFLICT", "POLICY_CONFLICT", "LIMIT_EXHAUSTED",
            "DEADLINE_EXPIRED", "LEGACY_UNBUDGETED_HOLD"}
Results == {"none", "DUMMY"} \cup Resolutions \cup Reasons
EventNames == {"ACCEPTED", "DISPATCH_RECORDED", "RUNNING", "SUCCEEDED", "HELD",
               "ROBOT_STATE", "ROBOT_FORECAST"}
Times == 0..MaxClock    \* 0 stands for NULL

NoRow == [state |-> "NONE", accepted_at |-> 0, dispatch_at |-> 0,
          device |-> NoDevice, effect_count |-> 0, terminal_at |-> 0,
          result |-> "none"]
NoBudget == [bound |-> NoContract, window |-> 0, deadline_at |-> 0,
             high_water |-> 0, reserved_at |-> 0, resolution |-> "none"]
NoTask == [msg |-> NoService, fresh |-> FALSE, outcome |-> "UNKNOWN",
           observed_at |-> 0]

Rows == [state : JournalState, accepted_at : Times, dispatch_at : Times,
         device : Devices \cup {NoDevice}, effect_count : 0..1,
         terminal_at : Times, result : Results]
Budgets == [bound : Contracts \cup {NoContract}, window : Windows \cup {0},
            deadline_at : Nat, high_water : Times, reserved_at : Times,
            resolution : Results]
Tasks == [msg : Messages \cup {NoService}, fresh : BOOLEAN, outcome : Outcomes,
          observed_at : Times]
Configs == [adapter : Devices \cup {NoDevice}, window : Windows \cup {0}]
Labels == {"down", "idle", "received", "loop", "process", "accepted", "reserve",
           "dispatched", "running", "press", "observe", "resolve", "phases",
           "terminal", "complete"}

InboxType ==
    /\ inbox \in [Messages -> InboxState]
    /\ received_at \in [Messages -> Times]

JournalType == journal \in [Contracts -> Rows]

StoreType ==
    /\ legacy \in [Contracts ->
                     {"none", "LEGACY_OBSERVE_ONLY", "LEGACY_UNBUDGETED_HOLD"}]
    /\ budget \in [Operations -> Budgets]
    /\ denial \in [Contracts -> {"none"} \cup Reasons]
    /\ outbox \subseteq (Contracts \cup Envelopes) \X EventNames

WorldType ==
    /\ impulses \in [Operations -> Seq(Devices)]
    /\ clock \in 1..MaxClock
    /\ faults \in 0..MaxFaults

ProcessType ==
    /\ owner \in Services \cup {NoService}
    /\ pc \in [Services -> Labels]
    /\ mode \in [Services -> {"handle", "recover"}]
    /\ task \in [Services -> Tasks]
    /\ config \in [Services -> Configs]
    /\ loops \in [Services -> Nat]

\* Every table and every local stays within its type; in particular the claims
\* left to a call never run below zero.
TypeOK == InboxType /\ JournalType /\ StoreType /\ WorldType /\ ProcessType
-----------------------------------------------------------------------------
(* The database a version 4 process finds: the rows version 3 could leave  *)
(* after a crash, classified by the migration.                             *)

V3Row(kind, d) ==
    CASE kind = "NONE" -> NoRow
      [] kind = "ACCEPTED" ->
            [NoRow EXCEPT !.state = "ACCEPTED", !.accepted_at = 1]
      [] kind = "DISPATCHED" ->
            [NoRow EXCEPT !.state = "DISPATCH_RECORDED", !.accepted_at = 1,
                          !.dispatch_at = 1, !.device = d]
      [] kind = "DISPATCHED_DUMMY" ->
            [NoRow EXCEPT !.state = "DISPATCH_RECORDED", !.accepted_at = 1,
                          !.dispatch_at = 1]
      [] kind = "SUCCEEDED" ->
            [NoRow EXCEPT !.state = "SUCCEEDED", !.accepted_at = 1,
                          !.dispatch_at = 1, !.device = d, !.terminal_at = 1,
                          !.result = "APPLIED"]

\* _migration_4: a dispatch to a known device may only be observed; an
\* acceptance without a budget is held.
Classification(row) ==
    IF row.dispatch_at # 0 /\ row.device # NoDevice THEN "LEGACY_OBSERVE_ONLY"
    ELSE IF row.state = "ACCEPTED" THEN "LEGACY_UNBUDGETED_HOLD"
    ELSE "none"

V3Events(row) ==
    CASE row.state = "ACCEPTED" -> {"ACCEPTED"}
      [] row.state = "DISPATCH_RECORDED" -> {"ACCEPTED", "DISPATCH_RECORDED"}
      [] row.state = "SUCCEEDED" ->
            {"ACCEPTED", "DISPATCH_RECORDED", "RUNNING", "SUCCEEDED"}
      [] OTHER -> {}

\* What a device may have done for a row: it was pressed if the row says so,
\* and may have been pressed if the dispatch is uncertain.
V3Impulses(row) ==
    IF row.device = NoDevice THEN {<<>>}
    ELSE IF row.state = "SUCCEEDED" THEN {<<row.device>>}
    ELSE {<<>>, <<row.device>>}

\* The rows an operation already has, and the envelope being worked on when
\* the version 3 process died.
Init ==
    \E kind \in [Contracts -> LegacyRows], d \in Devices :
        /\ \A c, e \in Contracts :
              c # e /\ OperationOf[c] = OperationOf[e]
                 => "NONE" \in {kind[c], kind[e]}
        /\ \A c \in Unsupported : kind[c] = "NONE"
        /\ journal = [c \in Contracts |-> V3Row(kind[c], d)]
        /\ legacy = [c \in Contracts |-> Classification(journal[c])]
        /\ outbox = UNION {{c} \X V3Events(journal[c]) : c \in Contracts}
        /\ impulses \in [Operations -> {<<>>, <<d>>}]
        /\ \A o \in Operations :
              LET owners == {c \in Contracts :
                                OperationOf[c] = o /\ kind[c] # "NONE"}
              IN  impulses[o] \in
                     IF owners = {} THEN {<<>>}
                     ELSE UNION {V3Impulses(journal[c]) : c \in owners}
        /\ inbox = [m \in Messages |->
              IF m \in Assignments
              THEN IF \E c \in Contracts : AssignmentOf[c] = m /\ kind[c] # "NONE"
                   THEN "PROCESSED" ELSE "ABSENT"
              ELSE IF /\ kind[ContractOf[m]] # "NONE"
                      /\ m = CHOOSE e \in Envelopes : ContractOf[e] = ContractOf[m]
                   THEN "PROCESSING" ELSE "ABSENT"]
        /\ received_at = [m \in Messages |-> IF inbox[m] = "ABSENT" THEN 0 ELSE 1]
        /\ budget = [o \in Operations |-> NoBudget]
        /\ denial = [c \in Contracts |-> "none"]
        /\ clock = 1
        /\ owner = NoService
        /\ pc = [s \in Services |-> "down"]
        /\ mode = [s \in Services |-> "recover"]
        /\ task = [s \in Services |-> NoTask]
        /\ config = [s \in Services |-> [adapter |-> NoDevice, window |-> 0]]
        /\ loops = [s \in Services |-> 0]
        /\ faults = 0
-----------------------------------------------------------------------------
(* The frame of a call: the lock, the claims and the ways out.             *)

Msg(s) == task[s].msg
Contract(s) == ContractOf[Msg(s)]
Operation(s) == OperationOf[Contract(s)]
External(s) == config[s].adapter # NoDevice
Budgeted(c) == budget[OperationOf[c]].bound = c
Bound(o) == budget[o].bound # NoContract

Goto(s, label) == pc' = [pc EXCEPT ![s] = label]
Fault == faults < MaxFaults /\ faults' = faults + 1

\* The handler returns: the call goes on to its next claim.
NextClaim(s) ==
    /\ Goto(s, "loop")
    /\ task' = [task EXCEPT ![s] = NoTask]

\* The call ends and the lock is released, whatever became of the message.  An
\* exception that leaves handle() closes the connection; one that leaves
\* recover() leaves run_robot and ends the process.
Leave(s) ==
    /\ owner' = IF owner = s THEN NoService ELSE owner
    /\ task' = [task EXCEPT ![s] = NoTask]
    /\ loops' = [loops EXCEPT ![s] = 0]

Raise(s) ==
    /\ Leave(s)
    /\ Goto(s, IF mode[s] = "recover" THEN "down" ELSE "idle")

\* exclusive_robot_owner: one non-blocking lock for the whole call.
AnyoneOwns == TRUE
Unowned == owner = NoService

\* run_robot: recover() before the socket is served.  A second process finds
\* the lock held and dies at once, which changes nothing.
Start(s, a, w) ==
    /\ pc[s] = "down"
    /\ Unowned
    /\ owner' = s
    /\ config' = [config EXCEPT ![s] =
                     [adapter |-> a, window |-> IF a = NoDevice THEN 0 ELSE w]]
    /\ mode' = [mode EXCEPT ![s] = "recover"]
    /\ inbox' = RecoverInterrupted(inbox)
    /\ loops' = [loops EXCEPT ![s] = 2 * Cardinality(Claimable(inbox'))]
    /\ Goto(s, "loop")
    /\ UNCHANGED <<received_at, store, world, task, faults>>

\* receive_frames: the envelope is durable before it is acknowledged.  An
\* identical duplicate is only acknowledged again.
ReceiveFrame(s, m) ==
    /\ pc[s] = "idle"
    /\ inbox[m] = "ABSENT"
    /\ inbox' = Receive(inbox, m)
    /\ received_at' = [received_at EXCEPT ![m] = clock]
    /\ task' = [task EXCEPT ![s] = [NoTask EXCEPT !.msg = m]]
    /\ Goto(s, "received")
    /\ UNCHANGED <<store, world, owner, locals, loops, faults>>

\* The acknowledgement cannot be sent: the connection ends before handle().
AckFails(s) ==
    /\ pc[s] = "received"
    /\ Fault
    /\ Leave(s)
    /\ Goto(s, "idle")
    /\ UNCHANGED <<rows, store, world, locals>>

\* handle() while another process owns the database.
HandleBusy(s) ==
    /\ pc[s] = "received"
    /\ ~Unowned
    /\ Leave(s)
    /\ Goto(s, "idle")
    /\ UNCHANGED <<rows, store, world, locals, faults>>

\* handle() claims its message, unless another call has already taken it, and
\* may then claim one more.
Handle(s) ==
    /\ pc[s] = "received"
    /\ Unowned
    /\ IF Msg(s) \in Claimable(inbox)
       THEN /\ owner' = s
            /\ inbox' = Claim(inbox, Msg(s))
            /\ mode' = [mode EXCEPT ![s] = "handle"]
            /\ loops' = [loops EXCEPT ![s] = 1]
            /\ Goto(s, "process")
            /\ UNCHANGED task
       ELSE /\ Leave(s)
            /\ Goto(s, "idle")
            /\ UNCHANGED <<inbox, mode>>
    /\ UNCHANGED <<received_at, store, world, config, faults>>

\* claim_next_inbox, as often as the call allows: once more in handle(), twice
\* the claimable rows in recover().
MayAlwaysClaim(s) == loops[s] >= 0
MayClaim(s) == loops[s] > 0

ClaimNext(s, m) ==
    /\ pc[s] = "loop"
    /\ MayClaim(s)
    /\ m \in NextInbox(inbox, received_at)
    /\ inbox' = Claim(inbox, m)
    /\ loops' = [loops EXCEPT ![s] = @ - 1]
    /\ task' = [task EXCEPT ![s] = [NoTask EXCEPT !.msg = m]]
    /\ Goto(s, "process")
    /\ UNCHANGED <<received_at, store, world, owner, locals, faults>>

Return(s) ==
    /\ pc[s] = "loop"
    /\ ~MayClaim(s) \/ Claimable(inbox) = {}
    /\ Leave(s)
    /\ Goto(s, "idle")
    /\ UNCHANGED <<rows, store, world, locals, faults>>
-----------------------------------------------------------------------------
(* process_claimed and the admission half of _process_contract.            *)

TakeAssignment(s) ==
    /\ pc[s] = "process"
    /\ Msg(s) \in Assignments
    /\ inbox' = Complete(inbox, Msg(s))
    /\ NextClaim(s)
    /\ UNCHANGED <<received_at, store, world, owner, locals, loops, faults>>

Assigned(s) ==
    /\ pc[s] = "process"
    /\ Msg(s) \in Envelopes
    /\ inbox[AssignmentOf[Contract(s)]] # "ABSENT"

MissingAssignment(s) ==
    /\ pc[s] = "process"
    /\ Msg(s) \in Envelopes
    /\ inbox[AssignmentOf[Contract(s)]] = "ABSENT"
    /\ inbox' = Fail(inbox, Msg(s))
    /\ NextClaim(s)
    /\ UNCHANGED <<received_at, store, world, owner, locals, loops, faults>>

\* The HELD event's identifier is a function of the contract, its bytes are
\* not: a row with that identifier is a collision.
HoldUnsupported(s) ==
    /\ Assigned(s)
    /\ Contract(s) \in Unsupported
    /\ IF <<Contract(s), "HELD">> \in outbox
       THEN /\ Raise(s)
            /\ UNCHANGED <<inbox, outbox>>
       ELSE /\ outbox' = outbox \cup {<<Contract(s), "HELD">>}
            /\ inbox' = Complete(inbox, Msg(s))
            /\ NextClaim(s)
            /\ UNCHANGED <<owner, loops>>
    /\ UNCHANGED <<received_at, journal, legacy, budget, denial, world, locals,
                   faults>>

\* The refusals of complete_budget_scope_denial.
CanDeny(s, reason, previous) ==
    LET row == journal[Contract(s)] IN
    /\ row.state # "NONE" =>
          /\ row.dispatch_at = 0
          /\ row.state \in {"ACCEPTED", "HELD"}
          /\ row.state = "ACCEPTED" => previous = "ACCEPTED"
          /\ clock >= row.accepted_at
    /\ denial[Contract(s)] \in {"none", reason}
    /\ denial[Contract(s)] = "none" => <<Contract(s), "HELD">> \notin outbox

\* A hold on a row that was accepted also ends that row.
EndsRow(row) == row.state = "ACCEPTED"

LaterOf(t, u) == IF t >= u THEN t ELSE u

\* complete_budget_scope_denial: the denial, the hold, its event and the
\* completion of the message in one transaction.
Deny(s, reason, previous) ==
    LET c == Contract(s)
        o == Operation(s)
    IN  IF CanDeny(s, reason, previous)
        THEN /\ denial' = [denial EXCEPT ![c] = reason]
             /\ journal' = IF EndsRow(journal[c])
                           THEN [journal EXCEPT ![c].state = "HELD",
                                                ![c].terminal_at = clock,
                                                ![c].result = reason]
                           ELSE journal
             /\ budget' = IF Budgeted(c)
                          THEN [budget EXCEPT
                                  ![o].resolution = reason,
                                  ![o].high_water = LaterOf(clock, @)]
                          ELSE budget
             /\ outbox' = outbox \cup {<<c, "HELD">>}
             /\ inbox' = Complete(inbox, Msg(s))
             /\ NextClaim(s)
             /\ UNCHANGED <<owner, loops>>
        ELSE /\ Raise(s)
             /\ UNCHANGED <<inbox, denial, journal, budget, outbox>>

HoldLegacy(s) ==
    /\ Assigned(s)
    /\ Contract(s) \notin Unsupported
    /\ legacy[Contract(s)] = "LEGACY_UNBUDGETED_HOLD"
    /\ Deny(s, "LEGACY_UNBUDGETED_HOLD", "ACCEPTED")
    /\ UNCHANGED <<received_at, legacy, world, locals, faults>>

\* The journal row another contract holds on the same effect key.
Unclaimed(c) == FALSE
Claimed(c) == \E e \in Contracts \ {c} :
                  OperationOf[e] = OperationOf[c] /\ journal[e].state # "NONE"

\* Only an old dispatch, to a device or to the database dummy, skips admission.
SkipsBudget(c) ==
    \/ legacy[c] = "LEGACY_OBSERVE_ONLY"
    \/ journal[c].dispatch_at # 0 /\ journal[c].device = NoDevice

ForgetsRow(c) == FALSE
Known(c) == journal[c].state # "NONE"

\* The verdict of admit_external_budget_contract or of accept_contract.
Admission(s) ==
    LET c == Contract(s) IN
        IF External(s) /\ ~SkipsBudget(c)
        THEN IF Bound(OperationOf[c])
             THEN IF Budgeted(c) THEN "known" ELSE "scope"
             ELSE IF denial[c] # "none" \/ Claimed(c) THEN "scope"
             ELSE IF Known(c) THEN "conflict" ELSE "new"
        ELSE IF External(s) THEN "known"
        ELSE IF Budgeted(c) THEN "conflict"
        ELSE IF Known(c) THEN "known"
        ELSE IF Claimed(c) THEN "conflict" ELSE "new"

\* _assert_external_dispatch_configuration.
ConfiguredFor(s, row) ==
    IF row.device # NoDevice
    THEN config[s].adapter = row.device
    ELSE row.dispatch_at # 0 => ~External(s)

Admitting(s) ==
    /\ Assigned(s)
    /\ Contract(s) \notin Unsupported
    /\ legacy[Contract(s)] # "LEGACY_UNBUDGETED_HOLD"

\* The acceptance and, with an adapter, the snapshot of the local policy.
Accept(s) ==
    LET c == Contract(s) IN
    /\ Admitting(s)
    /\ Admission(s) = "new"
    /\ journal' = [journal EXCEPT ![c] =
                      [NoRow EXCEPT !.state = "ACCEPTED", !.accepted_at = clock]]
    /\ budget' = IF External(s)
                 THEN [budget EXCEPT ![OperationOf[c]] =
                         [bound |-> c, window |-> config[s].window,
                          deadline_at |-> clock + config[s].window,
                          high_water |-> clock, reserved_at |-> 0,
                          resolution |-> "none"]]
                 ELSE budget
    /\ Goto(s, "accepted")
    /\ UNCHANGED <<rows, legacy, denial, outbox, world, owner, locals, task,
                   loops, faults>>

\* A contract this store already knows goes on from where its journal stands.
ResumesReservation(row) ==
    IF row.state \in Terminal THEN "terminal" ELSE "reserve"

ResumePoint(row) ==
    CASE row.state \in Terminal -> "terminal"
      [] row.state = "ACCEPTED" -> "reserve"
      [] OTHER -> "running"

Resume(s) ==
    LET row == journal[Contract(s)] IN
    /\ Admitting(s)
    /\ Admission(s) = "known"
    /\ ConfiguredFor(s, row)
    /\ Goto(s, ResumePoint(row))
    /\ UNCHANGED <<rows, store, world, owner, locals, task, loops, faults>>

DenyScope(s) ==
    /\ Admitting(s)
    /\ Admission(s) = "scope"
    /\ Deny(s, "SCOPE_CONFLICT", "RECEIVED")
    /\ UNCHANGED <<received_at, legacy, world, locals, faults>>

\* Every admission conflict is an exception: nothing durable has changed.
RefuseAdmission(s) ==
    /\ Admitting(s)
    /\ \/ Admission(s) = "conflict"
       \/ Admission(s) = "known" /\ ~ConfiguredFor(s, journal[Contract(s)])
    /\ Raise(s)
    /\ UNCHANGED <<rows, store, world, locals, faults>>
-----------------------------------------------------------------------------
(* From acceptance to the dispatch boundary.                               *)

\* _enqueue_transition: skipped when the identifier is already in the outbox.
Emit(c, names) == outbox' = outbox \cup ({c} \X names)

AcceptedEvent(s) ==
    /\ pc[s] = "accepted"
    /\ Emit(Contract(s), {"ACCEPTED"})
    /\ Goto(s, "reserve")
    /\ UNCHANGED <<rows, journal, legacy, budget, denial, world, owner, locals,
                   task, loops, faults>>

\* The checks of reserve_external_dispatch_with_budget, in their order.
DeadlineOffByOne(s) ==
    LET b == budget[Operation(s)] IN
    CASE b.window # config[s].window -> "POLICY_CONFLICT"
      [] b.window = config[s].window /\ b.reserved_at # 0 -> "LIMIT_EXHAUSTED"
      [] b.window = config[s].window /\ b.reserved_at = 0 ->
            IF clock < LaterOf(journal[Contract(s)].accepted_at, b.high_water)
            THEN "ROLLBACK"
            ELSE IF clock > b.deadline_at THEN "DEADLINE_EXPIRED" ELSE "OK"

BudgetVerdict(s) ==
    LET b == budget[Operation(s)] IN
    CASE b.window # config[s].window -> "POLICY_CONFLICT"
      [] b.window = config[s].window /\ b.reserved_at # 0 -> "LIMIT_EXHAUSTED"
      [] b.window = config[s].window /\ b.reserved_at = 0 ->
            IF clock < LaterOf(journal[Contract(s)].accepted_at, b.high_water)
            THEN "ROLLBACK"
            ELSE IF clock >= b.deadline_at THEN "DEADLINE_EXPIRED" ELSE "OK"

\* The device the dispatch is bound to.
DispatchUnbound(s) == NoDevice
DispatchDevice(s) == config[s].adapter

\* The dispatch boundary: reservation, device and state in one transaction.
Reserve(s) ==
    LET c == Contract(s) IN
    /\ pc[s] = "reserve"
    /\ External(s)
    /\ BudgetVerdict(s) = "OK"
    /\ budget' = [budget EXCEPT ![Operation(s)].reserved_at = clock,
                                ![Operation(s)].high_water = clock]
    /\ journal' = [journal EXCEPT ![c].state = "DISPATCH_RECORDED",
                                  ![c].dispatch_at = clock,
                                  ![c].device = DispatchDevice(s)]
    /\ task' = [task EXCEPT ![s].fresh = TRUE]
    /\ Goto(s, "dispatched")
    /\ UNCHANGED <<rows, legacy, denial, outbox, world, owner, locals, loops,
                   faults>>

DenyBudget(s) ==
    /\ pc[s] = "reserve"
    /\ External(s)
    /\ BudgetVerdict(s) \in Reasons
    /\ Deny(s, BudgetVerdict(s), "ACCEPTED")
    /\ UNCHANGED <<received_at, legacy, world, locals, faults>>

\* A clock behind the budget proves nothing about the window: neither a
\* dispatch nor a denial.
RefuseRollback(s) ==
    /\ pc[s] = "reserve"
    /\ External(s)
    /\ BudgetVerdict(s) = "ROLLBACK"
    /\ Raise(s)
    /\ UNCHANGED <<rows, store, world, locals, faults>>

RecordDispatch(s) ==
    LET c == Contract(s) IN
    /\ pc[s] = "reserve"
    /\ ~External(s)
    /\ journal' = [journal EXCEPT ![c].state = "DISPATCH_RECORDED",
                                  ![c].dispatch_at = clock]
    /\ Goto(s, "dispatched")
    /\ UNCHANGED <<rows, legacy, budget, denial, outbox, world, owner, locals,
                   task, loops, faults>>

DispatchEvent(s) ==
    /\ pc[s] = "dispatched"
    /\ Emit(Contract(s), {"DISPATCH_RECORDED"})
    /\ Goto(s, "running")
    /\ UNCHANGED <<rows, journal, legacy, budget, denial, world, owner, locals,
                   task, loops, faults>>
-----------------------------------------------------------------------------
(* _process_external_contract.                                             *)

\* _external_clock_at_or_after(dispatch_recorded_at).
ClockTrusted(s) == clock >= journal[Contract(s)].dispatch_at

\* Only the call that committed the reservation presses.
PressesAgain(s) == TRUE
PressesNow(s) == task[s].fresh

RunExternal(s) ==
    /\ pc[s] = "running"
    /\ External(s)
    /\ ClockTrusted(s)
    /\ Emit(Contract(s), {"RUNNING"})
    /\ Goto(s, IF PressesNow(s) THEN "press" ELSE "observe")
    /\ UNCHANGED <<rows, journal, legacy, budget, denial, world, owner, locals,
                   task, loops, faults>>

RefuseClock(s) ==
    /\ pc[s] \in {"running", "press", "observe"}
    /\ External(s)
    /\ ~ClockTrusted(s)
    /\ Raise(s)
    /\ UNCHANGED <<rows, store, world, locals, faults>>

Impulse(s) ==
    impulses' = [impulses EXCEPT ![Operation(s)] =
                    Append(@, config[s].adapter)]

Press(s) ==
    /\ pc[s] = "press"
    /\ ClockTrusted(s)
    /\ Impulse(s)
    /\ Goto(s, "observe")
    /\ UNCHANGED <<rows, store, clock, owner, locals, task, loops, faults>>

\* adapter.press raises, before or after the device acted.
PressRaises(s) ==
    /\ pc[s] = "press"
    /\ ClockTrusted(s)
    /\ Fault
    /\ Impulse(s) \/ UNCHANGED impulses
    /\ Raise(s)
    /\ UNCHANGED <<rows, store, clock, locals>>

\* The device answers from its own record of the effect key, or does not know.
Answers(s) ==
    LET pressed == \E i \in DOMAIN impulses[Operation(s)] :
                      impulses[Operation(s)][i] = config[s].adapter
    IN  {IF pressed THEN "APPLIED" ELSE "NOT_APPLIED", "UNKNOWN"}

Observe(s, answer) ==
    /\ pc[s] = "observe"
    /\ ClockTrusted(s)
    /\ answer \in Answers(s)
    /\ task' = [task EXCEPT ![s].outcome = answer, ![s].observed_at = clock]
    /\ Goto(s, "resolve")
    /\ UNCHANGED <<rows, store, world, owner, locals, loops, faults>>

ObserveRaises(s) ==
    /\ pc[s] = "observe"
    /\ ClockTrusted(s)
    /\ Fault
    /\ Raise(s)
    /\ UNCHANGED <<rows, store, world, locals>>

\* The refusals of resolve_external_outcome.
CanResolve(s) ==
    LET row == journal[Contract(s)] IN
    /\ ClockTrusted(s)
    /\ clock >= task[s].observed_at
    /\ row.state = "DISPATCH_RECORDED"
    /\ row.device = config[s].adapter

TerminalFor(outcome) == IF outcome = "APPLIED" THEN "SUCCEEDED" ELSE "HELD"

UnknownIsNotApplied(outcome) ==
    IF outcome = "APPLIED" THEN "APPLIED"
    ELSE "NOT_APPLIED_AFTER_UNCERTAIN_DISPATCH"

ResolutionOf(outcome) ==
    CASE outcome = "APPLIED" -> "APPLIED"
      [] outcome = "UNKNOWN" -> "OUTCOME_UNKNOWN"
      [] outcome = "NOT_APPLIED" -> "NOT_APPLIED_AFTER_UNCERTAIN_DISPATCH"

\* resolve_external_outcome: verdict, terminal event and budget resolution in
\* one transaction.
Resolve(s) ==
    LET c == Contract(s)
        o == Operation(s)
        verdict == TerminalFor(task[s].outcome)
        resolution == ResolutionOf(task[s].outcome)
    IN  /\ pc[s] = "resolve"
        /\ CanResolve(s)
        /\ journal' = [journal EXCEPT ![c].state = verdict,
                                      ![c].terminal_at = clock,
                                      ![c].result = resolution]
        /\ budget' = IF Budgeted(c)
                     THEN [budget EXCEPT ![o].resolution = resolution,
                                         ![o].high_water = LaterOf(clock, @)]
                     ELSE budget
        /\ Emit(c, {verdict})
        /\ Goto(s, "complete")
        /\ UNCHANGED <<rows, legacy, denial, world, owner, locals, task, loops,
                       faults>>

RefuseResolution(s) ==
    /\ pc[s] = "resolve"
    /\ ~CanResolve(s)
    /\ Raise(s)
    /\ UNCHANGED <<rows, store, world, locals, faults>>
-----------------------------------------------------------------------------
(* The database dummy, the replay of a terminal result, completion.        *)

RunDummy(s) ==
    /\ pc[s] = "running"
    /\ ~External(s)
    /\ Emit(Contract(s), {"RUNNING", "ROBOT_STATE", "ROBOT_FORECAST"})
    /\ Goto(s, "phases")
    /\ UNCHANGED <<rows, journal, legacy, budget, denial, world, owner, locals,
                   task, loops, faults>>

\* The sending half of the connection fails while the handler sleeps between
\* two phases: the handler is cancelled, the message stays PROCESSING.
CancelPhases(s) ==
    /\ pc[s] = "phases"
    /\ mode[s] = "handle"
    /\ Fault
    /\ Raise(s)
    /\ UNCHANGED <<rows, store, world, locals>>

\* commit_dummy_effect: effect, terminal state and event in one transaction.
CommitDummyEffect(s) ==
    LET c == Contract(s) IN
    /\ pc[s] = "phases"
    /\ journal[c].state = "DISPATCH_RECORDED"
    /\ journal' = [journal EXCEPT ![c].state = "SUCCEEDED",
                                  ![c].effect_count = 1,
                                  ![c].terminal_at = clock,
                                  ![c].result = "DUMMY"]
    /\ Emit(c, {"SUCCEEDED"})
    /\ Goto(s, "complete")
    /\ UNCHANGED <<rows, legacy, budget, denial, world, owner, locals, task,
                   loops, faults>>

\* A budget denial replays its own event; any other terminal result is sent
\* again under an identifier made of the envelope and the state.
ReplayedDenial(s) ==
    /\ External(s)
    /\ journal[Contract(s)].dispatch_at = 0
    /\ denial[Contract(s)] # "none"

ReplaysSuccess(s) == "SUCCEEDED"
ReplayedState(s) == journal[Contract(s)].state

ReplayTerminal(s) ==
    LET replay == <<Msg(s), ReplayedState(s)>>
        event == IF ReplayedDenial(s) THEN <<Contract(s), "HELD">> ELSE replay
    IN  /\ pc[s] = "terminal"
        /\ event \in outbox => ReplayedDenial(s)
        /\ outbox' = outbox \cup {event}
        /\ Goto(s, "complete")
        /\ UNCHANGED <<rows, journal, legacy, budget, denial, world, owner,
                       locals, task, loops, faults>>

\* _enqueue_terminal_replay builds the same identifier with other bytes (boot,
\* sequence, created_at): enqueue raises when the row is already there.
ReplayCollides(s) ==
    /\ pc[s] = "terminal"
    /\ ~ReplayedDenial(s)
    /\ <<Msg(s), ReplayedState(s)>> \in outbox
    /\ Raise(s)
    /\ UNCHANGED <<rows, store, world, locals, faults>>

CompleteInbox(s) ==
    /\ pc[s] = "complete"
    /\ Held(inbox, Msg(s))
    /\ inbox' = Complete(inbox, Msg(s))
    /\ NextClaim(s)
    /\ UNCHANGED <<received_at, store, world, owner, locals, loops, faults>>
-----------------------------------------------------------------------------
(* The environment.                                                        *)

Crash(s) ==
    /\ pc[s] # "down"
    /\ Fault
    /\ Leave(s)
    /\ Goto(s, "down")
    /\ UNCHANGED <<rows, store, world, locals>>

Tick ==
    /\ clock < MaxClock
    /\ clock' = clock + 1
    /\ UNCHANGED <<rows, store, impulses, owner, pc, locals, task, loops, faults>>

StepBack ==
    /\ clock > 1
    /\ Fault
    /\ clock' = clock - 1
    /\ UNCHANGED <<rows, store, impulses, owner, pc, locals, task, loops>>
-----------------------------------------------------------------------------
Startup(s) == \E a \in Adapters, w \in Windows : Start(s, a, w)

Admit(s) ==
    \/ TakeAssignment(s) \/ MissingAssignment(s) \/ HoldUnsupported(s)
    \/ HoldLegacy(s) \/ Accept(s) \/ Resume(s) \/ DenyScope(s)
    \/ RefuseAdmission(s)

Dispatch(s) ==
    \/ AcceptedEvent(s) \/ Reserve(s) \/ DenyBudget(s) \/ RefuseRollback(s)
    \/ RecordDispatch(s) \/ DispatchEvent(s)

Execute(s) ==
    \/ RunExternal(s) \/ RefuseClock(s) \/ Press(s)
    \/ \E answer \in Outcomes : Observe(s, answer)
    \/ Resolve(s) \/ RefuseResolution(s)
    \/ RunDummy(s) \/ CommitDummyEffect(s)
    \/ ReplayTerminal(s) \/ ReplayCollides(s) \/ CompleteInbox(s)

\* What a running process does of itself.
Progress(s) ==
    \/ HandleBusy(s) \/ Handle(s) \/ Return(s)
    \/ \E m \in Messages : ClaimNext(s, m)
    \/ Admit(s) \/ Dispatch(s) \/ Execute(s)

Failure(s) ==
    \/ AckFails(s) \/ PressRaises(s) \/ ObserveRaises(s) \/ CancelPhases(s)
    \/ Crash(s)

Next ==
    \/ \E s \in Services :
          \/ Startup(s)
          \/ \E m \in Messages : ReceiveFrame(s, m)
          \/ Progress(s)
          \/ Failure(s)
    \/ Tick
    \/ StepBack

Spec == Init /\ [][Next]_vars

-----------------------------------------------------------------------------
(* Correctness.                                                            *)

Dispatched(c) == journal[c].dispatch_at # 0
Resolved(c) == journal[c].state \in Terminal
Pressed(c) == impulses[OperationOf[c]] # <<>>

\* However often a contract is delivered, and whatever processes die, start
\* again or run side by side, the device receives at most one impulse for an
\* effect key: _process_external_contract presses only in the call that
\* committed the reservation.
AtMostOnePress == \A o \in Operations : Len(impulses[o]) <= 1

\* Every effect is where a durable dispatch put it.  An impulse: some contract
\* of the operation holds a dispatch for the very device that was pressed.  An
\* effect of the database dummy: its contract was neither dispatched to a
\* device nor budgeted, so no restart without the adapter, or with another
\* one, turns an uncertain impulse into a recorded effect.
EffectWhereDispatched ==
    /\ \A o \in Operations : \A i \in DOMAIN impulses[o] :
           \E c \in Contracts : /\ OperationOf[c] = o
                                /\ Dispatched(c)
                                /\ journal[c].device = impulses[o][i]
    /\ \A c \in Contracts : journal[c].effect_count > 0 =>
           journal[c].device = NoDevice /\ ~Budgeted(c)

\* resolve_external_outcome never tells the Field something the device's own
\* record contradicts, at the time or later: SUCCEEDED means the button was
\* pressed, and after NOT_APPLIED it stays unpressed.
VerdictMatchesDevice ==
    \A c \in Contracts :
        /\ journal[c].result = "APPLIED" => Pressed(c)
        /\ journal[c].result = "NOT_APPLIED_AFTER_UNCERTAIN_DISPATCH" => ~Pressed(c)

\* The terminal states the outbox has ever reported for a contract, under the
\* contract's own event identifier or under that of a replay.
Reported(c) ==
    {t \in Terminal : \E e \in {c} \cup {m \in Envelopes : ContractOf[m] = c} :
        <<e, t>> \in outbox}

\* A terminal row and its event are one commit, and the Robot never reports
\* two different endings of a contract, whether from the handler, a denial or
\* a replay.
TerminalEventDurable ==
    \A c \in Contracts :
        /\ Resolved(c) => <<c, journal[c].state>> \in outbox
        /\ Reported(c) # {} =>
              \/ Reported(c) = {journal[c].state}
              \/ /\ Reported(c) = {"HELD"}
                 /\ journal[c].state = "NONE"
                 /\ denial[c] # "none" \/ c \in Unsupported

\* A budget, the row of the contract it is bound to, and their times.
WithinBudget(o) ==
    LET c   == budget[o].bound
        row == journal[c]
    IN  /\ OperationOf[c] = o
        /\ budget[o].reserved_at = row.dispatch_at
        /\ Dispatched(c) => /\ row.accepted_at <= row.dispatch_at
                            /\ row.dispatch_at < budget[o].deadline_at
        /\ Resolved(c) => LaterOf(row.accepted_at, row.dispatch_at) <= row.terminal_at
        /\ LaterOf(row.accepted_at, LaterOf(row.dispatch_at, row.terminal_at))
              <= budget[o].high_water

\* The reservation of the budget and the dispatch it pays for are the same
\* fact: neither survives a crash without the other.  The dispatch lies inside
\* the window that was snapshotted at acceptance, and the times the Robot
\* reports never run backwards, although the host clock may.
DispatchWithinBudget == \A o \in Operations : Bound(o) => WithinBudget(o)

\* A contract message is PROCESSED only when there is a durable answer for it:
\* a terminal row, a denial, or the hold of an unsupported contract.
ProcessedIsAnswered ==
    \A m \in Envelopes : inbox[m] = "PROCESSED" =>
        LET c == ContractOf[m] IN
        \/ Resolved(c)
        \/ denial[c] # "none"
        \/ c \in Unsupported /\ <<c, "HELD">> \in outbox

\* One operation is served by one contract: a second contract on the same
\* effect key never reaches the journal.
OneContractPerOperation ==
    \A c, e \in Contracts :
        /\ OperationOf[c] = OperationOf[e]
        /\ journal[c].state # "NONE"
        /\ journal[e].state # "NONE"
        => c = e

\* No impulse is given for an operation whose contract is already terminal:
\* an observer that resolved an uncertain dispatch is never overtaken by the
\* process that recorded it.
NoPressAfterTerminal ==
    [][\A c \in Contracts : Resolved(c) =>
          impulses'[OperationOf[c]] = impulses[OperationOf[c]]]_vars

\* A terminal row is immutable, and so is the device of a recorded dispatch.
TerminalImmutable ==
    [][\A c \in Contracts :
          /\ Resolved(c) => journal'[c] = journal[c]
          /\ Dispatched(c) => /\ journal'[c].device = journal[c].device
                              /\ journal'[c].dispatch_at = journal[c].dispatch_at]_vars

-----------------------------------------------------------------------------
(* Why there is at most one impulse: the inductive invariant that the      *)
(* proofs rest on.                                                         *)

ContractLabels == {"accepted", "reserve", "dispatched", "running", "press",
                   "observe", "resolve", "phases", "terminal", "complete"}
OwnerLabels == ContractLabels \cup {"loop", "process"}

\* A handler past its admission works on a contract; only one that has an
\* adapter presses, and only a contract with a row is replayed.
WorkInHand ==
    \A s \in Services :
        /\ pc[s] \in ContractLabels => Msg(s) \in Envelopes
        /\ pc[s] = "press" => External(s)
        /\ pc[s] = "terminal" => journal[Contract(s)].state # "NONE"

TypeInv == TypeOK /\ WorkInHand

\* Whoever has claimed holds the lock, so there is never a second handler.
OwnerWorks == \A s \in Services : pc[s] \in OwnerLabels => owner = s

\* The right to press: made by the reservation, of an operation with a recorded
\* dispatch and no impulse, and not inherited by a later claim.
RightToPress ==
    \A s \in Services :
        /\ pc[s] \in {"received", "process", "accepted", "reserve"} => ~task[s].fresh
        /\ pc[s] = "press" => task[s].fresh
        /\ pc[s] \in {"dispatched", "running", "press"} /\ task[s].fresh =>
              Dispatched(Contract(s)) /\ ~Pressed(Contract(s))

\* A dispatch is recorded of an accepted contract, and by nothing else.
AcceptedInHand ==
    \A s \in Services : pc[s] \in {"accepted", "reserve"} =>
        journal[Contract(s)].state = "ACCEPTED"

OpenIsUndispatched ==
    \A c \in Contracts : journal[c].state \in {"NONE", "ACCEPTED"} => ~Dispatched(c)

PressedIsDispatched ==
    \A o \in Operations : impulses[o] # <<>> =>
        \E c \in Contracts : OperationOf[c] = o /\ Dispatched(c)

PressInv ==
    /\ TypeInv
    /\ OwnerWorks
    /\ RightToPress
    /\ AcceptedInHand
    /\ OpenIsUndispatched
    /\ PressedIsDispatched
    /\ OneContractPerOperation
    /\ AtMostOnePress
-----------------------------------------------------------------------------
(* Why the account is true: what the tables say of each other, and what a  *)
(* handler knows of the row it works on.                                   *)

\* A row gets its dispatch, its device, its effect and its result in the order
\* of the transactions, and never half of one.
RowShape(row) ==
    \/ row = NoRow
    \/ /\ row.state \in {"ACCEPTED", "DISPATCH_RECORDED"}
       /\ row.dispatch_at = 0 <=> row.state = "ACCEPTED"
       /\ row.dispatch_at = 0 => row.device = NoDevice
       /\ row.effect_count = 0 /\ row.terminal_at = 0 /\ row.result = "none"
    \/ /\ row.state = "HELD" /\ row.dispatch_at = 0 /\ row.device = NoDevice
       /\ row.effect_count = 0 /\ row.result \in Reasons
    \/ /\ row.state = "HELD" /\ row.dispatch_at # 0 /\ row.device # NoDevice
       /\ row.effect_count = 0 /\ row.result \in Resolutions \ {"APPLIED"}
    \/ /\ row.state = "SUCCEEDED" /\ row.dispatch_at # 0
       /\ row.effect_count = IF row.device = NoDevice THEN 1 ELSE 0
       /\ row.result = IF row.device = NoDevice THEN "DUMMY" ELSE "APPLIED"

\* What a contract's other tables say, its row bears out.
RowBacked(c) ==
    /\ c \in Unsupported => ~Known(c)
    /\ legacy[c] = "LEGACY_OBSERVE_ONLY" => Dispatched(c)
    /\ legacy[c] = "LEGACY_UNBUDGETED_HOLD" => Known(c)
    /\ Budgeted(c) => Known(c) /\ (Dispatched(c) => journal[c].device # NoDevice)
    /\ denial[c] # "none" => Known(c) \/ Claimed(c)

JournalShape == \A c \in Contracts : RowShape(journal[c]) /\ RowBacked(c)

\* Who may have reported an ending: the contract and its envelopes.
Reporters(c) == {c} \cup {m \in Envelopes : ContractOf[m] = c}

ReportAgrees(c) ==
    /\ Resolved(c) => <<c, journal[c].state>> \in outbox
    /\ \A e \in Reporters(c), t \in Terminal : <<e, t>> \in outbox =>
          \/ t = journal[c].state
          \/ /\ t = "HELD" /\ ~Known(c)
             /\ denial[c] # "none" \/ c \in Unsupported

ReportsAgree == \A c \in Contracts : ReportAgrees(c)

\* A handler spends the budget of its own contract, acts on the device its row is
\* dispatched to, and has asked that device.
HandlerAgrees(s) ==
    LET c == Contract(s) IN
    /\ pc[s] \in {"accepted", "reserve"} => (External(s) <=> Budgeted(c))
    /\ pc[s] \in {"dispatched", "running", "press", "observe", "phases"} =>
          /\ journal[c].state = "DISPATCH_RECORDED"
          /\ journal[c].device = config[s].adapter
    /\ pc[s] \in {"press", "observe", "resolve"} => External(s)
    /\ pc[s] = "phases" => ~External(s)
    /\ pc[s] = "resolve" =>
          /\ task[s].outcome = "APPLIED" => Pressed(c)
          /\ task[s].outcome = "NOT_APPLIED" => ~Pressed(c)
    /\ pc[s] \in {"terminal", "complete"} => Resolved(c)

HandlersAgree == \A s \in Services : HandlerAgrees(s)

\* The store, the device, the reports and the handlers tell one story in every
\* reachable state: a row never holds half a transaction, budget and denial are
\* those of a row, and a handler that is about to press, observe or resolve
\* holds the dispatch of the very device it was configured with.
AccountInv ==
    /\ PressInv
    /\ JournalShape
    /\ EffectWhereDispatched
    /\ VerdictMatchesDevice
    /\ DispatchWithinBudget
    /\ ReportsAgree
    /\ ProcessedIsAnswered
    /\ HandlersAgree
-----------------------------------------------------------------------------
(* Liveness.  A running process takes its next step: handle() and recover() *)
(* are sequential code without unbounded waits.  A process that is down is *)
(* started again, as the recovery design supposes, and the clock goes on.  *)
(* Frames and faults are left to the environment.                          *)

Fairness ==
    /\ \A s \in Services : WF_vars(Progress(s)) /\ WF_vars(Startup(s))
    /\ WF_vars(Tick)

FairSpec == Spec /\ Fairness

\* A contract message that is durable when the Robot process is down, and
\* whose assignment is durable too, is answered after the restart: recover()
\* reaches it and can finish it.
AnsweredAfterRestart ==
    \A m \in Envelopes, s \in Services : ContractOf[m] \notin Unsupported =>
        ((/\ pc[s] = "down"
          /\ inbox[m] # "ABSENT"
          /\ inbox[AssignmentOf[ContractOf[m]]] # "ABSENT")
         ~> inbox[m] = "PROCESSED")

\* An uncertain dispatch is resolved after a restart: the device is observed
\* and the contract becomes terminal.
DispatchResolvedAfterRestart ==
    \A c \in Contracts, s \in Services :
        (pc[s] = "down" /\ journal[c].state = "DISPATCH_RECORDED")
            ~> Resolved(c)
-----------------------------------------------------------------------------
(* Refinement: an operation of this store is a SingleShot operation.       *)

RowOf(o) ==
    LET owners == {c \in Contracts :
                      OperationOf[c] = o /\ journal[c].state # "NONE"}
    IN  IF owners = {} THEN NoRow ELSE journal[CHOOSE c \in owners : TRUE]

PhaseOf(row) ==
    CASE row.state \in {"NONE", "ACCEPTED"} -> "open"
      [] row.state = "DISPATCH_RECORDED" -> "committed"
      [] row.state \in Terminal /\ row.dispatch_at = 0 -> "refused"
      [] OTHER -> "ended"

AccountOf(row) ==
    CASE row.result \in {"APPLIED", "DUMMY"} -> "DONE"
      [] row.result = "NOT_APPLIED_AFTER_UNCERTAIN_DISPATCH" -> "NOT_DONE"
      [] row.result = "OUTCOME_UNKNOWN" -> "UNKNOWN"
      [] OTHER -> "none"

Abstract == INSTANCE SingleShot WITH
    phase <- [o \in Operations |-> PhaseOf(RowOf(o))],
    effects <- [o \in Operations |->
                   Len(impulses[o]) + RowOf(o).effect_count],
    account <- [o \in Operations |-> AccountOf(RowOf(o))]

\* Whatever happens to the Robot's processes, every operation goes through a
\* single shot: one authority, at most one effect, one true and final account.
ImplementsSingleShot == Abstract!Spec
=============================================================================
