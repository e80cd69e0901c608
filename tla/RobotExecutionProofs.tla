------------------------ MODULE RobotExecutionProofs ------------------------
(***************************************************************************)
(* Type correctness of RobotExecution, for every number of processes,      *)
(* contracts, envelopes, devices, crashes and clock steps.                 *)
(***************************************************************************)
EXTENDS RobotExecution, FiniteSetTheorems, TLAPS

-----------------------------------------------------------------------------
(* Types.                                                                  *)

\* The empty records are of the right type.
LEMMA EmptyType ==
    /\ NoRow \in Rows
    /\ NoBudget \in Budgets
    /\ NoTask \in Tasks
BY RobotAssumption
   DEF RobotAssumption, NoRow, NoBudget, NoTask, Rows, Budgets, Tasks, Times,
       JournalState, Terminal, Results, Resolutions, Reasons, Outcomes

\* The rows a version 3 database may hold are rows of the journal.
LEMMA V3RowType ==
    ASSUME NEW kind \in RowKinds, NEW d \in Devices
    PROVE  V3Row(kind, d) \in Rows
<1>1. NoRow \in Rows /\ 1 \in Times
  BY EmptyType, RobotAssumption DEF RobotAssumption, Times
<1>2. CASE kind = "NONE"
  BY <1>1, <1>2 DEF V3Row
<1>3. CASE kind = "ACCEPTED"
  <2>1. V3Row(kind, d) = [NoRow EXCEPT !.state = "ACCEPTED", !.accepted_at = 1]
    BY <1>3 DEF V3Row
  <2> QED BY <1>1, <2>1 DEF Rows, JournalState
<1>4. CASE kind = "DISPATCHED"
  <2>1. V3Row(kind, d) = [NoRow EXCEPT !.state = "DISPATCH_RECORDED",
                              !.accepted_at = 1, !.dispatch_at = 1, !.device = d]
    BY <1>4 DEF V3Row
  <2> QED BY <1>1, <2>1 DEF Rows, JournalState
<1>5. CASE kind = "DISPATCHED_DUMMY"
  <2>1. V3Row(kind, d) = [NoRow EXCEPT !.state = "DISPATCH_RECORDED",
                              !.accepted_at = 1, !.dispatch_at = 1]
    BY <1>5 DEF V3Row
  <2> QED BY <1>1, <2>1 DEF Rows, JournalState
<1>6. CASE kind = "SUCCEEDED"
  <2>1. V3Row(kind, d) = [NoRow EXCEPT !.state = "SUCCEEDED", !.accepted_at = 1,
                              !.dispatch_at = 1, !.device = d,
                              !.terminal_at = 1, !.result = "APPLIED"]
    BY <1>6 DEF V3Row
  <2> QED BY <1>1, <2>1
      DEF Rows, JournalState, Terminal, Results, Resolutions
<1> QED BY <1>2, <1>3, <1>4, <1>5, <1>6 DEF RowKinds

\* The database that is found at the start is well typed.
LEMMA InitType == Init => TypeOK
<1> SUFFICES ASSUME Init PROVE TypeOK
  OBVIOUS
<1>1. PICK kind \in [Contracts -> LegacyRows], d \in Devices : Init!(kind, d)
  BY DEF Init
<1>2. JournalType
  <2>1. \A c \in Contracts : kind[c] \in RowKinds
    BY RobotAssumption DEF RobotAssumption
  <2> QED BY <1>1, <2>1, V3RowType DEF JournalType
<1>3. StoreType
  <2>1. legacy \in [Contracts -> {"none", "LEGACY_OBSERVE_ONLY", "LEGACY_UNBUDGETED_HOLD"}]
    BY <1>1 DEF Classification
  <2>2. budget \in [Operations -> Budgets]
    BY <1>1, EmptyType
  <2>3. denial \in [Contracts -> {"none"} \cup Reasons]
    BY <1>1
  <2>4. outbox \subseteq (Contracts \cup Envelopes) \X EventNames
    <3>1. \A c \in Contracts : V3Events(journal[c]) \subseteq EventNames
      BY DEF V3Events, EventNames
    <3> QED BY <1>1, <3>1
  <2> QED BY <2>1, <2>2, <2>3, <2>4 DEF StoreType
<1>4. InboxType
  BY <1>1, RobotAssumption DEF RobotAssumption, InboxType, InboxState, Times, Messages
<1>5. WorldType
  <2>1. {<<>>, <<d>>} \subseteq Seq(Devices)
    OBVIOUS
  <2>2. impulses \in [Operations -> Seq(Devices)]
    BY <1>1, <2>1
  <2>3. clock \in 1..MaxClock /\ faults \in 0..MaxFaults
    BY <1>1, RobotAssumption DEF RobotAssumption
  <2> QED BY <2>2, <2>3 DEF WorldType
<1>6. ProcessType
  BY <1>1, EmptyType DEF ProcessType, Labels, Configs
<1> QED BY <1>2, <1>3, <1>4, <1>5, <1>6 DEF TypeOK

-----------------------------------------------------------------------------
(* Steps that change the store.                                            *)

\* No step takes a row out of the journal.
RowsKept == \A c \in Contracts :
                journal[c].state # "NONE" => journal'[c].state # "NONE"

\* An envelope carries a contract.
LEMMA EnvelopeContract == \A m \in Envelopes : ContractOf[m] \in Contracts
BY RobotAssumption DEF RobotAssumption

\* A handler past its admission has a contract of an operation in hand.
LEMMA ContractInHand ==
    ASSUME TypeInv, NEW s \in Services, Msg(s) \in Envelopes
    PROVE  /\ Contract(s) \in Contracts
           /\ Operation(s) \in Operations
           /\ journal[Contract(s)] \in Rows
           /\ budget[Operation(s)] \in Budgets
           /\ clock \in Times
           /\ config[s].window \in Windows \cup {0}
           /\ config[s].adapter \in Devices \cup {NoDevice}
           /\ task[s] \in Tasks
BY RobotAssumption
   DEF RobotAssumption, TypeInv, TypeOK, JournalType, StoreType, WorldType,
       ProcessType, Configs, Times, Contract, Operation

\* Events of the contract in hand are rows of the outbox.
LEMMA EmitType ==
    ASSUME NEW c \in Contracts, NEW names \in SUBSET EventNames,
           outbox \subseteq (Contracts \cup Envelopes) \X EventNames,
           Emit(c, names)
    PROVE  outbox' \subseteq (Contracts \cup Envelopes) \X EventNames
BY DEF Emit

\* A new acceptance and the budget snapshotted with it are rows of their types.
LEMMA AcceptType ==
    ASSUME TypeInv, NEW s \in Services, Accept(s)
    PROVE  JournalType' /\ StoreType'
<1> DEFINE c == Contract(s)
<1>1. Msg(s) \in Envelopes
  BY DEF Accept, Admitting, Assigned
<1>2. [NoRow EXCEPT !.state = "ACCEPTED", !.accepted_at = clock] \in Rows
  BY <1>1, EmptyType, ContractInHand DEF Rows, JournalState
<1>3. JournalType'
  BY <1>2 DEF TypeInv, TypeOK, JournalType, Accept
<1>4. [bound |-> c, window |-> config[s].window,
       deadline_at |-> clock + config[s].window, high_water |-> clock,
       reserved_at |-> 0, resolution |-> "none"] \in Budgets
  <2>1. config[s].window \in Windows \cup {0} /\ clock \in Times
    BY <1>1, ContractInHand
  <2>2. config[s].window \in Nat
    <3>1. Windows \subseteq Nat
      BY RobotAssumption DEF RobotAssumption
    <3>2. 0 \in Nat
      OBVIOUS
    <3> QED BY <2>1, <3>1, <3>2, Zenon
  <2>3. clock + config[s].window \in Nat /\ 0 \in Times
    BY <2>1, <2>2, RobotAssumption DEF RobotAssumption, Times
  <2> QED BY <1>1, <2>1, <2>3, ContractInHand DEF Budgets, Results
<1>5. budget' \in [Operations -> Budgets]
  BY <1>4 DEF TypeInv, TypeOK, StoreType, Accept
<1>6. StoreType'
  BY <1>5 DEF TypeInv, TypeOK, StoreType, Accept
<1> QED BY <1>3, <1>6

\* Going on from the journal leaves the work in hand right: only a row that
\* exists is replayed.
LEMMA ResumeType ==
    ASSUME TypeInv, NEW s \in Services, Resume(s)
    PROVE  ProcessType' /\ WorkInHand'
<1>1. /\ ResumePoint(journal[Contract(s)]) \in {"terminal", "reserve", "running"}
      /\ ResumePoint(journal[Contract(s)]) = "terminal" =>
            journal[Contract(s)].state # "NONE"
  BY DEF ResumePoint, Terminal
<1>2. Msg(s) \in Envelopes
  BY DEF Resume, Admitting, Assigned
<1>3. ProcessType'
  BY <1>1 DEF TypeInv, TypeOK, ProcessType, Resume, Goto, locals, Labels
<1>4. WorkInHand'
  BY <1>1, <1>2
     DEF TypeInv, TypeOK, ProcessType, WorkInHand, Resume, Goto, locals, store,
         Msg, External, Contract, ContractLabels
<1> QED BY <1>3, <1>4

\* The dispatch boundary keeps the journal and the budget in their types.
LEMMA ReserveType ==
    ASSUME TypeInv, NEW s \in Services, Reserve(s)
    PROVE  JournalType' /\ StoreType' /\ ProcessType'
<1>1. Msg(s) \in Envelopes
  BY DEF TypeInv, WorkInHand, ContractLabels, Reserve
<1>2. DispatchDevice(s) \in Devices \cup {NoDevice}
  BY <1>1, ContractInHand DEF DispatchDevice
<1>3. JournalType'
  BY SMTT(30), <1>1, <1>2, ContractInHand
     DEF TypeInv, TypeOK, JournalType, Reserve, Rows, JournalState
<1>4. budget' \in [Operations -> Budgets]
  BY SMTT(30), <1>1, ContractInHand
     DEF TypeInv, TypeOK, StoreType, Reserve, Budgets
<1>5. StoreType'
  BY <1>4 DEF TypeInv, TypeOK, StoreType, Reserve
<1>6. task' \in [Services -> Tasks]
  BY ZenonT(30) DEF TypeInv, TypeOK, ProcessType, Reserve, Tasks
<1>7. ProcessType'
  BY <1>6 DEF TypeInv, TypeOK, ProcessType, Reserve, Goto, locals, Labels
<1> QED BY <1>3, <1>5, <1>7

\* An impulse appends one device to the record of presses.
LEMMA PressType ==
    ASSUME TypeInv, NEW s \in Services, pc[s] = "press",
           Impulse(s) \/ UNCHANGED impulses
    PROVE  impulses' \in [Operations -> Seq(Devices)]
<1>1. config[s].adapter \in Devices
  BY DEF TypeInv, TypeOK, ProcessType, Configs, WorkInHand, External
<1>2. \A o \in Operations : Append(impulses[o], config[s].adapter) \in Seq(Devices)
  BY <1>1 DEF TypeInv, TypeOK, WorldType
<1>3. CASE Impulse(s)
  BY <1>2, <1>3 DEF TypeInv, TypeOK, WorldType, Impulse
<1>4. CASE UNCHANGED impulses
  BY <1>4 DEF TypeInv, TypeOK, WorldType
<1> QED BY <1>3, <1>4

\* The verdict of an observation is a terminal row of the journal's type.
LEMMA ResolveType ==
    ASSUME TypeInv, NEW s \in Services, Resolve(s)
    PROVE  JournalType' /\ StoreType'
<1>1. Msg(s) \in Envelopes
  BY DEF TypeInv, WorkInHand, ContractLabels, Resolve
<1>2. /\ TerminalFor(task[s].outcome) \in Terminal
      /\ ResolutionOf(task[s].outcome) \in Resolutions
  BY <1>1, ContractInHand
     DEF Tasks, Outcomes, TerminalFor, Terminal, ResolutionOf, Resolutions
<1>3. JournalType'
  BY SMTT(30), <1>1, <1>2, ContractInHand
     DEF TypeInv, TypeOK, JournalType, Resolve, Rows, JournalState, Results
<1>4. budget' \in [Operations -> Budgets]
  BY <1>1, <1>2, ContractInHand
     DEF TypeInv, TypeOK, StoreType, Resolve, Budgets, Results, LaterOf
<1>5. outbox' \subseteq (Contracts \cup Envelopes) \X EventNames
  BY <1>1, <1>2, ContractInHand, EmitType
     DEF TypeInv, TypeOK, StoreType, Resolve, EventNames, Terminal
<1>6. StoreType'
  BY <1>4, <1>5 DEF TypeInv, TypeOK, StoreType, Resolve
<1> QED BY <1>3, <1>6

\* A dispatch of the database dummy.
LEMMA RecordDispatchType ==
    ASSUME TypeInv, NEW s \in Services, RecordDispatch(s)
    PROVE  JournalType'
<1>1. Msg(s) \in Envelopes
  BY DEF TypeInv, WorkInHand, ContractLabels, RecordDispatch
<1> QED BY <1>1, ContractInHand
        DEF TypeInv, TypeOK, JournalType, RecordDispatch, Rows, JournalState

\* The effect and the terminal event of the database dummy.
LEMMA CommitType ==
    ASSUME TypeInv, NEW s \in Services, CommitDummyEffect(s)
    PROVE  JournalType' /\ StoreType'
<1>1. Msg(s) \in Envelopes
  BY DEF TypeInv, WorkInHand, ContractLabels, CommitDummyEffect
<1>2. JournalType'
  BY SMTT(30), <1>1, ContractInHand
     DEF TypeInv, TypeOK, JournalType, CommitDummyEffect, Rows, JournalState,
         Terminal, Results
<1>3. StoreType'
  BY <1>1, ContractInHand, EmitType
     DEF TypeInv, TypeOK, StoreType, CommitDummyEffect, EventNames
<1> QED BY <1>2, <1>3

\* The events of a contract in progress.
LEMMA EventType ==
    ASSUME TypeInv, NEW s \in Services,
           AcceptedEvent(s) \/ DispatchEvent(s) \/ RunExternal(s) \/ RunDummy(s)
    PROVE  StoreType'
<1>1. Msg(s) \in Envelopes
  BY DEF TypeInv, WorkInHand, ContractLabels, AcceptedEvent, DispatchEvent,
         RunExternal, RunDummy
<1>2. \E names \in SUBSET EventNames : Emit(Contract(s), names)
  BY DEF AcceptedEvent, DispatchEvent, RunExternal, RunDummy, EventNames
<1>3. UNCHANGED <<legacy, budget, denial>>
  BY DEF AcceptedEvent, DispatchEvent, RunExternal, RunDummy
<1> QED BY <1>1, <1>2, <1>3, ContractInHand, EmitType
        DEF TypeInv, TypeOK, StoreType

\* The replay goes out under the contract or under the envelope in hand.
LEMMA ReplayType ==
    ASSUME TypeInv, NEW s \in Services, ReplayTerminal(s)
    PROVE  StoreType'
<1>1. Msg(s) \in Envelopes
  BY DEF TypeInv, WorkInHand, ContractLabels, ReplayTerminal
<1>2. ReplayedState(s) \in EventNames
  <2>1. journal[Contract(s)] \in Rows
    BY <1>1, ContractInHand
  <2>2. journal[Contract(s)].state # "NONE"
    BY DEF TypeInv, WorkInHand, ReplayTerminal
  <2> QED BY <2>1, <2>2
          DEF ReplayedState, Rows, JournalState, EventNames, Terminal
<1> QED BY <1>1, <1>2, ContractInHand
        DEF TypeInv, TypeOK, StoreType, ReplayTerminal, EventNames

\* A denial, or the exception in its place.
LEMMA DenyType ==
    ASSUME TypeInv, NEW s \in Services, Msg(s) \in Envelopes,
           NEW reason \in Reasons, NEW previous, Deny(s, reason, previous),
           UNCHANGED <<received_at, legacy, world, locals, faults>>
    PROVE  TypeInv'
<1>1. InboxType'
  BY DEF TypeInv, TypeOK, InboxType, InboxState, Deny, Complete
<1>2. JournalType'
  BY ContractInHand
     DEF TypeInv, TypeOK, JournalType, Deny, Rows, JournalState, Terminal, Results
<1>3. StoreType'
  <2>1. budget' \in [Operations -> Budgets]
    BY ContractInHand
       DEF TypeInv, TypeOK, StoreType, Deny, Budgets, Results, LaterOf
  <2>2. denial' \in [Contracts -> {"none"} \cup Reasons]
    BY DEF TypeInv, TypeOK, StoreType, Deny
  <2>3. outbox' \subseteq (Contracts \cup Envelopes) \X EventNames
    BY ContractInHand DEF TypeInv, TypeOK, StoreType, Deny, EventNames
  <2> QED BY <2>1, <2>2, <2>3 DEF TypeInv, TypeOK, StoreType
<1>4. WorldType'
  BY DEF TypeInv, TypeOK, WorldType, world
<1>5. ProcessType'
  BY SMTT(30), EmptyType
     DEF TypeInv, TypeOK, ProcessType, locals, Deny, NextClaim, Raise, Leave,
         Goto, Labels
<1>6. RowsKept
  BY DEF TypeInv, TypeOK, JournalType, Rows, Deny, RowsKept
<1>7. WorkInHand'
  BY SMTT(20), <1>6, EnvelopeContract
     DEF TypeInv, TypeOK, ProcessType, locals, Deny, NextClaim, Raise, Leave,
         Goto, RowsKept, WorkInHand, ContractLabels, Msg, External, Contract
<1> QED BY <1>1, <1>2, <1>3, <1>4, <1>5, <1>7 DEF TypeInv, TypeOK
-----------------------------------------------------------------------------
(* Every step keeps the types.                                             *)

\* The ways out of a call that change nothing but the process and the lock.
Exits(s) ==
    /\ Leave(s)
    /\ Goto(s, "down") \/ Goto(s, "idle")
    /\ UNCHANGED <<rows, store, world, locals>>
    /\ faults' \in {faults, faults + 1} /\ faults' <= MaxFaults

ExitStep(s) ==
    \/ AckFails(s) \/ HandleBusy(s) \/ Return(s) \/ RefuseAdmission(s)
    \/ RefuseRollback(s) \/ RefuseClock(s) \/ ObserveRaises(s)
    \/ RefuseResolution(s) \/ CancelPhases(s) \/ ReplayCollides(s) \/ Crash(s)

\* Every such step is one of those ways out.
LEMMA ExitStepExits ==
    ASSUME TypeInv, NEW s \in Services, ExitStep(s)
    PROVE  Exits(s)
<1>1. faults \in Nat /\ faults <= MaxFaults /\ MaxFaults \in Nat
  BY RobotAssumption DEF RobotAssumption, TypeInv, TypeOK, WorldType
<1> QED BY <1>1
        DEF ExitStep, Exits, AckFails, HandleBusy, Return, RefuseAdmission,
            RefuseRollback, RefuseClock, ObserveRaises, RefuseResolution,
            CancelPhases, ReplayCollides, Crash, Fault, Raise, locals, Goto

\* Every step that ends a call, with or without an exception, keeps the types.
LEMMA ExitType ==
    ASSUME TypeInv, NEW s \in Services, Exits(s)
    PROVE  TypeInv'
<1>1. InboxType' /\ JournalType' /\ StoreType'
  BY DEF TypeInv, TypeOK, InboxType, JournalType, StoreType, Exits, rows, store
<1>2. WorldType'
  BY RobotAssumption
     DEF RobotAssumption, TypeInv, TypeOK, WorldType, Exits, world
<1>3. ProcessType'
  BY EmptyType DEF Exits, Leave, TypeInv, TypeOK, ProcessType, locals, Goto, Labels
<1>4. WorkInHand'
  BY DEF Exits, Leave, TypeInv, TypeOK, ProcessType, locals, store, WorkInHand,
         ContractLabels, Msg, External, Contract, Goto
<1> QED BY <1>1, <1>2, <1>3, <1>4 DEF TypeInv, TypeOK

\* Startup, delivery and claims.
LEMMA ClaimType ==
    ASSUME TypeInv, NEW s \in Services,
           \/ Startup(s) \/ Handle(s)
           \/ \E m \in Messages : ReceiveFrame(s, m) \/ ClaimNext(s, m)
    PROVE  TypeInv'
<1>1. CASE Startup(s)
  <2>1. PICK a \in Adapters, w \in Windows : Start(s, a, w)
    BY <1>1 DEF Startup
  <2>2. InboxType'
    BY <2>1 DEF Start, TypeInv, TypeOK, InboxType, InboxState, RecoverInterrupted
  <2>3. 2 * Cardinality(Claimable(inbox')) \in Nat
    <3>1. Claimable(inbox') \subseteq Messages
      BY <2>2 DEF Claimable, InboxType
    <3>2. IsFiniteSet(Claimable(inbox'))
      BY <3>1, FS_Subset, RobotAssumption DEF RobotAssumption
    <3>3. Cardinality(Claimable(inbox')) \in Nat
      BY <3>2, FS_CardinalityType
    <3> QED BY <3>3
  <2>4. [adapter |-> a, window |-> IF a = NoDevice THEN 0 ELSE w] \in Configs
    BY RobotAssumption DEF RobotAssumption, Configs
  <2>5. JournalType' /\ StoreType' /\ WorldType'
    BY <2>1 DEF Start, TypeInv, TypeOK, JournalType, StoreType, WorldType, store,
                world
  <2>6. ProcessType'
    BY <2>1, <2>3, <2>4
       DEF Start, TypeInv, TypeOK, ProcessType, Goto, Labels
  <2>7. WorkInHand'
    BY <2>1 DEF Start, TypeInv, TypeOK, ProcessType, WorkInHand, ContractLabels,
                Goto, Msg, External, Contract, store
  <2> QED BY <2>2, <2>5, <2>6, <2>7 DEF TypeInv, TypeOK
<1>2. CASE Handle(s)
  <2>1. InboxType'
    BY <1>2 DEF Handle, TypeInv, TypeOK, InboxType, InboxState, Claim
  <2>2. JournalType' /\ StoreType' /\ WorldType'
    BY <1>2 DEF Handle, TypeInv, TypeOK, JournalType, StoreType, WorldType, store,
                world
  <2>3. ProcessType'
    BY <1>2, EmptyType
       DEF Handle, Leave, TypeInv, TypeOK, ProcessType, Goto, Labels
  <2>4. WorkInHand'
    BY <1>2 DEF Handle, Leave, TypeInv, TypeOK, ProcessType, WorkInHand,
                ContractLabels, Goto, Msg, External, Contract, store
  <2> QED BY <2>1, <2>2, <2>3, <2>4 DEF TypeInv, TypeOK
<1>3. ASSUME NEW m \in Messages, ReceiveFrame(s, m)
      PROVE  TypeInv'
  <2>1. InboxType'
    BY <1>3, RobotAssumption
       DEF RobotAssumption, ReceiveFrame, TypeInv, TypeOK, InboxType, InboxState,
           WorldType, Receive, Times
  <2>2. JournalType' /\ StoreType' /\ WorldType'
    BY <1>3 DEF ReceiveFrame, TypeInv, TypeOK, JournalType, StoreType, WorldType,
                store, world
  <2>3. [NoTask EXCEPT !.msg = m] \in Tasks
    BY EmptyType DEF Tasks
  <2>4. ProcessType'
    BY <1>3, <2>3
       DEF ReceiveFrame, TypeInv, TypeOK, ProcessType, locals, Goto, Labels
  <2>5. WorkInHand'
    BY <1>3 DEF ReceiveFrame, TypeInv, TypeOK, ProcessType, WorkInHand, locals,
                ContractLabels, Goto, Msg, External, Contract, store
  <2> QED BY <2>1, <2>2, <2>4, <2>5 DEF TypeInv, TypeOK
<1>4. ASSUME NEW m \in Messages, ClaimNext(s, m)
      PROVE  TypeInv'
  <2>1. InboxType'
    BY <1>4 DEF ClaimNext, TypeInv, TypeOK, InboxType, InboxState, Claim
  <2>2. JournalType' /\ StoreType' /\ WorldType'
    BY <1>4 DEF ClaimNext, TypeInv, TypeOK, JournalType, StoreType, WorldType,
                store, world
  <2>3. [NoTask EXCEPT !.msg = m] \in Tasks
    BY EmptyType DEF Tasks
  <2>4. ProcessType'
    BY <1>4, <2>3
       DEF ClaimNext, MayClaim, TypeInv, TypeOK, ProcessType, locals, Goto, Labels
  <2>5. WorkInHand'
    BY <1>4 DEF ClaimNext, TypeInv, TypeOK, ProcessType, WorkInHand, locals,
                ContractLabels, Goto, Msg, External, Contract, store
  <2> QED BY <2>1, <2>2, <2>4, <2>5 DEF TypeInv, TypeOK
<1> QED BY <1>1, <1>2, <1>3, <1>4

\* Messages that need no execution.
LEMMA TakeType ==
    ASSUME TypeInv, NEW s \in Services,
           TakeAssignment(s) \/ MissingAssignment(s) \/ HoldUnsupported(s)
           \/ CompleteInbox(s)
    PROVE  TypeInv'
<1>1. InboxType'
  BY DEF TakeAssignment, MissingAssignment, HoldUnsupported, CompleteInbox,
         TypeInv, TypeOK, InboxType, InboxState, Complete, Fail
<1>2. JournalType' /\ WorldType'
  BY DEF TakeAssignment, MissingAssignment, HoldUnsupported, CompleteInbox,
         TypeInv, TypeOK, JournalType, WorldType, store, world
<1>3. StoreType'
  <2>1. CASE HoldUnsupported(s)
    <3>1. Msg(s) \in Envelopes
      BY <2>1 DEF HoldUnsupported, Assigned
    <3> QED BY <2>1, <3>1, ContractInHand
            DEF HoldUnsupported, TypeInv, TypeOK, StoreType, EventNames
  <2>2. CASE TakeAssignment(s) \/ MissingAssignment(s) \/ CompleteInbox(s)
    BY <2>2 DEF TakeAssignment, MissingAssignment, CompleteInbox, TypeInv, TypeOK,
                StoreType, store
  <2> QED BY <2>1, <2>2
<1>4. ProcessType'
  BY EmptyType
     DEF TakeAssignment, MissingAssignment, HoldUnsupported, CompleteInbox,
         NextClaim, Raise, Leave, TypeInv, TypeOK, ProcessType, locals, Goto, Labels
<1>5. WorkInHand'
  BY DEF TakeAssignment, MissingAssignment, HoldUnsupported, CompleteInbox,
         NextClaim, Raise, Leave, TypeInv, TypeOK, ProcessType, WorkInHand, locals,
         store, ContractLabels, Goto, Msg, External, Contract
<1> QED BY <1>1, <1>2, <1>3, <1>4, <1>5 DEF TypeInv, TypeOK

\* Denials.
LEMMA DenialType ==
    ASSUME TypeInv, NEW s \in Services,
           HoldLegacy(s) \/ DenyScope(s) \/ DenyBudget(s)
    PROVE  TypeInv'
<1>1. Msg(s) \in Envelopes
  BY DEF HoldLegacy, DenyScope, DenyBudget, Admitting, Assigned, TypeInv,
         WorkInHand, ContractLabels
<1>2. UNCHANGED <<received_at, legacy, world, locals, faults>>
  BY DEF HoldLegacy, DenyScope, DenyBudget
<1>3. PICK reason \in Reasons, previous \in {"RECEIVED", "ACCEPTED"} :
          Deny(s, reason, previous)
  BY DEF HoldLegacy, DenyScope, DenyBudget, Reasons
<1> QED BY <1>1, <1>2, <1>3, DenyType

\* The steps of a contract from acceptance to its terminal state.
LEMMA ExecutionType ==
    ASSUME TypeInv, NEW s \in Services,
           \/ Accept(s) \/ Resume(s) \/ AcceptedEvent(s) \/ Reserve(s)
           \/ RecordDispatch(s) \/ DispatchEvent(s) \/ RunExternal(s)
           \/ Resolve(s) \/ RunDummy(s) \/ CommitDummyEffect(s)
           \/ ReplayTerminal(s)
    PROVE  TypeInv'
<1>1. InboxType' /\ WorldType'
  BY DEF Accept, Resume, AcceptedEvent, Reserve, RecordDispatch, DispatchEvent,
         RunExternal, Resolve, RunDummy, CommitDummyEffect, ReplayTerminal,
         TypeInv, TypeOK, InboxType, WorldType, rows, world
<1>2. JournalType'
  BY AcceptType, ReserveType, RecordDispatchType, ResolveType, CommitType
     DEF Resume, AcceptedEvent, DispatchEvent, RunExternal, RunDummy,
         ReplayTerminal, TypeInv, TypeOK, JournalType, store
<1>3. StoreType'
  BY AcceptType, ReserveType, ResolveType, CommitType, EventType, ReplayType
     DEF Resume, RecordDispatch, TypeInv, TypeOK, StoreType, store
<1>4. ProcessType'
  BY ResumeType, ReserveType
     DEF Accept, AcceptedEvent, RecordDispatch, DispatchEvent, RunExternal, Resolve,
         RunDummy, CommitDummyEffect, ReplayTerminal, TypeInv, TypeOK, ProcessType,
         locals, Goto, Labels
<1>5. RowsKept
  <2>1. CASE Resume(s) \/ AcceptedEvent(s) \/ DispatchEvent(s) \/ RunExternal(s)
             \/ RunDummy(s) \/ ReplayTerminal(s)
    BY <2>1 DEF RowsKept, Resume, AcceptedEvent, DispatchEvent, RunExternal,
                RunDummy, ReplayTerminal, store
  <2>2. CASE Accept(s)
    BY <2>2 DEF RowsKept, Accept, TypeInv, TypeOK, JournalType, NoRow
  <2>3. CASE Reserve(s) \/ RecordDispatch(s) \/ CommitDummyEffect(s)
    BY <2>3 DEF RowsKept, Reserve, RecordDispatch, CommitDummyEffect, TypeInv,
                TypeOK, JournalType, Rows
  <2>4. CASE Resolve(s)
    BY <2>4 DEF RowsKept, Resolve, TerminalFor, TypeInv, TypeOK, JournalType, Rows
  <2> QED BY <2>1, <2>2, <2>3, <2>4
<1>6. WorkInHand'
  <2>1. CASE Resume(s)
    BY SMTT(30), <2>1, ResumeType
  <2>2. CASE Accept(s)
    BY <2>2, <1>5, EnvelopeContract
       DEF Accept, Admitting, Assigned, TypeInv, TypeOK, ProcessType, WorkInHand,
           RowsKept, locals, ContractLabels, Goto, Msg, External, Contract
  <2>3. CASE Reserve(s)
    BY ZenonT(30), <2>3, <1>5, EnvelopeContract
       DEF Reserve, TypeInv, TypeOK, ProcessType, Tasks, WorkInHand, RowsKept,
           locals, ContractLabels, Goto, Msg, External, Contract
  <2>4. CASE AcceptedEvent(s) \/ RecordDispatch(s) \/ DispatchEvent(s)
             \/ RunExternal(s) \/ Resolve(s) \/ RunDummy(s)
             \/ CommitDummyEffect(s) \/ ReplayTerminal(s)
    BY ZenonT(30), <2>4, <1>5, EnvelopeContract
       DEF AcceptedEvent, RecordDispatch, DispatchEvent, RunExternal, Resolve,
           RunDummy, CommitDummyEffect, ReplayTerminal, TypeInv, TypeOK,
           ProcessType, WorkInHand, RowsKept, locals, ContractLabels, Goto, Msg,
           External, Contract
  <2> QED BY <2>1, <2>2, <2>3, <2>4
<1> QED BY <1>1, <1>2, <1>3, <1>4, <1>6 DEF TypeInv, TypeOK

\* An observation is noted in the handler's locals.
LEMMA ObserveTask ==
    ASSUME TypeInv, NEW s \in Services, NEW answer \in Outcomes,
           Observe(s, answer)
    PROVE  /\ task' \in [Services -> Tasks]
           /\ \A t \in Services : task'[t].msg = task[t].msg
<1> DEFINE after == [task[s] EXCEPT !.outcome = answer, !.observed_at = clock]
<1>1. clock \in Times /\ task[s] \in Tasks
  BY RobotAssumption
     DEF RobotAssumption, TypeInv, TypeOK, WorldType, ProcessType, Times
<1>2. after \in Tasks /\ after.msg = task[s].msg
  BY <1>1 DEF Tasks
<1>3. task' = [task EXCEPT ![s] = after]
  BY <1>1 DEF Observe, TypeInv, TypeOK, ProcessType, Tasks
<1> HIDE DEF after
<1> QED BY <1>2, <1>3 DEF TypeInv, TypeOK, ProcessType

\* The device.
LEMMA DeviceType ==
    ASSUME TypeInv, NEW s \in Services,
           \/ Press(s) \/ PressRaises(s)
           \/ \E answer \in Outcomes : Observe(s, answer)
    PROVE  TypeInv'
<1>1. InboxType' /\ JournalType' /\ StoreType'
  BY DEF Press, PressRaises, Observe, TypeInv, TypeOK, InboxType, JournalType,
         StoreType, rows, store
<1>2. impulses' \in [Operations -> Seq(Devices)]
  <2>1. CASE Press(s) \/ PressRaises(s)
    BY <2>1, PressType DEF Press, PressRaises
  <2>2. CASE \E answer \in Outcomes : Observe(s, answer)
    BY <2>2 DEF Observe, world, TypeInv, TypeOK, WorldType
  <2> QED BY <2>1, <2>2
<1>3. WorldType'
  <2>1. UNCHANGED clock
    BY DEF Press, PressRaises, Observe, world, store
  <2>2. faults' = faults \/ Fault
    BY DEF Press, PressRaises, Observe
  <2> QED BY <1>2, <2>1, <2>2, RobotAssumption
          DEF RobotAssumption, Fault, TypeInv, TypeOK, WorldType
<1>4. ProcessType'
  <2>1. CASE Press(s)
    BY <2>1 DEF Press, TypeInv, TypeOK, ProcessType, locals, Goto, Labels
  <2>2. CASE PressRaises(s)
    BY <2>2, EmptyType
       DEF PressRaises, Raise, Leave, TypeInv, TypeOK, ProcessType, locals, Goto,
           Labels
  <2>3. ASSUME NEW answer \in Outcomes, Observe(s, answer)
        PROVE  ProcessType'
    <3>1. task' \in [Services -> Tasks]
      BY <2>3, ObserveTask
    <3> QED BY <2>3, <3>1
            DEF Observe, TypeInv, TypeOK, ProcessType, locals, Goto, Labels
  <2> QED BY <2>1, <2>2, <2>3
<1>5. WorkInHand'
  <2>1. CASE Press(s)
    BY <2>1 DEF Press, TypeInv, TypeOK, ProcessType, WorkInHand, locals, store,
                ContractLabels, Goto, Msg, External, Contract
  <2>2. CASE PressRaises(s)
    BY <2>2 DEF PressRaises, Raise, Leave, TypeInv, TypeOK, ProcessType, WorkInHand,
                locals, store, ContractLabels, Goto, Msg, External, Contract
  <2>3. ASSUME NEW answer \in Outcomes, Observe(s, answer)
        PROVE  WorkInHand'
    <3>1. \A t \in Services : task'[t].msg = task[t].msg
      BY <2>3, ObserveTask
    <3>2. pc' = [pc EXCEPT ![s] = "resolve"] /\ pc[s] = "observe"
      BY <2>3 DEF Observe, Goto
    <3>3. UNCHANGED <<config, journal>>
      BY <2>3 DEF Observe, locals, store
    <3> QED BY <3>1, <3>2, <3>3
            DEF TypeInv, TypeOK, ProcessType, WorkInHand, ContractLabels, Msg,
                External, Contract
  <2> QED BY <2>1, <2>2, <2>3
<1> QED BY <1>1, <1>3, <1>4, <1>5 DEF TypeInv, TypeOK

\* The clock.
LEMMA ClockType ==
    ASSUME TypeInv, Tick \/ StepBack
    PROVE  TypeInv'
<1>1. WorldType'
  BY RobotAssumption
     DEF RobotAssumption, Tick, StepBack, Fault, TypeInv, TypeOK, WorldType
<1>2. InboxType' /\ JournalType' /\ StoreType' /\ ProcessType' /\ WorkInHand'
  BY DEF Tick, StepBack, TypeInv, TypeOK, InboxType, JournalType, StoreType,
         ProcessType, WorkInHand, Msg, External, Contract, rows, store, locals
<1> QED BY <1>1, <1>2 DEF TypeInv, TypeOK

\* A stuttering step.
LEMMA StutterType ==
    ASSUME TypeInv, UNCHANGED vars
    PROVE  TypeInv'
BY DEF TypeInv, TypeOK, InboxType, JournalType, StoreType, WorldType, ProcessType,
       WorkInHand, Msg, External, Contract, vars, rows, store, world, locals

\* The steps of a process by their kind.
LEMMA NextCases ==
    ASSUME Next
    PROVE  \/ Tick \/ StepBack
           \/ \E s \in Services :
                 \/ ExitStep(s)
                 \/ Startup(s) \/ Handle(s)
                 \/ \E m \in Messages : ReceiveFrame(s, m) \/ ClaimNext(s, m)
                 \/ TakeAssignment(s) \/ MissingAssignment(s)
                 \/ HoldUnsupported(s) \/ CompleteInbox(s)
                 \/ HoldLegacy(s) \/ DenyScope(s) \/ DenyBudget(s)
                 \/ Accept(s) \/ Resume(s) \/ AcceptedEvent(s) \/ Reserve(s)
                 \/ RecordDispatch(s) \/ DispatchEvent(s) \/ RunExternal(s)
                 \/ Resolve(s) \/ RunDummy(s) \/ CommitDummyEffect(s)
                 \/ ReplayTerminal(s)
                 \/ Press(s) \/ PressRaises(s)
                 \/ \E answer \in Outcomes : Observe(s, answer)
BY DEF Next, Progress, Failure, Admit, Dispatch, Execute, ExitStep

\* No step of any process, of the clock or of the environment leaves the types.
LEMMA TypeStep == TypeInv /\ [Next]_vars => TypeInv'
<1> SUFFICES ASSUME TypeInv, [Next]_vars PROVE TypeInv'
  OBVIOUS
<1>1. CASE UNCHANGED vars
  BY <1>1, StutterType
<1>2. CASE Next
  BY <1>2, NextCases, ExitStepExits, ExitType, ClaimType, TakeType, DenialType,
     ExecutionType, DeviceType, ClockType
<1> QED BY <1>1, <1>2

\* Nothing is in hand before a process has started.
LEMMA InitWorkInHand == Init => WorkInHand
BY DEF Init, WorkInHand, ContractLabels

\* Every table and every local of every process stays within its type.
THEOREM TypeCorrect == Spec => []TypeOK
<1>1. Init => TypeInv
  BY InitType, InitWorkInHand DEF TypeInv
<1>2. TypeInv => TypeOK
  BY DEF TypeInv
<1> QED BY <1>1, <1>2, TypeStep, PTL DEF Spec
=============================================================================
