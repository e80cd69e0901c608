-------------------------- MODULE RobotPressProofs --------------------------
(***************************************************************************)
(* The device receives at most one impulse for an operation, for every     *)
(* number of processes, contracts, envelopes, devices, crashes and clock   *)
(* steps: PressInv of RobotExecution is inductive.                         *)
(***************************************************************************)
EXTENDS RobotExecutionProofs

-----------------------------------------------------------------------------
(* The store: what the journal and the device's record say of each other.  *)

StoreInv == /\ OpenIsUndispatched
            /\ PressedIsDispatched
            /\ OneContractPerOperation
            /\ AtMostOnePress

\* Steps that leave journal, impulses and the rights of the processes alone
\* keep what is said of them.
LEMMA StoreKept ==
    ASSUME StoreInv, UNCHANGED <<journal, impulses>>
    PROVE  StoreInv'
BY DEF StoreInv, OpenIsUndispatched, PressedIsDispatched, OneContractPerOperation,
       AtMostOnePress, Dispatched

\* A row may move on as long as it keeps its dispatch, is not dispatched while
\* it is open, and is the operation's only row.
LEMMA RowMoves ==
    ASSUME TypeInv, StoreInv, UNCHANGED impulses, NEW c \in Contracts,
           journal' \in [Contracts -> Rows],
           \A e \in Contracts \ {c} : journal'[e] = journal[e],
           Dispatched(c) => journal'[c].dispatch_at # 0,
           journal'[c].state \in {"NONE", "ACCEPTED"} => journal'[c].dispatch_at = 0,
           journal[c].state # "NONE" \/ ~Claimed(c)
    PROVE  StoreInv'
<1>1. OpenIsUndispatched'
  BY DEF StoreInv, OpenIsUndispatched, Dispatched
<1>2. PressedIsDispatched'
  <2>1. \A e \in Contracts : Dispatched(e) => journal'[e].dispatch_at # 0
    BY DEF Dispatched
  <2> QED BY <2>1 DEF StoreInv, PressedIsDispatched, Dispatched
<1>3. OneContractPerOperation'
  <2>1. \A e \in Contracts \ {c} : OperationOf[e] = OperationOf[c] =>
            journal[e].state = "NONE"
    BY DEF StoreInv, OneContractPerOperation, Claimed
  <2> QED BY <2>1 DEF StoreInv, OneContractPerOperation
<1>4. AtMostOnePress'
  BY DEF StoreInv, AtMostOnePress
<1> QED BY <1>1, <1>2, <1>3, <1>4 DEF StoreInv

-----------------------------------------------------------------------------
(* The processes.                                                          *)

ProcessInv == OwnerWorks /\ RightToPress /\ AcceptedInHand

\* The conjuncts of PressInv in their two halves.
LEMMA Halves == PressInv <=> TypeInv /\ ProcessInv /\ StoreInv
BY DEF PressInv, ProcessInv, StoreInv

\* While one process works, every other is down, idle or has just received.
LEMMA OthersRest ==
    ASSUME ProcessInv, NEW s \in Services, pc[s] \in OwnerLabels
    PROVE  owner = s /\ \A t \in Services \ {s} : pc[t] \notin OwnerLabels
BY DEF ProcessInv, OwnerWorks

\* While the lock is free, nobody works.
LEMMA NobodyWorks ==
    ASSUME ProcessInv, Unowned
    PROVE  \A t \in Services : pc[t] \notin OwnerLabels
BY RobotAssumption DEF RobotAssumption, ProcessInv, OwnerWorks, Unowned

\* A process that lets go of its message takes no right to press along.
LEMMA LettingGo ==
    ASSUME TypeInv, ProcessInv, NEW s \in Services,
           \/ Leave(s) /\ (Goto(s, "down") \/ Goto(s, "idle"))
           \/ pc[s] \in OwnerLabels /\ NextClaim(s) /\ UNCHANGED owner,
           pc[s] \in OwnerLabels \/ UNCHANGED <<journal, impulses>>
    PROVE  ProcessInv'
<1>1. OwnerWorks'
  BY OthersRest
     DEF TypeInv, TypeOK, ProcessType, ProcessInv, OwnerWorks, OwnerLabels,
         ContractLabels, Leave, NextClaim, Goto
<1>2. RightToPress'
  <2>1. CASE pc[s] \in OwnerLabels
    BY <2>1, OthersRest
       DEF TypeInv, TypeOK, ProcessType, ProcessInv, RightToPress, OwnerLabels,
           ContractLabels, Leave, NextClaim, Goto, NoTask
  <2>2. CASE pc[s] \notin OwnerLabels
    BY <2>2 DEF TypeInv, TypeOK, ProcessType, ProcessInv, RightToPress, Leave, Goto,
                NoTask, Dispatched, Pressed, Contract, Msg
  <2> QED BY <2>1, <2>2
<1>3. AcceptedInHand'
  <2>1. CASE pc[s] \in OwnerLabels
    BY <2>1, OthersRest
       DEF TypeInv, TypeOK, ProcessType, ProcessInv, AcceptedInHand, OwnerLabels,
           ContractLabels, Leave, NextClaim, Goto
  <2>2. CASE pc[s] \notin OwnerLabels
    BY <2>2 DEF TypeInv, TypeOK, ProcessType, ProcessInv, AcceptedInHand, Leave,
                Goto, NoTask, Contract, Msg
  <2> QED BY <2>1, <2>2
<1> QED BY <1>1, <1>2, <1>3 DEF ProcessInv

\* A process that works on keeps the lock; what is left to show is about its
\* own place, message and journal row.
LEMMA WorkingOn ==
    ASSUME TypeInv, ProcessInv, NEW s \in Services, pc[s] \in OwnerLabels,
           NEW label \in ContractLabels, Goto(s, label),
           UNCHANGED owner,
           \A t \in Services \ {s} : task'[t] = task[t],
           label \in {"accepted", "reserve"} =>
              ~task'[s].fresh /\ journal'[Contract(s)'].state = "ACCEPTED",
           label = "press" => task'[s].fresh,
           label \in {"dispatched", "running", "press"} /\ task'[s].fresh =>
              Dispatched(Contract(s))' /\ ~Pressed(Contract(s))'
    PROVE  ProcessInv'
<1>1. /\ owner = s
      /\ \A t \in Services \ {s} : pc'[t] = pc[t] /\ pc[t] \notin OwnerLabels
      /\ pc'[s] = label
  BY OthersRest DEF TypeInv, TypeOK, ProcessType, Goto
<1>2. OwnerWorks'
  BY <1>1 DEF OwnerWorks
<1>3. RightToPress'
  BY <1>1 DEF ProcessInv, RightToPress, OwnerLabels, ContractLabels
<1>4. AcceptedInHand'
  BY <1>1 DEF AcceptedInHand, OwnerLabels, ContractLabels
<1> QED BY <1>2, <1>3, <1>4 DEF ProcessInv
-----------------------------------------------------------------------------
(* The steps.                                                              *)

\* A call that ends takes its right to press with it.
LEMMA ExitPress ==
    ASSUME PressInv, NEW s \in Services, Exits(s)
    PROVE  ProcessInv' /\ StoreInv'
<1>1. UNCHANGED <<journal, impulses>>
  BY DEF Exits, store, world
<1> QED BY <1>1, Halves, LettingGo, StoreKept DEF Exits

\* Startup, delivery, claims, and messages that need no execution.
LEMMA ClaimPress ==
    ASSUME PressInv, NEW s \in Services,
           \/ Startup(s) \/ Handle(s)
           \/ \E m \in Messages : ReceiveFrame(s, m) \/ ClaimNext(s, m)
    PROVE  ProcessInv' /\ StoreInv'
<1>1. UNCHANGED <<journal, impulses>>
  BY DEF Startup, Start, Handle, ReceiveFrame, ClaimNext, store, world
<1>2. ProcessInv'
  <2>1. CASE Startup(s)
    <3>1. \A t \in Services : pc[t] \notin OwnerLabels
      BY <2>1, Halves, NobodyWorks DEF Startup, Start
    <3> QED BY <2>1, <3>1
            DEF Startup, Start, PressInv, ProcessInv, TypeInv, TypeOK, ProcessType,
                OwnerWorks, RightToPress, AcceptedInHand, OwnerLabels,
                ContractLabels, Goto
  <2>2. CASE Handle(s)
    <3>1. \A t \in Services : pc[t] \notin OwnerLabels
      BY <2>2, Halves, NobodyWorks DEF Handle
    <3>2. CASE Leave(s)
      <4>1. Goto(s, "idle") \/ Goto(s, "process")
        BY <2>2 DEF Handle
      <4>2. CASE Goto(s, "idle")
        BY <1>1, <3>2, <4>2, Halves, LettingGo
      <4>3. CASE ~Goto(s, "idle")
        BY <2>2, <3>2, <4>3, RobotAssumption DEF RobotAssumption, Handle, Leave
      <4> QED BY <4>2, <4>3
    <3>3. CASE ~Leave(s)
      BY SMTT(30), <2>2, <3>1, <3>3
         DEF Handle, PressInv, ProcessInv, TypeInv, TypeOK, ProcessType, OwnerWorks,
             RightToPress, AcceptedInHand, OwnerLabels, ContractLabels, Goto
    <3> QED BY <3>2, <3>3
  <2>3. ASSUME NEW m \in Messages, ReceiveFrame(s, m)
        PROVE  ProcessInv'
    BY <1>1, <2>3
       DEF ReceiveFrame, NoTask, locals, PressInv, ProcessInv, TypeInv, TypeOK,
           ProcessType, OwnerWorks, RightToPress, AcceptedInHand, OwnerLabels,
           ContractLabels, Goto, Dispatched, Pressed, Contract, Msg
  <2>4. ASSUME NEW m \in Messages, ClaimNext(s, m)
        PROVE  ProcessInv'
    <3>1. pc[s] \in OwnerLabels
      BY <2>4 DEF ClaimNext, OwnerLabels
    <3> QED BY <1>1, <2>4, <3>1, Halves, OthersRest
            DEF ClaimNext, NoTask, locals, ProcessInv, TypeInv, TypeOK, ProcessType,
                OwnerWorks, RightToPress, AcceptedInHand, OwnerLabels,
                ContractLabels, Goto
  <2> QED BY <2>1, <2>2, <2>3, <2>4, <1>1
<1> QED BY <1>1, <1>2, Halves, StoreKept

\* A claim starts without a right to press: what an earlier call dispatched is
\* only observed.
LEMMA TakePress ==
    ASSUME PressInv, NEW s \in Services,
           TakeAssignment(s) \/ MissingAssignment(s) \/ HoldUnsupported(s)
           \/ CompleteInbox(s)
    PROVE  ProcessInv' /\ StoreInv'
<1>1. UNCHANGED <<journal, impulses>>
  BY DEF TakeAssignment, MissingAssignment, HoldUnsupported, CompleteInbox, store,
         world
<1>2. pc[s] \in OwnerLabels
  BY DEF TakeAssignment, MissingAssignment, HoldUnsupported, CompleteInbox, Assigned,
         OwnerLabels, ContractLabels
<1>3. \/ NextClaim(s) /\ UNCHANGED owner
      \/ Leave(s) /\ (Goto(s, "down") \/ Goto(s, "idle"))
  BY DEF TakeAssignment, MissingAssignment, HoldUnsupported, CompleteInbox, Raise,
         Goto
<1> QED BY <1>1, <1>2, <1>3, Halves, LettingGo, StoreKept

\* A denial ends an accepted row or leaves the journal alone.
LEMMA DenialPress ==
    ASSUME PressInv, NEW s \in Services,
           HoldLegacy(s) \/ DenyScope(s) \/ DenyBudget(s)
    PROVE  ProcessInv' /\ StoreInv'
<1>1. /\ pc[s] \in OwnerLabels
      /\ Msg(s) \in Envelopes
      /\ UNCHANGED impulses
  BY DEF HoldLegacy, DenyScope, DenyBudget, Admitting, Assigned, PressInv, TypeInv,
         WorkInHand, OwnerLabels, ContractLabels, world
<1>2. PICK reason \in Reasons, previous \in {"RECEIVED", "ACCEPTED"} :
          Deny(s, reason, previous)
  BY DEF HoldLegacy, DenyScope, DenyBudget, Reasons
<1>3. \/ NextClaim(s) /\ UNCHANGED owner
      \/ Leave(s) /\ (Goto(s, "down") \/ Goto(s, "idle"))
  BY <1>2 DEF Deny, Raise, Goto
<1>4. StoreInv'
  <2> DEFINE c == Contract(s)
  <2>1. c \in Contracts
    BY <1>1, ContractInHand DEF PressInv
  <2>2. CASE UNCHANGED journal
    BY <1>1, <2>2, Halves, StoreKept
  <2>3. CASE ~UNCHANGED journal
    <3>1. /\ journal[c].state = "ACCEPTED"
          /\ journal' = [journal EXCEPT ![c].state = "HELD",
                                         ![c].terminal_at = clock,
                                         ![c].result = reason]
      BY <1>2, <2>3 DEF Deny, EndsRow
    <3>2. TypeInv'
      BY DenialType DEF PressInv
    <3>3. /\ journal'[c].state = "HELD"
          /\ journal'[c].dispatch_at = journal[c].dispatch_at
          /\ \A e \in Contracts \ {c} : journal'[e] = journal[e]
      BY <2>1, <3>1 DEF PressInv, TypeInv, TypeOK, JournalType, Rows
    <3>4. journal' \in [Contracts -> Rows]
      BY <3>2 DEF TypeInv, TypeOK, JournalType
    <3> QED BY <1>1, <2>1, <3>1, <3>3, <3>4, Halves, RowMoves DEF Dispatched
  <2> QED BY <2>2, <2>3
<1> QED BY <1>1, <1>3, <1>4, Halves, LettingGo

\* Steps of a contract that change neither its row nor the device.
LEMMA EventPress ==
    ASSUME PressInv, NEW s \in Services,
           \/ Resume(s) \/ AcceptedEvent(s) \/ DispatchEvent(s) \/ RunExternal(s)
           \/ RunDummy(s) \/ ReplayTerminal(s)
           \/ \E answer \in Outcomes : Observe(s, answer)
    PROVE  ProcessInv' /\ StoreInv'
<1> DEFINE c == Contract(s)
<1>1. /\ UNCHANGED <<journal, impulses, owner>>
      /\ pc[s] \in OwnerLabels
  BY DEF Resume, AcceptedEvent, DispatchEvent, RunExternal, RunDummy, ReplayTerminal,
         Observe, Admitting, Assigned, OwnerLabels, ContractLabels, store, world
<1> SUFFICES ProcessInv'
  BY <1>1, Halves, StoreKept
<1>2. CASE Resume(s)
  <2>1. /\ ResumePoint(journal[c]) \in {"terminal", "reserve", "running"}
        /\ ResumePoint(journal[c]) = "reserve" => journal[c].state = "ACCEPTED"
    BY DEF ResumePoint
  <2>2. ~task[s].fresh /\ UNCHANGED task
    BY <1>2 DEF Resume, Admitting, Assigned, PressInv, RightToPress
  <2>3. Goto(s, ResumePoint(journal[c]))
    BY <1>2 DEF Resume
  <2>4. Contract(s)' = c /\ journal' = journal
    BY <1>1, <2>2 DEF Contract, Msg
  <2>5. PICK label \in {"terminal", "reserve", "running"} :
            /\ Goto(s, label)
            /\ label = "reserve" => journal[c].state = "ACCEPTED"
    BY <2>1, <2>3
  <2> QED BY <1>1, <2>2, <2>4, <2>5, Halves, WorkingOn DEF ContractLabels
<1>3. CASE AcceptedEvent(s)
  <2>1. /\ Goto(s, "reserve")
        /\ UNCHANGED task
        /\ ~task[s].fresh
        /\ journal[c].state = "ACCEPTED"
    BY <1>3 DEF AcceptedEvent, PressInv, RightToPress, AcceptedInHand
  <2>2. Contract(s)' = c /\ journal' = journal
    BY <1>1, <2>1 DEF Contract, Msg
  <2> QED BY <1>1, <2>1, <2>2, Halves, WorkingOn DEF ContractLabels
<1>4. CASE DispatchEvent(s)
  <2>1. /\ Goto(s, "running")
        /\ UNCHANGED task
        /\ task[s].fresh => Dispatched(c) /\ ~Pressed(c)
    BY <1>4 DEF DispatchEvent, PressInv, RightToPress
  <2>2. Dispatched(Contract(s))' = Dispatched(c) /\ Pressed(Contract(s))' = Pressed(c)
    BY <1>1, <2>1 DEF Dispatched, Pressed, Contract, Msg
  <2> QED BY <1>1, <2>1, <2>2, Halves, WorkingOn DEF ContractLabels
<1>5. CASE RunExternal(s)
  <2>1. PICK label \in {"press", "observe"} :
            Goto(s, label) /\ (label = "press" => task[s].fresh)
    BY <1>5 DEF RunExternal, PressesNow
  <2>2. /\ UNCHANGED task
        /\ task[s].fresh => Dispatched(c) /\ ~Pressed(c)
    BY <1>5 DEF RunExternal, PressInv, RightToPress
  <2>3. Dispatched(Contract(s))' = Dispatched(c) /\ Pressed(Contract(s))' = Pressed(c)
    BY <1>1, <2>2 DEF Dispatched, Pressed, Contract, Msg
  <2> QED BY <1>1, <2>1, <2>2, <2>3, Halves, WorkingOn DEF ContractLabels
<1>6. CASE RunDummy(s) \/ ReplayTerminal(s)
  <2>1. PICK label \in {"phases", "complete"} : Goto(s, label)
    BY <1>6 DEF RunDummy, ReplayTerminal
  <2>2. TypeInv /\ ProcessInv /\ UNCHANGED task
    BY <1>6, Halves DEF RunDummy, ReplayTerminal
  <2> QED BY <1>1, <2>1, <2>2, WorkingOn DEF ContractLabels
<1>7. ASSUME NEW answer \in Outcomes, Observe(s, answer)
      PROVE  ProcessInv'
  BY <1>1, <1>7, Halves, WorkingOn
     DEF Observe, ContractLabels, PressInv, TypeInv, TypeOK, ProcessType
<1> QED BY <1>2, <1>3, <1>4, <1>5, <1>6, <1>7

\* Acceptance: the operation has no row yet.
LEMMA AcceptPress ==
    ASSUME PressInv, NEW s \in Services, Accept(s)
    PROVE  ProcessInv' /\ StoreInv'
<1> DEFINE c == Contract(s)
<1>1. /\ pc[s] \in OwnerLabels
      /\ Msg(s) \in Envelopes
      /\ ~task[s].fresh
      /\ UNCHANGED <<task, owner, impulses>>
  BY DEF Accept, Admitting, Assigned, OwnerLabels, PressInv, RightToPress, world
<1>2. c \in Contracts
  BY <1>1, ContractInHand DEF PressInv
<1>3. ~Claimed(c)
  BY DEF Accept, Admission
<1>4. /\ journal'[c].state = "ACCEPTED"
      /\ journal'[c].dispatch_at = 0
      /\ \A e \in Contracts \ {c} : journal'[e] = journal[e]
  BY <1>2 DEF Accept, NoRow, PressInv, TypeInv, TypeOK, JournalType
<1>5. journal' \in [Contracts -> Rows]
  BY AcceptType DEF PressInv, JournalType
<1>6. ~Dispatched(c)
  BY <1>2 DEF Accept, Admission, SkipsBudget, Bound, Known, PressInv,
              OpenIsUndispatched, Budgeted
<1>7. StoreInv'
  BY SMTT(30), <1>1, <1>2, <1>3, <1>4, <1>5, <1>6, Halves, RowMoves
<1>8. ProcessInv'
  BY <1>1, <1>4, Halves, WorkingOn DEF Accept, ContractLabels, Contract, Msg
<1> QED BY <1>7, <1>8

\* The dispatch boundary: an operation that becomes dispatched was not pressed.
LEMMA DispatchPress ==
    ASSUME PressInv, NEW s \in Services, Reserve(s) \/ RecordDispatch(s)
    PROVE  ProcessInv' /\ StoreInv'
<1> DEFINE c == Contract(s)
<1>1. /\ pc[s] = "reserve"
      /\ Msg(s) \in Envelopes
      /\ UNCHANGED <<owner, impulses, clock>>
  BY DEF Reserve, RecordDispatch, PressInv, TypeInv, WorkInHand, ContractLabels, world
<1>2. c \in Contracts /\ Operation(s) = OperationOf[c]
  BY <1>1, ContractInHand DEF PressInv, Operation
<1>3. journal[c].state = "ACCEPTED" /\ ~Dispatched(c)
  BY <1>1, <1>2 DEF PressInv, AcceptedInHand, OpenIsUndispatched
<1>4. /\ journal'[c].state = "DISPATCH_RECORDED"
      /\ journal'[c].dispatch_at = clock
      /\ \A e \in Contracts \ {c} : journal'[e] = journal[e]
  BY <1>2 DEF Reserve, RecordDispatch, PressInv, TypeInv, TypeOK, JournalType, Rows
<1>5. clock # 0
  BY DEF PressInv, TypeInv, TypeOK, WorldType
<1>6. journal' \in [Contracts -> Rows]
  BY ReserveType, RecordDispatchType DEF PressInv, JournalType
<1>7. StoreInv'
  BY <1>1, <1>2, <1>3, <1>4, <1>6, Halves, RowMoves
<1>8. ~Pressed(c)
  <2>1. \A e \in Contracts : OperationOf[e] = OperationOf[c] => ~Dispatched(e)
    BY <1>2, <1>3 DEF PressInv, OneContractPerOperation, OpenIsUndispatched
  <2>2. OperationOf[c] \in Operations
    BY <1>2, RobotAssumption DEF RobotAssumption
  <2> QED BY <2>1, <2>2 DEF PressInv, PressedIsDispatched, Pressed
<1>9. ProcessInv'
  <2>1. \A t \in Services : task'[t].msg = task[t].msg
    BY DEF Reserve, RecordDispatch, PressInv, TypeInv, TypeOK, ProcessType, Tasks
  <2>2. \A t \in Services \ {s} : task'[t] = task[t]
    BY DEF Reserve, RecordDispatch, PressInv, TypeInv, TypeOK, ProcessType
  <2>3. Contract(s)' = c
    BY <2>1 DEF Contract, Msg
  <2>4. Dispatched(Contract(s))' /\ ~Pressed(Contract(s))'
    BY <1>1, <1>4, <1>5, <1>8, <2>3 DEF Dispatched, Pressed
  <2>5. Goto(s, "dispatched") /\ pc[s] \in OwnerLabels
    BY <1>1 DEF Reserve, RecordDispatch, OwnerLabels, ContractLabels
  <2> QED BY <1>1, <2>2, <2>4, <2>5, Halves, WorkingOn DEF ContractLabels
<1> QED BY <1>7, <1>9

\* A verdict ends a dispatched row.
LEMMA VerdictPress ==
    ASSUME PressInv, NEW s \in Services, Resolve(s) \/ CommitDummyEffect(s)
    PROVE  ProcessInv' /\ StoreInv'
<1> DEFINE c == Contract(s)
<1>1. /\ pc[s] \in OwnerLabels
      /\ Msg(s) \in Envelopes
      /\ UNCHANGED <<task, owner, impulses>>
      /\ Goto(s, "complete")
      /\ journal[c].state = "DISPATCH_RECORDED"
  BY DEF Resolve, CanResolve, CommitDummyEffect, PressInv, TypeInv, WorkInHand,
         OwnerLabels, ContractLabels, world
<1>2. c \in Contracts
  BY <1>1, ContractInHand DEF PressInv
<1>3. /\ journal'[c].state \in {"SUCCEEDED", "HELD"}
      /\ journal'[c].dispatch_at = journal[c].dispatch_at
      /\ \A e \in Contracts \ {c} : journal'[e] = journal[e]
  BY <1>2 DEF Resolve, CommitDummyEffect, TerminalFor, PressInv, TypeInv, TypeOK,
              JournalType, Rows
<1>4. journal' \in [Contracts -> Rows]
  BY ResolveType, CommitType DEF PressInv, JournalType
<1>5. StoreInv'
  BY <1>1, <1>2, <1>3, <1>4, Halves, RowMoves DEF Dispatched
<1>6. ProcessInv'
  BY <1>1, Halves, WorkingOn DEF ContractLabels
<1> QED BY <1>5, <1>6

\* The press: the only step that gives an impulse, taken where there is none.
LEMMA ImpulsePress ==
    ASSUME PressInv, NEW s \in Services, Press(s) \/ PressRaises(s)
    PROVE  ProcessInv' /\ StoreInv'
<1> DEFINE c == Contract(s)
<1>1. /\ pc[s] = "press"
      /\ pc[s] \in OwnerLabels
      /\ Msg(s) \in Envelopes
      /\ UNCHANGED journal
      /\ Impulse(s) \/ UNCHANGED impulses
  BY DEF Press, PressRaises, PressInv, TypeInv, WorkInHand, OwnerLabels,
         ContractLabels, store
<1>2. c \in Contracts /\ Operation(s) = OperationOf[c] /\ Operation(s) \in Operations
  BY <1>1, ContractInHand DEF PressInv, Operation
<1>3. Dispatched(c) /\ impulses[Operation(s)] = <<>>
  BY <1>1, <1>2 DEF PressInv, RightToPress, Pressed
<1>4. ProcessInv'
  <2>1. CASE Press(s)
    <3>1. Goto(s, "observe") /\ UNCHANGED <<task, owner>>
      BY <2>1 DEF Press
    <3> QED BY <1>1, <3>1, Halves, WorkingOn DEF ContractLabels
  <2>2. CASE PressRaises(s)
    <3>1. Leave(s) /\ (Goto(s, "down") \/ Goto(s, "idle"))
      BY <2>2 DEF PressRaises, Raise
    <3>2. TypeInv /\ ProcessInv /\ pc[s] \in OwnerLabels
      BY <1>1, Halves
    <3> QED BY <3>1, <3>2, LettingGo
  <2> QED BY <2>1, <2>2
<1>5. StoreInv'
  <2>1. CASE UNCHANGED impulses
    BY <1>1, <2>1, Halves, StoreKept
  <2>2. CASE Impulse(s)
    <3>1. impulses' = [impulses EXCEPT ![Operation(s)] =
                          Append(<<>>, config[s].adapter)]
      BY <1>3, <2>2 DEF Impulse
    <3>2. Len(Append(<<>>, config[s].adapter)) = 1
      OBVIOUS
    <3>3. AtMostOnePress'
      BY <1>2, <3>1, <3>2
         DEF AtMostOnePress, PressInv, TypeInv, TypeOK, WorldType
    <3>4. PressedIsDispatched'
      <4>1. \A o \in Operations \ {Operation(s)} : impulses'[o] = impulses[o]
        BY <3>1 DEF PressInv, TypeInv, TypeOK, WorldType
      <4> QED BY <1>1, <1>2, <1>3, <4>1 DEF PressInv, PressedIsDispatched, Dispatched
    <3>5. OpenIsUndispatched' /\ OneContractPerOperation'
      BY <1>1 DEF PressInv, OpenIsUndispatched, OneContractPerOperation, Dispatched
    <3> QED BY <3>3, <3>4, <3>5 DEF StoreInv
  <2> QED BY <1>1, <2>1, <2>2
<1> QED BY <1>4, <1>5

\* The clock, and nothing at all.
LEMMA IdlePress ==
    ASSUME PressInv, Tick \/ StepBack \/ UNCHANGED vars
    PROVE  ProcessInv' /\ StoreInv'
<1>1. UNCHANGED <<journal, impulses, owner, pc, task>>
  BY DEF Tick, StepBack, vars, store, world
<1>2. ProcessInv'
  BY <1>1 DEF PressInv, ProcessInv, OwnerWorks, RightToPress, AcceptedInHand,
              Dispatched, Pressed, Contract, Msg
<1> QED BY <1>1, <1>2, Halves, StoreKept

\* No step disturbs the inductive invariant: one case for every action.
LEMMA PressStep == PressInv /\ [Next]_vars => PressInv'
<1> SUFFICES ASSUME PressInv, [Next]_vars PROVE PressInv'
  OBVIOUS
<1>1. TypeInv'
  BY TypeStep DEF PressInv
<1>2. ProcessInv' /\ StoreInv'
  <2>1. CASE UNCHANGED vars
    BY <2>1, IdlePress
  <2>2. CASE Next
    BY <2>2, NextCases, ExitStepExits, IdlePress, ExitPress, ClaimPress, TakePress,
       DenialPress, EventPress, AcceptPress, DispatchPress, VerdictPress,
       ImpulsePress DEF PressInv
  <2> QED BY <2>1, <2>2
<1> QED BY <1>1, <1>2 DEF PressInv, ProcessInv, StoreInv

-----------------------------------------------------------------------------
(* The start, and the theorems.                                            *)

\* The rows of version 3 keep to the invariant as well.
LEMMA InitPress == Init => PressInv
<1> SUFFICES ASSUME Init PROVE PressInv
  OBVIOUS
<1>1. PICK kind \in [Contracts -> LegacyRows], d \in Devices : Init!(kind, d)
  BY DEF Init
<1>2. TypeInv
  BY InitType, InitWorkInHand DEF TypeInv
<1>3. OwnerWorks /\ RightToPress /\ AcceptedInHand
  BY <1>1 DEF OwnerWorks, RightToPress, AcceptedInHand, OwnerLabels, ContractLabels
<1>4. \A c \in Contracts :
         /\ kind[c] \in RowKinds
         /\ kind[c] = "NONE" <=> journal[c].state = "NONE"
         /\ journal[c].state \in {"NONE", "ACCEPTED"} <=> journal[c].dispatch_at = 0
         /\ journal[c].device # NoDevice => journal[c].dispatch_at # 0
  <2> TAKE c \in Contracts
  <2>1. kind[c] \in RowKinds
    BY RobotAssumption DEF RobotAssumption
  <2>2. journal[c] = V3Row(kind[c], d)
    BY <1>1
  <2> QED BY <2>1, <2>2 DEF V3Row, NoRow, RowKinds
<1>5. OpenIsUndispatched
  BY <1>4 DEF OpenIsUndispatched, Dispatched
<1>6. OneContractPerOperation
  BY <1>1, <1>4 DEF OneContractPerOperation
<1>7. \A o \in Operations : impulses[o] \in {<<>>, <<d>>}
  BY <1>1
<1>8. PressedIsDispatched
  <2> SUFFICES ASSUME NEW o \in Operations, impulses[o] # <<>>
               PROVE  \E c \in Contracts : OperationOf[c] = o /\ Dispatched(c)
    BY DEF PressedIsDispatched
  <2> DEFINE owners == {c \in Contracts : OperationOf[c] = o /\ kind[c] # "NONE"}
  <2>1. impulses[o] \in IF owners = {} THEN {<<>>}
                        ELSE UNION {V3Impulses(journal[c]) : c \in owners}
    BY <1>1
  <2>2. PICK c \in owners : impulses[o] \in V3Impulses(journal[c])
    BY <2>1
  <2>3. journal[c].device # NoDevice
    BY <2>2 DEF V3Impulses
  <2> QED BY <1>4, <2>2, <2>3 DEF Dispatched
<1>9. AtMostOnePress
  <2> SUFFICES ASSUME NEW o \in Operations PROVE Len(impulses[o]) <= 1
    BY DEF AtMostOnePress
  <2>1. CASE impulses[o] = <<>>
    BY <2>1
  <2>2. CASE impulses[o] = <<d>>
    BY <2>2
  <2> QED BY <1>7, <2>1, <2>2
<1> QED BY <1>2, <1>3, <1>5, <1>6, <1>8, <1>9 DEF PressInv

\* The inductive invariant holds in every reachable state of every instance.
THEOREM PressInvariant == Spec => []PressInv
BY InitPress, PressStep, PTL DEF Spec

\* However many deliveries, processes, deaths and restarts there are, the
\* device receives at most one impulse for an effect key.
THEOREM SinglePress == Spec => []AtMostOnePress
<1>1. PressInv => AtMostOnePress
  BY DEF PressInv
<1> QED BY <1>1, PressInvariant, PTL

\* Whatever contracts arrive, at most one of an operation gets a journal row.
THEOREM SingleContract == Spec => []OneContractPerOperation
<1>1. PressInv => OneContractPerOperation
  BY DEF PressInv
<1> QED BY <1>1, PressInvariant, PTL
=============================================================================
