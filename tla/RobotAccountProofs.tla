------------------------- MODULE RobotAccountProofs -------------------------
(***************************************************************************)
(* What the Robot's tables, its reports and the device say of an operation *)
(* agree, for every number of processes, contracts, devices, windows,      *)
(* crashes and clock steps: AccountInv of RobotExecution is inductive.     *)
(***************************************************************************)
EXTENDS RobotPressProofs

-----------------------------------------------------------------------------
(* What a step leaves alone.                                               *)

StoreAgrees == /\ JournalShape
               /\ EffectWhereDispatched
               /\ VerdictMatchesDevice
               /\ DispatchWithinBudget

AnswersAgree == ReportsAgree /\ ProcessedIsAnswered

\* The conjuncts of AccountInv, grouped by the tables they are about.
LEMMA Thirds == AccountInv <=> PressInv /\ StoreAgrees /\ AnswersAgree /\ HandlersAgree
BY DEF AccountInv, StoreAgrees, AnswersAgree

\* No envelope becomes PROCESSED.
NoneAnswered == \A m \in Envelopes : inbox'[m] = "PROCESSED" => inbox[m] = "PROCESSED"

\* The store agrees as long as its tables and the device stay as they are.
LEMMA StoreStill ==
    ASSUME StoreAgrees, UNCHANGED <<journal, legacy, budget, denial, impulses>>
    PROVE  StoreAgrees'
<1>1. JournalShape'
  BY DEF StoreAgrees, JournalShape, RowBacked, Known, Dispatched, Budgeted, Claimed
<1>2. EffectWhereDispatched' /\ VerdictMatchesDevice'
  BY DEF StoreAgrees, EffectWhereDispatched, VerdictMatchesDevice, Dispatched,
         Budgeted, Pressed
<1>3. DispatchWithinBudget'
  BY DEF StoreAgrees, DispatchWithinBudget, WithinBudget, Bound, Dispatched, Resolved
<1> QED BY <1>1, <1>2, <1>3 DEF StoreAgrees

\* Reports of anything but an ending change no answer.
LEMMA AnswersStill ==
    ASSUME AnswersAgree, UNCHANGED <<journal, denial>>, NoneAnswered,
           outbox \subseteq outbox',
           \A e, t : t \in Terminal /\ <<e, t>> \in outbox' => <<e, t>> \in outbox
    PROVE  AnswersAgree'
<1>1. ReportsAgree'
  BY DEF AnswersAgree, ReportsAgree, ReportAgrees, Reporters, Resolved, Known
<1>2. ProcessedIsAnswered'
  BY DEF AnswersAgree, ProcessedIsAnswered, NoneAnswered, Resolved
<1> QED BY <1>1, <1>2 DEF AnswersAgree

RestLabels == {"down", "idle", "received", "loop", "process"}

\* A process that starts, receives or lets go knows nothing of a row.
LEMMA HandlersRest ==
    ASSUME TypeInv, HandlersAgree, NEW s \in Services, pc'[s] \in RestLabels,
           \A t \in Services \ {s} :
              pc'[t] = pc[t] /\ task'[t] = task[t] /\ config'[t] = config[t],
           UNCHANGED <<journal, budget, impulses>>
    PROVE  HandlersAgree'
<1>1. HandlerAgrees(s)'
  BY DEF HandlerAgrees, RestLabels
<1>2. ASSUME NEW t \in Services \ {s}
      PROVE  HandlerAgrees(t)'
  BY <1>2 DEF HandlersAgree, HandlerAgrees, External, Budgeted, Pressed, Resolved,
              Contract, Msg
<1> QED BY <1>1, <1>2 DEF HandlersAgree

\* While a process works, what handlers know is what it knows.
LEMMA HandlerAlone ==
    ASSUME ProcessInv, NEW s \in Services, pc[s] \in OwnerLabels,
           \A t \in Services \ {s} : pc'[t] = pc[t],
           HandlerAgrees(s)'
    PROVE  HandlersAgree'
<1>1. ASSUME NEW t \in Services \ {s}
      PROVE  HandlerAgrees(t)'
  BY <1>1, OthersRest DEF HandlerAgrees, OwnerLabels, ContractLabels
<1> QED BY <1>1 DEF HandlersAgree
-----------------------------------------------------------------------------
(* Steps that leave the rows of the journal alone.                         *)

\* A call that ends changes no table.
LEMMA ExitAccount ==
    ASSUME AccountInv, NEW s \in Services, Exits(s)
    PROVE  StoreAgrees' /\ AnswersAgree' /\ HandlersAgree'
<1>1. StoreAgrees' /\ AnswersAgree'
  BY Thirds, StoreStill, AnswersStill DEF Exits, rows, store, world, NoneAnswered
<1>2. /\ pc'[s] \in RestLabels
      /\ \A t \in Services \ {s} :
            pc'[t] = pc[t] /\ task'[t] = task[t] /\ config'[t] = config[t]
      /\ UNCHANGED <<journal, budget, impulses>>
  BY DEF Exits, Leave, Goto, RestLabels, store, world, locals, AccountInv, PressInv,
         TypeInv, TypeOK, ProcessType
<1> QED BY <1>1, <1>2, HandlersRest DEF AccountInv, PressInv

\* Startup, delivery and claims: nothing is completed.
LEMMA ClaimAccount ==
    ASSUME AccountInv, NEW s \in Services,
           \/ Startup(s) \/ Handle(s)
           \/ \E m \in Messages : ReceiveFrame(s, m) \/ ClaimNext(s, m)
    PROVE  StoreAgrees' /\ AnswersAgree' /\ HandlersAgree'
<1>1. UNCHANGED <<journal, legacy, budget, denial, outbox, impulses>>
  BY DEF Startup, Start, Handle, ReceiveFrame, ClaimNext, store, world
<1>2. NoneAnswered
  BY DEF Startup, Start, Handle, ReceiveFrame, ClaimNext, NoneAnswered, Receive, Claim,
         RecoverInterrupted, Messages, AccountInv, PressInv, TypeInv, TypeOK, InboxType
<1>3. /\ pc'[s] \in RestLabels
      /\ \A t \in Services \ {s} :
            pc'[t] = pc[t] /\ task'[t] = task[t] /\ config'[t] = config[t]
  BY DEF Startup, Start, Handle, ReceiveFrame, ClaimNext, Leave, Goto, RestLabels,
         locals, AccountInv, PressInv, TypeInv, TypeOK, ProcessType
<1> QED BY <1>1, <1>2, <1>3, Thirds, StoreStill, AnswersStill, HandlersRest
        DEF PressInv

\* Messages that need no execution, and the completion of those that did: what
\* becomes PROCESSED is an assignment, an unsupported contract whose hold is
\* reported, or a contract that is resolved.
LEMMA TakeAccount ==
    ASSUME AccountInv, NEW s \in Services,
           TakeAssignment(s) \/ MissingAssignment(s) \/ HoldUnsupported(s)
           \/ CompleteInbox(s)
    PROVE  StoreAgrees' /\ AnswersAgree' /\ HandlersAgree'
<1>1. UNCHANGED <<journal, legacy, budget, denial, impulses>>
  BY DEF TakeAssignment, MissingAssignment, HoldUnsupported, CompleteInbox, store,
         world
<1>2. HandlersAgree'
  <2>1. /\ pc'[s] \in RestLabels
        /\ \A t \in Services \ {s} :
              pc'[t] = pc[t] /\ task'[t] = task[t] /\ config'[t] = config[t]
    BY DEF TakeAssignment, MissingAssignment, HoldUnsupported, CompleteInbox, NextClaim,
           Raise, Leave, Goto, RestLabels, locals, AccountInv, PressInv, TypeInv,
           TypeOK, ProcessType
  <2> QED BY <1>1, <2>1, HandlersRest DEF AccountInv, PressInv
<1>3. ReportsAgree'
  <2>1. CASE UNCHANGED outbox
    BY <1>1, <2>1 DEF AccountInv, ReportsAgree, ReportAgrees, Resolved, Known
  <2>2. CASE ~UNCHANGED outbox
    <3> DEFINE c == Contract(s)
    <3>1. /\ c \in Unsupported /\ c \in Contracts
          /\ outbox' = outbox \cup {<<c, "HELD">>}
      <4>1. HoldUnsupported(s)
        BY <2>2 DEF TakeAssignment, MissingAssignment, CompleteInbox, store
      <4> QED BY <2>2, <4>1, EnvelopeContract DEF HoldUnsupported, Assigned, Contract
    <3>2. ~Known(c)
      BY <3>1 DEF AccountInv, JournalShape, RowBacked
    <3>3. \A e \in Contracts : e # c => c \notin Reporters(e)
      BY <3>1, RobotAssumption DEF RobotAssumption, Reporters
    <3>4. ASSUME NEW e \in Contracts
          PROVE  ReportAgrees(e)'
      BY <1>1, <3>1, <3>2, <3>3, <3>4
         DEF AccountInv, ReportsAgree, ReportAgrees, Resolved, Known, Reporters,
             Terminal
    <3> QED BY <3>4 DEF ReportsAgree
  <2> QED BY <2>1, <2>2
<1>4. ProcessedIsAnswered'
  <2>1. outbox \subseteq outbox'
    BY DEF TakeAssignment, MissingAssignment, HoldUnsupported, CompleteInbox, store
  <2>2. inbox \in [Messages -> InboxState]
    BY DEF AccountInv, PressInv, TypeInv, TypeOK, InboxType
  <2>3. CASE TakeAssignment(s) \/ MissingAssignment(s)
    <3>1. NoneAnswered
      BY <2>2, <2>3, RobotAssumption
         DEF RobotAssumption, TakeAssignment, MissingAssignment, Complete, Fail,
             NoneAnswered, Messages
    <3> QED BY <1>1, <2>1, <3>1 DEF AccountInv, ProcessedIsAnswered, NoneAnswered, Resolved
  <2>4. CASE HoldUnsupported(s)
    <3>1. \/ NoneAnswered
          \/ /\ <<Contract(s), "HELD">> \in outbox' /\ Contract(s) \in Unsupported
             /\ inbox' = Complete(inbox, Msg(s))
      BY <2>4 DEF HoldUnsupported, NoneAnswered
    <3> QED BY <1>1, <2>1, <2>2, <3>1
            DEF AccountInv, ProcessedIsAnswered, NoneAnswered, Resolved, Complete,
                Contract, Messages
  <2>5. CASE CompleteInbox(s)
    <3>1. Resolved(Contract(s)) /\ inbox' = Complete(inbox, Msg(s))
      BY <2>5 DEF CompleteInbox, AccountInv, HandlersAgree, HandlerAgrees
    <3> QED BY <1>1, <2>1, <2>2, <3>1
            DEF AccountInv, ProcessedIsAnswered, Resolved, Complete, Contract, Messages
  <2> QED BY <2>3, <2>4, <2>5
<1> QED BY <1>1, <1>2, <1>3, <1>4, Thirds, StoreStill DEF AnswersAgree

\* Steps of a contract that change neither its row nor the device: the handler
\* goes on with what it knows, or learns it from the row or from the device.
LEMMA EventAccount ==
    ASSUME AccountInv, NEW s \in Services,
           \/ Resume(s) \/ AcceptedEvent(s) \/ DispatchEvent(s) \/ RunExternal(s)
           \/ RunDummy(s)
           \/ \E answer \in Outcomes : Observe(s, answer)
    PROVE  StoreAgrees' /\ AnswersAgree' /\ HandlersAgree'
<1> DEFINE c == Contract(s)
<1>1. /\ UNCHANGED <<journal, legacy, budget, denial, impulses, inbox, config>>
      /\ pc[s] \in OwnerLabels
      /\ Msg(s) \in Envelopes
      /\ \A t \in Services \ {s} : pc'[t] = pc[t]
  BY DEF Resume, AcceptedEvent, DispatchEvent, RunExternal, RunDummy, Observe, Admitting,
         Assigned, OwnerLabels, ContractLabels, store, world, rows, locals, Goto,
         AccountInv, PressInv, TypeInv, TypeOK, ProcessType, WorkInHand
<1>2. c \in Contracts /\ Operation(s) = OperationOf[c] /\ Operation(s) \in Operations
  BY <1>1, ContractInHand DEF AccountInv, PressInv, Operation
<1>3. StoreAgrees'
  BY <1>1, Thirds, StoreStill
<1>4. AnswersAgree'
  <2>1. /\ outbox \subseteq outbox'
        /\ \A e, t : t \in Terminal /\ <<e, t>> \in outbox' => <<e, t>> \in outbox
    BY DEF Resume, AcceptedEvent, DispatchEvent, RunExternal, RunDummy, Observe, Emit,
           store, Terminal
  <2> QED BY <1>1, <2>1, Thirds, AnswersStill DEF NoneAnswered
<1>5. HandlerAgrees(s)'
  <2>1. HandlerAgrees(s)
    BY DEF AccountInv, HandlersAgree
  <2>2. c' = c
    <3>1. CASE \E answer \in Outcomes : Observe(s, answer)
      BY <3>1, ObserveTask DEF AccountInv, PressInv, Contract, Msg
    <3>2. CASE ~\E answer \in Outcomes : Observe(s, answer)
      BY <3>2 DEF Resume, AcceptedEvent, DispatchEvent, RunExternal, RunDummy, Contract,
                  Msg
    <3> QED BY <3>1, <3>2
  <2>3. /\ Budgeted(c)' = Budgeted(c) /\ Pressed(c)' = Pressed(c)
        /\ Resolved(c)' = Resolved(c) /\ External(s)' = External(s)
    BY <1>1, <2>2 DEF Budgeted, Pressed, Resolved, External
  <2>4. CASE Resume(s)
    <3>1. /\ pc'[s] = ResumePoint(journal[c])
          /\ Admission(s) = "known"
          /\ ConfiguredFor(s, journal[c])
          /\ c \notin Unsupported
      BY <2>4 DEF Resume, Goto, Admitting, AccountInv, PressInv, TypeInv, TypeOK,
                  ProcessType
    <3>2. RowShape(journal[c]) /\ RowBacked(c)
      BY <1>2 DEF AccountInv, JournalShape
    <3>3. journal[c].state # "NONE"
      BY <3>1, <3>2 DEF Admission, RowBacked, SkipsBudget, Known, Dispatched, RowShape,
                        NoRow, Terminal
    <3>4. CASE journal[c].state = "ACCEPTED"
      <4>1. pc'[s] = "reserve" /\ journal[c].dispatch_at = 0
        BY <3>1, <3>2, <3>4 DEF ResumePoint, Terminal, RowShape, NoRow
      <4>2. External(s) <=> Budgeted(c)
        BY <3>1, <3>2, <4>1 DEF Admission, RowBacked, SkipsBudget, Dispatched
      <4> QED BY <2>2, <2>3, <4>1, <4>2 DEF HandlerAgrees
    <3>5. CASE journal[c].state = "DISPATCH_RECORDED"
      <4>1. pc'[s] = "running" /\ journal[c].dispatch_at # 0
        BY <3>1, <3>2, <3>5 DEF ResumePoint, Terminal, RowShape, NoRow
      <4>2. journal[c].device = config[s].adapter
        BY <3>1, <4>1 DEF ConfiguredFor, External
      <4> QED BY <1>1, <2>2, <3>5, <4>1, <4>2 DEF HandlerAgrees
    <3>6. CASE journal[c].state \in Terminal
      <4>1. pc'[s] = "terminal"
        BY <3>1, <3>6 DEF ResumePoint, Terminal
      <4> QED BY <2>2, <2>3, <3>6, <4>1 DEF HandlerAgrees, Resolved
    <3> QED BY <3>2, <3>3, <3>4, <3>5, <3>6 DEF RowShape, NoRow, Terminal
  <2>5. CASE AcceptedEvent(s)
    <3>1. pc'[s] = "reserve" /\ pc[s] = "accepted"
      BY <2>5 DEF AcceptedEvent, Goto, AccountInv, PressInv, TypeInv, TypeOK, ProcessType
    <3> QED BY <2>1, <2>2, <2>3, <3>1 DEF HandlerAgrees
  <2>6. CASE DispatchEvent(s)
    <3>1. pc'[s] = "running" /\ pc[s] = "dispatched"
      BY <2>6 DEF DispatchEvent, Goto, AccountInv, PressInv, TypeInv, TypeOK, ProcessType
    <3> QED BY <1>1, <2>1, <2>2, <3>1 DEF HandlerAgrees
  <2>7. CASE RunExternal(s) \/ RunDummy(s)
    <3>1. /\ pc[s] = "running"
          /\ \/ pc'[s] \in {"press", "observe"} /\ External(s)
             \/ pc'[s] = "phases" /\ ~External(s)
      BY <2>7 DEF RunExternal, RunDummy, Goto, AccountInv, PressInv, TypeInv, TypeOK,
                  ProcessType
    <3> QED BY <1>1, <2>1, <2>2, <2>3, <3>1 DEF HandlerAgrees
  <2>8. ASSUME NEW answer \in Outcomes, Observe(s, answer)
        PROVE  HandlerAgrees(s)'
    <3>1. /\ pc[s] = "observe" /\ pc'[s] = "resolve"
          /\ task'[s].outcome = answer
          /\ answer \in Answers(s)
      <4>1. task[s] \in Tasks /\ task \in [Services -> Tasks] /\ pc \in [Services -> Labels]
        BY DEF AccountInv, PressInv, TypeInv, TypeOK, ProcessType
      <4>2. task'[s].outcome = answer
        BY <2>8, <4>1 DEF Observe, Tasks
      <4> QED BY <2>8, <4>1, <4>2 DEF Observe, Goto
    <3>2. impulses[Operation(s)] \in Seq(Devices) /\ Len(impulses[Operation(s)]) <= 1
      BY <1>2 DEF AccountInv, PressInv, TypeInv, TypeOK, WorldType, AtMostOnePress
    <3>3. answer = "APPLIED" => Pressed(c)
      BY <1>2, <3>1, <3>2 DEF Answers, Pressed
    <3>4. ASSUME answer = "NOT_APPLIED", Pressed(c)
          PROVE  FALSE
      <4>1. 1 \in DOMAIN impulses[Operation(s)]
        BY <1>2, <3>2, <3>4 DEF Pressed
      <4>2. PICK e \in Contracts : /\ OperationOf[e] = OperationOf[c]
                                   /\ Dispatched(e)
                                   /\ journal[e].device = impulses[Operation(s)][1]
        BY <1>2, <4>1 DEF AccountInv, EffectWhereDispatched
      <4>3. e = c
        <5>1. journal[c].state # "NONE" /\ journal[e].state # "NONE"
          BY <1>2, <2>1, <3>1, <4>2
             DEF HandlerAgrees, AccountInv, PressInv, OpenIsUndispatched
        <5> QED BY <1>2, <4>2, <5>1 DEF AccountInv, PressInv, OneContractPerOperation
      <4>4. impulses[Operation(s)][1] = config[s].adapter
        BY <2>1, <3>1, <4>2, <4>3 DEF HandlerAgrees
      <4> QED BY <3>1, <3>4, <4>1, <4>4 DEF Answers
    <3> QED BY <2>1, <2>2, <2>3, <3>1, <3>3, <3>4 DEF HandlerAgrees
  <2> QED BY <2>4, <2>5, <2>6, <2>7, <2>8
<1> QED BY <1>1, <1>3, <1>4, <1>5, Thirds, Halves, HandlerAlone

\* A replay reports the ending the row has.
LEMMA ReplayAccount ==
    ASSUME AccountInv, NEW s \in Services, ReplayTerminal(s)
    PROVE  StoreAgrees' /\ AnswersAgree' /\ HandlersAgree'
<1> DEFINE c == Contract(s)
<1>1. /\ UNCHANGED <<journal, legacy, budget, denial, impulses, inbox, config, task>>
      /\ pc[s] = "terminal" /\ pc'[s] = "complete"
      /\ Msg(s) \in Envelopes
      /\ \A t \in Services \ {s} : pc'[t] = pc[t]
  BY DEF ReplayTerminal, ContractLabels, world, rows, locals, Goto, AccountInv, PressInv,
         TypeInv, TypeOK, ProcessType, WorkInHand
<1>2. c \in Contracts /\ Resolved(c)
  BY <1>1, EnvelopeContract DEF AccountInv, HandlersAgree, HandlerAgrees, Contract
<1>3. StoreAgrees'
  BY <1>1, Thirds, StoreStill
<1>4. PICK r \in {c, Msg(s)} : outbox' = outbox \cup {<<r, journal[c].state>>}
  <2>1. ReplayedDenial(s) => journal[c].state = "HELD"
    BY <1>2 DEF ReplayedDenial, AccountInv, JournalShape, RowShape, NoRow, Resolved,
                Terminal
  <2> QED BY <2>1 DEF ReplayTerminal, ReplayedState
<1>5. ReportsAgree'
  <2>1. \A e \in Contracts : e # c => r \notin Reporters(e)
    BY <1>1, <1>2, <1>4, RobotAssumption DEF RobotAssumption, Reporters, Contract
  <2>2. ASSUME NEW e \in Contracts
        PROVE  ReportAgrees(e)'
    BY <1>1, <1>4, <2>1, <2>2
       DEF AccountInv, ReportsAgree, ReportAgrees, Resolved, Known, Reporters
  <2> QED BY <2>2 DEF ReportsAgree
<1>6. ProcessedIsAnswered'
  BY <1>1, <1>4 DEF AccountInv, ProcessedIsAnswered, Resolved
<1>7. HandlersAgree'
  <2>1. HandlerAgrees(s)'
    BY <1>1, <1>2 DEF HandlerAgrees, Resolved, Contract, Msg
  <2>2. pc[s] \in OwnerLabels
    BY <1>1 DEF OwnerLabels, ContractLabels
  <2> QED BY <1>1, <2>1, <2>2, Thirds, Halves, HandlerAlone
<1> QED BY <1>3, <1>5, <1>6, <1>7 DEF AnswersAgree

\* The clock, and nothing at all.
LEMMA IdleAccount ==
    ASSUME AccountInv, Tick \/ StepBack \/ UNCHANGED vars
    PROVE  StoreAgrees' /\ AnswersAgree' /\ HandlersAgree'
<1>1. UNCHANGED <<rows, store, impulses, pc, locals, task>>
  BY DEF Tick, StepBack, vars, world
<1>2. HandlersAgree'
  BY <1>1 DEF AccountInv, HandlersAgree, HandlerAgrees, External, Budgeted, Pressed,
              Resolved, Contract, Msg, locals, store
<1> QED BY <1>1, <1>2, Thirds, StoreStill, AnswersStill DEF rows, store, NoneAnswered
-----------------------------------------------------------------------------
(* Steps that move a row.                                                  *)

\* What a step that moves the row of one contract has to show of it.
RowMoved(c) ==
    /\ \A e \in Contracts \ {c} : journal'[e] = journal[e]
    /\ UNCHANGED <<legacy, impulses>>
    /\ RowShape(journal'[c])
    /\ RowBacked(c)'
    /\ Known(c) => Known(c)'
    /\ Dispatched(c) => /\ journal'[c].dispatch_at = journal[c].dispatch_at
                        /\ journal'[c].device = journal[c].device
    /\ journal'[c].effect_count > 0 => journal'[c].device = NoDevice /\ ~Budgeted(c)'
    /\ journal'[c].result = "APPLIED" => Pressed(c)
    /\ journal'[c].result = "NOT_APPLIED_AFTER_UNCERTAIN_DISPATCH" => ~Pressed(c)
    /\ \A e \in Contracts \ {c} : (Budgeted(e)' => Budgeted(e)) /\ denial'[e] = denial[e]

\* Then the rest of the store agrees with it.
LEMMA StoreMoves ==
    ASSUME StoreAgrees, NEW c \in Contracts, RowMoved(c), DispatchWithinBudget'
    PROVE  StoreAgrees'
<1>1. JournalShape'
  <2>1. ASSUME NEW e \in Contracts \ {c}
        PROVE  RowShape(journal'[e]) /\ RowBacked(e)'
    <3>1. RowShape(journal'[e]) /\ RowBacked(e)
      BY DEF RowMoved, StoreAgrees, JournalShape
    <3>2. Claimed(e) => Claimed(e)'
      BY DEF RowMoved, Claimed, Known
    <3> QED BY <3>1, <3>2 DEF RowMoved, RowBacked, Known, Dispatched
  <2> QED BY <2>1 DEF RowMoved, JournalShape
<1>2. EffectWhereDispatched'
  <2>1. ASSUME NEW o \in Operations, NEW i \in DOMAIN impulses[o]
        PROVE  \E e \in Contracts : /\ OperationOf[e] = o
                                    /\ Dispatched(e)'
                                    /\ journal'[e].device = impulses[o][i]
    BY DEF RowMoved, StoreAgrees, EffectWhereDispatched, Dispatched
  <2>2. ASSUME NEW e \in Contracts, journal'[e].effect_count > 0
        PROVE  journal'[e].device = NoDevice /\ ~Budgeted(e)'
    BY <2>2 DEF RowMoved, StoreAgrees, EffectWhereDispatched
  <2> QED BY <2>1, <2>2 DEF RowMoved, EffectWhereDispatched
<1>3. VerdictMatchesDevice'
  BY DEF RowMoved, StoreAgrees, VerdictMatchesDevice, Pressed
<1> QED BY <1>1, <1>2, <1>3 DEF StoreAgrees

\* What such a step reports and completes is of that contract alone.
AnswerMoved(c) ==
    /\ outbox \subseteq outbox'
    /\ \A e \in Contracts \ {c} : \A r \in Reporters(e), t \in Terminal :
          <<r, t>> \in outbox' => <<r, t>> \in outbox
    /\ Resolved(c) => Resolved(c)'
    /\ denial[c] # "none" => denial'[c] # "none"
    /\ \A m \in Envelopes : inbox'[m] = "PROCESSED" =>
          \/ inbox[m] = "PROCESSED"
          \/ /\ ContractOf[m] = c
             /\ Resolved(c)' \/ denial'[c] # "none"

\* A moved row answers what it answered before, and its new ending, if it has
\* one, is the only one that is reported.
LEMMA AnswersMove ==
    ASSUME AnswersAgree, NEW c \in Contracts, RowMoved(c), AnswerMoved(c),
           ReportAgrees(c)'
    PROVE  AnswersAgree'
<1>1. ASSUME NEW e \in Contracts \ {c}
      PROVE  ReportAgrees(e)'
  BY <1>1 DEF AnswersAgree, ReportsAgree, ReportAgrees, RowMoved, AnswerMoved, Resolved,
              Known, Reporters
<1>2. ProcessedIsAnswered'
  BY EnvelopeContract DEF AnswersAgree, ProcessedIsAnswered, RowMoved, AnswerMoved, Resolved
<1> QED BY <1>1, <1>2 DEF AnswersAgree, ReportsAgree

\* Nobody else reports under a contract or one of its envelopes.
LEMMA OwnReports ==
    ASSUME NEW c \in Contracts, NEW e \in Contracts, e # c
    PROVE  c \notin Reporters(e)
BY RobotAssumption DEF RobotAssumption, Reporters

\* A budget that is left alone still pays for its row, if that is left alone too.
LEMMA BudgetStill ==
    ASSUME AccountInv, NEW c \in Contracts,
           \A e \in Contracts \ {c} : journal'[e] = journal[e],
           NEW o \in Operations, budget'[o] = budget[o], Bound(o),
           o # OperationOf[c] \/ ~Budgeted(c)
    PROVE  WithinBudget(o)'
<1>1. WithinBudget(o) /\ budget[o].bound \in Contracts
  BY DEF AccountInv, DispatchWithinBudget, PressInv, TypeInv, TypeOK, StoreType, Budgets,
         Bound
<1>2. budget[o].bound # c
  BY <1>1 DEF WithinBudget, Budgeted
<1> QED BY <1>1, <1>2 DEF WithinBudget, Dispatched, Resolved

\* The later of some times is within a bound when each of them is.
LEMMA LaterBound ==
    ASSUME NEW t \in Nat, NEW u \in Nat, NEW h \in Nat
    PROVE  LaterOf(t, u) \in Nat /\ (LaterOf(t, u) <= h <=> t <= h /\ u <= h)
BY DEF LaterOf

\* What a budget says of its row, time by time.
Pays(row, b) ==
    /\ b.reserved_at = row.dispatch_at
    /\ row.dispatch_at # 0 => /\ row.accepted_at <= row.dispatch_at
                              /\ row.dispatch_at < b.deadline_at
    /\ row.state \in Terminal => /\ row.accepted_at <= row.terminal_at
                                 /\ row.dispatch_at <= row.terminal_at
    /\ row.accepted_at <= b.high_water
    /\ row.dispatch_at <= b.high_water
    /\ row.terminal_at <= b.high_water

LEMMA BudgetPays ==
    ASSUME NEW row \in Rows, NEW b \in Budgets
    PROVE  /\ row.accepted_at \in Nat /\ row.dispatch_at \in Nat
           /\ row.terminal_at \in Nat /\ b.high_water \in Nat
           /\ LaterOf(row.accepted_at, row.dispatch_at) <= row.terminal_at
                 <=> /\ row.accepted_at <= row.terminal_at
                     /\ row.dispatch_at <= row.terminal_at
           /\ LaterOf(row.accepted_at, LaterOf(row.dispatch_at, row.terminal_at))
                    <= b.high_water
                 <=> /\ row.accepted_at <= b.high_water
                     /\ row.dispatch_at <= b.high_water
                     /\ row.terminal_at <= b.high_water
<1>1. /\ row.accepted_at \in Nat /\ row.dispatch_at \in Nat
      /\ row.terminal_at \in Nat /\ b.high_water \in Nat
  BY DEF Rows, Budgets, Times
<1>2. LaterOf(row.accepted_at, row.dispatch_at) <= row.terminal_at
         <=> row.accepted_at <= row.terminal_at /\ row.dispatch_at <= row.terminal_at
  BY <1>1, LaterBound
<1>3. LaterOf(row.dispatch_at, row.terminal_at) \in Nat
  BY <1>1, LaterBound
<1>4. LaterOf(row.dispatch_at, row.terminal_at) <= b.high_water
         <=> row.dispatch_at <= b.high_water /\ row.terminal_at <= b.high_water
  BY <1>1, LaterBound
<1>5. LaterOf(row.accepted_at, LaterOf(row.dispatch_at, row.terminal_at)) <= b.high_water
         <=> /\ row.accepted_at <= b.high_water
             /\ LaterOf(row.dispatch_at, row.terminal_at) <= b.high_water
  <2>1. \A u \in Nat : LaterOf(row.accepted_at, u) <= b.high_water
                          <=> row.accepted_at <= b.high_water /\ u <= b.high_water
    BY <1>1, LaterBound
  <2> QED BY <1>3, <2>1, Zenon
<1> QED BY <1>1, <1>2, <1>4, <1>5

\* A budget pays for its row before a step, and after it.
LEMMA PaidBefore ==
    ASSUME AccountInv, NEW c \in Contracts, Budgeted(c)
    PROVE  Pays(journal[c], budget[OperationOf[c]])
<1>1. /\ OperationOf[c] \in Operations
      /\ journal[c] \in Rows /\ budget[OperationOf[c]] \in Budgets
      /\ NoContract \notin Contracts
  BY RobotAssumption
     DEF RobotAssumption, AccountInv, PressInv, TypeInv, TypeOK, JournalType, StoreType
<1>2. WithinBudget(OperationOf[c]) /\ budget[OperationOf[c]].bound = c
  BY <1>1 DEF AccountInv, DispatchWithinBudget, Bound, Budgeted
<1> QED BY <1>1, <1>2, BudgetPays DEF Pays, WithinBudget, Dispatched, Resolved

LEMMA PaidAfter ==
    ASSUME TypeInv', NEW c \in Contracts, NEW o \in Operations, o = OperationOf[c],
           budget'[o].bound = c, Pays(journal'[c], budget'[o])
    PROVE  WithinBudget(o)'
<1>1. journal'[c] \in Rows /\ budget'[o] \in Budgets
  BY DEF TypeInv, TypeOK, JournalType, StoreType
<1>2. /\ Resolved(c)' => LaterOf(journal'[c].accepted_at, journal'[c].dispatch_at)
                            <= journal'[c].terminal_at
      /\ LaterOf(journal'[c].accepted_at,
                 LaterOf(journal'[c].dispatch_at, journal'[c].terminal_at))
            <= budget'[o].high_water
  BY <1>1, BudgetPays DEF Pays, Resolved
<1>3. /\ budget'[o].reserved_at = journal'[c].dispatch_at
      /\ Dispatched(c)' => /\ journal'[c].accepted_at <= journal'[c].dispatch_at
                           /\ journal'[c].dispatch_at < budget'[o].deadline_at
  BY DEF Pays, Dispatched
<1> QED BY <1>2, <1>3 DEF WithinBudget, Dispatched, Resolved, LaterOf

\* What the tables say of a contract in hand.
LEMMA InHand ==
    ASSUME AccountInv, NEW s \in Services, NEW c \in Contracts, c = Contract(s)
    PROVE  /\ OperationOf[c] \in Operations /\ Operation(s) = OperationOf[c]
           /\ clock \in 1..MaxClock /\ MaxClock \in Nat
           /\ RowShape(journal[c]) /\ RowBacked(c) /\ ReportAgrees(c)
           /\ journal[c] \in Rows /\ journal \in [Contracts -> Rows]
           /\ budget[OperationOf[c]] \in Budgets /\ budget \in [Operations -> Budgets]
           /\ Budgeted(c) => WithinBudget(OperationOf[c])
           /\ HandlerAgrees(s)
<1>1. OperationOf[c] \in Operations /\ NoContract \notin Contracts
  BY RobotAssumption DEF RobotAssumption
<1>2. Budgeted(c) => Bound(OperationOf[c])
  BY <1>1 DEF Budgeted, Bound
<1> QED BY <1>1, <1>2, RobotAssumption
        DEF RobotAssumption, AccountInv, JournalShape, ReportsAgree, DispatchWithinBudget,
            HandlersAgree, PressInv, TypeInv, TypeOK, WorldType, JournalType, StoreType,
            Operation

\* The acceptance begins a row of an operation that has none.
LEMMA AcceptAccount ==
    ASSUME AccountInv, NEW s \in Services, NEW c \in Contracts, c = Contract(s),
           Accept(s)
    PROVE  StoreAgrees' /\ AnswersAgree' /\ HandlersAgree'
<1> DEFINE o == OperationOf[c]
<1>1. /\ Msg(s) \in Envelopes /\ c \notin Unsupported
      /\ o \in Operations
      /\ legacy[c] # "LEGACY_UNBUDGETED_HOLD"
      /\ UNCHANGED <<inbox, legacy, denial, outbox, impulses, config, task>>
      /\ clock \in 1..MaxClock /\ MaxClock \in Nat
      /\ config[s].window \in Nat
  BY RobotAssumption
     DEF RobotAssumption, Accept, Admitting, Assigned, world, rows, locals,
         AccountInv, PressInv, TypeInv, TypeOK, WorldType, ProcessType, Configs
<1>2. /\ ~Known(c)
      /\ ~Claimed(c)
      /\ denial[c] = "none"
      /\ ~Budgeted(c) /\ (External(s) => ~Bound(o))
  <2>1. RowShape(journal[c]) /\ RowBacked(c) /\ NoContract \notin Contracts
    BY <1>1, RobotAssumption DEF RobotAssumption, AccountInv, JournalShape
  <2> QED BY <1>1, <2>1
          DEF Accept, Admission, RowBacked, SkipsBudget, Known, Dispatched, RowShape, NoRow,
              Budgeted, Bound
<1>3. journal' = [journal EXCEPT ![c] =
                     [NoRow EXCEPT !.state = "ACCEPTED", !.accepted_at = clock]]
  BY DEF Accept
<1>4. /\ journal'[c].state = "ACCEPTED" /\ journal'[c].accepted_at = clock
      /\ journal'[c].dispatch_at = 0 /\ journal'[c].device = NoDevice
      /\ journal'[c].effect_count = 0 /\ journal'[c].terminal_at = 0
      /\ journal'[c].result = "none"
      /\ \A e \in Contracts \ {c} : journal'[e] = journal[e]
  BY <1>3 DEF NoRow, AccountInv, PressInv, TypeInv, TypeOK, JournalType
<1>5. /\ External(s) => /\ budget'[o].bound = c /\ budget'[o].reserved_at = 0
                        /\ budget'[o].high_water = clock
      /\ ~External(s) => budget' = budget
      /\ \A p \in Operations \ {o} : budget'[p] = budget[p]
  BY <1>1 DEF Accept, AccountInv, PressInv, TypeInv, TypeOK, StoreType
<1>6. Contract(s)' = c /\ (External(s)' <=> External(s))
  BY <1>1 DEF Contract, Msg, External
<1>7. Budgeted(c)' <=> External(s)
  BY <1>2, <1>5 DEF Budgeted
<1>8. DispatchWithinBudget'
  <2>1. ASSUME NEW p \in Operations, Bound(p)', p # o \/ ~External(s)
        PROVE  WithinBudget(p)'
    <3>1. budget'[p] = budget[p]
      BY <1>5, <2>1
    <3>2. Bound(p)
      BY <2>1, <3>1 DEF Bound
    <3> QED BY <1>2, <1>4, <3>1, <3>2, BudgetStill
  <2>2. ASSUME External(s)
        PROVE  WithinBudget(o)'
    <3>1. journal'[c].dispatch_at = 0 /\ journal'[c].state \notin Terminal
      BY <1>4 DEF Terminal
    <3> QED BY <1>1, <1>4, <1>5, <2>2, <3>1 DEF WithinBudget, Dispatched, Resolved, LaterOf
  <2> QED BY <2>1, <2>2 DEF DispatchWithinBudget
<1>9. RowMoved(c)
  <2>1. RowShape(journal'[c])
    BY <1>4 DEF RowShape
  <2>2. legacy[c] # "LEGACY_OBSERVE_ONLY" /\ ~Dispatched(c)
    BY <1>2 DEF AccountInv, JournalShape, RowShape, RowBacked, NoRow, Known, Dispatched
  <2>3. RowBacked(c)' /\ Known(c)'
    BY <1>1, <1>2, <1>4, <2>2 DEF RowBacked, Known, Dispatched
  <2>4. \A e \in Contracts \ {c} : Budgeted(e)' => Budgeted(e)
    BY <1>1, <1>5, RobotAssumption DEF RobotAssumption, Budgeted
  <2> QED BY <1>1, <1>4, <2>1, <2>2, <2>3, <2>4 DEF RowMoved
<1>10. StoreAgrees'
  BY <1>8, <1>9, Thirds, StoreMoves
<1>11. AnswersAgree'
  <2>1. ReportAgrees(c)'
    <3>1. \A e \in Reporters(c), t \in Terminal : <<e, t>> \notin outbox
      BY <1>1, <1>2 DEF AccountInv, ReportsAgree, ReportAgrees, Known, Terminal
    <3> QED BY <1>1, <1>4, <3>1 DEF ReportAgrees, Resolved, Terminal, Reporters
  <2>2. ~Resolved(c)
    BY <1>2 DEF Known, Resolved, Terminal
  <2>3. AnswerMoved(c)
    BY <1>1, <2>2 DEF AnswerMoved
  <2> QED BY <1>9, <2>1, <2>3, Thirds, AnswersMove
<1>12. HandlersAgree'
  <2>1. /\ pc[s] \in OwnerLabels /\ pc'[s] = "accepted"
        /\ \A t \in Services \ {s} : pc'[t] = pc[t]
    BY DEF Accept, Admitting, Assigned, OwnerLabels, Goto, AccountInv, PressInv, TypeInv,
           TypeOK, ProcessType
  <2>2. HandlerAgrees(s)'
    BY <1>6, <1>7, <2>1 DEF HandlerAgrees
  <2> QED BY <2>1, <2>2, Thirds, Halves, HandlerAlone
<1> QED BY <1>10, <1>11, <1>12

\* A contract that is denied has a row, or another contract has the operation's.
LEMMA DeniedIsBacked ==
    ASSUME AccountInv, NEW s \in Services, NEW c \in Contracts, c = Contract(s),
           HoldLegacy(s) \/ DenyScope(s) \/ DenyBudget(s)
    PROVE  Known(c) \/ Claimed(c)
<1>1. CASE HoldLegacy(s)
  BY <1>1, InHand DEF HoldLegacy, RowBacked
<1>2. CASE DenyBudget(s)
  BY <1>2 DEF DenyBudget, AccountInv, PressInv, AcceptedInHand, Known
<1>3. CASE DenyScope(s)
  <2> DEFINE o == OperationOf[c]
             e == budget[o].bound
  <2>1. CASE Bound(o) /\ ~Budgeted(c)
    <3>1. e \in Contracts \ {c} /\ OperationOf[e] = o
      BY <2>1, InHand
         DEF AccountInv, DispatchWithinBudget, WithinBudget, Budgets, Bound, Budgeted
    <3>2. Known(e)
      BY <3>1 DEF AccountInv, JournalShape, RowBacked, Budgeted
    <3> QED BY SMTT(30), <3>1, <3>2 DEF Claimed, Known
  <2>2. CASE ~(Bound(o) /\ ~Budgeted(c))
    BY <1>3, <2>2, InHand DEF DenyScope, Admission, RowBacked
  <2> QED BY <2>1, <2>2
<1> QED BY <1>1, <1>2, <1>3

\* A denial ends an accepted row, and answers the message of any other.
LEMMA DenialAccount ==
    ASSUME AccountInv, NEW s \in Services, NEW c \in Contracts, c = Contract(s),
           HoldLegacy(s) \/ DenyScope(s) \/ DenyBudget(s)
    PROVE  StoreAgrees' /\ AnswersAgree' /\ HandlersAgree'
<1> DEFINE o == OperationOf[c]
<1>1. /\ pc[s] \in OwnerLabels
      /\ Msg(s) \in Envelopes
      /\ UNCHANGED <<received_at, legacy, world, locals, faults>>
  BY DEF HoldLegacy, DenyScope, DenyBudget, Admitting, Assigned, AccountInv, PressInv,
         TypeInv, WorkInHand, OwnerLabels, ContractLabels
<1>2. PICK reason \in Reasons, previous \in {"RECEIVED", "ACCEPTED"} :
          Deny(s, reason, previous)
  BY DEF HoldLegacy, DenyScope, DenyBudget, Reasons
<1>5. TypeInv'
  BY DenialType DEF AccountInv, PressInv
<1>3. CASE ~CanDeny(s, reason, previous)
  <2>1. Exits(s)
    <3>1. faults <= MaxFaults
      BY RobotAssumption
         DEF RobotAssumption, AccountInv, PressInv, TypeInv, TypeOK, WorldType
    <3> QED BY <1>1, <1>2, <1>3, <3>1 DEF Deny, Exits, Raise, rows, store
  <2> QED BY <2>1, ExitAccount
<1>4. CASE CanDeny(s, reason, previous)
  <2>1. /\ Known(c) => /\ journal[c].state \in {"ACCEPTED", "HELD"}
                       /\ journal[c].dispatch_at = 0
                       /\ clock >= journal[c].accepted_at
        /\ Known(c) \/ Claimed(c)
    BY <1>4, DeniedIsBacked DEF CanDeny, Known
  <2>2. /\ denial'[c] = reason /\ reason # "none"
        /\ \A e \in Contracts \ {c} : denial'[e] = denial[e]
        /\ outbox' = outbox \cup {<<c, "HELD">>}
        /\ inbox' = Complete(inbox, Msg(s))
        /\ NextClaim(s)
    BY <1>2, <1>4 DEF Deny, Reasons, AccountInv, PressInv, TypeInv, TypeOK, StoreType
  <2>3. /\ \A e \in Contracts \ {c} : journal'[e] = journal[e]
        /\ journal'[c].accepted_at = journal[c].accepted_at
        /\ journal'[c].dispatch_at = journal[c].dispatch_at
        /\ journal'[c].device = journal[c].device
        /\ journal'[c].effect_count = journal[c].effect_count
        /\ \/ journal'[c] = journal[c] /\ journal[c].state # "ACCEPTED"
           \/ /\ journal[c].state = "ACCEPTED" /\ journal'[c].state = "HELD"
              /\ journal'[c].terminal_at = clock /\ journal'[c].result = reason
    BY <1>2, <1>4, InHand DEF Deny, EndsRow, Rows
  <2>4. /\ \A p \in Operations : budget'[p].bound = budget[p].bound
        /\ \A p \in Operations : p # o \/ ~Budgeted(c) => budget'[p] = budget[p]
        /\ Budgeted(c) => /\ budget'[o].reserved_at = budget[o].reserved_at
                          /\ budget'[o].deadline_at = budget[o].deadline_at
                          /\ budget'[o].high_water = LaterOf(clock, budget[o].high_water)
    BY <1>2, <1>4, InHand DEF Deny, Budgets
  <2>5. DispatchWithinBudget'
    <3>1. ASSUME NEW p \in Operations, Bound(p)', p # o \/ ~Budgeted(c)
          PROVE  WithinBudget(p)'
      <4>1. budget'[p] = budget[p]
        BY <2>4, <3>1
      <4>2. Bound(p)
        BY <3>1, <4>1 DEF Bound
      <4> QED BY <2>3, <3>1, <4>1, <4>2, BudgetStill
    <3>2. ASSUME Budgeted(c)
          PROVE  WithinBudget(o)'
      <4>1. /\ budget'[o].bound = c /\ Known(c)
            /\ Pays(journal[c], budget[o])
            /\ journal[c] \in Rows /\ budget[o] \in Budgets
        BY <2>4, <3>2, InHand, PaidBefore DEF Budgeted, RowBacked
      <4>2. clock \in Nat /\ budget[o].high_water \in Nat
        BY <4>1, InHand DEF Budgets, Times
      <4>3. /\ budget'[o].high_water >= budget[o].high_water
            /\ budget'[o].high_water >= clock
            /\ budget'[o].high_water \in Nat
        BY <2>4, <3>2, <4>2 DEF LaterOf
      <4>4. /\ journal[c].accepted_at \in Nat /\ journal[c].terminal_at \in Nat
            /\ journal[c].dispatch_at = 0
        BY <2>1, <4>1, BudgetPays
      <4>5. Pays(journal'[c], budget'[o])
        BY <2>1, <2>3, <2>4, <3>2, <4>1, <4>2, <4>3, <4>4 DEF Pays
      <4> QED BY <1>5, <4>1, <4>5, InHand, PaidAfter
    <3> QED BY <3>1, <3>2 DEF DispatchWithinBudget
  <2>6. RowMoved(c)
    <3>1. RowShape(journal[c]) /\ RowBacked(c)
      BY InHand
    <3>2. RowShape(journal'[c])
      BY <2>3, <3>1, <1>2 DEF RowShape, NoRow, Terminal
    <3>3. (Known(c)' <=> Known(c)) /\ (Budgeted(c)' <=> Budgeted(c))
      BY <2>3, <2>4, InHand DEF Known, Budgeted
    <3>4. Claimed(c) => Claimed(c)'
      BY <2>3 DEF Claimed
    <3>5. ~Dispatched(c) /\ ~Dispatched(c)'
      BY <2>1, <2>3, <3>1 DEF Dispatched, Known, RowShape, NoRow
    <3>6. RowBacked(c)'
      BY <1>1, <2>1, <2>2, <3>1, <3>3, <3>4, <3>5 DEF RowBacked
    <3>7. /\ journal'[c].effect_count = 0
          /\ journal'[c].result \notin {"APPLIED", "NOT_APPLIED_AFTER_UNCERTAIN_DISPATCH"}
      BY <2>1, <2>3, <3>1, <1>2 DEF RowShape, NoRow, Known, Reasons, Resolutions
    <3>8. \A e \in Contracts : Budgeted(e)' => Budgeted(e)
      BY <2>4, RobotAssumption DEF RobotAssumption, Budgeted
    <3> QED BY <1>1, <2>2, <2>3, <3>2, <3>3, <3>5, <3>6, <3>7, <3>8
            DEF RowMoved, world
  <2>7. StoreAgrees'
    BY <2>5, <2>6, Thirds, StoreMoves
  <2>8. AnswersAgree'
    <3>1. Resolved(c) => journal'[c] = journal[c]
      BY <2>3 DEF Resolved, Terminal
    <3>2. ReportAgrees(c)'
      <4>1. ReportAgrees(c)
        BY InHand
      <4>2. Known(c)' => journal'[c].state = "HELD"
        BY <2>1, <2>3 DEF Known
      <4>3. Resolved(c)' => journal'[c].state = "HELD"
        BY <4>2 DEF Resolved, Known, Terminal
      <4>4. \A t \in Terminal, e \in Reporters(c) : <<e, t>> \in outbox => t = "HELD"
        BY <2>1, <4>1 DEF ReportAgrees, Known, Terminal
      <4> QED BY <2>2, <4>2, <4>3, <4>4 DEF ReportAgrees, Reporters
    <3>3. AnswerMoved(c)
      <4>1. \A e \in Contracts \ {c} : c \notin Reporters(e)
        BY OwnReports
      <4>2. \A m \in Envelopes \ {Msg(s)} : inbox'[m] = "PROCESSED" => inbox[m] = "PROCESSED"
        BY <2>2 DEF Complete, AccountInv, PressInv, TypeInv, TypeOK, InboxType, Messages
      <4>3. ContractOf[Msg(s)] = c
        BY DEF Contract
      <4> QED BY <2>2, <3>1, <4>1, <4>2, <4>3 DEF AnswerMoved, Resolved
    <3> QED BY <2>6, <3>2, <3>3, Thirds, AnswersMove
  <2>9. HandlersAgree'
    <3>1. pc'[s] = "loop" /\ \A t \in Services \ {s} : pc'[t] = pc[t]
      BY <2>2 DEF NextClaim, Goto, AccountInv, PressInv, TypeInv, TypeOK, ProcessType
    <3>2. HandlerAgrees(s)'
      BY <3>1 DEF HandlerAgrees
    <3> QED BY <1>1, <3>1, <3>2, Thirds, Halves, HandlerAlone
  <2> QED BY <2>7, <2>8, <2>9
<1> QED BY <1>3, <1>4

\* Nobody has reported an ending of a row that is not ended.
LEMMA NotReported ==
    ASSUME AccountInv, NEW c \in Contracts,
           journal[c].state \in {"ACCEPTED", "DISPATCH_RECORDED"}
    PROVE  \A e \in Reporters(c), t \in Terminal : <<e, t>> \notin outbox
BY DEF AccountInv, ReportsAgree, ReportAgrees, Known, Terminal

\* The dispatch is recorded on the device of the process that made it, and with
\* the budget that pays for it.
LEMMA DispatchAccount ==
    ASSUME AccountInv, NEW s \in Services, NEW c \in Contracts, c = Contract(s),
           Reserve(s) \/ RecordDispatch(s)
    PROVE  StoreAgrees' /\ AnswersAgree' /\ HandlersAgree'
<1> DEFINE o == OperationOf[c]
<1>1. /\ pc[s] = "reserve" /\ pc'[s] = "dispatched"
      /\ \A t \in Services \ {s} : pc'[t] = pc[t]
      /\ UNCHANGED <<inbox, legacy, denial, outbox, impulses, config>>
      /\ Contract(s)' = c
  <2>1. \A t \in Services : task'[t].msg = task[t].msg
    BY DEF Reserve, RecordDispatch, AccountInv, PressInv, TypeInv, TypeOK, ProcessType,
           Tasks
  <2> QED BY <2>1 DEF Reserve, RecordDispatch, rows, world, locals, Goto, AccountInv,
                      PressInv, TypeInv, TypeOK, ProcessType, Contract, Msg
<1>2. /\ journal[c].state = "ACCEPTED" /\ Known(c)
      /\ journal[c].dispatch_at = 0 /\ journal[c].device = NoDevice
      /\ journal[c].effect_count = 0 /\ journal[c].terminal_at = 0
      /\ journal[c].result = "none"
      /\ External(s) <=> Budgeted(c)
      /\ clock # 0
  <2>1. journal[c].state = "ACCEPTED"
    BY <1>1 DEF AccountInv, PressInv, AcceptedInHand
  <2> QED BY <1>1, <2>1, InHand DEF RowShape, NoRow, Known, HandlerAgrees, Terminal
<1>3. /\ journal'[c].state = "DISPATCH_RECORDED"
      /\ journal'[c].accepted_at = journal[c].accepted_at
      /\ journal'[c].dispatch_at = clock /\ journal'[c].device = config[s].adapter
      /\ journal'[c].effect_count = 0 /\ journal'[c].terminal_at = 0
      /\ journal'[c].result = "none"
      /\ \A e \in Contracts \ {c} : journal'[e] = journal[e]
  BY <1>2, InHand DEF Reserve, RecordDispatch, DispatchDevice, External, Rows
<1>4. /\ \A p \in Operations : budget'[p].bound = budget[p].bound
      /\ \A p \in Operations : p # o \/ ~Budgeted(c) => budget'[p] = budget[p]
      /\ Budgeted(c) => /\ budget'[o].reserved_at = clock
                        /\ budget'[o].high_water = clock
                        /\ budget'[o].deadline_at = budget[o].deadline_at
  BY SMTT(30), <1>2, InHand DEF Reserve, RecordDispatch, Budgets
<1>5. TypeInv'
  BY ExecutionType DEF AccountInv, PressInv
<1>6. DispatchWithinBudget'
  <2>1. ASSUME NEW p \in Operations, Bound(p)', p # o \/ ~Budgeted(c)
        PROVE  WithinBudget(p)'
    <3>1. budget'[p] = budget[p]
      BY <1>4, <2>1
    <3>2. Bound(p)
      BY <2>1, <3>1 DEF Bound
    <3> QED BY <1>3, <2>1, <3>1, <3>2, BudgetStill
  <2>2. ASSUME Budgeted(c)
        PROVE  WithinBudget(o)'
    <3>1. /\ budget'[o].bound = c
          /\ journal[c] \in Rows /\ budget[o] \in Budgets
      BY <1>4, <2>2, InHand DEF Budgeted
    <3>2. /\ clock < budget[o].deadline_at
          /\ clock >= LaterOf(journal[c].accepted_at, budget[o].high_water)
      <4>1. External(s) /\ BudgetVerdict(s) = "OK"
        BY <1>2, <2>2 DEF Reserve, RecordDispatch
      <4>2. budget[o].deadline_at \in Nat /\ budget[o].reserved_at \in Nat /\ clock \in Nat
        BY <3>1, InHand DEF Budgets, Times
      <4>3. ~(clock < LaterOf(journal[c].accepted_at, budget[o].high_water))
            /\ ~(clock >= budget[o].deadline_at)
        BY <4>1, InHand DEF BudgetVerdict
      <4>4. LaterOf(journal[c].accepted_at, budget[o].high_water) \in Nat
        BY <3>1, BudgetPays, LaterBound
      <4> QED BY <4>2, <4>3, <4>4
    <3>3. journal[c].accepted_at \in Nat /\ journal[c].accepted_at <= clock /\ clock \in Nat
      <4>1. journal[c].accepted_at \in Nat /\ budget[o].high_water \in Nat /\ clock \in Nat
        BY <3>1, BudgetPays, InHand
      <4>2. LaterOf(journal[c].accepted_at, budget[o].high_water) <= clock
        BY <3>2, <4>1, LaterBound
      <4> QED BY <4>1, <4>2, LaterBound
    <3>4. Pays(journal'[c], budget'[o])
      BY <1>3, <1>4, <2>2, <3>2, <3>3 DEF Pays, Terminal
    <3> QED BY <1>5, <3>1, <3>4, InHand, PaidAfter
  <2> QED BY <2>1, <2>2 DEF DispatchWithinBudget
<1>7. RowMoved(c)
  <2>1. RowShape(journal'[c])
    BY <1>2, <1>3 DEF RowShape
  <2>2. (Budgeted(c)' <=> Budgeted(c)) /\ Known(c)'
    BY <1>3, <1>4, InHand DEF Known, Budgeted
  <2>3. RowBacked(c)'
    BY <1>1, <1>2, <1>3, <2>2, InHand DEF RowBacked, Known, Dispatched, External
  <2>4. \A e \in Contracts : Budgeted(e)' => Budgeted(e)
    BY <1>4, RobotAssumption DEF RobotAssumption, Budgeted
  <2> QED BY <1>1, <1>2, <1>3, <2>1, <2>2, <2>3, <2>4 DEF RowMoved, Dispatched
<1>8. StoreAgrees'
  BY <1>6, <1>7, Thirds, StoreMoves
<1>9. AnswersAgree'
  <2>1. ReportAgrees(c)'
    BY <1>1, <1>2, <1>3, NotReported DEF ReportAgrees, Resolved, Terminal, Reporters
  <2>2. AnswerMoved(c)
    BY <1>1, <1>2 DEF AnswerMoved, Resolved, Terminal
  <2> QED BY <1>7, <2>1, <2>2, Thirds, AnswersMove
<1>10. HandlersAgree'
  <2>1. HandlerAgrees(s)'
    BY <1>1, <1>3 DEF HandlerAgrees
  <2>2. pc[s] \in OwnerLabels
    BY <1>1 DEF OwnerLabels, ContractLabels
  <2> QED BY <1>1, <2>1, <2>2, Thirds, Halves, HandlerAlone
<1> QED BY <1>8, <1>9, <1>10

\* The row of the external contract in hand when its verdict is recorded.
LEMMA ResolvedRow ==
    ASSUME AccountInv, NEW s \in Services, NEW c \in Contracts, c = Contract(s),
           Resolve(s)
    PROVE  /\ journal[c].state = "DISPATCH_RECORDED"
           /\ journal[c].dispatch_at <= clock
           /\ RowShape(journal'[c])
           /\ journal'[c].effect_count = 0 /\ journal'[c].device # NoDevice
           /\ journal'[c].result = "APPLIED" => Pressed(c)
           /\ journal'[c].result = "NOT_APPLIED_AFTER_UNCERTAIN_DISPATCH" => ~Pressed(c)
           /\ \A p \in Operations : budget'[p].bound = budget[p].bound
           /\ \A p \in Operations : p # OperationOf[c] \/ ~Budgeted(c) =>
                 budget'[p] = budget[p]
           /\ Budgeted(c) =>
                 /\ budget'[OperationOf[c]].reserved_at = budget[OperationOf[c]].reserved_at
                 /\ budget'[OperationOf[c]].deadline_at = budget[OperationOf[c]].deadline_at
                 /\ budget'[OperationOf[c]].high_water =
                       LaterOf(clock, budget[OperationOf[c]].high_water)
<1>1. /\ journal[c].state = "DISPATCH_RECORDED" /\ journal[c].dispatch_at <= clock
      /\ journal[c].device = config[s].adapter
  BY InHand DEF Resolve, CanResolve, ClockTrusted, Rows, Times
<1>2. journal[c].device # NoDevice
  BY <1>1, InHand DEF Resolve, HandlerAgrees, External
<1>3. journal[c].dispatch_at # 0 /\ journal[c].effect_count = 0
  BY <1>1, InHand DEF RowShape, NoRow
<1>4. task[s].outcome \in Outcomes
  BY DEF AccountInv, PressInv, TypeInv, TypeOK, ProcessType, Tasks
<1>5. /\ journal'[c].state = TerminalFor(task[s].outcome)
      /\ journal'[c].result = ResolutionOf(task[s].outcome)
      /\ journal'[c].dispatch_at = journal[c].dispatch_at
      /\ journal'[c].device = journal[c].device
      /\ journal'[c].effect_count = 0
  BY <1>3, InHand DEF Resolve, Rows
<1>6. RowShape(journal'[c])
  BY <1>2, <1>3, <1>4, <1>5
     DEF RowShape, TerminalFor, ResolutionOf, Outcomes, Resolutions, NoRow
<1>7. /\ journal'[c].result = "APPLIED" => Pressed(c)
      /\ journal'[c].result = "NOT_APPLIED_AFTER_UNCERTAIN_DISPATCH" => ~Pressed(c)
  BY <1>4, <1>5, InHand DEF ResolutionOf, Outcomes, Resolve, HandlerAgrees
<1>8. budget' = IF Budgeted(c)
               THEN [budget EXCEPT
                        ![OperationOf[c]].resolution = ResolutionOf(task[s].outcome),
                        ![OperationOf[c]].high_water = LaterOf(clock, @)]
               ELSE budget
  BY ZenonT(30), InHand DEF Resolve
<1> QED BY <1>1, <1>2, <1>5, <1>6, <1>7, <1>8, InHand DEF Budgets

\* A verdict ends the dispatched row with what the device has answered, or with
\* the dummy's own effect.
LEMMA VerdictAccount ==
    ASSUME AccountInv, NEW s \in Services, NEW c \in Contracts, c = Contract(s),
           Resolve(s) \/ CommitDummyEffect(s)
    PROVE  StoreAgrees' /\ AnswersAgree' /\ HandlersAgree'
<1> DEFINE o == OperationOf[c]
<1>1. /\ pc[s] \in OwnerLabels /\ pc'[s] = "complete"
      /\ \A t \in Services \ {s} : pc'[t] = pc[t]
      /\ UNCHANGED <<inbox, legacy, denial, impulses>>
      /\ Contract(s)' = c
  BY ZenonT(30) DEF Resolve, CommitDummyEffect, rows, world, Goto, OwnerLabels, ContractLabels,
         AccountInv, PressInv, TypeInv, TypeOK, ProcessType, Contract, Msg
<1>2. /\ journal[c].state = "DISPATCH_RECORDED" /\ journal[c].dispatch_at # 0
      /\ RowBacked(c) /\ Known(c) /\ journal[c].accepted_at \in Times
      /\ CommitDummyEffect(s) => journal[c].device = NoDevice /\ ~Budgeted(c)
  <2>1. journal[c].state = "DISPATCH_RECORDED"
    BY ResolvedRow DEF CommitDummyEffect
  <2>2. journal[c].dispatch_at # 0
    BY <2>1, InHand DEF RowShape, NoRow
  <2>3. CommitDummyEffect(s) => journal[c].device = NoDevice
    BY InHand DEF CommitDummyEffect, HandlerAgrees, External
  <2> QED BY <2>1, <2>2, <2>3, InHand DEF RowBacked, Known, Dispatched, Rows
<1>3. /\ journal'[c].state \in Terminal
      /\ outbox' = outbox \cup {<<c, journal'[c].state>>}
      /\ journal'[c].accepted_at = journal[c].accepted_at
      /\ journal'[c].dispatch_at = journal[c].dispatch_at
      /\ journal'[c].device = journal[c].device
      /\ journal'[c].terminal_at = clock
      /\ \A e \in Contracts \ {c} : journal'[e] = journal[e]
  BY InHand DEF Resolve, CommitDummyEffect, TerminalFor, Terminal, Rows, Emit
<1>4. /\ RowShape(journal'[c])
      /\ journal'[c].effect_count > 0 => journal'[c].device = NoDevice /\ ~Budgeted(c)
      /\ journal'[c].result = "APPLIED" => Pressed(c)
      /\ journal'[c].result = "NOT_APPLIED_AFTER_UNCERTAIN_DISPATCH" => ~Pressed(c)
  <2>1. CASE Resolve(s)
    BY <2>1, ResolvedRow
  <2>2. CASE CommitDummyEffect(s)
    <3>1. /\ journal'[c].state = "SUCCEEDED" /\ journal'[c].effect_count = 1
          /\ journal'[c].result = "DUMMY"
      BY <2>2, InHand DEF CommitDummyEffect, Rows
    <3> QED BY <1>2, <1>3, <2>2, <3>1 DEF RowShape
  <2> QED BY <2>1, <2>2
<1>5. /\ \A p \in Operations : budget'[p].bound = budget[p].bound
      /\ \A p \in Operations : p # o \/ ~Budgeted(c) => budget'[p] = budget[p]
  BY ResolvedRow DEF CommitDummyEffect
<1>6. TypeInv'
  BY ExecutionType DEF AccountInv, PressInv
<1>7. DispatchWithinBudget'
  <2>1. ASSUME NEW p \in Operations, Bound(p)', p # o \/ ~Budgeted(c)
        PROVE  WithinBudget(p)'
    <3>1. budget'[p] = budget[p]
      BY <1>5, <2>1
    <3>2. Bound(p)
      BY <2>1, <3>1 DEF Bound
    <3> QED BY <1>3, <2>1, <3>1, <3>2, BudgetStill
  <2>2. ASSUME Budgeted(c)
        PROVE  WithinBudget(o)'
    <3>1. /\ budget'[o].bound = c
          /\ Pays(journal[c], budget[o])
          /\ journal[c] \in Rows /\ budget[o] \in Budgets
      BY <1>5, <2>2, InHand, PaidBefore DEF Budgeted
    <3>2. Resolve(s)
      BY <1>2, <2>2
    <3>3. /\ budget'[o].reserved_at = budget[o].reserved_at
          /\ budget'[o].deadline_at = budget[o].deadline_at
          /\ budget'[o].high_water = LaterOf(clock, budget[o].high_water)
          /\ journal[c].dispatch_at <= clock
      BY <2>2, <3>2, ResolvedRow
    <3>4. /\ journal[c].accepted_at \in Nat /\ journal[c].dispatch_at \in Nat
          /\ clock \in Nat /\ budget[o].high_water \in Nat
      BY <3>1, BudgetPays, InHand
    <3>5. /\ budget'[o].high_water >= budget[o].high_water
          /\ budget'[o].high_water >= clock
          /\ budget'[o].high_water \in Nat
      BY <3>3, <3>4 DEF LaterOf
    <3>6. Pays(journal'[c], budget'[o])
      BY <1>2, <1>3, <3>1, <3>3, <3>4, <3>5 DEF Pays
    <3> QED BY <1>6, <3>1, <3>6, InHand, PaidAfter
  <2> QED BY <2>1, <2>2 DEF DispatchWithinBudget
<1>8. RowMoved(c)
  <2>1. (Budgeted(c)' <=> Budgeted(c)) /\ Known(c)'
    BY <1>3, <1>5, InHand DEF Known, Budgeted, Terminal
  <2>2. RowBacked(c)'
    BY <1>1, <1>2, <1>3, <2>1 DEF RowBacked, Known, Dispatched
  <2>3. \A e \in Contracts : Budgeted(e)' => Budgeted(e)
    BY <1>5, RobotAssumption DEF RobotAssumption, Budgeted
  <2> QED BY <1>1, <1>3, <1>4, <2>1, <2>2, <2>3 DEF RowMoved
<1>9. StoreAgrees'
  BY <1>7, <1>8, Thirds, StoreMoves
<1>10. AnswersAgree'
  <2>1. ReportAgrees(c)'
    BY <1>2, <1>3, NotReported DEF ReportAgrees, Resolved, Reporters
  <2>2. AnswerMoved(c)
    BY <1>1, <1>3, OwnReports DEF AnswerMoved, Resolved
  <2> QED BY <1>8, <2>1, <2>2, Thirds, AnswersMove
<1>11. HandlersAgree'
  <2>1. HandlerAgrees(s)'
    BY <1>1, <1>3 DEF HandlerAgrees, Resolved
  <2> QED BY <1>1, <2>1, Thirds, Halves, HandlerAlone
<1> QED BY <1>9, <1>10, <1>11

\* The press is given on the device of the row, which has no verdict yet.
LEMMA ImpulseAccount ==
    ASSUME AccountInv, NEW s \in Services, NEW c \in Contracts, c = Contract(s),
           Press(s) \/ PressRaises(s)
    PROVE  StoreAgrees' /\ AnswersAgree' /\ HandlersAgree'
<1> DEFINE o == OperationOf[c]
<1>1. /\ pc[s] = "press" /\ pc'[s] \in {"observe", "idle", "down"}
      /\ \A t \in Services \ {s} : pc'[t] = pc[t]
      /\ UNCHANGED <<rows, store, config>>
      /\ Impulse(s) \/ UNCHANGED impulses
      /\ pc'[s] = "observe" => Contract(s)' = c
  BY DEF Press, PressRaises, Raise, Leave, locals, Goto, AccountInv, PressInv, TypeInv,
         TypeOK, ProcessType, Contract, Msg
<1>2. /\ journal[c].state = "DISPATCH_RECORDED" /\ Dispatched(c)
      /\ journal[c].device = config[s].adapter /\ External(s)
      /\ journal[c].result = "none" /\ impulses[o] = <<>>
  <2>1. journal[c].state = "DISPATCH_RECORDED" /\ journal[c].device = config[s].adapter
        /\ External(s)
    BY <1>1, InHand DEF HandlerAgrees
  <2>2. Dispatched(c) /\ impulses[o] = <<>>
    BY <1>1 DEF AccountInv, PressInv, RightToPress, Pressed
  <2> QED BY <2>1, <2>2, InHand DEF RowShape, NoRow
<1>3. /\ \A p \in Operations \ {o} : impulses'[p] = impulses[p]
      /\ \/ impulses'[o] = <<>>
         \/ impulses'[o] = <<config[s].adapter>>
  <2>1. CASE UNCHANGED impulses
    BY <1>2, <2>1
  <2>2. CASE Impulse(s)
    <3>1. impulses' = [impulses EXCEPT ![o] = Append(<<>>, config[s].adapter)]
      BY <1>2, <2>2, InHand DEF Impulse
    <3>2. Append(<<>>, config[s].adapter) = <<config[s].adapter>>
      OBVIOUS
    <3> QED BY <3>1, <3>2, InHand DEF AccountInv, PressInv, TypeInv, TypeOK, WorldType
  <2> QED BY <1>1, <2>1, <2>2
<1>4. JournalShape' /\ DispatchWithinBudget'
  BY <1>1 DEF AccountInv, JournalShape, RowBacked, Known, Claimed, Dispatched, Budgeted,
              DispatchWithinBudget, WithinBudget, Bound, Resolved, LaterOf, store
<1>5. EffectWhereDispatched'
  <2>1. \A e \in Contracts : journal'[e].effect_count > 0 =>
           journal'[e].device = NoDevice /\ ~Budgeted(e)'
    BY <1>1 DEF AccountInv, EffectWhereDispatched, Budgeted, store
  <2>2. ASSUME NEW p \in Operations, NEW i \in DOMAIN impulses'[p]
        PROVE  \E e \in Contracts : /\ OperationOf[e] = p
                                    /\ Dispatched(e)'
                                    /\ journal'[e].device = impulses'[p][i]
    <3>1. CASE p # o
      BY <1>1, <1>3, <2>2, <3>1 DEF AccountInv, EffectWhereDispatched, Dispatched, store
    <3>2. CASE p = o
      <4>1. impulses'[o] = <<config[s].adapter>>
        BY <1>3, <2>2, <3>2
      <4>2. impulses'[o][i] = config[s].adapter
        BY <2>2, <3>2, <4>1
      <4> QED BY <1>1, <1>2, <3>2, <4>2 DEF Dispatched, store
    <3> QED BY <3>1, <3>2
  <2> QED BY <2>1, <2>2 DEF EffectWhereDispatched
<1>6. VerdictMatchesDevice'
  <2> SUFFICES ASSUME NEW e \in Contracts
               PROVE  /\ journal'[e].result = "APPLIED" => Pressed(e)'
                      /\ journal'[e].result = "NOT_APPLIED_AFTER_UNCERTAIN_DISPATCH"
                            => ~Pressed(e)'
    BY DEF VerdictMatchesDevice
  <2>1. OperationOf[e] \in Operations
    BY RobotAssumption DEF RobotAssumption
  <2>2. CASE OperationOf[e] # o
    BY <1>1, <1>3, <2>1, <2>2 DEF AccountInv, VerdictMatchesDevice, Pressed, store
  <2>3. CASE OperationOf[e] = o
    <3>1. journal[e].state = "NONE" \/ e = c
      BY <1>2, <2>3 DEF AccountInv, PressInv, OneContractPerOperation
    <3>2. journal[e].result = "none"
      BY <1>2, <3>1 DEF AccountInv, JournalShape, RowShape, NoRow
    <3> QED BY <1>1, <3>2 DEF store
  <2> QED BY <2>2, <2>3
<1>7. AnswersAgree'
  BY <1>1, Thirds, AnswersStill DEF rows, store, NoneAnswered
<1>8. HandlersAgree'
  <2>1. External(s)' <=> External(s)
    BY <1>1 DEF External
  <2>2. HandlerAgrees(s)'
    BY <1>1, <1>2, <2>1 DEF HandlerAgrees, store
  <2>3. pc[s] \in OwnerLabels
    BY <1>1 DEF OwnerLabels, ContractLabels
  <2> QED BY <1>1, <2>2, <2>3, Thirds, Halves, HandlerAlone
<1> QED BY <1>4, <1>5, <1>6, <1>7, <1>8 DEF StoreAgrees

\* A step that works on a contract has one in hand.
LEMMA WorkedOn ==
    ASSUME AccountInv, NEW s \in Services,
           \/ HoldLegacy(s) \/ DenyScope(s) \/ DenyBudget(s) \/ Accept(s)
           \/ Reserve(s) \/ RecordDispatch(s) \/ Resolve(s) \/ CommitDummyEffect(s)
           \/ Press(s) \/ PressRaises(s)
    PROVE  Contract(s) \in Contracts
<1>1. Msg(s) \in Envelopes
  BY DEF HoldLegacy, DenyScope, DenyBudget, Accept, Reserve, RecordDispatch, Resolve,
         CommitDummyEffect, Press, PressRaises, Admitting, Assigned, AccountInv, PressInv,
         TypeInv, WorkInHand, ContractLabels
<1> QED BY <1>1, EnvelopeContract DEF Contract

\* No step disturbs the account: one case for every action.
LEMMA AccountStep == AccountInv /\ [Next]_vars => AccountInv'
<1> SUFFICES ASSUME AccountInv, [Next]_vars PROVE AccountInv'
  OBVIOUS
<1>1. PressInv'
  BY PressStep DEF AccountInv
<1>2. StoreAgrees' /\ AnswersAgree' /\ HandlersAgree'
  <2>1. CASE Tick \/ StepBack \/ UNCHANGED vars
    BY <2>1, IdleAccount
  <2>2. ASSUME NEW s \in Services,
               \/ HoldLegacy(s) \/ DenyScope(s) \/ DenyBudget(s) \/ Accept(s)
               \/ Reserve(s) \/ RecordDispatch(s) \/ Resolve(s) \/ CommitDummyEffect(s)
               \/ Press(s) \/ PressRaises(s)
        PROVE  StoreAgrees' /\ AnswersAgree' /\ HandlersAgree'
    <3>1. PICK c \in Contracts : c = Contract(s)
      BY <2>2, WorkedOn
    <3> QED BY <2>2, <3>1, DenialAccount, AcceptAccount, DispatchAccount, VerdictAccount,
               ImpulseAccount
  <2>3. CASE Next
    BY <2>1, <2>2, <2>3, NextCases, ExitStepExits, ExitAccount, ClaimAccount, TakeAccount,
       EventAccount, ReplayAccount DEF AccountInv, PressInv
  <2> QED BY <2>1, <2>3
<1> QED BY <1>1, <1>2 DEF AccountInv, StoreAgrees, AnswersAgree

-----------------------------------------------------------------------------
(* The start, and the theorems.                                            *)

\* The rows of version 3, kind by kind.
LEMMA V3RowIs ==
    ASSUME NEW kind \in RowKinds, NEW d \in Devices
    PROVE  LET row == V3Row(kind, d) IN
           /\ RowShape(row)
           /\ kind = "NONE" <=> row.state = "NONE"
           /\ row.state # "HELD"
           /\ row.effect_count = 0
           /\ row.result # "NOT_APPLIED_AFTER_UNCERTAIN_DISPATCH"
           /\ row.result = "APPLIED" => row.state = "SUCCEEDED" /\ row.device # NoDevice
<1> DEFINE row == V3Row(kind, d)
<1>1. d # NoDevice
  BY RobotAssumption DEF RobotAssumption
<1>2. CASE kind = "NONE"
  <2>1. row = NoRow
    BY <1>2 DEF V3Row
  <2> QED BY <1>2, <2>1 DEF RowShape, NoRow
<1>3. CASE kind = "ACCEPTED"
  <2>1. row = [NoRow EXCEPT !.state = "ACCEPTED", !.accepted_at = 1]
    BY <1>3 DEF V3Row
  <2>2. /\ row.state = "ACCEPTED" /\ row.dispatch_at = 0 /\ row.device = NoDevice
        /\ row.effect_count = 0 /\ row.terminal_at = 0 /\ row.result = "none"
    BY <2>1 DEF NoRow
  <2> QED BY <1>1, <1>3, <2>2 DEF RowShape
<1>4. CASE kind = "DISPATCHED"
  <2>1. row = [NoRow EXCEPT !.state = "DISPATCH_RECORDED", !.accepted_at = 1,
                            !.dispatch_at = 1, !.device = d]
    BY <1>4 DEF V3Row
  <2>2. /\ row.state = "DISPATCH_RECORDED" /\ row.dispatch_at = 1 /\ row.device = d
        /\ row.effect_count = 0 /\ row.terminal_at = 0 /\ row.result = "none"
    BY <2>1 DEF NoRow
  <2> QED BY <1>1, <1>4, <2>2 DEF RowShape
<1>5. CASE kind = "DISPATCHED_DUMMY"
  <2>1. row = [NoRow EXCEPT !.state = "DISPATCH_RECORDED", !.accepted_at = 1,
                            !.dispatch_at = 1]
    BY <1>5 DEF V3Row
  <2>2. /\ row.state = "DISPATCH_RECORDED" /\ row.dispatch_at = 1 /\ row.device = NoDevice
        /\ row.effect_count = 0 /\ row.terminal_at = 0 /\ row.result = "none"
    BY <2>1 DEF NoRow
  <2> QED BY <1>1, <1>5, <2>2 DEF RowShape
<1>6. CASE kind = "SUCCEEDED"
  <2>1. row = [NoRow EXCEPT !.state = "SUCCEEDED", !.accepted_at = 1,
                            !.dispatch_at = 1, !.device = d, !.terminal_at = 1,
                            !.result = "APPLIED"]
    BY <1>6 DEF V3Row
  <2>2. /\ row.state = "SUCCEEDED" /\ row.dispatch_at = 1 /\ row.device = d
        /\ row.effect_count = 0 /\ row.terminal_at = 1 /\ row.result = "APPLIED"
    BY <2>1 DEF NoRow
  <2> QED BY <1>1, <1>6, <2>2 DEF RowShape
<1> QED BY <1>2, <1>3, <1>4, <1>5, <1>6 DEF RowKinds

\* What a version 3 database holds agrees as well.
LEMMA InitAccount == Init => AccountInv
<1> SUFFICES ASSUME Init PROVE AccountInv
  OBVIOUS
<1>1. PICK kind \in [Contracts -> LegacyRows], d \in Devices : Init!(kind, d)
  BY DEF Init
<1>2. ASSUME NEW c \in Contracts
      PROVE  /\ kind[c] \in RowKinds /\ journal[c] = V3Row(kind[c], d)
             /\ legacy[c] = Classification(journal[c])
             /\ denial[c] = "none" /\ ~Budgeted(c)
             /\ OperationOf[c] \in Operations
  BY <1>1, RobotAssumption DEF RobotAssumption, Budgeted, NoBudget
<1>3. JournalShape
  <2> SUFFICES ASSUME NEW c \in Contracts PROVE RowShape(journal[c]) /\ RowBacked(c)
    BY DEF JournalShape
  <2>1. RowShape(journal[c])
    BY <1>2, V3RowIs
  <2>2. kind[c] = "NONE" <=> ~Known(c)
    BY <1>2, V3RowIs DEF Known
  <2>3. c \in Unsupported => kind[c] = "NONE"
    BY <1>1
  <2> QED BY <1>2, <2>1, <2>2, <2>3
          DEF RowBacked, Classification, Dispatched, Known, RowShape, NoRow
<1>4. \A o \in Operations : impulses[o] # <<>> =>
         \E c \in Contracts : /\ OperationOf[c] = o /\ Dispatched(c)
                              /\ impulses[o] = <<journal[c].device>>
  <2> SUFFICES ASSUME NEW o \in Operations, impulses[o] # <<>>
               PROVE  \E c \in Contracts : /\ OperationOf[c] = o /\ Dispatched(c)
                                           /\ impulses[o] = <<journal[c].device>>
    OBVIOUS
  <2> DEFINE owners == {c \in Contracts : OperationOf[c] = o /\ kind[c] # "NONE"}
  <2>1. impulses[o] \in IF owners = {} THEN {<<>>}
                        ELSE UNION {V3Impulses(journal[c]) : c \in owners}
    BY <1>1
  <2>2. PICK c \in owners : impulses[o] \in V3Impulses(journal[c])
    BY <2>1
  <2>3. journal[c].device # NoDevice /\ impulses[o] = <<journal[c].device>>
    BY <2>2 DEF V3Impulses
  <2>4. Dispatched(c)
    BY <1>3, <2>2, <2>3 DEF JournalShape, RowShape, NoRow, Dispatched
  <2> QED BY <2>2, <2>3, <2>4
<1>5. EffectWhereDispatched
  <2>1. ASSUME NEW o \in Operations, NEW i \in DOMAIN impulses[o]
        PROVE  \E c \in Contracts : /\ OperationOf[c] = o
                                    /\ Dispatched(c)
                                    /\ journal[c].device = impulses[o][i]
    <3>1. PICK c \in Contracts : /\ OperationOf[c] = o /\ Dispatched(c)
                                 /\ impulses[o] = <<journal[c].device>>
      BY <1>4, <2>1
    <3> QED BY <2>1, <3>1
  <2>2. \A c \in Contracts : journal[c].effect_count = 0
    BY <1>2, V3RowIs
  <2> QED BY <2>1, <2>2 DEF EffectWhereDispatched
<1>6. VerdictMatchesDevice
  <2> SUFFICES ASSUME NEW c \in Contracts
               PROVE  /\ journal[c].result = "APPLIED" => Pressed(c)
                      /\ journal[c].result # "NOT_APPLIED_AFTER_UNCERTAIN_DISPATCH"
    BY DEF VerdictMatchesDevice
  <2>1. /\ journal[c].result # "NOT_APPLIED_AFTER_UNCERTAIN_DISPATCH"
        /\ journal[c].result = "APPLIED" =>
              journal[c].state = "SUCCEEDED" /\ journal[c].device # NoDevice
              /\ kind[c] # "NONE"
    BY <1>2, V3RowIs
  <2>2. ASSUME journal[c].result = "APPLIED"
        PROVE  Pressed(c)
    <3> DEFINE o == OperationOf[c]
               owners == {e \in Contracts : OperationOf[e] = o /\ kind[e] # "NONE"}
    <3>1. owners = {c}
      BY <1>1, <2>1, <2>2
    <3>2. impulses[o] \in IF owners = {} THEN {<<>>}
                          ELSE UNION {V3Impulses(journal[e]) : e \in owners}
      BY <1>1, <1>2
    <3>3. impulses[o] \in V3Impulses(journal[c])
      BY <3>1, <3>2
    <3>4. impulses[o] = <<journal[c].device>>
      BY <2>1, <2>2, <3>3 DEF V3Impulses
    <3> QED BY <3>4 DEF Pressed
  <2> QED BY <2>1, <2>2
<1>7. DispatchWithinBudget
  BY <1>1 DEF DispatchWithinBudget, Bound, NoBudget
<1>8. ReportsAgree
  <2> SUFFICES ASSUME NEW c \in Contracts PROVE ReportAgrees(c)
    BY DEF ReportsAgree
  <2>1. \A e \in Contracts : {e} \X V3Events(journal[e]) \subseteq outbox
    BY <1>1
  <2>2. V3Events(journal[c]) \cap Terminal = {journal[c].state} \cap Terminal
    <3>1. journal[c].state \in {"NONE", "ACCEPTED", "DISPATCH_RECORDED", "SUCCEEDED"}
      BY <1>2, V3RowIs DEF RowShape, NoRow
    <3> QED BY <3>1 DEF V3Events, Terminal
  <2>3. ASSUME NEW e \in Reporters(c), NEW t \in Terminal, <<e, t>> \in outbox
        PROVE  t = journal[c].state
    <3>1. PICK f \in Contracts : <<e, t>> \in {f} \X V3Events(journal[f])
      BY <1>1, <2>3
    <3>2. f = e /\ t \in V3Events(journal[f])
      BY <3>1
    <3>3. e = c
      BY <2>3, <3>1, <3>2, RobotAssumption DEF RobotAssumption, Reporters
    <3> QED BY <2>2, <2>3, <3>2, <3>3
  <2>4. Resolved(c) => <<c, journal[c].state>> \in outbox
    BY <2>1, <2>2 DEF Resolved
  <2> QED BY <2>3, <2>4 DEF ReportAgrees
<1>9. ProcessedIsAnswered
  <2>1. \A m \in Envelopes : inbox[m] \in {"PROCESSING", "ABSENT"}
    BY <1>1, RobotAssumption DEF RobotAssumption, Messages
  <2> QED BY <2>1 DEF ProcessedIsAnswered
<1>10. HandlersAgree
  BY <1>1 DEF HandlersAgree, HandlerAgrees
<1> QED BY <1>3, <1>5, <1>6, <1>7, <1>8, <1>9, <1>10, InitPress DEF AccountInv

\* The account holds in every reachable state of every instance.
THEOREM AccountInvariant == Spec => []AccountInv
BY InitAccount, AccountStep, PTL DEF Spec

\* No verdict that was ever recorded is contradicted by the device's own record,
\* at the time or later.
THEOREM VerdictIsTrue == Spec => []VerdictMatchesDevice
<1>1. AccountInv => VerdictMatchesDevice
  BY DEF AccountInv
<1> QED BY <1>1, AccountInvariant, PTL

\* An impulse is on the device its dispatch names, and an effect of the database
\* dummy is never that of a dispatch to a device.
THEOREM EffectIsDispatched == Spec => []EffectWhereDispatched
<1>1. AccountInv => EffectWhereDispatched
  BY DEF AccountInv
<1> QED BY <1>1, AccountInvariant, PTL

\* Reservation and dispatch are one fact, inside the window that was accepted.
THEOREM DispatchIsBudgeted == Spec => []DispatchWithinBudget
<1>1. AccountInv => DispatchWithinBudget
  BY DEF AccountInv
<1> QED BY <1>1, AccountInvariant, PTL

\* A terminal row is reported, and no two endings of a contract ever are.
THEOREM EndingIsReported == Spec => []TerminalEventDurable
<1>1. AccountInv => TerminalEventDurable
  <2> SUFFICES ASSUME AccountInv, NEW c \in Contracts
               PROVE  /\ Resolved(c) => <<c, journal[c].state>> \in outbox
                      /\ Reported(c) # {} =>
                            \/ Reported(c) = {journal[c].state}
                            \/ /\ Reported(c) = {"HELD"}
                               /\ journal[c].state = "NONE"
                               /\ denial[c] # "none" \/ c \in Unsupported
    BY DEF TerminalEventDurable
  <2>1. ReportAgrees(c)
    BY DEF AccountInv, ReportsAgree
  <2>2. Reported(c) = {t \in Terminal : \E e \in Reporters(c) : <<e, t>> \in outbox}
    BY DEF Reported, Reporters
  <2>3. ASSUME NEW t \in Reported(c)
        PROVE  \/ t = journal[c].state
               \/ /\ t = "HELD" /\ ~Known(c)
                  /\ denial[c] # "none" \/ c \in Unsupported
    BY <2>1, <2>2 DEF ReportAgrees
  <2>4. CASE Known(c)
    BY <2>1, <2>3, <2>4 DEF ReportAgrees
  <2>5. CASE ~Known(c)
    <3>1. Reported(c) \subseteq {"HELD"}
      BY <2>2, <2>3, <2>5 DEF Known, Terminal
    <3> QED BY <2>1, <2>3, <2>5, <3>1 DEF ReportAgrees, Known
  <2> QED BY <2>4, <2>5
<1> QED BY <1>1, AccountInvariant, PTL

\* No contract message is completed without a durable answer.
THEOREM AnswerIsDurable == Spec => []ProcessedIsAnswered
<1>1. AccountInv => ProcessedIsAnswered
  BY DEF AccountInv
<1> QED BY <1>1, AccountInvariant, PTL

-----------------------------------------------------------------------------
(* Who writes the journal, and who the device.                             *)

\* Only these steps change the journal: refusals, acceptance, dispatch, verdicts.
LEMMA JournalWriters ==
    ASSUME AccountInv, [Next]_vars, ~UNCHANGED journal
    PROVE  \E s \in Services : \/ HoldLegacy(s) \/ DenyScope(s) \/ DenyBudget(s)
                              \/ Accept(s) \/ Reserve(s) \/ RecordDispatch(s)
                              \/ Resolve(s) \/ CommitDummyEffect(s)
<1>1. Next
  BY DEF vars, store
<1>2. \A s \in Services : ExitStep(s) => UNCHANGED journal
  BY ExitStepExits DEF Exits, store, AccountInv, PressInv
<1>3. Tick \/ StepBack => UNCHANGED journal
  BY DEF Tick, StepBack, store
<1>4. \A s \in Services :
         (\/ Startup(s) \/ Handle(s)
          \/ \E m \in Messages : ReceiveFrame(s, m) \/ ClaimNext(s, m)
          \/ TakeAssignment(s) \/ MissingAssignment(s)
          \/ HoldUnsupported(s) \/ CompleteInbox(s)) => UNCHANGED journal
  BY DEF Startup, Start, Handle, ReceiveFrame, ClaimNext, TakeAssignment,
         MissingAssignment, HoldUnsupported, CompleteInbox, store
<1>5. \A s \in Services :
         (\/ Resume(s) \/ AcceptedEvent(s) \/ DispatchEvent(s) \/ RunExternal(s)
          \/ RunDummy(s) \/ ReplayTerminal(s) \/ Press(s) \/ PressRaises(s)
          \/ \E answer \in Outcomes : Observe(s, answer)) => UNCHANGED journal
  BY DEF Resume, AcceptedEvent, DispatchEvent, RunExternal, RunDummy,
         ReplayTerminal, Press, PressRaises, Observe, store
<1> QED BY <1>1, <1>2, <1>3, <1>4, <1>5, NextCases

\* And only a press, whether it is answered or raises, changes the device.
LEMMA DeviceWriters ==
    ASSUME AccountInv, [Next]_vars, ~UNCHANGED impulses
    PROVE  \E s \in Services : Press(s) \/ PressRaises(s)
<1>1. Next
  BY DEF vars, world
<1>2. \A s \in Services : ExitStep(s) => UNCHANGED impulses
  BY ExitStepExits DEF Exits, world, AccountInv, PressInv
<1>3. Tick \/ StepBack => UNCHANGED impulses
  BY DEF Tick, StepBack
<1>4. \A s \in Services :
         (\/ Startup(s) \/ Handle(s)
          \/ \E m \in Messages : ReceiveFrame(s, m) \/ ClaimNext(s, m)
          \/ TakeAssignment(s) \/ MissingAssignment(s)
          \/ HoldUnsupported(s) \/ CompleteInbox(s)) => UNCHANGED impulses
  BY SMTT(30) DEF Startup, Start, Handle, ReceiveFrame, ClaimNext, TakeAssignment,
         MissingAssignment, HoldUnsupported, CompleteInbox, world
<1>5. \A s \in Services :
         (\/ HoldLegacy(s) \/ DenyScope(s) \/ DenyBudget(s) \/ Accept(s)
          \/ Resume(s) \/ AcceptedEvent(s) \/ Reserve(s) \/ RecordDispatch(s))
         => UNCHANGED impulses
  BY DEF HoldLegacy, DenyScope, DenyBudget, Deny, Accept, Resume, AcceptedEvent,
         Reserve, RecordDispatch, world
<1>6. \A s \in Services :
         (\/ DispatchEvent(s) \/ RunExternal(s) \/ Resolve(s) \/ RunDummy(s)
          \/ CommitDummyEffect(s) \/ ReplayTerminal(s)
          \/ \E answer \in Outcomes : Observe(s, answer))
         => UNCHANGED impulses
  BY ZenonT(30) DEF DispatchEvent, RunExternal, Resolve, RunDummy, CommitDummyEffect,
         ReplayTerminal, Observe, world
<1> QED BY <1>1, <1>2, <1>3, <1>4, <1>5, <1>6, NextCases
-----------------------------------------------------------------------------
(* Rows only move forward.                                                 *)

\* No step changes a row that has ended, or the dispatch of one that has one.
LEMMA RowFinal ==
    ASSUME AccountInv, [Next]_vars, NEW c \in Contracts
    PROVE  /\ Resolved(c) => journal'[c] = journal[c]
           /\ Dispatched(c) => /\ journal'[c].device = journal[c].device
                               /\ journal'[c].dispatch_at = journal[c].dispatch_at
<1>1. CASE UNCHANGED journal
  BY <1>1
<1>2. CASE ~UNCHANGED journal
  <2>1. PICK s \in Services : \/ HoldLegacy(s) \/ DenyScope(s) \/ DenyBudget(s)
                              \/ Accept(s) \/ Reserve(s) \/ RecordDispatch(s)
                              \/ Resolve(s) \/ CommitDummyEffect(s)
    BY <1>2, JournalWriters
  <2>2. PICK e \in Contracts : e = Contract(s)
    BY <2>1, WorkedOn
  <2>3. CASE HoldLegacy(s) \/ DenyScope(s) \/ DenyBudget(s)
    <3>1. PICK reason \in Reasons, previous \in {"RECEIVED", "ACCEPTED"} :
              Deny(s, reason, previous)
      BY <2>3 DEF HoldLegacy, DenyScope, DenyBudget, Reasons
    <3> QED BY <1>2, <2>2, <3>1, InHand DEF Deny, EndsRow, Resolved, Terminal, Rows
  <2>4. CASE Accept(s)
    <3>1. ~Known(e)
      BY <2>2, <2>4, InHand DEF Accept, Admission, RowBacked, SkipsBudget, Known,
                                Dispatched, RowShape, NoRow, Budgeted, Bound
    <3> QED BY <2>2, <2>4, <3>1, InHand
            DEF Accept, Known, Resolved, Terminal, Dispatched, RowShape, NoRow
  <2>5. CASE Reserve(s) \/ RecordDispatch(s)
    <3>1. journal[e].state = "ACCEPTED" /\ ~Dispatched(e)
      BY <2>2, <2>5 DEF Reserve, RecordDispatch, AccountInv, PressInv, AcceptedInHand,
                        OpenIsUndispatched
    <3> QED BY <2>2, <2>5, <3>1, InHand DEF Reserve, RecordDispatch, Resolved, Terminal,
                                             Dispatched
  <2>6. CASE Resolve(s) \/ CommitDummyEffect(s)
    <3>1. journal[e].state = "DISPATCH_RECORDED"
      BY <2>2, <2>6 DEF Resolve, CanResolve, CommitDummyEffect
    <3> QED BY <2>2, <2>6, <3>1, InHand DEF Resolve, CommitDummyEffect, Resolved, Terminal,
                                             Rows
  <2> QED BY <2>1, <2>3, <2>4, <2>5, <2>6
<1> QED BY <1>1, <1>2

\* Whatever processes do to each other, a terminal row stays as it is, and so do
\* the device and the time of a recorded dispatch.
THEOREM TerminalStays == Spec => TerminalImmutable
<1>1. AccountInv /\ [Next]_vars =>
         [\A c \in Contracts :
             /\ Resolved(c) => journal'[c] = journal[c]
             /\ Dispatched(c) => /\ journal'[c].device = journal[c].device
                                 /\ journal'[c].dispatch_at = journal[c].dispatch_at]_vars
  BY RowFinal
<1> QED BY <1>1, AccountInvariant, PTL DEF Spec, TerminalImmutable

\* Only a handler that holds the dispatch of its row presses, so no operation is
\* pressed once a contract of it is terminal.
LEMMA PressIsEarly ==
    ASSUME AccountInv, [Next]_vars, NEW c \in Contracts, Resolved(c)
    PROVE  impulses'[OperationOf[c]] = impulses[OperationOf[c]]
<1>1. CASE UNCHANGED impulses
  BY <1>1
<1>2. CASE ~UNCHANGED impulses
  <2>1. PICK s \in Services : Press(s) \/ PressRaises(s)
    BY <1>2, DeviceWriters
  <2>2. PICK e \in Contracts : e = Contract(s)
    BY <2>1, WorkedOn
  <2>3. journal[e].state = "DISPATCH_RECORDED"
    BY <2>1, <2>2, InHand DEF Press, PressRaises, HandlerAgrees
  <2>4. OperationOf[c] # OperationOf[e]
    BY <2>3 DEF AccountInv, PressInv, OneContractPerOperation, Resolved, Terminal
  <2>5. OperationOf[c] \in Operations /\ impulses \in [Operations -> Seq(Devices)]
    BY RobotAssumption
       DEF RobotAssumption, AccountInv, PressInv, TypeInv, TypeOK, WorldType
  <2> QED BY <1>2, <2>1, <2>2, <2>4, <2>5, InHand DEF Press, PressRaises, Impulse
<1> QED BY <1>1, <1>2

\* A terminal operation is never pressed, by whatever process.
THEOREM NoLatePress == Spec => NoPressAfterTerminal
<1>1. AccountInv /\ [Next]_vars =>
         [\A c \in Contracts : Resolved(c) =>
             impulses'[OperationOf[c]] = impulses[OperationOf[c]]]_vars
  BY PressIsEarly
<1> QED BY <1>1, AccountInvariant, PTL DEF Spec, NoPressAfterTerminal
=============================================================================
