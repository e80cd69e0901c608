------------------------ MODULE RobotRefinementProofs ------------------------
(***************************************************************************)
(* Every operation of the Robot's store is a single shot, for every number *)
(* of processes, contracts, devices, windows, crashes and clock steps:     *)
(* RobotExecution implements SingleShot under the mapping of its last      *)
(* section.                                                                *)
(***************************************************************************)
EXTENDS RobotAccountProofs, SequenceTheorems

-----------------------------------------------------------------------------
(* The row that speaks for an operation.                                   *)

\* It is that of the operation's only contract with a row.
LEMMA RowOfKnown ==
    ASSUME AccountInv, NEW c \in Contracts, Known(c)
    PROVE  RowOf(OperationOf[c]) = journal[c]
<1> DEFINE owners == {e \in Contracts : /\ OperationOf[e] = OperationOf[c]
                                        /\ journal[e].state # "NONE"}
<1>1. owners = {c}
  BY DEF Known, AccountInv, PressInv, OneContractPerOperation
<1>2. (CHOOSE e \in owners : TRUE) = c
  BY <1>1
<1> QED BY <1>1, <1>2 DEF RowOf

\* Where no contract has one, it is empty.
LEMMA RowOfNone ==
    ASSUME NEW o \in Operations, \A c \in Contracts : OperationOf[c] = o => ~Known(c)
    PROVE  RowOf(o) = NoRow
BY DEF RowOf, Known

\* It stays as it is while the rows of the operation do.
LEMMA RowOfStill ==
    ASSUME NEW o \in Operations,
           \A c \in Contracts : OperationOf[c] = o => journal'[c] = journal[c]
    PROVE  RowOf(o)' = RowOf(o)
<1> DEFINE owners == {c \in Contracts : OperationOf[c] = o /\ journal[c].state # "NONE"}
<1>1. owners' = owners
  OBVIOUS
<1>2. CASE owners = {}
  BY <1>1, <1>2 DEF RowOf
<1>3. CASE owners # {}
  <2>1. (CHOOSE c \in owners : TRUE) \in owners
    BY <1>3
  <2>2. journal'[CHOOSE c \in owners : TRUE] = journal[CHOOSE c \in owners : TRUE]
    BY <2>1
  <2> QED BY <1>1, <1>3, <2>2 DEF RowOf
<1> QED BY <1>2, <1>3

\* The row and the device's record tell one story.
LEMMA OneStory ==
    ASSUME AccountInv, NEW o \in Operations
    PROVE  LET row == RowOf(o) IN
           /\ RowShape(row)
           /\ Len(impulses[o]) \in {0, 1}
           /\ Len(impulses[o]) = 1 => row.dispatch_at # 0 /\ row.device # NoDevice
           /\ row.result = "APPLIED" => Len(impulses[o]) = 1
           /\ row.result = "NOT_APPLIED_AFTER_UNCERTAIN_DISPATCH" => Len(impulses[o]) = 0
<1>1. impulses[o] \in Seq(Devices) /\ Len(impulses[o]) <= 1
  BY DEF AccountInv, PressInv, AtMostOnePress, TypeInv, TypeOK, WorldType
<1>2. Len(impulses[o]) \in {0, 1} /\ (Len(impulses[o]) = 0 <=> impulses[o] = <<>>)
  <2>1. Len(impulses[o]) \in Nat /\ (Len(impulses[o]) = 0 <=> impulses[o] = <<>>)
    BY <1>1, EmptySeq, LenProperties
  <2>2. \A n \in Nat : n <= 1 => n \in {0, 1}
    OBVIOUS
  <2> QED BY <1>1, <2>1, <2>2
<1>3. CASE \A c \in Contracts : OperationOf[c] = o => ~Known(c)
  <2>1. RowOf(o) = NoRow
    BY <1>3, RowOfNone
  <2>2. impulses[o] = <<>>
    BY <1>3 DEF AccountInv, PressInv, PressedIsDispatched, OpenIsUndispatched, Known
  <2> QED BY <1>2, <2>1, <2>2 DEF RowShape, NoRow
<1>4. ASSUME NEW c \in Contracts, OperationOf[c] = o, Known(c)
      PROVE  LET row == RowOf(o) IN
             /\ RowShape(row)
             /\ Len(impulses[o]) = 1 => row.dispatch_at # 0 /\ row.device # NoDevice
             /\ row.result = "APPLIED" => Len(impulses[o]) = 1
             /\ row.result = "NOT_APPLIED_AFTER_UNCERTAIN_DISPATCH" =>
                   Len(impulses[o]) = 0
  <2>1. RowOf(o) = journal[c]
    BY <1>4, RowOfKnown
  <2>2. RowShape(journal[c])
    BY DEF AccountInv, JournalShape
  <2>3. ASSUME Len(impulses[o]) = 1
        PROVE  journal[c].dispatch_at # 0 /\ journal[c].device # NoDevice
    <3>1. 1 \in DOMAIN impulses[o] /\ impulses[o][1] \in Devices
      BY <1>1, <2>3
    <3>2. PICK e \in Contracts : /\ OperationOf[e] = o /\ Dispatched(e)
                                 /\ journal[e].device = impulses[o][1]
      BY <3>1 DEF AccountInv, EffectWhereDispatched
    <3>3. e = c
      BY <1>4, <3>2 DEF AccountInv, PressInv, OneContractPerOperation, OpenIsUndispatched,
                        Known
    <3> QED BY <3>1, <3>2, <3>3, RobotAssumption DEF RobotAssumption, Dispatched
  <2>4. /\ journal[c].result = "APPLIED" => impulses[o] # <<>>
        /\ journal[c].result = "NOT_APPLIED_AFTER_UNCERTAIN_DISPATCH" => impulses[o] = <<>>
    BY <1>4 DEF AccountInv, VerdictMatchesDevice, Pressed
  <2> QED BY <1>2, <2>1, <2>2, <2>3, <2>4
<1> QED BY <1>2, <1>3, <1>4
-----------------------------------------------------------------------------
(* The abstract state.                                                     *)

Phase == [o \in Operations |-> PhaseOf(RowOf(o))]
Effects == [o \in Operations |-> Len(impulses[o]) + RowOf(o).effect_count]
Account == [o \in Operations |-> AccountOf(RowOf(o))]

\* The phase and the account of a row, case by case.
LEMMA PhaseValues ==
    ASSUME NEW row
    PROVE  /\ row.state \in {"NONE", "ACCEPTED"} => PhaseOf(row) = "open"
           /\ row.state = "DISPATCH_RECORDED" => PhaseOf(row) = "committed"
           /\ row.state \in Terminal /\ row.dispatch_at = 0 => PhaseOf(row) = "refused"
           /\ row.state \in Terminal /\ row.dispatch_at # 0 => PhaseOf(row) = "ended"
BY DEF PhaseOf, Terminal

LEMMA AccountValues ==
    ASSUME NEW row
    PROVE  /\ row.result \in {"none"} \cup Reasons => AccountOf(row) = "none"
           /\ row.result \in {"APPLIED", "DUMMY"} => AccountOf(row) = "DONE"
           /\ row.result = "NOT_APPLIED_AFTER_UNCERTAIN_DISPATCH" =>
                 AccountOf(row) = "NOT_DONE"
           /\ row.result = "OUTCOME_UNKNOWN" => AccountOf(row) = "UNKNOWN"
BY DEF AccountOf, Reasons

\* What the abstract state is, by the phase of an operation.
LEMMA AbstractState ==
    ASSUME AccountInv, NEW o \in Operations
    PROVE  /\ RowOf(o).effect_count \in {0, 1}
           /\ Effects[o] \in {0, 1}
           /\ Phase[o] \in {"open", "committed", "refused", "ended"}
           /\ Phase[o] \in {"open", "refused"} => Effects[o] = 0
           /\ Phase[o] = "ended" =>
                 Account[o] \in {IF Effects[o] = 0 THEN "NOT_DONE" ELSE "DONE", "UNKNOWN"}
           /\ Phase[o] # "ended" => Account[o] = "none"
<1> DEFINE row == RowOf(o)
           n == Len(impulses[o])
<1>1. /\ RowShape(row) /\ n \in {0, 1}
      /\ n = 1 => row.dispatch_at # 0 /\ row.device # NoDevice
      /\ row.result = "APPLIED" => n = 1
      /\ row.result = "NOT_APPLIED_AFTER_UNCERTAIN_DISPATCH" => n = 0
  BY OneStory
<1>2. Phase[o] = PhaseOf(row) /\ Effects[o] = n + row.effect_count
      /\ Account[o] = AccountOf(row)
  BY DEF Phase, Effects, Account
<1>3. CASE row.state \in {"NONE", "ACCEPTED", "DISPATCH_RECORDED"}
  <2>1. row.effect_count = 0 /\ row.result = "none"
        /\ (row.state \in {"NONE", "ACCEPTED"} <=> row.dispatch_at = 0)
    BY <1>1, <1>3 DEF RowShape, NoRow
  <2> QED BY <1>1, <1>2, <1>3, <2>1 DEF PhaseOf, AccountOf, Terminal
<1>4. CASE row.state = "HELD" /\ row.dispatch_at = 0
  <2>1. row.effect_count = 0 /\ row.result \in Reasons
    BY <1>1, <1>4 DEF RowShape, NoRow
  <2> QED BY <1>1, <1>2, <1>4, <2>1 DEF PhaseOf, AccountOf, Terminal, Reasons
<1>5. CASE row.state = "HELD" /\ row.dispatch_at # 0
  <2>1. row.effect_count = 0 /\ row.result \in Resolutions \ {"APPLIED"}
    BY <1>1, <1>5 DEF RowShape, NoRow
  <2> QED BY <1>1, <1>2, <1>5, <2>1 DEF PhaseOf, AccountOf, Terminal, Resolutions
<1>6. CASE row.state = "SUCCEEDED"
  <2>1. /\ row.dispatch_at # 0
        /\ \/ row.device = NoDevice /\ row.effect_count = 1 /\ row.result = "DUMMY"
           \/ row.device # NoDevice /\ row.effect_count = 0 /\ row.result = "APPLIED"
    BY <1>1, <1>6 DEF RowShape, NoRow
  <2>2. Phase[o] = "ended" /\ Account[o] = "DONE"
    BY <1>2, <1>6, <2>1 DEF PhaseOf, AccountOf, Terminal
  <2>3. Effects[o] = 1 /\ row.effect_count \in {0, 1}
    <3>1. /\ row.device = NoDevice => n = 0
          /\ row.result = "APPLIED" => n = 1
      BY <1>1
    <3>2. Effects[o] = n + row.effect_count
      BY <1>2
    <3> HIDE DEF n
    <3> QED BY <2>1, <3>1, <3>2
  <2> QED BY <2>2, <2>3
<1> QED BY <1>1, <1>3, <1>4, <1>5, <1>6 DEF RowShape, NoRow

\* A step that leaves rows and device alone leaves the abstract state alone.
LEMMA AbstractStill ==
    ASSUME UNCHANGED <<journal, impulses>>
    PROVE  UNCHANGED <<Phase, Effects, Account>>
BY DEF Phase, Effects, Account, RowOf, PhaseOf, AccountOf

\* One that moves one operation moves the abstract state there.
LEMMA AbstractMoves ==
    ASSUME NEW o \in Operations, NEW r, NEW n, RowOf(o)' = r, Len(impulses'[o]) = n,
           \A p \in Operations \ {o} : RowOf(p)' = RowOf(p) /\ impulses'[p] = impulses[p]
    PROVE  /\ Phase' = [Phase EXCEPT ![o] = PhaseOf(r)]
           /\ Effects' = [Effects EXCEPT ![o] = n + r.effect_count]
           /\ Account' = [Account EXCEPT ![o] = AccountOf(r)]
<1>1. ASSUME NEW p \in Operations
      PROVE  /\ PhaseOf(RowOf(p))' = IF p = o THEN PhaseOf(r) ELSE PhaseOf(RowOf(p))
             /\ (Len(impulses[p]) + RowOf(p).effect_count)'
                   = IF p = o THEN n + r.effect_count
                     ELSE Len(impulses[p]) + RowOf(p).effect_count
             /\ AccountOf(RowOf(p))' = IF p = o THEN AccountOf(r) ELSE AccountOf(RowOf(p))
  BY DEF PhaseOf, AccountOf
<1> QED BY <1>1 DEF Phase, Effects, Account

\* What is given the value it has does not change.
LEMMA AbstractSame ==
    ASSUME NEW o \in Operations
    PROVE  /\ [Phase EXCEPT ![o] = Phase[o]] = Phase
           /\ [Effects EXCEPT ![o] = Effects[o]] = Effects
           /\ [Account EXCEPT ![o] = Account[o]] = Account
BY DEF Phase, Effects, Account

\* The abstract actions, in these terms.
LEMMA CommitIs ==
    ASSUME NEW o \in Operations, Phase[o] = "open",
           Phase' = [Phase EXCEPT ![o] = "committed"], UNCHANGED <<Effects, Account>>
    PROVE  Abstract!Commit(o)
BY DEF Phase, Effects, Account, Abstract!Commit

LEMMA RefuseIs ==
    ASSUME NEW o \in Operations, Phase[o] = "open",
           Phase' = [Phase EXCEPT ![o] = "refused"], UNCHANGED <<Effects, Account>>
    PROVE  Abstract!Refuse(o)
BY DEF Phase, Effects, Account, Abstract!Refuse

LEMMA ActIs ==
    ASSUME NEW o \in Operations, Phase[o] = "committed", Effects[o] = 0,
           Effects' = [Effects EXCEPT ![o] = 1], UNCHANGED <<Phase, Account>>
    PROVE  Abstract!Act(o)
BY DEF Phase, Effects, Account, Abstract!Act

LEMMA EndIs ==
    ASSUME NEW o \in Operations, Phase[o] = "committed",
           Phase' = [Phase EXCEPT ![o] = "ended"], UNCHANGED Effects,
           NEW a \in Abstract!Accounts(Effects[o]), Account' = [Account EXCEPT ![o] = a]
    PROVE  Abstract!End(o)
BY DEF Phase, Effects, Account, Abstract!End

LEMMA ActAndEndIs ==
    ASSUME NEW o \in Operations, Phase[o] = "committed", Effects[o] = 0,
           Phase' = [Phase EXCEPT ![o] = "ended"],
           Effects' = [Effects EXCEPT ![o] = 1],
           Account' = [Account EXCEPT ![o] = "DONE"]
    PROVE  Abstract!ActAndEnd(o)
BY DEF Phase, Effects, Account, Abstract!ActAndEnd

-----------------------------------------------------------------------------
(* Every step is an abstract step or none.                                 *)

\* A step that moves one row moves its operation to what that row says.
LEMMA RowSpeaks ==
    ASSUME AccountInv', NEW c \in Contracts,
           \A e \in Contracts \ {c} : journal'[e] = journal[e],
           \A p \in Operations \ {OperationOf[c]} : impulses'[p] = impulses[p],
           Known(c)'
    PROVE  /\ Phase' = [Phase EXCEPT ![OperationOf[c]] = PhaseOf(journal'[c])]
           /\ Effects' = [Effects EXCEPT ![OperationOf[c]] =
                             Len(impulses'[OperationOf[c]]) + journal'[c].effect_count]
           /\ Account' = [Account EXCEPT ![OperationOf[c]] = AccountOf(journal'[c])]
<1> DEFINE o == OperationOf[c]
           owners == {e \in Contracts : OperationOf[e] = o /\ journal[e].state # "NONE"}
<1>1. RowOf(o)' = journal'[c]
  <2>1. owners' = {c}
    BY DEF Known, AccountInv, PressInv, OneContractPerOperation
  <2>2. (CHOOSE e \in owners' : TRUE) = c
    BY <2>1
  <2> QED BY <2>1, <2>2 DEF RowOf
<1>2. \A p \in Operations \ {o} : RowOf(p)' = RowOf(p)
  <2> TAKE p \in Operations \ {o}
  <2>1. \A e \in Contracts : OperationOf[e] = p => journal'[e] = journal[e]
    OBVIOUS
  <2> QED BY <2>1, RowOfStill
<1>3. o \in Operations
  BY RobotAssumption DEF RobotAssumption
<1>4. PICK r, n : r = journal'[c] /\ n = Len(impulses'[o])
  OBVIOUS
<1>5. /\ Phase' = [Phase EXCEPT ![o] = PhaseOf(r)]
      /\ Effects' = [Effects EXCEPT ![o] = n + r.effect_count]
      /\ Account' = [Account EXCEPT ![o] = AccountOf(r)]
  <2>1. RowOf(o)' = r /\ Len(impulses'[o]) = n
    BY <1>1, <1>4
  <2>2. \A p \in Operations \ {o} : RowOf(p)' = RowOf(p) /\ impulses'[p] = impulses[p]
    BY <1>2
  <2> HIDE DEF o
  <2> QED BY <1>3, <2>1, <2>2, AbstractMoves
<1> QED BY <1>4, <1>5

\* The acceptance changes nothing: the operation was open and is.
LEMMA AcceptOpens ==
    ASSUME AccountInv, AccountInv', NEW s \in Services, NEW c \in Contracts,
           c = Contract(s), Accept(s)
    PROVE  UNCHANGED <<Phase, Effects, Account>>
<1> DEFINE o == OperationOf[c]
<1>1. ~Known(c) /\ ~Claimed(c)
  BY InHand DEF Accept, Admission, RowBacked, SkipsBudget, Known, Dispatched, RowShape,
                NoRow, Budgeted, Bound
<1>2. RowOf(o) = NoRow
  <2>1. \A e \in Contracts : OperationOf[e] = o => ~Known(e)
    BY <1>1 DEF Claimed, Known
  <2>2. o \in Operations
    BY InHand
  <2> HIDE DEF o
  <2> QED BY <2>1, <2>2, RowOfNone
<1>3. /\ journal'[c].state = "ACCEPTED" /\ journal'[c].effect_count = 0
      /\ journal'[c].result = "none"
      /\ \A e \in Contracts \ {c} : journal'[e] = journal[e]
      /\ UNCHANGED impulses
  BY InHand DEF Accept, NoRow, world
<1>4. /\ PhaseOf(journal'[c]) = Phase[o]
      /\ Len(impulses'[o]) + journal'[c].effect_count = Effects[o]
      /\ AccountOf(journal'[c]) = Account[o]
  <2>1. PhaseOf(journal'[c]) = "open" /\ AccountOf(journal'[c]) = "none"
    BY <1>3, PhaseValues, AccountValues
  <2>2. PhaseOf(RowOf(o)) = "open" /\ AccountOf(RowOf(o)) = "none"
        /\ RowOf(o).effect_count = 0
    <3>1. RowOf(o).state = "NONE" /\ RowOf(o).effect_count = 0 /\ RowOf(o).result = "none"
      BY <1>2 DEF NoRow
    <3> QED BY <3>1, PhaseValues, AccountValues
  <2>3. o \in Operations
    BY InHand
  <2> QED BY <1>3, <2>1, <2>2, <2>3 DEF Phase, Effects, Account
<1>5. Known(c)'
  BY <1>3 DEF Known
<1> QED BY <1>3, <1>4, <1>5, InHand, RowSpeaks, AbstractSame

\* The denial of an accepted contract refuses the operation.
LEMMA DenialRefuses ==
    ASSUME AccountInv, AccountInv', NEW s \in Services, NEW c \in Contracts,
           c = Contract(s), HoldLegacy(s) \/ DenyScope(s) \/ DenyBudget(s)
    PROVE  UNCHANGED <<Phase, Effects, Account>> \/ Abstract!Refuse(OperationOf[c])
<1> DEFINE o == OperationOf[c]
<1>1. UNCHANGED impulses
  BY DEF HoldLegacy, DenyScope, DenyBudget, world
<1>2. PICK reason \in Reasons, previous \in {"RECEIVED", "ACCEPTED"} :
          Deny(s, reason, previous)
  BY DEF HoldLegacy, DenyScope, DenyBudget, Reasons
<1>3. CASE UNCHANGED journal
  BY <1>1, <1>3, AbstractStill
<1>4. CASE ~UNCHANGED journal
  <2>1. /\ journal[c].state = "ACCEPTED" /\ journal'[c].state = "HELD"
        /\ journal'[c].dispatch_at = journal[c].dispatch_at
        /\ journal'[c].effect_count = journal[c].effect_count
        /\ journal'[c].result = reason
        /\ \A e \in Contracts \ {c} : journal'[e] = journal[e]
    BY <1>2, <1>4, InHand DEF Deny, EndsRow, Rows
  <2>2. journal[c].dispatch_at = 0 /\ journal[c].effect_count = 0
        /\ journal[c].result = "none"
    BY <2>1, InHand DEF RowShape, NoRow
  <2>3. RowOf(o) = journal[c] /\ Known(c)'
    BY <2>1, RowOfKnown DEF Known
  <2>4. Phase[o] = "open" /\ Account[o] = "none" /\ Effects[o] = Len(impulses'[o]) + 0
    <3>1. PhaseOf(journal[c]) = "open" /\ AccountOf(journal[c]) = "none"
      BY <2>1, <2>2, PhaseValues, AccountValues
    <3> QED BY <1>1, <2>2, <2>3, <3>1, InHand DEF Phase, Effects, Account
  <2>5. PhaseOf(journal'[c]) = "refused" /\ AccountOf(journal'[c]) = "none"
    BY <1>2, <2>1, <2>2, PhaseValues, AccountValues DEF Terminal
  <2>6. Phase' = [Phase EXCEPT ![o] = "refused"] /\ UNCHANGED <<Effects, Account>>
    BY <1>1, <2>1, <2>2, <2>3, <2>4, <2>5, InHand, RowSpeaks, AbstractSame
  <2> QED BY <2>4, <2>6, InHand, RefuseIs
<1> QED BY <1>3, <1>4

\* The dispatch boundary commits the authority to act.
LEMMA DispatchCommits ==
    ASSUME AccountInv, AccountInv', NEW s \in Services, NEW c \in Contracts,
           c = Contract(s), Reserve(s) \/ RecordDispatch(s)
    PROVE  Abstract!Commit(OperationOf[c])
<1> DEFINE o == OperationOf[c]
<1>1. journal[c].state = "ACCEPTED" /\ UNCHANGED impulses
  BY DEF Reserve, RecordDispatch, AccountInv, PressInv, AcceptedInHand, world
<1>2. journal[c].effect_count = 0 /\ journal[c].result = "none"
  BY <1>1, InHand DEF RowShape, NoRow
<1>3. /\ journal'[c].state = "DISPATCH_RECORDED"
      /\ journal'[c].effect_count = 0 /\ journal'[c].result = "none"
      /\ \A e \in Contracts \ {c} : journal'[e] = journal[e]
  BY <1>2, InHand DEF Reserve, RecordDispatch, Rows
<1>4. RowOf(o) = journal[c] /\ Known(c)'
  BY <1>1, <1>3, RowOfKnown DEF Known
<1>5. Phase[o] = "open" /\ Account[o] = "none" /\ Effects[o] = Len(impulses'[o]) + 0
  <2>1. PhaseOf(journal[c]) = "open" /\ AccountOf(journal[c]) = "none"
    BY <1>1, <1>2, PhaseValues, AccountValues
  <2> QED BY <1>1, <1>2, <1>4, <2>1, InHand DEF Phase, Effects, Account
<1>6. PhaseOf(journal'[c]) = "committed" /\ AccountOf(journal'[c]) = "none"
  BY <1>3, PhaseValues, AccountValues
<1>7. Phase' = [Phase EXCEPT ![o] = "committed"] /\ UNCHANGED <<Effects, Account>>
  BY <1>1, <1>3, <1>4, <1>5, <1>6, InHand, RowSpeaks, AbstractSame
<1> QED BY <1>5, <1>7, InHand, CommitIs

\* An impulse is the act.
LEMMA PressActs ==
    ASSUME AccountInv, AccountInv', NEW s \in Services, NEW c \in Contracts,
           c = Contract(s), Press(s) \/ PressRaises(s)
    PROVE  UNCHANGED <<Phase, Effects, Account>> \/ Abstract!Act(OperationOf[c])
<1> DEFINE o == OperationOf[c]
<1>1. /\ pc[s] = "press" /\ UNCHANGED journal
      /\ Impulse(s) \/ UNCHANGED impulses
  BY DEF Press, PressRaises, store
<1>2. CASE UNCHANGED impulses
  BY <1>1, <1>2, AbstractStill
<1>3. CASE Impulse(s)
  <2>1. journal[c].state = "DISPATCH_RECORDED" /\ impulses[o] = <<>>
    BY <1>1, InHand DEF HandlerAgrees, AccountInv, PressInv, RightToPress, Pressed
  <2>2. journal[c].effect_count = 0 /\ journal[c].result = "none"
    BY <2>1, InHand DEF RowShape, NoRow
  <2>3. /\ Len(impulses'[o]) = 1
        /\ \A p \in Operations \ {o} : impulses'[p] = impulses[p]
    <3>1. impulses' = [impulses EXCEPT ![o] = Append(<<>>, config[s].adapter)]
      BY <1>3, <2>1, InHand DEF Impulse
    <3>2. Len(Append(<<>>, config[s].adapter)) = 1
      OBVIOUS
    <3> QED BY <3>1, <3>2, InHand DEF AccountInv, PressInv, TypeInv, TypeOK, WorldType
  <2>4. RowOf(o) = journal[c] /\ Known(c)'
    BY <1>1, <2>1, RowOfKnown DEF Known
  <2>5. Phase[o] = PhaseOf(journal[c]) /\ Account[o] = AccountOf(journal[c])
        /\ Effects[o] = 0
    BY <2>1, <2>2, <2>4, InHand DEF Phase, Effects, Account
  <2>6. PhaseOf(journal[c]) = "committed"
    BY <2>1, PhaseValues
  <2>7. Effects' = [Effects EXCEPT ![o] = 1] /\ UNCHANGED <<Phase, Account>>
    <3>1. /\ \A e \in Contracts \ {c} : journal'[e] = journal[e]
          /\ journal'[c] = journal[c]
          /\ Len(impulses'[o]) + journal'[c].effect_count = 1
      BY <1>1, <2>2, <2>3
    <3>2. /\ Phase' = [Phase EXCEPT ![o] = PhaseOf(journal'[c])]
          /\ Effects' = [Effects EXCEPT ![o] =
                             Len(impulses'[o]) + journal'[c].effect_count]
          /\ Account' = [Account EXCEPT ![o] = AccountOf(journal'[c])]
      BY <2>3, <2>4, <3>1, RowSpeaks
    <3>3. /\ Phase' = [Phase EXCEPT ![o] = Phase[o]]
          /\ Effects' = [Effects EXCEPT ![o] = 1]
          /\ Account' = [Account EXCEPT ![o] = Account[o]]
      BY <2>5, <3>1, <3>2
    <3> QED BY <3>3, InHand, AbstractSame
  <2> QED BY <2>5, <2>6, <2>7, InHand, ActIs
<1> QED BY <1>1, <1>2, <1>3

\* A verdict ends the operation with a true account; the dummy acts in it.
LEMMA VerdictEnds ==
    ASSUME AccountInv, AccountInv', NEW s \in Services, NEW c \in Contracts,
           c = Contract(s), Resolve(s) \/ CommitDummyEffect(s)
    PROVE  Abstract!End(OperationOf[c]) \/ Abstract!ActAndEnd(OperationOf[c])
<1> DEFINE o == OperationOf[c]
<1>1. journal[c].state = "DISPATCH_RECORDED" /\ UNCHANGED impulses
  BY DEF Resolve, CanResolve, CommitDummyEffect, world
<1>2. /\ journal[c].effect_count = 0 /\ journal[c].result = "none"
      /\ journal[c].dispatch_at # 0
  BY <1>1, InHand DEF RowShape, NoRow
<1>3. /\ journal'[c].state \in Terminal
      /\ journal'[c].dispatch_at = journal[c].dispatch_at
      /\ \A e \in Contracts \ {c} : journal'[e] = journal[e]
  BY InHand DEF Resolve, CommitDummyEffect, TerminalFor, Terminal, Rows
<1>4. RowOf(o) = journal[c] /\ Known(c)'
  BY <1>1, <1>3, RowOfKnown DEF Known, Terminal
<1>5. Phase[o] = "committed" /\ Effects[o] = Len(impulses[o]) + 0
  <2>1. PhaseOf(journal[c]) = "committed"
    BY <1>1, PhaseValues
  <2> QED BY <1>2, <1>4, <2>1, InHand DEF Phase, Effects
<1>6. PhaseOf(journal'[c]) = "ended"
  BY <1>2, <1>3, PhaseValues
<1>7. /\ Phase' = [Phase EXCEPT ![o] = "ended"]
      /\ Effects' = [Effects EXCEPT ![o] = Len(impulses[o]) + journal'[c].effect_count]
      /\ Account' = [Account EXCEPT ![o] = AccountOf(journal'[c])]
  BY <1>1, <1>3, <1>4, <1>6, InHand, RowSpeaks
<1>8. Len(impulses[o]) \in {0, 1} /\ (Len(impulses[o]) = 0 <=> impulses[o] = <<>>)
  <2>1. Len(impulses[o]) \in {0, 1}
    BY InHand, OneStory
  <2>2. impulses[o] \in Seq(Devices)
    BY InHand DEF AccountInv, PressInv, TypeInv, TypeOK, WorldType
  <2> QED BY <2>1, <2>2, EmptySeq
<1>9. CASE Resolve(s)
  <2>1. journal'[c].result = ResolutionOf(task[s].outcome) /\ task[s].outcome \in Outcomes
    BY <1>9, InHand
       DEF Resolve, Rows, AccountInv, PressInv, TypeInv, TypeOK, ProcessType, Tasks
  <2>2. journal'[c].effect_count = 0
    BY <1>9, InHand, ResolvedRow
  <2>3. /\ task[s].outcome = "APPLIED" => Len(impulses[o]) = 1
        /\ task[s].outcome = "NOT_APPLIED" => Len(impulses[o]) = 0
    BY <1>8, <1>9, InHand DEF Resolve, HandlerAgrees, Pressed
  <2>4. Effects' = Effects
    BY <1>5, <1>7, <2>2, InHand, AbstractSame
  <2>5. AccountOf(journal'[c]) \in Abstract!Accounts(Effects[o])
    <3>1. Effects[o] = Len(impulses[o])
      BY <1>5, <1>8
    <3> QED BY SMTT(30), <2>1, <2>3, <3>1
                 DEF AccountOf, ResolutionOf, Outcomes, Abstract!Accounts
  <2> QED BY <1>5, <1>7, <2>4, <2>5, InHand, EndIs
<1>10. CASE CommitDummyEffect(s)
  <2>1. journal'[c].effect_count = 1 /\ journal'[c].result = "DUMMY"
    BY <1>10, InHand DEF CommitDummyEffect, Rows
  <2>2. journal[c].device = NoDevice
    BY <1>10, InHand DEF CommitDummyEffect, HandlerAgrees, External
  <2>3. Len(impulses[o]) = 0
    BY <1>4, <1>8, <2>2, InHand, OneStory
  <2>4. AccountOf(journal'[c]) = "DONE" /\ Effects[o] = 0
    BY <1>5, <2>1, <2>3 DEF AccountOf
  <2>5. /\ Effects' = [Effects EXCEPT ![o] = 1]
        /\ Account' = [Account EXCEPT ![o] = "DONE"]
    <3>1. Len(impulses[o]) + journal'[c].effect_count = 1
      BY <2>1, <2>3
    <3> QED BY <1>7, <2>4, <3>1
  <2> QED BY <1>5, <1>7, <2>4, <2>5, InHand, ActAndEndIs
<1> QED BY <1>9, <1>10

-----------------------------------------------------------------------------
\* A version 3 database holds operations that are open, committed or ended.
LEMMA AbstractInit == Init => Abstract!Init
<1> SUFFICES ASSUME Init PROVE Abstract!Init
  OBVIOUS
<1>1. AccountInv
  BY InitAccount
<1>2. PICK kind \in [Contracts -> LegacyRows], d \in Devices : Init!(kind, d)
  BY DEF Init
<1>3. ASSUME NEW o \in Operations
      PROVE  /\ Phase[o] \in {"open", "committed", "ended"}
             /\ Effects[o] \in 0..1
             /\ Account[o] \in {"none", "DONE", "NOT_DONE", "UNKNOWN"}
             /\ Phase[o] = "open" => Effects[o] = 0
             /\ IF Phase[o] = "ended" THEN Account[o] \in Abstract!Accounts(Effects[o])
                ELSE Account[o] = "none"
  <2>1. Phase[o] # "refused"
    <3>1. RowOf(o) \in {NoRow} \cup {journal[c] : c \in Contracts}
      BY DEF RowOf
    <3>2. \A c \in Contracts : journal[c].state # "HELD"
      BY <1>2, V3RowIs, RobotAssumption DEF RobotAssumption
    <3>3. /\ RowOf(o).state # "HELD"
          /\ RowOf(o).state = "SUCCEEDED" => RowOf(o).dispatch_at # 0
          /\ RowOf(o).state \in JournalState
      BY <1>1, <3>1, <3>2, OneStory DEF RowShape, NoRow, JournalState, Terminal
    <3>4. PhaseOf(RowOf(o)) # "refused"
      BY <3>3, PhaseValues DEF JournalState, Terminal
    <3> QED BY <3>4 DEF Phase
  <2>2. \A n \in {0, 1} : n \in 0..1
    OBVIOUS
  <2> QED BY <1>1, <2>1, <2>2, AbstractState DEF Abstract!Accounts
<1> QED BY <1>3 DEF Abstract!Init, Phase, Effects, Account

\* Every step of the Robot is a step of the single shot, or none.
LEMMA AbstractStep ==
    ASSUME AccountInv, [Next]_vars
    PROVE  [Abstract!Next]_(Abstract!state)
<1>1. AccountInv'
  BY AccountStep
<1>2. CASE UNCHANGED <<journal, impulses>>
  BY <1>2, AbstractStill DEF Abstract!state, Phase, Effects, Account
<1>3. CASE ~UNCHANGED <<journal, impulses>>
  <2>1. PICK s \in Services : \/ HoldLegacy(s) \/ DenyScope(s) \/ DenyBudget(s)
                              \/ Accept(s) \/ Reserve(s) \/ RecordDispatch(s)
                              \/ Press(s) \/ PressRaises(s)
                              \/ Resolve(s) \/ CommitDummyEffect(s)
    BY <1>3, JournalWriters, DeviceWriters
  <2>2. PICK c \in Contracts : c = Contract(s)
    BY <2>1, WorkedOn
  <2>3. OperationOf[c] \in Operations
    BY <2>2, InHand
  <2>4. \/ UNCHANGED <<Phase, Effects, Account>>
        \/ Abstract!Commit(OperationOf[c]) \/ Abstract!Refuse(OperationOf[c])
        \/ Abstract!Act(OperationOf[c]) \/ Abstract!End(OperationOf[c])
        \/ Abstract!ActAndEnd(OperationOf[c])
    BY <1>1, <2>1, <2>2, AcceptOpens, DenialRefuses, DispatchCommits, PressActs,
       VerdictEnds
  <2>5. CASE UNCHANGED <<Phase, Effects, Account>>
    BY <2>5 DEF Abstract!state, Phase, Effects, Account
  <2>6. CASE ~UNCHANGED <<Phase, Effects, Account>>
    BY <2>3, <2>4, <2>6 DEF Abstract!Next
  <2> QED BY <2>5, <2>6
<1> QED BY <1>2, <1>3

\* Whatever happens to the Robot's processes, an operation of its store goes
\* through a single shot: one authority, at most one effect under it, one true
\* and final account.  The handlers in execution order, recover() and every
\* crash between them are steps of it or none.
THEOREM SingleShotImplemented == Spec => ImplementsSingleShot
<1>1. AccountInv /\ [Next]_vars => [Abstract!Next]_(Abstract!state)
  BY AbstractStep
<1> QED BY <1>1, AbstractInit, AccountInvariant, PTL
        DEF Spec, ImplementsSingleShot, Abstract!Spec
=============================================================================
