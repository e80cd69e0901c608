---------------------------- MODULE FieldProofs ----------------------------
(***************************************************************************)
(* What the Field decides, forwards and reconciles, and what Mission shows *)
(* of it, for any intents, operations and faults: FieldInv of              *)
(* FieldReconciliation is inductive, and the properties of that module     *)
(* follow from it.                                                         *)
(***************************************************************************)
EXTENDS FieldReconciliation, FiniteSetTheorems, FunctionTheorems, TLAPS

-----------------------------------------------------------------------------
(* Messages.                                                               *)

\* What a message is about.
LEMMA MessageParts ==
    ASSUME NEW m \in Messages
    PROVE  /\ m[2] \in Intents
           /\ m \in RobotMessages <=> m[1] # "intent"
           /\ m[1] = "intent" => m = Intent(m[2])
           /\ m[1] \in {"intent", "state", "SUCCEEDED", "HELD"}
BY DEF Messages, RobotMessages, Intent

LEMMA IntentParts ==
    ASSUME NEW i \in Intents
    PROVE  /\ Intent(i) \in Messages /\ Intent(i) \notin RobotMessages
           /\ Intent(i)[1] = "intent" /\ Intent(i)[2] = i
BY DEF Messages, RobotMessages, Intent

LEMMA ReportParts ==
    ASSUME NEW i \in Intents, NEW kind \in {"state", "SUCCEEDED", "HELD"},
           NEW n \in {0, 1}, kind = "state" => n = 0
    PROVE  /\ <<kind, i, n>> \in RobotMessages /\ <<kind, i, n>> \in Messages
           /\ <<kind, i, n>>[1] = kind /\ <<kind, i, n>>[2] = i
BY DEF Messages, RobotMessages

\* There are as many messages of a kind as intents, hence finitely many.
LEMMA MessagesFinite == IsFiniteSet(Messages) /\ Cardinality(Messages) \in Nat
<1>1. ASSUME NEW kind, NEW n
      PROVE  IsFiniteSet({kind} \X Intents \X {n})
  <2> DEFINE T == {kind} \X Intents \X {n}
             f == [i \in Intents |-> <<kind, i, n>>]
  <2>1. f \in Surjection(Intents, T)
    <3>1. f \in [Intents -> T]
      OBVIOUS
    <3>2. ASSUME NEW t \in T
          PROVE  \E i \in Intents : f[i] = t
      <4>1. t[2] \in Intents /\ t = <<kind, t[2], n>>
        OBVIOUS
      <4> QED BY <4>1
    <3> QED BY <3>1, <3>2 DEF Surjection
  <2> QED BY <2>1, FS_Surjection, FieldAssumption DEF FieldAssumption
<1> DEFINE A == {"intent"} \X Intents \X {0}
           B == {"state"} \X Intents \X {0}
           C == {"SUCCEEDED"} \X Intents \X {0}
           D == {"HELD"} \X Intents \X {0}
           E == {"SUCCEEDED"} \X Intents \X {1}
           F == {"HELD"} \X Intents \X {1}
<1>2. Messages = A \cup B \cup C \cup D \cup E \cup F
  BY DEF Messages, RobotMessages, Intent
<1>3. /\ IsFiniteSet(A) /\ IsFiniteSet(B) /\ IsFiniteSet(C)
      /\ IsFiniteSet(D) /\ IsFiniteSet(E) /\ IsFiniteSet(F)
  BY <1>1
<1> HIDE DEF A, B, C, D, E, F
<1>4. IsFiniteSet(Messages)
  BY <1>2, <1>3, FS_Union
<1> QED BY <1>4, FS_CardinalityType

\* A message at hand leaves room for a claim.
LEMMA RoomForOne ==
    ASSUME NEW m \in Messages
    PROVE  1 \in 0..2 * Cardinality(Messages)
<1>1. Cardinality(Messages) # 0
  BY MessagesFinite, FS_EmptySet
<1> QED BY <1>1, MessagesFinite

-----------------------------------------------------------------------------
(* What follows from what the tables say of each other.                    *)

Tables ==
    /\ OriginsFirst
    /\ RowsBacked
    /\ ReconciledByInbox
    /\ OneDecision

\* Everything that has left Mission has an operation.
LEMMA Origins ==
    ASSUME TypeOK, Tables
    PROVE  /\ \A m \in Messages : inbox[m] # "ABSENT" => Operation(m) \in Operations
           /\ \A i \in taken : submitted[i] \in Operations
           /\ \A m \in reports : /\ m \in RobotMessages /\ m \in Messages
                                 /\ Operation(m) \in Operations
           /\ \A r \in outbox : /\ r \in OutboxRows /\ r.cause \in Messages
                                /\ Operation(r.cause) \in Operations
<1>1. ASSUME NEW i \in taken
      PROVE  submitted[i] \in Operations
  <2>1. i \in Intents /\ Row("contract", Intent(i)) \in outbox
    BY DEF TypeOK, Tables, OriginsFirst
  <2>2. inbox[Intent(i)] = "PROCESSED"
    BY <2>1 DEF Tables, RowsBacked, Row
  <2>3. Arrived(Intent(i))
    BY <2>1, <2>2, IntentParts DEF Tables, OriginsFirst
  <2> QED BY <2>1, <2>3, IntentParts DEF Arrived, Operation, TypeOK
<1>2. ASSUME NEW m \in reports
      PROVE  m \in RobotMessages /\ m \in Messages /\ Operation(m) \in Operations
  BY <1>1 DEF TypeOK, Tables, OriginsFirst, Operation, Messages
<1>3. ASSUME NEW m \in Messages, inbox[m] # "ABSENT"
      PROVE  Operation(m) \in Operations
  <2>1. Arrived(m) /\ m[2] \in Intents
    BY <1>3, MessageParts DEF Tables, OriginsFirst
  <2> QED BY <1>2, <2>1 DEF Arrived, Operation, TypeOK
<1>4. ASSUME NEW r \in outbox
      PROVE  r \in OutboxRows /\ r.cause \in Messages /\ Operation(r.cause) \in Operations
  <2>1. r \in OutboxRows /\ r.cause \in Messages
    BY DEF TypeOK, OutboxRows
  <2>2. inbox[r.cause] # "ABSENT"
    BY DEF Tables, RowsBacked
  <2> QED BY <1>3, <2>1, <2>2
<1> QED BY <1>1, <1>2, <1>3, <1>4

\* An operation has one contract at the Robot.
LEMMA OneTaken ==
    ASSUME TypeOK, Tables, NEW i \in taken, NEW j \in taken, submitted[i] = submitted[j]
    PROVE  i = j
<1>1. i \in Intents /\ j \in Intents
  BY DEF TypeOK
<1>2. /\ Row("contract", Intent(i)) \in outbox
      /\ Row("contract", Intent(j)) \in outbox
  BY DEF Tables, OriginsFirst
<1>3. Row("contract", Intent(i)) = Row("contract", Intent(j))
  BY ZenonT(30), <1>1, <1>2, IntentParts DEF Tables, OneDecision, Decides, Row, Operation
<1>4. Intent(i) = Intent(j)
  BY <1>3 DEF Row
<1> QED BY <1>1, <1>4, IntentParts

\* A row that is not reconciled is known by its type and its message.
LEMMA RowIs ==
    ASSUME TypeOK, Tables, NEW r \in outbox, r.type # "reconciled"
    PROVE  r = Row(r.type, r.cause)
BY DEF TypeOK, OutboxRows, Tables, RowsBacked, Row

\* While a message is worked on, no row stands for it yet.
LEMMA NewRowIs ==
    ASSUME Tables, ClaimedInCall, working # NoMessage, NEW type, NEW e
    PROVE  NewRow(type, working, e) =
              [type |-> type, cause |-> working, evidence |-> e, copy |-> 0]
<1>1. {r \in outbox : r.type = type /\ r.cause = working} = {}
  BY DEF ClaimedInCall, Tables, RowsBacked
<1> QED BY <1>1, FS_EmptySet DEF NewRow
-----------------------------------------------------------------------------
(* The type of every table.                                                *)

\* The type of the Field's part, which its steps change.
LEMMA FinishType ==
    ASSUME TypeOK, working # NoMessage, NEW rows, rows \subseteq OutboxRows, Finish(rows)
    PROVE  TypeOK'
BY DEF TypeOK, Finish, Complete, InboxState, mission, robot

LEMMA CallType ==
    ASSUME TypeOK,
           \/ \E m \in Messages : ReceiveFrame(m) \/ ClaimNext(m)
           \/ \E l \in Links : AckFails(l) \/ Handle(l)
           \/ Return \/ Crash \/ Restart
    PROVE  TypeOK'
<1>1. ASSUME NEW m \in Messages, ReceiveFrame(m)
      PROVE  TypeOK'
  BY <1>1 DEF TypeOK, ReceiveFrame, Receive, InboxState, call, mission, robot
<1>2. ASSUME NEW m \in Messages, ClaimNext(m)
      PROVE  TypeOK'
  <2>1. left' \in 0..2 * Cardinality(Messages)
    BY <1>2, MessagesFinite DEF TypeOK, ClaimNext, MayClaim
  <2> QED BY <1>2, <2>1 DEF TypeOK, ClaimNext, Claim, InboxState, mission, robot
<1>3. ASSUME NEW l \in Links, AckFails(l)
      PROVE  TypeOK'
  BY <1>3, FieldAssumption
     DEF FieldAssumption, TypeOK, AckFails, Fault, call, mission, robot
<1>4. ASSUME NEW l \in Links, Handle(l)
      PROVE  TypeOK'
  <2>1. waiting[l] \in Messages
    BY <1>4 DEF Handle, TypeOK
  <2> QED BY <1>4, <2>1, RoomForOne
          DEF TypeOK, Handle, Claim, InboxState, call, mission, robot
<1>5. CASE Return \/ Crash
  <2>1. 0 \in 0..2 * Cardinality(Messages)
    BY MessagesFinite
  <2>2. CASE Return
    BY <2>1, <2>2 DEF TypeOK, Return, mission, robot
  <2>3. CASE Crash
    <3>1. faults' \in 0..MaxFaults
      BY <2>3, FieldAssumption DEF FieldAssumption, TypeOK, Crash, Fault
    <3>2. waiting' \in [Links -> Messages \cup {NoMessage}]
      BY <2>3 DEF Crash
    <3> QED BY <2>1, <2>3, <3>1, <3>2 DEF TypeOK, Crash, mission, robot
  <2> QED BY <1>5, <2>2, <2>3
<1>6. CASE Restart
  <2>1. inbox' \in [Messages -> InboxState]
    BY <1>6 DEF Restart, TypeOK, RecoverInterrupted, InboxState
  <2>2. Claimable(inbox') \subseteq Messages
    BY <2>1 DEF Claimable
  <2>3. /\ Cardinality(Claimable(inbox')) \in Nat
        /\ Cardinality(Claimable(inbox')) <= Cardinality(Messages)
    BY <2>2, MessagesFinite, FS_Subset, FS_CardinalityType
  <2>4. left' = 2 * Cardinality(Claimable(inbox'))
    BY <1>6 DEF Restart
  <2>5. left' \in 0..2 * Cardinality(Messages)
    BY <2>3, <2>4, MessagesFinite
  <2> QED BY <1>6, <2>1, <2>5 DEF TypeOK, Restart, mission, robot
<1> QED BY <1>1, <1>2, <1>3, <1>4, <1>5, <1>6

LEMMA MissionType ==
    ASSUME TypeOK,
           \/ \E i \in Intents : Expire(i) \/ \E o \in Operations : Submit(i, o)
           \/ \E r \in outbox : Confirm(r)
    PROVE  TypeOK'
BY DEF TypeOK, Expire, Submit, Confirm, call, robot

-----------------------------------------------------------------------------
(* Steps of the Field and of Mission.                                      *)

\* Rows may arrive and be claimed, and what is absent or completed stays so.
InboxMoves ==
    /\ inbox' \in [Messages -> InboxState]
    /\ \A m \in Messages : /\ inbox[m] = "ABSENT" => inbox'[m] = "ABSENT" \/ Arrived(m)
                           /\ inbox'[m] = "ABSENT" => inbox[m] = "ABSENT"
                           /\ inbox'[m] = "PROCESSED" <=> inbox[m] = "PROCESSED"

\* As long as nothing is completed, the tables back each other.
LEMMA InboxKeeps ==
    ASSUME TypeOK, Tables, ReportsTrue, InboxMoves,
           UNCHANGED <<submitted, confirmed, outbox, robot>>
    PROVE  Tables' /\ ReportsTrue'
<1>1. OriginsFirst'
  BY DEF Tables, OriginsFirst, InboxMoves, Arrived, Operation, robot
<1>2. RowsBacked'
  BY Origins, MessageParts
     DEF Tables, RowsBacked, InboxMoves, Messages, Selectable
<1>3. ReconciledByInbox'
  <2>1. ASSUME NEW r \in outbox, r.type = "reconciled", r.evidence # NoMessage
        PROVE  inbox'[r.evidence] # "ABSENT"
    <3>1. r.evidence \in Messages
      BY <2>1, Origins DEF OutboxRows, Messages
    <3> QED BY <2>1, <3>1 DEF Tables, ReconciledByInbox, InboxMoves
  <2> QED BY <2>1 DEF Tables, ReconciledByInbox, Operation
<1>4. OneDecision'
  BY DEF Tables, OneDecision, Decides, Operation
<1>5. ReportsTrue'
  BY DEF ReportsTrue, Operation, robot
<1> QED BY <1>1, <1>2, <1>3, <1>4, <1>5 DEF Tables

\* A frame is stored, an acknowledgement fails, a call claims, returns, dies or
\* starts again.
LEMMA CallKeeps ==
    ASSUME FieldInv,
           \/ \E m \in Messages : ReceiveFrame(m) \/ ClaimNext(m)
           \/ \E l \in Links : AckFails(l) \/ Handle(l)
           \/ Return \/ Crash \/ Restart
    PROVE  FieldInv'
<1>1. TypeOK'
  BY CallType DEF FieldInv
<1>2. UNCHANGED <<submitted, confirmed, outbox, robot>>
  BY DEF ReceiveFrame, ClaimNext, AckFails, Handle, Return, Crash, Restart, mission
<1>3. InboxMoves
  <2>1. inbox' \in [Messages -> InboxState] /\ inbox \in [Messages -> InboxState]
    BY <1>1 DEF TypeOK, FieldInv
  <2>2. ASSUME NEW m \in Messages, ReceiveFrame(m)
        PROVE  InboxMoves
    BY <2>1, <2>2 DEF ReceiveFrame, Receive, InboxMoves
  <2>3. ASSUME NEW m \in Messages, ClaimNext(m)
        PROVE  InboxMoves
    BY <2>1, <2>3 DEF ClaimNext, Claimable, Claim, InboxMoves
  <2>4. ASSUME NEW l \in Links, Handle(l)
        PROVE  InboxMoves
    BY <2>1, <2>4 DEF Handle, Claimable, Claim, InboxMoves
  <2>5. CASE Restart
    BY <2>1, <2>5 DEF Restart, RecoverInterrupted, InboxMoves
  <2>6. CASE Return \/ Crash \/ \E l \in Links : AckFails(l)
    BY <2>1, <2>6 DEF Return, Crash, AckFails, InboxMoves
  <2> QED BY <2>2, <2>3, <2>4, <2>5, <2>6
<1>4. ClaimedInCall'
  <2>1. inbox \in [Messages -> InboxState] /\ NoMessage \notin Messages
    BY FieldAssumption DEF FieldAssumption, TypeOK, FieldInv
  <2>2. ASSUME NEW m \in Messages, ReceiveFrame(m)
        PROVE  ClaimedInCall'
    BY <2>1, <2>2 DEF FieldInv, ReceiveFrame, Idle, Receive, ClaimedInCall, call
  <2>3. ASSUME NEW m \in Messages, ClaimNext(m)
        PROVE  ClaimedInCall'
    BY <2>1, <2>3 DEF ClaimNext, Claim, ClaimedInCall
  <2>4. ASSUME NEW l \in Links, Handle(l)
        PROVE  ClaimedInCall'
    BY <2>1, <2>4 DEF FieldInv, Handle, Idle, Claimable, Claim, ClaimedInCall, call
  <2>5. CASE Restart \/ Return \/ Crash
    BY <2>5 DEF FieldInv, Restart, Return, Crash, ClaimedInCall
  <2>6. ASSUME NEW l \in Links, AckFails(l)
        PROVE  ClaimedInCall'
    BY <2>6 DEF FieldInv, AckFails, ClaimedInCall, call
  <2> QED BY <2>2, <2>3, <2>4, <2>5, <2>6
<1> QED BY <1>1, <1>2, <1>3, <1>4, InboxKeeps DEF FieldInv, Tables

\* Mission submits an operation, an intent expires, a row reaches Mission.
LEMMA MissionKeeps ==
    ASSUME FieldInv,
           \/ \E i \in Intents : Expire(i) \/ \E o \in Operations : Submit(i, o)
           \/ \E r \in outbox : Confirm(r)
    PROVE  FieldInv'
<1>1. TypeOK'
  BY MissionType DEF FieldInv
<1>2. /\ UNCHANGED <<inbox, outbox, call, up, robot>>
      /\ IsFiniteSet(outbox') /\ ClaimedInCall'
  BY DEF Expire, Submit, Confirm, FieldInv, ClaimedInCall, call
<1>3. \A m \in Messages : Operation(m) # NoOperation => Operation(m)' = Operation(m)
  BY MessageParts DEF Expire, Submit, Confirm, Operation, FieldInv, TypeOK
<1>4. NoOperation \notin Operations
  BY FieldAssumption DEF FieldAssumption
<1>5. TypeOK /\ Tables
  BY DEF FieldInv, Tables
<1>6. /\ \A m \in reports : Operation(m)' = Operation(m)
      /\ \A r \in outbox : Operation(r.cause)' = Operation(r.cause)
      /\ \A m \in Messages : inbox[m] # "ABSENT" => Operation(m)' = Operation(m)
      /\ \A i \in taken : submitted'[i] = submitted[i]
  <2>1. ASSUME NEW i \in taken
        PROVE  submitted'[i] = submitted[i]
    <3>1. i \in Intents /\ submitted[i] # NoOperation
      BY <1>4, <1>5, Origins DEF TypeOK
    <3> QED BY <1>3, <3>1, IntentParts DEF Operation
  <2> QED BY <1>3, <1>4, <1>5, <2>1, Origins
<1>7. OriginsFirst'
  BY <1>2, <1>4, <1>5, <1>6, Origins DEF Tables, OriginsFirst, Arrived, robot
<1>8. RowsBacked'
  BY <1>2, <1>5 DEF Tables, RowsBacked, Expire, Submit, Confirm, Selectable
<1>9. ReconciledByInbox'
  <2>1. ASSUME NEW r \in outbox, r.type = "reconciled", r.evidence # NoMessage
        PROVE  Operation(r.evidence)' = Operation(r.evidence)
    <3>1. r.evidence \in Messages /\ inbox[r.evidence] # "ABSENT"
      BY <1>5, <2>1, Origins DEF OutboxRows, Messages, Tables, ReconciledByInbox
    <3> QED BY <1>6, <3>1
  <2> QED BY <1>2, <1>5, <1>6, <2>1 DEF Tables, ReconciledByInbox
<1>10. OneDecision'
  <2>1. OneDecision /\ outbox' = outbox
    BY <1>2, <1>5 DEF Tables
  <2>2. ASSUME NEW r \in outbox, NEW q \in outbox, Decides(r), Decides(q),
               Operation(r.cause)' = Operation(q.cause)'
        PROVE  r = q
    <3>1. Operation(r.cause) = Operation(q.cause)
      BY <1>6, <2>2
    <3> QED BY <2>1, <2>2, <3>1 DEF OneDecision
  <2> QED BY <2>1, <2>2 DEF OneDecision, Decides
<1>11. ReportsTrue'
  <2>1. UNCHANGED <<phase, effects, account, reports, taken>> /\ ReportsTrue
    BY <1>2 DEF FieldInv, robot
  <2> QED BY <1>6, <2>1 DEF ReportsTrue
<1> QED BY <1>1, <1>2, <1>7, <1>8, <1>9, <1>10, <1>11 DEF FieldInv
-----------------------------------------------------------------------------
(* Completions.                                                            *)

\* The rows a message may be completed with.
RowsOf(m, rows) ==
    /\ IsFiniteSet(rows) /\ rows \subseteq OutboxRows
    /\ \A r \in rows :
          /\ r.cause = m /\ r.copy = 0
          /\ r.type \in {"forward", "reconciled"} <=> m \in RobotMessages
          /\ r.type # "reconciled" => r.evidence = NoMessage
          /\ r.type = "held" => Row("held contract", m) \in rows
    /\ m \in RobotMessages => Row("forward", m) \in rows
    /\ \A r \in rows : r.type = "reconciled" =>
          /\ m[1] = "SUCCEEDED"
          /\ IF r.evidence = NoMessage THEN Fixture
             ELSE r.evidence \in EvidenceFor(Operation(m))
    /\ \A r \in rows : Decides(r) => PriorContracts(Operation(m)) = {}
    /\ \A r, q \in rows : Decides(r) /\ Decides(q) => r = q

\* A completion with such rows keeps the tables in agreement.
LEMMA FinishKeeps ==
    ASSUME FieldInv, working # NoMessage, NEW rows, RowsOf(working, rows), Finish(rows)
    PROVE  FieldInv'
<1> DEFINE w == working
<1>1. TypeOK' /\ ClaimedInCall'
  BY FinishType DEF FieldInv, RowsOf, Finish, ClaimedInCall
<1>2. /\ TypeOK /\ Tables /\ ReportsTrue /\ IsFiniteSet(outbox)
      /\ w \in Messages /\ inbox[w] = "PROCESSING"
  BY DEF FieldInv, Tables, TypeOK, ClaimedInCall
<1>3. /\ inbox' = [inbox EXCEPT ![w] = "PROCESSED"]
      /\ outbox' = outbox \cup rows
      /\ UNCHANGED <<submitted, confirmed, robot>>
      /\ inbox \in [Messages -> InboxState]
  BY <1>2 DEF Finish, Complete, mission, TypeOK
<1>4. IsFiniteSet(outbox')
  BY <1>2, <1>3, FS_Union DEF RowsOf
<1>5. OriginsFirst'
  BY <1>2, <1>3 DEF Tables, OriginsFirst, Arrived, Operation, robot
<1>6. RowsBacked'
  <2>1. ASSUME NEW r \in outbox'
        PROVE  /\ inbox'[r.cause] = "PROCESSED" /\ r.copy = 0
               /\ r.type \in {"forward", "reconciled"} <=> r.cause \in RobotMessages
               /\ r.type # "reconciled" => r.evidence = NoMessage
               /\ r.type = "held" => Row("held contract", r.cause) \in outbox'
    <3>1. CASE r \in outbox
      BY <1>2, <1>3, <3>1, Origins DEF Tables, RowsBacked
    <3>2. CASE r \in rows
      BY <1>2, <1>3, <3>2 DEF RowsOf
    <3> QED BY <1>3, <3>1, <3>2
  <2>2. ASSUME NEW m \in RobotMessages, inbox'[m] = "PROCESSED"
        PROVE  Row("forward", m) \in outbox'
    <3>1. m \in Messages
      BY DEF Messages
    <3>2. CASE m = w
      BY <1>3, <3>2 DEF RowsOf
    <3>3. CASE m # w
      BY <1>2, <1>3, <2>2, <3>1, <3>3 DEF Tables, RowsBacked
    <3> QED BY <3>2, <3>3
  <2>3. \A r \in confirmed' : Selectable(r)
    BY <1>2, <1>3 DEF Tables, RowsBacked
  <2> QED BY <2>1, <2>2, <2>3 DEF RowsBacked, Row, Selectable
<1>7. ReconciledByInbox'
  <2>1. ASSUME NEW r \in outbox', r.type = "reconciled"
        PROVE  /\ r.cause[1] = "SUCCEEDED"
               /\ IF r.evidence = NoMessage THEN Fixture
                  ELSE /\ inbox'[r.evidence] # "ABSENT"
                       /\ submitted[r.evidence[2]] = submitted[r.cause[2]]
    <3>1. CASE r \in outbox
      <4>1. r.evidence # NoMessage => r.evidence \in Messages
        BY <1>2, <3>1, Origins DEF OutboxRows, Messages
      <4> QED BY <1>2, <1>3, <2>1, <3>1, <4>1 DEF Tables, ReconciledByInbox, Operation
    <3>2. CASE r \in rows
      BY <1>3, <2>1, <3>2 DEF RowsOf, EvidenceFor, Operation, Messages
    <3> QED BY <1>3, <3>1, <3>2
  <2> QED BY <1>3, <2>1 DEF ReconciledByInbox, Operation
<1>8. OneDecision'
  <2>1. ASSUME NEW r \in outbox', NEW q \in outbox', Decides(r), Decides(q),
               submitted[r.cause[2]] = submitted[q.cause[2]]
        PROVE  r = q
    <3>1. CASE r \in outbox /\ q \in outbox
      BY <1>2, <2>1, <3>1 DEF Tables, OneDecision, Operation
    <3>2. CASE r \in rows /\ q \in rows
      BY <2>1, <3>2 DEF RowsOf
    <3>3. ASSUME NEW x \in rows, NEW y \in outbox, Decides(x), Decides(y),
                 submitted[x.cause[2]] = submitted[y.cause[2]]
          PROVE  FALSE
      BY <3>3 DEF RowsOf, PriorContracts, Decides, Operation
    <3> QED BY <1>3, <2>1, <3>1, <3>2, <3>3
  <2> QED BY <1>3, <2>1 DEF OneDecision, Decides, Operation
<1>9. ReportsTrue'
  BY <1>2, <1>3 DEF ReportsTrue, Operation, robot
<1> QED BY <1>1, <1>4, <1>5, <1>6, <1>7, <1>8, <1>9 DEF FieldInv

LEMMA RowType ==
    ASSUME NEW m \in Messages, NEW kind \in RowTypes
    PROVE  /\ Row(kind, m) \in OutboxRows
           /\ Row(kind, m).type = kind /\ Row(kind, m).cause = m
           /\ Row(kind, m).evidence = NoMessage /\ Row(kind, m).copy = 0
BY DEF Row, OutboxRows

LEMMA PairFinite ==
    ASSUME NEW a, NEW b
    PROVE  IsFiniteSet({a, b})
<1>1. {a, b} = {a} \cup {b}
  OBVIOUS
<1>2. IsFiniteSet({a}) /\ IsFiniteSet({b})
  BY FS_Singleton
<1>3. IsFiniteSet({a} \cup {b})
  BY <1>2, FS_Union
<1> QED BY <1>1, <1>3

\* The Field decides an intent, or recognizes that it has.
LEMMA IntentKeeps ==
    ASSUME FieldInv, DuplicateOperation \/ HoldOperation \/ AdmitOperation
    PROVE  FieldInv'
<1>1. /\ working # NoMessage /\ working \in Messages /\ working \notin RobotMessages
      /\ working[1] = "intent" /\ Tables /\ ClaimedInCall
  BY MessageParts
     DEF DuplicateOperation, HoldOperation, AdmitOperation, HandlesIntent, FieldInv, Tables,
         TypeOK
<1>2. CASE DuplicateOperation
  <2>1. RowsOf(working, {})
    BY <1>1, FS_EmptySet DEF RowsOf
  <2> QED BY <1>1, <1>2, <2>1, FinishKeeps DEF DuplicateOperation
<1>3. ASSUME NEW a \in {"held contract", "contract"}, NEW b \in {"held", "snapshot"},
             b = "held" => a = "held contract",
             PriorContracts(Operation(working)) = {},
             Finish({NewRow(a, working, NoMessage), NewRow(b, working, NoMessage)})
      PROVE  FieldInv'
  <2>1. PICK x, y : /\ x = NewRow(a, working, NoMessage)
                    /\ y = NewRow(b, working, NoMessage)
    OBVIOUS
  <2>2. x = Row(a, working) /\ y = Row(b, working)
    BY <1>1, <2>1, NewRowIs DEF Row
  <2>3. /\ x \in OutboxRows /\ y \in OutboxRows
        /\ x.type = a /\ x.cause = working /\ x.evidence = NoMessage /\ x.copy = 0
        /\ y.type = b /\ y.cause = working /\ y.evidence = NoMessage /\ y.copy = 0
    <3>1. a \in RowTypes /\ b \in RowTypes
      BY DEF RowTypes
    <3> QED BY ZenonT(30), <1>1, <2>2, <3>1, RowType
  <2>4. Row("held contract", working) = x \/ b # "held"
    BY <1>3, <2>2
  <2>5. IsFiniteSet({x, y})
    BY PairFinite
  <2>6. RowsOf(working, {x, y})
    BY <1>1, <1>3, <2>3, <2>4, <2>5 DEF RowsOf, Decides
  <2>7. Finish({x, y})
    BY <1>3, <2>1
  <2> QED BY <1>1, <2>6, <2>7, FinishKeeps
<1>4. CASE HoldOperation
  BY <1>3, <1>4 DEF HoldOperation
<1>5. CASE AdmitOperation
  <2>1. PICK x, y : /\ x = NewRow("contract", working, NoMessage)
                    /\ y = NewRow("snapshot", working, NoMessage)
    OBVIOUS
  <2>2. {x, y} = {y, x}
    OBVIOUS
  <2>3. Finish({x, y})
    BY <1>5, <2>1, <2>2 DEF AdmitOperation
  <2> QED BY <1>3, <1>5, <2>1, <2>3 DEF AdmitOperation
<1> QED BY <1>2, <1>4, <1>5

\* A report of the Robot is forwarded, and reconciled if it can be.
LEMMA ForwardKeeps ==
    ASSUME FieldInv, ForwardRobotMessage
    PROVE  FieldInv'
<1> DEFINE w == working
<1>1. /\ w # NoMessage /\ w \in Messages /\ w \in RobotMessages /\ Tables
      /\ ClaimedInCall /\ NoMessage \notin Messages
  BY FieldAssumption DEF FieldAssumption, ForwardRobotMessage, FieldInv, Tables, Messages
<1>2. PICK x : x = NewRow("forward", w, NoMessage)
  OBVIOUS
<1>3. x = Row("forward", w)
  BY <1>1, <1>2, NewRowIs DEF Row
<1>4. /\ x \in OutboxRows /\ x.type = "forward" /\ x.cause = w
      /\ x.evidence = NoMessage /\ x.copy = 0
  BY <1>1, <1>3, RowType DEF RowTypes
<1>5. CASE Finish({x})
  <2>1. IsFiniteSet({x})
    BY FS_Singleton
  <2>2. RowsOf(w, {x})
    BY <1>1, <1>3, <1>4, <2>1 DEF RowsOf, Decides
  <2> QED BY <1>1, <1>5, <2>2, FinishKeeps
<1>6. CASE ~Finish({x})
  <2>1. /\ w[1] = "SUCCEEDED"
        /\ \E e \in Reconciling(Operation(w)) :
              Finish({NewRow("forward", w, NoMessage), NewRow("reconciled", w, e)})
    BY <1>2, <1>6 DEF ForwardRobotMessage
  <2>2. PICK e \in Reconciling(Operation(w)) :
            Finish({NewRow("forward", w, NoMessage), NewRow("reconciled", w, e)})
    BY <2>1
  <2>3. PICK y : y = NewRow("reconciled", w, e)
    OBVIOUS
  <2>4. y = [type |-> "reconciled", cause |-> w, evidence |-> e, copy |-> 0]
    BY <1>1, <2>3, NewRowIs
  <2>5. Finish({x, y})
    BY <1>2, <2>2, <2>3
  <2>6. IF e = NoMessage THEN Fixture ELSE e \in EvidenceFor(Operation(w))
    BY <1>1, <2>2 DEF Reconciling, EvidenceFor, Messages
  <2>7. /\ y \in OutboxRows /\ y.type = "reconciled" /\ y.cause = w
        /\ y.evidence = e /\ y.copy = 0
    BY <1>1, <2>4, <2>6 DEF OutboxRows, RowTypes, EvidenceFor
  <2>8. IsFiniteSet({x, y})
    BY PairFinite
  <2>9. RowsOf(w, {x, y})
    BY <1>1, <1>3, <1>4, <2>1, <2>6, <2>7, <2>8 DEF RowsOf, Decides
  <2> QED BY <1>1, <2>5, <2>9, FinishKeeps
<1> QED BY <1>5, <1>6
-----------------------------------------------------------------------------
(* Steps of the Robot.                                                     *)

\* What a step of the Robot leaves alone.
FieldStill == UNCHANGED <<submitted, confirmed, expired, inbox, outbox, up, waiting,
                          working, left, calling, adapter>>

\* The Robot takes and reports contracts, and the Field's tables stay true.
LEMMA RobotKeeps ==
    ASSUME FieldInv, FieldStill, taken \subseteq taken', reports \subseteq reports',
           \A i \in taken' : i \in taken \/ Row("contract", Intent(i)) \in outbox,
           \A m \in reports' : m \in reports \/ m[2] \in taken',
           TypeOK', ReportsTrue'
    PROVE  FieldInv'
<1>1. IsFiniteSet(outbox') /\ ClaimedInCall'
  BY DEF FieldInv, FieldStill, ClaimedInCall
<1>2. OriginsFirst'
  BY DEF FieldInv, FieldStill, OriginsFirst, Arrived, Operation
<1>3. RowsBacked' /\ ReconciledByInbox' /\ OneDecision'
  BY DEF FieldInv, FieldStill, RowsBacked, ReconciledByInbox, OneDecision, Operation,
         Selectable, Decides
<1> QED BY <1>1, <1>2, <1>3 DEF FieldInv

\* There are no rivals: the Field sends one contract of an operation.
LEMMA TakeKeeps ==
    ASSUME FieldInv, NEW r \in outbox, TakeContract(r)
    PROVE  FieldInv'
<1> DEFINE i == r.cause[2]
<1>1. TypeOK /\ Tables /\ ReportsTrue /\ r.cause \in Messages /\ r.type = "contract"
  BY Origins DEF FieldInv, Tables, TakeContract
<1>2. i \in Intents /\ r.cause = Intent(i)
  BY <1>1, MessageParts DEF Tables, RowsBacked
<1>3. r = Row("contract", Intent(i))
  BY <1>1, <1>2, RowIs
<1>4. ASSUME NEW j \in taken, submitted[j] = submitted[i]
      PROVE  FALSE
  <2>1. j \in Intents /\ Row("contract", Intent(j)) \in outbox
    BY <1>1 DEF TypeOK, Tables, OriginsFirst
  <2>2. Row("contract", Intent(j)) = r
    <3>1. PICK q \in outbox : q = Row("contract", Intent(j))
      BY <2>1
    <3>2. q.type = "contract" /\ q.cause = Intent(j)
      BY <3>1 DEF Row
    <3>3. Operation(q.cause) = Operation(r.cause)
      BY <1>2, <1>4, <2>1, <3>2, IntentParts DEF Operation
    <3> QED BY <1>1, <3>1, <3>2, <3>3 DEF Tables, OneDecision, Decides
  <2>3. Intent(j) = r.cause
    BY <2>2 DEF Row
  <2>4. j = i
    BY <1>2, <2>1, <2>3, IntentParts
  <2> QED BY <2>4 DEF TakeContract
<1>5. /\ taken' = taken \cup {i} /\ reports' = reports
      /\ UNCHANGED <<phase, effects, account, faults>> /\ FieldStill
  BY <1>4 DEF TakeContract, field, FieldStill, mission, call
<1>6. TypeOK'
  BY <1>1, <1>2, <1>5 DEF TypeOK, FieldStill
<1>7. ReportsTrue'
  BY <1>1, <1>5 DEF ReportsTrue, FieldStill, Operation
<1> QED BY <1>3, <1>5, <1>6, <1>7, RobotKeeps

\* A step on an operation keeps the account, if its reports are of that operation.
LEMMA ServiceKeeps ==
    ASSUME FieldInv, NEW i \in Intents, i \in taken, FieldStill, taken' = taken,
           NEW kind \in {"state", "SUCCEEDED", "HELD"}, NEW n \in {0, 1},
           kind = "state" => n = 0,
           reports' = reports \/ reports' = reports \cup {<<kind, i, n>>},
           TypeOK', ReportsTrue'
    PROVE  FieldInv'
<1>1. ASSUME NEW m \in reports'
      PROVE  m \in reports \/ m[2] \in taken'
  BY ReportParts
<1>2. taken \subseteq taken' /\ reports \subseteq reports'
  OBVIOUS
<1>3. \A j \in taken' : j \in taken
  OBVIOUS
<1> QED BY <1>1, <1>2, <1>3, RobotKeeps

\* Reports are of their type.
LEMMA ReportType ==
    ASSUME FieldInv, NEW i \in Intents, NEW kind \in {"state", "SUCCEEDED", "HELD"},
           NEW n \in {0, 1}, kind = "state" => n = 0
    PROVE  reports \cup {<<kind, i, n>>} \subseteq RobotMessages
<1>1. reports \subseteq RobotMessages
  BY DEF FieldInv, TypeOK
<1>2. <<kind, i, n>> \in RobotMessages
  BY ReportParts
<1> QED BY <1>1, <1>2

LEMMA CommitKeeps ==
    ASSUME FieldInv, NEW i \in Intents, RobotCommits(i)
    PROVE  FieldInv'
<1> DEFINE o == submitted[i]
<1>1. /\ i \in taken /\ FieldStill /\ taken' = taken /\ reports' = reports
      /\ phase[o] = "open" /\ phase' = [phase EXCEPT ![o] = "committed"]
      /\ UNCHANGED <<effects, account, faults>>
  BY DEF RobotCommits, InService, Robot!Commit, field, FieldStill, mission, call
<1>2. TypeOK /\ Tables /\ ReportsTrue /\ o \in Operations
  BY <1>1, Origins DEF FieldInv, Tables
<1>3. TypeOK'
  BY <1>1, <1>2 DEF TypeOK, FieldStill
<1>4. ReportsTrue'
  BY <1>1, <1>2, Origins DEF ReportsTrue, FieldStill, Operation, TypeOK, Robot!Accounts
<1> QED BY <1>1, <1>3, <1>4, ServiceKeeps

LEMMA RefuseKeeps ==
    ASSUME FieldInv, NEW i \in Intents, RobotRefuses(i)
    PROVE  FieldInv'
<1> DEFINE o == submitted[i]
<1>1. /\ i \in taken /\ FieldStill /\ taken' = taken
      /\ reports' = reports \cup {<<"HELD", i, 0>>}
      /\ phase[o] = "open" /\ phase' = [phase EXCEPT ![o] = "refused"]
      /\ UNCHANGED <<effects, account, faults>>
  BY DEF RobotRefuses, InService, Robot!Refuse, Report, field, FieldStill, mission, call
<1>2. TypeOK /\ Tables /\ ReportsTrue /\ o \in Operations
  BY <1>1, Origins DEF FieldInv, Tables
<1>3. TypeOK'
  <2>1. reports' \subseteq RobotMessages
    BY <1>1, ReportType
  <2> QED BY <1>1, <1>2, <2>1 DEF FieldInv, TypeOK, FieldStill
<1>4. ReportsTrue'
  <2>1. \A p \in Operations : phase'[p] = IF p = o THEN "refused" ELSE phase[p]
    BY <1>1, <1>2 DEF TypeOK
  <2>2. submitted' = submitted /\ o = Operation(<<"HELD", i, 0>>)
    BY <1>1 DEF FieldStill, Operation
  <2>3. account[o] = "none"
    BY <1>1, <1>2 DEF ReportsTrue
  <2>4. \A m \in reports : Operation(m) \in Operations
    BY <1>2, Origins
  <2> QED BY <1>1, <1>2, <2>1, <2>2, <2>3, <2>4 DEF ReportsTrue, Operation
<1> QED BY <1>1, <1>3, <1>4, ServiceKeeps

LEMMA ActKeeps ==
    ASSUME FieldInv, NEW i \in Intents, RobotActs(i)
    PROVE  FieldInv'
<1> DEFINE o == submitted[i]
<1>1. /\ i \in taken /\ FieldStill /\ taken' = taken /\ reports' = reports
      /\ phase[o] = "committed" /\ effects' = [effects EXCEPT ![o] = 1]
      /\ UNCHANGED <<phase, account, faults>>
  BY DEF RobotActs, InService, Robot!Act, field, FieldStill, mission, call
<1>2. TypeOK /\ Tables /\ ReportsTrue /\ o \in Operations
  BY <1>1, Origins DEF FieldInv, Tables
<1>3. TypeOK'
  BY <1>1, <1>2 DEF TypeOK, FieldStill
<1>4. ReportsTrue'
  BY <1>1, <1>2, Origins DEF ReportsTrue, FieldStill, Operation, TypeOK, Robot!Accounts
<1> QED BY <1>1, <1>3, <1>4, ServiceKeeps

\* What is reported of an ending is its account.
LEMMA EndKeeps ==
    ASSUME FieldInv, NEW i \in Intents, RobotEnds(i)
    PROVE  FieldInv'
<1> DEFINE o == submitted[i]
<1>1. /\ i \in taken /\ FieldStill /\ taken' = taken
      /\ phase[o] = "committed" /\ phase' = [phase EXCEPT ![o] = "ended"]
      /\ UNCHANGED <<effects, faults>>
  BY DEF RobotEnds, InService, Robot!End, field, FieldStill, mission, call
<1>2. TypeOK /\ Tables /\ ReportsTrue /\ o \in Operations
  BY <1>1, Origins DEF FieldInv, Tables
<1>3. PICK a \in Robot!Accounts(effects[o]) : account' = [account EXCEPT ![o] = a]
  BY DEF RobotEnds, Robot!End
<1>4. account'[o] = a /\ a \in {"DONE", "NOT_DONE", "UNKNOWN"}
  BY <1>2, <1>3 DEF TypeOK, Robot!Accounts
<1>5. PICK kind \in {"SUCCEEDED", "HELD"} :
          /\ kind = IF a = "DONE" THEN "SUCCEEDED" ELSE "HELD"
          /\ reports' = reports \cup {<<kind, i, 0>>}
  BY <1>4 DEF RobotEnds, Report
<1>6. TypeOK'
  <2>1. reports' \subseteq RobotMessages
    BY <1>5, ReportType
  <2> QED BY <1>1, <1>2, <1>3, <1>4, <1>5, <2>1 DEF FieldInv, TypeOK, FieldStill
<1>7. ReportsTrue'
  <2>1. ASSUME NEW p \in Operations
        PROVE  /\ effects'[p] \in {0, 1}
               /\ phase'[p] \in {"open", "refused"} => effects'[p] = 0
               /\ IF phase'[p] = "ended" THEN account'[p] \in Robot!Accounts(effects'[p])
                  ELSE account'[p] = "none"
               /\ phase'[p] # "open" => \E j \in taken' : submitted'[j] = p
    BY <1>1, <1>2, <1>3, <1>4 DEF ReportsTrue, FieldStill, TypeOK
  <2>2. ASSUME NEW m \in reports'
        PROVE  /\ m[1] = "SUCCEEDED" => account'[submitted'[m[2]]] = "DONE"
               /\ m[1] = "HELD" => /\ phase'[submitted'[m[2]]] \in {"refused", "ended"}
                                   /\ account'[submitted'[m[2]]] # "DONE"
    <3>1. CASE m \in reports
      <4>1. Operation(m) \in Operations /\ Operation(m) = submitted'[m[2]]
        BY <1>1, <1>2, <3>1, Origins DEF FieldStill, Operation
      <4>2. m[1] \in {"SUCCEEDED", "HELD"} => Operation(m) # o
        BY <1>1, <1>2, <3>1, <4>1 DEF ReportsTrue
      <4> QED BY <1>1, <1>2, <1>3, <3>1, <4>1, <4>2 DEF ReportsTrue, TypeOK
    <3>2. CASE m = <<kind, i, 0>>
      BY <1>1, <1>2, <1>4, <1>5, <3>2 DEF FieldStill, TypeOK
    <3> QED BY <1>5, <3>1, <3>2
  <2> QED BY <2>1, <2>2 DEF ReportsTrue, Operation, Robot!Accounts
<1> QED BY <1>1, <1>5, <1>6, <1>7, ServiceKeeps

LEMMA TelemetryKeeps ==
    ASSUME FieldInv, NEW i \in Intents, RobotTelemetry(i)
    PROVE  FieldInv'
<1>1. /\ i \in taken /\ FieldStill /\ taken' = taken
      /\ reports' = reports \cup {<<"state", i, 0>>}
      /\ UNCHANGED <<phase, effects, account, faults>>
  BY DEF RobotTelemetry, InService, Report, field, FieldStill, mission, call
<1>2. TypeOK'
  <2>1. reports' \subseteq RobotMessages
    BY <1>1, ReportType
  <2> QED BY <1>1, <2>1 DEF FieldInv, TypeOK, FieldStill
<1>3. ReportsTrue'
  BY <1>1, ReportParts DEF FieldInv, ReportsTrue, FieldStill, Operation
<1> QED BY <1>1, <1>2, <1>3, ServiceKeeps

LEMMA DummyKeeps ==
    ASSUME FieldInv, NEW i \in Intents, DummyEnds(i)
    PROVE  FieldInv'
<1> DEFINE o == submitted[i]
<1>1. /\ i \in taken /\ FieldStill /\ taken' = taken
      /\ reports' = reports \cup {<<"SUCCEEDED", i, 0>>}
      /\ phase[o] = "committed" /\ phase' = [phase EXCEPT ![o] = "ended"]
      /\ effects' = [effects EXCEPT ![o] = 1]
      /\ account' = [account EXCEPT ![o] = "DONE"]
      /\ UNCHANGED faults
  BY DEF DummyEnds, InService, Robot!ActAndEnd, Report, field, FieldStill, mission, call
<1>2. TypeOK /\ Tables /\ ReportsTrue /\ o \in Operations
  BY <1>1, Origins DEF FieldInv, Tables
<1>3. TypeOK'
  <2>1. reports' \subseteq RobotMessages
    BY <1>1, ReportType
  <2> QED BY <1>1, <1>2, <2>1 DEF FieldInv, TypeOK, FieldStill
<1>4. ReportsTrue'
  <2>1. ASSUME NEW p \in Operations
        PROVE  /\ effects'[p] \in {0, 1}
               /\ phase'[p] \in {"open", "refused"} => effects'[p] = 0
               /\ IF phase'[p] = "ended" THEN account'[p] \in Robot!Accounts(effects'[p])
                  ELSE account'[p] = "none"
               /\ phase'[p] # "open" => \E j \in taken' : submitted'[j] = p
    BY <1>1, <1>2 DEF ReportsTrue, FieldStill, TypeOK, Robot!Accounts
  <2>2. ASSUME NEW m \in reports'
        PROVE  /\ m[1] = "SUCCEEDED" => account'[submitted'[m[2]]] = "DONE"
               /\ m[1] = "HELD" => /\ phase'[submitted'[m[2]]] \in {"refused", "ended"}
                                   /\ account'[submitted'[m[2]]] # "DONE"
    <3>1. CASE m \in reports
      <4>1. Operation(m) \in Operations /\ Operation(m) = submitted'[m[2]]
        BY <1>1, <1>2, <3>1, Origins DEF FieldStill, Operation
      <4>2. m[1] \in {"SUCCEEDED", "HELD"} => Operation(m) # o
        BY <1>1, <1>2, <3>1, <4>1 DEF ReportsTrue
      <4> QED BY <1>1, <1>2, <3>1, <4>1, <4>2 DEF ReportsTrue, TypeOK
    <3>2. CASE m = <<"SUCCEEDED", i, 0>>
      BY <1>1, <1>2, <3>2 DEF FieldStill, TypeOK
    <3> QED BY <1>1, <3>1, <3>2
  <2> QED BY <2>1, <2>2 DEF ReportsTrue, Operation, Robot!Accounts
<1> QED BY <1>1, <1>3, <1>4, ServiceKeeps

\* A replay says again what was said.
LEMMA ReplayKeeps ==
    ASSUME FieldInv, NEW i \in Intents, NEW kind \in {"SUCCEEDED", "HELD"},
           RobotReplays(i, kind)
    PROVE  FieldInv'
<1>1. /\ <<kind, i, 0>> \in reports /\ FieldStill /\ taken' = taken
      /\ reports' = reports \cup {<<kind, i, 1>>}
      /\ UNCHANGED <<phase, effects, account>> /\ faults' \in 0..MaxFaults
  BY FieldAssumption
     DEF FieldAssumption, FieldInv, TypeOK, RobotReplays, Fault, FieldStill, mission, call
<1>2. i \in taken
  BY <1>1, ReportParts DEF FieldInv, OriginsFirst
<1>3. TypeOK'
  <2>1. reports' \subseteq RobotMessages
    BY <1>1, ReportType
  <2> QED BY <1>1, <2>1 DEF FieldInv, TypeOK, FieldStill
<1>4. ReportsTrue'
  BY <1>1, ReportParts DEF FieldInv, ReportsTrue, FieldStill, Operation
<1> QED BY <1>1, <1>2, <1>3, <1>4, ServiceKeeps

-----------------------------------------------------------------------------
(* The invariant.                                                          *)

LEMMA FieldInit == Init => FieldInv
<1> SUFFICES ASSUME Init PROVE FieldInv
  OBVIOUS
<1>1. TypeOK
  <2>1. 0 \in 0..2 * Cardinality(Messages) /\ 0 \in 0..MaxFaults
    BY MessagesFinite, FieldAssumption DEF FieldAssumption
  <2> QED BY <2>1 DEF Init, TypeOK, InboxState, Links
<1>2. IsFiniteSet(outbox)
  BY FS_EmptySet DEF Init
<1> QED BY <1>1, <1>2
        DEF Init, FieldInv, ClaimedInCall, OriginsFirst, RowsBacked, ReconciledByInbox,
            OneDecision, ReportsTrue, Messages

LEMMA FieldPreserved == FieldInv /\ [Next]_vars => FieldInv'
<1> SUFFICES ASSUME FieldInv, [Next]_vars PROVE FieldInv'
  OBVIOUS
<1>1. CASE UNCHANGED vars
  <2>1. FieldStill /\ UNCHANGED <<taken, reports, phase, effects, account, faults, waiting>>
    BY <1>1 DEF vars, mission, call, robot, FieldStill
  <2>2. TypeOK' /\ ReportsTrue'
    BY <2>1 DEF FieldInv, TypeOK, ReportsTrue, FieldStill, Operation
  <2> QED BY <2>1, <2>2, RobotKeeps
<1>2. CASE Next
  <2>1. CASE \/ \E i \in Intents : Expire(i) \/ \E o \in Operations : Submit(i, o)
             \/ \E r \in outbox : Confirm(r)
    BY <2>1, MissionKeeps
  <2>2. CASE \/ \E m \in Messages : ReceiveFrame(m) \/ ClaimNext(m)
             \/ \E l \in Links : AckFails(l) \/ Handle(l)
             \/ Return \/ Crash \/ Restart
    BY <2>2, CallKeeps
  <2>3. CASE DuplicateOperation \/ HoldOperation \/ AdmitOperation \/ ForwardRobotMessage
    BY <2>3, IntentKeeps, ForwardKeeps
  <2>4. CASE RobotStep
    BY <2>4, TakeKeeps, CommitKeeps, RefuseKeeps, ActKeeps, EndKeeps, TelemetryKeeps,
       DummyKeeps, ReplayKeeps
       DEF RobotStep
  <2> QED BY <1>2, <2>1, <2>2, <2>3, <2>4 DEF Next, FieldStep
<1> QED BY <1>1, <1>2

\* The invariant holds in every reachable state of every instance.
THEOREM FieldInvariant == Spec => []FieldInv
BY FieldInit, FieldPreserved, PTL DEF Spec

\* Every table stays within its type, and no call claims more rows than it may.
THEOREM FieldTypeCorrect == Spec => []TypeOK
<1>1. FieldInv => TypeOK
  BY DEF FieldInv
<1> QED BY <1>1, FieldInvariant, PTL

\* A set with one possible member has at most one.
LEMMA AtMostOne ==
    ASSUME NEW S, \A x, y \in S : x = y
    PROVE  IsFiniteSet(S) /\ Cardinality(S) \in {0, 1} /\ (Cardinality(S) = 0 <=> S = {})
<1>1. CASE S = {}
  BY <1>1, FS_EmptySet
<1>2. CASE S # {}
  <2>1. PICK x : S = {x}
    BY <1>2
  <2>2. IsFiniteSet({x}) /\ Cardinality({x}) = 1
    BY FS_Singleton
  <2> QED BY <1>2, <2>1, <2>2
<1> QED BY <1>1, <1>2

\* An operation is decided once, however often its intent is repeated and
\* whenever the Field dies.
THEOREM OneDecisionEver == Spec => []OneDecisionPerOperation
<1>1. FieldInv => OneDecisionPerOperation
  <2> SUFFICES ASSUME FieldInv, NEW o \in Operations
               PROVE  Cardinality({r \in outbox :
                                      /\ r.type \in {"contract", "held contract"}
                                      /\ Operation(r.cause) = o}) <= 1
    BY DEF OneDecisionPerOperation
  <2> DEFINE S == {r \in outbox : /\ r.type \in {"contract", "held contract"}
                                  /\ Operation(r.cause) = o}
  <2>1. \A x, y \in S : x = y
    BY DEF FieldInv, OneDecision, Decides
  <2> HIDE DEF S
  <2>2. Cardinality(S) \in {0, 1}
    BY <2>1, AtMostOne
  <2>3. Cardinality(S) <= 1
    BY <2>2
  <2> QED BY <2>3 DEF S
<1> QED BY <1>1, FieldInvariant, PTL

\* A report is forwarded exactly when it is processed, and once.
THEOREM ForwardedOnceEver == Spec => []ForwardedOnce
<1>1. FieldInv => ForwardedOnce
  <2> SUFFICES ASSUME FieldInv, NEW m \in RobotMessages
               PROVE  Cardinality({r \in outbox : r.type = "forward" /\ r.cause = m})
                         = IF inbox[m] = "PROCESSED" THEN 1 ELSE 0
    BY DEF ForwardedOnce
  <2> DEFINE S == {r \in outbox : r.type = "forward" /\ r.cause = m}
  <2>1. TypeOK /\ Tables
    BY DEF FieldInv, Tables
  <2>2. \A x \in S : x = Row("forward", m) /\ inbox[m] = "PROCESSED"
    BY <2>1, RowIs DEF Tables, RowsBacked
  <2>3. inbox[m] = "PROCESSED" => Row("forward", m) \in S
    BY <2>1 DEF Tables, RowsBacked, Row
  <2> HIDE DEF S
  <2>4. \A x, y \in S : x = y
    BY <2>2
  <2>5. Cardinality(S) \in {0, 1} /\ (Cardinality(S) = 0 <=> S = {})
    BY <2>4, AtMostOne
  <2>6. Cardinality(S) = IF inbox[m] = "PROCESSED" THEN 1 ELSE 0
    BY <2>2, <2>3, <2>5
  <2> QED BY <2>6 DEF S
<1> QED BY <1>1, FieldInvariant, PTL

\* A report that succeeded is of an effect.
LEMMA SuccessIsEffect ==
    ASSUME FieldInv, NEW m \in reports, m[1] = "SUCCEEDED"
    PROVE  effects[Operation(m)] = 1
<1>1. Operation(m) \in Operations
  BY Origins DEF FieldInv, Tables
<1>2. account[Operation(m)] = "DONE"
  BY DEF FieldInv, ReportsTrue
<1> QED BY <1>1, <1>2 DEF FieldInv, ReportsTrue, Robot!Accounts

\* A reconciled snapshot stands for an effect, and for what was measured of it.
THEOREM SnapshotsAreBacked == Spec => []ReconciledByEvidence
<1>1. FieldInv => ReconciledByEvidence
  <2> SUFFICES ASSUME FieldInv, NEW r \in outbox, r.type = "reconciled"
               PROVE  /\ effects[Operation(r.cause)] = 1
                      /\ IF r.evidence = NoMessage THEN Fixture
                         ELSE Operation(r.evidence) = Operation(r.cause)
    BY DEF ReconciledByEvidence
  <2>1. r.cause \in Messages /\ r.cause[1] = "SUCCEEDED" /\ inbox[r.cause] # "ABSENT"
    BY Origins DEF FieldInv, Tables, ReconciledByInbox, RowsBacked
  <2>2. r.cause \in reports
    BY <2>1 DEF FieldInv, OriginsFirst, Arrived
  <2> QED BY <2>1, <2>2, SuccessIsEffect DEF FieldInv, ReconciledByInbox
<1> QED BY <1>1, FieldInvariant, PTL
-----------------------------------------------------------------------------
(* What Mission shows.                                                     *)

\* The rows a terminal state can come from, and what the Robot's account says.
LEMMA TerminalIs ==
    ASSUME FieldInv, NEW o \in Operations, NEW t \in Terminals(o)
    PROVE  /\ t \in {"SUCCEEDED", "HELD"}
           /\ t = "SUCCEEDED" => effects[o] = 1 /\ account[o] = "DONE"
           /\ t = "HELD" => /\ account[o] # "DONE"
                            /\ account[o] = "none" => effects[o] = 0
<1>1. PICK r \in confirmed : /\ r.type \in {"held", "forward"}
                             /\ Operation(r.cause) = o /\ t = TerminalOf(r)
  BY DEF Terminals
<1>2. /\ TypeOK /\ Tables /\ ReportsTrue /\ r \in outbox /\ r.cause \in Messages
      /\ inbox[r.cause] = "PROCESSED"
  BY Origins DEF FieldInv, Tables, TypeOK, RowsBacked
<1>3. CASE r.type = "forward"
  <2>1. r.cause[1] \in {"SUCCEEDED", "HELD"} /\ t = r.cause[1]
    BY <1>1, <1>2, <1>3 DEF Tables, RowsBacked, Selectable, TerminalOf
  <2>2. r.cause \in reports
    BY <1>2, <2>1 DEF Tables, OriginsFirst, Arrived
  <2>3. CASE t = "SUCCEEDED"
    BY <1>1, <1>2, <2>1, <2>2, <2>3, SuccessIsEffect DEF ReportsTrue
  <2>4. CASE t = "HELD"
    BY <1>1, <1>2, <2>1, <2>2, <2>4 DEF ReportsTrue, Robot!Accounts
  <2> QED BY <2>1, <2>3, <2>4
<1>4. CASE r.type = "held"
  <2>1. PICK q \in outbox : q = Row("held contract", r.cause)
    BY <1>2, <1>4 DEF Tables, RowsBacked
  <2>2. q.type = "held contract" /\ q.cause = r.cause
    BY <2>1 DEF Row
  <2>3. ASSUME NEW i \in taken, submitted[i] = o
        PROVE  FALSE
    <3>1. i \in Intents /\ Row("contract", Intent(i)) \in outbox
      BY <1>2 DEF TypeOK, Tables, OriginsFirst
    <3>2. PICK p \in outbox : p = Row("contract", Intent(i))
      BY <3>1
    <3>3. p.type = "contract" /\ Operation(p.cause) = o
      BY <2>3, <3>1, <3>2, IntentParts DEF Row, Operation
    <3>4. p = q
      BY <1>1, <1>2, <2>2, <3>3 DEF Tables, OneDecision, Decides
    <3> QED BY <2>2, <3>3, <3>4
  <2>4. phase[o] = "open" /\ t = "HELD"
    BY <1>1, <1>2, <1>4, <2>3 DEF ReportsTrue, TerminalOf
  <2> QED BY <1>2, <2>4 DEF ReportsTrue
<1> QED BY <1>1, <1>3, <1>4

\* Hence no two terminal states of an operation contradict each other.
LEMMA TerminalsAgree ==
    ASSUME FieldInv, NEW o \in Operations
    PROVE  /\ IsFiniteSet(Terminals(o))
           /\ ShownTerminal(o) # "none" <=> Terminals(o) # {}
           /\ \A t \in Terminals(o) : ShownTerminal(o) = t
<1>1. \A t, u \in Terminals(o) : t = u
  BY TerminalIs
<1>2. Cardinality(Terminals(o)) \in {0, 1}
      /\ (Cardinality(Terminals(o)) = 0 <=> Terminals(o) = {})
      /\ IsFiniteSet(Terminals(o))
  BY <1>1, AtMostOne
<1>3. CASE Terminals(o) = {}
  BY <1>2, <1>3 DEF ShownTerminal
<1>4. CASE Terminals(o) # {}
  <2>1. ShownTerminal(o) = CHOOSE t \in Terminals(o) : TRUE
    BY <1>2, <1>4 DEF ShownTerminal
  <2>2. ShownTerminal(o) \in Terminals(o)
    BY <1>4, <2>1
  <2>3. ShownTerminal(o) # "none"
    BY <2>2, TerminalIs
  <2> QED BY <1>1, <1>2, <1>4, <2>2, <2>3
<1> QED BY <1>3, <1>4

\* SUCCEEDED is shown only after the effect, HELD never of what was done.
THEOREM ShownIsTrue == Spec => []ShownTerminalIsTrue
<1>1. FieldInv => ShownTerminalIsTrue
  <2> SUFFICES ASSUME FieldInv, NEW o \in Operations
               PROVE  /\ ShownTerminal(o) = "SUCCEEDED" => effects[o] = 1
                      /\ ShownTerminal(o) = "HELD" =>
                            /\ account[o] # "DONE"
                            /\ account[o] = "none" => effects[o] = 0
    BY DEF ShownTerminalIsTrue
  <2>1. CASE Terminals(o) = {}
    BY <2>1, TerminalsAgree
  <2>2. CASE Terminals(o) # {}
    <3>1. PICK t \in Terminals(o) : ShownTerminal(o) = t
      BY <2>2, TerminalsAgree
    <3> QED BY <3>1, TerminalIs
  <2> QED BY <2>1, <2>2
<1> QED BY <1>1, FieldInvariant, PTL

\* Mission's rows and their operations stay.
LEMMA ConfirmedStay ==
    ASSUME FieldInv, [Next]_vars, NEW r \in confirmed
    PROVE  r \in confirmed' /\ Operation(r.cause)' = Operation(r.cause)
<1>1. r.cause \in Messages /\ r.cause[2] \in Intents
      /\ Operation(r.cause) \in Operations
      /\ NoOperation \notin Operations
  BY FieldAssumption, Origins, MessageParts DEF FieldAssumption, FieldInv, Tables, TypeOK
<1>2. CASE \E i \in Intents, o \in Operations : Submit(i, o)
  BY <1>1, <1>2 DEF Submit, Operation, FieldInv, TypeOK
<1>3. CASE \E q \in outbox : Confirm(q)
  BY <1>3 DEF Confirm, Operation
<1>4. CASE UNCHANGED <<submitted, confirmed>>
  BY <1>4 DEF Operation
<1> QED BY <1>2, <1>3, <1>4
        DEF Next, vars, mission, Expire, ReceiveFrame, AckFails, Crash, Restart, FieldStep,
            Handle, ClaimNext, Return, DuplicateOperation, HoldOperation, AdmitOperation,
            ForwardRobotMessage, Finish, RobotStep, TakeContract, RobotCommits,
            RobotRefuses, RobotActs, RobotEnds, RobotTelemetry, DummyEnds, RobotReplays,
            field

\* The shown terminal state of an operation is the only one it has.
Agreed == \A o \in Operations : \A t \in Terminals(o) : ShownTerminal(o) = t

\* A terminal state, once shown, is never replaced or hidden.
THEOREM ShownStays == Spec => ShownTerminalStable
<1>1. FieldInv => Agreed
  BY TerminalsAgree DEF Agreed
<1>2. ASSUME FieldInv, Agreed', [Next]_vars, NEW o \in Operations,
             ShownTerminal(o) # "none"
      PROVE  ShownTerminal(o)' = ShownTerminal(o)
  <2>1. PICK t \in Terminals(o) : ShownTerminal(o) = t
    BY <1>2, TerminalsAgree
  <2>2. t \in Terminals(o)'
    BY <1>2, ConfirmedStay DEF Terminals, TerminalOf
  <2> QED BY <1>2, <2>1, <2>2 DEF Agreed
<1>3. FieldInv /\ Agreed' /\ [Next]_vars =>
         [\A o \in Operations : ShownTerminal(o) # "none" =>
             ShownTerminal(o)' = ShownTerminal(o)]_vars
  BY <1>2
<1> QED BY <1>1, <1>3, FieldInvariant, PTL DEF Spec, ShownTerminalStable

\* The snapshot shown never falls back to an older revision.
THEOREM RevisionGrows == Spec => ShownRevisionGrows
<1>1. ASSUME FieldInv, [Next]_vars, NEW o \in Operations
      PROVE  ShownRevision(o)' >= ShownRevision(o)
  <2>1. \A r \in Snapshots(o) : r \in Snapshots(o)'
    BY <1>1, ConfirmedStay DEF Snapshots
  <2> QED BY <2>1 DEF ShownRevision, Revision
<1>2. FieldInv /\ [Next]_vars =>
         [\A o \in Operations : ShownRevision(o)' >= ShownRevision(o)]_vars
  BY <1>1
<1> QED BY <1>2, FieldInvariant, PTL DEF Spec, ShownRevisionGrows
=============================================================================
