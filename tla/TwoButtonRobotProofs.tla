------------------------ MODULE TwoButtonRobotProofs ------------------------
(***************************************************************************)
(* What the Robot of the two-button slice presses, reports and refuses,    *)
(* for any operations, contexts, deliveries, worlds and faults: AimInv of  *)
(* TwoButtonRobot is inductive, the properties of that module follow from  *)
(* it, and the Robot implements SingleShot.                                *)
(***************************************************************************)
EXTENDS TwoButtonRobot, FiniteSetTheorems, SequenceTheorems, WellFoundedInduction, TLAPS

-----------------------------------------------------------------------------
(* The policy.                                                             *)

\* A set of which one knows that it has one member.
LEMMA TheOne ==
    ASSUME NEW S, IsFiniteSet(S), Cardinality(S) = 1
    PROVE  The(S) \in S /\ \A x \in S : x = The(S)
<1>1. PICK y : S = {y}
  BY FS_Singleton
<1> QED BY <1>1 DEF The

\* Whatever is executed was seen: the reference is the intent's own, and the one
\* unmistakable sight of the target is where the derived command strikes.
LEMMA ExecuteIsJustified ==
    ASSUME NEW intent, NEW reference, NEW current, NEW level, NEW expected,
           IsFiniteSet(reference.detections), IsFiniteSet(current.detections),
           \A d \in reference.detections \cup current.detections : d.pos \in Nat,
           reference.id # "none", current.id # "none",
           intent.max_displacement \in Nat,
           NEW action, action = Decide(intent, reference, current, level, expected),
           action \in Executes
    PROVE  LET command == DeriveCommand(intent, reference, current, action)
               shown == {d \in current.detections : intent.target \in d.candidates}
           IN  /\ reference = intent.digest
               /\ level.device = expected
               /\ current.source = reference.source
               /\ \A d \in shown : /\ d.candidates = {intent.target} /\ d.visible
                                  /\ d.pos = command.pos
               /\ \E d \in shown : \E r \in reference.detections :
                     /\ r.id = intent.detection /\ r.candidates = {intent.target}
                     /\ d.pos - r.pos \in -intent.max_displacement..intent.max_displacement
               /\ command.frame = current.frame /\ current.frame = reference.frame
               /\ command.frame = intent.frame
               /\ command # NoCommand /\ command.pos \in Nat
               /\ \E d \in UniqueMatch(current, intent.target) : d.pos = command.pos
<1> DEFINE named == Named(reference, intent.detection)
           unique == UniqueMatch(current, intent.target)
           shown == {d \in current.detections : intent.target \in d.candidates}
           r == The(named)
           d == The(unique)
           command == DeriveCommand(intent, reference, current, action)
<1>1. action \notin Holds /\ action # "RECOGNIZE_EFFECT"
  BY DEF Executes, Holds
<1>2. /\ VerifyReference(intent, reference) = "VALID"
      /\ InContext(intent, reference, current)
      /\ level.device = expected
      /\ unique # {}
      /\ WithinTolerance(intent, Distance(r.pos, d.pos))
      /\ action = IF Distance(r.pos, d.pos) = 0 THEN "EXECUTE" ELSE "REANCHOR_EXECUTE"
  <2>1. VerifyReference(intent, reference) \in Holds \cup {"VALID"}
    BY DEF VerifyReference, Holds
  <2>2. VerifyReference(intent, reference) = "VALID"
    BY <1>1, <2>1 DEF Decide
  <2> QED BY <1>1, <2>2 DEF Decide, Holds
<1>3. /\ reference = intent.digest /\ reference.frame = intent.frame
      /\ Cardinality(named) = 1 /\ r.candidates = {intent.target}
  BY <1>2 DEF VerifyReference
<1>4. r \in reference.detections /\ r.id = intent.detection /\ r.pos \in Nat
  <2>1. IsFiniteSet(named)
    BY FS_Subset DEF Named
  <2>2. r \in named
    BY <1>3, <2>1, TheOne
  <2> QED BY <2>2 DEF Named
<1>5. /\ Cardinality(shown) = 1
      /\ unique = {e \in shown : e.candidates = {intent.target} /\ e.visible}
  BY <1>2 DEF UniqueMatch
<1>6. /\ d \in shown /\ d \in unique /\ d.pos \in Nat
      /\ \A e \in shown : e = d
      /\ d.candidates = {intent.target} /\ d.visible
  <2>1. IsFiniteSet(shown)
    BY FS_Subset
  <2>2. PICK e : shown = {e}
    BY <1>5, <2>1, FS_Singleton
  <2>3. unique = {e}
    BY <1>2, <1>5, <2>2
  <2>4. d = e
    BY <2>3 DEF The
  <2> QED BY <1>5, <2>2, <2>3, <2>4
<1>7. /\ Distance(r.pos, d.pos) <= intent.max_displacement
      /\ d.pos - r.pos \in -intent.max_displacement..intent.max_displacement
      /\ Distance(r.pos, d.pos) = 0 => r.pos = d.pos
  BY <1>2, <1>4, <1>6 DEF WithinTolerance, Distance
<1>8. /\ command.pos = d.pos /\ command # NoCommand
      /\ command.frame = IF action = "EXECUTE" THEN reference.frame ELSE current.frame
  BY <1>2, <1>4, <1>6, <1>7 DEF DeriveCommand, NoCommand
<1>9. current.source = reference.source /\ current.frame = intent.frame
  BY <1>2 DEF InContext
<1> HIDE DEF named, unique, r, d, command, shown
<1>10. \E e \in unique : e.pos = command.pos
  BY <1>6, <1>8
<1>11. \A e \in shown : e.candidates = {intent.target} /\ e.visible /\ e.pos = command.pos
  BY <1>6, <1>8
<1>12. \E e \in shown : \E q \in reference.detections :
          /\ q.id = intent.detection /\ q.candidates = {intent.target}
          /\ e.pos - q.pos \in -intent.max_displacement..intent.max_displacement
  BY <1>3, <1>4, <1>6, <1>7
<1> QED BY <1>2, <1>3, <1>6, <1>8, <1>9, <1>10, <1>11, <1>12
        DEF command, shown, unique
-----------------------------------------------------------------------------
(* Arrivals.                                                               *)

LEMMA Least ==
    ASSUME NEW R, NEW S, IsWellFoundedOn(R, S), NEW T, T \subseteq S, T # {}
    PROVE  \E x \in T : \A y \in T : ~(<<y, x>> \in R)
BY WFMin

LEMMA LeastNumber ==
    ASSUME NEW T, \A n \in T : n \in Nat, T # {}
    PROVE  \E n \in T : \A k \in T : n <= k
<1> DEFINE R == {ss \in Nat \X Nat : ss[1] < ss[2]}
           N == Nat
<1>1. IsWellFoundedOn(R, N) /\ T \subseteq N
  BY NatLessThanWellFounded DEF OpToRel
<1>2. PICK n \in T : \A k \in T : ~(<<k, n>> \in R)
  <2> HIDE DEF R, N
  <2> QED BY <1>1, Least
<1>3. ASSUME NEW k \in T PROVE n <= k
  <2>1. n \in Nat /\ k \in Nat OBVIOUS
  <2>2. <<k, n>> \notin R BY <1>2
  <2> QED BY <2>1, <2>2
<1> QED BY <1>3

LEMMA PersistedFinite ==
    /\ IsFiniteSet(Persisted) /\ Cardinality(Persisted) \in Nat
    /\ Cardinality(Messages) \in Nat /\ Cardinality(Persisted) <= Cardinality(Messages)
BY FS_Subset, FS_CardinalityType, TwoButtonAssumption DEF TwoButtonAssumption, Persisted

\* The candidates of an operation have a first one, whose content is decided on.
LEMMA FirstExists ==
    ASSUME Arrivals, NEW o \in Operations, Candidates(o) # {}
    PROVE  \E m \in Candidates(o) : ContextFor(o) = Content(m) /\ Content(m) \in Given
<1>1. Candidates(o) \subseteq Persisted \cap ContextMessages
  BY DEF Candidates
<1>2. \A m \in Candidates(o) : received_at[m] \in Nat
  BY <1>1, PersistedFinite DEF Arrivals
<1> DEFINE T == {received_at[m] : m \in Candidates(o)}
<1>3. PICK n \in T : \A k \in T : n <= k
  <2>1. (\A n \in T : n \in Nat) /\ T # {}
    BY <1>2
  <2> HIDE DEF T
  <2> QED BY <2>1, LeastNumber
<1>4. \E m \in Candidates(o) : \A k \in Candidates(o) : received_at[m] <= received_at[k]
  BY <1>3
<1> DEFINE first == CHOOSE m \in Candidates(o) :
                       \A k \in Candidates(o) : received_at[m] <= received_at[k]
<1>5. first \in Candidates(o)
  BY <1>4
<1>6. ContextFor(o) = Content(first)
  BY DEF ContextFor
<1>7. Content(first) \in Given
  <2>1. first \in Persisted \cap ContextMessages /\ first[2] \in DOMAIN sent
    BY <1>1, <1>5 DEF Arrivals
  <2>2. sent \in Deliveries /\ Content(first) = sent[first[2]]
    BY DEF Content, Arrivals
  <2> HIDE DEF first
  <2>3. Content(first) \in {sent[x] : x \in DOMAIN sent}
    BY <2>1, <2>2
  <2> QED BY <2>2, <2>3 DEF Given
<1> HIDE DEF first
<1> QED BY <1>5, <1>6, <1>7

\* Nothing that is evidence changes.
EvidenceSame == UNCHANGED <<received_at, sent, Persisted>>

LEMMA EvidenceStays ==
    ASSUME EvidenceSame
    PROVE  /\ Arrivals => Arrivals'
           /\ \A m : Content(m)' = Content(m)
           /\ \A o \in Operations : /\ Candidates(o)' = Candidates(o)
                                    /\ ContextFor(o)' = ContextFor(o)
<1>1. \A m : Content(m)' = Content(m)
  BY DEF EvidenceSame, Content
<1>2. \A o \in Operations : Candidates(o)' = Candidates(o)
  BY <1>1 DEF EvidenceSame, Candidates
<1>3. \A o \in Operations : ContextFor(o)' = ContextFor(o)
  BY <1>2 DEF EvidenceSame, ContextFor, Content
<1>4. Arrivals => Arrivals'
  BY DEF EvidenceSame, Arrivals
<1> QED BY <1>1, <1>2, <1>3, <1>4

LEMMA RefusalStays ==
    ASSUME EvidenceSame, UNCHANGED contexts, NEW o \in Operations,
           Decided(o)' <=> Decided(o)
    PROVE  Refusal(o)' = Refusal(o)
<1>1. /\ ContextFor(o)' = ContextFor(o) /\ Candidates(o)' = Candidates(o)
      /\ \A m : Content(m)' = Content(m)
  BY EvidenceStays
<1>2. Conflict(o)' <=> Conflict(o)
  BY <1>1 DEF Conflict, contexts
<1> QED BY <1>1, <1>2 DEF Refusal

\* A context of the operation's own has arrived.
HasOwn(o) == \E m \in Persisted \cap ContextMessages : Content(m).contract = o

\* What is known of a decided operation does not change with what arrives.
ContextKept(o) ==
    /\ Persisted \subseteq Persisted'
    /\ \A m : Content(m)' = Content(m)
    /\ HasOwn(o) => ContextFor(o)' = ContextFor(o)

LEMMA AimedStays ==
    ASSUME NEW o \in Operations, ContextKept(o)
    PROVE  /\ \A c : Aimed(o, c) => HasOwn(o)
           /\ \A c : Aimed(o, c) => Aimed(o, c)'
<1>1. \A c : Aimed(o, c) => HasOwn(o)
  BY DEF Aimed, HasOwn
<1>2. HasOwn(o) => HasOwn(o)'
  BY DEF ContextKept, HasOwn
<1>3. ASSUME NEW c, Aimed(o, c)
      PROVE  Aimed(o, c)'
  <2>1. ContextFor(o)' = ContextFor(o) /\ HasOwn(o)'
    BY <1>1, <1>2, <1>3 DEF ContextKept
  <2> QED BY <1>3, <2>1 DEF Aimed, Justified, HasOwn
<1> QED BY <1>1, <1>3

LEMMA SameIsKept ==
    ASSUME EvidenceSame, NEW o \in Operations
    PROVE  ContextKept(o)
BY EvidenceStays DEF EvidenceSame, ContextKept

\* A message arrives: it is the last one.
LEMMA EvidenceArrives ==
    ASSUME TypeOK, Arrivals, NEW m \in Messages, ReceiveFrame(m)
    PROVE  /\ Arrivals' /\ received_at' \in [Messages -> 0..Cardinality(Messages)]
           /\ Persisted' = Persisted \cup {m}
           /\ \A o \in Operations : ContextKept(o)
<1> DEFINE n == Cardinality(Persisted)
<1>1. /\ inbox' = [inbox EXCEPT ![m] = "RECEIVED"] /\ inbox[m] = "ABSENT"
      /\ received_at' = [received_at EXCEPT ![m] = n + 1]
      /\ sent' = sent /\ (m \in ContextMessages => m[2] \in DOMAIN sent)
  BY DEF ReceiveFrame, Receive, Persisted
<1>2. Persisted' = Persisted \cup {m} /\ m \notin Persisted
  BY <1>1 DEF Persisted, TypeOK
<1>3. n \in Nat /\ Cardinality(Persisted') = n + 1
  BY <1>2, PersistedFinite, FS_AddElement
<1>4. n + 1 <= Cardinality(Messages) /\ Cardinality(Messages) \in Nat
  <2>1. Persisted' \subseteq Messages
    BY DEF Persisted
  <2>2. Cardinality(Persisted') <= Cardinality(Messages)
    BY <2>1, FS_Subset, TwoButtonAssumption DEF TwoButtonAssumption
  <2> QED BY <1>3, <2>2, PersistedFinite
<1> HIDE DEF n
<1>5. received_at' \in [Messages -> 0..Cardinality(Messages)]
  BY <1>1, <1>3, <1>4 DEF TypeOK
<1>6. /\ received_at'[m] = n + 1
      /\ \A k \in Persisted : received_at'[k] = received_at[k] /\ received_at[k] \in 1..n
  BY <1>1, <1>2 DEF TypeOK, Arrivals, n, Persisted
<1>7. Arrivals'
  <2>1. \A k \in Persisted' : received_at'[k] \in 1..Cardinality(Persisted')
    BY <1>2, <1>3, <1>6
  <2>2. \A k, l \in Persisted' : received_at'[k] = received_at'[l] => k = l
    BY <1>2, <1>3, <1>6 DEF Arrivals
  <2>3. \A k \in Persisted' : k \in ContextMessages => k[2] \in DOMAIN sent
    BY <1>1, <1>2 DEF Arrivals
  <2>4. sent' \in Deliveries
    BY <1>1 DEF Arrivals
  <2> QED BY <1>1, <2>1, <2>2, <2>3, <2>4 DEF Arrivals
<1>8. \A k : Content(k)' = Content(k)
  BY <1>1 DEF Content
<1>9. ASSUME NEW o \in Operations, HasOwn(o)
      PROVE  ContextFor(o)' = ContextFor(o)
  <2>1. /\ Candidates(o) # {} /\ Candidates(o) \subseteq Persisted
        /\ Candidates(o)' = Candidates(o) \/ Candidates(o)' = Candidates(o) \cup {m}
    <3> DEFINE own == {k \in Persisted \cap ContextMessages : Content(k).contract = o}
    <3>1. Candidates(o) = own /\ own # {}
      BY <1>9 DEF HasOwn, Candidates
    <3>2. own' = own \/ own' = own \cup {m}
      BY <1>2, <1>8
    <3>3. Candidates(o)' = own'
      BY <3>1, <3>2 DEF Candidates
    <3> QED BY <3>1, <3>2, <3>3
  <2> DEFINE First(k) == k \in Candidates(o) /\
                         \A l \in Candidates(o) : received_at[k] <= received_at[l]
             Next1(k) == k \in Candidates(o)' /\
                         \A l \in Candidates(o)' : received_at'[k] <= received_at'[l]
  <2>2. \A k : First(k) <=> Next1(k)
    BY <1>2, <1>3, <1>6, <2>1
  <2>3. (CHOOSE k : First(k)) = (CHOOSE k : Next1(k))
    <3> HIDE DEF First, Next1
    <3> QED BY <2>2
  <2>4. /\ ContextFor(o) = Content(CHOOSE k : First(k))
        /\ ContextFor(o)' = sent'[(CHOOSE k : Next1(k))[2]]
    BY DEF ContextFor, Content
  <2> HIDE DEF First, Next1
  <2> QED BY <1>1, <2>3, <2>4 DEF Content
<1> QED BY <1>2, <1>5, <1>7, <1>8, <1>9 DEF ContextKept
-----------------------------------------------------------------------------
(* The invariant, operation by operation.                                  *)

\* The tables have the fields they were created with.
Table(f) == f = [o \in Operations |-> f[o]]

Budgets(f) ==
    f = [o \in Operations |-> [command |-> f[o].command, reserved |-> f[o].reserved,
                               resolution |-> f[o].resolution]]

Decisions(f) ==
    f = [o \in Operations |-> [action |-> f[o].action, command |-> f[o].command]]

TaskShape ==
    task = [msg |-> task.msg, action |-> task.action, command |-> task.command,
            fresh |-> task.fresh]

Shapes ==
    /\ Budgets(budget) /\ Decisions(decision) /\ Table(binding) /\ Table(evidence)
    /\ TaskShape

JournalStates == {"NONE", "ACCEPTED", "DISPATCH_RECORDED"} \cup Terminal
Journals == [Operations -> [state : JournalStates, dispatched : BOOLEAN]]

\* What is written to one row of a table.
Put(f, o, v) == [f EXCEPT ![o] = v]
Recorded(f, o, a, c) == [f EXCEPT ![o] = [action |-> a, command |-> c]]
Moved(f, o, s) == [f EXCEPT ![o].state = s]
BudgetRow(f, o, c, r, s) ==
    [f EXCEPT ![o] = [command |-> c, reserved |-> r, resolution |-> s]]
Resolved(f, o, v) == [f EXCEPT ![o].resolution = v]
Reserved(f, o, v) == [f EXCEPT ![o].reserved = v]
Budgeted(f, o, c) == [f EXCEPT ![o].command = c]

\* The other rows are as they were.
OthersKept(f, g, o) == \A p \in Operations \ {o} : g[p] = f[p]

LEMMA TableWritten ==
    ASSUME NEW f, Table(f), NEW o \in Operations, NEW v
    PROVE  /\ Table(Put(f, o, v)) /\ Put(f, o, v)[o] = v
           /\ OthersKept(f, Put(f, o, v), o)
<1>1. DOMAIN f = Operations
  <2> DEFINE F == [p \in Operations |-> f[p]]
  <2>1. f = F /\ DOMAIN F = Operations
    BY DEF Table
  <2> HIDE DEF F
  <2> QED BY <2>1
<1> QED BY <1>1 DEF Table, Put, OthersKept

LEMMA DecisionWritten ==
    ASSUME NEW f, Decisions(f), NEW o \in Operations, NEW a, NEW c
    PROVE  LET g == Recorded(f, o, a, c)
           IN  /\ Decisions(g) /\ OthersKept(f, g, o)
               /\ g[o].action = a /\ g[o].command = c
<1>1. /\ DOMAIN f = Operations
      /\ \A p \in Operations : f[p] = [action |-> f[p].action, command |-> f[p].command]
  <2> DEFINE F == [p \in Operations |-> [action |-> f[p].action, command |-> f[p].command]]
  <2>1. f = F /\ DOMAIN F = Operations
    BY DEF Decisions
  <2>2. \A p \in Operations : F[p] = [action |-> f[p].action, command |-> f[p].command]
    OBVIOUS
  <2> HIDE DEF F
  <2> QED BY <2>1, <2>2
<1>2. PICK g : g = Recorded(f, o, a, c)
  OBVIOUS
<1>3. /\ \A p \in Operations \ {o} : g[p] = f[p]
      /\ g[o] = [action |-> a, command |-> c]
      /\ g = [p \in Operations |-> g[p]]
  BY <1>1, <1>2 DEF Recorded
<1>4. \A p \in Operations : g[p] = [action |-> g[p].action, command |-> g[p].command]
  BY <1>1, <1>3
<1>5. Decisions(g) /\ OthersKept(f, g, o) /\ g[o].action = a /\ g[o].command = c
  BY <1>3, <1>4 DEF Decisions, OthersKept
<1> QED BY <1>2, <1>5

LEMMA BudgetIsRecord ==
    ASSUME NEW f, Budgets(f)
    PROVE  /\ DOMAIN f = Operations
           /\ \A p \in Operations :
                 f[p] = [command |-> f[p].command, reserved |-> f[p].reserved,
                         resolution |-> f[p].resolution]
<1> DEFINE F == [p \in Operations |->
                   [command |-> f[p].command, reserved |-> f[p].reserved,
                    resolution |-> f[p].resolution]]
<1>1. f = F /\ DOMAIN F = Operations
  BY DEF Budgets
<1>2. \A p \in Operations :
         F[p] = [command |-> f[p].command, reserved |-> f[p].reserved,
                 resolution |-> f[p].resolution]
  BY SMTT(30)
<1> HIDE DEF F
<1> QED BY <1>1, <1>2

LEMMA BudgetWritten ==
    ASSUME NEW f, Budgets(f), NEW o \in Operations, NEW c, NEW r, NEW s
    PROVE  LET g == BudgetRow(f, o, c, r, s)
           IN  /\ Budgets(g) /\ OthersKept(f, g, o)
               /\ g[o].command = c /\ g[o].reserved = r
<1> PICK g : g = BudgetRow(f, o, c, r, s)
  OBVIOUS
<1>1. /\ DOMAIN f = Operations
      /\ \A p \in Operations :
            f[p] = [command |-> f[p].command, reserved |-> f[p].reserved,
                    resolution |-> f[p].resolution]
  BY BudgetIsRecord
<1>2. /\ \A p \in Operations \ {o} : g[p] = f[p]
      /\ g[o] = [command |-> c, reserved |-> r, resolution |-> s]
      /\ g = [p \in Operations |-> g[p]]
  BY <1>1 DEF BudgetRow
<1>3. \A p \in Operations :
         g[p] = [command |-> g[p].command, reserved |-> g[p].reserved,
                 resolution |-> g[p].resolution]
  BY <1>1, <1>2
<1>4. g = [p \in Operations |-> [command |-> g[p].command, reserved |-> g[p].reserved,
                                  resolution |-> g[p].resolution]]
  <2> DEFINE G == [p \in Operations |-> [command |-> g[p].command,
                                         reserved |-> g[p].reserved,
                                         resolution |-> g[p].resolution]]
  <2>1. \A p \in Operations : G[p] = g[p]
    BY <1>3, Zenon
  <2>2. G = [p \in Operations |-> G[p]]
    OBVIOUS
  <2> HIDE DEF G
  <2>3. G = g
    BY <1>2, <2>1, <2>2
  <2> QED BY <2>3 DEF G
<1>5. g[o].command = c /\ g[o].reserved = r
  BY <1>2
<1> QED BY <1>2, <1>4, <1>5 DEF Budgets, OthersKept

LEMMA BudgetResolved ==
    ASSUME NEW f, Budgets(f), NEW o \in Operations, NEW v
    PROVE  LET g == Resolved(f, o, v)
           IN  /\ Budgets(g) /\ OthersKept(f, g, o)
               /\ g[o].command = f[o].command /\ g[o].reserved = f[o].reserved
<1>1. f[o] = [command |-> f[o].command, reserved |-> f[o].reserved,
              resolution |-> f[o].resolution]
  BY BudgetIsRecord
<1>2. [f[o] EXCEPT !.resolution = v] =
         [command |-> f[o].command, reserved |-> f[o].reserved, resolution |-> v]
  BY <1>1
<1>3. Resolved(f, o, v) = BudgetRow(f, o, f[o].command, f[o].reserved, v)
  BY <1>2 DEF Resolved, BudgetRow
<1> QED BY <1>3, BudgetWritten

LEMMA BudgetReserved ==
    ASSUME NEW f, Budgets(f), NEW o \in Operations, NEW v
    PROVE  LET g == Reserved(f, o, v)
           IN  /\ Budgets(g) /\ OthersKept(f, g, o)
               /\ g[o].command = f[o].command /\ g[o].reserved = v
<1>1. f[o] = [command |-> f[o].command, reserved |-> f[o].reserved,
              resolution |-> f[o].resolution]
  BY BudgetIsRecord
<1>2. [f[o] EXCEPT !.reserved = v] =
         [command |-> f[o].command, reserved |-> v, resolution |-> f[o].resolution]
  BY <1>1
<1>3. Reserved(f, o, v) = BudgetRow(f, o, f[o].command, v, f[o].resolution)
  BY <1>2 DEF Reserved, BudgetRow
<1> QED BY <1>3, BudgetWritten

LEMMA BudgetBound ==
    ASSUME NEW f, Budgets(f), NEW o \in Operations, NEW c
    PROVE  LET g == Budgeted(f, o, c)
           IN  /\ Budgets(g) /\ OthersKept(f, g, o)
               /\ g[o].command = c /\ g[o].reserved = f[o].reserved
<1>1. f[o] = [command |-> f[o].command, reserved |-> f[o].reserved,
              resolution |-> f[o].resolution]
  BY BudgetIsRecord
<1>2. [f[o] EXCEPT !.command = c] =
         [command |-> c, reserved |-> f[o].reserved, resolution |-> f[o].resolution]
  BY <1>1
<1>3. Budgeted(f, o, c) = BudgetRow(f, o, c, f[o].reserved, f[o].resolution)
  BY <1>2 DEF Budgeted, BudgetRow
<1> QED BY <1>3, BudgetWritten

LEMMA JournalWritten ==
    ASSUME NEW f \in Journals, NEW o \in Operations, NEW s \in JournalStates
    PROVE  LET g == Moved(f, o, s)
           IN  /\ g \in Journals /\ OthersKept(f, g, o)
               /\ g[o].state = s /\ g[o].dispatched = f[o].dispatched
<1>1. f[o] \in [state : JournalStates, dispatched : BOOLEAN]
  BY DEF Journals
<1>2. /\ [f[o] EXCEPT !.state = s] \in [state : JournalStates, dispatched : BOOLEAN]
      /\ [f[o] EXCEPT !.state = s].state = s
      /\ [f[o] EXCEPT !.state = s].dispatched = f[o].dispatched
  BY <1>1
<1>3. Moved(f, o, s) = [f EXCEPT ![o] = [f[o] EXCEPT !.state = s]]
  BY DEF Moved
<1> QED BY <1>2, <1>3 DEF Journals, OthersKept

PressFits(o) ==
    \A i \in PressesOf(o) :
        /\ PressesOf(o) = {i}
        /\ journal[o].dispatched /\ budget[o].reserved
        /\ Commanded(o) /\ Proven(o, decision[o].command)
        /\ presses[i].pos = decision[o].command.pos
        /\ presses[i].contact = ContextFor(o).intent.target \/ world # 1

\* What the device says of the presses of an operation.
Struck(o) ==
    IF PressesOf(o) = {} THEN "null"
    ELSE presses[CHOOSE i \in PressesOf(o) : TRUE].contact

EvidenceFits(o) ==
    /\ (evidence[o] # NoEvidence) <=>
          (journal[o].dispatched /\ journal[o].state \in Terminal)
    /\ evidence[o].verified =>
          /\ evidence[o].contact = Struck(o)
          /\ evidence[o].executed <=> Struck(o) \in Buttons
          /\ evidence[o].goal <=> Struck(o) = ContextFor(o).intent.target
          /\ (journal[o].state = "SUCCEEDED") <=> evidence[o].goal
    /\ ~evidence[o].verified => evidence[o].contact = "null"
    /\ evidence[o] # NoEvidence =>
          IF evidence[o].verified
          THEN evidence[o].outcome = IF evidence[o].goal THEN "APPLIED" ELSE "NOT_APPLIED"
          ELSE evidence[o].outcome = "UNKNOWN"

OpFits(o) == RowFits(o) /\ PressFits(o) /\ EvidenceFits(o)

Fits == \A o \in Operations : OpFits(o)

Inv == TypeOK /\ Arrivals /\ Shapes /\ CallInPlace /\ Fits

LEMMA InvIsAimInv ==
    Inv <=> (AimInv /\ Shapes)
<1>1. (\A o \in Operations : PressFits(o)) <=> (PressIsDecided /\ MissedOnlyIfMoved)
  BY DEF PressFits, PressIsDecided, MissedOnlyIfMoved
<1>2. (\A o \in Operations : EvidenceFits(o)) <=>
         (EvidenceMatchesDevice /\ EvidenceIsVerdict)
  BY DEF EvidenceFits, EvidenceMatchesDevice, EvidenceIsVerdict, Struck
<1>3. Fits <=> /\ \A o \in Operations : RowFits(o)
               /\ \A o \in Operations : PressFits(o)
               /\ \A o \in Operations : EvidenceFits(o)
  BY DEF Fits, OpFits
<1> QED BY <1>1, <1>2, <1>3 DEF Inv, AimInv

\* What the tables and the device hold of an operation stays as it is.
RowKept(o) ==
    /\ journal'[o] = journal[o]
    /\ budget'[o].command = budget[o].command /\ budget'[o].reserved = budget[o].reserved
    /\ decision'[o] = decision[o] /\ evidence'[o] = evidence[o]

PressesKept(o) ==
    /\ PressesOf(o)' = PressesOf(o)
    /\ \A i \in PressesOf(o) : presses'[i] = presses[i]
    /\ world' = world \/ world' # 1

LEMMA StruckStays ==
    ASSUME NEW o \in Operations, PressesKept(o)
    PROVE  Struck(o)' = Struck(o)
<1>1. CASE PressesOf(o) = {}
  BY <1>1 DEF PressesKept, Struck
<1>2. CASE PressesOf(o) # {}
  <2> DEFINE i == CHOOSE j \in PressesOf(o) : TRUE
  <2>1. i \in PressesOf(o)
    BY <1>2
  <2>2. Struck(o) = presses[i] .contact
    BY <1>2 DEF Struck
  <2>3. Struck(o)' = presses'[i].contact
    BY <1>2 DEF Struck, PressesKept
  <2> QED BY <2>1, <2>2, <2>3 DEF PressesKept
<1> QED BY <1>1, <1>2

LEMMA OpStays ==
    ASSUME NEW o \in Operations, OpFits(o), ContextKept(o), RowKept(o), PressesKept(o),
           binding'[o] = binding[o] \/ ~Commanded(o)
    PROVE  OpFits(o)'
<1>1. /\ Commanded(o)' <=> Commanded(o)
      /\ Withheld(o)' <=> Withheld(o)
  BY DEF Commanded, Withheld, RowKept
<1>2. ASSUME Commanded(o)
      PROVE  /\ Proven(o, decision[o].command)
             /\ Proven(o, decision[o].command)'
             /\ Aimed(o, decision[o].command)'
             /\ ContextFor(o)' = ContextFor(o)
  <2>1. Proven(o, decision[o].command) /\ Aimed(o, decision[o].command)
    BY <1>2 DEF OpFits, RowFits
  <2>2. Proven(o, decision[o].command)'
    BY <1>2, <2>1 DEF RowKept, Proven
  <2>3. ContextFor(o)' = ContextFor(o)
    BY <2>1, AimedStays DEF ContextKept
  <2> PICK c : c = decision[o].command
    OBVIOUS
  <2>4. Aimed(o, c) /\ decision'[o].command = c
    BY <2>1 DEF RowKept
  <2>5. Aimed(o, c)'
    BY <2>4, AimedStays
  <2>6. Aimed(o, decision[o].command)'
    BY <2>4, <2>5 DEF Aimed, Justified
  <2> QED BY <2>1, <2>2, <2>3, <2>6
<1>3. RowFits(o)'
  BY <1>1, <1>2 DEF OpFits, RowFits, RowKept
<1>4. PressFits(o)'
  BY <1>1, <1>2 DEF OpFits, PressFits, RowKept, PressesKept
<1>5. EvidenceFits(o)'
  <2>1. Struck(o)' = Struck(o)
    BY StruckStays
  <2>2. evidence[o] # NoEvidence => Commanded(o)
    BY DEF OpFits, EvidenceFits, RowFits
  <2>3. evidence[o] = NoEvidence => ~evidence[o].verified
    BY DEF NoEvidence
  <2> QED BY <1>2, <2>1, <2>2, <2>3 DEF OpFits, EvidenceFits, RowKept
<1> QED BY <1>3, <1>4, <1>5 DEF OpFits
-----------------------------------------------------------------------------
(* The pieces a step is made of.                                           *)

\* A call on a contract, and where it stands.
LEMMA OnContract ==
    ASSUME CallInPlace,
           pc \in {"bind", "admit", "reserve", "decide", "running", "press", "resolve"}
    PROVE  \E o \in Operations :
              /\ task.msg = <<"contract", o>> /\ Operation = o /\ InPlace(o)
              /\ task.msg \in Persisted
<1>1. task.msg \in Contracts /\ task.msg \in Persisted
  BY DEF CallInPlace
<1>2. PICK o \in Operations : task.msg = <<"contract", o>>
  BY <1>1 DEF Contracts
<1>3. InPlace(o)
  BY <1>2 DEF CallInPlace
<1> QED BY <1>1, <1>2, <1>3 DEF Operation

\* Whoever writes the state of a row that arrived keeps what has arrived.
RowWritten == \E m \in Persisted : \E s \in InboxState \ {"ABSENT"} :
                 inbox' = [inbox EXCEPT ![m] = s]

LEMMA InboxWritten ==
    ASSUME TypeOK, RowWritten \/ inbox' = inbox \/ inbox' = RecoverInterrupted(inbox)
    PROVE  inbox' \in [Messages -> InboxState] /\ Persisted' = Persisted
<1>1. inbox \in [Messages -> InboxState]
  BY DEF TypeOK
<1>2. CASE RowWritten
  <2>1. PICK m \in Persisted : \E s \in InboxState \ {"ABSENT"} :
           inbox' = [inbox EXCEPT ![m] = s]
    BY <1>2 DEF RowWritten
  <2>2. inbox' \in [Messages -> InboxState]
    BY <1>1, <2>1
  <2>3. \A k \in Messages : inbox'[k] # "ABSENT" <=> inbox[k] # "ABSENT"
    BY <1>1, <2>1 DEF Persisted
  <2> QED BY <2>2, <2>3 DEF Persisted
<1>3. CASE inbox' = inbox
  BY <1>1, <1>3 DEF Persisted
<1>4. CASE inbox' = RecoverInterrupted(inbox)
  BY <1>1, <1>4 DEF Persisted, RecoverInterrupted, InboxState
<1> QED BY <1>2, <1>3, <1>4

\* The same, of what the transactions of the store write.
LEMMA StoreWrites ==
    ASSUME NEW m \in Persisted,
           \/ inbox' = Claim(inbox, m) \/ inbox' = Fail(inbox, m)
           \/ inbox' = Complete(inbox, m)
    PROVE  RowWritten
BY DEF RowWritten, Claim, Fail, Complete, InboxState

\* What a hold writes.
LEMMA HoldWrites ==
    ASSUME TypeOK, Shapes, CallInPlace, NEW o \in Operations, OpFits(o),
           NEW action \in Actions \ Executes, task.msg = <<"contract", o>>,
           pc \in {"process", "bind", "admit", "reserve"}, RecordHold(o, action)
    PROVE  /\ RowWritten \/ inbox' = inbox
           /\ pc' \in {"down", "idle", "loop", "complete"}
           /\ task' = IF pc' = "complete" THEN task ELSE NoTask
           /\ loops' \in {0, loops}
           /\ evidence' = evidence
           /\ \/ UNCHANGED <<journal, budget, decision, outbox>> /\ Decided(o)
              \/ /\ ~Decided(o)
                 /\ decision' = [decision EXCEPT
                       ![o] = [action |-> action, command |-> NoCommand]]
                 /\ outbox' = outbox \cup {<<o, "HELD">>}
                 /\ \/ /\ journal[o].state = "ACCEPTED"
                       /\ journal' = [journal EXCEPT ![o].state = "HELD"]
                       /\ budget' = [budget EXCEPT ![o].resolution = "DENIED"]
                    \/ /\ journal[o].state # "ACCEPTED"
                       /\ UNCHANGED <<journal, budget>>
<1>1. task.msg \in Persisted
  BY DEF CallInPlace
<1>2. CASE Decided(o)
  BY <1>2 DEF RecordHold, Raise, Goto, store
<1>3. CASE ~Decided(o) /\ journal[o].state = "ACCEPTED"
  <2>1. inbox' = Complete(inbox, task.msg)
    BY <1>3 DEF RecordHold
  <2>2. RowWritten
    BY <1>1, <2>1, StoreWrites
  <2> QED BY <1>3, <2>2 DEF RecordHold, NextClaim, Goto
<1>4. CASE ~Decided(o) /\ journal[o].state # "ACCEPTED"
  BY <1>4 DEF RecordHold, Goto
<1> QED BY <1>2, <1>3, <1>4

\* Holding is never executing.
LEMMA RefusalHolds ==
    ASSUME NEW o, Refusal(o) # "none"
    PROVE  Refusal(o) \in Actions \ Executes
BY DEF Refusal, Actions, Holds, Executes

\* Where the device strikes when it acts on a command.
LEMMA Strikes ==
    ASSUME NEW command, world \in DOMAIN Worlds
    PROVE  /\ Contact(command) \in Buttons \cup {"NONE"}
           /\ \A o \in Operations : Aimed(o, command) /\ world = 1
                 => Contact(command) = ContextFor(o).intent.target
<1> DEFINE touched == {b \in Buttons : Worlds[world][b] = command.pos}
           W == Worlds[world]
<1>1. IsFiniteSet(touched) /\ touched \subseteq Buttons
  <2>1. IsFiniteSet({"A"}) /\ Buttons = {"A"} \cup {"B"}
    BY FS_Singleton DEF Buttons
  <2>2. IsFiniteSet(Buttons)
    BY <2>1, FS_AddElement
  <2> QED BY <2>2, FS_Subset
<1>2. Contact(command) = IF command.frame = DeviceFrame /\ Cardinality(touched) = 1
                         THEN The(touched) ELSE "NONE"
  BY DEF Contact, The
<1>3. Cardinality(touched) = 1 => The(touched) \in touched
  <2> HIDE DEF touched
  <2> QED BY <1>1, TheOne
<1>4. Contact(command) \in Buttons \cup {"NONE"}
  BY <1>1, <1>2, <1>3
<1>5. ASSUME NEW o \in Operations, Aimed(o, command), world = 1
      PROVE  Contact(command) = ContextFor(o).intent.target
  <2> DEFINE content == ContextFor(o)
             target == content.intent.target
  <2>1. /\ content \in Given /\ target \in Buttons
        /\ command.frame = content.intent.frame
        /\ \E d \in UniqueMatch(content.current, target) : d.pos = command.pos
    BY <1>5 DEF Aimed
  <2>2. command.frame = DeviceFrame
    BY <2>1, WorldAssumption DEF WorldAssumption
  <2>3. command.pos = Worlds[1][target]
    <3> HIDE DEF content
    <3> QED BY <2>1, WorldAssumption DEF WorldAssumption
  <2>4. touched = {target}
    BY <1>5, <2>1, <2>3, WorldAssumption DEF Buttons, WorldAssumption
  <2>5. Cardinality(touched) = 1 /\ The(touched) = target
    <3> HIDE DEF touched, target
    <3> QED BY <2>4, FS_Singleton DEF The
  <2> QED BY <1>2, <2>2, <2>5
<1> QED BY <1>4, <1>5
-----------------------------------------------------------------------------
(* What a step does to an operation, in the end.                           *)

\* Nothing but an acceptance.
Still(o) ==
    /\ decision'[o] = decision[o] /\ evidence'[o] = evidence[o] /\ PressesKept(o)
    /\ journal'[o].dispatched = journal[o].dispatched
    /\ journal[o].dispatched => journal'[o].state = journal[o].state

Refuses(o) ==
    /\ ~Decided(o) /\ Withheld(o)' /\ decision'[o].command = NoCommand
    /\ evidence'[o] = evidence[o] /\ PressesKept(o)
    /\ journal'[o].dispatched = journal[o].dispatched
    /\ journal[o].dispatched => journal'[o].state = journal[o].state

Dispatches(o) ==
    /\ ~Decided(o) /\ decision'[o] = decision[o]
    /\ evidence'[o] = evidence[o] /\ PressesKept(o)
    /\ ~journal[o].dispatched
    /\ journal'[o].dispatched /\ journal'[o].state = "DISPATCH_RECORDED"

Chooses(o) ==
    /\ ~Decided(o) /\ Refusal(o) = "none" /\ Commanded(o)'
    /\ evidence'[o] = evidence[o] /\ PressesKept(o)
    /\ journal'[o] = journal[o] /\ journal[o].dispatched

Presses(o) ==
    /\ Commanded(o) /\ PressesOf(o) = {} /\ journal[o].state = "DISPATCH_RECORDED"
    /\ decision'[o] = decision[o] /\ evidence'[o] = evidence[o] /\ journal'[o] = journal[o]

Answers(o) ==
    /\ Commanded(o) /\ decision'[o] = decision[o] /\ PressesKept(o)
    /\ journal[o].state = "DISPATCH_RECORDED" /\ journal'[o].state \in Terminal
    /\ journal'[o].dispatched = journal[o].dispatched

Happens(o) ==
    Still(o) \/ Refuses(o) \/ Dispatches(o) \/ Chooses(o) \/ Presses(o) \/ Answers(o)

\* At most one operation is concerned, and what is known of any is kept.
Told ==
    /\ \A o \in Operations : ContextKept(o)
    /\ \E S \in SUBSET Operations :
          /\ \A o, p \in S : o = p
          /\ \A o \in S : Happens(o)
          /\ \A o \in Operations \ S : Still(o)

LEMMA StillTold ==
    ASSUME \A o \in Operations : ContextKept(o) /\ Still(o)
    PROVE  Told
<1>1. {} \in SUBSET Operations
  OBVIOUS
<1>2. /\ \A o, p \in {} : o = p
      /\ \A o \in {} : Happens(o)
      /\ \A o \in Operations \ {} : Still(o)
  OBVIOUS
<1> QED BY <1>1, <1>2 DEF Told

LEMMA OneTold ==
    ASSUME NEW o \in Operations, \A p \in Operations : ContextKept(p),
           Happens(o), \A p \in Operations \ {o} : Still(p)
    PROVE  Told
<1>1. {o} \in SUBSET Operations /\ (\A p, q \in {o} : p = q) /\ (\A p \in {o} : Happens(p))
  OBVIOUS
<1> QED BY <1>1 DEF Told

-----------------------------------------------------------------------------
(* A call that is between two decisions, and a hold.                       *)

\* Nothing else happens in a hold.
Elsewhere ==
    /\ UNCHANGED <<received_at, contexts, presses, world, sent, mode>>
    /\ faults' \in 0..MaxFaults

Resting == {"down", "idle", "loop"}
Passing == {"received", "process", "complete"}

LEMMA PlaceAtRest ==
    ASSUME \/ pc' \in Resting /\ task' = NoTask
           \/ /\ pc' \in Passing /\ task'.msg \in Persisted'
              /\ pc' # "complete" => ~task'.fresh
    PROVE  CallInPlace'
<1>1. CASE pc' \in Resting /\ task' = NoTask
  BY <1>1 DEF CallInPlace, InPlace, Resting, NoTask
<1>2. CASE /\ pc' \in Passing /\ task'.msg \in Persisted'
           /\ (pc' # "complete" => ~task'.fresh)
  BY <1>2 DEF CallInPlace, InPlace, Passing
<1> QED BY <1>1, <1>2

LEMMA NothingIsKept ==
    ASSUME UNCHANGED <<presses, world>>
    PROVE  \A o : PressesKept(o)
BY DEF PressesKept, PressesOf

LEMMA HoldFits ==
    ASSUME Inv, Elsewhere, NEW o \in Operations, NEW action \in Actions \ Executes,
           task.msg = <<"contract", o>>,
           pc \in {"process", "bind", "admit", "reserve"}, RecordHold(o, action),
           \/ binding' = binding
           \/ pc = "bind" /\ binding' = [binding EXCEPT ![o] = task.command]
    PROVE  TypeOK' /\ Shapes' /\ EvidenceSame /\ CallInPlace' /\ Fits' /\ Told
<1> DEFINE held == [action |-> action, command |-> NoCommand]
<1>1. /\ RowWritten \/ inbox' = inbox
      /\ pc' \in {"down", "idle", "loop", "complete"}
      /\ task' = IF pc' = "complete" THEN task ELSE NoTask
      /\ loops' \in {0, loops}
      /\ evidence' = evidence
      /\ \/ UNCHANGED <<journal, budget, decision, outbox>> /\ Decided(o)
         \/ /\ ~Decided(o)
            /\ decision' = [decision EXCEPT ![o] = held]
            /\ outbox' = outbox \cup {<<o, "HELD">>}
            /\ \/ /\ journal[o].state = "ACCEPTED"
                  /\ journal' = [journal EXCEPT ![o].state = "HELD"]
                  /\ budget' = [budget EXCEPT ![o].resolution = "DENIED"]
               \/ /\ journal[o].state # "ACCEPTED"
                  /\ UNCHANGED <<journal, budget>>
  BY HoldWrites DEF Inv, Fits
<1>2. inbox' \in [Messages -> InboxState] /\ Persisted' = Persisted /\ EvidenceSame
  BY <1>1, InboxWritten DEF Inv, Elsewhere, EvidenceSame
<1>3. task.msg \in Persisted
  BY DEF Inv, CallInPlace
<1>4. CallInPlace'
  BY <1>1, <1>2, <1>3, PlaceAtRest DEF Resting, Passing
<1>5. pc = "bind" => ~Decided(o) /\ Aimed(o, task.command)
  BY DEF Inv, CallInPlace, InPlace
<1>6. Table(binding') /\ OthersKept(binding, binding', o)
  <2>1. binding' = binding \/ binding' = Put(binding, o, task.command)
    BY DEF Put
  <2> QED BY <2>1, TableWritten DEF Inv, Shapes, OthersKept
<1>7. binding'[o] = binding[o] \/ (~Decided(o) /\ binding'[o] = task.command
                                   /\ task.command.pos \in Nat)
  <2>1. CASE pc = "bind" /\ binding' = Put(binding, o, task.command)
    <3>1. binding'[o] = task.command
      BY <2>1, TableWritten DEF Inv, Shapes
    <3>2. task.command.pos \in Nat
      BY <1>5, <2>1 DEF Aimed
    <3> QED BY <1>5, <2>1, <3>1, <3>2
  <2> QED BY <2>1 DEF Put
<1>8. /\ Decisions(decision') /\ OthersKept(decision, decision', o)
      /\ ~Decided(o) => decision'[o].action = action /\ decision'[o].command = NoCommand
  <2>1. \/ decision' = decision /\ Decided(o)
        \/ decision' = Recorded(decision, o, action, NoCommand)
    BY <1>1 DEF Recorded
  <2> QED BY <2>1, DecisionWritten DEF Inv, Shapes, OthersKept
<1>9. /\ Budgets(budget') /\ OthersKept(budget, budget', o)
      /\ \A p \in Operations : /\ budget'[p].command = budget[p].command
                               /\ budget'[p].reserved = budget[p].reserved
  <2>1. CASE budget' = budget
    BY <2>1 DEF Inv, Shapes, OthersKept
  <2>2. CASE budget' = Resolved(budget, o, "DENIED")
    <3>1. Budgets(budget)
      BY DEF Inv, Shapes
    <3> QED BY <2>2, <3>1, BudgetResolved DEF OthersKept
  <2> QED BY <1>1, <2>1, <2>2 DEF Resolved
<1>10. /\ journal' \in Journals /\ OthersKept(journal, journal', o)
       /\ \A p \in Operations : journal'[p].dispatched = journal[p].dispatched
       /\ ~Decided(o) => journal'[o].state = IF journal[o].state = "ACCEPTED" THEN "HELD"
                                             ELSE journal[o].state
  <2>1. journal \in Journals
    BY DEF Inv, TypeOK, Journals, JournalStates
  <2>2. CASE journal' = journal /\ (Decided(o) \/ journal[o].state # "ACCEPTED")
    BY <2>1, <2>2 DEF OthersKept
  <2>3. CASE journal' = Moved(journal, o, "HELD") /\ journal[o].state = "ACCEPTED"
    <3>1. "HELD" \in JournalStates
      BY DEF JournalStates, Terminal
    <3> QED BY <2>1, <2>3, <3>1, JournalWritten DEF OthersKept
  <2> QED BY <1>1, <2>2, <2>3 DEF Moved
<1>11. Shapes'
  <2>1. TaskShape'
    BY <1>1 DEF Inv, Shapes, TaskShape, NoTask
  <2>2. Table(binding)'
    BY <1>6
  <2>3. Table(evidence)'
    BY <1>1 DEF Inv, Shapes
  <2> QED BY <1>8, <1>9, <2>1, <2>2, <2>3 DEF Shapes
<1>12. /\ Decided(o) => UNCHANGED <<journal, budget, decision, evidence, binding>>
       /\ \A p \in Operations \ {o} : RowKept(p) /\ binding'[p] = binding[p]
  BY <1>1, <1>5, <1>6, <1>8, <1>9, <1>10 DEF RowKept, OthersKept
<1>13. TypeOK'
  <2>1. journal' \in [Operations ->
          [state : {"NONE", "ACCEPTED", "DISPATCH_RECORDED"} \cup Terminal,
           dispatched : BOOLEAN]]
    BY <1>10 DEF Journals, JournalStates
  <2>2. \A p \in Operations :
          /\ IsCommand(budget'[p].command) /\ budget'[p].reserved \in BOOLEAN
          /\ decision'[p].action \in {"none"} \cup Actions
          /\ IsCommand(decision'[p].command) /\ IsCommand(binding'[p])
    <3> SUFFICES ASSUME NEW p \in Operations
                 PROVE  /\ IsCommand(budget'[p].command) /\ budget'[p].reserved \in BOOLEAN
                        /\ decision'[p].action \in {"none"} \cup Actions
                        /\ IsCommand(decision'[p].command) /\ IsCommand(binding'[p])
      OBVIOUS
    <3>1. /\ IsCommand(budget[p].command) /\ budget[p].reserved \in BOOLEAN
          /\ decision[p].action \in {"none"} \cup Actions
          /\ IsCommand(decision[p].command) /\ IsCommand(binding[p])
      BY DEF Inv, TypeOK
    <3>2. \/ decision'[p] = decision[p]
          \/ decision'[p].action = action /\ decision'[p].command = NoCommand
      BY <1>8, <1>12 DEF OthersKept
    <3>3. IsCommand(binding'[p])
      BY <1>6, <1>7, <3>1 DEF IsCommand, OthersKept
    <3> QED BY <1>9, <3>1, <3>2, <3>3 DEF IsCommand
  <2>3. outbox' \subseteq Operations \X {"RUNNING", "SUCCEEDED", "HELD"}
    BY <1>1 DEF Inv, TypeOK
  <2>4. /\ received_at' \in [Messages -> 0..Cardinality(Messages)]
        /\ bound' \in [Operations -> Contents] /\ disputed' \subseteq Operations
        /\ presses' \in Seq([key : Operations \cup {"unrelated"}, pos : Nat,
                             contact : Buttons \cup {"NONE"}])
        /\ world' \in DOMAIN Worlds /\ mode' \in {"handle", "recover"}
        /\ loops' \in Nat /\ faults' \in 0..MaxFaults
    BY <1>1 DEF Inv, TypeOK, Elsewhere, contexts
  <2>5. pc' \in Labels /\ task'.msg \in Messages \cup {NoMessage}
    BY <1>1 DEF Inv, TypeOK, NoTask, Labels
  <2> QED BY <1>2, <2>1, <2>2, <2>3, <2>4, <2>5 DEF TypeOK
<1>14. ASSUME NEW p \in Operations
       PROVE  OpFits(p)'
  <2>1. OpFits(p) /\ ContextKept(p) /\ PressesKept(p)
    BY <1>2, SameIsKept, NothingIsKept DEF Inv, Fits, Elsewhere
  <2>2. CASE p # o \/ Decided(o)
    <3>1. RowKept(p) /\ binding'[p] = binding[p]
      BY <1>12, <2>2 DEF RowKept
    <3> QED BY <2>1, <3>1, OpStays
  <2>3. CASE p = o /\ ~Decided(o)
    <3>1. ~Commanded(o)' /\ Withheld(o)' /\ ~Commanded(o)
      BY <1>8, <2>1, <2>3 DEF OpFits, RowFits, Commanded, Withheld, Decided, Executes
    <3>2. journal[o].state \notin Terminal
      BY <2>1, <2>3, <3>1 DEF OpFits, RowFits, Decided, Withheld, Actions, Holds, Executes
    <3>3. PressesOf(o) = {} /\ PressesOf(o)' = {}
      BY <2>1, <2>3, <3>1 DEF OpFits, PressFits, PressesKept
    <3>4. RowFits(o)'
      BY <1>8, <1>9, <1>10, <2>1, <2>3, <3>1, <3>2 DEF OpFits, RowFits, Executes, Terminal
    <3>5. PressFits(o)'
      BY <3>3 DEF PressFits
    <3>6. evidence'[o] = NoEvidence /\ ~(journal'[o].dispatched /\ journal'[o].state \in Terminal)
      BY <1>1, <1>10, <2>1, <2>3, <3>2 DEF OpFits, EvidenceFits, RowFits
    <3>7. EvidenceFits(o)'
      BY <3>6 DEF EvidenceFits, NoEvidence
    <3> QED BY <2>3, <3>4, <3>5, <3>7 DEF OpFits
  <2> QED BY <2>2, <2>3
<1>15. Told
  <2>1. \A p \in Operations : ContextKept(p) /\ PressesKept(p)
    BY <1>2, SameIsKept, NothingIsKept DEF Elsewhere
  <2>2. \A p \in Operations \ {o} : Still(p)
    BY <1>10, <1>12, <2>1 DEF Still, OthersKept, RowKept
  <2>3. CASE Decided(o)
    <3>1. Still(o)
      BY <1>12, <2>1, <2>3 DEF Still
    <3> QED BY <2>1, <2>2, <3>1, OneTold DEF Happens
  <2>4. CASE ~Decided(o)
    <3>1. Withheld(o)'
      BY <1>8, <2>4 DEF Withheld
    <3>2. journal[o].state = "ACCEPTED" => ~journal[o].dispatched
      BY DEF Inv, Fits, OpFits, RowFits
    <3>3. Refuses(o)
      BY <1>1, <1>8, <1>10, <2>1, <2>4, <3>1, <3>2 DEF Refuses
    <3> QED BY <2>1, <2>2, <3>3, OneTold DEF Happens
  <2> QED BY <2>3, <2>4
<1> QED BY <1>2, <1>4, <1>11, <1>13, <1>14, <1>15 DEF Fits
-----------------------------------------------------------------------------
(* The steps that leave tables and device alone.                           *)

LEMMA QuietFits ==
    ASSUME Inv, UNCHANGED <<store, device>>, EvidenceSame
    PROVE  Fits'
<1>1. ASSUME NEW o \in Operations
      PROVE  OpFits(o)'
  <2>1. OpFits(o) /\ ContextKept(o) /\ PressesKept(o)
    BY SameIsKept, NothingIsKept DEF Inv, Fits, device
  <2>2. RowKept(o) /\ binding'[o] = binding[o]
    BY DEF RowKept, store, device
  <2> QED BY <2>1, <2>2, OpStays
<1> QED BY <1>1 DEF Fits

LEMMA QuietStep ==
    ASSUME Inv, UNCHANGED <<received_at, store, device, sent>>,
           RowWritten \/ inbox' = inbox \/ inbox' = RecoverInterrupted(inbox),
           bound' \in [Operations -> Contents], disputed' \subseteq Operations,
           mode' \in {"handle", "recover"}, loops' \in Nat, faults' \in 0..MaxFaults,
           TaskShape',
           \/ pc' \in Resting /\ task' = NoTask
           \/ /\ pc' \in Passing /\ task'.msg \in Persisted
              /\ pc' # "complete" => ~task'.fresh
    PROVE  Inv' /\ Told
<1>1. inbox' \in [Messages -> InboxState] /\ Persisted' = Persisted /\ EvidenceSame
  BY InboxWritten DEF Inv, EvidenceSame
<1>2. Arrivals'
  BY <1>1, EvidenceStays DEF Inv
<1>3. CallInPlace'
  BY <1>1, PlaceAtRest
<1>4. Fits'
  BY <1>1, QuietFits
<1>5. Shapes'
  BY DEF Inv, Shapes, TaskShape, store, device
<1>6. TypeOK'
  <2>1. pc' \in Labels
    BY DEF Resting, Passing, Labels
  <2>2. task'.msg \in Messages \cup {NoMessage}
    BY DEF NoTask, Persisted
  <2> QED BY <1>1, <2>1, <2>2 DEF Inv, TypeOK, store, device
<1>7. Told
  <2>1. \A o \in Operations : ContextKept(o) /\ PressesKept(o)
    BY <1>1, SameIsKept, NothingIsKept DEF device
  <2> QED BY <2>1, StillTold DEF Still, store
<1> QED BY <1>2, <1>3, <1>4, <1>5, <1>6, <1>7 DEF Inv

LEMMA FaultCounted ==
    ASSUME TypeOK, Fault
    PROVE  faults' \in 0..MaxFaults
BY TwoButtonAssumption DEF TypeOK, Fault, TwoButtonAssumption

\* The call begins, claims, returns, dies or is interrupted.
LEMMA CallSteps ==
    ASSUME Inv,
           \/ Start \/ Handle \/ Return \/ Crash \/ Fails \/ CompleteInbox
           \/ TakeAssignment \/ \E m \in Messages : ClaimNext(m)
           \/ \E o \in Operations : MissingDependency(o)
    PROVE  Inv' /\ Told
<1> USE DEF Goto, call, rows, Resting, Passing, contexts
<1>1. /\ bound \in [Operations -> Contents] /\ disputed \subseteq Operations
      /\ mode \in {"handle", "recover"} /\ loops \in Nat /\ faults \in 0..MaxFaults
      /\ inbox \in [Messages -> InboxState]
  BY DEF Inv, TypeOK
<1>2. TaskShape /\ NoTask.msg \notin Messages
  BY TwoButtonAssumption DEF Inv, Shapes, TaskShape, NoTask, TwoButtonAssumption
<1>3. (pc \notin Resting => task.msg \in Persisted) /\ (pc \in Resting => task = NoTask)
  BY DEF Inv, CallInPlace
<1>4. task' = NoTask => TaskShape'
  BY DEF TaskShape, NoTask
<1>5. ASSUME Start
      PROVE  Inv' /\ Told
  <2>1. loops' = 2 * Cardinality(Claimable(inbox'))
    BY <1>5 DEF Start
  <2>2. inbox' \in [Messages -> InboxState]
    BY <1>5, InboxWritten DEF Start, Inv
  <2>3. Cardinality(Claimable(inbox')) \in Nat
    <3>1. Claimable(inbox') \subseteq Messages
      BY <2>2 DEF Claimable
    <3> QED BY <3>1, FS_Subset, FS_CardinalityType, TwoButtonAssumption
            DEF TwoButtonAssumption
  <2>4. loops' \in Nat
    BY <2>1, <2>3
  <2> QED BY <1>1, <1>3, <1>4, <1>5, <2>4, QuietStep DEF Start
<1>6. ASSUME Handle
      PROVE  Inv' /\ Told
  <2>1. RowWritten
    BY <1>3, <1>6, StoreWrites DEF Handle
  <2>2. ~task.fresh
    BY <1>6 DEF Handle, Inv, CallInPlace
  <2>3. TaskShape'
    BY <1>2, <1>6 DEF Handle, TaskShape
  <2> QED BY <1>1, <1>3, <1>6, <2>1, <2>2, <2>3, QuietStep DEF Handle
<1>7. ASSUME Return
      PROVE  Inv' /\ Told
  BY <1>1, <1>3, <1>4, <1>7, QuietStep DEF Return
<1>8. ASSUME Crash
      PROVE  Inv' /\ Told
  <2>1. faults' \in 0..MaxFaults
    BY <1>8, FaultCounted DEF Crash, Inv
  <2> QED BY <1>1, <1>4, <1>8, <2>1, QuietStep DEF Crash
<1>9. ASSUME Fails
      PROVE  Inv' /\ Told
  <2>1. faults' \in 0..MaxFaults
    BY <1>9, FaultCounted DEF Fails, Inv
  <2> QED BY <1>1, <1>4, <1>9, <2>1, QuietStep DEF Fails, Raise
<1>10. ASSUME CompleteInbox
       PROVE  Inv' /\ Told
  <2>1. RowWritten
    BY <1>3, <1>10, StoreWrites DEF CompleteInbox
  <2> QED BY <1>1, <1>4, <1>10, <2>1, QuietStep DEF CompleteInbox, NextClaim
<1>11. ASSUME TakeAssignment
       PROVE  Inv' /\ Told
  <2>1. RowWritten
    BY <1>3, <1>11, StoreWrites DEF TakeAssignment
  <2> QED BY <1>1, <1>4, <1>11, <2>1, QuietStep DEF TakeAssignment, NextClaim
<1>12. ASSUME NEW m \in Messages, ClaimNext(m)
       PROVE  Inv' /\ Told
  <2>1. m \in Persisted
    BY <1>1, <1>12 DEF ClaimNext, NextInbox, Claimable, Persisted
  <2>2. RowWritten
    BY <1>12, <2>1, StoreWrites DEF ClaimNext
  <2>3. loops' \in Nat
    BY <1>1, <1>12 DEF ClaimNext, MayClaim
  <2>4. TaskShape' /\ task'.msg = m /\ ~task'.fresh
    BY <1>12 DEF ClaimNext, NoTask, TaskShape
  <2> QED BY <1>1, <1>12, <2>1, <2>2, <2>3, <2>4, QuietStep DEF ClaimNext
<1>13. ASSUME NEW o \in Operations, MissingDependency(o)
       PROVE  Inv' /\ Told
  <2>1. RowWritten
    BY <1>3, <1>13, StoreWrites DEF MissingDependency, Processing
  <2> QED BY <1>1, <1>4, <1>13, <2>1, QuietStep DEF MissingDependency, NextClaim
<1> QED BY <1>5, <1>6, <1>7, <1>8, <1>9, <1>10, <1>11, <1>12, <1>13

LEMMA BindContextStep ==
    ASSUME Inv, BindContext
    PROVE  Inv' /\ Told
<1>1. task.msg \in Persisted \cap ContextMessages /\ TaskShape
  BY DEF Inv, CallInPlace, BindContext, Shapes, TaskShape
<1>2. Content(task.msg) \in Given
  <2>1. task.msg[2] \in DOMAIN sent /\ sent \in Deliveries
    BY <1>1 DEF Inv, Arrivals
  <2>2. Content(task.msg) \in {sent[x] : x \in DOMAIN sent}
    BY <2>1 DEF Content
  <2> QED BY <2>1, <2>2 DEF Given
<1>3. bound' \in [Operations -> Contents] /\ disputed' \subseteq Operations
  BY <1>2 DEF BindContext, Inv, TypeOK, Contents, contexts
<1>4. pc' = "complete" /\ UNCHANGED <<inbox, received_at, store, device, sent, mode,
                                     loops, task, faults>>
  BY DEF BindContext, Goto, rows, call
<1>5. TaskShape' /\ task'.msg \in Persisted
  BY <1>1, <1>4 DEF TaskShape
<1>6. mode' \in {"handle", "recover"} /\ loops' \in Nat /\ faults' \in 0..MaxFaults
  BY <1>4 DEF Inv, TypeOK
<1> QED BY <1>3, <1>4, <1>5, <1>6, QuietStep DEF Passing

LEMMA ReceiveStep ==
    ASSUME Inv, NEW m \in Messages, ReceiveFrame(m)
    PROVE  Inv' /\ Told
<1>1. /\ Arrivals' /\ received_at' \in [Messages -> 0..Cardinality(Messages)]
      /\ Persisted' = Persisted \cup {m}
      /\ \A o \in Operations : ContextKept(o)
  BY EvidenceArrives DEF Inv
<1>2. /\ pc' = "received" /\ task' = [NoTask EXCEPT !.msg = m]
      /\ UNCHANGED <<contexts, store, device, sent, call, faults>>
      /\ inbox' = [inbox EXCEPT ![m] = "RECEIVED"]
  BY DEF ReceiveFrame, Goto, Receive
<1>3. task'.msg = m /\ ~task'.fresh /\ TaskShape'
  BY <1>2 DEF NoTask, TaskShape
<1>4. CallInPlace'
  BY <1>1, <1>2, <1>3, PlaceAtRest DEF Passing
<1>5. Shapes'
  BY <1>2, <1>3 DEF Inv, Shapes, TaskShape, store, device
<1>6. inbox' \in [Messages -> InboxState]
  BY <1>2 DEF Inv, TypeOK, InboxState
<1>7. pc' \in Labels
  BY <1>2 DEF Labels
<1>8. TypeOK'
  BY <1>1, <1>2, <1>3, <1>6, <1>7 DEF Inv, TypeOK, store, device, contexts, call
<1>9. ASSUME NEW o \in Operations
      PROVE  OpFits(o)'
  <2>1. OpFits(o) /\ ContextKept(o) /\ PressesKept(o)
    BY <1>1, <1>2, NothingIsKept DEF Inv, Fits, device
  <2>2. RowKept(o) /\ binding'[o] = binding[o]
    BY <1>2 DEF RowKept, store, device
  <2> QED BY <2>1, <2>2, OpStays
<1>10. Told
  <2>1. \A o \in Operations : PressesKept(o)
    BY <1>2, NothingIsKept DEF device
  <2>2. \A o \in Operations : ContextKept(o) /\ Still(o)
    BY <1>1, <1>2, <2>1 DEF Still, store
  <2> QED BY <2>2, StillTold
<1> QED BY <1>1, <1>4, <1>5, <1>8, <1>9, <1>10 DEF Inv, Fits
-----------------------------------------------------------------------------
(* The surroundings.                                                       *)

PressRecords == [key : Operations \cup {"unrelated"}, pos : Nat,
                 contact : Buttons \cup {"NONE"}]

LEMMA PressAppended ==
    ASSUME presses \in Seq(PressRecords), NEW r \in PressRecords,
           presses' = Append(presses, r), world' = world
    PROVE  /\ presses' \in Seq(PressRecords)
           /\ Len(presses) + 1 \notin DOMAIN presses
           /\ presses'[Len(presses) + 1] = r
           /\ \A o : IF r.key = o
                     THEN PressesOf(o)' = PressesOf(o) \cup {Len(presses) + 1}
                     ELSE PressesKept(o)
<1>1. /\ Len(presses) \in Nat /\ DOMAIN presses = 1..Len(presses)
      /\ presses' \in Seq(PressRecords)
      /\ DOMAIN presses' = 1..(Len(presses) + 1)
      /\ presses'[Len(presses) + 1] = r
      /\ \A i \in 1..Len(presses) : presses'[i] = presses[i]
  BY LenProperties, AppendProperties
<1> DEFINE n == Len(presses)
<1>2. DOMAIN presses' = DOMAIN presses \cup {n + 1} /\ n + 1 \notin DOMAIN presses
  BY <1>1
<1>3. \A i \in DOMAIN presses : presses'[i] = presses[i]
  BY <1>1
<1> HIDE DEF n
<1>4. ASSUME NEW o
      PROVE  IF r.key = o THEN PressesOf(o)' = PressesOf(o) \cup {n + 1}
             ELSE PressesKept(o)
  <2>1. presses'[n + 1] = r
    BY <1>1 DEF n
  <2> QED BY <1>2, <1>3, <2>1 DEF PressesOf, PressesKept
<1> QED BY <1>1, <1>2, <1>4 DEF n

\* A call that nobody touches stays in its place.
LEMMA CallStays ==
    ASSUME Inv, EvidenceSame, UNCHANGED <<contexts, store, binding, pc, call, task>>,
           \A o \in Operations : PressesKept(o)
    PROVE  CallInPlace'
<1>1. ASSUME NEW o \in Operations, task.msg = <<"contract", o>>
      PROVE  InPlace(o)'
  <2>1. InPlace(o)
    BY <1>1 DEF Inv, CallInPlace
  <2>2. /\ (Decided(o)' <=> Decided(o)) /\ (Commanded(o)' <=> Commanded(o))
        /\ PressesOf(o)' = PressesOf(o)
    BY DEF Decided, Commanded, store, PressesKept
  <2>3. Refusal(o)' = Refusal(o) /\ Candidates(o)' = Candidates(o)
    BY <2>2, RefusalStays, EvidenceStays
  <2>4. Aimed(o, task.command) => Aimed(o, task.command)'
    <3> PICK c : c = task.command
      OBVIOUS
    <3>1. ContextKept(o)
      BY SameIsKept
    <3>2. Aimed(o, c) => Aimed(o, c)'
      BY <3>1, AimedStays
    <3>3. task'.command = c
      OBVIOUS
    <3> QED BY <3>2, <3>3 DEF Aimed, Justified
  <2> QED BY <2>1, <2>2, <2>3, <2>4 DEF InPlace, store, call
<1>2. Persisted' = Persisted
  BY DEF EvidenceSame
<1> QED BY <1>1, <1>2 DEF Inv, CallInPlace

LEMMA SurroundingsStep ==
    ASSUME Inv, UNCHANGED <<rows, contexts, store, binding, sent, pc, call, task, faults>>,
           \/ presses' = presses /\ world' \in DOMAIN Worlds \ {1}
           \/ \E b \in Others :
                 /\ presses' = Append(presses, [key |-> "unrelated", pos |-> Worlds[1][b],
                                                contact |-> b])
                 /\ world' = world
    PROVE  Inv' /\ Told
<1>1. EvidenceSame
  BY DEF rows, EvidenceSame, Persisted
<1>2. /\ presses' \in Seq(PressRecords) /\ world' \in DOMAIN Worlds
      /\ \A o \in Operations : PressesKept(o)
  <2>1. presses \in Seq(PressRecords) /\ world \in DOMAIN Worlds
    BY DEF Inv, TypeOK, PressRecords
  <2>2. CASE presses' = presses /\ world' \in DOMAIN Worlds \ {1}
    BY <2>1, <2>2 DEF PressesKept, PressesOf
  <2>3. ASSUME NEW b \in Others, world' = world,
               presses' = Append(presses, [key |-> "unrelated", pos |-> Worlds[1][b],
                                           contact |-> b])
        PROVE  presses' \in Seq(PressRecords) /\ \A o \in Operations : PressesKept(o)
    <3> DEFINE r == [key |-> "unrelated", pos |-> Worlds[1][b], contact |-> b]
    <3>1. b \in Buttons /\ "unrelated" \notin Operations
      BY TwoButtonAssumption DEF TwoButtonAssumption
    <3>2. Worlds[1] \in [Buttons -> Nat]
      <4>1. Worlds \in Seq([Buttons -> Nat]) /\ Worlds # <<>>
        BY TwoButtonAssumption DEF TwoButtonAssumption
      <4> QED BY <4>1, EmptySeq, LenProperties, ElementOfSeq
    <3>3. r \in PressRecords /\ r.key = "unrelated"
      BY <3>1, <3>2 DEF PressRecords
    <3>4. presses' = Append(presses, r)
      BY <2>3
    <3> HIDE DEF r
    <3>5. presses' \in Seq(PressRecords) /\ \A o : r.key # o => PressesKept(o)
      BY <2>1, <2>3, <3>3, <3>4, PressAppended
    <3> QED BY <3>1, <3>3, <3>5
  <2> QED BY <2>1, <2>2, <2>3
<1>3. CallInPlace'
  BY <1>1, <1>2, CallStays
<1>4. ASSUME NEW o \in Operations
      PROVE  OpFits(o)'
  <2>1. OpFits(o) /\ ContextKept(o) /\ PressesKept(o)
    BY <1>1, <1>2, SameIsKept DEF Inv, Fits
  <2>2. RowKept(o) /\ binding'[o] = binding[o]
    BY DEF RowKept, store
  <2> QED BY <2>1, <2>2, OpStays
<1>5. Shapes'
  BY DEF Inv, Shapes, TaskShape, store
<1>6. TypeOK'
  BY <1>2 DEF Inv, TypeOK, PressRecords, rows, contexts, store, call
<1>7. Arrivals'
  BY <1>1, EvidenceStays DEF Inv
<1>8. Told
  <2>1. \A o \in Operations : ContextKept(o) /\ Still(o)
    BY <1>1, <1>2, SameIsKept DEF Still, store
  <2> QED BY <2>1, StillTold
<1> QED BY <1>3, <1>4, <1>5, <1>6, <1>7, <1>8 DEF Inv, Fits
-----------------------------------------------------------------------------
(* The steps of a call on a contract.                                      *)

LEMMA KeptOn ==
    ASSUME UNCHANGED <<rows, contexts, sent>>, NEW o \in Operations
    PROVE  /\ EvidenceSame /\ ContextKept(o) /\ Candidates(o)' = Candidates(o)
           /\ (Decided(o)' <=> Decided(o)) => Refusal(o)' = Refusal(o)
           /\ \A c : Aimed(o, c) => Aimed(o, c)'
<1>1. EvidenceSame
  BY DEF EvidenceSame, rows, Persisted
<1>2. ContextKept(o) /\ Candidates(o)' = Candidates(o)
  BY <1>1, SameIsKept, EvidenceStays
<1>3. (Decided(o)' <=> Decided(o)) => Refusal(o)' = Refusal(o)
  BY <1>1, RefusalStays
<1> QED BY <1>1, <1>2, <1>3, AimedStays

\* What has to be shown of a step that writes the rows of one operation.
RowWell(o) ==
    /\ IsCommand(budget[o].command) /\ budget[o].reserved \in BOOLEAN
    /\ decision[o].action \in {"none"} \cup Actions
    /\ IsCommand(decision[o].command) /\ IsCommand(binding[o])

Advancing == {"bind", "admit", "reserve", "decide", "running", "press", "resolve"}

TablesWritten(o) ==
    /\ journal' \in Journals /\ OthersKept(journal, journal', o)
    /\ Budgets(budget') /\ OthersKept(budget, budget', o)
    /\ Decisions(decision') /\ OthersKept(decision, decision', o)
    /\ Table(evidence') /\ OthersKept(evidence, evidence', o)
    /\ Table(binding') /\ OthersKept(binding, binding', o)
    /\ outbox' \subseteq Operations \X {"RUNNING", "SUCCEEDED", "HELD"}

CallAdvances(o) ==
    /\ TaskShape'
    /\ \/ pc' \in {"down", "idle"} /\ task' = NoTask
       \/ /\ pc' \in Advancing \cup {"complete"} /\ task'.msg = task.msg
          /\ pc' \in Advancing => InPlace(o)'
          /\ pc' \in {"bind", "admit", "reserve"} => ~task'.fresh

LEMMA StepOn ==
    ASSUME Inv, NEW o \in Operations, task.msg = <<"contract", o>>, pc \notin Resting,
           UNCHANGED <<rows, contexts, sent, world, mode>>,
           faults' \in 0..MaxFaults, loops' \in Nat,
           TablesWritten(o), CallAdvances(o), RowWell(o)', OpFits(o)', Happens(o),
           presses' \in Seq(PressRecords), \A p \in Operations \ {o} : PressesKept(p)
    PROVE  Inv' /\ Told
<1>1. \A p \in Operations : EvidenceSame /\ ContextKept(p)
  BY KeptOn
<1>2. EvidenceSame /\ Persisted' = Persisted
  BY <1>1 DEF EvidenceSame
<1>3. Arrivals'
  BY <1>2, EvidenceStays DEF Inv
<1>4. Shapes'
  BY DEF TablesWritten, CallAdvances, Shapes
<1>5. CallInPlace'
  <2>1. task.msg \in Persisted /\ task.msg \in Contracts
    BY DEF Inv, CallInPlace, Resting, Contracts
  <2>2. CASE pc' \in {"down", "idle"} /\ task' = NoTask
    BY <2>2, PlaceAtRest DEF Resting
  <2>3. CASE pc' = "complete" /\ task'.msg = task.msg
    BY <1>2, <2>1, <2>3, PlaceAtRest DEF Passing
  <2>4. CASE /\ pc' \in Advancing /\ task'.msg = task.msg /\ InPlace(o)'
             /\ pc' \in {"bind", "admit", "reserve"} => ~task'.fresh
    <3>1. \A p \in Operations : task'.msg = <<"contract", p>> => p = o
      BY <2>4
    <3>2. \A p \in Operations : task'.msg = <<"contract", p>> => InPlace(p)'
      BY <2>4, <3>1
    <3> QED BY <1>2, <2>1, <2>4, <3>2 DEF CallInPlace, Advancing
  <2> QED BY <2>2, <2>3, <2>4 DEF CallAdvances
<1>6. Fits'
  <2>1. ASSUME NEW p \in Operations \ {o}
        PROVE  OpFits(p)'
    <3>1. RowKept(p) /\ binding'[p] = binding[p]
      BY DEF TablesWritten, OthersKept, RowKept
    <3>2. OpFits(p) /\ ContextKept(p) /\ PressesKept(p)
      BY <1>1 DEF Inv, Fits
    <3> QED BY <3>1, <3>2, OpStays
  <2> QED BY <2>1 DEF Fits
<1>7. TypeOK'
  <2>1. \A p \in Operations : RowWell(p)'
    <3>1. \A p \in Operations : RowWell(p)
      BY DEF Inv, TypeOK, RowWell
    <3> QED BY <3>1 DEF RowWell, TablesWritten, OthersKept
  <2>2. pc' \in Labels /\ task'.msg \in Messages \cup {NoMessage}
    <3>1. task.msg \in Messages
      BY DEF Messages, Contracts
    <3>2. NoTask.msg = NoMessage
      BY DEF NoTask
    <3> QED BY <3>1, <3>2 DEF CallAdvances, Advancing, Labels
  <2>3. journal' \in Journals
    BY DEF TablesWritten
  <2> QED BY <2>1, <2>2, <2>3
          DEF Inv, TypeOK, Journals, JournalStates, TablesWritten, RowWell, PressRecords,
              rows, contexts
<1>8. Told
  <2>1. \A p \in Operations \ {o} : Still(p)
    BY DEF TablesWritten, OthersKept, Still
  <2> QED BY <1>1, <2>1, OneTold
<1> QED BY <1>3, <1>4, <1>5, <1>6, <1>7, <1>8 DEF Inv

\* Nothing was written.
LEMMA NothingWritten ==
    ASSUME Inv, NEW o \in Operations
    PROVE  /\ UNCHANGED <<store, binding>> => TablesWritten(o) /\ RowWell(o)'
           /\ UNCHANGED presses => presses' \in Seq(PressRecords)
           /\ RowWell(o) /\ journal \in Journals
           /\ faults \in 0..MaxFaults /\ loops \in Nat
           /\ outbox \subseteq Operations \X {"RUNNING", "SUCCEEDED", "HELD"}
           /\ Budgets(budget) /\ Decisions(decision) /\ Table(evidence) /\ Table(binding)
           /\ OpFits(o) /\ TaskShape
<1>1. journal \in Journals /\ RowWell(o)
  BY DEF Inv, TypeOK, Journals, JournalStates, RowWell
<1> QED BY <1>1 DEF Inv, TypeOK, Shapes, Fits, RowWell, TablesWritten, store, OthersKept,
                    PressRecords

\* As long as nothing is decided nothing is pressed or reported.
LEMMA Undecided ==
    ASSUME NEW o, OpFits(o), ~Decided(o)
    PROVE  /\ ~Commanded(o) /\ ~Withheld(o) /\ PressesOf(o) = {}
           /\ evidence[o] = NoEvidence /\ journal[o].state \notin Terminal
<1>1. ~Commanded(o) /\ ~Withheld(o)
  BY DEF OpFits, RowFits, Decided, Withheld, Executes, Actions, Holds
<1> QED BY <1>1 DEF OpFits, RowFits, PressFits, EvidenceFits

LEMMA UndecidedFits ==
    ASSUME NEW o, OpFits(o), ~Decided(o), decision'[o] = decision[o],
           evidence'[o] = evidence[o], PressesOf(o)' = PressesOf(o),
           journal'[o].state \notin Terminal,
           journal'[o].dispatched => budget'[o].reserved,
           journal'[o].state \in {"NONE", "ACCEPTED"} => ~journal'[o].dispatched,
           journal'[o].state = "DISPATCH_RECORDED" => journal'[o].dispatched
    PROVE  OpFits(o)'
<1>1. /\ ~Commanded(o) /\ ~Withheld(o) /\ PressesOf(o) = {}
      /\ evidence[o] = NoEvidence
  BY Undecided
<1>2. ~Commanded(o)' /\ decision'[o].action \notin Executes
  BY <1>1 DEF Commanded, OpFits, RowFits
<1>3. RowFits(o)'
  BY <1>2 DEF RowFits
<1>4. PressFits(o)'
  BY <1>1 DEF PressFits
<1>5. EvidenceFits(o)'
  BY <1>1 DEF EvidenceFits, NoEvidence
<1> QED BY <1>3, <1>4, <1>5 DEF OpFits

\* The locals of the call.
LEMMA TaskWritten ==
    ASSUME TaskShape
    PROVE  /\ \A a, c : task' = [task EXCEPT !.action = a, !.command = c]
                 => /\ TaskShape' /\ task'.msg = task.msg /\ task'.action = a
                    /\ task'.command = c /\ task'.fresh = task.fresh
           /\ \A c : task' = [task EXCEPT !.command = c]
                 => /\ TaskShape' /\ task'.msg = task.msg /\ task'.fresh = task.fresh
           /\ task' = [task EXCEPT !.fresh = TRUE]
                 => /\ TaskShape' /\ task'.msg = task.msg /\ task'.action = task.action
                    /\ task'.command = task.command
           /\ task' = task => TaskShape'
           /\ task' = NoTask => TaskShape'
BY DEF TaskShape, NoTask
-----------------------------------------------------------------------------
(* From the contract to its dispatch.                                      *)

LEMMA HoldStep ==
    ASSUME Inv, Elsewhere, NEW o \in Operations, NEW action \in Actions \ Executes,
           task.msg = <<"contract", o>>,
           pc \in {"process", "bind", "admit", "reserve"}, RecordHold(o, action),
           \/ binding' = binding
           \/ pc = "bind" /\ binding' = [binding EXCEPT ![o] = task.command]
    PROVE  Inv' /\ Told
<1>1. TypeOK' /\ Shapes' /\ EvidenceSame /\ CallInPlace' /\ Fits' /\ Told
  BY HoldFits
<1>2. Arrivals'
  BY <1>1, EvidenceStays DEF Inv
<1> QED BY <1>1, <1>2 DEF Inv

\* A command is derived of the context the contract is decided on.
LEMMA DecisionIsAimed ==
    ASSUME Inv, NEW o \in Operations, Deciding(o),
           NEW context, context = ContextFor(o),
           NEW action, action = Decide(context.intent, context.reference, context.current,
                                       Level(context.intent.target), context.device),
           action \in Executes
    PROVE  Aimed(o, DeriveCommand(context.intent, context.reference, context.current,
                                  action))
<1>1. Candidates(o) # {} /\ Refusal(o) = "none" /\ ~Decided(o)
  BY DEF Deciding, Ready
<1>2. PICK m \in Candidates(o) : context = Content(m) /\ Content(m) \in Given
  BY <1>1, FirstExists DEF Inv
<1>3. /\ context.reference # NoObservation /\ context.intent.target \in Buttons
      /\ context.contract = o /\ context.operation = o
  BY <1>1 DEF Refusal
<1>4. /\ context.intent.max_displacement \in Nat
      /\ \A observation \in {context.current, context.reference} :
            /\ observation.id # "none" /\ IsFiniteSet(observation.detections)
            /\ \A d \in observation.detections : d.pos \in Nat
  BY <1>2, <1>3, ContentAssumption DEF ContentAssumption, ObservationsIn
<1> DEFINE level == Level(context.intent.target)
           command == DeriveCommand(context.intent, context.reference, context.current, action)
<1>5. level.device = Device
  BY DEF Level
<1>6. LET shown == {d \in context.current.detections : context.intent.target \in d.candidates}
      IN  /\ context.reference = context.intent.digest
          /\ level.device = context.device
          /\ context.current.source = context.reference.source
          /\ \A d \in shown : /\ d.candidates = {context.intent.target} /\ d.visible
                             /\ d.pos = command.pos
          /\ \E d \in shown : \E r \in context.reference.detections :
                /\ r.id = context.intent.detection
                /\ r.candidates = {context.intent.target}
                /\ d.pos - r.pos \in
                      -context.intent.max_displacement..context.intent.max_displacement
          /\ command.frame = context.current.frame
          /\ context.current.frame = context.reference.frame
          /\ command.frame = context.intent.frame
          /\ command # NoCommand /\ command.pos \in Nat
          /\ \E d \in UniqueMatch(context.current, context.intent.target) :
                d.pos = command.pos
  <2> PICK intent, reference, current : /\ intent = context.intent
                                        /\ reference = context.reference
                                        /\ current = context.current
    OBVIOUS
  <2> HIDE DEF level
  <2>1. /\ IsFiniteSet(reference.detections) /\ IsFiniteSet(current.detections)
        /\ \A d \in reference.detections \cup current.detections : d.pos \in Nat
        /\ reference.id # "none" /\ current.id # "none" /\ intent.max_displacement \in Nat
    BY <1>4
  <2>2. action = Decide(intent, reference, current, level, context.device)
    BY DEF level
  <2> QED BY <2>1, <2>2, ExecuteIsJustified
<1> HIDE DEF level, command
<1>7. Justified(o, command)
  BY <1>5, <1>6 DEF Justified
<1>8. \E k \in Persisted \cap ContextMessages : Content(k).contract = o
  <2>1. m \in Persisted \cap ContextMessages
    BY DEF Candidates
  <2> QED BY <1>2, <1>3, <2>1
<1>9. Aimed(o, command)
  BY <1>2, <1>3, <1>6, <1>7, <1>8 DEF Aimed
<1> QED BY <1>9 DEF command

LEMMA DecideHolds ==
    ASSUME NEW intent, NEW reference, NEW current, NEW level, NEW expected
    PROVE  Decide(intent, reference, current, level, expected) \in Actions
BY DEF Decide, VerifyReference, Actions, Holds, Executes

LEMMA HandlerSteps ==
    ASSUME Inv, NEW o \in Operations, Refuse(o) \/ TakeDecision(o) \/ LevelError(o)
    PROVE  Inv' /\ Told
<1>1. ASSUME Refuse(o)
      PROVE  Inv' /\ Told
  <2>1. Elsewhere
    BY <1>1 DEF Refuse, Elsewhere, device, Inv, TypeOK
  <2>2. Refusal(o) \in Actions \ Executes
    BY <1>1, RefusalHolds DEF Refuse
  <2> QED BY <1>1, <2>1, <2>2, HoldStep DEF Refuse, Ready, Processing, device
<1>2. ASSUME LevelError(o)
      PROVE  Inv' /\ Told
  <2>1. Elsewhere
    <3>1. faults' \in 0..MaxFaults
      BY <1>2, FaultCounted DEF LevelError, Inv
    <3> QED BY <1>2, <3>1 DEF LevelError, Elsewhere, device
  <2>2. "HOLD_CONTEXT_MISMATCH" \in Actions \ Executes
    BY DEF Actions, Holds, Executes
  <2> QED BY <1>2, <2>1, <2>2, HoldStep DEF LevelError, Deciding, Ready, Processing, device
<1>3. ASSUME TakeDecision(o)
      PROVE  Inv' /\ Told
  <2> PICK context : context = ContextFor(o)
    OBVIOUS
  <2> PICK action : action = Decide(context.intent, context.reference, context.current,
                                    Level(context.intent.target), context.device)
    OBVIOUS
  <2>1. /\ Deciding(o) /\ Candidates(o) # {} /\ Refusal(o) = "none" /\ ~Decided(o)
        /\ pc = "process" /\ task.msg = <<"contract", o>>
        /\ UNCHANGED <<received_at, contexts, device, sent, mode, faults>>
        /\ IF action \in Executes
           THEN /\ task' = [task EXCEPT
                      !.action = action,
                      !.command = DeriveCommand(context.intent, context.reference,
                                                context.current, action)]
                /\ pc' = "bind" /\ UNCHANGED <<inbox, store, loops>>
           ELSE RecordHold(o, action)
    BY <1>3 DEF TakeDecision, Deciding, Ready, Processing, Goto
  <2>2. action \in Actions
    BY DecideHolds
  <2>3. CASE action \notin Executes
    <3>1. Elsewhere
      BY <2>1 DEF Elsewhere, device, Inv, TypeOK
    <3> QED BY <2>1, <2>2, <2>3, <3>1, HoldStep DEF device
  <2>4. CASE action \in Executes
    <3> PICK command : command = DeriveCommand(context.intent, context.reference,
                                               context.current, action)
      OBVIOUS
    <3>1. task' = [task EXCEPT !.action = action, !.command = command]
      BY <2>1, <2>4
    <3>2. /\ TaskShape' /\ task'.msg = task.msg /\ task'.action = action
          /\ task'.command = command /\ task'.fresh = task.fresh
      BY ZenonT(30), <3>1, TaskWritten, NothingWritten
    <3>3. Aimed(o, command)
      BY <2>1, <2>4, DecisionIsAimed
    <3>4. UNCHANGED <<rows, contexts, sent, store, binding, presses, world, mode, loops,
                      faults>> /\ pc' = "bind"
      BY <2>1, <2>4 DEF rows, device
    <3>5. /\ Candidates(o)' = Candidates(o) /\ (Decided(o)' <=> Decided(o))
          /\ Refusal(o)' = Refusal(o) /\ Aimed(o, command)'
      <4>1. Decided(o)' <=> Decided(o)
        BY <3>4 DEF Decided, store
      <4> QED BY <3>3, <3>4, <4>1, KeptOn
    <3>6. InPlace(o)'
      <4>1. Aimed(o, task.command)'
        BY <3>2, <3>5 DEF Aimed, Justified
      <4> QED BY <2>1, <2>4, <3>2, <3>4, <3>5, <4>1 DEF InPlace
    <3>7. ~task'.fresh
      BY <2>1, <3>2 DEF Inv, CallInPlace
    <3>8. CallAdvances(o)
      BY <3>2, <3>4, <3>6, <3>7 DEF CallAdvances, Advancing
    <3>9. OpFits(o)' /\ \A p : PressesKept(p)
      <4>1. RowKept(o) /\ binding'[o] = binding[o]
        BY <3>4 DEF RowKept, store
      <4>2. ContextKept(o) /\ \A p : PressesKept(p)
        BY <3>4, KeptOn, NothingIsKept
      <4> QED BY <4>1, <4>2, OpStays DEF Inv, Fits
    <3>10. TablesWritten(o) /\ RowWell(o)' /\ presses' \in Seq(PressRecords)
           /\ faults' \in 0..MaxFaults /\ loops' \in Nat
      BY <3>4, NothingWritten
    <3>11. Happens(o)
      BY <3>4, <3>9 DEF Happens, Still, store
    <3> QED BY <2>1, <3>4, <3>8, <3>9, <3>10, <3>11, StepOn DEF Resting
  <2> QED BY <2>3, <2>4
<1> QED BY <1>1, <1>2, <1>3

LEMMA HoldIsNoExecute == "HOLD_CONTEXT_MISMATCH" \in Actions \ Executes
BY DEF Actions, Holds, Executes

LEMMA BindSteps ==
    ASSUME Inv, BindCommand \/ BindRaises
    PROVE  Inv' /\ Told
<1>1. pc = "bind"
  BY DEF BindCommand, BindRaises
<1>2. PICK o \in Operations : task.msg = <<"contract", o>> /\ Operation = o /\ InPlace(o)
  BY <1>1, OnContract DEF Inv
<1>3. ASSUME BindRaises
      PROVE  Inv' /\ Told
  <2>1. Elsewhere
    <3>1. faults' \in 0..MaxFaults
      BY <1>3, FaultCounted DEF BindRaises, Inv
    <3> QED BY <1>3, <3>1 DEF BindRaises, Elsewhere
  <2>2. RecordHold(o, "HOLD_CONTEXT_MISMATCH")
    BY <1>2, <1>3 DEF BindRaises
  <2>3. binding' = binding \/ binding' = [binding EXCEPT ![o] = task.command]
    BY <1>2, <1>3 DEF BindRaises
  <2> QED BY <1>1, <1>2, <2>1, <2>2, <2>3, HoldIsNoExecute, HoldStep
<1>4. ASSUME BindCommand, ~Bindable(o, task.command)
      PROVE  Inv' /\ Told
  <2>1. Elsewhere
    BY <1>4 DEF BindCommand, Elsewhere, Inv, TypeOK
  <2>2. RecordHold(o, "HOLD_CONTEXT_MISMATCH") /\ binding' = binding
    BY <1>2, <1>4 DEF BindCommand
  <2> QED BY <1>1, <1>2, <2>1, <2>2, HoldIsNoExecute, HoldStep
<1>5. ASSUME BindCommand, Bindable(o, task.command)
      PROVE  Inv' /\ Told
  <2>1. /\ binding' = Put(binding, o, task.command) /\ pc' = "admit"
        /\ UNCHANGED <<rows, store, task, loops, contexts, presses, world, sent, mode,
                       faults>>
    BY <1>2, <1>5 DEF BindCommand, Put, Goto, rows
  <2>2. /\ Table(binding') /\ binding'[o] = task.command
        /\ OthersKept(binding, binding', o)
    BY <2>1, TableWritten, NothingWritten
  <2>3. /\ ~Decided(o) /\ Candidates(o) # {} /\ Refusal(o) = "none"
        /\ task.action \in Executes /\ Aimed(o, task.command)
    BY <1>1, <1>2 DEF InPlace
  <2>4. /\ Candidates(o)' = Candidates(o) /\ (Decided(o)' <=> Decided(o))
        /\ Refusal(o)' = Refusal(o) /\ Aimed(o, task.command)' /\ ContextKept(o)
    <3>1. Decided(o)' <=> Decided(o)
      BY <2>1 DEF Decided, store
    <3> PICK c : c = task.command
      OBVIOUS
    <3>2. Aimed(o, c)' /\ task'.command = c
      BY <2>1, <2>3, KeptOn
    <3>3. Aimed(o, task.command)'
      BY <3>2 DEF Aimed, Justified
    <3> QED BY <2>1, <3>1, <3>3, KeptOn
  <2>5. InPlace(o)'
    BY <2>1, <2>2, <2>3, <2>4 DEF InPlace
  <2>6. ~task.fresh
    BY <1>1 DEF Inv, CallInPlace
  <2>7. CallAdvances(o)
    <3>1. TaskShape'
      BY <2>1, TaskWritten, NothingWritten
    <3> QED BY <2>1, <2>5, <2>6, <3>1 DEF CallAdvances, Advancing
  <2>8. OpFits(o)' /\ \A p : PressesKept(p)
    <3>1. RowKept(o) /\ ~Commanded(o)
      BY <2>1, <2>3, Undecided, NothingWritten DEF RowKept, store
    <3>2. \A p : PressesKept(p)
      BY <2>1, NothingIsKept
    <3> QED BY <2>4, <3>1, <3>2, OpStays DEF Inv, Fits
  <2>9. TablesWritten(o)
    BY <2>1, <2>2, NothingWritten DEF TablesWritten, store, OthersKept
  <2>10. RowWell(o)'
    <3>1. IsCommand(binding'[o]) /\ RowWell(o)
      BY <2>2, <2>3, NothingWritten DEF Aimed, IsCommand
    <3> QED BY <2>1, <3>1 DEF RowWell, store
  <2>11. presses' \in Seq(PressRecords) /\ faults' \in 0..MaxFaults /\ loops' \in Nat
    BY <2>1, NothingWritten
  <2>12. Happens(o)
    BY <2>1, <2>8 DEF Happens, Still, store
  <2> QED BY <1>1, <1>2, <2>1, <2>7, <2>8, <2>9, <2>10, <2>11, <2>12, StepOn DEF Resting
<1> QED BY <1>3, <1>4, <1>5

LEMMA AdmitSteps ==
    ASSUME Inv, Admit \/ ReservationRefused
    PROVE  Inv' /\ Told
<1>1. pc \in {"admit", "reserve"} /\ (Admit => pc = "admit")
  BY DEF Admit, ReservationRefused
<1>2. PICK o \in Operations : task.msg = <<"contract", o>> /\ Operation = o /\ InPlace(o)
  BY <1>1, OnContract DEF Inv
<1>3. ASSUME RecordHold(o, "HOLD_CONTEXT_MISMATCH"),
             UNCHANGED <<received_at, contexts, device, sent, mode, faults>>
      PROVE  Inv' /\ Told
  <2>1. Elsewhere
    BY <1>3 DEF Elsewhere, device, Inv, TypeOK
  <2> QED BY <1>1, <1>2, <1>3, <2>1, HoldIsNoExecute, HoldStep DEF device
<1>4. /\ ~Decided(o) /\ Candidates(o) # {} /\ Refusal(o) = "none"
      /\ task.action \in Executes /\ Aimed(o, task.command)
      /\ binding[o] = task.command /\ OpFits(o) /\ ~task.fresh /\ journal \in Journals
  BY <1>1, <1>2, NothingWritten DEF InPlace, Inv, CallInPlace
<1>5. ASSUME Admit, UNCHANGED <<received_at, contexts, device, sent, mode, faults>>,
             UNCHANGED <<inbox, decision, outbox, evidence, task, loops>>,
             \/ /\ journal' = Moved(journal, o, "ACCEPTED") /\ journal[o].state = "NONE"
                /\ budget' = Budgeted(budget, o, task.command) /\ pc' = "reserve"
             \/ /\ UNCHANGED <<journal, budget>> /\ journal[o].state # "NONE"
                /\ budget[o].command = task.command
                /\ pc' = IF journal[o].state = "ACCEPTED" THEN "reserve" ELSE "decide"
      PROVE  Inv' /\ Told
  <2>1. /\ journal' \in Journals /\ OthersKept(journal, journal', o)
        /\ Budgets(budget') /\ OthersKept(budget, budget', o)
        /\ journal'[o].dispatched = journal[o].dispatched
        /\ budget'[o].reserved = budget[o].reserved
        /\ budget'[o].command = task.command
        /\ journal'[o].state = IF journal[o].state = "NONE" THEN "ACCEPTED"
                               ELSE journal[o].state
        /\ pc' = IF journal'[o].state = "ACCEPTED" THEN "reserve" ELSE "decide"
    <3>1. CASE /\ journal' = Moved(journal, o, "ACCEPTED") /\ journal[o].state = "NONE"
               /\ budget' = Budgeted(budget, o, task.command) /\ pc' = "reserve"
      <4>1. "ACCEPTED" \in JournalStates /\ journal \in Journals /\ Budgets(budget)
        BY NothingWritten DEF JournalStates
      <4>2. /\ journal' \in Journals /\ OthersKept(journal, journal', o)
            /\ journal'[o].state = "ACCEPTED"
            /\ journal'[o].dispatched = journal[o].dispatched
        BY <3>1, <4>1, JournalWritten
      <4>3. /\ Budgets(budget') /\ OthersKept(budget, budget', o)
            /\ budget'[o].command = task.command
            /\ budget'[o].reserved = budget[o].reserved
        BY <3>1, <4>1, BudgetBound
      <4> QED BY <3>1, <4>2, <4>3
    <3>2. CASE /\ UNCHANGED <<journal, budget>> /\ journal[o].state # "NONE"
               /\ budget[o].command = task.command
               /\ pc' = IF journal[o].state = "ACCEPTED" THEN "reserve" ELSE "decide"
      BY <3>2, NothingWritten DEF OthersKept
    <3> QED BY <1>5, <3>1, <3>2
  <2>2. /\ UNCHANGED <<rows, contexts, sent, binding, presses, world, mode, loops, faults,
                       decision, evidence, outbox, task>>
    BY <1>5 DEF rows, device
  <2>3. /\ journal[o].state \in JournalStates /\ journal[o].state \notin Terminal
        /\ journal[o].dispatched \in BOOLEAN
    BY <1>4, Undecided DEF Journals
  <2>4. OpFits(o)'
    <3>1. PressesOf(o)' = PressesOf(o)
      BY <2>2 DEF PressesOf
    <3> QED BY <1>4, <2>1, <2>2, <2>3, <3>1, UndecidedFits DEF OpFits, RowFits, Terminal
  <2>5. /\ Candidates(o)' = Candidates(o) /\ (Decided(o)' <=> Decided(o))
        /\ Refusal(o)' = Refusal(o) /\ Aimed(o, task.command)'
    <3>1. Decided(o)' <=> Decided(o)
      BY <2>2 DEF Decided
    <3> PICK c : c = task.command
      OBVIOUS
    <3>2. Aimed(o, c)' /\ task'.command = c
      BY <1>4, <2>2, KeptOn
    <3>3. Aimed(o, task.command)'
      BY <3>2 DEF Aimed, Justified
    <3> QED BY <2>2, <3>1, <3>3, KeptOn
  <2>6. InPlace(o)'
    BY <1>4, <2>1, <2>2, <2>3, <2>5 DEF InPlace, JournalStates
  <2>7. CallAdvances(o)
    <3>1. TaskShape'
      BY <2>2, TaskWritten, NothingWritten
    <3> QED BY <1>4, <2>1, <2>2, <2>6, <3>1 DEF CallAdvances, Advancing
  <2>8. TablesWritten(o) /\ (\A p : PressesKept(p))
    BY <2>1, <2>2, NothingWritten, NothingIsKept DEF TablesWritten, OthersKept
  <2>9. RowWell(o)'
    <3>1. IsCommand(task.command) /\ RowWell(o)
      BY <1>4, NothingWritten DEF Aimed, IsCommand
    <3> QED BY <2>1, <2>2, <3>1 DEF RowWell
  <2>10. presses' \in Seq(PressRecords) /\ faults' \in 0..MaxFaults /\ loops' \in Nat
    BY <2>2, NothingWritten
  <2>11. Happens(o)
    <3>1. journal[o].state = "NONE" => ~journal[o].dispatched
      BY <1>4 DEF OpFits, RowFits
    <3> QED BY <2>1, <2>2, <2>8, <3>1 DEF Happens, Still
  <2> QED BY <1>1, <1>2, <2>2, <2>4, <2>7, <2>8, <2>9, <2>10, <2>11, StepOn DEF Resting
<1>6. ASSUME Admit, UNCHANGED <<received_at, contexts, device, sent, mode, faults>>
      PROVE  Inv' /\ Told
  <2>1. CASE journal[o].state = "NONE"
    BY <1>2, <1>5, <1>6, <2>1 DEF Admit, Moved, Budgeted, Goto
  <2>2. CASE journal[o].state # "NONE" /\ budget[o].command = task.command
    BY <1>2, <1>5, <1>6, <2>2 DEF Admit, Goto, store
  <2>3. CASE journal[o].state # "NONE" /\ budget[o].command # task.command
    BY <1>2, <1>3, <1>6, <2>3 DEF Admit
  <2> QED BY <2>1, <2>2, <2>3
<1>7. ASSUME ReservationRefused
      PROVE  Inv' /\ Told
  BY <1>2, <1>3, <1>7 DEF ReservationRefused
<1> QED BY <1>6, <1>7 DEF Admit
-----------------------------------------------------------------------------
(* From the dispatch to the verdict.                                       *)

LEMMA ReserveStep ==
    ASSUME Inv, Reserve
    PROVE  Inv' /\ Told
<1>1. pc = "reserve"
  BY DEF Reserve
<1>2. PICK o \in Operations : task.msg = <<"contract", o>> /\ Operation = o /\ InPlace(o)
  BY <1>1, OnContract DEF Inv
<1>3. /\ ~Decided(o) /\ Candidates(o) # {} /\ Refusal(o) = "none"
      /\ task.action \in Executes /\ Aimed(o, task.command)
      /\ binding[o] = task.command /\ budget[o].command = task.command
      /\ OpFits(o) /\ journal \in Journals
  BY <1>1, <1>2, NothingWritten DEF InPlace
<1>0. PICK yes : yes = TRUE
  OBVIOUS
<1>4. /\ journal' = Put(journal, o, [state |-> "DISPATCH_RECORDED", dispatched |-> TRUE])
      /\ budget' = Reserved(budget, o, yes) /\ task' = [task EXCEPT !.fresh = TRUE]
      /\ pc' = "decide"
      /\ UNCHANGED <<rows, contexts, sent, binding, presses, world, mode, loops, faults,
                     decision, evidence, outbox>>
  BY <1>0, <1>2 DEF Reserve, Put, Reserved, Goto, device, call
<1>5. /\ journal' \in Journals /\ OthersKept(journal, journal', o)
      /\ journal'[o].state = "DISPATCH_RECORDED" /\ journal'[o].dispatched
  BY <1>3, <1>4 DEF Journals, JournalStates, Put, OthersKept
<1>6. /\ Budgets(budget') /\ OthersKept(budget, budget', o)
      /\ budget'[o].command = task.command /\ budget'[o].reserved = yes
  BY <1>3, <1>4, BudgetReserved, NothingWritten
<1>7. /\ TaskShape' /\ task'.msg = task.msg /\ task'.action = task.action
      /\ task'.command = task.command
  BY <1>4, TaskWritten, NothingWritten
<1>8. /\ Candidates(o)' = Candidates(o) /\ (Decided(o)' <=> Decided(o))
      /\ Refusal(o)' = Refusal(o) /\ Aimed(o, task.command)'
  <2>1. Decided(o)' <=> Decided(o)
    BY <1>4 DEF Decided
  <2> PICK c : c = task.command
    OBVIOUS
  <2>2. Aimed(o, c)' /\ task'.command = c
    BY <1>3, <1>4, <1>7, KeptOn
  <2>3. Aimed(o, task.command)'
    BY <2>2 DEF Aimed, Justified
  <2> QED BY <1>4, <2>1, <2>3, KeptOn
<1>9. PressesOf(o)' = PressesOf(o) /\ PressesOf(o) = {}
  BY <1>3, <1>4, Undecided DEF PressesOf
<1>10. InPlace(o)'
  BY <1>3, <1>4, <1>5, <1>6, <1>7, <1>8, <1>9 DEF InPlace
<1>11. CallAdvances(o)
  BY <1>4, <1>7, <1>10 DEF CallAdvances, Advancing
<1>12. OpFits(o)'
  <2>1. /\ decision'[o] = decision[o] /\ evidence'[o] = evidence[o] /\ budget'[o].reserved
        /\ journal'[o].state \notin Terminal
    BY <1>0, <1>4, <1>5, <1>6 DEF Terminal
  <2> QED BY <1>3, <1>5, <1>9, <2>1, UndecidedFits
<1>13. TablesWritten(o) /\ (\A p : PressesKept(p))
  BY <1>4, <1>5, <1>6, NothingWritten, NothingIsKept DEF TablesWritten, OthersKept
<1>14. RowWell(o)'
  <2>1. IsCommand(task.command) /\ RowWell(o)
    BY <1>3, NothingWritten DEF Aimed, IsCommand
  <2> QED BY <1>0, <1>4, <1>6, <2>1 DEF RowWell
<1>15. presses' \in Seq(PressRecords) /\ faults' \in 0..MaxFaults /\ loops' \in Nat
  BY <1>4, NothingWritten
<1>16. Happens(o)
  <2>1. ~journal[o].dispatched
    BY <1>1, <1>2, <1>3 DEF InPlace, OpFits, RowFits
  <2> QED BY <1>3, <1>4, <1>5, <1>13, <2>1 DEF Happens, Dispatches
<1> QED BY <1>1, <1>2, <1>4, <1>11, <1>12, <1>13, <1>14, <1>15, <1>16, StepOn DEF Resting

LEMMA RecordDecisionStep ==
    ASSUME Inv, RecordDecision
    PROVE  Inv' /\ Told
<1>1. pc = "decide"
  BY DEF RecordDecision
<1>2. PICK o \in Operations : task.msg = <<"contract", o>> /\ Operation = o /\ InPlace(o)
  BY <1>1, OnContract DEF Inv
<1>3. /\ ~Decided(o) /\ task.action \in Executes /\ Aimed(o, task.command)
      /\ binding[o] = task.command /\ budget[o].command = task.command
      /\ journal[o].state = "DISPATCH_RECORDED" /\ (task.fresh => PressesOf(o) = {})
      /\ OpFits(o) /\ journal \in Journals
  BY <1>1, <1>2, NothingWritten DEF InPlace
<1>4. /\ decision' = Recorded(decision, o, task.action, task.command) /\ pc' = "running"
      /\ UNCHANGED <<rows, contexts, sent, binding, presses, world, mode, loops, faults,
                     journal, budget, evidence, outbox, task>>
  BY <1>2, <1>3 DEF RecordDecision, Recorded, Goto, device, Proven
<1>5. /\ Decisions(decision') /\ OthersKept(decision, decision', o)
      /\ decision'[o].action = task.action /\ decision'[o].command = task.command
  BY <1>4, DecisionWritten, NothingWritten
<1>6. /\ Commanded(o)' /\ task.command # NoCommand /\ ~Withheld(o)'
      /\ Proven(o, decision[o].command)' /\ Aimed(o, decision[o].command)'
  <2> PICK c : c = task.command
    OBVIOUS
  <2>1. Aimed(o, c)' /\ decision'[o].command = c
    BY <1>3, <1>4, <1>5, KeptOn
  <2>2. Aimed(o, decision[o].command)'
    BY <2>1 DEF Aimed, Justified
  <2> QED BY <1>3, <1>4, <1>5, <2>2 DEF Commanded, Aimed, Proven, Withheld
<1>7. /\ PressesOf(o) = {} /\ evidence[o] = NoEvidence
      /\ PressesOf(o)' = PressesOf(o) /\ journal[o].dispatched /\ budget[o].reserved
  BY <1>3, <1>4, Undecided DEF OpFits, RowFits, PressesOf
<1>8. OpFits(o)'
  <2>1. RowFits(o)'
    BY <1>3, <1>4, <1>5, <1>6, <1>7 DEF RowFits, Terminal
  <2>2. PressFits(o)'
    BY <1>7 DEF PressFits
  <2>3. EvidenceFits(o)'
    BY <1>3, <1>4, <1>7 DEF EvidenceFits, NoEvidence, Terminal
  <2> QED BY <2>1, <2>2, <2>3 DEF OpFits
<1>9. InPlace(o)'
  BY <1>3, <1>4, <1>6, <1>7 DEF InPlace
<1>10. CallAdvances(o)
  <2>1. TaskShape'
    BY <1>4, TaskWritten, NothingWritten
  <2> QED BY <1>4, <1>9, <2>1 DEF CallAdvances, Advancing
<1>11. TablesWritten(o) /\ (\A p : PressesKept(p))
  BY <1>4, <1>5, NothingWritten, NothingIsKept DEF TablesWritten, OthersKept
<1>12. RowWell(o)'
  <2>1. IsCommand(task.command) /\ RowWell(o)
    BY <1>3, NothingWritten DEF Aimed, IsCommand
  <2> QED BY <1>3, <1>4, <1>5, <2>1 DEF RowWell, Actions
<1>13. presses' \in Seq(PressRecords) /\ faults' \in 0..MaxFaults /\ loops' \in Nat
  BY <1>4, NothingWritten
<1>14. Happens(o)
  <2>1. Refusal(o) = "none"
    BY <1>1, <1>2 DEF InPlace
  <2> QED BY <1>3, <1>4, <1>6, <1>7, <1>11, <2>1 DEF Happens, Chooses
<1> QED BY <1>1, <1>2, <1>4, <1>8, <1>10, <1>11, <1>12, <1>13, <1>14, StepOn DEF Resting

\* The row and the device are as they were; the call goes on.
LEMMA GoOn ==
    ASSUME Inv, NEW o \in Operations, task.msg = <<"contract", o>>, pc \notin Resting,
           UNCHANGED <<rows, contexts, sent, journal, budget, decision, evidence, device,
                       mode, loops, faults>>,
           outbox' \subseteq Operations \X {"RUNNING", "SUCCEEDED", "HELD"},
           CallAdvances(o)
    PROVE  Inv' /\ Told
<1>1. OpFits(o)' /\ (\A p : PressesKept(p))
  <2>1. RowKept(o) /\ binding'[o] = binding[o]
    BY DEF RowKept, device
  <2>2. ContextKept(o) /\ (\A p : PressesKept(p))
    BY KeptOn, NothingIsKept DEF device
  <2> QED BY <2>1, <2>2, OpStays DEF Inv, Fits
<1>2. TablesWritten(o) /\ RowWell(o)'
  BY NothingWritten DEF TablesWritten, OthersKept, device, RowWell
<1>3. presses' \in Seq(PressRecords) /\ faults' \in 0..MaxFaults /\ loops' \in Nat
  BY NothingWritten DEF device
<1>4. Happens(o)
  BY <1>1 DEF Happens, Still
<1> QED BY <1>1, <1>2, <1>3, <1>4, StepOn DEF device

LEMMA RunStep ==
    ASSUME Inv, Run
    PROVE  Inv' /\ Told
<1>1. pc = "running"
  BY DEF Run
<1>2. PICK o \in Operations : task.msg = <<"contract", o>> /\ Operation = o /\ InPlace(o)
  BY <1>1, OnContract DEF Inv
<1>3. /\ journal[o].state = "DISPATCH_RECORDED" /\ Commanded(o)
      /\ task.fresh => PressesOf(o) = {}
  BY <1>1, <1>2 DEF InPlace
<1>4. /\ pc' = (IF task.fresh THEN "press" ELSE "resolve")
      /\ outbox' = outbox \cup {<<o, "RUNNING">>}
      /\ UNCHANGED <<rows, contexts, sent, journal, budget, decision, evidence, device,
                     mode, loops, faults, task>>
  BY <1>2 DEF Run, PressesNow, Goto, call
<1>5. InPlace(o)'
  BY <1>3, <1>4 DEF InPlace, Commanded, PressesOf, device
<1>6. CallAdvances(o)
  <2>1. TaskShape'
    BY <1>4, TaskWritten, NothingWritten
  <2> QED BY <1>4, <1>5, <2>1 DEF CallAdvances, Advancing
<1>7. outbox' \subseteq Operations \X {"RUNNING", "SUCCEEDED", "HELD"}
  BY <1>4, NothingWritten
<1> QED BY <1>1, <1>2, <1>4, <1>6, <1>7, GoOn DEF Resting

LEMMA ReplayStep ==
    ASSUME Inv, NEW o \in Operations, Replay(o)
    PROVE  Inv' /\ Told
<1>1. /\ pc = "process" /\ task.msg = <<"contract", o>>
      /\ UNCHANGED <<rows, contexts, store, device, sent, mode, faults>>
  BY DEF Replay, Ready, Processing
<1>2. OpFits(o) /\ outbox \subseteq Operations \X {"RUNNING", "SUCCEEDED", "HELD"}
  BY NothingWritten
<1>3. CASE Commanded(o) /\ ~Proven(o, decision[o].command)
  BY <1>2, <1>3 DEF OpFits, RowFits
<1>4. CASE ~(Commanded(o) /\ ~Proven(o, decision[o].command))
  <2> PICK c : c = decision[o].command
    OBVIOUS
  <2>1. /\ pc' = IF Commanded(o) /\ journal[o].state = "DISPATCH_RECORDED"
                 THEN "running" ELSE "complete"
        /\ task' = [task EXCEPT !.command = c] /\ UNCHANGED loops
    BY <1>4 DEF Replay, Goto
  <2>2. TaskShape' /\ task'.msg = task.msg /\ task'.fresh = task.fresh
    BY <2>1, TaskWritten, NothingWritten
  <2>3. ~task.fresh
    BY <1>1 DEF Inv, CallInPlace
  <2>4. pc' = "running" => InPlace(o)'
    BY <1>1, <2>1, <2>2, <2>3 DEF InPlace, Commanded, store
  <2>5. CallAdvances(o)
    BY <2>1, <2>2, <2>4 DEF CallAdvances, Advancing
  <2> QED BY <1>1, <1>2, <2>1, <2>5, GoOn DEF Resting, store
<1> QED BY <1>3, <1>4

LEMMA PressSteps ==
    ASSUME Inv, Press \/ PressRaises
    PROVE  Inv' /\ Told
<1>1. pc = "press"
  BY DEF Press, PressRaises
<1>2. PICK o \in Operations :
         task.msg = <<"contract", o>> /\ Operation = o /\ InPlace(o) /\ task.msg \in Persisted
  BY <1>1, OnContract DEF Inv
<1>3. /\ journal[o].state = "DISPATCH_RECORDED" /\ Commanded(o) /\ PressesOf(o) = {}
      /\ OpFits(o)
  BY <1>1, <1>2, NothingWritten DEF InPlace
<1>4. /\ Proven(o, decision[o].command) /\ Aimed(o, decision[o].command)
      /\ binding[o] = decision[o].command
      /\ journal[o].dispatched /\ budget[o].reserved /\ evidence[o] = NoEvidence
  BY <1>3 DEF OpFits, RowFits, EvidenceFits, Proven, Terminal
<1>5. UNCHANGED <<rows, contexts, sent, store, binding, world, mode>>
  BY DEF Press, PressRaises, call
<1>6. ASSUME PressRaises, UNCHANGED presses
      PROVE  Inv' /\ Told
  <2>1. faults' \in 0..MaxFaults
    BY <1>6, FaultCounted DEF PressRaises, Inv
  <2>2. /\ bound' \in [Operations -> Contents] /\ disputed' \subseteq Operations
        /\ mode' \in {"handle", "recover"}
    BY <1>5 DEF contexts, Inv, TypeOK
  <2>3. pc' \in Resting /\ task' = NoTask /\ loops' = 0
    BY <1>6 DEF PressRaises, Raise, Goto, Resting
  <2>4. TaskShape'
    BY <2>3 DEF TaskShape, NoTask
  <2> QED BY <1>5, <1>6, <2>1, <2>2, <2>3, <2>4, QuietStep DEF device, rows
<1>7. ASSUME Impulse(o), faults' \in 0..MaxFaults, loops' \in Nat, CallAdvances(o)
      PROVE  Inv' /\ Told
  <2> DEFINE c == binding[o]
             r == [key |-> o, pos |-> c.pos, contact |-> Contact(c)]
             n == Len(presses) + 1
             target == ContextFor(o).intent.target
  <2>1. /\ presses \in Seq(PressRecords) /\ world \in DOMAIN Worlds
        /\ presses' = Append(presses, r)
    BY <1>7 DEF Inv, TypeOK, PressRecords, Impulse
  <2>2. /\ Contact(c) \in Buttons \cup {"NONE"}
        /\ Contact(c) = target \/ world # 1
    BY <1>4, <2>1, Strikes
  <2>3. r \in PressRecords /\ r.key = o /\ r.pos = c.pos /\ r.contact = Contact(c)
    <3>1. c.pos \in Nat
      BY <1>4 DEF Aimed
    <3> QED BY <2>2, <3>1 DEF PressRecords
  <2> HIDE DEF r
  <2>4. /\ presses' \in Seq(PressRecords) /\ n \notin DOMAIN presses
        /\ presses'[n] = r /\ PressesOf(o)' = PressesOf(o) \cup {n}
        /\ \A p : p # o => PressesKept(p)
    BY <1>5, <2>1, <2>3, PressAppended
  <2> HIDE DEF n
  <2>5. PressesOf(o)' = {n}
    BY <1>3, <2>4
  <2>6. /\ Commanded(o)' /\ Proven(o, decision[o].command)'
        /\ ContextFor(o)' = ContextFor(o) /\ Aimed(o, decision[o].command)'
    <3> PICK d : d = decision[o].command
      OBVIOUS
    <3>1. Aimed(o, d)' /\ decision'[o].command = d
      BY <1>4, <1>5, KeptOn DEF store
    <3>2. Aimed(o, decision[o].command)'
      BY <3>1 DEF Aimed, Justified
    <3>3. EvidenceSame
      BY <1>5, KeptOn
    <3>4. ContextFor(o)' = ContextFor(o)
      BY <3>3, EvidenceStays
    <3> QED BY <1>3, <1>4, <1>5, <3>2, <3>4 DEF Commanded, Proven, store
  <2>7. RowFits(o)'
    BY <1>3, <1>5, <2>6 DEF OpFits, RowFits, store, Withheld, Commanded, Proven
  <2>8. PressFits(o)'
    <3>1. /\ presses'[n].pos = decision'[o].command.pos
          /\ presses'[n].contact = ContextFor(o)'.intent.target \/ world' # 1
      BY <1>4, <1>5, <2>2, <2>3, <2>4, <2>6 DEF store
    <3>2. journal'[o].dispatched /\ budget'[o].reserved
      BY <1>4, <1>5 DEF store
    <3> QED BY <2>5, <2>6, <3>1, <3>2 DEF PressFits
  <2>9. EvidenceFits(o)'
    BY <1>3, <1>4, <1>5 DEF EvidenceFits, NoEvidence, store, Terminal
  <2>10. OpFits(o)'
    BY <2>7, <2>8, <2>9 DEF OpFits
  <2>11. TablesWritten(o) /\ RowWell(o)'
    BY <1>5, NothingWritten
  <2>12. Happens(o)
    BY <1>3, <1>5 DEF Happens, Presses, store
  <2> QED BY <1>1, <1>2, <1>5, <1>7, <2>4, <2>10, <2>11, <2>12, StepOn DEF Resting
<1>8. ASSUME Press
      PROVE  Inv' /\ Told
  <2>1. /\ Impulse(o) /\ pc' = "resolve"
        /\ UNCHANGED <<contexts, store, world, sent, call, task, faults>>
    BY <1>2, <1>8 DEF Press, Goto
  <2>2. InPlace(o)'
    BY <1>3, <2>1 DEF InPlace, Commanded, store
  <2>3. CallAdvances(o)
    <3>1. TaskShape'
      BY <2>1, TaskWritten, NothingWritten
    <3> QED BY <2>1, <2>2, <3>1 DEF CallAdvances, Advancing
  <2>4. faults' \in 0..MaxFaults /\ loops' \in Nat
    BY <2>1, NothingWritten DEF call
  <2> QED BY <1>7, <2>1, <2>3, <2>4
<1>9. ASSUME PressRaises, Impulse(o)
      PROVE  Inv' /\ Told
  <2>1. faults' \in 0..MaxFaults
    BY <1>9, FaultCounted DEF PressRaises, Inv
  <2>2. pc' \in {"down", "idle"} /\ task' = NoTask /\ loops' = 0
    BY <1>9 DEF PressRaises, Raise, Goto
  <2>3. CallAdvances(o)
    BY <2>2 DEF CallAdvances, TaskShape, NoTask
  <2> QED BY <1>7, <1>9, <2>1, <2>2, <2>3
<1>10. PressRaises => Impulse(o) \/ UNCHANGED presses
  BY <1>2 DEF PressRaises
<1> QED BY <1>6, <1>8, <1>9, <1>10

\* What the device says of an operation with at most one press.
LEMMA ObservedIsStruck ==
    ASSUME NEW o, PressFits(o), presses \in Seq(PressRecords)
    PROVE  Observed(o) = Struck(o)
<1>1. OwnRecords(o) = PressesOf(o)
  BY DEF OwnRecords, PressesOf
<1>2. CASE PressesOf(o) = {}
  BY <1>1, <1>2 DEF Observed, Struck
<1>3. CASE PressesOf(o) # {}
  <2>1. PICK i \in PressesOf(o) : PressesOf(o) = {i}
    BY <1>3 DEF PressFits
  <2>2. i \in Int
    <3>1. DOMAIN presses = 1..Len(presses) /\ Len(presses) \in Nat
      BY LenProperties
    <3> QED BY <3>1 DEF PressesOf
  <2> DEFINE last == CHOOSE k \in OwnRecords(o) : \A j \in OwnRecords(o) : j <= k
             any == CHOOSE k \in PressesOf(o) : TRUE
  <2>3. last = i
    BY <1>1, <2>1, <2>2
  <2>4. any = i
    BY <2>1
  <2>5. Observed(o) = presses[last].contact /\ Struck(o) = presses[any].contact
    BY <1>1, <1>3 DEF Observed, Struck
  <2> HIDE DEF last, any
  <2> QED BY <2>3, <2>4, <2>5
<1> QED BY <1>2, <1>3

\* The verdict that is written is what the device says, or that it is not known.
IsVerdict(o, proof) ==
    /\ proof # NoEvidence /\ proof.outcome \in {"APPLIED", "NOT_APPLIED", "UNKNOWN"}
    /\ IF proof.verified
       THEN /\ proof.contact = Struck(o)
            /\ proof.executed <=> Struck(o) \in Buttons
            /\ proof.goal <=> Struck(o) = ContextFor(o).intent.target
            /\ proof.outcome = IF proof.goal THEN "APPLIED" ELSE "NOT_APPLIED"
       ELSE proof.outcome = "UNKNOWN" /\ proof.contact = "null"

LEMMA VerdictIsObserved ==
    ASSUME NEW o, PressFits(o), presses \in Seq(PressRecords)
    PROVE  IsVerdict(o, Proof(o, Observed(o))) /\ IsVerdict(o, Unverified)
<1>1. Observed(o) = Struck(o)
  BY ObservedIsStruck
<1> PICK contact : contact = Struck(o)
  OBVIOUS
<1>2. IsVerdict(o, Proof(o, contact))
  BY DEF IsVerdict, Proof, Attains, NoEvidence
<1>3. IsVerdict(o, Unverified)
  BY DEF IsVerdict, Unverified, NoEvidence
<1> QED BY <1>1, <1>2, <1>3

LEMMA ResolveSteps ==
    ASSUME Inv, Resolve \/ ResolveUnverified
    PROVE  Inv' /\ Told
<1>1. pc = "resolve"
  BY DEF Resolve, ResolveUnverified, ResolveAs
<1>2. PICK o \in Operations : task.msg = <<"contract", o>> /\ Operation = o /\ InPlace(o)
  BY <1>1, OnContract DEF Inv
<1>3. /\ journal[o].state = "DISPATCH_RECORDED" /\ Commanded(o) /\ OpFits(o)
      /\ journal \in Journals /\ presses \in Seq(PressRecords)
  BY <1>1, <1>2, NothingWritten DEF InPlace, Inv, TypeOK, PressRecords
<1>4. PICK proof : IsVerdict(o, proof) /\ ResolveAs(o, proof) /\ faults' \in 0..MaxFaults
  <2>1. IsVerdict(o, Proof(o, Observed(o))) /\ IsVerdict(o, Unverified)
    BY <1>3, VerdictIsObserved DEF OpFits
  <2>2. Resolve => ResolveAs(o, Proof(o, Observed(o))) /\ faults' \in 0..MaxFaults
    BY <1>2, NothingWritten DEF Resolve
  <2>3. ResolveUnverified => ResolveAs(o, Unverified) /\ faults' \in 0..MaxFaults
    BY <1>2, FaultCounted DEF ResolveUnverified, Inv
  <2> QED BY <2>1, <2>2, <2>3
<1> PICK verdict : verdict = IF proof.outcome = "APPLIED" THEN "SUCCEEDED" ELSE "HELD"
  OBVIOUS
<1> PICK resolution : resolution = proof.outcome
  OBVIOUS
<1>5. /\ journal' = Moved(journal, o, verdict) /\ budget' = Resolved(budget, o, resolution)
      /\ outbox' = outbox \cup {<<o, verdict>>} /\ evidence' = Put(evidence, o, proof)
      /\ pc' = "complete"
      /\ UNCHANGED <<rows, contexts, sent, decision, binding, presses, world, mode, loops,
                     task>>
  BY <1>4 DEF ResolveAs, Moved, Resolved, Put, Goto, device, call
<1>6. verdict \in {"SUCCEEDED", "HELD"} /\ verdict \in JournalStates /\ verdict \in Terminal
  BY DEF JournalStates, Terminal
<1>7. /\ journal' \in Journals /\ OthersKept(journal, journal', o)
      /\ journal'[o].state = verdict /\ journal'[o].dispatched = journal[o].dispatched
  BY <1>3, <1>5, <1>6, JournalWritten
<1>8. /\ Budgets(budget') /\ OthersKept(budget, budget', o)
      /\ budget'[o].command = budget[o].command
      /\ budget'[o].reserved = budget[o].reserved
  BY <1>5, BudgetResolved, NothingWritten
<1>9. /\ Table(evidence') /\ OthersKept(evidence, evidence', o) /\ evidence'[o] = proof
  BY <1>5, TableWritten, NothingWritten
<1>10. /\ (Commanded(o)' <=> Commanded(o)) /\ (Withheld(o)' <=> Withheld(o))
       /\ Proven(o, decision[o].command)' /\ Aimed(o, decision[o].command)'
       /\ ContextFor(o)' = ContextFor(o) /\ (\A p : PressesKept(p))
  <2>1. Aimed(o, decision[o].command) /\ Proven(o, decision[o].command)
    BY <1>3 DEF OpFits, RowFits
  <2> PICK d : d = decision[o].command
    OBVIOUS
  <2>2. Aimed(o, d)' /\ decision'[o].command = d
    BY <1>5, <2>1, KeptOn
  <2>3. Aimed(o, decision[o].command)'
    BY <2>2 DEF Aimed, Justified
  <2>4. EvidenceSame
    BY <1>5, KeptOn
  <2>5. ContextFor(o)' = ContextFor(o) /\ (\A p : PressesKept(p))
    BY <1>5, <2>4, EvidenceStays, NothingIsKept
  <2> QED BY <1>5, <1>8, <2>1, <2>3, <2>5 DEF Commanded, Withheld, Proven
<1>11. RowFits(o)'
  BY <1>3, <1>5, <1>6, <1>7, <1>8, <1>10 DEF OpFits, RowFits, Terminal, Commanded
<1>12. PressFits(o)'
  BY <1>3, <1>5, <1>7, <1>8, <1>10 DEF OpFits, PressFits, PressesKept, Proven
<1>13. EvidenceFits(o)'
  <2>1. Struck(o)' = Struck(o)
    BY <1>10, StruckStays
  <2>2. journal'[o].dispatched /\ journal'[o].state \in Terminal
    BY <1>3, <1>6, <1>7 DEF OpFits, RowFits
  <2>3. IsVerdict(o, proof)
    BY <1>4
  <2>4. verdict = "SUCCEEDED" <=> proof.outcome = "APPLIED"
    OBVIOUS
  <2> QED BY <1>7, <1>9, <1>10, <2>1, <2>2, <2>3, <2>4 DEF EvidenceFits, IsVerdict
<1>14. OpFits(o)'
  BY <1>11, <1>12, <1>13 DEF OpFits
<1>15. TablesWritten(o)
  BY <1>5, <1>6, <1>7, <1>8, <1>9, NothingWritten DEF TablesWritten, OthersKept
<1>16. RowWell(o)'
  BY <1>5, <1>8, NothingWritten DEF RowWell
<1>17. CallAdvances(o)
  <2>1. TaskShape'
    BY <1>5, TaskWritten, NothingWritten
  <2> QED BY <1>5, <2>1 DEF CallAdvances, Advancing
<1>18. presses' \in Seq(PressRecords) /\ faults' \in 0..MaxFaults /\ loops' \in Nat
  BY <1>4, <1>5, NothingWritten
<1>19. Happens(o)
  BY <1>3, <1>5, <1>6, <1>7, <1>10 DEF Happens, Answers
<1> QED BY <1>1, <1>2, <1>5, <1>10, <1>14, <1>15, <1>16, <1>17, <1>18, <1>19, StepOn
        DEF Resting
-----------------------------------------------------------------------------
(* The invariant.                                                          *)

LEMMA InvInit == Init => Inv
<1> SUFFICES ASSUME Init
             PROVE  Inv
  OBVIOUS
<1> USE DEF Init
<1>2. Persisted = {}
  BY DEF Persisted
<1>3. Arrivals
  BY <1>2 DEF Arrivals
<1>4. Shapes
  BY DEF Shapes, Budgets, Decisions, Table, TaskShape, NoBudget, NoDecision, NoTask
<1>5. CallInPlace
  BY DEF CallInPlace, InPlace, NoTask
<1>6. TypeOK
  <2>1. Cardinality(Messages) \in Nat
    BY PersistedFinite
  <2>2. inbox \in [Messages -> InboxState]
    BY DEF InboxState
  <2>3. received_at \in [Messages -> 0..Cardinality(Messages)]
    BY <2>1
  <2>4. journal \in [Operations ->
          [state : {"NONE", "ACCEPTED", "DISPATCH_RECORDED"} \cup Terminal,
           dispatched : BOOLEAN]]
    BY DEF NoRow
  <2>5. 1 \in DOMAIN Worlds
    <3>1. Worlds \in Seq([Buttons -> Nat]) /\ Worlds # <<>>
      BY TwoButtonAssumption DEF TwoButtonAssumption
    <3> QED BY <3>1, EmptySeq, LenProperties
  <2>6. bound \in [Operations -> Contents] /\ disputed \subseteq Operations
    BY DEF Contents
  <2>7. \A o \in Operations :
          /\ IsCommand(budget[o].command) /\ budget[o].reserved \in BOOLEAN
          /\ decision[o].action \in {"none"} \cup Actions
          /\ IsCommand(decision[o].command) /\ IsCommand(binding[o])
    BY DEF NoBudget, NoDecision, IsCommand
  <2>8. /\ pc \in Labels /\ mode \in {"handle", "recover"}
        /\ task.msg \in Messages \cup {NoMessage} /\ loops \in Nat
        /\ faults \in 0..MaxFaults
    BY TwoButtonAssumption DEF Labels, NoTask, TwoButtonAssumption
  <2>9. presses \in Seq([key : Operations \cup {"unrelated"}, pos : Nat,
                         contact : Buttons \cup {"NONE"}])
    BY EmptySeq
  <2> QED BY <2>2, <2>3, <2>4, <2>5, <2>6, <2>7, <2>8, <2>9 DEF TypeOK
<1>7. ASSUME NEW o \in Operations
      PROVE  OpFits(o)
  <2>1. PressesOf(o) = {}
    BY EmptySeq DEF PressesOf
  <2>2. PressFits(o)
    BY <2>1 DEF PressFits
  <2>3. RowFits(o)
    BY DEF RowFits, NoRow, NoDecision, Commanded, Terminal, Executes
  <2>4. EvidenceFits(o)
    BY DEF EvidenceFits, NoEvidence, NoRow
  <2> QED BY <2>2, <2>3, <2>4 DEF OpFits
<1> QED BY <1>3, <1>4, <1>5, <1>6, <1>7 DEF Inv, Fits

LEMMA InvNext == Inv /\ [Next]_vars => Inv' /\ Told
<1> SUFFICES ASSUME Inv, [Next]_vars
             PROVE  Inv' /\ Told
  OBVIOUS
<1>1. CASE UNCHANGED vars
  <2>1. UNCHANGED <<rows, contexts, store, device, sent, pc, call, task, faults>>
    BY <1>1 DEF vars
  <2>2. /\ UNCHANGED <<store, device>> /\ EvidenceSame
    BY <2>1 DEF EvidenceSame, rows, Persisted
  <2>3. Fits' /\ Arrivals'
    BY <2>2, QuietFits, EvidenceStays DEF Inv
  <2>4. TypeOK' /\ Shapes'
    BY <2>1 DEF Inv, TypeOK, Shapes, TaskShape, rows, contexts, store, device, call
  <2>5. CallInPlace'
    BY <2>1, <2>2, CallStays, NothingIsKept DEF device, store
  <2>6. Told
    <3>1. \A o \in Operations : ContextKept(o) /\ PressesKept(o)
      BY <2>1, <2>2, SameIsKept, NothingIsKept DEF device
    <3> QED BY <2>1, <3>1, StillTold DEF Still, store
  <2> QED BY <2>3, <2>4, <2>5, <2>6 DEF Inv
<1>2. ASSUME NEW m \in Messages, ReceiveFrame(m)
      PROVE  Inv' /\ Told
  BY <1>2, ReceiveStep
<1>3. ASSUME Progress
      PROVE  Inv' /\ Told
  <2>1. CASE \/ Handle \/ Return \/ TakeAssignment \/ CompleteInbox
             \/ \E m \in Messages : ClaimNext(m)
             \/ \E o \in Operations : MissingDependency(o)
    BY <2>1, CallSteps
  <2>2. CASE BindContext
    BY <2>2, BindContextStep
  <2>3. CASE \E o \in Operations : Refuse(o) \/ TakeDecision(o)
    BY <2>3, HandlerSteps
  <2>4. CASE \E o \in Operations : Replay(o)
    BY <2>4, ReplayStep
  <2>5. CASE BindCommand
    BY <2>5, BindSteps
  <2>6. CASE Admit
    BY <2>6, AdmitSteps
  <2>7. CASE Reserve
    BY <2>7, ReserveStep
  <2>8. CASE RecordDecision
    BY <2>8, RecordDecisionStep
  <2>9. CASE Run
    BY <2>9, RunStep
  <2>10. CASE Press
    BY <2>10, PressSteps
  <2>11. CASE Resolve
    BY <2>11, ResolveSteps
  <2> QED BY <1>3, <2>1, <2>2, <2>3, <2>4, <2>5, <2>6, <2>7, <2>8, <2>9, <2>10, <2>11
          DEF Progress, Handler
<1>4. ASSUME Faulty
      PROVE  Inv' /\ Told
  <2>1. CASE Crash \/ Fails
    BY <2>1, CallSteps
  <2>2. CASE \E o \in Operations : LevelError(o)
    BY <2>2, HandlerSteps
  <2>3. CASE BindRaises
    BY <2>3, BindSteps
  <2>4. CASE PressRaises
    BY <2>4, PressSteps
  <2>5. CASE ResolveUnverified
    BY <2>5, ResolveSteps
  <2> QED BY <1>4, <2>1, <2>2, <2>3, <2>4, <2>5 DEF Faulty
<1>5. ASSUME NEW w \in DOMAIN Worlds, WorldMoves(w)
      PROVE  Inv' /\ Told
  BY <1>5, SurroundingsStep DEF WorldMoves
<1>6. ASSUME NEW b \in Others, UnrelatedImpulse(b)
      PROVE  Inv' /\ Told
  BY <1>6, SurroundingsStep DEF UnrelatedImpulse
<1>7. CASE Start
  BY <1>7, CallSteps
<1>8. CASE ReservationRefused
  BY <1>8, AdmitSteps
<1> QED BY <1>1, <1>2, <1>3, <1>4, <1>5, <1>6, <1>7, <1>8 DEF Next

LEMMA Invariant == Spec => []Inv
<1>1. Inv /\ [Next]_vars => Inv'
  BY InvNext
<1> QED BY <1>1, InvInit, PTL DEF Spec

\* Where a call stands, what the tables hold and what the device has done fit
\* together through crashes, refusals, late contexts and moved buttons.
THEOREM AimInvariant == Spec => []AimInv
<1>1. Inv => AimInv
  BY InvIsAimInv
<1> QED BY <1>1, Invariant, PTL

\* Every table and every local of the Robot keeps its type.
THEOREM AimTypeCorrect == Spec => []TypeOK
<1>1. Inv => TypeOK
  BY DEF Inv
<1> QED BY <1>1, Invariant, PTL

\* Press after dispatch, budget and decision, once, where the decision says.
THEOREM PressesAreDecided == Spec => []PressIsDecided
<1>1. Inv => PressIsDecided
  BY InvIsAimInv DEF AimInv
<1> QED BY <1>1, Invariant, PTL

\* No command without evidence that shows one thing, whatever arrives later.
THEOREM AimsAreJustified == Spec => []AimIsJustified
<1>1. Inv => AimIsJustified
  BY DEF Inv, Fits, OpFits, RowFits, Aimed, AimIsJustified
<1> QED BY <1>1, Invariant, PTL

\* As long as the surroundings keep still a press strikes its target.
THEOREM MissesAreMoves == Spec => []MissedOnlyIfMoved
<1>1. Inv => MissedOnlyIfMoved
  BY InvIsAimInv DEF AimInv
<1> QED BY <1>1, Invariant, PTL

\* The evidence that leaves the Robot is what its device did.
THEOREM EvidenceIsTrue == Spec => []EvidenceMatchesDevice
<1>1. Inv => EvidenceMatchesDevice
  BY InvIsAimInv DEF AimInv
<1> QED BY <1>1, Invariant, PTL

\* The action of RefusedStaysRefused.
Stays(o) ==
    /\ Withheld(o) => /\ decision'[o] = decision[o]
                      /\ PressesOf(o)' = PressesOf(o)
                      /\ journal'[o].dispatched => journal[o].dispatched
    /\ (/\ ~Decided(o)
        /\ \E m, n \in Candidates(o) : Content(m) # Content(n))
          => decision'[o].command = NoCommand

LEMMA HappensStays ==
    ASSUME NEW o, OpFits(o), Happens(o)
    PROVE  Stays(o)
<1>1. /\ Withheld(o) => Decided(o) /\ ~Commanded(o)
      /\ ~Decided(o) => ~Commanded(o)
  BY DEF Withheld, Decided, OpFits, RowFits, Actions, Holds, Executes
<1>2. CASE Still(o)
  BY <1>1, <1>2 DEF Still, Stays, PressesKept, Commanded
<1>3. CASE Refuses(o)
  BY <1>1, <1>3 DEF Refuses, Stays
<1>4. CASE Dispatches(o)
  BY <1>1, <1>4 DEF Dispatches, Stays, Commanded
<1>5. CASE Chooses(o)
  <2>1. ~Conflict(o)
    BY <1>5 DEF Chooses, Refusal
  <2> QED BY <1>1, <1>5, <2>1 DEF Chooses, Stays, Conflict
<1>6. CASE Presses(o) \/ Answers(o)
  BY <1>1, <1>6 DEF Presses, Answers, Stays
<1> QED BY <1>2, <1>3, <1>4, <1>5, <1>6 DEF Happens

\* A refusal is final, and contexts that differ refuse what is not decided,
\* however often the process comes back to the contract.
THEOREM RefusalIsFinal == Spec => RefusedStaysRefused
<1>1. ASSUME Inv, [Next]_vars
      PROVE  \A o \in Operations : Stays(o)
  <2>1. \A o \in Operations : Happens(o) /\ OpFits(o)
    BY <1>1, InvNext DEF Told, Happens, Inv, Fits
  <2> QED BY <2>1, HappensStays
<1>2. Inv /\ [Next]_vars =>
         [\A o \in Operations :
            /\ Withheld(o) => /\ decision'[o] = decision[o]
                              /\ PressesOf(o)' = PressesOf(o)
                              /\ journal'[o].dispatched => journal[o].dispatched
            /\ (/\ ~Decided(o)
                /\ \E m, n \in Candidates(o) : Content(m) # Content(n))
                  => decision'[o].command = NoCommand]_vars
  BY <1>1 DEF Stays
<1> QED BY <1>2, Invariant, PTL DEF Spec, RefusedStaysRefused
-----------------------------------------------------------------------------
(* The refinement.                                                         *)

Phase == [o \in Operations |-> PhaseOf(o)]
HitsOf(o) == {i \in PressesOf(o) : presses[i].contact = ContextFor(o).intent.target}
Effects == [o \in Operations |-> Cardinality(HitsOf(o))]
Account == [o \in Operations |-> AccountOf(o)]

\* At most one press is a touch of the target, and it is the device's record.
LEMMA HitsCounted ==
    ASSUME NEW o, PressFits(o)
    PROVE  Cardinality(HitsOf(o)) =
              IF PressesOf(o) # {} /\ Struck(o) = ContextFor(o).intent.target THEN 1 ELSE 0
<1>1. CASE PressesOf(o) = {}
  <2>1. HitsOf(o) = {}
    BY <1>1 DEF HitsOf
  <2> QED BY <1>1, <2>1, FS_EmptySet
<1>2. CASE PressesOf(o) # {}
  <2>1. PICK i \in PressesOf(o) : PressesOf(o) = {i}
    BY <1>2 DEF PressFits
  <2> DEFINE any == CHOOSE k \in PressesOf(o) : TRUE
  <2>2. any = i
    BY <2>1
  <2>3. Struck(o) = presses[any].contact
    BY <1>2 DEF Struck
  <2> HIDE DEF any
  <2>4. HitsOf(o) = IF Struck(o) = ContextFor(o).intent.target THEN {i} ELSE {}
    BY <2>1, <2>2, <2>3 DEF HitsOf
  <2>5. Cardinality({i}) = 1 /\ Cardinality({}) = 0
    BY FS_Singleton, FS_EmptySet
  <2> QED BY <1>2, <2>4, <2>5
<1> QED BY <1>1, <1>2

\* What is abstractly seen of an operation.
SeenAs(o) ==
    /\ Cardinality(HitsOf(o)) =
          IF PressesOf(o) # {} /\ Struck(o) = ContextFor(o).intent.target THEN 1 ELSE 0
    /\ evidence[o] # NoEvidence
          => AccountOf(o) \in Abstract!Accounts(Cardinality(HitsOf(o)))

LEMMA FitsSeen ==
    ASSUME NEW o, OpFits(o)
    PROVE  SeenAs(o)
<1>1. ASSUME evidence[o] # NoEvidence
      PROVE  AccountOf(o) \in {IF Cardinality(HitsOf(o)) = 0 THEN "NOT_DONE" ELSE "DONE",
                               "UNKNOWN"}
  <2>1. CASE ~evidence[o].verified
    BY <1>1, <2>1 DEF OpFits, EvidenceFits, AccountOf
  <2>2. CASE evidence[o].verified
    <3>1. /\ evidence[o].outcome = IF evidence[o].goal THEN "APPLIED" ELSE "NOT_APPLIED"
          /\ evidence[o].goal <=> Struck(o) = ContextFor(o).intent.target
      BY <1>1, <2>2 DEF OpFits, EvidenceFits
    <3>2. ContextFor(o).intent.target # "null"
      BY <1>1 DEF OpFits, EvidenceFits, RowFits, Aimed, Buttons
    <3>3. PressesOf(o) = {} => Struck(o) = "null"
      BY DEF Struck
    <3>4. Cardinality(HitsOf(o)) = IF evidence[o].goal THEN 1 ELSE 0
      BY <3>1, <3>2, <3>3, HitsCounted DEF OpFits
    <3> QED BY <3>1, <3>4 DEF AccountOf
  <2> QED BY <2>1, <2>2
<1> QED BY <1>1, HitsCounted DEF SeenAs, OpFits, Abstract!Accounts

LEMMA Seen == Inv => \A o \in Operations : SeenAs(o)
BY FitsSeen DEF Inv, Fits

LEMMA SeenNext == Inv' => (\A o \in Operations : SeenAs(o))'
BY Seen, PTL

\* The effects are those of the presses that were there.
LEMMA HitsStay ==
    ASSUME NEW o \in Operations, SeenAs(o), SeenAs(o)', OpFits(o), ContextKept(o),
           PressesKept(o)
    PROVE  Cardinality(HitsOf(o))' = Cardinality(HitsOf(o))
<1>1. PressesOf(o)' = PressesOf(o) /\ Struck(o)' = Struck(o)
  BY StruckStays DEF PressesKept
<1>2. PressesOf(o) # {} => ContextFor(o)' = ContextFor(o)
  <2>1. PressesOf(o) # {} => Aimed(o, decision[o].command)
    BY DEF OpFits, PressFits, RowFits
  <2> QED BY <2>1, AimedStays DEF ContextKept
<1> QED BY <1>1, <1>2 DEF SeenAs

\* What a step is, abstractly, to an operation.
HitsKept(o) == Cardinality(HitsOf(o))' = Cardinality(HitsOf(o))
Unmoved(o) == PhaseOf(o)' = PhaseOf(o) /\ AccountOf(o)' = AccountOf(o) /\ HitsKept(o)

Turns(o, from, to) ==
    PhaseOf(o) = from /\ PhaseOf(o)' = to /\ AccountOf(o)' = AccountOf(o) /\ HitsKept(o)

Acts(o) ==
    /\ PhaseOf(o) = "committed" /\ PhaseOf(o)' = "committed"
    /\ AccountOf(o)' = AccountOf(o)
    /\ Cardinality(HitsOf(o)) = 0 /\ Cardinality(HitsOf(o))' = 1

Ends(o) ==
    /\ PhaseOf(o) = "committed" /\ PhaseOf(o)' = "ended" /\ HitsKept(o)
    /\ AccountOf(o)' \in Abstract!Accounts(Cardinality(HitsOf(o)))

Appears(o) ==
    \/ Unmoved(o)
    \/ Turns(o, "open", "committed") \/ Turns(o, "open", "refused")
    \/ Acts(o) \/ Ends(o)

LEMMA StillUnmoved ==
    ASSUME NEW o \in Operations, OpFits(o), SeenAs(o), SeenAs(o)', ContextKept(o), Still(o)
    PROVE  Unmoved(o)
<1>1. HitsKept(o)
  BY HitsStay DEF Still, HitsKept
<1>2. AccountOf(o)' = AccountOf(o)
  BY DEF Still, AccountOf
<1>3. PhaseOf(o)' = PhaseOf(o)
  BY DEF Still, PhaseOf, Withheld
<1> QED BY <1>1, <1>2, <1>3 DEF Unmoved

LEMMA HappensAppears ==
    ASSUME NEW o \in Operations, OpFits(o), OpFits(o)', SeenAs(o), SeenAs(o)',
           journal[o].state \in JournalStates, ContextKept(o), Happens(o)
    PROVE  Appears(o)
<1>1. CASE Still(o)
  BY <1>1, StillUnmoved DEF Appears
<1>2. PressesKept(o) => HitsKept(o)
  BY HitsStay DEF HitsKept
<1>3. evidence'[o] = evidence[o] => AccountOf(o)' = AccountOf(o)
  BY DEF AccountOf
<1>4. ~Decided(o) => ~Withheld(o)
  BY DEF Decided, Withheld, Actions, Holds, Executes
<1>5. journal[o].dispatched /\ ~Decided(o) => journal[o].state = "DISPATCH_RECORDED"
  BY DEF OpFits, RowFits, Decided, Commanded, Executes, JournalStates
<1>6. CASE Refuses(o)
  <2>1. CASE journal[o].dispatched
    <3>1. PhaseOf(o)' = PhaseOf(o)
      BY <1>6, <2>1 DEF Refuses, PhaseOf
    <3> QED BY <1>2, <1>3, <1>6, <3>1 DEF Refuses, Appears, Unmoved
  <2>2. CASE ~journal[o].dispatched
    <3>1. PhaseOf(o) = "open" /\ PhaseOf(o)' = "refused"
      BY <1>4, <1>6, <2>2 DEF Refuses, PhaseOf
    <3> QED BY <1>2, <1>3, <1>6, <3>1 DEF Refuses, Appears, Turns
  <2> QED BY <2>1, <2>2
<1>7. CASE Dispatches(o)
  <2>1. PhaseOf(o) = "open" /\ PhaseOf(o)' = "committed"
    BY <1>4, <1>7 DEF Dispatches, PhaseOf
  <2> QED BY <1>2, <1>3, <1>7, <2>1 DEF Dispatches, Appears, Turns
<1>8. CASE Chooses(o)
  <2>1. PhaseOf(o)' = PhaseOf(o)
    BY <1>8 DEF Chooses, PhaseOf
  <2> QED BY <1>2, <1>3, <1>8, <2>1 DEF Chooses, Appears, Unmoved
<1>9. CASE Presses(o)
  <2>1. journal[o].dispatched
    BY <1>9 DEF Presses, OpFits, RowFits
  <2>2. PhaseOf(o) = "committed" /\ PhaseOf(o)' = "committed"
    BY <1>9, <2>1 DEF Presses, PhaseOf
  <2>3. Cardinality(HitsOf(o)) = 0 /\ Cardinality(HitsOf(o))' \in {0, 1}
    BY <1>9 DEF Presses, SeenAs
  <2> QED BY <1>3, <1>9, <2>2, <2>3 DEF Presses, Appears, Unmoved, Acts, HitsKept
<1>10. CASE Answers(o)
  <2>1. journal[o].dispatched
    BY <1>10 DEF Answers, OpFits, RowFits
  <2>2. PhaseOf(o) = "committed" /\ PhaseOf(o)' = "ended"
    BY <1>10, <2>1 DEF Answers, PhaseOf, Terminal
  <2>3. HitsKept(o)
    BY <1>2, <1>10 DEF Answers
  <2>4. (evidence[o] # NoEvidence)'
    BY <1>10, <2>1 DEF Answers, OpFits, EvidenceFits
  <2>5. AccountOf(o)' \in Abstract!Accounts(Cardinality(HitsOf(o)))'
    BY <2>4 DEF SeenAs
  <2>6. AccountOf(o)' \in Abstract!Accounts(Cardinality(HitsOf(o)))
    BY <2>3, <2>5 DEF HitsKept, Abstract!Accounts
  <2> QED BY <2>2, <2>3, <2>6 DEF Appears, Ends
<1> QED BY <1>1, <1>6, <1>7, <1>8, <1>9, <1>10 DEF Happens

-----------------------------------------------------------------------------
(* Every step is an abstract step or none.                                 *)

\* The abstract state of all operations, when at most one has moved.
LEMMA OnlyOne ==
    ASSUME NEW o \in Operations, \A p \in Operations \ {o} : Unmoved(p)
    PROVE  /\ Phase' = [Phase EXCEPT ![o] = PhaseOf(o)']
           /\ Effects' = [Effects EXCEPT ![o] = Cardinality(HitsOf(o))']
           /\ Account' = [Account EXCEPT ![o] = AccountOf(o)']
<1>1. PICK a, n, c : a = PhaseOf(o)' /\ n = Cardinality(HitsOf(o))' /\ c = AccountOf(o)'
  OBVIOUS
<1>2. \A p \in Operations :
        /\ PhaseOf(p)' = IF p = o THEN a ELSE PhaseOf(p)
        /\ Cardinality(HitsOf(p))' = IF p = o THEN n ELSE Cardinality(HitsOf(p))
        /\ AccountOf(p)' = IF p = o THEN c ELSE AccountOf(p)
  BY <1>1 DEF Unmoved, HitsKept
<1>3. /\ Phase' = [Phase EXCEPT ![o] = a]
      /\ Effects' = [Effects EXCEPT ![o] = n]
      /\ Account' = [Account EXCEPT ![o] = c]
  BY <1>2 DEF Phase, Effects, Account
<1> QED BY <1>1, <1>3

LEMMA NoneMoved ==
    ASSUME \A p \in Operations : Unmoved(p)
    PROVE  UNCHANGED <<Phase, Effects, Account>>
BY DEF Unmoved, HitsKept, Phase, Effects, Account

\* What is given the value it has does not change.
LEMMA SameValue ==
    ASSUME NEW o \in Operations
    PROVE  /\ [Phase EXCEPT ![o] = PhaseOf(o)] = Phase
           /\ [Effects EXCEPT ![o] = Cardinality(HitsOf(o))] = Effects
           /\ [Account EXCEPT ![o] = AccountOf(o)] = Account
           /\ Phase[o] = PhaseOf(o) /\ Effects[o] = Cardinality(HitsOf(o))
BY DEF Phase, Effects, Account

\* The abstract actions, in these terms.
LEMMA CommitIs ==
    ASSUME NEW o \in Operations, Phase[o] = "open",
           Phase' = [Phase EXCEPT ![o] = "committed"], UNCHANGED <<Effects, Account>>
    PROVE  Abstract!Commit(o)
BY DEF Phase, Effects, HitsOf, Account, Abstract!Commit

LEMMA RefuseIs ==
    ASSUME NEW o \in Operations, Phase[o] = "open",
           Phase' = [Phase EXCEPT ![o] = "refused"], UNCHANGED <<Effects, Account>>
    PROVE  Abstract!Refuse(o)
BY DEF Phase, Effects, HitsOf, Account, Abstract!Refuse

LEMMA ActIs ==
    ASSUME NEW o \in Operations, Phase[o] = "committed", Effects[o] = 0,
           Effects' = [Effects EXCEPT ![o] = 1], UNCHANGED <<Phase, Account>>
    PROVE  Abstract!Act(o)
BY DEF Phase, Effects, HitsOf, Account, Abstract!Act

LEMMA EndIs ==
    ASSUME NEW o \in Operations, Phase[o] = "committed",
           Phase' = [Phase EXCEPT ![o] = "ended"], UNCHANGED Effects,
           NEW a \in Abstract!Accounts(Effects[o]), Account' = [Account EXCEPT ![o] = a]
    PROVE  Abstract!End(o)
BY DEF Phase, Effects, HitsOf, Account, Abstract!End

LEMMA AppearsIs ==
    ASSUME NEW o \in Operations, Appears(o), \A p \in Operations \ {o} : Unmoved(p)
    PROVE  UNCHANGED <<Phase, Effects, Account>> \/ Abstract!Next
<1> USE OnlyOne, SameValue
<1>1. CASE Unmoved(o)
  BY <1>1, NoneMoved
<1>2. CASE Turns(o, "open", "committed")
  <2>1. Abstract!Commit(o)
    BY <1>2, CommitIs DEF Turns, HitsKept
  <2> QED BY <2>1 DEF Abstract!Next
<1>3. CASE Turns(o, "open", "refused")
  <2>1. Abstract!Refuse(o)
    BY <1>3, RefuseIs DEF Turns, HitsKept
  <2> QED BY <2>1 DEF Abstract!Next
<1>4. CASE Acts(o)
  <2>1. Abstract!Act(o)
    BY <1>4, ActIs DEF Acts
  <2> QED BY <2>1 DEF Abstract!Next
<1>5. CASE Ends(o)
  <2>1. PICK a : a = AccountOf(o)'
    OBVIOUS
  <2>2. a \in Abstract!Accounts(Effects[o]) /\ Account' = [Account EXCEPT ![o] = a]
    BY <1>5, <2>1 DEF Ends
  <2>3. Abstract!End(o)
    BY <1>5, <2>2, EndIs DEF Ends, HitsKept
  <2> QED BY <2>3 DEF Abstract!Next
<1> QED BY <1>1, <1>2, <1>3, <1>4, <1>5 DEF Appears

LEMMA AbstractStep == Inv /\ [Next]_vars => [Abstract!Next]_(Abstract!state)
<1> SUFFICES ASSUME Inv, [Next]_vars
             PROVE  UNCHANGED <<Phase, Effects, Account>> \/ Abstract!Next
  BY DEF Abstract!state, Phase, Effects, HitsOf, Account
<1>1. Inv' /\ Told
  BY InvNext
<1>2. \A o \in Operations : SeenAs(o) /\ SeenAs(o)'
  BY <1>1, Seen, SeenNext
<1>3. \A o \in Operations : OpFits(o) /\ OpFits(o)'
  BY <1>1 DEF Inv, Fits
<1>4. \A o \in Operations : journal[o].state \in JournalStates
  BY DEF Inv, TypeOK, JournalStates
<1>5. PICK S \in SUBSET Operations :
         /\ \A o, p \in S : o = p
         /\ \A o \in S : Happens(o)
         /\ \A o \in Operations \ S : Still(o)
  BY <1>1 DEF Told
<1>6. \A o \in Operations \ S : Unmoved(o)
  BY <1>1, <1>2, <1>3, <1>5, StillUnmoved DEF Told
<1>7. CASE S = {}
  BY <1>6, <1>7, NoneMoved
<1>8. ASSUME NEW o \in S
      PROVE  UNCHANGED <<Phase, Effects, Account>> \/ Abstract!Next
  <2>1. Appears(o)
    BY <1>1, <1>2, <1>3, <1>4, <1>5, HappensAppears DEF Told
  <2>2. \A p \in Operations \ {o} : Unmoved(p)
    BY <1>5, <1>6
  <2> QED BY <1>5, <2>1, <2>2, AppearsIs
<1> QED BY <1>7, <1>8

LEMMA AbstractInit == Init => Abstract!Init
<1> SUFFICES ASSUME Init
             PROVE  Abstract!Init
  OBVIOUS
<1>1. ASSUME NEW o \in Operations
      PROVE  PhaseOf(o) = "open" /\ Cardinality(HitsOf(o)) = 0 /\ AccountOf(o) = "none"
  <2>1. PhaseOf(o) = "open"
    BY DEF Init, PhaseOf, NoRow, Withheld, NoDecision, Actions, Holds, Executes
  <2>2. AccountOf(o) = "none"
    BY DEF Init, AccountOf, NoEvidence
  <2>3. HitsOf(o) = {}
    BY DEF Init, HitsOf, PressesOf
  <2> QED BY <2>1, <2>2, <2>3, FS_EmptySet
<1>2. /\ Phase \in [Operations -> {"open", "committed", "ended"}]
      /\ Effects \in [Operations -> 0..1]
      /\ Account \in [Operations -> {"none", "DONE", "NOT_DONE", "UNKNOWN"}]
      /\ \A o \in Operations :
            Phase[o] = "open" /\ Effects[o] = 0 /\ Account[o] = "none"
  BY <1>1 DEF Phase, Effects, Account
<1> QED BY <1>2 DEF Phase, Effects, HitsOf, Account, Abstract!Init

\* Through crashes, refusals, moved buttons and unusable answers, an operation of
\* the two-button slice touches its target at most once, after one dispatch that
\* no refusal went before, and what its evidence says of that is true and final.
THEOREM TargetIsSingleShot == Spec => ImplementsSingleShot
BY AbstractInit, AbstractStep, Invariant, PTL DEF Spec, ImplementsSingleShot, Abstract!Spec
=============================================================================
