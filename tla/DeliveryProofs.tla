--------------------------- MODULE DeliveryProofs ---------------------------
(***************************************************************************)
(* Delivery through the link, for any messages, capacity and faults:       *)
(* DeliveryInv of Delivery is inductive and its properties follow from it. *)
(*                                                                         *)
(* The capacity of the relay is about a sum over its frames.  What a sum   *)
(* is follows from its recursive definition by well-founded induction on   *)
(* finite sets, taken as the existence of a least counterexample.          *)
(***************************************************************************)
EXTENDS Delivery, FiniteSetTheorems, WellFoundedInduction, TLAPS

-----------------------------------------------------------------------------
(* Sums over finite sets.                                                  *)

\* The recursion by which the community modules' MapThenSumSet adds up.
Pick(s) == CHOOSE x \in s : TRUE
Rest(s) == s \ {Pick(s)}

Sums(f, S, iter) ==
    iter = [s \in SUBSET S |-> IF s = {} THEN 0 ELSE f[Pick(s)] + iter[Rest(s)]]

SumOf(f, S) == (CHOOSE iter : Sums(f, S, iter))[S]

LEMMA LoadIsSum == Load = SumOf(queue, Frames)
BY DEF Load, MapThenSumSet, MapThenFoldSet, SumOf, Sums, Pick, Rest

\* A set of subsets of a finite set has a least member.
LEMMA LeastSubset ==
    ASSUME NEW S, IsFiniteSet(S), NEW T, T \subseteq SUBSET S, T # {}
    PROVE  \E X \in T : \A Y \in T : ~(Y \subseteq X /\ Y # X)
<1>1. IsWellFoundedOn(StrictSubsetOrdering(S), SUBSET S)
  BY FS_StrictSubsetOrderingWellFounded, FS_FiniteSubsetsOfFinite
<1>2. PICK X \in T : \A Y \in T : ~(<<Y, X>> \in StrictSubsetOrdering(S))
  <2> HIDE DEF StrictSubsetOrdering
  <2> QED BY <1>1, WFMin
<1>3. ASSUME NEW Y \in T
      PROVE  ~(Y \subseteq X /\ Y # X)
  <2>1. <<Y, X>> \in (SUBSET S) \X (SUBSET S)
    OBVIOUS
  <2> QED BY <1>2, <1>3, <2>1 DEF StrictSubsetOrdering
<1> QED BY <1>3

LEMMA PickAndRest ==
    ASSUME NEW S, NEW s \in SUBSET S, s # {}
    PROVE  Pick(s) \in s /\ Rest(s) \in SUBSET S /\ Rest(s) \subseteq s /\ Rest(s) # s
BY DEF Pick, Rest

\* Two functions that sum f agree where both are defined.
LEMMA SumsAgree ==
    ASSUME NEW f, NEW S, NEW T, NEW g, NEW h, Sums(f, S, g), Sums(f, T, h),
           NEW X, IsFiniteSet(X), X \subseteq S, X \subseteq T
    PROVE  g[X] = h[X]
<1> DEFINE Bad == {s \in SUBSET X : g[s] # h[s]}
<1>1. SUFFICES ASSUME Bad # {}
               PROVE  FALSE
  OBVIOUS
<1>2. PICK s \in Bad : \A r \in Bad : ~(r \subseteq s /\ r # s)
  <2> HIDE DEF Bad
  <2>1. Bad \subseteq SUBSET X
    BY DEF Bad
  <2> QED BY <1>1, <2>1, LeastSubset
<1>3. /\ s \in SUBSET S /\ s \in SUBSET T
      /\ g[s] = IF s = {} THEN 0 ELSE f[Pick(s)] + g[Rest(s)]
      /\ h[s] = IF s = {} THEN 0 ELSE f[Pick(s)] + h[Rest(s)]
  BY DEF Sums
<1>4. s # {} /\ Rest(s) \in SUBSET X /\ g[Rest(s)] # h[Rest(s)]
  BY <1>3, PickAndRest
<1> QED BY <1>2, <1>3, <1>4, PickAndRest

\* There is a function that sums f.
LEMMA SumsExist ==
    ASSUME NEW f, NEW S, IsFiniteSet(S)
    PROVE  \E iter : Sums(f, S, iter)
<1> DEFINE Bad == {X \in SUBSET S : ~ \E iter : Sums(f, X, iter)}
<1>1. SUFFICES ASSUME Bad # {}
               PROVE  FALSE
  OBVIOUS
<1>2. PICK X \in Bad : \A Y \in Bad : ~(Y \subseteq X /\ Y # X)
  <2> HIDE DEF Bad
  <2>1. Bad \subseteq SUBSET S
    BY DEF Bad
  <2> QED BY <1>1, <2>1, LeastSubset
<1> DEFINE H(Y) == CHOOSE iter : Sums(f, Y, iter)
           it == [s \in SUBSET X |->
                     IF s = {} THEN 0 ELSE f[Pick(s)] + H(Rest(s))[Rest(s)]]
<1>3. ASSUME NEW Y \in SUBSET X, Y # X
      PROVE  Sums(f, Y, H(Y))
  <2>1. Y \in SUBSET S /\ Y \notin Bad
    BY <1>2, <1>3
  <2> QED BY <2>1
<1> HIDE DEF H
<1>4. ASSUME NEW s \in SUBSET X, s # {}
      PROVE  it[Rest(s)] = H(Rest(s))[Rest(s)]
  <2> DEFINE r == Rest(s)
  <2>1. r \in SUBSET X /\ r # X /\ Sums(f, r, H(r))
    <3>1. r \in SUBSET X /\ r # X
      BY <1>4, PickAndRest
    <3> HIDE DEF r
    <3> QED BY <1>3, <3>1
  <2>2. H(r)[r] = IF r = {} THEN 0 ELSE f[Pick(r)] + H(r)[Rest(r)]
    BY <2>1 DEF Sums
  <2>3. CASE r = {}
    BY <2>1, <2>2, <2>3
  <2>4. CASE r # {}
    <3>1. Rest(r) \in SUBSET r /\ Rest(r) \in SUBSET X /\ Rest(r) # X
      BY <2>1, <2>4, PickAndRest
    <3>2. Sums(f, Rest(r), H(Rest(r))) /\ IsFiniteSet(Rest(r))
      BY <1>3, <3>1, FS_Subset
    <3> HIDE DEF r
    <3>3. H(r)[Rest(r)] = H(Rest(r))[Rest(r)]
      BY <2>1, <3>1, <3>2, SumsAgree
    <3>4. it[r] = f[Pick(r)] + H(Rest(r))[Rest(r)]
      BY <2>1, <2>4
    <3>5. it[r] = H(r)[r]
      BY <2>2, <2>4, <3>3, <3>4
    <3> QED BY <3>5 DEF r
  <2> QED BY <2>3, <2>4
<1>5. Sums(f, X, it)
  <2>1. it = [s \in SUBSET X |-> IF s = {} THEN 0 ELSE f[Pick(s)] + it[Rest(s)]]
    BY <1>4
  <2> HIDE DEF it
  <2> QED BY <2>1 DEF Sums
<1> QED BY <1>2, <1>5

\* The recursion holds of the sum.
LEMMA SumStep ==
    ASSUME NEW f, NEW S, IsFiniteSet(S)
    PROVE  SumOf(f, S) = IF S = {} THEN 0 ELSE f[Pick(S)] + SumOf(f, Rest(S))
<1> DEFINE H(Y) == CHOOSE iter : Sums(f, Y, iter)
<1>1. Sums(f, S, H(S))
  BY SumsExist
<1>2. H(S)[S] = IF S = {} THEN 0 ELSE f[Pick(S)] + H(S)[Rest(S)]
  BY <1>1 DEF Sums
<1>3. CASE S = {}
  BY <1>2, <1>3 DEF SumOf
<1>4. CASE S # {}
  <2>1. Rest(S) \subseteq S /\ IsFiniteSet(Rest(S))
    BY <1>4, PickAndRest, FS_Subset
  <2>2. Sums(f, Rest(S), H(Rest(S)))
    BY <2>1, SumsExist
  <2>3. H(S)[Rest(S)] = H(Rest(S))[Rest(S)]
    <3> HIDE DEF H
    <3> QED BY <1>1, <2>1, <2>2, SumsAgree
  <2> QED BY <1>2, <1>4, <2>3 DEF SumOf
<1> QED BY <1>3, <1>4

\* The sum of natural numbers is one, and bounds each of them.
LEMMA SumBounds ==
    ASSUME NEW S, IsFiniteSet(S), NEW f, \A x \in S : f[x] \in Nat
    PROVE  SumOf(f, S) \in Nat /\ \A x \in S : f[x] <= SumOf(f, S)
<1> DEFINE Good(X) == SumOf(f, X) \in Nat /\ \A x \in X : f[x] <= SumOf(f, X)
           Bad == {X \in SUBSET S : ~Good(X)}
<1>1. SUFFICES ASSUME Bad # {}
               PROVE  FALSE
  OBVIOUS
<1>2. PICK X \in Bad : \A Y \in Bad : ~(Y \subseteq X /\ Y # X)
  <2> HIDE DEF Bad
  <2>1. Bad \subseteq SUBSET S
    BY DEF Bad
  <2> QED BY <1>1, <2>1, LeastSubset
<1>3. SumOf(f, X) = IF X = {} THEN 0 ELSE f[Pick(X)] + SumOf(f, Rest(X))
  <2>1. IsFiniteSet(X)
    BY FS_Subset
  <2> QED BY <2>1, SumStep
<1>4. CASE X = {}
  BY <1>3, <1>4
<1>5. CASE X # {}
  <2>1. Pick(X) \in X /\ Rest(X) \in SUBSET S /\ Rest(X) \subseteq X /\ Rest(X) # X
    BY <1>5, PickAndRest
  <2>2. Good(Rest(X))
    BY <1>2, <2>1
  <2>3. f[Pick(X)] \in Nat
    BY <2>1
  <2>4. \A x \in X : x = Pick(X) \/ x \in Rest(X)
    BY DEF Rest
  <2>5. SumOf(f, X) = f[Pick(X)] + SumOf(f, Rest(X))
    BY <1>3, <1>5
  <2>6. SumOf(f, X) \in Nat /\ f[Pick(X)] <= SumOf(f, X)
        /\ SumOf(f, Rest(X)) <= SumOf(f, X)
    BY <2>2, <2>3, <2>5
  <2>7. ASSUME NEW x \in X
        PROVE  f[x] <= SumOf(f, X)
    <3>1. f[x] \in Nat
      OBVIOUS
    <3> QED BY <2>2, <2>4, <2>6, <2>7, <3>1
  <2> QED BY <1>2, <2>6, <2>7
<1> QED BY <1>4, <1>5

\* A change of one number changes the sum by as much.
LEMMA SumUpdate ==
    ASSUME NEW S, IsFiniteSet(S), NEW f \in [S -> Nat], NEW g \in [S -> Nat],
           NEW x \in S, \A y \in S \ {x} : g[y] = f[y]
    PROVE  SumOf(g, S) = SumOf(f, S) + (g[x] - f[x])
<1> DEFINE Change(X) == IF x \in X THEN g[x] - f[x] ELSE 0
           Good(X) == SumOf(g, X) = SumOf(f, X) + Change(X)
           Bad == {X \in SUBSET S : ~Good(X)}
<1>1. SUFFICES ASSUME Bad # {}
               PROVE  FALSE
  OBVIOUS
<1>2. PICK X \in Bad : \A Y \in Bad : ~(Y \subseteq X /\ Y # X)
  <2> HIDE DEF Bad
  <2>1. Bad \subseteq SUBSET S
    BY DEF Bad
  <2> QED BY <1>1, <2>1, LeastSubset
<1>3. /\ SumOf(f, X) = IF X = {} THEN 0 ELSE f[Pick(X)] + SumOf(f, Rest(X))
      /\ SumOf(g, X) = IF X = {} THEN 0 ELSE g[Pick(X)] + SumOf(g, Rest(X))
  <2>1. IsFiniteSet(X)
    BY FS_Subset
  <2> QED BY <2>1, SumStep
<1>4. CASE X = {}
  BY <1>3, <1>4
<1>5. CASE X # {}
  <2>1. Pick(X) \in X /\ Rest(X) \in SUBSET S /\ Rest(X) \subseteq X /\ Rest(X) # X
    BY <1>5, PickAndRest
  <2>2. Good(Rest(X))
    BY <1>2, <2>1
  <2>3. f[Pick(X)] \in Nat /\ g[Pick(X)] \in Nat /\ f[x] \in Nat /\ g[x] \in Nat
    BY <2>1
  <2>4. SumOf(f, Rest(X)) \in Nat
    <3>1. IsFiniteSet(Rest(X)) /\ \A y \in Rest(X) : f[y] \in Nat
      BY <2>1, FS_Subset
    <3> QED BY <3>1, SumBounds
  <2>5. CASE Pick(X) = x
    <3>1. x \in X /\ x \notin Rest(X)
      BY <2>1, <2>5 DEF Rest
    <3>2. Change(Rest(X)) = 0 /\ Change(X) = g[x] - f[x]
      BY <3>1
    <3> HIDE DEF Change
    <3> QED BY <1>2, <1>3, <1>5, <2>2, <2>3, <2>4, <2>5, <3>2
  <2>6. CASE Pick(X) # x
    <3>1. g[Pick(X)] = f[Pick(X)] /\ (x \in Rest(X) <=> x \in X)
      BY <2>1, <2>6 DEF Rest
    <3>2. Change(Rest(X)) = Change(X) /\ Change(X) \in Int
      BY <2>3, <3>1
    <3> HIDE DEF Change
    <3> QED BY <1>2, <1>3, <1>5, <2>2, <2>3, <2>4, <3>1, <3>2
  <2> QED BY <2>5, <2>6
<1> QED BY <1>4, <1>5

LEMMA SumOfZero ==
    ASSUME NEW S, IsFiniteSet(S), NEW f, \A x \in S : f[x] = 0
    PROVE  SumOf(f, S) = 0
<1> DEFINE Bad == {X \in SUBSET S : SumOf(f, X) # 0}
<1>1. SUFFICES ASSUME Bad # {}
               PROVE  FALSE
  OBVIOUS
<1>2. PICK X \in Bad : \A Y \in Bad : ~(Y \subseteq X /\ Y # X)
  <2> HIDE DEF Bad
  <2>1. Bad \subseteq SUBSET S
    BY DEF Bad
  <2> QED BY <1>1, <2>1, LeastSubset
<1>3. SumOf(f, X) = IF X = {} THEN 0 ELSE f[Pick(X)] + SumOf(f, Rest(X))
  <2>1. IsFiniteSet(X)
    BY FS_Subset
  <2> QED BY <2>1, SumStep
<1>4. X # {} => Pick(X) \in X /\ SumOf(f, Rest(X)) = 0
  BY <1>2, PickAndRest
<1> QED BY <1>2, <1>3, <1>4
-----------------------------------------------------------------------------
(* Extrema.                                                                *)

\* A finite set of numbers has a greatest member.
LEMMA GreatestExists ==
    ASSUME NEW S, IsFiniteSet(S), S # {}, \A x \in S : x \in Int
    PROVE  \E x \in S : \A y \in S : x >= y
<1> DEFINE Good(X) == \E x \in X : \A y \in X : x >= y
           Bad == {X \in SUBSET S : X # {} /\ ~Good(X)}
<1>1. SUFFICES ASSUME Bad # {}
               PROVE  FALSE
  OBVIOUS
<1>2. PICK X \in Bad : \A Y \in Bad : ~(Y \subseteq X /\ Y # X)
  <2> HIDE DEF Bad
  <2>1. Bad \subseteq SUBSET S
    BY DEF Bad
  <2> QED BY <1>1, <2>1, LeastSubset
<1>3. /\ Pick(X) \in X /\ Rest(X) \in SUBSET S /\ Rest(X) \subseteq X /\ Rest(X) # X
      /\ \A y \in X : y = Pick(X) \/ y \in Rest(X)
  BY PickAndRest DEF Rest
<1>4. CASE Rest(X) = {}
  <2>1. Pick(X) \in Int /\ \A y \in X : Pick(X) = y
    BY <1>3, <1>4
  <2> QED BY <1>2, <1>3, <2>1
<1>5. CASE Rest(X) # {}
  <2>1. PICK z \in Rest(X) : \A y \in Rest(X) : z >= y
    <3>1. Rest(X) \notin Bad
      BY <1>2, <1>3
    <3> QED BY <1>3, <1>5, <3>1
  <2>2. z \in X /\ z \in Int /\ Pick(X) \in Int /\ \A y \in Rest(X) : y \in Int
    BY <1>3
  <2>3. CASE Pick(X) >= z
    <3>1. \A y \in X : Pick(X) >= y
      BY <1>3, <2>1, <2>2, <2>3
    <3> QED BY <1>2, <1>3, <3>1
  <2>4. CASE z >= Pick(X)
    <3>1. \A y \in X : z >= y
      BY <1>3, <2>1, <2>2, <2>4
    <3> QED BY <1>2, <2>2, <3>1
  <2> QED BY <2>2, <2>3, <2>4
<1> QED BY <1>4, <1>5

LEMMA MaxType ==
    ASSUME NEW S, IsFiniteSet(S), S # {}, \A x \in S : x \in Nat
    PROVE  Max(S) \in Nat
<1>1. \E x \in S : \A y \in S : x >= y
  BY GreatestExists
<1> QED BY <1>1 DEF Max

LEMMA MinOfTwo ==
    ASSUME NEW a \in Int, NEW b \in Int
    PROVE  Min({a, b}) \in {a, b} /\ Min({a, b}) <= a /\ Min({a, b}) <= b
<1>1. \E x \in {a, b} : \A y \in {a, b} : x <= y
  <2>1. CASE a <= b
    BY <2>1
  <2>2. CASE b <= a
    BY <2>2
  <2> QED BY <2>1, <2>2
<1> QED BY <1>1 DEF Min
-----------------------------------------------------------------------------
(* The relay's queue.                                                      *)

\* There is a frame of each kind for every message, hence finitely many.
LEMMA FiniteFrames == IsFiniteSet(Frames)
<1>1. ASSUME NEW kind
      PROVE  IsFiniteSet({kind} \X Messages)
  <2> DEFINE T == {kind} \X Messages
             f == [m \in Messages |-> <<kind, m>>]
  <2>1. f \in Surjection(Messages, T)
    <3>1. f \in [Messages -> T]
      OBVIOUS
    <3>2. ASSUME NEW t \in T
          PROVE  \E m \in Messages : f[m] = t
      <4>1. t[2] \in Messages /\ t = <<kind, t[2]>>
        OBVIOUS
      <4> QED BY <4>1
    <3> QED BY <3>1, <3>2 DEF Surjection
  <2> QED BY <2>1, FS_Surjection, DeliveryAssumption DEF DeliveryAssumption
<1> DEFINE A == {"envelope"} \X Messages
           B == {"ack"} \X Messages
<1>2. Frames = A \cup B
  BY DEF Frames
<1>3. IsFiniteSet(A) /\ IsFiniteSet(B)
  BY <1>1
<1> HIDE DEF A, B
<1> QED BY <1>2, <1>3, FS_Union

\* The load of a queue that is changed at one frame.
LEMMA LoadChange ==
    ASSUME queue \in [Frames -> Nat], queue' \in [Frames -> Nat],
           NEW f \in Frames, \A g \in Frames \ {f} : queue'[g] = queue[g]
    PROVE  /\ Load \in Nat /\ queue[f] <= Load
           /\ Load' = Load + (queue'[f] - queue[f])
<1>1. Load' = SumOf(queue', Frames)
  BY DEF Load, MapThenSumSet, MapThenFoldSet, SumOf, Sums, Pick, Rest
<1>2. SumOf(queue', Frames) = SumOf(queue, Frames) + (queue'[f] - queue[f])
  BY FiniteFrames, SumUpdate
<1>3. SumOf(queue, Frames) \in Nat /\ queue[f] <= SumOf(queue, Frames)
  BY FiniteFrames, SumBounds
<1> QED BY <1>1, <1>2, <1>3, LoadIsSum
-----------------------------------------------------------------------------
(* The inductive invariant.                                                *)

\* The queue's part of it.
QueueOK == queue \in [Frames -> 0..Capacity] /\ WithinCapacity

\* A frame is submitted: what does not fit is dropped.
LEMMA SubmitKeeps ==
    ASSUME QueueOK, NEW f \in Frames, Submit(f)
    PROVE  QueueOK' /\ \A g \in Frames : g # f => queue'[g] = queue[g]
<1>1. PICK copies \in 0..2 :
         queue' = [queue EXCEPT ![f] =
                      Min({queue[f] + copies, queue[f] + Capacity - Load})]
  <2>1. \E copies \in 0..2 :
           queue' = [queue EXCEPT ![f] =
                        Min({queue[f] + copies, queue[f] + Capacity - Load})]
    <3>1. (1..2) \subseteq 0..2
      OBVIOUS
    <3> QED BY <3>1 DEF Submit
  <2> QED BY <2>1
<1> DEFINE n == Min({queue[f] + copies, queue[f] + Capacity - Load})
<1>2. Capacity \in Nat /\ queue \in [Frames -> Nat] /\ queue[f] \in 0..Capacity
  BY DeliveryAssumption DEF DeliveryAssumption, QueueOK
<1>3. /\ Load \in Nat /\ queue[f] <= Load /\ Load <= Capacity
  <2>1. Load \in Nat /\ queue[f] <= Load
    BY <1>2, FiniteFrames, SumBounds, LoadIsSum
  <2> QED BY <2>1 DEF QueueOK, WithinCapacity
<1>4. n \in 0..Capacity /\ n <= queue[f] + Capacity - Load
  <2>1. queue[f] + copies \in Int /\ queue[f] + Capacity - Load \in Int
    BY <1>2, <1>3
  <2>2. /\ n \in {queue[f] + copies, queue[f] + Capacity - Load}
        /\ n <= queue[f] + Capacity - Load
    BY <2>1, MinOfTwo
  <2> HIDE DEF n
  <2> QED BY <1>2, <1>3, <2>2
<1> HIDE DEF n
<1>5. /\ queue' = [queue EXCEPT ![f] = n]
      /\ queue' \in [Frames -> 0..Capacity] /\ queue' \in [Frames -> Nat]
      /\ queue'[f] = n /\ \A g \in Frames : g # f => queue'[g] = queue[g]
  <2>1. queue' = [queue EXCEPT ![f] = n]
    BY <1>1 DEF n
  <2> QED BY <1>2, <1>4, <2>1 DEF QueueOK
<1>6. Load' = Load + (n - queue[f])
  BY <1>2, <1>5, LoadChange
<1> QED BY <1>2, <1>3, <1>4, <1>5, <1>6 DEF QueueOK, WithinCapacity

LEMMA TakenKeeps ==
    ASSUME QueueOK, NEW f \in Frames, queue[f] > 0, Taken(f)
    PROVE  /\ QueueOK' /\ queue'[f] = queue[f] - 1
           /\ \A g \in Frames : g # f => queue'[g] = queue[g]
<1>1. Capacity \in Nat /\ queue \in [Frames -> Nat] /\ queue[f] \in 0..Capacity
  BY DeliveryAssumption DEF DeliveryAssumption, QueueOK
<1>2. /\ queue' \in [Frames -> 0..Capacity] /\ queue' \in [Frames -> Nat]
      /\ queue'[f] = queue[f] - 1 /\ \A g \in Frames : g # f => queue'[g] = queue[g]
  BY <1>1 DEF Taken, QueueOK
<1>3. Load \in Nat /\ Load' = Load + (queue'[f] - queue[f])
  BY <1>1, <1>2, LoadChange
<1> QED BY <1>1, <1>2, <1>3 DEF QueueOK, WithinCapacity

LEMMA EmptyKeeps ==
    ASSUME queue' = [f \in Frames |-> 0]
    PROVE  QueueOK'
<1>1. Load' = SumOf(queue', Frames)
  BY DEF Load, MapThenSumSet, MapThenFoldSet, SumOf, Sums, Pick, Rest
<1>2. SumOf(queue', Frames) = 0
  BY FiniteFrames, SumOfZero
<1> QED BY <1>1, <1>2, DeliveryAssumption DEF DeliveryAssumption, QueueOK, WithinCapacity

LEMMA QueueStays ==
    ASSUME QueueOK, UNCHANGED queue
    PROVE  QueueOK'
<1>1. Load' = SumOf(queue', Frames)
  BY DEF Load, MapThenSumSet, MapThenFoldSet, SumOf, Sums, Pick, Rest
<1> QED BY <1>1, LoadIsSum DEF QueueOK, WithinCapacity

\* What DeliveryInv says besides, of which every step changes a little.
Places ==
    /\ expired \subseteq Expiring
    /\ up \subseteq Sides
    /\ conn \in [Sides -> {"open", "dying", "closed"}]
    /\ batch \subseteq Messages
    /\ relay \in {"up", "stalled", "down"}
    /\ faults \in 0..MaxFaults

Receiving ==
    /\ inbox \in [Messages -> InboxState]
    /\ received_at \in [Messages -> Nat]
    /\ completions \in [Messages -> Nat]
    /\ pc \in {"idle", "received", "duplicate", "handle", "more", "claimed"}
    /\ msg \in Messages \cup {NoMessage}
    /\ left \in Nat
    /\ InCall
    /\ CommittedWithRow

Acknowledging ==
    /\ outbox \in [Messages -> {"ABSENT", "PENDING", "ACKED"}]
    /\ AckedIsPersisted

LEMMA DeliveryInvParts ==
    /\ DeliveryInv <=> QueueOK /\ Places /\ Receiving /\ Acknowledging
    /\ DeliveryInv' <=> QueueOK' /\ Places' /\ Receiving' /\ Acknowledging'
BY DEF DeliveryInv, TypeOK, QueueOK, Places, Receiving, Acknowledging

\* Frames of a message.
LEMMA FrameOf ==
    ASSUME NEW m \in Messages
    PROVE  /\ <<"envelope", m>> \in Frames /\ <<"ack", m>> \in Frames
           /\ \A n : <<"envelope", m>> # <<"ack", n>>
           /\ \A n : <<"ack", m>> = <<"ack", n>> <=> m = n
BY DEF Frames

LEMMA FrameParts ==
    ASSUME NEW f \in Frames
    PROVE  /\ f[1] \in {"envelope", "ack"} /\ f[2] \in Messages /\ f = <<f[1], f[2]>>
           /\ Destination(f) \in Sides
BY DEF Frames, Destination, Sides

LEMMA InitInv == Init => DeliveryInv
<1> SUFFICES ASSUME Init
             PROVE  DeliveryInv
  OBVIOUS
<1>1. Load = 0
  BY FiniteFrames, SumOfZero, LoadIsSum DEF Init
<1>2. QueueOK
  BY <1>1, DeliveryAssumption DEF DeliveryAssumption, Init, QueueOK, WithinCapacity
<1>3. Places
  BY DeliveryAssumption DEF DeliveryAssumption, Init, Places, Sides
<1>4. Receiving
  BY DEF Init, Receiving, InCall, CommittedWithRow, InboxState, Sides
<1>5. Acknowledging
  <2>1. \A m \in Messages : queue[<<"ack", m>>] = 0 /\ msg # m
    BY FrameOf, DeliveryAssumption DEF DeliveryAssumption, Init
  <2> QED BY <2>1 DEF Init, Acknowledging, AckedIsPersisted
<1> QED BY <1>2, <1>3, <1>4, <1>5, DeliveryInvParts

\* A step of the link, of connections or of processes: no table changes.
LEMMA LinkKeeps ==
    ASSUME DeliveryInv,
           \/ RelayStep \/ LinkCrash \/ LinkRestart
           \/ \E d \in Sides : Unregister(d) \/ Connect(d) \/ ConnectionLost(d)
           \/ CrashSender \/ StartSender \/ \E m \in Messages : Expire(m)
    PROVE  DeliveryInv'
<1>1. QueueOK /\ Places /\ Receiving /\ Acknowledging
  BY DeliveryInvParts
<1>2. UNCHANGED <<durable, receiver>>
  BY DEF RelayStep, DropFrame, DeliveryTaskDies, LinkCrash, LinkRestart, LinkGone,
         Unregister, Connect, ConnectionLost, CrashSender, StartSender, Expire
<1>3. QueueOK' /\ \A f \in Frames : queue'[f] <= queue[f]
  <2>1. Capacity \in Nat /\ \A f \in Frames : queue[f] \in 0..Capacity
    BY <1>1, DeliveryAssumption DEF DeliveryAssumption, QueueOK
  <2>2. ASSUME NEW f \in Frames, DropFrame(f) \/ DeliveryTaskDies(f)
        PROVE  QueueOK' /\ \A g \in Frames : queue'[g] <= queue[g]
    <3>1. /\ QueueOK' /\ queue'[f] = queue[f] - 1
          /\ \A g \in Frames : g # f => queue'[g] = queue[g]
      BY <1>1, <2>2, TakenKeeps DEF DropFrame, DeliveryTaskDies
    <3> QED BY <2>1, <3>1
  <2>3. CASE LinkCrash \/ LinkRestart
    BY <2>1, <2>3, EmptyKeeps DEF LinkCrash, LinkRestart, LinkGone
  <2>4. CASE UNCHANGED queue
    BY <1>1, <2>1, <2>4, QueueStays
  <2> QED BY <2>2, <2>3, <2>4
          DEF RelayStep, Unregister, Connect, ConnectionLost, CrashSender, StartSender,
              Expire, link
<1>4. Places'
  <2>1. ASSUME NEW f \in Frames, DropFrame(f) \/ DeliveryTaskDies(f)
        PROVE  Places'
    BY <1>1, <2>1 DEF Places, DropFrame, DeliveryTaskDies
  <2>2. CASE LinkCrash \/ LinkRestart
    BY <1>1, <2>2, DeliveryAssumption
       DEF DeliveryAssumption, Places, LinkCrash, LinkRestart, LinkGone, Fault
  <2>3. ASSUME NEW d \in Sides, Unregister(d) \/ Connect(d) \/ ConnectionLost(d)
        PROVE  Places'
    BY <1>1, <2>3, DeliveryAssumption
       DEF DeliveryAssumption, Places, Unregister, Connect, ConnectionLost, Fault, link,
           Broken
  <2>4. CASE CrashSender \/ StartSender
    <3>1. up' \subseteq Sides
      BY <1>1, <2>4 DEF Places, CrashSender, StartSender, Sides
    <3>2. conn' \in [Sides -> {"open", "dying", "closed"}]
      BY <1>1, <2>4 DEF Places, CrashSender, StartSender, Broken
    <3>3. faults' \in 0..MaxFaults
      BY <1>1, <2>4, DeliveryAssumption
         DEF DeliveryAssumption, Places, CrashSender, StartSender, Fault
    <3> QED BY <1>1, <2>4, <3>1, <3>2, <3>3 DEF Places, CrashSender, StartSender, link
  <2>5. ASSUME NEW m \in Messages, Expire(m)
        PROVE  Places'
    BY <1>1, <2>5 DEF Places, Expire, link
  <2> QED BY <2>1, <2>2, <2>3, <2>4, <2>5 DEF RelayStep
<1>5. "dst" \notin up' => "dst" \notin up /\ (conn["dst"] # "open" => conn'["dst"] # "open")
  <2>1. conn \in [Sides -> {"open", "dying", "closed"}] /\ "dst" \in Sides
    BY <1>1 DEF Places, Sides
  <2>2. CASE RelayStep \/ LinkCrash \/ LinkRestart
    BY <2>1, <2>2
       DEF RelayStep, DropFrame, DeliveryTaskDies, LinkCrash, LinkRestart, LinkGone
  <2>3. ASSUME NEW d \in Sides, Unregister(d) \/ Connect(d) \/ ConnectionLost(d)
        PROVE  /\ up' = up
               /\ "dst" \notin up => (conn["dst"] # "open" => conn'["dst"] # "open")
    BY <2>1, <2>3 DEF Unregister, Connect, ConnectionLost, Broken
  <2>4. CASE CrashSender \/ StartSender \/ \E m \in Messages : Expire(m)
    BY <2>1, <2>4 DEF CrashSender, StartSender, Expire, Broken
  <2> QED BY <2>2, <2>3, <2>4
<1>6. Receiving'
  BY <1>1, <1>2, <1>5 DEF Receiving, InCall, CommittedWithRow, durable, receiver
<1>7. Acknowledging'
  <2>1. ASSUME NEW m \in Messages, queue'[<<"ack", m>>] > 0
        PROVE  queue[<<"ack", m>>] > 0
    <3>1. <<"ack", m>> \in Frames
      BY FrameOf
    <3>2. /\ queue[<<"ack", m>>] \in Nat /\ queue'[<<"ack", m>>] \in Nat
          /\ queue'[<<"ack", m>>] <= queue[<<"ack", m>>]
      BY <1>1, <1>3, <3>1, DeliveryAssumption DEF DeliveryAssumption, QueueOK
    <3> QED BY <2>1, <3>2
  <2> QED BY <1>1, <1>2, <2>1 DEF Acknowledging, AckedIsPersisted, durable, receiver
<1> QED BY <1>3, <1>4, <1>6, <1>7, DeliveryInvParts

\* A step of the sender: the row that is acknowledged was acknowledged by the
\* receiver, who had it.
LEMMA SenderKeeps ==
    ASSUME DeliveryInv,
           \/ SenderStep
           \/ \E m \in Messages : Enqueue(m) \/ ReceiveAck(m)
    PROVE  DeliveryInv'
<1>1. QueueOK /\ Places /\ Receiving /\ Acknowledging
  BY DeliveryInvParts
<1>2. UNCHANGED <<inbox, received_at, completions, receiver>>
  BY DEF SenderStep, ReadPending, SendNext, AttemptRaises, Enqueue, ReceiveAck, durable
<1>3. ASSUME NEW m \in Messages, SendNext(m) \/ ReceiveAck(m)
      PROVE  /\ QueueOK'
             /\ \A n \in Messages : queue'[<<"ack", n>>] > 0 => queue[<<"ack", n>>] > 0
  <2>1. CASE SendNext(m)
    <3>1. <<"envelope", m>> \in Frames /\ Submit(<<"envelope", m>>)
      BY <2>1, FrameOf DEF SendNext
    <3>2. /\ QueueOK'
          /\ \A g \in Frames : g # <<"envelope", m>> => queue'[g] = queue[g]
      BY <1>1, <3>1, SubmitKeeps
    <3> QED BY <3>2, FrameOf
  <2>2. CASE ReceiveAck(m)
    <3>1. <<"ack", m>> \in Frames /\ Taken(<<"ack", m>>) /\ queue[<<"ack", m>>] > 0
      BY <2>2, FrameOf DEF ReceiveAck
    <3>2. QueueOK' /\ \A g \in Frames : g # <<"ack", m>> => queue'[g] = queue[g]
      BY <1>1, <3>1, TakenKeeps
    <3>3. \A n \in Messages : n # m => queue'[<<"ack", n>>] = queue[<<"ack", n>>]
      BY <3>2, FrameOf
    <3> QED BY <3>1, <3>2, <3>3
  <2> QED BY <1>3, <2>1, <2>2
<1>4. /\ QueueOK'
      /\ \A n \in Messages : queue'[<<"ack", n>>] > 0 => queue[<<"ack", n>>] > 0
  <2>1. CASE UNCHANGED queue
    BY <1>1, <2>1, QueueStays
  <2> QED BY <1>3, <2>1 DEF SenderStep, ReadPending, AttemptRaises, Enqueue, link
<1>5. Places'
  <2>1. CASE ReadPending
    BY <1>1, <2>1 DEF Places, ReadPending, Due, link
  <2>2. ASSUME NEW m \in Messages, AttemptRaises(m)
        PROVE  Places'
    <3>1. up' \subseteq Sides /\ conn' \in [Sides -> {"open", "dying", "closed"}]
      BY <1>1, <2>2 DEF Places, AttemptRaises, Broken
    <3> QED BY <1>1, <2>2, <3>1 DEF Places, AttemptRaises, link
  <2>3. ASSUME NEW m \in Messages, SendNext(m) \/ Enqueue(m) \/ ReceiveAck(m)
        PROVE  Places'
    BY <1>1, <2>3 DEF Places, SendNext, Enqueue, ReceiveAck, link
  <2> QED BY <2>1, <2>2, <2>3 DEF SenderStep
<1>6. Receiving'
  <2>1. "dst" \in up' <=> "dst" \in up
    BY DEF SenderStep, ReadPending, SendNext, AttemptRaises, Enqueue, ReceiveAck
  <2>2. conn'["dst"] = "open" => conn["dst"] = "open"
    <3>1. conn \in [Sides -> {"open", "dying", "closed"}] /\ "dst" \in Sides
      BY <1>1 DEF Places, Sides
    <3> QED BY <3>1 DEF SenderStep, ReadPending, SendNext, AttemptRaises, Enqueue,
                        ReceiveAck, Broken
  <2> QED BY <1>1, <1>2, <2>1, <2>2 DEF Receiving, InCall, CommittedWithRow, receiver
<1>7. Acknowledging'
  <2>1. outbox' \in [Messages -> {"ABSENT", "PENDING", "ACKED"}]
    BY <1>1 DEF Acknowledging, SenderStep, ReadPending, SendNext, AttemptRaises, Enqueue,
                ReceiveAck, durable
  <2>2. ASSUME NEW m \in Messages, outbox'[m] = "ACKED"
        PROVE  outbox[m] = "ACKED" \/ queue[<<"ack", m>>] > 0
    BY <1>1, <2>2 DEF Acknowledging, SenderStep, ReadPending, SendNext, AttemptRaises,
                      Enqueue, ReceiveAck, durable
  <2> QED BY <1>1, <1>2, <1>4, <2>1, <2>2
          DEF Acknowledging, AckedIsPersisted, receiver
<1> QED BY <1>4, <1>5, <1>6, <1>7, DeliveryInvParts

\* A step of the receiver within a call, or its death and its restart.
LEMMA ReceiverKeeps ==
    ASSUME DeliveryInv,
           \/ ReceiverStep
           \/ CrashReceiver \/ StartReceiver
           \/ \E m \in Messages : ReceiveFrame(m)
    PROVE  DeliveryInv'
<1>1. QueueOK /\ Places /\ Receiving /\ Acknowledging
  BY DeliveryInvParts
<1>2. NoMessage \notin Messages /\ "dst" \in Sides
      /\ inbox \in [Messages -> InboxState] /\ completions \in [Messages -> Nat]
      /\ (msg # NoMessage => msg \in Messages)
  BY <1>1, DeliveryAssumption DEF DeliveryAssumption, Sides, Receiving
<1>3. QueueOK' /\ \A m \in Messages :
                     queue'[<<"ack", m>>] > 0 => queue[<<"ack", m>>] > 0 \/ msg = m
  <2>1. CASE SendAck
    <3>1. msg \in Messages
      BY <1>1, <1>2, <2>1 DEF SendAck, Receiving, InCall
    <3>2. <<"ack", msg>> \in Frames /\ Submit(<<"ack", msg>>)
      BY <2>1, <3>1, FrameOf DEF SendAck, Acknowledges
    <3>3. QueueOK' /\ \A g \in Frames : g # <<"ack", msg>> => queue'[g] = queue[g]
      BY <1>1, <3>2, SubmitKeeps
    <3>4. \A n \in Messages : n # msg => queue'[<<"ack", n>>] = queue[<<"ack", n>>]
      BY <3>1, <3>3, FrameOf
    <3> QED BY <3>3, <3>4
  <2>2. ASSUME NEW m \in Messages, ReceiveFrame(m)
        PROVE  /\ QueueOK'
               /\ \A n \in Messages : queue'[<<"ack", n>>] = queue[<<"ack", n>>]
    <3>1. /\ <<"envelope", m>> \in Frames /\ Taken(<<"envelope", m>>)
          /\ queue[<<"envelope", m>>] > 0
      BY <2>2, FrameOf DEF ReceiveFrame
    <3>2. /\ QueueOK'
          /\ \A g \in Frames : g # <<"envelope", m>> => queue'[g] = queue[g]
      BY <1>1, <3>1, TakenKeeps
    <3> QED BY <3>2, FrameOf
  <2>3. CASE UNCHANGED queue
    BY <1>1, <2>3, QueueStays
  <2> QED BY <2>1, <2>2, <2>3
          DEF ReceiverStep, AckFails, Handle, CompleteInbox, Return, ClaimNext,
              CrashReceiver, StartReceiver, link
<1>4. Places'
  <2>1. CASE CrashReceiver
    <3>1. up' \subseteq Sides /\ conn' \in [Sides -> {"open", "dying", "closed"}]
      BY <1>1, <2>1 DEF Places, CrashReceiver, Broken
    <3>2. faults' \in 0..MaxFaults
      BY <1>1, <2>1, DeliveryAssumption
         DEF DeliveryAssumption, Places, CrashReceiver, Fault
    <3> QED BY <1>1, <2>1, <3>1, <3>2 DEF Places, CrashReceiver, link
  <2>2. CASE StartReceiver
    BY <1>1, <2>2 DEF Places, StartReceiver, link, Sides
  <2>3. CASE UNCHANGED <<expired, up, conn, batch, relay, faults>>
    BY <1>1, <2>3 DEF Places
  <2> QED BY <2>1, <2>2, <2>3
          DEF ReceiverStep, SendAck, AckFails, Handle, CompleteInbox, Return, ClaimNext,
              ReceiveFrame, link
<1>5. outbox' = outbox
  BY DEF ReceiverStep, SendAck, AckFails, Handle, CompleteInbox, Return, ClaimNext,
         ReceiveFrame, CrashReceiver, StartReceiver, durable
<1>6. Receiving' /\ \A m \in Messages : /\ inbox[m] # "ABSENT" => inbox'[m] # "ABSENT"
                                        /\ msg' = m => inbox'[m] # "ABSENT"
  <2> DEFINE Goal == Receiving' /\ \A m \in Messages :
                        /\ inbox[m] # "ABSENT" => inbox'[m] # "ABSENT"
                        /\ msg' = m => inbox'[m] # "ABSENT"
  <2>1. \A m \in Messages : msg = m => inbox[m] # "ABSENT"
    BY <1>1 DEF Acknowledging, AckedIsPersisted
  <2>2. CASE CrashReceiver
    BY <1>1, <1>2, <2>2
       DEF CrashReceiver, Receiving, InCall, CommittedWithRow, durable, Places, Broken
  <2>3. CASE SendAck \/ AckFails \/ Return
    BY <1>1, <1>2, <2>1, <2>3
       DEF SendAck, AckFails, Return, Receiving, InCall, CommittedWithRow, durable, Places
  <2>4. CASE StartReceiver
    <3>1. /\ pc = "idle" /\ msg = NoMessage
          /\ inbox' \in [Messages -> InboxState]
          /\ \A m \in Messages : /\ inbox'[m] = "PROCESSED" <=> inbox[m] = "PROCESSED"
                                 /\ inbox'[m] = "ABSENT" <=> inbox[m] = "ABSENT"
      BY <1>1, <1>2, <2>4
         DEF StartReceiver, Receiving, InCall, RecoverInterrupted, InboxState
    <3>2. left' \in Nat
      <4>1. Claimable(inbox') \subseteq Messages
        BY <3>1 DEF Claimable
      <4>2. Cardinality(Claimable(inbox')) \in Nat
        BY <4>1, FS_Subset, FS_CardinalityType, DeliveryAssumption DEF DeliveryAssumption
      <4>3. left' = 2 * Cardinality(Claimable(inbox'))
        BY <2>4 DEF StartReceiver
      <4> QED BY <4>2, <4>3
    <3> QED BY <1>1, <1>2, <2>4, <3>1, <3>2
            DEF StartReceiver, Receiving, InCall, CommittedWithRow
  <2>5. ASSUME NEW m \in Messages, ReceiveFrame(m)
        PROVE  Goal
    <3>1. received_at' \in [Messages -> Nat]
      <4>1. \A n \in Messages : received_at[n] \in Nat
        BY <1>1 DEF Receiving
      <4> DEFINE R == {received_at[n] : n \in Messages}
      <4>2. \A x \in R : x \in Nat
        BY <4>1
      <4>3. IsFiniteSet(R) /\ R # {}
        <5> DEFINE g == [n \in Messages |-> received_at[n]]
        <5>1. g \in Surjection(Messages, R)
          <6>1. g \in [Messages -> R]
            OBVIOUS
          <6>2. \A x \in R : \E n \in Messages : g[n] = x
            OBVIOUS
          <6> QED BY <6>1, <6>2 DEF Surjection
        <5>2. R # {}
          OBVIOUS
        <5> HIDE DEF R, g
        <5> QED BY <5>1, <5>2, FS_Surjection, DeliveryAssumption DEF DeliveryAssumption
      <4> HIDE DEF R
      <4>4. Max(R) \in Nat
        BY <4>2, <4>3, MaxType
      <4>5. Max(R) + 1 \in Nat
        BY <4>4
      <4>6. received_at' = IF inbox[m] = "ABSENT"
                           THEN [received_at EXCEPT ![m] = Max(R) + 1] ELSE received_at
        BY <2>5 DEF ReceiveFrame, R
      <4> QED BY <1>1, <4>5, <4>6 DEF Receiving
    <3>2. /\ pc = "idle" /\ msg' = m /\ pc' \in {"received", "duplicate"}
          /\ UNCHANGED <<completions, up, conn, left>>
          /\ inbox' = IF inbox[m] = "ABSENT" THEN [inbox EXCEPT ![m] = "RECEIVED"]
                      ELSE inbox
      BY <2>5 DEF ReceiveFrame, Persisted, Receive
    <3>3. conn["dst"] = "open"
      BY <2>5 DEF ReceiveFrame
    <3> QED BY <1>1, <1>2, <3>1, <3>2, <3>3
            DEF Receiving, InCall, CommittedWithRow, InboxState
  <2>6. CASE Handle
    <3>1. msg \in Messages
      BY <1>1, <1>2, <2>6 DEF Handle, Receiving, InCall
    <3>2. CASE msg \in Claimable(inbox)
      <4>1. inbox' = [inbox EXCEPT ![msg] = "PROCESSING"] /\ inbox[msg] # "PROCESSED"
            /\ pc' = "claimed" /\ left' = 1 /\ msg' = msg
            /\ UNCHANGED <<received_at, completions, up, conn>>
        BY <2>6, <3>2 DEF Handle, Claim, Claimable
      <4> QED BY <1>1, <1>2, <2>6, <3>1, <4>1
              DEF Handle, Receiving, InCall, CommittedWithRow, InboxState
    <3>3. CASE msg \notin Claimable(inbox)
      BY <1>1, <1>2, <2>6, <3>3
         DEF Handle, Receiving, InCall, CommittedWithRow
    <3> QED BY <3>2, <3>3
  <2>7. CASE CompleteInbox
    <3>1. msg \in Messages /\ inbox[msg] = "PROCESSING"
      BY <1>1, <1>2, <2>7 DEF CompleteInbox, Receiving, InCall
    <3>2. /\ inbox' = [inbox EXCEPT ![msg] = "PROCESSED"]
          /\ completions' = [completions EXCEPT ![msg] = completions[msg] + 1]
          /\ completions[msg] = 0
      BY <1>1, <2>7, <3>1 DEF CompleteInbox, Complete, Receiving, CommittedWithRow
    <3> QED BY <1>1, <1>2, <2>7, <3>1, <3>2
            DEF CompleteInbox, Receiving, InCall, CommittedWithRow, InboxState
  <2>8. ASSUME NEW m \in Messages, ClaimNext(m)
        PROVE  Goal
    <3>1. inbox' = [inbox EXCEPT ![m] = "PROCESSING"]
          /\ inbox[m] \in {"RECEIVED", "FAILED"} /\ left' \in Nat
      BY <1>1, <2>8 DEF ClaimNext, Claim, NextInbox, Claimable, Receiving
    <3> QED BY <1>1, <1>2, <2>8, <3>1
            DEF ClaimNext, Receiving, InCall, CommittedWithRow, InboxState
  <2> QED BY <2>2, <2>3, <2>4, <2>5, <2>6, <2>7, <2>8 DEF ReceiverStep
<1>7. Acknowledging'
  BY <1>1, <1>3, <1>5, <1>6 DEF Acknowledging, AckedIsPersisted
<1> QED BY <1>3, <1>4, <1>6, <1>7, DeliveryInvParts

LEMMA StutterKeeps ==
    ASSUME DeliveryInv, UNCHANGED vars
    PROVE  DeliveryInv'
<1>1. QueueOK /\ Places /\ Receiving /\ Acknowledging
  BY DeliveryInvParts
<1>2. QueueOK'
  BY <1>1, QueueStays DEF vars, link
<1>3. Places' /\ Receiving' /\ Acknowledging'
  BY <1>1 DEF Places, Receiving, Acknowledging, InCall, CommittedWithRow,
              AckedIsPersisted, vars, durable, receiver, link
<1> QED BY <1>2, <1>3, DeliveryInvParts

\* DeliveryInv is an invariant of the delivery through the link.
THEOREM DeliveryInvariant == Spec => []DeliveryInv
<1>1. DeliveryInv /\ [Next]_vars => DeliveryInv'
  BY LinkKeeps, SenderKeeps, ReceiverKeeps, StutterKeeps DEF Next, FaultStep
<1> QED BY <1>1, InitInv, PTL DEF Spec

\* Every table, queue and place is of its type.
THEOREM DeliveryTypeCorrect == Spec => []TypeOK
<1>1. DeliveryInv => TypeOK
  BY DEF DeliveryInv
<1> QED BY <1>1, DeliveryInvariant, PTL

\* What is acknowledged, or being acknowledged, is in the receiver's inbox.
THEOREM AckedIsDurable == Spec => []AckedIsPersisted
<1>1. DeliveryInv => AckedIsPersisted
  BY DEF DeliveryInv
<1> QED BY <1>1, DeliveryInvariant, PTL

\* The consequences of no message are committed twice.
THEOREM CommittedAtMostOnce == Spec => []CompletedOnce
<1>1. DeliveryInv => CompletedOnce
  BY DEF DeliveryInv, CommittedWithRow, CompletedOnce
<1> QED BY <1>1, DeliveryInvariant, PTL

\* The relay never holds more copies than its capacity, however many frames it
\* is sent and whatever is injected: what does not fit is dropped.
THEOREM LinkIsBounded == Spec => []WithinCapacity
<1>1. DeliveryInv => WithinCapacity
  BY DEF DeliveryInv
<1> QED BY <1>1, DeliveryInvariant, PTL
=============================================================================
