-------------------------- MODULE RetryConsumerProofs --------------------------
(***************************************************************************)
(* Theorems about RetryConsumer, for any queues, messages and routing, any *)
(* number of attempts, any prefetch window and any number of lost          *)
(* connections.                                                            *)
(***************************************************************************)
EXTENDS RetryConsumer, FiniteSetTheorems, SequenceTheorems, TLAPS

-------------------------------------------------------------------------------
(* The topology. *)

Parts == {"exchange", "dlx", "dlq", "dlq binding", "queue", "binding"}
Part == Parts \X Clients

LEMMA InPart ==
  ASSUME NEW c \in Clients, NEW x \in Parts
  PROVE  <<x, c>> \in Part
  BY DEF Part

LEMMA TwoSeq ==
  ASSUME NEW S, NEW a \in S, NEW b \in S
  PROVE  <<a, b>> \in Seq(S) /\ Len(<<a, b>>) = 2 /\ <<a, b>>[2] = b
  OBVIOUS

LEMMA FourSeq ==
  ASSUME NEW S, NEW a \in S, NEW b \in S, NEW c \in S, NEW d \in S
  PROVE  <<a, b, c, d>> \in Seq(S) /\ Len(<<a, b, c, d>>) = 4 /\ <<a, b, c, d>>[4] = d
  OBVIOUS

LEMMA CommonOrder ==
  Common \in Seq(Part) /\ Len(Common) = 4 /\ Common[4] = <<"dlq binding", Publisher>>
<1> DEFINE a == <<"exchange", Publisher>>
           b == <<"dlx", Publisher>>
           c == <<"dlq", Publisher>>
           d == <<"dlq binding", Publisher>>
<1>1. a \in Part /\ b \in Part /\ c \in Part /\ d \in Part
  BY InPart DEF Clients, Parts
<1>2. Common = <<a, b, c, d>>
  BY DEF Common
<1> HIDE DEF a, b, c, d
<1>3. Common \in Seq(Part) /\ Len(Common) = 4 /\ Common[4] = d
  BY <1>1, <1>2, FourSeq
<1> QED BY <1>3 DEF d

\* The publisher ends with the DLQ's binding, the owner of a queue with its own.
LEMMA PublisherOrder ==
  SetupOrder(Publisher) = Common
  BY DEF SetupOrder

LEMMA OwnerOrder ==
  ASSUME NEW q \in Queues
  PROVE  /\ SetupOrder(q) \in Seq(Part)
         /\ Len(SetupOrder(q)) = 6
         /\ SetupOrder(q)[4] = <<"dlq binding", Publisher>>
         /\ SetupOrder(q)[6] = <<"binding", q>>
<1> DEFINE a == <<"queue", q>>
           b == <<"binding", q>>
           own == <<a, b>>
<1>1. SetupOrder(q) = Common \o own
  BY PublisherAssumption DEF SetupOrder
<1>2. a \in Part /\ b \in Part
  BY InPart DEF Clients, Parts
<1> HIDE DEF a, b
<1>3. own \in Seq(Part) /\ Len(own) = 2 /\ own[2] = b
  BY <1>2, TwoSeq
<1> HIDE DEF own
<1>4. /\ Common \o own \in Seq(Part)
      /\ Len(Common \o own) = Len(Common) + Len(own)
      /\ \A i \in 1 .. Len(Common) + Len(own) :
           (Common \o own)[i] = IF i <= Len(Common) THEN Common[i] ELSE own[i - Len(Common)]
  BY <1>3, CommonOrder, ConcatProperties
<1>5. /\ Len(Common \o own) = 6
      /\ (Common \o own)[4] = Common[4]
      /\ (Common \o own)[6] = own[2]
  <2>1. Len(Common) = 4 /\ Len(own) = 2
    BY <1>3, CommonOrder
  <2> DEFINE both == Common \o own
  <2>2. \A i \in 1 .. 4 + 2 : both[i] = IF i <= 4 THEN Common[i] ELSE own[i - 4]
    BY <1>4, <2>1
  <2> HIDE DEF both
  <2>3. both[4] = Common[4] /\ both[6] = own[2]
    BY <2>2
  <2> QED BY <1>4, <2>1, <2>3 DEF both
<1> QED BY <1>1, <1>3, <1>4, <1>5, CommonOrder DEF b

LEMMA OrderType ==
  ASSUME NEW c \in Clients
  PROVE  /\ SetupOrder(c) \in Seq(Part)
         /\ Len(SetupOrder(c)) \in {4, 6}
         /\ Len(SetupOrder(c)) = IF c = Publisher THEN 4 ELSE 6
         /\ SetupOrder(c)[4] = <<"dlq binding", Publisher>>
  BY PublisherOrder, OwnerOrder, CommonOrder, PublisherAssumption DEF Clients

\* What a process got done exists: a reconnection repeats calls, it undoes none.
Topology ==
  \A c \in Clients :
    /\ step[c] \in 0 .. Len(SetupOrder(c))
    /\ \A i \in 1 .. step[c] : SetupOrder(c)[i] \in declared

LEMMA SetUp ==
  ASSUME Topology, NEW c \in Clients, Up(c)
  PROVE  DlqBound /\ (c \in Queues => Bound(c))
<1> DEFINE n == Len(SetupOrder(c))
<1>1. \A i \in 1 .. n : SetupOrder(c)[i] \in declared
  BY DEF Topology, Up
<1>2. n \in {4, 6}
  BY OrderType
<1>3. DlqBound
  <2>1. SetupOrder(c)[4] = <<"dlq binding", Publisher>>
    BY OrderType
  <2> HIDE DEF n
  <2>2. 4 \in 1 .. n
    BY <1>2
  <2> QED BY <1>1, <2>1, <2>2 DEF DlqBound
<1>4. ASSUME c \in Queues PROVE Bound(c)
  <2>1. n = 6 /\ SetupOrder(c)[6] = <<"binding", c>>
    BY <1>4, OwnerOrder
  <2> HIDE DEF n
  <2>2. 6 \in 1 .. n
    BY <2>1
  <2> QED BY <1>1, <2>1, <2>2 DEF Bound
<1> QED BY <1>3, <1>4

-------------------------------------------------------------------------------
(* What the steps do to the broker's counters and to the workers' slots. *)

Ready == [Queues -> [Msgs -> [Attempts -> Nat]]]
Work == [Queues -> [Workers -> {Idle} \cup Delivery]]

LEMMA BusyHolds ==
  ASSUME TypeOK, NEW q \in Queues, NEW w \in Workers
  PROVE  IF Busy(q, w) THEN work[q][w] \in Delivery ELSE work[q][w] = Idle
<1>1. work[q][w] \in {Idle} \cup Delivery
  BY DEF TypeOK
<1>2. Idle.stage = "idle" /\ \A d \in Delivery : d.stage # "idle"
  BY DEF Idle, Delivery, Stages
<1> QED BY <1>1, <1>2 DEF Busy

Put(q, w, d) == work' = [work EXCEPT ![q][w] = d]

LEMMA SetEffect ==
  ASSUME TypeOK, NEW q \in Queues, NEW w \in Workers,
         NEW d \in {Idle} \cup Delivery, Put(q, w, d)
  PROVE  /\ work' \in Work
         /\ work'[q][w] = d
         /\ \A p \in Queues, v \in Workers : p # q \/ v # w => work'[p][v] = work[p][v]
<1>1. work \in Work
  BY DEF TypeOK, Work
<1> DEFINE D == {Idle} \cup Delivery
<1>2. d \in D /\ work \in [Queues -> [Workers -> D]]
  BY <1>1 DEF Work
<1> HIDE DEF D
<1>3. /\ work' \in [Queues -> [Workers -> D]]
      /\ work'[q][w] = d
      /\ \A p \in Queues, v \in Workers : p # q \/ v # w => work'[p][v] = work[p][v]
  BY <1>2 DEF Put
<1> QED BY <1>3 DEF Work, D

LEMMA MoveEffect ==
  ASSUME TypeOK, NEW q \in Queues, NEW w \in Workers, NEW s \in Stages,
         Busy(q, w), MoveTo(q, w, s)
  PROVE  /\ work' \in Work
         /\ work'[q][w] \in Delivery
         /\ work'[q][w].stage = s
         /\ work'[q][w].msg = work[q][w].msg
         /\ work'[q][w].attempt = work[q][w].attempt
         /\ \A p \in Queues, v \in Workers : p # q \/ v # w => work'[p][v] = work[p][v]
<1> DEFINE d == [work[q][w] EXCEPT !.stage = s]
<1>1. work[q][w] \in Delivery
  BY BusyHolds
<1>2. /\ d \in Delivery
      /\ d.stage = s
      /\ d.msg = work[q][w].msg
      /\ d.attempt = work[q][w].attempt
  BY <1>1 DEF Delivery
<1>3. Put(q, w, d)
  BY DEF MoveTo, Put
<1> HIDE DEF d
<1>4. d \in {Idle} \cup Delivery
  BY <1>2
<1>5. /\ work' \in Work
      /\ work'[q][w] = d
      /\ \A p \in Queues, v \in Workers : p # q \/ v # w => work'[p][v] = work[p][v]
  BY <1>3, <1>4, SetEffect
<1> QED BY <1>2, <1>5

LEMMA ReleaseEffect ==
  ASSUME TypeOK, NEW q \in Queues, NEW w \in Workers, Release(q, w)
  PROVE  /\ work' \in Work
         /\ work'[q][w] = Idle
         /\ \A p \in Queues, v \in Workers : p # q \/ v # w => work'[p][v] = work[p][v]
<1>1. Idle \in {Idle} \cup Delivery
  OBVIOUS
<1>2. Put(q, w, Idle)
  BY DEF Release, Put
<1> QED BY <1>1, <1>2, SetEffect

\* A copy leaves a queue.
LEMMA TakeEffect ==
  ASSUME TypeOK, NEW q \in Queues, NEW m \in Msgs, NEW a \in Attempts,
         ready[q][m][a] > 0, ready' = [ready EXCEPT ![q][m][a] = @ - 1]
  PROVE  /\ ready' \in Ready
         /\ \A p \in Queues, n \in Msgs, b \in Attempts :
              /\ ready'[p][n][b] > 0 => ready[p][n][b] > 0
              /\ p # q \/ n # m => ready'[p][n][b] = ready[p][n][b]
<1> DEFINE Counts == [Msgs -> [Attempts -> Nat]]
           r == [ready[q] EXCEPT ![m][a] = @ - 1]
<1>1. ready \in [Queues -> Counts] /\ ready[q] \in Counts
  BY DEF TypeOK
<1>2. ready' = [ready EXCEPT ![q] = r]
  OBVIOUS
<1>3. /\ r \in Counts
      /\ \A n \in Msgs, b \in Attempts :
           /\ r[n][b] > 0 => ready[q][n][b] > 0
           /\ n # m => r[n][b] = ready[q][n][b]
  BY <1>1
<1> HIDE DEF r
<1> HIDE DEF Counts
<1>4. /\ ready' \in [Queues -> Counts]
      /\ ready'[q] = r
      /\ \A p \in Queues : p # q => ready'[p] = ready[p]
  BY <1>1, <1>2, <1>3
<1> QED BY <1>3, <1>4 DEF Counts, Ready

\* The exchange copies a message to the queues that receive it.
LEMMA RoutedEffect ==
  ASSUME TypeOK, NEW m \in Msgs, NEW a \in Attempts, ready' = Routed(m, a)
  PROVE  /\ ready' \in Ready
         /\ \A p \in Queues, n \in Msgs, b \in Attempts :
              ready'[p][n][b] = IF Receives(p, m) /\ n = m /\ b = a
                                THEN ready[p][n][b] + 1 ELSE ready[p][n][b]
<1>1. ready \in Ready
  BY DEF TypeOK, Ready
<1>2. \A p \in Queues : /\ ready'[p] \in [Msgs -> [Attempts -> Nat]]
                        /\ \A n \in Msgs, b \in Attempts :
                             ready'[p][n][b] = IF Receives(p, m) /\ n = m /\ b = a
                                               THEN ready[p][n][b] + 1 ELSE ready[p][n][b]
  <2> SUFFICES ASSUME NEW p \in Queues
               PROVE  /\ ready'[p] \in [Msgs -> [Attempts -> Nat]]
                      /\ \A n \in Msgs, b \in Attempts :
                           ready'[p][n][b] = IF Receives(p, m) /\ n = m /\ b = a
                                             THEN ready[p][n][b] + 1 ELSE ready[p][n][b]
    OBVIOUS
  <2> DEFINE r == ready[p]
  <2>1. r \in [Msgs -> [Attempts -> Nat]]
    BY <1>1 DEF Ready
  <2>2. ready'[p] = IF Receives(p, m) THEN [r EXCEPT ![m][a] = @ + 1] ELSE r
    BY DEF Routed
  <2> HIDE DEF r
  <2>3. r = ready[p]
    BY DEF r
  <2> QED BY <2>1, <2>2, <2>3
<1>3. ready' \in [Queues -> [Msgs -> [Attempts -> Nat]]]
  <2> DEFINE f(p) == IF Receives(p, m) THEN [ready[p] EXCEPT ![m][a] = @ + 1] ELSE ready[p]
  <2>1. ready' = [p \in Queues |-> f(p)]
    BY DEF Routed
  <2> HIDE DEF f
  <2> QED BY <1>2, <2>1
<1> QED BY <1>2, <1>3 DEF Ready

\* A lost connection makes a delivery that was not acked ready again.
LEMMA UnackedCounted ==
  ASSUME NEW q \in Queues, NEW m \in Msgs, NEW a \in Attempts
  PROVE  /\ Cardinality(Unacked(q, m, a)) \in Nat
         /\ Cardinality(Unacked(q, m, a)) > 0 <=> Unacked(q, m, a) # {}
<1>1. IsFiniteSet(Workers)
  BY PrefetchAssumption, FS_Interval DEF Workers
<1>2. IsFiniteSet(Unacked(q, m, a))
  BY <1>1, FS_Subset DEF Unacked
<1> QED BY <1>2, FS_CardinalityType, FS_EmptySet

LEMMA ReturnEffect ==
  ASSUME TypeOK, NEW q \in Queues, ConsumerReconnects(q)
  PROVE  /\ ready' \in Ready
         /\ work' \in Work
         /\ \A w \in Workers : work'[q][w] = Idle
         /\ \A m \in Msgs, a \in Attempts :
              ready'[q][m][a] > 0 <=> ready[q][m][a] > 0 \/ Unacked(q, m, a) # {}
         /\ \A p \in Queues : p # q => ready'[p] = ready[p] /\ work'[p] = work[p]
<1> DEFINE back == [m \in Msgs |->
                     [a \in Attempts |-> ready[q][m][a] + Cardinality(Unacked(q, m, a))]]
           idle == [w \in Workers |-> Idle]
<1>1. ready \in Ready /\ work \in Work
  BY DEF TypeOK, Ready, Work
<1>2. ready' = [ready EXCEPT ![q] = back] /\ work' = [work EXCEPT ![q] = idle]
  BY DEF ConsumerReconnects
<1>3. \A m \in Msgs, a \in Attempts :
        /\ back[m][a] \in Nat
        /\ back[m][a] > 0 <=> ready[q][m][a] > 0 \/ Unacked(q, m, a) # {}
  <2> TAKE m \in Msgs, a \in Attempts
  <2>1. back[m][a] = ready[q][m][a] + Cardinality(Unacked(q, m, a))
    OBVIOUS
  <2>2. ready[q][m][a] \in Nat
    BY <1>1 DEF Ready
  <2> HIDE DEF back
  <2> QED BY <2>1, <2>2, UnackedCounted
<1>4. back \in [Msgs -> [Attempts -> Nat]]
  <2> DEFINE n(m, a) == ready[q][m][a] + Cardinality(Unacked(q, m, a))
  <2>1. \A m \in Msgs, a \in Attempts : n(m, a) \in Nat
    BY <1>3
  <2>2. back = [m \in Msgs |-> [a \in Attempts |-> n(m, a)]]
    OBVIOUS
  <2> HIDE DEF back, n
  <2> QED BY <2>1, <2>2
<1>5. idle \in [Workers -> {Idle} \cup Delivery] /\ \A w \in Workers : idle[w] = Idle
  OBVIOUS
<1> HIDE DEF back, idle
<1>6. /\ ready' \in Ready
      /\ ready'[q] = back
      /\ \A p \in Queues : p # q => ready'[p] = ready[p]
  BY <1>1, <1>2, <1>4 DEF Ready
<1>7. /\ work' \in Work
      /\ work'[q] = idle
      /\ \A p \in Queues : p # q => work'[p] = work[p]
  BY <1>1, <1>2, <1>5 DEF Work
<1> QED BY <1>3, <1>5, <1>6, <1>7

-------------------------------------------------------------------------------
(* The inductive invariant. *)

\* A message is in a queue only where the exchange sends it, and the DLQ is bound
\* before anything is published.
Routes ==
  \A q \in Queues, m \in Msgs : Waiting(q, m) \/ InHand(q, m) => Receives(q, m) /\ DlqBound

\* A delivery whose retry is already published does not count: it may be acked.
Held(q, m) ==
  \E w \in Workers : Busy(q, w) /\ work[q][w].msg = m /\ ~At(q, w, "settled by retry")

Kept ==
  \A q \in Queues, m \in Msgs : <<q, m>> \in owed =>
    Waiting(q, m) \/ Held(q, m) \/ done[q][m] > 0 \/ dlq[q][m] > 0

\* The failures that a delivery stands for: its own, once its handler failed.
Failed(q, w) ==
  IF work[q][w].stage \in {"republishing", "settled by retry", "rejecting"}
  THEN work[q][w].attempt + 1 ELSE work[q][w].attempt

CopiesCounted ==
  \A q \in Queues, m \in Msgs, a \in Attempts : ready[q][m][a] > 0 => a <= failures[m]

SlotCounted(q, w) ==
  Busy(q, w) =>
    /\ Failed(q, w) <= failures[work[q][w].msg]
    /\ At(q, w, "republishing") => work[q][w].attempt + 1 < MaxAttempts
    /\ At(q, w, "rejecting") => work[q][w].attempt + 1 = MaxAttempts

DeadCounted ==
  \A q \in Queues, m \in Msgs : dlq[q][m] > 0 => m \in Expiring \/ failures[m] = MaxAttempts

Counted ==
  /\ CopiesCounted
  /\ \A q \in Queues, w \in Workers : SlotCounted(q, w)
  /\ DeadCounted

IInv == TypeOK /\ Topology /\ Routes /\ Kept /\ Counted

LEMMA InitIInv == Init => IInv
<1> SUFFICES ASSUME Init PROVE IInv
  OBVIOUS
<1>1. \A q \in Queues, w \in Workers : ~Busy(q, w)
  BY DEF Init, Busy, Idle
<1>2. \A q \in Queues, m \in Msgs : ~Waiting(q, m) /\ ~InHand(q, m)
  BY <1>1 DEF Init, Waiting, InHand
<1>3. TypeOK
  BY MaxAttemptsAssumption, MaxLossesAssumption DEF Init, TypeOK, Clients
<1>4. Topology
  <2> SUFFICES ASSUME NEW c \in Clients
               PROVE  /\ step[c] \in 0 .. Len(SetupOrder(c))
                      /\ \A i \in 1 .. step[c] : SetupOrder(c)[i] \in declared
    BY DEF Topology
  <2> DEFINE n == Len(SetupOrder(c))
  <2>1. step[c] = 0
    BY DEF Init
  <2>2. n \in {4, 6}
    BY OrderType
  <2> HIDE DEF n
  <2>3. step[c] \in 0 .. n /\ 1 .. step[c] = {}
    BY <2>1, <2>2
  <2> QED BY <2>3 DEF n
<1>5. Routes /\ Kept
  BY <1>2 DEF Init, Routes, Kept
<1>6. Counted
  BY <1>1 DEF Init, Counted, CopiesCounted, SlotCounted, DeadCounted
<1> QED BY <1>3, <1>4, <1>5, <1>6 DEF IInv

-------------------------------------------------------------------------------
(* Every step preserves it, one conjunct at a time. *)

Counts == [Queues -> [Msgs -> Nat]]
OneMore(f, q, m) == [f EXCEPT ![q][m] = @ + 1]

LEMMA OneMoreEffect ==
  ASSUME NEW f \in Counts, NEW q \in Queues, NEW m \in Msgs
  PROVE  /\ OneMore(f, q, m) \in Counts
         /\ OneMore(f, q, m)[q][m] = f[q][m] + 1
         /\ \A p \in Queues, n \in Msgs :
              p # q \/ n # m => OneMore(f, q, m)[p][n] = f[p][n]
  BY DEF Counts, OneMore

LEMMA DoneEffect ==
  ASSUME TypeOK, NEW q \in Queues, NEW w \in Workers, Ack(q, w)
  PROVE  /\ work[q][w].msg \in Msgs
         /\ done' = OneMore(done, q, work[q][w].msg)
         /\ done \in Counts
<1>1. work[q][w] \in Delivery
  BY BusyHolds DEF Ack, At, Busy
<1> QED BY <1>1 DEF Ack, OneMore, TypeOK, Counts, Delivery

LEMMA DeadLetterEffect ==
  ASSUME TypeOK, NEW q \in Queues, NEW m \in Msgs, DeadLetter(q, m)
  PROVE  /\ dlq' \in Counts
         /\ \A p \in Queues, n \in Msgs :
              /\ dlq'[p][n] >= dlq[p][n]
              /\ p # q \/ n # m => dlq'[p][n] = dlq[p][n]
         /\ DlqBound => dlq'[q][m] > 0
<1>1. dlq \in Counts /\ \A p \in Queues, n \in Msgs : dlq[p][n] \in Nat
  BY DEF TypeOK, Counts
<1>2. dlq' = IF DlqBound THEN OneMore(dlq, q, m) ELSE dlq
  BY DEF DeadLetter, OneMore
<1> QED BY <1>1, <1>2, OneMoreEffect

\* A worker that is past its handler, or in it, holds a delivery.
LEMMA AtHolds ==
  ASSUME TypeOK, NEW q \in Queues, NEW w \in Workers, NEW s \in Stages, At(q, w, s)
  PROVE  /\ Busy(q, w)
         /\ work[q][w] \in Delivery
         /\ work[q][w].msg \in Msgs
         /\ work[q][w].attempt \in Attempts
         /\ InHand(q, work[q][w].msg)
<1>1. Busy(q, w)
  BY DEF At, Busy, Stages
<1>2. work[q][w] \in Delivery
  BY <1>1, BusyHolds
<1> QED BY <1>1, <1>2 DEF Delivery, InHand

\* What a worker can do.
LEMMA ConsumeCases ==
  ASSUME NEW q \in Queues, Consume(q)
  PROVE  \E w \in Workers :
           \/ \E m \in Msgs, a \in Attempts : Deliver(q, w, m, a)
           \/ HandlerSucceeds(q, w)
           \/ HandlerFails(q, w)
           \/ Ack(q, w)
           \/ Reject(q, w)
           \/ Republish(q, w)
           \/ AckOriginal(q, w)
  BY DEF Consume

LEMMA ConsumeKeeps ==
  ASSUME NEW q \in Queues, Consume(q)
  PROVE  UNCHANGED <<declared, step, pub, owed, losses>>
<1>1. PICK w \in Workers :
        \/ \E m \in Msgs, a \in Attempts : Deliver(q, w, m, a)
        \/ HandlerSucceeds(q, w)
        \/ HandlerFails(q, w)
        \/ Ack(q, w)
        \/ Reject(q, w)
        \/ Republish(q, w)
        \/ AckOriginal(q, w)
  BY ConsumeCases
<1>2. ASSUME NEW m \in Msgs, NEW a \in Attempts, Deliver(q, w, m, a)
      PROVE  UNCHANGED <<declared, step, pub, owed, losses>>
  BY <1>2 DEF Deliver
<1>3. CASE HandlerSucceeds(q, w) \/ HandlerFails(q, w)
  BY <1>3 DEF HandlerSucceeds, HandlerFails
<1>4. CASE Ack(q, w) \/ Reject(q, w) \/ Republish(q, w) \/ AckOriginal(q, w)
  BY <1>4 DEF Ack, Reject, Republish, AckOriginal
<1> QED BY <1>1, <1>2, <1>3, <1>4

LEMMA TopologyStep ==
  ASSUME TypeOK, Topology, [Next]_vars
  PROVE  Topology' /\ declared \subseteq declared' /\ declared' \subseteq Part
<1>1. declared \subseteq Part
  BY DEF TypeOK, Part, Parts
<1>2. CASE UNCHANGED <<declared, step>>
  BY <1>1, <1>2 DEF Topology
<1>3. ASSUME NEW c \in Clients, AssertTopology(c)
      PROVE  Topology' /\ declared \subseteq declared' /\ declared' \subseteq Part
  <2> DEFINE order == SetupOrder(c)
             x == order[step[c] + 1]
  <2>1. /\ step \in [Clients -> Nat]
        /\ step' = [step EXCEPT ![c] = @ + 1]
        /\ declared' = declared \cup {x}
        /\ step[c] # Len(order)
    <3>1. 0 .. 6 \subseteq Nat
      OBVIOUS
    <3> QED BY <1>3, <3>1 DEF AssertTopology, TypeOK, Up
  <2>2. step[c] \in 0 .. Len(order) /\ \A i \in 1 .. step[c] : order[i] \in declared
    BY DEF Topology
  <2>3. order \in Seq(Part)
    BY OrderType
  <2> HIDE DEF order
  <2>4. /\ step'[c] \in 0 .. Len(order)
        /\ x \in Part
        /\ \A i \in 1 .. step'[c] : i \in 1 .. step[c] \/ i = step[c] + 1
    BY <2>1, <2>2, <2>3
  <2>5. \A i \in 1 .. step'[c] : order[i] \in declared'
    BY <2>1, <2>2, <2>4
  <2>6. \A d \in Clients : d # c => step'[d] = step[d]
    BY <2>1
  <2> HIDE DEF x
  <2>7. declared \subseteq declared' /\ declared' \subseteq Part
    BY <1>1, <2>1, <2>4
  <2>8. Topology'
    <3> SUFFICES ASSUME NEW d \in Clients
                 PROVE  /\ step'[d] \in 0 .. Len(SetupOrder(d))
                        /\ \A i \in 1 .. step'[d] : SetupOrder(d)[i] \in declared'
      BY DEF Topology
    <3>1. CASE d = c
      BY <2>4, <2>5, <3>1 DEF order
    <3>2. CASE d # c
      BY <2>6, <2>7, <3>2 DEF Topology
    <3> QED BY <3>1, <3>2
  <2> QED BY <2>7, <2>8
<1>4. ASSUME NEW c \in Clients, step' = [step EXCEPT ![c] = 0], declared' = declared
      PROVE  Topology' /\ declared \subseteq declared' /\ declared' \subseteq Part
  <2>1. step'[c] = 0 /\ \A d \in Clients : d # c => step'[d] = step[d]
    BY <1>4 DEF TypeOK
  <2>2. Topology'
    <3> SUFFICES ASSUME NEW d \in Clients
                 PROVE  /\ step'[d] \in 0 .. Len(SetupOrder(d))
                        /\ \A i \in 1 .. step'[d] : SetupOrder(d)[i] \in declared'
      BY DEF Topology
    <3> DEFINE n == Len(SetupOrder(d))
    <3>1. n \in {4, 6}
      BY OrderType
    <3>2. CASE d = c
      <4> HIDE DEF n
      <4>1. step'[d] \in 0 .. n /\ 1 .. step'[d] = {}
        BY <2>1, <3>1, <3>2
      <4> QED BY <4>1 DEF n
    <3>3. CASE d # c
      BY <1>4, <2>1, <3>3 DEF Topology
    <3> QED BY <3>2, <3>3
  <2> QED BY <1>1, <1>4, <2>2
<1>5. CASE PublisherReconnects
  BY <1>4, <1>5 DEF PublisherReconnects, Clients
<1>6. ASSUME NEW q \in Queues, ConsumerReconnects(q)
      PROVE  Topology' /\ declared \subseteq declared' /\ declared' \subseteq Part
  <2>1. q \in Clients
    BY DEF Clients
  <2>2. step' = [step EXCEPT ![q] = 0] /\ declared' = declared
    BY <1>6 DEF ConsumerReconnects
  <2> QED BY <1>4, <2>1, <2>2
<1>7. \/ UNCHANGED <<declared, step>>
      \/ \E c \in Clients : AssertTopology(c)
      \/ PublisherReconnects
      \/ \E q \in Queues : ConsumerReconnects(q)
  <2>1. CASE UNCHANGED vars
    BY <2>1 DEF vars
  <2>2. ASSUME NEW q \in Queues, Consume(q) PROVE UNCHANGED <<declared, step>>
    BY <2>2, ConsumeKeeps
  <2>3. ASSUME NEW m \in Msgs, Publish(m) \/ Confirm(m) PROVE UNCHANGED <<declared, step>>
    BY <2>3 DEF Publish, Confirm
  <2>4. ASSUME NEW q \in Queues, NEW m \in Msgs, NEW a \in Attempts, Expire(q, m, a)
        PROVE  UNCHANGED <<declared, step>>
    BY <2>4 DEF Expire
  <2> QED BY <2>1, <2>2, <2>3, <2>4 DEF Next
<1> QED BY <1>2, <1>3, <1>5, <1>6, <1>7

LEMMA StepType ==
  ASSUME TypeOK, Topology, NEW c \in Clients, AssertTopology(c)
  PROVE  step' \in [Clients -> 0 .. 6] /\ step'[Publisher] <= 4
<1> DEFINE n == Len(SetupOrder(c))
<1>1. n \in {4, 6} /\ (c = Publisher => n = 4)
  BY OrderType
<1>2. step[c] \in 0 .. n
  BY DEF Topology
<1>3. step[c] # n /\ step' = [step EXCEPT ![c] = @ + 1]
  BY DEF AssertTopology, Up
<1>4. step \in [Clients -> 0 .. 6] /\ step[Publisher] <= 4
  BY DEF TypeOK
<1> HIDE DEF n
<1>5. step[c] + 1 \in 0 .. 6 /\ (c = Publisher => step[c] + 1 <= 4)
  BY <1>1, <1>2, <1>3
<1> QED BY <1>3, <1>4, <1>5 DEF Clients

\* A retry never counts past the attempts there are.
LEMMA RetryInRange ==
  ASSUME TypeOK, Counted, NEW q \in Queues, NEW w \in Workers, Republish(q, w)
  PROVE  work[q][w].attempt + 1 \in Attempts
<1> DEFINE a == work[q][w].attempt
<1>1. Busy(q, w) /\ a \in Attempts
  BY AtHolds DEF Republish, Stages
<1>2. a + 1 < MaxAttempts
  BY <1>1 DEF Counted, SlotCounted, Republish
<1> HIDE DEF a
<1>3. a + 1 \in Attempts
  BY <1>1, <1>2, MaxAttemptsAssumption DEF Attempts
<1> QED BY <1>3 DEF a

StepsBack(c) == step' = [step EXCEPT ![c] = 0]

LEMMA StepBack ==
  ASSUME TypeOK, NEW c \in Clients, StepsBack(c)
  PROVE  step' \in [Clients -> 0 .. 6] /\ step'[Publisher] <= 4
<1>1. step \in [Clients -> 0 .. 6] /\ step[Publisher] <= 4 /\ Publisher \in Clients
  BY DEF TypeOK, Clients
<1> QED BY <1>1 DEF StepsBack

LEMMA TypeStep ==
  ASSUME TypeOK, Topology, Counted, [Next]_vars
  PROVE  TypeOK'
<1>1. ASSUME NEW c \in Clients, AssertTopology(c) PROVE TypeOK'
  <2>1. declared' \subseteq Part
    BY TopologyStep
  <2>2. step' \in [Clients -> 0 .. 6] /\ step'[Publisher] <= 4
    BY <1>1, StepType
  <2> QED BY <1>1, <2>1, <2>2 DEF AssertTopology, TypeOK, Part, Parts
<1>2. ASSUME NEW m \in Msgs, Publish(m) PROVE TypeOK'
  <2>1. ready' \in Ready
    <3>1. 0 \in Attempts
      BY MaxAttemptsAssumption DEF Attempts
    <3> QED BY <1>2, <3>1, RoutedEffect DEF Publish
  <2>2. owed' \subseteq Queues \X Msgs
    <3>1. {<<q, m>> : q \in {q \in Queues : Receives(q, m)}} \subseteq Queues \X Msgs
      OBVIOUS
    <3>2. owed \subseteq Queues \X Msgs
      BY DEF TypeOK
    <3>3. owed' = owed \cup {<<q, m>> : q \in {q \in Queues : Receives(q, m)}}
      BY <1>2 DEF Publish
    <3> QED BY <3>1, <3>2, <3>3
  <2> QED BY <1>2, <2>1, <2>2 DEF Publish, TypeOK, Ready
<1>3. ASSUME NEW m \in Msgs, Confirm(m) PROVE TypeOK'
  BY <1>3 DEF Confirm, TypeOK
<1>4. CASE PublisherReconnects
  <2>1. step' \in [Clients -> 0 .. 6] /\ step'[Publisher] <= 4
    BY <1>4, StepBack DEF PublisherReconnects, StepsBack, Clients
  <2>2. losses' \in 0 .. MaxLosses
    <3>1. losses < MaxLosses /\ losses' = losses + 1 /\ losses \in 0 .. MaxLosses
      BY <1>4 DEF PublisherReconnects, TypeOK
    <3> QED BY <3>1, MaxLossesAssumption
  <2>3. pub' \in [Msgs -> {"unsent", "sent", "confirmed"}]
    BY <1>4 DEF PublisherReconnects, TypeOK
  <2> QED BY <1>4, <2>1, <2>2, <2>3 DEF PublisherReconnects, TypeOK
<1>5. ASSUME NEW q \in Queues, NEW m \in Msgs, NEW a \in Attempts, Expire(q, m, a) PROVE TypeOK'
  <2>1. ready' \in Ready
    BY <1>5, TakeEffect DEF Expire
  <2>2. dlq' \in Counts
    BY <1>5, DeadLetterEffect DEF Expire
  <2> QED BY <1>5, <2>1, <2>2 DEF Expire, TypeOK, Ready, Counts
<1>6. ASSUME NEW q \in Queues, ConsumerReconnects(q) PROVE TypeOK'
  <2>1. ready' \in Ready /\ work' \in Work
    BY <1>6, ReturnEffect
  <2>2. step' \in [Clients -> 0 .. 6] /\ step'[Publisher] <= 4
    <3>1. StepsBack(q) /\ q \in Clients
      BY <1>6 DEF ConsumerReconnects, StepsBack, Clients
    <3> QED BY <3>1, StepBack
  <2>3. losses' \in 0 .. MaxLosses
    <3>1. losses < MaxLosses /\ losses' = losses + 1 /\ losses \in 0 .. MaxLosses
      BY <1>6 DEF ConsumerReconnects, TypeOK
    <3> QED BY <3>1, MaxLossesAssumption
  <2> QED BY <1>6, <2>1, <2>2, <2>3 DEF ConsumerReconnects, TypeOK, Ready, Work
<1>7. ASSUME NEW q \in Queues, Consume(q) PROVE TypeOK'
  <2>1. UNCHANGED <<declared, step, pub, owed, losses>>
    BY <1>7, ConsumeKeeps
  <2> SUFFICES /\ ready' \in Ready
               /\ work' \in Work
               /\ done' \in Counts
               /\ dlq' \in Counts
               /\ failures' \in [Msgs -> 0 .. MaxAttempts]
    BY <2>1 DEF TypeOK, Ready, Work, Counts
  <2>2. /\ ready \in Ready
        /\ done \in Counts
        /\ dlq \in Counts
        /\ failures \in [Msgs -> 0 .. MaxAttempts]
    BY DEF TypeOK, Ready, Counts
  <2> DEFINE Goal == /\ ready' \in Ready
                     /\ work' \in Work
                     /\ done' \in Counts
                     /\ dlq' \in Counts
                     /\ failures' \in [Msgs -> 0 .. MaxAttempts]
  <2>3. ASSUME NEW w \in Workers, NEW m \in Msgs, NEW a \in Attempts, Deliver(q, w, m, a)
        PROVE  Goal
    <3> DEFINE d == [stage |-> "handling", msg |-> m, attempt |-> a]
    <3>1. d \in {Idle} \cup Delivery /\ Put(q, w, d)
      BY <2>3 DEF Deliver, Put, Delivery, Stages
    <3> HIDE DEF d
    <3>2. work' \in Work
      BY <3>1, SetEffect
    <3>3. ready' \in Ready
      BY <2>3, TakeEffect DEF Deliver
    <3> QED BY <2>2, <2>3, <3>2, <3>3 DEF Deliver
  <2>4. ASSUME NEW w \in Workers, HandlerSucceeds(q, w) PROVE Goal
    <3>1. Busy(q, w) /\ "acking" \in Stages
      BY <2>4, AtHolds DEF HandlerSucceeds, Stages
    <3>2. work' \in Work
      BY <2>4, <3>1, MoveEffect DEF HandlerSucceeds
    <3> QED BY <2>2, <2>4, <3>2 DEF HandlerSucceeds
  <2>5. ASSUME NEW w \in Workers, HandlerFails(q, w) PROVE Goal
    <3>1. Busy(q, w)
      BY <2>5, AtHolds DEF HandlerFails, Stages
    <3>2. PICK s \in Stages : MoveTo(q, w, s)
      BY <2>5 DEF HandlerFails, Stages
    <3>3. work' \in Work
      BY <3>1, <3>2, MoveEffect
    <3>4. failures' \in [Msgs -> 0 .. MaxAttempts]
      <4> DEFINE m == work[q][w].msg
                 n == IF failures[m] < MaxAttempts THEN failures[m] + 1 ELSE failures[m]
      <4>1. m \in Msgs
        BY <2>5, AtHolds DEF HandlerFails, Stages
      <4>2. failures' = [failures EXCEPT ![m] = n]
        BY <2>5 DEF HandlerFails
      <4> HIDE DEF m
      <4>3. n \in 0 .. MaxAttempts
        BY <2>2, <4>1, MaxAttemptsAssumption
      <4> HIDE DEF n
      <4> QED BY <2>2, <4>1, <4>2, <4>3
    <3> QED BY <2>2, <2>5, <3>3, <3>4 DEF HandlerFails
  <2>6. ASSUME NEW w \in Workers, Ack(q, w) PROVE Goal
    <3>1. work' \in Work
      BY <2>6, ReleaseEffect DEF Ack
    <3>2. done' \in Counts
      BY <2>6, DoneEffect, OneMoreEffect
    <3> QED BY <2>2, <2>6, <3>1, <3>2 DEF Ack
  <2>7. ASSUME NEW w \in Workers, Reject(q, w) PROVE Goal
    <3>1. work' \in Work
      BY <2>7, ReleaseEffect DEF Reject
    <3>2. work[q][w].msg \in Msgs
      BY <2>7, AtHolds DEF Reject, Stages
    <3>3. dlq' \in Counts
      BY <2>7, <3>2, DeadLetterEffect DEF Reject
    <3> QED BY <2>2, <2>7, <3>1, <3>3 DEF Reject
  <2>8. ASSUME NEW w \in Workers, Republish(q, w) PROVE Goal
    <3>1. /\ Busy(q, w) /\ "settled by retry" \in Stages
          /\ work[q][w].msg \in Msgs /\ work[q][w].attempt \in Attempts
      BY <2>8, AtHolds DEF Republish, Stages
    <3>2. work' \in Work
      BY <2>8, <3>1, MoveEffect DEF Republish
    <3>3. work[q][w].attempt + 1 \in Attempts
      BY <2>8, RetryInRange
    <3>4. ready' \in Ready
      BY <2>8, <3>1, <3>3, RoutedEffect DEF Republish
    <3> QED BY <2>2, <2>8, <3>2, <3>4 DEF Republish
  <2>9. ASSUME NEW w \in Workers, AckOriginal(q, w) PROVE Goal
    <3>1. work' \in Work
      BY <2>9, ReleaseEffect DEF AckOriginal
    <3> QED BY <2>2, <2>9, <3>1 DEF AckOriginal
  <2> HIDE DEF Goal
  <2>10. Goal
    BY <1>7, <2>3, <2>4, <2>5, <2>6, <2>7, <2>8, <2>9, ConsumeCases
  <2> QED BY <2>10 DEF Goal
<1>8. CASE UNCHANGED vars
  BY <1>8 DEF vars, TypeOK
<1> QED BY <1>1, <1>2, <1>3, <1>4, <1>5, <1>6, <1>7, <1>8 DEF Next

\* Who holds what, when one slot changes.
LEMMA MoveInHand ==
  ASSUME TypeOK, NEW q \in Queues, NEW w \in Workers, NEW s \in Stages,
         Busy(q, w), MoveTo(q, w, s)
  PROVE  \A p \in Queues, n \in Msgs :
           /\ InHand(p, n)' <=> InHand(p, n)
           /\ s # "settled by retry" /\ Held(p, n) => Held(p, n)'
<1>1. /\ work'[q][w].stage = s
      /\ work'[q][w].msg = work[q][w].msg
      /\ \A p \in Queues, v \in Workers : p # q \/ v # w => work'[p][v] = work[p][v]
  BY MoveEffect
<1>2. s # "idle"
  BY DEF Stages
<1> QED BY <1>1, <1>2 DEF InHand, Held, Busy, At

LEMMA ReleaseInHand ==
  ASSUME TypeOK, NEW q \in Queues, NEW w \in Workers, Release(q, w)
  PROVE  \A p \in Queues, n \in Msgs : InHand(p, n)' => InHand(p, n)
<1>1. /\ work'[q][w].stage = "idle"
      /\ \A p \in Queues, v \in Workers : p # q \/ v # w => work'[p][v] = work[p][v]
  BY ReleaseEffect DEF Idle
<1> QED BY <1>1 DEF InHand, Busy

OnlySlot(q, w) ==
  \A p \in Queues, v \in Workers : p # q \/ v # w => work'[p][v] = work[p][v]

LEMMA HeldElsewhere ==
  ASSUME NEW q \in Queues, NEW w \in Workers, OnlySlot(q, w),
         NEW p \in Queues, NEW n \in Msgs, Held(p, n),
         \/ ~Busy(q, w)
         \/ At(q, w, "settled by retry")
         \/ p # q
         \/ n # work[q][w].msg
  PROVE  Held(p, n)'
<1>1. PICK v \in Workers : Busy(p, v) /\ work[p][v].msg = n /\ ~At(p, v, "settled by retry")
  BY DEF Held
<1>2. p # q \/ v # w
  BY <1>1
<1>3. work'[p][v] = work[p][v]
  BY <1>2 DEF OnlySlot
<1> QED BY <1>1, <1>3 DEF Held, Busy, At

LEMMA RoutesStep ==
  ASSUME TypeOK, Topology, Routes, Counted, [Next]_vars
  PROVE  Routes'
<1>1. \A p \in Queues, n \in Msgs : Receives(p, n) /\ DlqBound => (Receives(p, n) /\ DlqBound)'
  BY TopologyStep DEF Receives, Bound, DlqBound
<1> SUFFICES ASSUME NEW p \in Queues, NEW n \in Msgs
             PROVE  (Waiting(p, n) \/ InHand(p, n))' =>
                      Waiting(p, n) \/ InHand(p, n) \/ (Receives(p, n) /\ DlqBound)
  BY <1>1 DEF Routes
<1> DEFINE Goal == (Waiting(p, n) \/ InHand(p, n))' =>
                     Waiting(p, n) \/ InHand(p, n) \/ (Receives(p, n) /\ DlqBound)
<1>2. CASE UNCHANGED <<ready, work>>
  BY <1>2 DEF Waiting, InHand, Busy
<1>3. ASSUME NEW m \in Msgs, Publish(m) PROVE Goal
  <2>1. 0 \in Attempts
    BY MaxAttemptsAssumption DEF Attempts
  <2>2. \A b \in Attempts : ready'[p][n][b] = ready[p][n][b] \/ (Receives(p, m) /\ n = m)
    BY <1>3, <2>1, RoutedEffect DEF Publish
  <2>3. Waiting(p, n)' => Waiting(p, n) \/ Receives(p, n)
    BY <2>2 DEF Waiting
  <2>4. DlqBound
    BY <1>3, SetUp DEF Publish, Clients
  <2>5. InHand(p, n)' => InHand(p, n)
    BY <1>3 DEF Publish, InHand, Busy
  <2> QED BY <2>3, <2>4, <2>5
<1>4. ASSUME NEW q \in Queues, NEW m \in Msgs, NEW a \in Attempts, Expire(q, m, a) PROVE Goal
  <2>1. Waiting(p, n)' => Waiting(p, n)
    BY <1>4, TakeEffect DEF Expire, Waiting
  <2>2. InHand(p, n)' => InHand(p, n)
    BY <1>4 DEF Expire, InHand, Busy
  <2> QED BY <2>1, <2>2
<1>5. ASSUME NEW q \in Queues, ConsumerReconnects(q) PROVE Goal
  <2>1. CASE p = q
    <3>1. \A b \in Attempts : ready'[p][n][b] > 0 => ready[p][n][b] > 0 \/ Unacked(p, n, b) # {}
      BY <1>5, <2>1, ReturnEffect
    <3>2. \A b \in Attempts : Unacked(p, n, b) # {} => InHand(p, n)
      BY DEF Unacked, InHand
    <3>3. Waiting(p, n)' => Waiting(p, n) \/ InHand(p, n)
      BY <3>1, <3>2 DEF Waiting
    <3>4. ~InHand(p, n)'
      <4>1. \A v \in Workers : work'[p][v].stage = "idle"
        BY <1>5, <2>1, ReturnEffect DEF Idle
      <4> QED BY <4>1 DEF InHand, Busy
    <3> QED BY <3>3, <3>4
  <2>2. CASE p # q
    <3>1. ready'[p] = ready[p] /\ work'[p] = work[p]
      BY <1>5, <2>2, ReturnEffect
    <3> QED BY <3>1 DEF Waiting, InHand, Busy
  <2> QED BY <2>1, <2>2
<1>6. ASSUME NEW q \in Queues, Consume(q) PROVE Goal
  <2>1. ASSUME NEW w \in Workers, NEW m \in Msgs, NEW a \in Attempts, Deliver(q, w, m, a)
        PROVE  Goal
    <3> DEFINE d == [stage |-> "handling", msg |-> m, attempt |-> a]
    <3>1. d \in {Idle} \cup Delivery /\ Put(q, w, d) /\ d.msg = m
      BY <2>1 DEF Deliver, Put, Delivery, Stages
    <3> HIDE DEF d
    <3>2. /\ work'[q][w].msg = m
          /\ \A p1 \in Queues, v \in Workers : p1 # q \/ v # w => work'[p1][v] = work[p1][v]
      BY <3>1, SetEffect
    <3>3. InHand(p, n)' => InHand(p, n) \/ (p = q /\ n = m)
      BY <3>2 DEF InHand, Busy
    <3>4. Waiting(q, m)
      BY <2>1 DEF Deliver, Waiting
    <3>5. Waiting(p, n)' => Waiting(p, n)
      BY <2>1, TakeEffect DEF Deliver, Waiting
    <3> QED BY <3>3, <3>4, <3>5
  <2>2. ASSUME NEW w \in Workers, HandlerSucceeds(q, w) \/ HandlerFails(q, w) PROVE Goal
    <3>1. Busy(q, w)
      BY <2>2, AtHolds DEF HandlerSucceeds, HandlerFails, Stages
    <3>2. PICK s \in Stages : MoveTo(q, w, s)
      BY <2>2 DEF HandlerSucceeds, HandlerFails, Stages
    <3>3. ready' = ready
      BY <2>2 DEF HandlerSucceeds, HandlerFails
    <3> QED BY <3>1, <3>2, <3>3, MoveInHand DEF Waiting
  <2>3. ASSUME NEW w \in Workers, Ack(q, w) \/ Reject(q, w) \/ AckOriginal(q, w) PROVE Goal
    <3>1. Release(q, w) /\ ready' = ready
      BY <2>3 DEF Ack, Reject, AckOriginal
    <3> QED BY <3>1, ReleaseInHand DEF Waiting
  <2>4. ASSUME NEW w \in Workers, Republish(q, w) PROVE Goal
    <3> DEFINE m == work[q][w].msg
               a == work[q][w].attempt + 1
    <3>1. /\ Busy(q, w) /\ "settled by retry" \in Stages
          /\ m \in Msgs /\ InHand(q, m)
      BY <2>4, AtHolds DEF Republish, Stages
    <3>2. InHand(p, n)' => InHand(p, n)
      BY <2>4, <3>1, MoveInHand DEF Republish
    <3>3. DlqBound
      BY <3>1 DEF Routes
    <3>4. a \in Attempts
      BY <2>4, RetryInRange
    <3>5. ready' = Routed(m, a)
      BY <2>4 DEF Republish
    <3> HIDE DEF m, a
    <3>6. \A b \in Attempts : ready'[p][n][b] = ready[p][n][b] \/ (Receives(p, m) /\ n = m)
      <4>1. m \in Msgs
        BY <3>1
      <4>2. TypeOK /\ m \in Msgs /\ a \in Attempts /\ ready' = Routed(m, a)
        BY <3>4, <3>5, <4>1
      <4>3. \A b \in Attempts :
             ready'[p][n][b] = IF Receives(p, m) /\ n = m /\ b = a
                               THEN ready[p][n][b] + 1 ELSE ready[p][n][b]
        BY <4>2, RoutedEffect
      <4> QED BY <4>3
    <3>7. Waiting(p, n)' => Waiting(p, n) \/ Receives(p, n)
      BY <3>6 DEF Waiting
    <3> QED BY <3>2, <3>3, <3>7
  <2> HIDE DEF Goal
  <2> QED BY <1>6, <2>1, <2>2, <2>3, <2>4, ConsumeCases
<1>7. ASSUME NEW c \in Clients, AssertTopology(c) PROVE UNCHANGED <<ready, work>>
  BY <1>7 DEF AssertTopology
<1>8. ASSUME NEW m \in Msgs, Confirm(m) PROVE UNCHANGED <<ready, work>>
  BY <1>8 DEF Confirm
<1>9. PublisherReconnects \/ UNCHANGED vars => UNCHANGED <<ready, work>>
  BY DEF PublisherReconnects, vars
<1> QED BY <1>2, <1>3, <1>4, <1>5, <1>6, <1>7, <1>8, <1>9 DEF Next

\* Nothing leaves a queue but into a hand, the done pile or the DLQ.
Safe(q, m) == Waiting(q, m) \/ Held(q, m) \/ done[q][m] > 0 \/ dlq[q][m] > 0

LEMMA KeptStep ==
  ASSUME TypeOK, Topology, Routes, Kept, Counted, [Next]_vars
  PROVE  Kept'
<1> SUFFICES ASSUME NEW p \in Queues, NEW n \in Msgs
             PROVE  (<<p, n>> \in owed /\ Safe(p, n) => Safe(p, n)')
                    /\ (<<p, n>> \in owed' => <<p, n>> \in owed \/ Safe(p, n)')
  BY DEF Kept, Safe
<1> DEFINE Goal == /\ <<p, n>> \in owed /\ Safe(p, n) => Safe(p, n)'
                   /\ <<p, n>> \in owed' => <<p, n>> \in owed \/ Safe(p, n)'
<1>1. done[p][n] \in Nat /\ done \in Counts
  BY DEF TypeOK, Counts
<1>2. CASE UNCHANGED <<ready, work, done, dlq, owed>>
  BY <1>2 DEF Safe, Waiting, Held, Busy, At
<1>3. ASSUME NEW m \in Msgs, Publish(m) PROVE Goal
  <2>1. 0 \in Attempts
    BY MaxAttemptsAssumption DEF Attempts
  <2>2. \A b \in Attempts :
          ready'[p][n][b] = IF Receives(p, m) /\ n = m /\ b = 0
                            THEN ready[p][n][b] + 1 ELSE ready[p][n][b]
    BY <1>3, <2>1, RoutedEffect DEF Publish
  <2>3. ready \in [Queues -> [Msgs -> [Attempts -> Nat]]]
    BY DEF TypeOK
  <2>4. \A b \in Attempts : ready[p][n][b] \in Nat
    BY <2>3
  <2>5. Waiting(p, n) => Waiting(p, n)'
    BY <2>2, <2>4 DEF Waiting
  <2>6. <<p, n>> \in owed' => <<p, n>> \in owed \/ (Receives(p, m) /\ n = m)
    BY <1>3 DEF Publish
  <2>7. Receives(p, m) /\ n = m => Waiting(p, n)'
    BY <2>1, <2>2, <2>4 DEF Waiting
  <2>8. UNCHANGED <<work, done, dlq>>
    BY <1>3 DEF Publish
  <2> QED BY <2>5, <2>6, <2>7, <2>8 DEF Safe, Held, Busy, At
<1>4. ASSUME NEW q \in Queues, NEW m \in Msgs, NEW a \in Attempts, Expire(q, m, a) PROVE Goal
  <2>1. Waiting(q, m)
    BY <1>4 DEF Expire, Waiting
  <2>2. DlqBound
    BY <2>1 DEF Routes
  <2>3. /\ dlq' \in Counts
        /\ dlq'[q][m] > 0
        /\ p # q \/ n # m => dlq'[p][n] = dlq[p][n]
    BY <1>4, <2>2, DeadLetterEffect DEF Expire
  <2>4. p # q \/ n # m => \A b \in Attempts : ready'[p][n][b] = ready[p][n][b]
    BY <1>4, TakeEffect DEF Expire
  <2>5. UNCHANGED <<work, done, owed>>
    BY <1>4 DEF Expire
  <2> QED BY <2>3, <2>4, <2>5 DEF Safe, Waiting, Held, Busy, At
<1>5. ASSUME NEW q \in Queues, ConsumerReconnects(q) PROVE Goal
  <2>1. UNCHANGED <<done, dlq, owed>>
    BY <1>5 DEF ConsumerReconnects
  <2>2. CASE p = q
    <3>1. \A b \in Attempts : ready[p][n][b] > 0 \/ Unacked(p, n, b) # {} => ready'[p][n][b] > 0
      BY <1>5, <2>2, ReturnEffect
    <3>2. ASSUME Held(p, n) PROVE Waiting(p, n)'
      <4>1. PICK v \in Workers : Busy(p, v) /\ work[p][v].msg = n
        BY <3>2 DEF Held
      <4>2. work[p][v].attempt \in Attempts
        BY <4>1, BusyHolds DEF Delivery
      <4>3. v \in Unacked(p, n, work[p][v].attempt)
        BY <4>1 DEF Unacked
      <4> QED BY <3>1, <4>2, <4>3 DEF Waiting
    <3>3. Waiting(p, n) => Waiting(p, n)'
      BY <3>1 DEF Waiting
    <3> QED BY <2>1, <3>2, <3>3 DEF Safe
  <2>3. CASE p # q
    <3>1. ready'[p] = ready[p] /\ work'[p] = work[p]
      BY <1>5, <2>3, ReturnEffect
    <3> QED BY <2>1, <3>1 DEF Safe, Waiting, Held, Busy, At
  <2> QED BY <2>2, <2>3
<1>6. ASSUME NEW q \in Queues, Consume(q) PROVE Goal
  <2>1. owed' = owed
    BY <1>6, ConsumeKeeps
  <2>2. ASSUME NEW w \in Workers, NEW m \in Msgs, NEW a \in Attempts, Deliver(q, w, m, a)
        PROVE  Safe(p, n) => Safe(p, n)'
    <3> DEFINE d == [stage |-> "handling", msg |-> m, attempt |-> a]
    <3>1. d \in {Idle} \cup Delivery /\ Put(q, w, d) /\ d.msg = m /\ d.stage = "handling"
      BY <2>2 DEF Deliver, Put, Delivery, Stages
    <3> HIDE DEF d
    <3>2. work'[q][w].msg = m /\ work'[q][w].stage = "handling" /\ OnlySlot(q, w)
      BY <3>1, SetEffect DEF OnlySlot
    <3>3. Held(q, m)'
      BY <3>2 DEF Held, Busy, At
    <3>4. ~Busy(q, w)
      BY <2>2 DEF Deliver
    <3>5. Held(p, n) => Held(p, n)'
      BY <3>2, <3>4, HeldElsewhere
    <3>6. p # q \/ n # m => \A b \in Attempts : ready'[p][n][b] = ready[p][n][b]
      BY <2>2, TakeEffect DEF Deliver
    <3>7. p # q \/ n # m => (Waiting(p, n) => Waiting(p, n)')
      BY <3>6 DEF Waiting
    <3>8. UNCHANGED <<done, dlq>>
      BY <2>2 DEF Deliver
    <3> QED BY <3>3, <3>5, <3>7, <3>8 DEF Safe
  <2>3. ASSUME NEW w \in Workers, HandlerSucceeds(q, w) \/ HandlerFails(q, w)
        PROVE  Safe(p, n) => Safe(p, n)'
    <3>1. Busy(q, w)
      BY <2>3, AtHolds DEF HandlerSucceeds, HandlerFails, Stages
    <3>2. PICK s \in Stages : MoveTo(q, w, s) /\ s # "settled by retry"
      BY <2>3 DEF HandlerSucceeds, HandlerFails, Stages
    <3>3. UNCHANGED <<ready, done, dlq>>
      BY <2>3 DEF HandlerSucceeds, HandlerFails
    <3>4. Held(p, n) => Held(p, n)'
      BY <3>1, <3>2, MoveInHand
    <3> QED BY <3>3, <3>4 DEF Safe, Waiting
  <2>4. ASSUME NEW w \in Workers, Ack(q, w) PROVE Safe(p, n) => Safe(p, n)'
    <3> DEFINE m == work[q][w].msg
    <3>1. m \in Msgs /\ done' = OneMore(done, q, m)
      BY <2>4, DoneEffect
    <3>2. Release(q, w) /\ UNCHANGED <<ready, dlq>>
      BY <2>4 DEF Ack
    <3>3. OnlySlot(q, w)
      BY <3>2, ReleaseEffect DEF OnlySlot
    <3>4. p # q \/ n # m => (Held(p, n) => Held(p, n)')
      BY <3>3, HeldElsewhere
    <3> HIDE DEF m
    <3>5. /\ p = q /\ n = m => done'[p][n] = done[p][n] + 1
          /\ p # q \/ n # m => done'[p][n] = done[p][n]
      BY <1>1, <3>1, OneMoreEffect
    <3> QED BY <1>1, <3>2, <3>4, <3>5 DEF Safe, Waiting
  <2>5. ASSUME NEW w \in Workers, Reject(q, w) PROVE Safe(p, n) => Safe(p, n)'
    <3> DEFINE m == work[q][w].msg
    <3>1. m \in Msgs /\ InHand(q, m)
      BY <2>5, AtHolds DEF Reject, Stages
    <3>2. Release(q, w) /\ DeadLetter(q, m) /\ UNCHANGED <<ready, done>>
      BY <2>5 DEF Reject
    <3>3. OnlySlot(q, w)
      BY <3>2, ReleaseEffect DEF OnlySlot
    <3>4. p # q \/ n # m => (Held(p, n) => Held(p, n)')
      BY <3>3, HeldElsewhere
    <3>5. DlqBound
      BY <3>1 DEF Routes
    <3> HIDE DEF m
    <3>6. dlq'[q][m] > 0 /\ (p # q \/ n # m => dlq'[p][n] = dlq[p][n])
      BY <3>1, <3>2, <3>5, DeadLetterEffect
    <3> QED BY <3>2, <3>4, <3>6 DEF Safe, Waiting
  <2>6. ASSUME NEW w \in Workers, Republish(q, w) PROVE Safe(p, n) => Safe(p, n)'
    <3> DEFINE m == work[q][w].msg
               a == work[q][w].attempt + 1
    <3>1. /\ Busy(q, w) /\ "settled by retry" \in Stages
          /\ m \in Msgs /\ InHand(q, m)
      BY <2>6, AtHolds DEF Republish, Stages
    <3>2. OnlySlot(q, w)
      BY <2>6, <3>1, MoveEffect DEF Republish, OnlySlot
    <3>3. p # q \/ n # m => (Held(p, n) => Held(p, n)')
      BY <3>2, HeldElsewhere
    <3>4. a \in Attempts
      BY <2>6, RetryInRange
    <3>5. ready' = Routed(m, a)
      BY <2>6 DEF Republish
    <3>6. UNCHANGED <<done, dlq>>
      BY <2>6 DEF Republish
    <3>7. m \in Msgs /\ Receives(q, m)
      BY <3>1 DEF Routes
    <3> HIDE DEF m, a
    <3>8. \A b \in Attempts :
            ready'[p][n][b] = IF Receives(p, m) /\ n = m /\ b = a
                              THEN ready[p][n][b] + 1 ELSE ready[p][n][b]
      BY <3>4, <3>5, <3>7, RoutedEffect
    <3>9. ready \in [Queues -> [Msgs -> [Attempts -> Nat]]]
      BY DEF TypeOK
    <3>10. \A b \in Attempts : ready[p][n][b] \in Nat
      BY <3>9
    <3>11. Waiting(p, n) => Waiting(p, n)'
      BY <3>8, <3>10 DEF Waiting
    <3>12. p = q /\ n = m => Waiting(p, n)'
      BY <3>4, <3>7, <3>8, <3>10 DEF Waiting
    <3> QED BY <3>3, <3>6, <3>11, <3>12 DEF Safe
  <2>7. ASSUME NEW w \in Workers, AckOriginal(q, w) PROVE Safe(p, n) => Safe(p, n)'
    <3>1. At(q, w, "settled by retry") /\ Release(q, w) /\ UNCHANGED <<ready, done, dlq>>
      BY <2>7 DEF AckOriginal
    <3>2. OnlySlot(q, w)
      BY <3>1, ReleaseEffect DEF OnlySlot
    <3>3. Held(p, n) => Held(p, n)'
      BY <3>1, <3>2, HeldElsewhere
    <3> QED BY <3>1, <3>3 DEF Safe, Waiting
  <2>8. Safe(p, n) => Safe(p, n)'
    BY <1>6, <2>2, <2>3, <2>4, <2>5, <2>6, <2>7, ConsumeCases
  <2> QED BY <2>1, <2>8
<1>7. ASSUME NEW c \in Clients, AssertTopology(c)
      PROVE  UNCHANGED <<ready, work, done, dlq, owed>>
  BY <1>7 DEF AssertTopology
<1>8. ASSUME NEW m \in Msgs, Confirm(m) PROVE UNCHANGED <<ready, work, done, dlq, owed>>
  BY <1>8 DEF Confirm
<1>9. PublisherReconnects \/ UNCHANGED vars => UNCHANGED <<ready, work, done, dlq, owed>>
  BY DEF PublisherReconnects, vars
<1> QED BY <1>2, <1>3, <1>4, <1>5, <1>6, <1>7, <1>8, <1>9 DEF Next

LEMMA FailuresType ==
  ASSUME TypeOK
  PROVE  \A m \in Msgs : failures[m] \in Nat /\ failures[m] <= MaxAttempts
<1>1. failures \in [Msgs -> 0 .. MaxAttempts]
  BY DEF TypeOK
<1> QED BY <1>1, MaxAttemptsAssumption

\* What is counted stays counted, for failures only grow.
FailuresGrow == \A n \in Msgs : failures'[n] >= failures[n]

LEMMA SlotKeeps ==
  ASSUME TypeOK, TypeOK', FailuresGrow, NEW p \in Queues, NEW v \in Workers,
         work'[p][v] = work[p][v], SlotCounted(p, v)
  PROVE  SlotCounted(p, v)'
<1>1. CASE ~Busy(p, v)
  BY <1>1 DEF SlotCounted, Busy
<1>2. CASE Busy(p, v)
  <2> DEFINE n == work[p][v].msg
             k == Failed(p, v)
  <2>1. work[p][v] \in Delivery
    BY <1>2, BusyHolds
  <2>2. n \in Msgs /\ work[p][v].attempt \in Nat
    BY <2>1 DEF Delivery, Attempts
  <2>3. k \in Nat
    <3> DEFINE a == work[p][v].attempt
    <3>1. k \in {a, a + 1}
      BY DEF Failed
    <3> HIDE DEF k
    <3> QED BY <2>2, <3>1
  <2>4. failures[n] \in Nat /\ failures'[n] \in Nat
    <3>1. failures' \in [Msgs -> 0 .. MaxAttempts]
      BY DEF TypeOK
    <3> QED BY <2>2, <3>1, FailuresType, MaxAttemptsAssumption
  <2>5. k <= failures[n]
    BY <1>2 DEF SlotCounted
  <2>6. k <= failures'[n]
    <3>1. failures'[n] >= failures[n]
      BY <2>2 DEF FailuresGrow
    <3> HIDE DEF k, n
    <3> QED BY <2>3, <2>4, <2>5, <3>1
  <2> QED BY <1>2, <2>6 DEF SlotCounted, Busy, At, Failed
<1> QED BY <1>1, <1>2

LEMMA GrowKeeps ==
  ASSUME TypeOK, TypeOK', FailuresGrow
  PROVE  /\ CopiesCounted /\ ready' = ready => CopiesCounted'
         /\ DeadCounted /\ dlq' = dlq => DeadCounted'
<1>1. \A n \in Msgs : failures[n] \in 0 .. MaxAttempts /\ failures'[n] \in 0 .. MaxAttempts
  BY DEF TypeOK
<1>2. Attempts \subseteq Nat
  BY DEF Attempts
<1> QED BY <1>1, <1>2, MaxAttemptsAssumption DEF FailuresGrow, CopiesCounted, DeadCounted

LEMMA SameFailures ==
  ASSUME TypeOK, failures' = failures
  PROVE  FailuresGrow
  BY FailuresType DEF FailuresGrow

\* A handler that fails is one failure more, up to the last that matters.
LEMMA FailureEffect ==
  ASSUME TypeOK, NEW q \in Queues, NEW w \in Workers, HandlerFails(q, w), SlotCounted(q, w)
  PROVE  /\ FailuresGrow
         /\ work[q][w].attempt + 1 <= failures'[work[q][w].msg]
         /\ work[q][w].attempt \in 0 .. MaxAttempts - 1
<1> DEFINE m == work[q][w].msg
           a == work[q][w].attempt
           n == IF failures[m] < MaxAttempts THEN failures[m] + 1 ELSE failures[m]
<1>1. Busy(q, w) /\ m \in Msgs /\ a \in 0 .. MaxAttempts - 1
  BY AtHolds DEF HandlerFails, Stages, Attempts
<1>2. a <= failures[m]
  BY <1>1 DEF SlotCounted, Failed, HandlerFails, At
<1>3. failures' = [failures EXCEPT ![m] = n]
  BY DEF HandlerFails
<1>4. failures \in [Msgs -> 0 .. MaxAttempts]
  BY DEF TypeOK
<1> HIDE DEF m, a
<1>5. n \in Nat /\ n >= failures[m] /\ a + 1 <= n
  BY <1>1, <1>2, <1>4, MaxAttemptsAssumption
<1> HIDE DEF n
<1>6. failures'[m] = n /\ \A i \in Msgs : i # m => failures'[i] = failures[i]
  BY <1>1, <1>3, <1>4
<1>7. \A i \in Msgs : failures[i] \in Nat
  BY <1>4, MaxAttemptsAssumption
<1>8. FailuresGrow
  BY <1>5, <1>6, <1>7 DEF FailuresGrow
<1> QED BY <1>1, <1>5, <1>6, <1>8 DEF m, a

LEMMA CountedStep ==
  ASSUME TypeOK, Topology, Routes, Counted, [Next]_vars
  PROVE  Counted'
<1> USE TypeStep, GrowKeeps, SlotKeeps, SameFailures
<1>1. CopiesCounted /\ DeadCounted /\ \A q \in Queues, w \in Workers : SlotCounted(q, w)
  BY DEF Counted
<1>2. \A m \in Msgs : failures[m] \in Nat
  BY FailuresType
<1>3. CASE UNCHANGED <<ready, work, dlq, failures>>
  BY <1>1, <1>3 DEF Counted
<1>4. ASSUME NEW m \in Msgs, Publish(m) PROVE Counted'
  <2>1. 0 \in Attempts
    BY MaxAttemptsAssumption DEF Attempts
  <2>2. \A p \in Queues, n \in Msgs, b \in Attempts :
          ready'[p][n][b] = ready[p][n][b] \/ b = 0
    BY <1>4, <2>1, RoutedEffect DEF Publish
  <2>3. UNCHANGED <<work, dlq, failures>>
    BY <1>4 DEF Publish
  <2>4. CopiesCounted'
    BY <1>1, <1>2, <2>2, <2>3 DEF CopiesCounted
  <2> QED BY <1>1, <2>3, <2>4 DEF Counted
<1>5. ASSUME NEW q \in Queues, NEW m \in Msgs, NEW a \in Attempts, Expire(q, m, a)
      PROVE  Counted'
  <2>1. UNCHANGED <<work, failures>> /\ m \in Expiring
    BY <1>5 DEF Expire
  <2>2. \A p \in Queues, n \in Msgs, b \in Attempts : ready'[p][n][b] > 0 => ready[p][n][b] > 0
    BY <1>5, TakeEffect DEF Expire
  <2>3. \A p \in Queues, n \in Msgs : p # q \/ n # m => dlq'[p][n] = dlq[p][n]
    BY <1>5, DeadLetterEffect DEF Expire
  <2>4. CopiesCounted'
    BY <1>1, <2>1, <2>2 DEF CopiesCounted
  <2>5. DeadCounted'
    BY <1>1, <2>1, <2>3 DEF DeadCounted
  <2> QED BY <1>1, <2>1, <2>4, <2>5 DEF Counted
<1>6. ASSUME NEW q \in Queues, ConsumerReconnects(q) PROVE Counted'
  <2>1. UNCHANGED <<dlq, failures>>
    BY <1>6 DEF ConsumerReconnects
  <2>2. CopiesCounted'
    <3> SUFFICES ASSUME NEW p \in Queues, NEW n \in Msgs, NEW b \in Attempts,
                        ready'[p][n][b] > 0
                 PROVE  b <= failures[n]
      BY <2>1 DEF CopiesCounted
    <3>1. CASE ready[p][n][b] > 0
      BY <1>1, <3>1 DEF CopiesCounted
    <3>2. CASE p = q /\ Unacked(p, n, b) # {}
      <4>1. PICK v \in Workers : Busy(p, v) /\ work[p][v].msg = n /\ work[p][v].attempt = b
        BY <3>2 DEF Unacked
      <4>2. SlotCounted(p, v)
        BY <1>1
      <4>3. Failed(p, v) <= failures[n]
        BY <4>1, <4>2 DEF SlotCounted
      <4>4. Failed(p, v) \in {b, b + 1} /\ b \in Nat
        BY <4>1 DEF Failed, Attempts
      <4> QED BY <1>2, <4>3, <4>4
    <3>3. ready[p][n][b] > 0 \/ (p = q /\ Unacked(p, n, b) # {})
      BY <1>6, ReturnEffect
    <3> QED BY <3>1, <3>2, <3>3
  <2>3. ASSUME NEW p \in Queues, NEW v \in Workers PROVE SlotCounted(p, v)'
    <3>1. CASE p = q
      BY <1>6, <3>1, ReturnEffect DEF SlotCounted, Busy, Idle
    <3>2. CASE p # q
      BY <1>1, <1>6, <2>1, <3>2, ReturnEffect
    <3> QED BY <3>1, <3>2
  <2> QED BY <1>1, <2>1, <2>2, <2>3 DEF Counted
<1>7. ASSUME NEW q \in Queues, Consume(q) PROVE Counted'
  <2> SUFFICES ASSUME NEW w \in Workers,
                      \/ \E m \in Msgs, a \in Attempts : Deliver(q, w, m, a)
                      \/ HandlerSucceeds(q, w)
                      \/ HandlerFails(q, w)
                      \/ Ack(q, w)
                      \/ Reject(q, w)
                      \/ Republish(q, w)
                      \/ AckOriginal(q, w)
               PROVE  Counted'
    BY <1>7, ConsumeCases
  <2>1. SlotCounted(q, w)
    BY <1>1
  <2>2. ASSUME FailuresGrow, OnlySlot(q, w), SlotCounted(q, w)'
        PROVE  \A p \in Queues, v \in Workers : SlotCounted(p, v)'
    BY <1>1, <2>2 DEF OnlySlot
  <2>3. ASSUME NEW m \in Msgs, NEW a \in Attempts, Deliver(q, w, m, a) PROVE Counted'
    <3> DEFINE d == [stage |-> "handling", msg |-> m, attempt |-> a]
    <3>1. /\ d \in {Idle} \cup Delivery /\ Put(q, w, d)
          /\ d.stage = "handling" /\ d.msg = m /\ d.attempt = a
      BY <2>3 DEF Deliver, Put, Delivery, Stages
    <3> HIDE DEF d
    <3>2. work'[q][w] = d /\ OnlySlot(q, w)
      BY <3>1, SetEffect DEF OnlySlot
    <3>3. UNCHANGED <<dlq, failures>> /\ ready[q][m][a] > 0
      BY <2>3 DEF Deliver
    <3>4. a <= failures[m]
      BY <1>1, <3>3 DEF CopiesCounted
    <3>5. SlotCounted(q, w)'
      BY <3>1, <3>2, <3>3, <3>4 DEF SlotCounted, Failed, At
    <3>6. \A p \in Queues, n \in Msgs, b \in Attempts : ready'[p][n][b] > 0 => ready[p][n][b] > 0
      BY <2>3, TakeEffect DEF Deliver
    <3>7. CopiesCounted'
      BY <1>1, <3>3, <3>6 DEF CopiesCounted
    <3> QED BY <1>1, <2>2, <3>2, <3>3, <3>5, <3>7 DEF Counted
  <2>4. CASE HandlerSucceeds(q, w)
    <3>1. /\ Busy(q, w) /\ "acking" \in Stages /\ MoveTo(q, w, "acking")
          /\ UNCHANGED <<ready, dlq, failures>> /\ At(q, w, "handling")
      BY <2>4, AtHolds DEF HandlerSucceeds, Stages
    <3>2. /\ OnlySlot(q, w)
          /\ work'[q][w].stage = "acking"
          /\ work'[q][w].msg = work[q][w].msg
          /\ work'[q][w].attempt = work[q][w].attempt
      BY <3>1, MoveEffect DEF OnlySlot
    <3>3. SlotCounted(q, w)'
      BY <2>1, <3>1, <3>2 DEF SlotCounted, Failed, At
    <3> QED BY <1>1, <2>2, <3>1, <3>2, <3>3 DEF Counted
  <2>5. CASE HandlerFails(q, w)
    <3> DEFINE s == IF GivesUp(work[q][w].attempt) THEN "rejecting" ELSE "republishing"
               a == work[q][w].attempt
    <3>1. Busy(q, w) /\ s \in Stages /\ MoveTo(q, w, s) /\ UNCHANGED <<ready, dlq>>
      BY <2>5, AtHolds DEF HandlerFails, Stages
    <3>2. /\ FailuresGrow
          /\ a + 1 <= failures'[work[q][w].msg]
          /\ a \in 0 .. MaxAttempts - 1
      BY <2>1, <2>5, FailureEffect
    <3>3. /\ s = "rejecting" => a + 1 = MaxAttempts
          /\ s = "republishing" => a + 1 < MaxAttempts
          /\ s \in {"rejecting", "republishing"}
      <4> HIDE DEF a
      <4>1. s = IF GivesUp(a) THEN "rejecting" ELSE "republishing"
        BY DEF a
      <4> HIDE DEF s
      <4> QED BY <3>2, <4>1, MaxAttemptsAssumption DEF GivesUp
    <3> HIDE DEF s
    <3>4. /\ OnlySlot(q, w)
          /\ work'[q][w].stage = s
          /\ work'[q][w].msg = work[q][w].msg
          /\ work'[q][w].attempt = a
      BY <3>1, MoveEffect DEF OnlySlot
    <3>5. SlotCounted(q, w)'
      BY <3>2, <3>3, <3>4 DEF SlotCounted, Failed, At
    <3> QED BY <1>1, <2>2, <3>1, <3>2, <3>4, <3>5 DEF Counted
  <2>6. ASSUME Release(q, w), failures' = failures
        PROVE  \A p \in Queues, v \in Workers : SlotCounted(p, v)'
    <3>1. work'[q][w].stage = "idle" /\ OnlySlot(q, w)
      BY <2>6, ReleaseEffect DEF Idle, OnlySlot
    <3>2. SlotCounted(q, w)'
      BY <3>1 DEF SlotCounted, Busy
    <3> QED BY <2>2, <2>6, <3>1, <3>2
  <2>7. CASE Ack(q, w) \/ AckOriginal(q, w)
    <3>1. Release(q, w) /\ UNCHANGED <<ready, dlq, failures>>
      BY <2>7 DEF Ack, AckOriginal
    <3> QED BY <1>1, <2>6, <3>1 DEF Counted
  <2>8. CASE Reject(q, w)
    <3> DEFINE m == work[q][w].msg
    <3>1. /\ Busy(q, w) /\ m \in Msgs /\ At(q, w, "rejecting")
          /\ work[q][w].attempt \in Attempts
      BY <2>8, AtHolds DEF Reject, Stages
    <3>2. Release(q, w) /\ DeadLetter(q, m) /\ UNCHANGED <<ready, failures>>
      BY <2>8 DEF Reject
    <3>3. failures[m] = MaxAttempts
      <4>1. Failed(q, w) = MaxAttempts
        BY <2>1, <3>1 DEF SlotCounted, Failed, At
      <4>2. Failed(q, w) <= failures[m]
        BY <2>1, <3>1 DEF SlotCounted
      <4>3. failures[m] \in 0 .. MaxAttempts
        BY <3>1 DEF TypeOK
      <4> QED BY <4>1, <4>2, <4>3, MaxAttemptsAssumption
    <3> HIDE DEF m
    <3>4. \A p \in Queues, n \in Msgs : p # q \/ n # m => dlq'[p][n] = dlq[p][n]
      BY <3>1, <3>2, DeadLetterEffect
    <3>5. DeadCounted'
      BY <1>1, <3>2, <3>3, <3>4 DEF DeadCounted
    <3> QED BY <1>1, <2>6, <3>2, <3>5 DEF Counted
  <2>9. CASE Republish(q, w)
    <3> DEFINE m == work[q][w].msg
               a == work[q][w].attempt + 1
    <3>1. /\ Busy(q, w) /\ "settled by retry" \in Stages /\ At(q, w, "republishing")
          /\ m \in Msgs
      BY <2>9, AtHolds DEF Republish, Stages
    <3>2. MoveTo(q, w, "settled by retry") /\ ready' = Routed(m, a) /\ UNCHANGED <<dlq, failures>>
      BY <2>9 DEF Republish
    <3>3. /\ OnlySlot(q, w)
          /\ work'[q][w].stage = "settled by retry"
          /\ work'[q][w].msg = work[q][w].msg
          /\ work'[q][w].attempt = work[q][w].attempt
      BY <3>1, <3>2, MoveEffect DEF OnlySlot
    <3>4. SlotCounted(q, w)'
      BY <2>1, <3>1, <3>2, <3>3 DEF SlotCounted, Failed, At
    <3>5. a <= failures[m]
      BY <2>1, <3>1 DEF SlotCounted, Failed, At
    <3>6. a \in Attempts
      BY <2>9, RetryInRange
    <3> HIDE DEF m, a
    <3>7. \A p \in Queues, n \in Msgs, b \in Attempts :
            ready'[p][n][b] = IF Receives(p, m) /\ n = m /\ b = a
                              THEN ready[p][n][b] + 1 ELSE ready[p][n][b]
      BY <3>1, <3>2, <3>6, RoutedEffect
    <3>8. CopiesCounted'
      <4> SUFFICES ASSUME NEW p \in Queues, NEW n \in Msgs, NEW b \in Attempts,
                          ready'[p][n][b] > 0
                   PROVE  b <= failures[n]
        BY <3>2 DEF CopiesCounted
      <4>1. CASE n = m /\ b = a
        BY <3>5, <4>1
      <4>2. CASE ~(n = m /\ b = a)
        <5>1. ready'[p][n][b] = ready[p][n][b]
          BY <3>7, <4>2
        <5> QED BY <1>1, <5>1 DEF CopiesCounted
      <4> QED BY <4>1, <4>2
    <3> QED BY <1>1, <2>2, <3>2, <3>3, <3>4, <3>8 DEF Counted
  <2> QED BY <2>3, <2>4, <2>5, <2>7, <2>8, <2>9
<1>8. ASSUME NEW c \in Clients, AssertTopology(c)
      PROVE  UNCHANGED <<ready, work, dlq, failures>>
  BY <1>8 DEF AssertTopology
<1>9. ASSUME NEW m \in Msgs, Confirm(m) PROVE UNCHANGED <<ready, work, dlq, failures>>
  BY <1>9 DEF Confirm
<1>10. PublisherReconnects \/ UNCHANGED vars => UNCHANGED <<ready, work, dlq, failures>>
  BY DEF PublisherReconnects, vars
<1> QED BY <1>3, <1>4, <1>5, <1>6, <1>7, <1>8, <1>9, <1>10 DEF Next

LEMMA StepIInv == IInv /\ [Next]_vars => IInv'
  BY TypeStep, TopologyStep, RoutesStep, KeptStep, CountedStep DEF IInv

LEMMA IInvImplies == IInv => NoLoss /\ AttemptsAreFailures
<1> SUFFICES ASSUME IInv PROVE NoLoss /\ AttemptsAreFailures
  OBVIOUS
<1>1. \A q \in Queues, m \in Msgs : Held(q, m) => InHand(q, m)
  BY DEF Held, InHand
<1>2. NoLoss
  BY <1>1 DEF IInv, Kept, NoLoss
<1>3. ASSUME NEW q \in Queues, NEW w \in Workers, Busy(q, w)
      PROVE  work[q][w].attempt <= failures[work[q][w].msg]
  <2> DEFINE a == work[q][w].attempt
             m == work[q][w].msg
  <2>1. a \in Nat /\ m \in Msgs
    BY <1>3, BusyHolds DEF IInv, Delivery, Attempts
  <2>2. Failed(q, w) \in {a, a + 1} /\ Failed(q, w) <= failures[m]
    BY <1>3 DEF IInv, Counted, SlotCounted, Failed
  <2>3. failures[m] \in Nat
    BY <2>1, FailuresType DEF IInv
  <2> HIDE DEF a, m
  <2>4. a <= failures[m]
    BY <2>1, <2>2, <2>3
  <2> QED BY <2>4 DEF a, m
<1>4. AttemptsAreFailures
  BY <1>3 DEF IInv, Counted, CopiesCounted, DeadCounted, AttemptsAreFailures
<1> QED BY <1>2, <1>4

LEMMA Invariance == Spec => []IInv
<1>1. Init => IInv
  BY InitIInv
<1>2. IInv /\ [Next]_vars => IInv'
  BY StepIInv
<1> QED BY <1>1, <1>2, PTL DEF Spec

-------------------------------------------------------------------------------
\* The state keeps its type: no copy has an x-attempt outside 0 .. MaxAttempts - 1,
\* and assertTopology stops after the calls it has.
THEOREM TypeCorrect == Spec => []TypeOK
<1>1. IInv => TypeOK
  BY DEF IInv
<1> QED BY <1>1, Invariance, PTL

\* Whatever handlers throw and wherever connections break, a message that a publish
\* put in a queue stays there, is completed by the queue's handler or reaches the DLQ.
THEOREM NothingIsLost == Spec => []NoLoss
<1>1. IInv => NoLoss
  BY IInvImplies
<1> QED BY <1>1, Invariance, PTL

\* x-attempt never exceeds the failures there were, and what did not expire is
\* dead-lettered only after MaxAttempts of them.
THEOREM AttemptsCountFailures == Spec => []AttemptsAreFailures
<1>1. IInv => AttemptsAreFailures
  BY IInvImplies
<1> QED BY <1>1, Invariance, PTL

-------------------------------------------------------------------------------
(* One fate: with no connection lost and no key shared, a message is in one  *)
(* place of its queue.                                                       *)

\* Worker w is to settle m, as RetryConsumer counts it.
Settles(q, w, m) == Busy(q, w) /\ work[q][w].msg = m /\ ~At(q, w, "settled by retry")

NoCopy(q, m) == \A a \in Attempts : ready[q][m][a] = 0
NoHand(q, m) == \A w \in Workers : ~Settles(q, w, m)

Nowhere(q, m) == NoCopy(q, m) /\ NoHand(q, m) /\ done[q][m] = 0 /\ dlq[q][m] = 0
WaitsAs(q, m, a) ==
  /\ ready[q][m][a] = 1 /\ \A b \in Attempts : b # a => ready[q][m][b] = 0
  /\ NoHand(q, m) /\ done[q][m] = 0 /\ dlq[q][m] = 0
HeldBy(q, m, w) ==
  /\ NoCopy(q, m) /\ Settles(q, w, m) /\ \A v \in Workers : v # w => ~Settles(q, v, m)
  /\ done[q][m] = 0 /\ dlq[q][m] = 0
Completed(q, m) == NoCopy(q, m) /\ NoHand(q, m) /\ done[q][m] = 1 /\ dlq[q][m] = 0
Dead(q, m) == NoCopy(q, m) /\ NoHand(q, m) /\ done[q][m] = 0 /\ dlq[q][m] = 1

Fate(q, m) ==
  IF <<q, m>> \in owed
  THEN \/ \E a \in Attempts : WaitsAs(q, m, a)
       \/ \E w \in Workers : HeldBy(q, m, w)
       \/ Completed(q, m) \/ Dead(q, m)
  ELSE Nowhere(q, m)

Fates ==
  /\ \A m \in Msgs : pub[m] = "unsent" => \A q \in Queues : <<q, m>> \notin owed
  /\ \A q \in Queues, m \in Msgs : Fate(q, m)

NoLosses == MaxLosses = 0
OwnKeys == \A m \in Msgs : \A p, q \in RoutesTo[m] : p = q

LEMMA InitFates == Init => Fates
<1> SUFFICES ASSUME Init PROVE Fates
  OBVIOUS
<1>1. \A q \in Queues, w \in Workers : work[q][w].stage = "idle"
  BY DEF Init, Idle
<1>2. \A q \in Queues, m \in Msgs : NoHand(q, m)
  BY <1>1 DEF NoHand, Settles, Busy
<1> QED BY <1>2 DEF Init, Fates, Fate, Nowhere, NoCopy

\* What a step leaves as it was for m in q.
Untouched(q, m) ==
  /\ \A a \in Attempts : ready'[q][m][a] = ready[q][m][a]
  /\ \A w \in Workers : Settles(q, w, m)' <=> Settles(q, w, m)
  /\ done'[q][m] = done[q][m] /\ dlq'[q][m] = dlq[q][m]
  /\ <<q, m>> \in owed' <=> <<q, m>> \in owed

LEMMA UntouchedFate ==
  ASSUME NEW q \in Queues, NEW m \in Msgs, Fate(q, m), Untouched(q, m)
  PROVE  Fate(q, m)'
<1>1. (NoCopy(q, m)' <=> NoCopy(q, m)) /\ (NoHand(q, m)' <=> NoHand(q, m))
  BY DEF Untouched, NoCopy, NoHand
<1>2. \A a \in Attempts : WaitsAs(q, m, a) => WaitsAs(q, m, a)'
  BY <1>1 DEF Untouched, WaitsAs
<1>3. \A w \in Workers : HeldBy(q, m, w) => HeldBy(q, m, w)'
  BY <1>1 DEF Untouched, HeldBy
<1>4. /\ Completed(q, m) => Completed(q, m)'
      /\ Dead(q, m) => Dead(q, m)'
      /\ Nowhere(q, m) => Nowhere(q, m)'
  BY <1>1 DEF Untouched, Completed, Dead, Nowhere
<1> QED BY <1>2, <1>3, <1>4 DEF Fate, Untouched

\* The fate of a message in hand, or waiting.
LEMMA InOnePlace ==
  ASSUME NEW q \in Queues, NEW m \in Msgs, Fate(q, m)
  PROVE  /\ \A a \in Attempts : ready[q][m][a] > 0 => WaitsAs(q, m, a) /\ <<q, m>> \in owed
         /\ \A w \in Workers : Settles(q, w, m) => HeldBy(q, m, w) /\ <<q, m>> \in owed
<1>1. ASSUME NEW a \in Attempts, ready[q][m][a] > 0
      PROVE  WaitsAs(q, m, a) /\ <<q, m>> \in owed
  <2>1. ready[q][m][a] # 0
    BY <1>1
  <2> QED BY <2>1 DEF Fate, WaitsAs, HeldBy, Completed, Dead, Nowhere, NoCopy
<1>2. ASSUME NEW w \in Workers, Settles(q, w, m)
      PROVE  HeldBy(q, m, w) /\ <<q, m>> \in owed
  BY <1>2 DEF Fate, WaitsAs, HeldBy, Completed, Dead, Nowhere, NoHand
<1> QED BY <1>1, <1>2

\* A copy leaves a queue, and no other copy does.
LEMMA TakeOne ==
  ASSUME TypeOK, NEW q \in Queues, NEW m \in Msgs, NEW a \in Attempts,
         ready' = [ready EXCEPT ![q][m][a] = @ - 1]
  PROVE  /\ ready'[q][m][a] = ready[q][m][a] - 1
         /\ \A p \in Queues, n \in Msgs, b \in Attempts :
              p # q \/ n # m \/ b # a => ready'[p][n][b] = ready[p][n][b]
<1> DEFINE C == [Msgs -> [Attempts -> Nat]]
           r == [ready[q] EXCEPT ![m][a] = @ - 1]
<1>1. ready \in [Queues -> C] /\ ready[q] \in C /\ ready' = [ready EXCEPT ![q] = r]
  BY DEF TypeOK
<1>2. /\ r[m][a] = ready[q][m][a] - 1
      /\ \A n \in Msgs, b \in Attempts : n # m \/ b # a => r[n][b] = ready[q][n][b]
  BY <1>1
<1> HIDE DEF r, C
<1>3. ready'[q] = r /\ \A p \in Queues : p # q => ready'[p] = ready[p]
  BY <1>1
<1>4. ready'[q][m][a] = ready[q][m][a] - 1
  BY <1>2, <1>3
<1>5. ASSUME NEW p \in Queues, NEW n \in Msgs, NEW b \in Attempts, p # q \/ n # m \/ b # a
      PROVE  ready'[p][n][b] = ready[p][n][b]
  <2>1. CASE p = q
    BY <1>2, <1>3, <1>5, <2>1
  <2>2. CASE p # q
    BY <1>3, <2>2
  <2> QED BY <2>1, <2>2
<1> QED BY <1>4, <1>5

LEMMA DeadOne ==
  ASSUME TypeOK, NEW q \in Queues, NEW m \in Msgs, DeadLetter(q, m), DlqBound
  PROVE  /\ dlq'[q][m] = dlq[q][m] + 1
         /\ \A p \in Queues, n \in Msgs : p # q \/ n # m => dlq'[p][n] = dlq[p][n]
<1>1. dlq \in Counts
  BY DEF TypeOK, Counts
<1>2. dlq' = OneMore(dlq, q, m)
  BY DEF DeadLetter, OneMore
<1> QED BY <1>1, <1>2, OneMoreEffect

\* A change of one worker's slot is seen by the messages it had and has.
LEMMA SlotChange ==
  ASSUME NEW q \in Queues, NEW w \in Workers, OnlySlot(q, w)
  PROVE  /\ \A p \in Queues, v \in Workers, n \in Msgs :
              p # q \/ v # w => (Settles(p, v, n)' <=> Settles(p, v, n))
         /\ \A n \in Msgs : ~Settles(q, w, n) /\ ~Settles(q, w, n)' =>
              \A p \in Queues, v \in Workers : Settles(p, v, n)' <=> Settles(p, v, n)
  BY DEF OnlySlot, Settles, Busy, At

LEMMA PublishFate ==
  ASSUME IInv, Fates, NEW m \in Msgs, Publish(m), NEW p \in Queues, NEW n \in Msgs
  PROVE  Fate(p, n)'
<1>1. 0 \in Attempts
  BY MaxAttemptsAssumption DEF Attempts
<1>2. \A b \in Attempts :
        ready'[p][n][b] = IF Receives(p, m) /\ n = m /\ b = 0 THEN ready[p][n][b] + 1 ELSE ready[p][n][b]
  BY <1>1, RoutedEffect DEF Publish, IInv
<1>3. \A w \in Workers : Settles(p, w, n)' <=> Settles(p, w, n)
  BY DEF Publish, Settles, Busy, At
<1>4. /\ done' = done /\ dlq' = dlq
      /\ <<p, n>> \in owed' <=> <<p, n>> \in owed \/ (n = m /\ Receives(p, m))
  BY DEF Publish
<1>5. Fate(p, n)
  BY DEF Fates
<1>6. CASE n = m /\ Receives(p, m)
  <2>1. Nowhere(p, n)
    BY <1>5, <1>6 DEF Fates, Publish, Fate
  <2>2. /\ ready'[p][n][0] = 1
        /\ \A b \in Attempts : b # 0 => ready'[p][n][b] = 0
    BY <1>1, <1>2, <1>6, <2>1 DEF Nowhere, NoCopy
  <2>3. NoHand(p, n)'
    BY <1>3, <2>1 DEF Nowhere, NoHand
  <2>4. WaitsAs(p, n, 0)'
    BY <1>4, <2>1, <2>2, <2>3 DEF WaitsAs, Nowhere
  <2> QED BY <1>1, <1>4, <1>6, <2>4 DEF Fate
<1>7. CASE ~(n = m /\ Receives(p, m))
  <2>1. Untouched(p, n)
    BY <1>2, <1>3, <1>4, <1>7 DEF Untouched
  <2> QED BY <1>5, <2>1, UntouchedFate
<1> QED BY <1>6, <1>7

LEMMA ExpireFate ==
  ASSUME IInv, Fates, NEW q \in Queues, NEW m \in Msgs, NEW a \in Attempts, Expire(q, m, a),
         NEW p \in Queues, NEW n \in Msgs
  PROVE  Fate(p, n)'
<1>1. WaitsAs(q, m, a) /\ <<q, m>> \in owed
  BY InOnePlace DEF Fates, Expire
<1>2. DlqBound
  BY DEF IInv, Routes, Waiting, Expire
<1>3. /\ ready'[q][m][a] = ready[q][m][a] - 1
      /\ \A p1 \in Queues, n1 \in Msgs, b \in Attempts :
           p1 # q \/ n1 # m \/ b # a => ready'[p1][n1][b] = ready[p1][n1][b]
  <2>1. TypeOK
    BY DEF IInv
  <2>2. ready' = [ready EXCEPT ![q][m][a] = @ - 1]
    BY DEF Expire
  <2> QED BY <2>1, <2>2, TakeOne, ZenonT(30)
<1>4. /\ dlq'[q][m] = dlq[q][m] + 1
      /\ \A p1 \in Queues, n1 \in Msgs : p1 # q \/ n1 # m => dlq'[p1][n1] = dlq[p1][n1]
  BY <1>2, DeadOne DEF Expire, IInv
<1>5. \A w \in Workers : Settles(p, w, n)' <=> Settles(p, w, n)
  BY DEF Expire, Settles, Busy, At
<1>6. done' = done /\ owed' = owed
  BY DEF Expire
<1>7. CASE p = q /\ n = m
  <2>1. NoCopy(q, m)' /\ NoHand(q, m)'
    BY <1>1, <1>3, <1>5, <1>7 DEF WaitsAs, NoCopy, NoHand
  <2>2. Dead(q, m)'
    BY <1>1, <1>4, <1>6, <2>1 DEF WaitsAs, Dead
  <2> QED BY <1>1, <1>6, <1>7, <2>2 DEF Fate
<1>8. CASE p # q \/ n # m
  <2>1. Untouched(p, n)
    BY <1>3, <1>4, <1>5, <1>6, <1>8 DEF Untouched
  <2> QED BY <2>1, UntouchedFate DEF Fates
<1> QED BY <1>7, <1>8

LEMMA DeliverFate ==
  ASSUME IInv, Fates, NEW q \in Queues, NEW w \in Workers, NEW m \in Msgs, NEW a \in Attempts,
         Deliver(q, w, m, a), NEW p \in Queues, NEW n \in Msgs
  PROVE  Fate(p, n)'
<1> DEFINE d == [stage |-> "handling", msg |-> m, attempt |-> a]
<1>1. WaitsAs(q, m, a) /\ <<q, m>> \in owed
  BY InOnePlace DEF Fates, Deliver
<1>2. /\ ready'[q][m][a] = ready[q][m][a] - 1
      /\ \A p1 \in Queues, n1 \in Msgs, b \in Attempts :
           p1 # q \/ n1 # m \/ b # a => ready'[p1][n1][b] = ready[p1][n1][b]
  <2>1. TypeOK
    BY DEF IInv
  <2>2. ready' = [ready EXCEPT ![q][m][a] = @ - 1]
    BY DEF Deliver
  <2> QED BY <2>1, <2>2, TakeOne, ZenonT(30)
<1>3. d \in {Idle} \cup Delivery /\ Put(q, w, d) /\ d.msg = m /\ d.stage = "handling"
  BY DEF Deliver, Put, Delivery, Stages
<1> HIDE DEF d
<1>4. OnlySlot(q, w) /\ work'[q][w] = d
  BY <1>3, SetEffect DEF OnlySlot, IInv
<1>5. \A n1 \in Msgs : ~Settles(q, w, n1) /\ (Settles(q, w, n1)' <=> n1 = m)
  BY <1>3, <1>4 DEF Deliver, Settles, Busy, At
<1>6. done' = done /\ dlq' = dlq /\ owed' = owed
  BY DEF Deliver
<1>7. CASE p = q /\ n = m
  <2>1. NoCopy(q, m)'
    BY <1>1, <1>2 DEF WaitsAs, NoCopy
  <2>2. \A v \in Workers : v # w => ~Settles(q, v, m)'
    BY <1>1, <1>4, SlotChange DEF WaitsAs, NoHand
  <2>3. HeldBy(q, m, w)'
    BY <1>1, <1>5, <1>6, <2>1, <2>2 DEF WaitsAs, HeldBy
  <2> QED BY <1>1, <1>6, <1>7, <2>3 DEF Fate
<1>8. CASE p # q \/ n # m
  <2>1. \A v \in Workers : Settles(p, v, n)' <=> Settles(p, v, n)
    BY <1>4, <1>5, <1>8, SlotChange
  <2>2. Untouched(p, n)
    BY <1>2, <1>6, <1>8, <2>1 DEF Untouched
  <2> QED BY <2>2, UntouchedFate DEF Fates
<1> QED BY <1>7, <1>8

\* Handling goes on, or the original of a retry is acked: no message is touched.
LEMMA QuietFate ==
  ASSUME IInv, Fates, NEW q \in Queues, NEW w \in Workers,
         HandlerSucceeds(q, w) \/ HandlerFails(q, w) \/ AckOriginal(q, w),
         NEW p \in Queues, NEW n \in Msgs
  PROVE  Fate(p, n)'
<1>1. \A v \in Workers : Settles(p, v, n)' <=> Settles(p, v, n)
  <2>1. CASE HandlerSucceeds(q, w) \/ HandlerFails(q, w)
    <3>1. At(q, w, "handling") /\ Busy(q, w)
      BY <2>1, AtHolds DEF HandlerSucceeds, HandlerFails, Stages, IInv
    <3>2. PICK s \in {"acking", "rejecting", "republishing"} : MoveTo(q, w, s)
      BY <2>1 DEF HandlerSucceeds, HandlerFails
    <3>3. /\ work'[q][w].stage = s /\ work'[q][w].msg = work[q][w].msg
          /\ OnlySlot(q, w)
      BY <3>1, <3>2, MoveEffect DEF Stages, OnlySlot, IInv
    <3>4. \A n1 \in Msgs : Settles(q, w, n1)' <=> Settles(q, w, n1)
      BY <3>1, <3>3 DEF Settles, Busy, At
    <3> QED BY <3>3, <3>4, SlotChange
  <2>2. CASE AckOriginal(q, w)
    <3>1. OnlySlot(q, w) /\ work'[q][w].stage = "idle"
      <4>1. TypeOK /\ Release(q, w)
        BY <2>2 DEF AckOriginal, IInv
      <4> QED BY <4>1, ReleaseEffect DEF OnlySlot, Idle
    <3>2. \A n1 \in Msgs : ~Settles(q, w, n1) /\ ~Settles(q, w, n1)'
      BY <2>2, <3>1 DEF AckOriginal, Settles, Busy, At
    <3> QED BY <3>1, <3>2, SlotChange
  <2> QED BY <2>1, <2>2
<1>2. ready' = ready /\ done' = done /\ dlq' = dlq /\ owed' = owed
  BY DEF HandlerSucceeds, HandlerFails, AckOriginal
<1>3. Untouched(p, n)
  BY <1>1, <1>2 DEF Untouched
<1> QED BY <1>3, UntouchedFate DEF Fates

\* m is completed in q, or dead-lettered from it, and nothing else is.
Completes(q, m) ==
  /\ done'[q][m] = done[q][m] + 1 /\ dlq' = dlq
  /\ \A p \in Queues, n \in Msgs : p # q \/ n # m => done'[p][n] = done[p][n]
Buries(q, m) ==
  /\ dlq'[q][m] = dlq[q][m] + 1 /\ done' = done
  /\ \A p \in Queues, n \in Msgs : p # q \/ n # m => dlq'[p][n] = dlq[p][n]

\* The worker settles its message: it is done, or dead-lettered.
LEMMA SettleEffect ==
  ASSUME IInv, Fates, NEW q \in Queues, NEW w \in Workers, Ack(q, w) \/ Reject(q, w)
  PROVE  \E m \in Msgs : /\ m = work[q][w].msg /\ Settles(q, w, m) /\ HeldBy(q, m, w)
                         /\ <<q, m>> \in owed /\ UNCHANGED <<ready, owed>>
                         /\ Completes(q, m) \/ Buries(q, m)
<1>1. PICK m \in Msgs : m = work[q][w].msg /\ InHand(q, m) /\ Settles(q, w, m)
  <2>1. At(q, w, "acking") \/ At(q, w, "rejecting")
    BY DEF Ack, Reject
  <2>2. work[q][w].msg \in Msgs /\ InHand(q, work[q][w].msg) /\ Busy(q, w)
    BY <2>1, AtHolds DEF Stages, IInv
  <2>3. Settles(q, w, work[q][w].msg)
    BY <2>1, <2>2 DEF Settles, At
  <2> QED BY <2>2, <2>3
<1>2. HeldBy(q, m, w) /\ <<q, m>> \in owed
  BY <1>1, InOnePlace DEF Fates
<1>3. UNCHANGED <<ready, owed>>
  BY DEF Ack, Reject
<1>4. CASE Ack(q, w)
  <2>1. done' = OneMore(done, q, m) /\ done \in Counts /\ dlq' = dlq
    <3>1. TypeOK
      BY DEF IInv
    <3> QED BY <1>1, <1>4, <3>1, DoneEffect DEF Ack
  <2>2. /\ OneMore(done, q, m)[q][m] = done[q][m] + 1
        /\ \A p1 \in Queues, n1 \in Msgs :
             p1 # q \/ n1 # m => OneMore(done, q, m)[p1][n1] = done[p1][n1]
    BY <2>1, OneMoreEffect
  <2>3. Completes(q, m)
    BY <2>1, <2>2 DEF Completes
  <2> QED BY <1>1, <1>2, <1>3, <2>3
<1>5. CASE Reject(q, w)
  <2>1. DlqBound /\ DeadLetter(q, m) /\ done' = done
    BY <1>1, <1>5 DEF IInv, Routes, Reject
  <2>2. Buries(q, m)
    BY <1>1, <2>1, DeadOne DEF IInv, Buries
  <2> QED BY <1>1, <1>2, <1>3, <2>2
<1> QED BY <1>4, <1>5

LEMMA SettleFate ==
  ASSUME IInv, Fates, NEW q \in Queues, NEW w \in Workers, Ack(q, w) \/ Reject(q, w),
         NEW p \in Queues, NEW n \in Msgs
  PROVE  Fate(p, n)'
<1>1. PICK m \in Msgs : /\ m = work[q][w].msg /\ Settles(q, w, m) /\ HeldBy(q, m, w)
                        /\ <<q, m>> \in owed /\ UNCHANGED <<ready, owed>>
                        /\ Completes(q, m) \/ Buries(q, m)
  BY SettleEffect
<1>2. \A n1 \in Msgs : n1 # m => ~Settles(q, w, n1)
  BY <1>1 DEF Settles
<1>3. HeldBy(q, m, w) /\ <<q, m>> \in owed
  BY <1>1
<1>4. OnlySlot(q, w) /\ \A n1 \in Msgs : ~Settles(q, w, n1)'
  <2>1. OnlySlot(q, w) /\ work'[q][w].stage = "idle"
    BY ReleaseEffect DEF Ack, Reject, OnlySlot, Idle, IInv
  <2> QED BY <2>1 DEF Settles, Busy
<1>5. ready' = ready /\ owed' = owed
  BY <1>1
<1>6. Completes(q, m) \/ Buries(q, m)
  BY <1>1
<1>7. CASE p = q /\ n = m
  <2>1. NoCopy(q, m)' /\ NoHand(q, m)'
    <3>1. \A v \in Workers : v # w => (Settles(q, v, m)' <=> Settles(q, v, m))
      BY <1>1, <1>4, SlotChange
    <3> QED BY <1>1, <1>3, <1>4, <1>5, <3>1 DEF HeldBy, NoCopy, NoHand
  <2>2. Completed(q, m)' \/ Dead(q, m)'
    BY <1>3, <1>6, <2>1 DEF HeldBy, Completed, Dead, Completes, Buries
  <2> QED BY <1>3, <1>5, <1>7, <2>2 DEF Fate
<1>8. CASE p # q \/ n # m
  <2>1. \A v \in Workers : Settles(p, v, n)' <=> Settles(p, v, n)
    BY <1>2, <1>4, <1>8, SlotChange
  <2>2. Untouched(p, n)
    BY <1>5, <1>6, <1>8, <2>1 DEF Untouched, Completes, Buries
  <2> QED BY <2>2, UntouchedFate DEF Fates
<1> QED BY <1>7, <1>8

\* A retry passes from the worker's hand to the queue it came from.
LEMMA RepublishFate ==
  ASSUME IInv, Fates, OwnKeys, NEW q \in Queues, NEW w \in Workers, Republish(q, w),
         NEW p \in Queues, NEW n \in Msgs
  PROVE  Fate(p, n)'
<1>0. PICK m \in Msgs, a \in Attempts :
        m = work[q][w].msg /\ a = work[q][w].attempt + 1 /\ InHand(q, m) /\ Busy(q, w)
  BY AtHolds, RetryInRange DEF Republish, Stages, IInv
<1>1. InHand(q, m) /\ Settles(q, w, m) /\ Busy(q, w)
  BY <1>0 DEF Republish, Settles, At
<1>2. HeldBy(q, m, w) /\ <<q, m>> \in owed
  BY <1>1, InOnePlace DEF Fates
<1>3. \A n1 \in Msgs : n1 # m => ~Settles(q, w, n1)
  BY <1>0 DEF Settles
<1>4. OnlySlot(q, w) /\ \A n1 \in Msgs : ~Settles(q, w, n1)'
  <2>1. OnlySlot(q, w) /\ work'[q][w].stage = "settled by retry"
    BY <1>1, MoveEffect DEF Republish, Stages, OnlySlot, IInv
  <2> QED BY <2>1 DEF Settles, At
<1>5. a \in Attempts
  OBVIOUS
<1>6. ready' = Routed(m, a) /\ done' = done /\ dlq' = dlq /\ owed' = owed
  BY <1>0 DEF Republish
<1>7. \A p1 \in Queues : Receives(p1, m) <=> p1 = q
  BY <1>1 DEF IInv, Routes, Receives, OwnKeys
<1>8. \A p1 \in Queues, n1 \in Msgs, b \in Attempts :
        ready'[p1][n1][b] = IF p1 = q /\ n1 = m /\ b = a THEN ready[p1][n1][b] + 1 ELSE ready[p1][n1][b]
  BY <1>1, <1>5, <1>6, <1>7, RoutedEffect DEF IInv
<1>9. CASE p = q /\ n = m
  <2>1. ready'[q][m][a] = 1 /\ \A b \in Attempts : b # a => ready'[q][m][b] = 0
    BY <1>1, <1>2, <1>5, <1>8 DEF HeldBy, NoCopy
  <2>2. NoHand(q, m)'
    <3>1. \A v \in Workers : v # w => (Settles(q, v, m)' <=> Settles(q, v, m))
      BY <1>1, <1>4, SlotChange
    <3> QED BY <1>1, <1>2, <1>4, <3>1 DEF HeldBy, NoHand
  <2>3. WaitsAs(q, m, a)'
    BY <1>2, <1>6, <2>1, <2>2 DEF HeldBy, WaitsAs
  <2> QED BY <1>2, <1>5, <1>6, <1>9, <2>3 DEF Fate
<1>10. CASE p # q \/ n # m
  <2>1. \A v \in Workers : Settles(p, v, n)' <=> Settles(p, v, n)
    BY <1>3, <1>4, <1>10, SlotChange
  <2>2. Untouched(p, n)
    BY <1>6, <1>8, <1>10, <2>1 DEF Untouched
  <2> QED BY <2>2, UntouchedFate DEF Fates
<1> QED BY <1>9, <1>10

LEMMA FatesStep ==
  ASSUME NoLosses, OwnKeys, IInv, Fates, [Next]_vars
  PROVE  Fates'
<1>1. ~(losses < MaxLosses)
  <2>1. losses \in 0 .. 0 /\ MaxLosses = 0
    BY DEF NoLosses, IInv, TypeOK
  <2> QED BY <2>1
<1>2. \A m \in Msgs : pub'[m] = "unsent" => \A q \in Queues : <<q, m>> \notin owed'
  <2>1. ASSUME NEW m \in Msgs, Publish(m)
        PROVE  \A n \in Msgs : pub'[n] = "unsent" => \A q \in Queues : <<q, n>> \notin owed'
    <3>1. pub \in [Msgs -> {"unsent", "sent", "confirmed"}]
      BY DEF IInv, TypeOK
    <3>2. \A n \in Msgs : pub'[n] = "unsent" => n # m /\ pub[n] = "unsent"
      BY <2>1, <3>1 DEF Publish
    <3>3. \A n \in Msgs, q \in Queues : n # m /\ <<q, n>> \in owed' => <<q, n>> \in owed
      BY <2>1 DEF Publish
    <3> QED BY <3>2, <3>3 DEF Fates
  <2>2. ASSUME NEW m \in Msgs, Confirm(m)
        PROVE  \A n \in Msgs : pub'[n] = "unsent" => \A q \in Queues : <<q, n>> \notin owed'
    <3>1. pub \in [Msgs -> {"unsent", "sent", "confirmed"}]
      BY DEF IInv, TypeOK
    <3> QED BY <2>2, <3>1 DEF Confirm, Fates
  <2>3. CASE UNCHANGED <<pub, owed>>
    BY <2>3 DEF Fates
  <2>4. ASSUME NEW q \in Queues, Consume(q) PROVE UNCHANGED <<pub, owed>>
    BY <2>4, ConsumeKeeps
  <2>5. ASSUME NEW c \in Clients, AssertTopology(c) PROVE UNCHANGED <<pub, owed>>
    BY <2>5 DEF AssertTopology
  <2>6. ASSUME NEW q \in Queues, NEW m \in Msgs, NEW a \in Attempts, Expire(q, m, a)
        PROVE  UNCHANGED <<pub, owed>>
    BY <2>6 DEF Expire
  <2> QED BY <1>1, <2>1, <2>2, <2>3, <2>4, <2>5, <2>6 DEF Next, vars, PublisherReconnects, ConsumerReconnects
<1>3. ASSUME NEW p \in Queues, NEW n \in Msgs PROVE Fate(p, n)'
  <2>1. ASSUME UNCHANGED <<ready, work, done, dlq, owed>> PROVE Fate(p, n)'
    <3>1. Untouched(p, n)
      BY <2>1 DEF Untouched, Settles, Busy, At
    <3> QED BY <3>1, UntouchedFate DEF Fates
  <2>2. ASSUME NEW c \in Clients, AssertTopology(c) PROVE Fate(p, n)'
    BY <2>1, <2>2 DEF AssertTopology
  <2>3. ASSUME NEW m \in Msgs, Confirm(m) PROVE Fate(p, n)'
    BY <2>1, <2>3 DEF Confirm
  <2>4. CASE UNCHANGED vars
    BY <2>1, <2>4 DEF vars
  <2>5. ASSUME NEW q \in Queues, Consume(q) PROVE Fate(p, n)'
    BY <2>5, ConsumeCases, DeliverFate, QuietFate, SettleFate, RepublishFate
  <2> QED BY <1>1, <2>2, <2>3, <2>4, <2>5, PublishFate, ExpireFate DEF Next, PublisherReconnects, ConsumerReconnects
<1> QED BY <1>2, <1>3 DEF Fates

LEMMA FateCounts ==
  ASSUME TypeOK, Fates, NEW q \in Queues, NEW m \in Msgs
  PROVE  /\ IF <<q, m>> \in owed
              THEN Copies(q, m) = 1 /\ \A a \in Attempts : ready[q][m][a] <= 1
              ELSE Copies(q, m) = 0
         /\ done[q][m] <= 1
<1> DEFINE waiting == {a \in Attempts : ready[q][m][a] > 0}
           held == {w \in Workers : Settles(q, w, m)}
<1>1. Copies(q, m) = Cardinality(waiting) + Cardinality(held) + done[q][m] + dlq[q][m]
  BY DEF Copies, Settles
<1>2. /\ NoCopy(q, m) => waiting = {}
      /\ NoHand(q, m) => held = {}
  BY DEF NoCopy, NoHand
<1>3. Cardinality({}) = 0 /\ \A x : Cardinality({x}) = 1
  BY FS_EmptySet, FS_Singleton
<1>4. ASSUME NEW a \in Attempts, WaitsAs(q, m, a)
      PROVE  waiting = {a} /\ held = {} /\ done[q][m] = 0 /\ dlq[q][m] = 0
             /\ \A b \in Attempts : ready[q][m][b] <= 1
  BY <1>2, <1>4 DEF WaitsAs
<1>5. ASSUME NEW w \in Workers, HeldBy(q, m, w)
      PROVE  waiting = {} /\ held = {w} /\ done[q][m] = 0 /\ dlq[q][m] = 0
             /\ \A b \in Attempts : ready[q][m][b] <= 1
  BY <1>2, <1>5 DEF HeldBy, NoCopy
<1>6. ASSUME Completed(q, m) \/ Dead(q, m)
      PROVE  waiting = {} /\ held = {} /\ done[q][m] <= 1 /\ done[q][m] + dlq[q][m] = 1
             /\ \A b \in Attempts : ready[q][m][b] <= 1
  BY <1>2, <1>6 DEF Completed, Dead, NoCopy
<1>7. done[q][m] \in Nat /\ dlq[q][m] \in Nat
  BY DEF TypeOK
<1>8. Nowhere(q, m) => done[q][m] = 0 /\ dlq[q][m] = 0 /\ waiting = {} /\ held = {}
  BY <1>2 DEF Nowhere
<1> HIDE DEF waiting, held
<1>9. CASE <<q, m>> \in owed /\ \E a \in Attempts : WaitsAs(q, m, a)
  <2>1. PICK a \in Attempts : WaitsAs(q, m, a)
    BY <1>9
  <2>2. Cardinality(waiting) = 1 /\ Cardinality(held) = 0
    BY <1>3, <1>4, <2>1
  <2>3. /\ done[q][m] = 0 /\ dlq[q][m] = 0
        /\ \A b \in Attempts : ready[q][m][b] <= 1
    BY <1>4, <2>1
  <2>4. Copies(q, m) = 1 /\ done[q][m] <= 1
    BY <1>1, <2>2, <2>3
  <2> QED BY <1>9, <2>3, <2>4
<1>10. CASE <<q, m>> \in owed /\ \E w \in Workers : HeldBy(q, m, w)
  <2>1. PICK w \in Workers : HeldBy(q, m, w)
    BY <1>10
  <2>2. Cardinality(waiting) = 0 /\ Cardinality(held) = 1
    BY <1>3, <1>5, <2>1
  <2>3. /\ done[q][m] = 0 /\ dlq[q][m] = 0
        /\ \A b \in Attempts : ready[q][m][b] <= 1
    BY <1>5, <2>1
  <2>4. Copies(q, m) = 1 /\ done[q][m] <= 1
    BY <1>1, <2>2, <2>3
  <2> QED BY <1>10, <2>3, <2>4
<1>11. CASE <<q, m>> \in owed /\ (Completed(q, m) \/ Dead(q, m))
  <2>1. Cardinality(waiting) = 0 /\ Cardinality(held) = 0
    BY <1>3, <1>6, <1>11
  <2>2. /\ done[q][m] <= 1 /\ done[q][m] + dlq[q][m] = 1
        /\ \A b \in Attempts : ready[q][m][b] <= 1
    BY <1>6, <1>11
  <2>3. Copies(q, m) = 1
    BY <1>1, <1>7, <2>1, <2>2
  <2> QED BY <1>11, <2>2, <2>3
<1>12. CASE <<q, m>> \notin owed /\ Nowhere(q, m)
  <2>1. Cardinality(waiting) = 0 /\ Cardinality(held) = 0
    BY <1>3, <1>8, <1>12
  <2>2. Copies(q, m) = 0 /\ done[q][m] = 0
    BY <1>1, <1>8, <1>12, <2>1
  <2> QED BY <1>12, <2>2
<1> QED BY <1>9, <1>10, <1>11, <1>12 DEF Fates, Fate

LEMMA FatesInvariance ==
  ASSUME NoLosses, OwnKeys
  PROVE  Spec => [](OneFate /\ RetryStaysInQueue)
<1>1. IInv /\ Fates /\ [Next]_vars => Fates'
  BY FatesStep
<1>2. IInv /\ Fates => OneFate /\ RetryStaysInQueue
  BY FateCounts DEF IInv, OneFate, RetryStaysInQueue
<1> QED BY <1>1, <1>2, InitFates, Invariance, PTL DEF Spec

\* Where connections hold and each routing key belongs to one queue, what a publish
\* put in a queue is in one place: waiting, in one handler's hands, completed or
\* dead-lettered, however often it was retried.
THEOREM OneFateForEach ==
  ASSUME NoLosses, OwnKeys
  PROVE  Spec => []OneFate
BY FatesInvariance, PTL

\* Under the same assumptions a queue's handler completes a message at most once.
THEOREM CompletedAtMostOnce ==
  ASSUME NoLosses, OwnKeys
  PROVE  Spec => []RetryStaysInQueue
BY FatesInvariance, PTL

-------------------------------------------------------------------------------
(* Under these assumptions RetryConsumer implements Deliveries. *)

\* The outcome shows in what is owed, completed and dead-lettered.
OutcomeShows ==
  \A q \in Queues, m \in Msgs :
    Outcome(q, m) = IF <<q, m>> \notin owed THEN "absent"
                    ELSE IF done[q][m] > 0 THEN "completed"
                    ELSE IF dlq[q][m] > 0 THEN "dead" ELSE "owed"

LEMMA OutcomeIs == TypeOK /\ Fates => OutcomeShows
  BY FateCounts DEF OutcomeShows, Outcome

LEMMA OutcomeIsNext == TypeOK' /\ Fates' => OutcomeShows'
  BY OutcomeIs, PTL

LEMMA OutcomesKept ==
  ASSUME OutcomeShows, OutcomeShows', UNCHANGED <<done, dlq, owed>>
  PROVE  UNCHANGED Outcomes
<1>1. ASSUME NEW q \in Queues, NEW m \in Msgs PROVE Outcome(q, m)' = Outcome(q, m)
  BY DEF OutcomeShows
<1> QED BY <1>1 DEF Outcomes

LEMMA PublishPromised ==
  ASSUME IInv, Fates, OutcomeShows, OutcomeShows', NEW m \in Msgs, Publish(m)
  PROVE  Promise!Next
<1> DEFINE S == {i \in Queues \X Msgs : i \in owed' /\ i \notin owed}
<1>1. UNCHANGED <<done, dlq>> /\ owed \subseteq owed'
  BY DEF Publish
<1>2. ASSUME NEW q \in Queues, NEW n \in Msgs, <<q, n>> \in S
      PROVE  Outcome(q, n) = "absent" /\ Outcome(q, n)' = "owed"
  <2>1. done[q][n] = 0 /\ dlq[q][n] = 0
    BY <1>2 DEF Fates, Fate, Nowhere
  <2>2. ~ (done'[q][n] > 0) /\ ~ (dlq'[q][n] > 0)
    BY <1>1, <2>1
  <2> QED BY <1>2, <2>2 DEF OutcomeShows
<1>3. ASSUME NEW q \in Queues, NEW n \in Msgs, <<q, n>> \notin S
      PROVE  Outcome(q, n)' = Outcome(q, n)
  BY <1>1, <1>3 DEF OutcomeShows
<1>4. Outcomes' = [i \in Queues \X Msgs |-> IF i \in S THEN "owed" ELSE Outcomes[i]]
  BY <1>2, <1>3 DEF Outcomes
<1>5. \A i \in S : Outcomes[i] = "absent"
  BY <1>2 DEF Outcomes
<1>6. Promise!Owe(S)
  BY <1>4, <1>5 DEF Promise!Owe, Promise!Become
<1> QED BY <1>6 DEF Promise!Next

\* A message that was to be completed or dead-lettered comes to that end.
LEMMA EndPromised ==
  ASSUME OutcomeShows, OutcomeShows', NEW q \in Queues, NEW m \in Msgs,
         <<q, m>> \in owed, owed' = owed, done[q][m] = 0, dlq[q][m] = 0,
         Completes(q, m) \/ Buries(q, m)
  PROVE  Promise!Next
<1> DEFINE i == <<q, m>>
<1>1. Outcome(q, m) = "owed"
  <2>1. ~ (done[q][m] > 0) /\ ~ (dlq[q][m] > 0)
    OBVIOUS
  <2> QED BY <2>1 DEF OutcomeShows
<1>2. PICK e \in {"completed", "dead"} : Outcome(q, m)' = e
  <2>1. done'[q][m] > 0 \/ dlq'[q][m] > 0
    BY DEF Completes, Buries
  <2> QED BY <2>1 DEF OutcomeShows
<1>3. ASSUME NEW p \in Queues, NEW n \in Msgs, p # q \/ n # m
      PROVE  Outcome(p, n)' = Outcome(p, n)
  <2>1. done'[p][n] = done[p][n] /\ dlq'[p][n] = dlq[p][n]
    BY <1>3 DEF Completes, Buries
  <2> QED BY <2>1 DEF OutcomeShows
<1>4. Outcomes' = [j \in Queues \X Msgs |-> IF j \in {i} THEN e ELSE Outcomes[j]]
  BY <1>2, <1>3 DEF Outcomes
<1>5. i \in Queues \X Msgs /\ Outcomes[i] = "owed"
  BY <1>1 DEF Outcomes
<1>6. Promise!End(i, e)
  BY <1>4, <1>5 DEF Promise!End, Promise!Become
<1> QED BY <1>5, <1>6 DEF Promise!Next

LEMMA ExpirePromised ==
  ASSUME IInv, Fates, OutcomeShows, OutcomeShows',
         NEW q \in Queues, NEW m \in Msgs, NEW a \in Attempts, Expire(q, m, a)
  PROVE  Promise!Next
<1>1. WaitsAs(q, m, a) /\ <<q, m>> \in owed
  BY InOnePlace DEF Fates, Expire
<1>2. DlqBound
  BY DEF IInv, Routes, Waiting, Expire
<1>3. Buries(q, m)
  BY <1>2, DeadOne DEF Expire, IInv, Buries
<1>4. done[q][m] = 0 /\ dlq[q][m] = 0 /\ owed' = owed
  BY <1>1 DEF WaitsAs, Expire
<1> QED BY <1>1, <1>3, <1>4, EndPromised

LEMMA SettlePromised ==
  ASSUME IInv, Fates, OutcomeShows, OutcomeShows',
         NEW q \in Queues, NEW w \in Workers, Ack(q, w) \/ Reject(q, w)
  PROVE  Promise!Next
<1>1. PICK m \in Msgs : /\ HeldBy(q, m, w) /\ <<q, m>> \in owed /\ UNCHANGED owed
                        /\ Completes(q, m) \/ Buries(q, m)
  BY SettleEffect
<1> QED BY <1>1, EndPromised DEF HeldBy

LEMMA PromisedStep ==
  ASSUME NoLosses, OwnKeys, IInv, Fates, [Next]_vars
  PROVE  Promise!Next \/ UNCHANGED Outcomes
<1>1. /\ OutcomeShows /\ TypeOK
      /\ UNCHANGED <<done, dlq, owed>> => UNCHANGED Outcomes
      /\ OutcomeShows'
  <2>1. IInv' /\ Fates'
    BY StepIInv, FatesStep
  <2>2. TypeOK /\ TypeOK'
    BY <2>1 DEF IInv
  <2>3. OutcomeShows /\ OutcomeShows'
    BY <2>1, <2>2, OutcomeIs, OutcomeIsNext
  <2> QED BY <2>2, <2>3, OutcomesKept
<1>2. ~(losses < MaxLosses)
  <2>1. losses \in 0 .. 0 /\ MaxLosses = 0
    BY DEF NoLosses, IInv, TypeOK
  <2> QED BY <2>1
<1>3. ASSUME NEW q \in Queues, Consume(q) PROVE Promise!Next \/ UNCHANGED Outcomes
  <2>1. ASSUME NEW w \in Workers, Ack(q, w) \/ Reject(q, w) PROVE Promise!Next
    BY <1>1, <2>1, SettlePromised
  <2>2. ASSUME NEW w \in Workers,
               \/ \E m \in Msgs, a \in Attempts : Deliver(q, w, m, a)
               \/ HandlerSucceeds(q, w) \/ HandlerFails(q, w)
               \/ Republish(q, w) \/ AckOriginal(q, w)
        PROVE  UNCHANGED <<done, dlq, owed>>
    BY <2>2 DEF Deliver, HandlerSucceeds, HandlerFails, Republish, AckOriginal
  <2> QED BY <1>1, <1>3, <2>1, <2>2 DEF Consume
<1>4. ASSUME NEW c \in Clients, AssertTopology(c) PROVE UNCHANGED <<done, dlq, owed>>
  BY <1>4 DEF AssertTopology
<1>5. ASSUME NEW m \in Msgs, Confirm(m) PROVE UNCHANGED <<done, dlq, owed>>
  BY <1>5 DEF Confirm
<1>6. CASE UNCHANGED vars
  BY <1>1, <1>6 DEF vars
<1> QED BY <1>1, <1>2, <1>3, <1>4, <1>5, <1>6, PublishPromised, ExpirePromised
        DEF Next, PublisherReconnects, ConsumerReconnects

\* Where connections hold and each routing key belongs to one queue, the retrying
\* consumer delivers exactly once: each message comes to one end in its queue, a
\* completed handler or the DLQ, and the end is final (consumeWithRetry).
THEOREM CalmRetriesKeepPromise ==
  ASSUME NoLosses, OwnKeys
  PROVE  Spec => RetriesEndOnce
<1>1. Init => Promise!Init
  <2> SUFFICES ASSUME Init PROVE \A i \in Queues \X Msgs : Outcomes[i] = "absent"
    BY DEF Promise!Init, Outcomes
  <2>1. OutcomeShows
    BY InitIInv, InitFates, OutcomeIs DEF IInv
  <2>2. \A q \in Queues, m \in Msgs : Outcome(q, m) = "absent"
    BY <2>1 DEF OutcomeShows, Init
  <2> QED BY <2>2 DEF Outcomes
<1>2. IInv /\ Fates /\ [Next]_vars => [Promise!Next]_Outcomes
  BY PromisedStep
<1>3. IInv /\ Fates /\ [Next]_vars => Fates'
  BY FatesStep
<1> QED BY <1>1, <1>2, <1>3, InitFates, Invariance, PTL DEF Spec, RetriesEndOnce, Promise!Spec

-------------------------------------------------------------------------------
(* Under these assumptions an attempt is used up by a failure and by nothing  *)
(* else.                                                                     *)

ExactAt(q, m) ==
  /\ \A a \in Attempts : ready[q][m][a] > 0 => failures[m] = a
  /\ \A w \in Workers : Settles(q, w, m) => failures[m] = Failed(q, w)
  /\ done[q][m] > 0 => failures[m] < MaxAttempts

\* What waits has failed as often as its x-attempt says, a handler at work is one call
\* more, and what was completed had failed less than MaxAttempts times: the handler
\* is called at most MaxAttempts times for a message, and no fewer while it fails.
AttemptsExact == \A q \in Queues, m \in Msgs : ExactAt(q, m)

\* No queue is owed what is not routed to it, and what failed was owed.
OwedRouted == \A q \in Queues, m \in Msgs : <<q, m>> \in owed => q \in RoutesTo[m]
FailedOwed == \A m \in Msgs : failures[m] # 0 => \E q \in Queues : <<q, m>> \in owed

Exact == AttemptsExact /\ OwedRouted /\ FailedOwed

LEMMA InitExact == Init => Exact
<1> SUFFICES ASSUME Init PROVE Exact
  OBVIOUS
<1>1. \A q \in Queues, w \in Workers, m \in Msgs : ~Settles(q, w, m)
  BY DEF Init, Idle, Settles, Busy
<1>2. \A q \in Queues, m \in Msgs : done[q][m] = 0 /\ \A a \in Attempts : ready[q][m][a] = 0
  BY DEF Init
<1>3. AttemptsExact
  BY <1>1, <1>2 DEF AttemptsExact, ExactAt
<1> QED BY <1>3 DEF Init, Exact, OwedRouted, FailedOwed

\* The hands and the queue got nothing of m that they had not before.
NoMore(q, m) ==
  /\ failures'[m] = failures[m]
  /\ \A a \in Attempts : ready'[q][m][a] > 0 => ready[q][m][a] > 0
  /\ \A w \in Workers : Settles(q, w, m)' => Settles(q, w, m) /\ Failed(q, w)' = Failed(q, w)
  /\ done'[q][m] > 0 => done[q][m] > 0

LEMMA NoMoreExact ==
  ASSUME NEW q \in Queues, NEW m \in Msgs, ExactAt(q, m), NoMore(q, m)
  PROVE  ExactAt(q, m)'
  BY DEF ExactAt, NoMore

\* A slot that has not changed.
LEMMA SameSlot ==
  ASSUME NEW q \in Queues, NEW w \in Workers, NEW m \in Msgs, work'[q][w] = work[q][w]
  PROVE  (Settles(q, w, m)' <=> Settles(q, w, m)) /\ Failed(q, w)' = Failed(q, w)
  BY DEF Settles, Busy, At, Failed

LEMMA PublishExact ==
  ASSUME IInv, Fates, Exact, NEW m \in Msgs, Publish(m), NEW p \in Queues, NEW n \in Msgs
  PROVE  ExactAt(p, n)'
<1>1. 0 \in Attempts
  BY MaxAttemptsAssumption DEF Attempts
<1>2. \A b \in Attempts :
        ready'[p][n][b] = IF Receives(p, m) /\ n = m /\ b = 0 THEN ready[p][n][b] + 1 ELSE ready[p][n][b]
  BY <1>1, RoutedEffect DEF Publish, IInv
<1>3. work' = work /\ done' = done /\ failures' = failures /\ pub[m] = "unsent"
  BY DEF Publish
<1>4. \A w \in Workers : (Settles(p, w, n)' <=> Settles(p, w, n)) /\ Failed(p, w)' = Failed(p, w)
  BY <1>3, SameSlot
<1>5. ExactAt(p, n)
  BY DEF Exact, AttemptsExact
<1>6. CASE n = m /\ Receives(p, m)
  <2>1. \A q \in Queues : <<q, m>> \notin owed
    BY <1>3 DEF Fates
  <2>2. failures[m] = 0 /\ Nowhere(p, m)
    BY <2>1 DEF Exact, FailedOwed, Fates, Fate
  <2>3. \A b \in Attempts : b # 0 => ready'[p][m][b] = 0
    BY <1>2, <1>6, <2>2 DEF Nowhere, NoCopy
  <2>4. \A b \in Attempts : ready'[p][m][b] > 0 => b = 0
    BY <2>3
  <2> QED BY <1>3, <1>4, <1>6, <2>2, <2>4 DEF ExactAt, Nowhere, NoHand
<1>7. CASE ~(n = m /\ Receives(p, m))
  <2>1. NoMore(p, n)
    BY <1>2, <1>3, <1>4, <1>7 DEF NoMore
  <2> QED BY <1>5, <2>1, NoMoreExact
<1> QED BY <1>6, <1>7

LEMMA DeliverExact ==
  ASSUME IInv, Fates, Exact, NEW q \in Queues, NEW w \in Workers, NEW m \in Msgs, NEW a \in Attempts,
         Deliver(q, w, m, a), NEW p \in Queues, NEW n \in Msgs
  PROVE  ExactAt(p, n)'
<1> DEFINE d == [stage |-> "handling", msg |-> m, attempt |-> a]
<1>1. failures[m] = a /\ ready[q][m][a] > 0
  BY DEF Exact, AttemptsExact, ExactAt, Deliver
<1>2. \A p1 \in Queues, n1 \in Msgs, b \in Attempts : ready'[p1][n1][b] > 0 => ready[p1][n1][b] > 0
  BY <1>1, TakeEffect DEF Deliver, IInv
<1>3. d \in {Idle} \cup Delivery /\ Put(q, w, d) /\ d.msg = m /\ d.stage = "handling" /\ d.attempt = a
  BY DEF Deliver, Put, Delivery, Stages
<1> HIDE DEF d
<1>4. OnlySlot(q, w) /\ work'[q][w] = d
  BY <1>3, SetEffect DEF OnlySlot, IInv
<1>5. Failed(q, w)' = a /\ \A n1 \in Msgs : Settles(q, w, n1)' => n1 = m
  BY <1>3, <1>4 DEF Settles, Failed
<1>6. done' = done /\ failures' = failures
  BY DEF Deliver
<1>7. \A v \in Workers : p # q \/ v # w =>
        (Settles(p, v, n)' <=> Settles(p, v, n)) /\ Failed(p, v)' = Failed(p, v)
  BY <1>4, SameSlot DEF OnlySlot
<1>8. ExactAt(p, n)
  BY DEF Exact, AttemptsExact
<1> QED BY <1>1, <1>2, <1>5, <1>6, <1>7, <1>8 DEF ExactAt

\* The handler that failed had the only copy of its message.
LEMMA HandlerFailsExact ==
  ASSUME IInv, Fates, Exact, OwnKeys, NEW q \in Queues, NEW w \in Workers, HandlerFails(q, w),
         NEW p \in Queues, NEW n \in Msgs
  PROVE  ExactAt(p, n)'
<1>1. PICK m \in Msgs : m = work[q][w].msg /\ Settles(q, w, m)
  <2>1. At(q, w, "handling") /\ "handling" \in Stages
    BY DEF HandlerFails, Stages
  <2>2. work[q][w].msg \in Msgs /\ Busy(q, w)
    BY <2>1, AtHolds DEF IInv
  <2> QED BY <2>1, <2>2 DEF Settles, At
<1>2. HeldBy(q, m, w) /\ <<q, m>> \in owed
  BY <1>1, InOnePlace DEF Fates
<1>3. PICK s \in {"rejecting", "republishing"} : MoveTo(q, w, s)
  BY DEF HandlerFails
<1>4. /\ work'[q][w].stage = s /\ work'[q][w].msg = m /\ work'[q][w].attempt = work[q][w].attempt
      /\ OnlySlot(q, w)
  BY <1>1, <1>3, MoveEffect DEF Settles, Stages, OnlySlot, IInv
<1>5. work[q][w].attempt \in Attempts /\ failures[m] = work[q][w].attempt
  <2>1. At(q, w, "handling") /\ "handling" \in Stages
    BY DEF HandlerFails, Stages
  <2>2. failures[m] = Failed(q, w)
    BY <1>1 DEF Exact, AttemptsExact, ExactAt
  <2> QED BY <2>1, <2>2, AtHolds DEF IInv, Failed, At
<1>6. failures'[m] = work[q][w].attempt + 1 /\ \A i \in Msgs : i # m => failures'[i] = failures[i]
  <2>1. failures[m] < MaxAttempts
    <3> DEFINE k == work[q][w].attempt
    <3>1. k \in 0 .. MaxAttempts - 1 /\ failures[m] = k
      BY <1>5 DEF Attempts
    <3> HIDE DEF k
    <3> QED BY <3>1, MaxAttemptsAssumption
  <2>2. failures \in [Msgs -> 0 .. MaxAttempts]
    BY DEF IInv, TypeOK
  <2>3. failures' = [failures EXCEPT ![m] = IF failures[m] < MaxAttempts THEN failures[m] + 1 ELSE failures[m]]
    BY <1>1 DEF HandlerFails
  <2> QED BY <1>5, <2>1, <2>2, <2>3
<1>7. ready' = ready /\ done' = done
  BY DEF HandlerFails
<1>8. \A v \in Workers : p # q \/ v # w =>
        (Settles(p, v, n)' <=> Settles(p, v, n)) /\ Failed(p, v)' = Failed(p, v)
  BY <1>4, SameSlot DEF OnlySlot
<1>9. CASE n # m
  <2>1. ~Settles(q, w, n)'
    BY <1>4, <1>9 DEF Settles
  <2>2. NoMore(p, n)
    BY <1>6, <1>7, <1>8, <1>9, <2>1 DEF NoMore
  <2> QED BY <2>2, NoMoreExact DEF Exact, AttemptsExact
<1>10. CASE n = m /\ p = q
  <2>1. Failed(q, w)' = work[q][w].attempt + 1
    BY <1>4 DEF Failed
  <2>2. \A v \in Workers : v # w => ~Settles(q, v, m)'
    BY <1>2, <1>8, <1>10 DEF HeldBy
  <2>3. \A a \in Attempts : ~(ready'[q][m][a] > 0)
    BY <1>2, <1>7 DEF HeldBy, NoCopy
  <2>4. ~(done'[q][m] > 0)
    BY <1>2, <1>7 DEF HeldBy
  <2> QED BY <1>6, <1>10, <2>1, <2>2, <2>3, <2>4 DEF ExactAt
<1>11. CASE n = m /\ p # q
  <2>1. <<p, m>> \notin owed
    BY <1>2, <1>11 DEF Exact, OwedRouted, OwnKeys
  <2>2. Nowhere(p, m)
    BY <2>1 DEF Fates, Fate
  <2>3. \A v \in Workers : ~Settles(p, v, m)'
    BY <1>8, <1>11, <2>2 DEF Nowhere, NoHand
  <2>4. ~(done'[p][m] > 0) /\ \A a \in Attempts : ~(ready'[p][m][a] > 0)
    BY <1>7, <2>2 DEF Nowhere, NoCopy
  <2> QED BY <1>11, <2>3, <2>4 DEF ExactAt
<1> QED BY <1>9, <1>10, <1>11

\* A handler returned, or the original of a retry is acked: no hand holds more.
LEMMA QuietExact ==
  ASSUME IInv, Exact, NEW q \in Queues, NEW w \in Workers,
         HandlerSucceeds(q, w) \/ AckOriginal(q, w), NEW p \in Queues, NEW n \in Msgs
  PROVE  ExactAt(p, n)'
<1>1. ready' = ready /\ done' = done /\ failures' = failures
  BY DEF HandlerSucceeds, AckOriginal
<1>2. OnlySlot(q, w) /\ (Settles(q, w, n)' => Settles(q, w, n) /\ Failed(q, w)' = Failed(q, w))
  <2>1. CASE HandlerSucceeds(q, w)
    <3>1. At(q, w, "handling") /\ Busy(q, w) /\ MoveTo(q, w, "acking")
      BY <2>1, AtHolds DEF HandlerSucceeds, Stages, IInv
    <3>2. /\ work'[q][w].stage = "acking" /\ work'[q][w].msg = work[q][w].msg
          /\ work'[q][w].attempt = work[q][w].attempt /\ OnlySlot(q, w)
      BY <3>1, MoveEffect DEF Stages, OnlySlot, IInv
    <3> QED BY <3>1, <3>2 DEF Settles, Busy, At, Failed
  <2>2. CASE AckOriginal(q, w)
    <3>1. OnlySlot(q, w) /\ work'[q][w].stage = "idle"
      <4>1. TypeOK /\ Release(q, w)
        BY <2>2 DEF AckOriginal, IInv
      <4> QED BY <4>1, ReleaseEffect DEF OnlySlot, Idle
    <3> QED BY <3>1 DEF Settles, Busy
  <2> QED BY <2>1, <2>2
<1>3. \A v \in Workers : p # q \/ v # w =>
        (Settles(p, v, n)' <=> Settles(p, v, n)) /\ Failed(p, v)' = Failed(p, v)
  BY <1>2, SameSlot DEF OnlySlot
<1>4. NoMore(p, n)
  BY <1>1, <1>2, <1>3 DEF NoMore
<1> QED BY <1>4, NoMoreExact DEF Exact, AttemptsExact

\* What is completed had failed as often as its attempt says, which is not often enough.
LEMMA SettleExact ==
  ASSUME IInv, Fates, Exact, NEW q \in Queues, NEW w \in Workers, Ack(q, w) \/ Reject(q, w),
         NEW p \in Queues, NEW n \in Msgs
  PROVE  ExactAt(p, n)'
<1>1. PICK m \in Msgs : /\ m = work[q][w].msg /\ Settles(q, w, m) /\ UNCHANGED ready
                        /\ Completes(q, m) \/ Buries(q, m)
  BY SettleEffect
<1>2. OnlySlot(q, w) /\ ~Settles(q, w, n)'
  <2>1. OnlySlot(q, w) /\ work'[q][w].stage = "idle"
    BY ReleaseEffect DEF Ack, Reject, OnlySlot, Idle, IInv
  <2> QED BY <2>1 DEF Settles, Busy
<1>3. \A v \in Workers : p # q \/ v # w =>
        (Settles(p, v, n)' <=> Settles(p, v, n)) /\ Failed(p, v)' = Failed(p, v)
  BY <1>2, SameSlot DEF OnlySlot
<1>4. failures' = failures /\ ready' = ready
  BY <1>1 DEF Ack, Reject
<1>5. CASE ~(p = q /\ n = m) \/ Reject(q, w)
  <2>1. done'[p][n] = done[p][n]
    BY <1>1, <1>5 DEF Completes, Buries, Reject
  <2>2. NoMore(p, n)
    BY <1>2, <1>3, <1>4, <2>1 DEF NoMore
  <2> QED BY <2>2, NoMoreExact DEF Exact, AttemptsExact
<1>6. CASE p = q /\ n = m /\ Ack(q, w)
  <2>1. At(q, w, "acking") /\ "acking" \in Stages
    BY <1>6 DEF Ack, Stages
  <2>2. work[q][w].attempt \in Attempts /\ Failed(q, w) = work[q][w].attempt
    BY <2>1, AtHolds DEF IInv, Failed, At
  <2>3. failures[m] = Failed(q, w)
    BY <1>1 DEF Exact, AttemptsExact, ExactAt
  <2>4. failures[m] < MaxAttempts
    BY <2>2, <2>3, MaxAttemptsAssumption DEF Attempts
  <2> QED BY <1>2, <1>3, <1>4, <1>6, <2>4 DEF ExactAt, Exact, AttemptsExact
<1> QED BY <1>5, <1>6

\* The copy has the attempt that the failure made.
LEMMA RepublishExact ==
  ASSUME IInv, Fates, Exact, OwnKeys, NEW q \in Queues, NEW w \in Workers, Republish(q, w),
         NEW p \in Queues, NEW n \in Msgs
  PROVE  ExactAt(p, n)'
<1>0. PICK m \in Msgs, a \in Attempts :
        m = work[q][w].msg /\ a = work[q][w].attempt + 1 /\ InHand(q, m) /\ Busy(q, w)
  BY AtHolds, RetryInRange DEF Republish, Stages, IInv
<1>1. Settles(q, w, m) /\ failures[m] = a
  <2>1. Settles(q, w, m)
    BY <1>0 DEF Republish, Settles, At
  <2>2. Failed(q, w) = a
    BY <1>0 DEF Republish, At, Failed
  <2> QED BY <2>1, <2>2 DEF Exact, AttemptsExact, ExactAt
<1>2. OnlySlot(q, w) /\ ~Settles(q, w, n)'
  <2>1. OnlySlot(q, w) /\ work'[q][w].stage = "settled by retry"
    BY <1>0, MoveEffect DEF Republish, Stages, OnlySlot, IInv
  <2> QED BY <2>1 DEF Settles, At
<1>3. \A v \in Workers : p # q \/ v # w =>
        (Settles(p, v, n)' <=> Settles(p, v, n)) /\ Failed(p, v)' = Failed(p, v)
  BY <1>2, SameSlot DEF OnlySlot
<1>4. ready' = Routed(m, a) /\ done' = done /\ failures' = failures
  BY <1>0 DEF Republish
<1>5. \A b \in Attempts :
        ready'[p][n][b] = IF Receives(p, m) /\ n = m /\ b = a THEN ready[p][n][b] + 1 ELSE ready[p][n][b]
  BY <1>4, RoutedEffect DEF IInv
<1>6. \A b \in Attempts : ready'[p][n][b] > 0 => ready[p][n][b] > 0 \/ (n = m /\ b = a)
  BY <1>5
<1>7. ExactAt(p, n)
  BY DEF Exact, AttemptsExact
<1> QED BY <1>1, <1>2, <1>3, <1>4, <1>6, <1>7 DEF ExactAt

LEMMA ExactStep ==
  ASSUME NoLosses, OwnKeys, IInv, Fates, Exact, [Next]_vars
  PROVE  Exact'
<1>1. ~(losses < MaxLosses)
  <2>1. losses \in 0 .. 0 /\ MaxLosses = 0
    BY DEF NoLosses, IInv, TypeOK
  <2> QED BY <2>1
<1>2. ASSUME NEW p \in Queues, NEW n \in Msgs PROVE ExactAt(p, n)'
  <2>1. ASSUME UNCHANGED <<work, done, failures>>,
               \A a \in Attempts : ready'[p][n][a] > 0 => ready[p][n][a] > 0
        PROVE  ExactAt(p, n)'
    <3>1. NoMore(p, n)
      BY <2>1, SameSlot DEF NoMore
    <3> QED BY <3>1, NoMoreExact DEF Exact, AttemptsExact
  <2>2. ASSUME NEW c \in Clients, AssertTopology(c) PROVE ExactAt(p, n)'
    BY <2>1, <2>2 DEF AssertTopology
  <2>3. ASSUME NEW m \in Msgs, Confirm(m) PROVE ExactAt(p, n)'
    BY <2>1, <2>3 DEF Confirm
  <2>4. CASE UNCHANGED vars
    BY <2>1, <2>4 DEF vars
  <2>5. ASSUME NEW q \in Queues, NEW m \in Msgs, NEW a \in Attempts, Expire(q, m, a)
        PROVE  ExactAt(p, n)'
    <3>1. \A b \in Attempts : ready'[p][n][b] > 0 => ready[p][n][b] > 0
      BY <2>5, TakeEffect DEF Expire, IInv
    <3> QED BY <2>1, <2>5, <3>1 DEF Expire
  <2>6. ASSUME NEW q \in Queues, Consume(q) PROVE ExactAt(p, n)'
    BY <2>6, ConsumeCases, DeliverExact, HandlerFailsExact, QuietExact, SettleExact, RepublishExact
  <2> QED BY <1>1, <2>2, <2>3, <2>4, <2>5, <2>6, PublishExact DEF Next, PublisherReconnects, ConsumerReconnects
<1>3. OwedRouted' /\ owed \subseteq owed'
  <2>1. ASSUME NEW m \in Msgs, Publish(m) PROVE OwedRouted' /\ owed \subseteq owed'
    BY <2>1 DEF Publish, Receives, Exact, OwedRouted
  <2>2. ASSUME owed' = owed PROVE OwedRouted' /\ owed \subseteq owed'
    BY <2>2 DEF Exact, OwedRouted
  <2>3. ASSUME NEW q \in Queues, Consume(q) PROVE owed' = owed
    BY <2>3, ConsumeKeeps
  <2> QED BY <1>1, <2>1, <2>2, <2>3
          DEF Next, vars, PublisherReconnects, ConsumerReconnects, AssertTopology, Confirm, Expire
<1>4. FailedOwed'
  <2>1. ASSUME failures' = failures PROVE FailedOwed'
    BY <1>3, <2>1 DEF Exact, FailedOwed
  <2>2. ASSUME NEW q \in Queues, NEW w \in Workers, HandlerFails(q, w) PROVE FailedOwed'
    <3>1. PICK m \in Msgs : m = work[q][w].msg /\ Settles(q, w, m)
      <4>1. At(q, w, "handling") /\ "handling" \in Stages
        BY <2>2 DEF HandlerFails, Stages
      <4>2. work[q][w].msg \in Msgs /\ Busy(q, w)
        BY <4>1, AtHolds DEF IInv
      <4> QED BY <4>1, <4>2 DEF Settles, At
    <3>2. <<q, m>> \in owed
      BY <3>1, InOnePlace DEF Fates
    <3>3. failures \in [Msgs -> 0 .. MaxAttempts]
      BY DEF IInv, TypeOK
    <3>4. \A n \in Msgs : n # m => failures'[n] = failures[n]
      BY <2>2, <3>1, <3>3 DEF HandlerFails
    <3> QED BY <1>3, <3>2, <3>4 DEF Exact, FailedOwed
  <2>3. ASSUME NEW q \in Queues, Consume(q) PROVE FailedOwed'
    <3>1. PICK w \in Workers :
            \/ HandlerFails(q, w)
            \/ \E m \in Msgs, a \in Attempts : Deliver(q, w, m, a)
            \/ HandlerSucceeds(q, w) \/ Ack(q, w) \/ Reject(q, w)
            \/ Republish(q, w) \/ AckOriginal(q, w)
      BY <2>3, ConsumeCases
    <3>2. HandlerFails(q, w) \/ failures' = failures
      BY <3>1 DEF Deliver, HandlerSucceeds, Ack, Reject, Republish, AckOriginal
    <3> QED BY <2>1, <2>2, <3>2
  <2> QED BY <1>1, <2>1, <2>3
          DEF Next, vars, PublisherReconnects, ConsumerReconnects, AssertTopology, Publish, Confirm, Expire
<1> QED BY <1>2, <1>3, <1>4 DEF Exact, AttemptsExact

\* Where connections hold and each routing key belongs to one queue, x-attempt is the
\* number of failures, neither more nor less, and a message is given up after exactly
\* MaxAttempts of them (rabbitmq.consumer.utils.ts, maxAttempts).
THEOREM AttemptsAreExact ==
  ASSUME NoLosses, OwnKeys
  PROVE  Spec => []AttemptsExact
<1>1. IInv /\ Fates /\ [Next]_vars => Fates'
  BY FatesStep
<1>2. IInv /\ Fates /\ Exact /\ [Next]_vars => Exact'
  BY ExactStep
<1>3. Exact => AttemptsExact
  BY DEF Exact
<1> QED BY <1>1, <1>2, <1>3, InitFates, InitExact, Invariance, PTL DEF Spec

===============================================================================
