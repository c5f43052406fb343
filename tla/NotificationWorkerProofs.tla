------------------------ MODULE NotificationWorkerProofs ------------------------
(***************************************************************************)
(* Theorems about NotificationWorker, for any number of messages of any    *)
(* kinds, any prefetch window, and any number of outages and losses.       *)
(***************************************************************************)
EXTENDS NotificationWorker, FiniteSetTheorems, WellFoundedInduction, TLAPS

\* A handler that is about to acknowledge has sent, or had nothing to send.
AckingMeansSent ==
  \A m \in Msgs : hand[m] = "acking" => sent[m] > 0 \/ SkippedBySend(m)

\* One more send is still to come of a message that is not settled.
ToCome(m) == IF hand[m] = "acking" \/ m \in acked THEN 0 ELSE 1

\* What was sent of a message, what lost calls may still send, and what is to
\* come: each lost connection and each failed send accounts for one more.
SendsCounted ==
  \A m \in Msgs : sent[m] + orphans[m] + ToCome(m) <= 1 + losses + failed[m]

IInv == TypeOK /\ OnePlace /\ AckedMeansSent /\ AckingMeansSent /\ SendsCounted

LEMMA InitInv == Init => IInv
<1> SUFFICES ASSUME Init PROVE IInv
  OBVIOUS
<1>1. TypeOK
  BY NAssumption, BoundsAssumption DEF Init, TypeOK
<1>2. OnePlace
  BY DEF Init, OnePlace, InHand
<1>3. AckedMeansSent /\ AckingMeansSent
  BY DEF Init, AckedMeansSent, AckingMeansSent
<1>4. SendsCounted
  BY DEF Init, SendsCounted, ToCome
<1> QED BY <1>1, <1>2, <1>3, <1>4 DEF IInv

LEMMA PublishInv == IInv /\ Publish => IInv'
<1> SUFFICES ASSUME IInv, Publish PROVE IInv'
  OBVIOUS
<1>1. published \in Nat /\ published + 1 \in Msgs
  BY NAssumption DEF IInv, TypeOK, Publish, Msgs
<1>2. TypeOK'
  BY <1>1, NAssumption DEF IInv, TypeOK, Publish, Msgs
<1>3. InHand' = InHand
  BY DEF Publish, InHand
<1>4. published + 1 \notin ready \cup InHand \cup acked
  BY <1>1 DEF IInv, OnePlace
<1>5. 1 .. published + 1 = (1 .. published) \cup {published + 1}
  BY <1>1
<1>6. OnePlace'
  BY <1>3, <1>4, <1>5 DEF IInv, OnePlace, Publish
<1>7. AckedMeansSent' /\ AckingMeansSent'
  BY DEF IInv, AckedMeansSent, AckingMeansSent, Publish
<1>8. SendsCounted'
  BY DEF IInv, SendsCounted, ToCome, Publish
<1> QED BY <1>2, <1>6, <1>7, <1>8 DEF IInv

LEMMA DeliverInv ==
  ASSUME IInv, NEW m \in Msgs, Deliver(m)
  PROVE  IInv'
<1>1. m \in ready /\ hand[m] = "none"
  BY DEF Deliver, First, IInv, OnePlace, InHand
<1>2. TypeOK'
  BY DEF IInv, TypeOK, Deliver
<1>3. InHand' = InHand \cup {m}
  BY DEF IInv, TypeOK, Deliver, InHand
<1>4. OnePlace'
  BY <1>1, <1>3 DEF IInv, OnePlace, Deliver
<1>5. AckedMeansSent' /\ AckingMeansSent'
  BY DEF IInv, TypeOK, AckedMeansSent, AckingMeansSent, Deliver
<1>6. SendsCounted'
  BY <1>1 DEF IInv, TypeOK, SendsCounted, ToCome, Deliver
<1> QED BY <1>2, <1>4, <1>5, <1>6 DEF IInv

\* The steps that leave a message in the worker's hands.
LEMMA SendInv ==
  ASSUME IInv, NEW m \in Msgs, SendSkips(m) \/ SendCompletes(m) \/ SendThrows(m)
  PROVE  IInv'
<1>1. /\ hand[m] = "sending" /\ m \notin acked
      /\ UNCHANGED <<published, ready, acked, orphans, losses>>
  BY DEF SendSkips, SendCompletes, SendThrows, IInv, OnePlace, InHand
<1>2. PICK next \in {"acking", "nacking"} : hand' = [hand EXCEPT ![m] = next]
  BY DEF SendSkips, SendCompletes, SendThrows
<1>3. TypeOK'
  BY BoundsAssumption DEF IInv, TypeOK, SendSkips, SendCompletes, SendThrows
<1>4. InHand' = InHand
  BY <1>1, <1>2 DEF IInv, TypeOK, InHand
<1>5. OnePlace'
  BY <1>1, <1>4 DEF IInv, OnePlace
<1>6. \A k \in Msgs : sent'[k] >= sent[k]
  BY DEF IInv, TypeOK, SendSkips, SendCompletes, SendThrows
<1>7. AckedMeansSent'
  BY <1>1, <1>3, <1>6 DEF IInv, TypeOK, AckedMeansSent
<1>8. AckingMeansSent'
  BY DEF IInv, TypeOK, AckingMeansSent, SendSkips, SendCompletes, SendThrows
<1>9. SendsCounted'
  BY <1>1 DEF IInv, TypeOK, SendsCounted, ToCome, SendSkips, SendCompletes, SendThrows
<1> QED BY <1>3, <1>5, <1>7, <1>8, <1>9 DEF IInv

\* The steps that take it out of them.
LEMMA SettleInv ==
  ASSUME IInv, NEW m \in Msgs, Ack(m) \/ Nack(m)
  PROVE  IInv'
<1>1. m \in InHand /\ m \notin ready /\ m \notin acked
  BY DEF Ack, Nack, IInv, OnePlace, InHand
<1>2. TypeOK'
  BY DEF IInv, TypeOK, Ack, Nack
<1>3. InHand' = InHand \ {m}
  BY DEF IInv, TypeOK, Ack, Nack, InHand
<1>4. OnePlace'
  BY <1>1, <1>3 DEF IInv, OnePlace, Ack, Nack
<1>5. AckedMeansSent' /\ AckingMeansSent'
  BY DEF IInv, TypeOK, AckedMeansSent, AckingMeansSent, Ack, Nack
<1>6. SendsCounted'
  BY <1>1 DEF IInv, TypeOK, SendsCounted, ToCome, Ack, Nack
<1> QED BY <1>2, <1>4, <1>5, <1>6 DEF IInv

\* A lost connection or a crash takes everything out of the worker's hands.
LEMMA LossInv == IInv /\ (ConnectionLost \/ Crash) => IInv'
<1> SUFFICES ASSUME IInv, ConnectionLost \/ Crash PROVE IInv'
  OBVIOUS
<1>1. Requeue
  BY DEF ConnectionLost, Crash
<1>2. TypeOK'
  BY <1>1, BoundsAssumption DEF IInv, TypeOK, Requeue, InHand, ConnectionLost, Crash
<1>3. InHand' = {}
  BY <1>1 DEF Requeue, InHand
<1>4. OnePlace'
  BY <1>1, <1>3 DEF IInv, OnePlace, Requeue
<1>5. AckedMeansSent' /\ AckingMeansSent'
  BY <1>1 DEF IInv, AckedMeansSent, AckingMeansSent, Requeue
<1>6. \A m \in Msgs : m \in acked => hand[m] = "none"
  BY DEF IInv, OnePlace, InHand
<1>7. SendsCounted'
  <2> SUFFICES ASSUME NEW m \in Msgs
               PROVE  (sent[m] + orphans[m] + ToCome(m) <= 1 + losses + failed[m])'
    BY DEF SendsCounted
  <2>1. sent'[m] = sent[m] /\ failed'[m] = failed[m] /\ losses' = losses + 1
        /\ acked' = acked /\ hand'[m] = "none"
    BY <1>1 DEF Requeue
  <2>2. orphans'[m] <= orphans[m] + (IF hand[m] = "sending" THEN 1 ELSE 0)
    BY DEF ConnectionLost, Crash, IInv, TypeOK
  <2>3. ToCome(m)' <= ToCome(m) + (IF hand[m] = "acking" THEN 1 ELSE 0)
    BY <2>1 DEF ToCome
  <2>4. sent[m] + orphans[m] + ToCome(m) <= 1 + losses + failed[m]
    BY DEF IInv, SendsCounted
  <2>5. /\ sent[m] \in Nat /\ orphans[m] \in Nat /\ losses \in Nat /\ failed[m] \in Nat
        /\ ToCome(m) \in Nat /\ ToCome(m)' \in Nat /\ orphans'[m] \in Nat
    BY <1>2, BoundsAssumption DEF IInv, TypeOK, ToCome
  <2> HIDE DEF ToCome
  <2> QED BY <2>1, <2>2, <2>3, <2>4, <2>5
<1> QED BY <1>2, <1>4, <1>5, <1>7 DEF IInv

LEMMA OrphanInv ==
  ASSUME IInv, NEW m \in Msgs, OrphanFinishes(m)
  PROVE  IInv'
<1>1. UNCHANGED <<published, ready, hand, acked, failed, outages, losses>>
  BY DEF OrphanFinishes
<1>2. TypeOK'
  BY DEF IInv, TypeOK, OrphanFinishes
<1>3. OnePlace'
  BY <1>1 DEF IInv, OnePlace, InHand
<1>4. AckedMeansSent' /\ AckingMeansSent'
  BY DEF IInv, TypeOK, AckedMeansSent, AckingMeansSent, OrphanFinishes
<1>5. SendsCounted'
  BY DEF IInv, TypeOK, SendsCounted, ToCome, OrphanFinishes
<1> QED BY <1>2, <1>3, <1>4, <1>5 DEF IInv

LEMMA NextInv == IInv /\ [Next]_vars => IInv'
<1> SUFFICES ASSUME IInv, [Next]_vars PROVE IInv'
  OBVIOUS
<1>1. CASE UNCHANGED vars
  BY <1>1 DEF vars, IInv, TypeOK, OnePlace, InHand, AckedMeansSent, AckingMeansSent,
              SendsCounted, ToCome
<1>2. CASE Publish
  BY <1>2, PublishInv
<1>3. ASSUME NEW m \in Msgs, Deliver(m) PROVE IInv'
  BY <1>3, DeliverInv
<1>4. ASSUME NEW m \in Msgs, Handle(m) PROVE IInv'
  BY <1>4, SendInv, SettleInv DEF Handle
<1>5. ASSUME NEW m \in Msgs, OrphanFinishes(m) PROVE IInv'
  BY <1>5, OrphanInv
<1>6. CASE ConnectionLost \/ Crash
  BY <1>6, LossInv
<1> QED BY <1>1, <1>2, <1>3, <1>4, <1>5, <1>6 DEF Next

LEMMA Invariance == Spec => []IInv
<1> QED BY InitInv, NextInv, PTL DEF Spec

-------------------------------------------------------------------------------
\* The types of the worker's state.
THEOREM TypeCorrect == Spec => []TypeOK
  BY Invariance, PTL DEF IInv

\* A published message is waiting, in the worker's hands or acknowledged, and in
\* one of these places only, whatever fails and however often.
THEOREM EachInOnePlace == Spec => []OnePlace
  BY Invariance, PTL DEF IInv

\* What the worker acknowledges it has sent, or send() had nothing to do for it.
THEOREM AckedOnlyAfterSend == Spec => []AckedMeansSent
  BY Invariance, PTL DEF IInv

\* Duplicates are no more than lost connections, crashes and failed sends explain.
THEOREM DuplicatesAreExplained == Spec => []DuplicatesExplained
<1>1. IInv => DuplicatesExplained
  <2> SUFFICES ASSUME IInv, NEW m \in Msgs
               PROVE  sent[m] <= 1 + losses + failed[m]
    BY DEF DuplicatesExplained
  <2>1. /\ sent[m] \in Nat /\ orphans[m] \in Nat /\ losses \in Nat /\ failed[m] \in Nat
        /\ ToCome(m) \in Nat
    BY BoundsAssumption DEF IInv, TypeOK, ToCome
  <2>2. sent[m] + orphans[m] + ToCome(m) <= 1 + losses + failed[m]
    BY DEF IInv, SendsCounted
  <2> QED BY <2>1, <2>2
<1> QED BY <1>1, Invariance, PTL

-------------------------------------------------------------------------------
(* NotificationWorker implements Deliveries. *)

\* No provider ever had a poison message.
PoisonUnsent == \A m \in Msgs : Kind[m] = "poison" => sent[m] = 0

LEMMA PoisonStep == ASSUME TypeOK, PoisonUnsent, [Next]_vars PROVE PoisonUnsent'
<1>1. CASE UNCHANGED sent
  BY <1>1 DEF PoisonUnsent
<1>2. ASSUME NEW m \in Msgs, Kind[m] # "poison", sent' = [sent EXCEPT ![m] = @ + 1] PROVE PoisonUnsent'
  BY <1>2 DEF PoisonUnsent, TypeOK
<1>3. CASE Publish \/ ConnectionLost \/ Crash \/ UNCHANGED vars
  BY <1>1, <1>3 DEF Publish, ConnectionLost, Crash, Requeue, vars
<1>4. ASSUME NEW m \in Msgs, Deliver(m) \/ SendSkips(m) \/ Ack(m) \/ Nack(m) PROVE PoisonUnsent'
  BY <1>1, <1>4 DEF Deliver, SendSkips, Ack, Nack
<1>5. ASSUME NEW m \in Msgs, SendCompletes(m) \/ SendThrows(m) \/ OrphanFinishes(m) PROVE PoisonUnsent'
  <2>1. UNCHANGED sent \/ (Kind[m] # "poison" /\ sent' = [sent EXCEPT ![m] = @ + 1])
    BY <1>5 DEF SendCompletes, SendThrows, OrphanFinishes
  <2> QED BY <1>1, <1>2, <2>1
<1> QED BY <1>3, <1>4, <1>5 DEF Next, Handle

\* A step that publishes, acknowledges and forgets nothing changes no fate.
LEMMA FatesKept ==
  ASSUME AckedMeansSent, AckedMeansSent', UNCHANGED <<published, acked>>,
         (ready \cup InHand)' = ready \cup InHand
  PROVE  UNCHANGED Fates
<1> SUFFICES ASSUME NEW m \in Msgs PROVE Fate(m)' = Fate(m)
  BY DEF Fates
<1>1. m \in acked => SkippedBySend(m) \/ (sent[m] > 0 /\ sent'[m] > 0)
  BY DEF AckedMeansSent, SkippedBySend
<1> QED BY <1>1 DEF Fate, SkippedBySend

LEMMA PublishPromised == ASSUME IInv, Publish PROVE Promise!Next
<1>1. PICK m \in Msgs : m = published + 1 /\ published' = m /\ m > published /\ ~ (m > published')
  BY NAssumption DEF IInv, TypeOK, Publish, Msgs
<1>2. InHand' = InHand /\ ready' = ready \cup {m} /\ UNCHANGED <<acked, sent>>
  BY <1>1 DEF Publish, InHand
<1>3. Fate(m) = "absent"
  BY <1>1 DEF Fate
<1>4. Fate(m)' = "owed"
  BY <1>1, <1>2 DEF Fate
<1>5. ASSUME NEW k \in Msgs \ {m} PROVE Fate(k)' = Fate(k)
  <2>1. k > published' <=> k > published
    BY <1>1, NAssumption DEF IInv, TypeOK, Msgs
  <2>2. k \in ready' \cup InHand' <=> k \in ready \cup InHand
    BY <1>2
  <2> QED BY <1>2, <2>1, <2>2 DEF Fate, SkippedBySend
<1>6. Fates' = [k \in Msgs |-> IF k \in {m} THEN "owed" ELSE Fates[k]]
  BY <1>4, <1>5 DEF Fates
<1>7. Promise!Owe({m})
  BY <1>1, <1>3, <1>6 DEF Promise!Owe, Promise!Become, Fates
<1> QED BY <1>1, <1>7 DEF Promise!Next

LEMMA AckPromised ==
  ASSUME IInv, IInv', PoisonUnsent, NEW m \in Msgs, Ack(m)
  PROVE  Promise!Next
<1> DEFINE e == IF SkippedBySend(m) THEN "skipped" ELSE "sent"
<1>1. /\ hand[m] = "acking" /\ hand' = [hand EXCEPT ![m] = "none"] /\ acked' = acked \cup {m}
      /\ UNCHANGED <<published, ready, sent>>
  BY DEF Ack
<1>2. m \in InHand /\ InHand' = InHand \ {m} /\ m \notin ready
  BY <1>1 DEF IInv, TypeOK, InHand, OnePlace
<1>3. ~ (m > published)
  BY <1>2, NAssumption DEF IInv, OnePlace, TypeOK, Msgs
<1>4. SkippedBySend(m) \/ (sent[m] > 0 /\ Kind[m] # "poison")
  BY <1>1 DEF IInv, AckingMeansSent, PoisonUnsent
<1>5. Fate(m) = "owed"
  BY <1>2, <1>3 DEF Fate
<1>6. Fate(m)' = e
  <2>1. m \notin ready' \cup InHand' /\ m \in acked' /\ ~ (m > published')
    BY <1>1, <1>2, <1>3
  <2>2. Fate(m)' = IF SkippedBySend(m) THEN "skipped" ELSE IF sent'[m] > 0 THEN "sent" ELSE "dropped"
    BY <2>1 DEF Fate, SkippedBySend
  <2> QED BY <1>1, <1>4, <2>2
<1>7. ASSUME NEW k \in Msgs \ {m} PROVE Fate(k)' = Fate(k)
  BY <1>1, <1>2 DEF Fate, SkippedBySend
<1>8. Fates' = [k \in Msgs |-> IF k \in {m} THEN e ELSE Fates[k]]
  BY <1>6, <1>7 DEF Fates
<1>9. Promise!End(m, e)
  BY <1>4, <1>5, <1>8 DEF Promise!End, Promise!Become, Fates
<1>10. e \in (IF SkippedBySend(m) THEN {"skipped"} ELSE IF Kind[m] = "poison" THEN {} ELSE {"sent"})
  BY <1>4
<1> QED BY <1>9, <1>10 DEF Promise!Next

\* At least once, and at most one end: a notification stays owed through any failures,
\* lost connections and crashes, until a provider had it or there was nothing to send;
\* a poison message is owed for ever (notification.controller.ts ack and nack).
THEOREM WorkerKeepsPromise == Spec => NotificationsEndOnce
<1>1. Init => PoisonUnsent
  BY DEF Init, PoisonUnsent
<1>2. Init => Promise!Init
  <2> SUFFICES ASSUME Init, NEW m \in Msgs PROVE Fates[m] = "absent"
    BY DEF Promise!Init, Fates
  <2>1. m > published
    BY NAssumption DEF Init, Msgs
  <2> QED BY <2>1 DEF Fates, Fate
<1>3. IInv /\ PoisonUnsent /\ [Next]_vars => [Promise!Next]_Fates
  <2> SUFFICES ASSUME IInv, PoisonUnsent, [Next]_vars PROVE Promise!Next \/ UNCHANGED Fates
    OBVIOUS
  <2>1. IInv' /\ AckedMeansSent /\ AckedMeansSent'
    BY NextInv DEF IInv
  <2>2. CASE UNCHANGED vars
    BY <2>1, <2>2, FatesKept DEF vars, InHand
  <2>3. CASE Publish
    BY <2>3, PublishPromised
  <2>4. ASSUME NEW m \in Msgs, Deliver(m) PROVE UNCHANGED Fates
    <3>1. InHand' = InHand \cup {m} /\ m \in ready
      BY <2>4 DEF IInv, TypeOK, Deliver, InHand, First
    <3> QED BY <2>1, <2>4, <3>1, FatesKept DEF Deliver
  <2>5. ASSUME NEW m \in Msgs, Ack(m) PROVE Promise!Next
    BY <2>1, <2>5, AckPromised
  <2>6. ASSUME NEW m \in Msgs, Nack(m) PROVE UNCHANGED Fates
    <3>1. InHand' = InHand \ {m} /\ m \in InHand /\ ready' = ready \cup {m}
      BY <2>6 DEF IInv, TypeOK, Nack, InHand
    <3> QED BY <2>1, <2>6, <3>1, FatesKept DEF Nack
  <2>7. ASSUME NEW m \in Msgs, SendSkips(m) \/ SendCompletes(m) \/ SendThrows(m) PROVE UNCHANGED Fates
    <3>1. InHand' = InHand /\ UNCHANGED <<published, ready, acked>>
      BY <2>7 DEF IInv, TypeOK, SendSkips, SendCompletes, SendThrows, InHand
    <3> QED BY <2>1, <3>1, FatesKept
  <2>8. ASSUME NEW m \in Msgs, OrphanFinishes(m) PROVE UNCHANGED Fates
    BY <2>1, <2>8, FatesKept DEF OrphanFinishes, InHand
  <2>9. CASE ConnectionLost \/ Crash
    <3>1. Requeue
      BY <2>9 DEF ConnectionLost, Crash
    <3>2. InHand' = {} /\ ready' = ready \cup InHand /\ UNCHANGED <<published, acked>>
      BY <3>1 DEF Requeue, InHand
    <3> QED BY <2>1, <3>2, FatesKept
  <2> QED BY <2>2, <2>3, <2>4, <2>5, <2>6, <2>7, <2>8, <2>9 DEF Next, Handle
<1>4. IInv /\ PoisonUnsent /\ [Next]_vars => PoisonUnsent'
  BY PoisonStep DEF IInv
<1> QED BY <1>1, <1>2, <1>3, <1>4, Invariance, PTL DEF Spec, NotificationsEndOnce, Promise!Spec

-------------------------------------------------------------------------------
(* The window. *)

Poison == {m \in Msgs : Kind[m] = "poison"}

\* As long as a notification that can be sent is not acknowledged, such a one is in
\* the worker's hands, or the window is open and the broker has one to deliver.
NeverBlocked ==
  \A m \in Msgs : m <= published /\ m \notin Poison /\ m \notin acked =>
    \/ \E k \in InHand : k \notin Poison
    \/ Cardinality(InHand) < Prefetch /\ \E k \in Msgs : First(k)

LEMMA FirstExists == ASSUME TypeOK, ready # {} PROVE \E k \in Msgs : First(k)
<1>1. ready \subseteq Nat /\ ready \subseteq Msgs
  BY DEF TypeOK, Msgs
<1>2. PICK k \in ready : \A j \in ready : ~ (<<j, k>> \in OpToRel(<, Nat))
  BY <1>1, NatLessThanWellFounded, WFMin
<1>3. \A j \in ready : ~ (j < k)
  BY <1>1, <1>2 DEF OpToRel
<1> QED BY <1>1, <1>3 DEF First

\* Fewer poison messages than the window has places never close it: what HealthySettle
\* rests on, for any number of messages and losses (main.ts prefetchCount,
\* notification.controller.ts nack).
THEOREM WindowStaysOpen ==
  ASSUME Cardinality(Poison) < Prefetch
  PROVE  Spec => []NeverBlocked
<1>1. IInv => NeverBlocked
  <2> SUFFICES ASSUME IInv, NEW m \in Msgs, m <= published, m \notin Poison, m \notin acked,
                      InHand \subseteq Poison
               PROVE  Cardinality(InHand) < Prefetch /\ \E k \in Msgs : First(k)
    BY DEF NeverBlocked
  <2>1. IsFiniteSet(Poison) /\ Cardinality(Poison) \in Nat
    <3>1. IsFiniteSet(Msgs)
      BY NAssumption, FS_Interval DEF Msgs
    <3> QED BY <3>1, FS_Subset, FS_CardinalityType DEF Poison
  <2>2. Cardinality(InHand) <= Cardinality(Poison) /\ Cardinality(InHand) \in Nat
    BY <2>1, FS_Subset, FS_CardinalityType
  <2>3. Cardinality(InHand) < Prefetch
    BY <2>1, <2>2, PrefetchAssumption
  <2>4. m \in ready
    <3>1. m \in 1 .. published
      BY NAssumption DEF IInv, TypeOK, Msgs
    <3> QED BY <3>1 DEF IInv, OnePlace
  <2> QED BY <2>3, <2>4, FirstExists DEF IInv
<1> QED BY <1>1, Invariance, PTL

===============================================================================
