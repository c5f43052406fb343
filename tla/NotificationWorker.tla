-------------------------- MODULE NotificationWorker --------------------------
(***************************************************************************)
(* The notification worker: one process consuming notification.queue with  *)
(* manual acknowledgement and a prefetch window (apps/notification-worker).*)
(*                                                                         *)
(* Each delivery is handled by its own asynchronous call, so up to Prefetch*)
(* of them are between `await send` and ack or nack at once.  A message    *)
(* whose handler throws is requeued; RabbitMQ puts it back at its original *)
(* place, in front of everything published after it.  Messages are         *)
(* therefore numbered in publication order, the queue is a set of numbers, *)
(* and the broker delivers the smallest.                                   *)
(*                                                                         *)
(* Data abstraction: of a payload only what NotificationService.send       *)
(* branches on is kept, its Kind.                                          *)
(***************************************************************************)
EXTENDS Naturals, FiniteSets

CONSTANTS
  N,           \* messages published: 1 .. N, in this order
  Kind,        \* what each payload is
  Prefetch,    \* the prefetch option of the worker's transport
  MaxOutages,  \* bound on failures of a provider for payloads it can send
  MaxLosses    \* bound on connection losses and crashes

Msgs == 1 .. N

\* "external": e-mail, push or SMS with a recipient.  "in-app": a websocket
\* emission.  "no recipient" and "no strategy": what send() returns from early.
\* "poison": the provider refuses it every time.
Kinds == {"external", "in-app", "no recipient", "no strategy", "poison"}

ASSUME NAssumption == N \in Nat
ASSUME KindAssumption == Kind \in [Msgs -> Kinds]
ASSUME PrefetchAssumption == Prefetch \in Nat \ {0}
ASSUME BoundsAssumption == MaxOutages \in Nat /\ MaxLosses \in Nat

VARIABLES
  published,   \* how many messages have been published
  ready,       \* the messages waiting in the queue
  hand,        \* what the worker is doing with each message delivered to it
  orphans,     \* calls still sending for a channel that is gone
  acked,       \* messages acknowledged: the broker has forgotten them
  sent,        \* history: how often each message reached its provider or room
  failed,      \* history: handler failures after the provider had the message
  outages, losses

vars == <<published, ready, hand, orphans, acked, sent, failed, outages, losses>>

InHand == {m \in Msgs : hand[m] # "none"}

\* The first message of the queue.
First(m) == m \in ready /\ \A k \in ready : m <= k

SkippedBySend(m) == Kind[m] \in {"no recipient", "no strategy"}

-------------------------------------------------------------------------------
Init ==
  /\ published = 0
  /\ ready = {}
  /\ hand = [m \in Msgs |-> "none"]
  /\ orphans = [m \in Msgs |-> 0]
  /\ acked = {}
  /\ sent = [m \in Msgs |-> 0]
  /\ failed = [m \in Msgs |-> 0]
  /\ outages = 0
  /\ losses = 0

Publish ==
  /\ published < N
  /\ published' = published + 1
  /\ ready' = ready \cup {published + 1}
  /\ UNCHANGED <<hand, orphans, acked, sent, failed, outages, losses>>

\* The broker delivers the first message while the window is open.
Deliver(m) ==
  /\ First(m)
  /\ Cardinality(InHand) < Prefetch
  /\ ready' = ready \ {m}
  /\ hand' = [hand EXCEPT ![m] = "sending"]
  /\ UNCHANGED <<published, orphans, acked, sent, failed, outages, losses>>

\* NotificationService.send returns at once: no strategy for the channel, or the
\* strategy finds no recipient in the payload.
SendSkips(m) ==
  /\ hand[m] = "sending"
  /\ SkippedBySend(m)
  /\ hand' = [hand EXCEPT ![m] = "acking"]
  /\ UNCHANGED <<published, ready, orphans, acked, sent, failed, outages, losses>>

\* The strategy's send completes.
SendCompletes(m) ==
  /\ hand[m] = "sending"
  /\ Kind[m] \in {"external", "in-app"}
  /\ hand' = [hand EXCEPT ![m] = "acking"]
  /\ sent' = [sent EXCEPT ![m] = @ + 1]
  /\ UNCHANGED <<published, ready, orphans, acked, failed, outages, losses>>

\* The strategy's send throws.  The provider may have accepted the message and
\* its answer been lost; a poison message is never accepted.
SendThrows(m) ==
  /\ hand[m] = "sending"
  /\ hand' = [hand EXCEPT ![m] = "nacking"]
  /\ \/ /\ Kind[m] = "poison"
        /\ UNCHANGED <<sent, failed, outages>>
     \/ /\ Kind[m] = "external"
        /\ outages < MaxOutages
        /\ outages' = outages + 1
        /\ \/ UNCHANGED <<sent, failed>>
           \/ /\ sent' = [sent EXCEPT ![m] = @ + 1]
              /\ failed' = [failed EXCEPT ![m] = @ + 1]
  /\ UNCHANGED <<published, ready, orphans, acked, losses>>

\* Faulty variant: the message is requeued although it was sent.
Ack_Requeues(m) ==
  /\ hand[m] = "acking"
  /\ hand' = [hand EXCEPT ![m] = "none"]
  /\ ready' = ready \cup {m}
  /\ UNCHANGED <<published, orphans, acked, sent, failed, outages, losses>>

\* channel.ack(originalMsg).
Ack(m) ==
  /\ hand[m] = "acking"
  /\ hand' = [hand EXCEPT ![m] = "none"]
  /\ acked' = acked \cup {m}
  /\ UNCHANGED <<published, ready, orphans, sent, failed, outages, losses>>

\* Faulty variants: nack without requeue, on a queue that has no dead-letter
\* exchange; a failed send acknowledged.
Nack_Drops(m) ==
  /\ hand[m] = "nacking"
  /\ hand' = [hand EXCEPT ![m] = "none"]
  /\ UNCHANGED <<published, ready, orphans, acked, sent, failed, outages, losses>>

Nack_Acks(m) ==
  /\ hand[m] = "nacking"
  /\ hand' = [hand EXCEPT ![m] = "none"]
  /\ acked' = acked \cup {m}
  /\ UNCHANGED <<published, ready, orphans, sent, failed, outages, losses>>

\* channel.nack(originalMsg, false, true).
Nack(m) ==
  /\ hand[m] = "nacking"
  /\ hand' = [hand EXCEPT ![m] = "none"]
  /\ ready' = ready \cup {m}
  /\ UNCHANGED <<published, orphans, acked, sent, failed, outages, losses>>

\* The connection or the process is lost: the broker requeues every delivery that
\* was not acknowledged.
Requeue ==
  /\ losses < MaxLosses
  /\ losses' = losses + 1
  /\ ready' = ready \cup InHand
  /\ hand' = [m \in Msgs |-> "none"]
  /\ UNCHANGED <<published, acked, sent, failed, outages>>

\* With the connection gone the calls go on; their ack or nack will reach a
\* closed channel only.  With the process gone they are gone too.
ConnectionLost ==
  /\ Requeue
  /\ orphans' = [m \in Msgs |-> IF hand[m] = "sending" THEN orphans[m] + 1 ELSE orphans[m]]

Crash ==
  /\ Requeue
  /\ orphans' = [m \in Msgs |-> 0]

\* Faulty variant: a call that was never made finishes.
OrphanFinishes_Unasked(m) ==
  /\ orphans' = [orphans EXCEPT ![m] = @ - 1]
  /\ UNCHANGED <<published, ready, hand, acked, sent, failed, outages, losses>>

\* A call whose channel is gone finishes: sent, or not.
OrphanFinishes(m) ==
  /\ orphans[m] > 0
  /\ orphans' = [orphans EXCEPT ![m] = @ - 1]
  /\ \/ /\ Kind[m] \in {"external", "in-app"}
        /\ sent' = [sent EXCEPT ![m] = @ + 1]
     \/ /\ Kind[m] # "in-app"
        /\ UNCHANGED sent
  /\ UNCHANGED <<published, ready, hand, acked, failed, outages, losses>>

Handle(m) == SendSkips(m) \/ SendCompletes(m) \/ SendThrows(m) \/ Ack(m) \/ Nack(m)

Next ==
  \/ Publish
  \/ \E m \in Msgs : Deliver(m) \/ Handle(m) \/ OrphanFinishes(m)
  \/ ConnectionLost
  \/ Crash

Spec == Init /\ [][Next]_vars

\* Handlers and acknowledgements go on.  The broker fills the window without
\* waiting for the worker: a message that is first in the queue again and again
\* while the window is open is delivered.
Fairness == \A m \in Msgs : SF_vars(Deliver(m)) /\ WF_vars(Handle(m))

FairSpec == Spec /\ Fairness

-------------------------------------------------------------------------------
(* Properties. *)

TypeOK ==
  /\ published \in 0 .. N
  /\ ready \subseteq Msgs
  /\ hand \in [Msgs -> {"none", "sending", "acking", "nacking"}]
  /\ orphans \in [Msgs -> Nat]
  /\ acked \subseteq Msgs
  /\ sent \in [Msgs -> Nat]
  /\ failed \in [Msgs -> Nat]
  /\ outages \in 0 .. MaxOutages
  /\ losses \in 0 .. MaxLosses

\* A published message is in exactly one place: waiting in the queue, in the
\* worker's hands, or acknowledged.  No crash, failure or lost connection makes
\* the broker forget one, and none is handled twice at the same time on the
\* channel (controller ack after send, nack with requeue).
OnePlace ==
  /\ ready \cup InHand \cup acked = 1 .. published
  /\ ready \cap InHand = {}
  /\ ready \cap acked = {}
  /\ InHand \cap acked = {}

\* What is acknowledged was handed to its provider, unless send() had nothing to
\* do for it: in particular a poison message is never acknowledged.
AckedMeansSent ==
  \A m \in acked : sent[m] > 0 \/ SkippedBySend(m)

\* A recipient gets a notification more than once only through a lost connection,
\* a crash, or a provider that failed after accepting.
DuplicatesExplained ==
  \A m \in Msgs : sent[m] <= 1 + losses + failed[m]

\* Poison messages are requeued in front of the others, but as long as there are
\* fewer of them than the window has places every other message gets through.
HealthySettle ==
  \A m \in Msgs : published >= m /\ Kind[m] # "poison" ~> m \in acked

\* What became of the notification m.
Fate(m) ==
  IF m > published THEN "absent"
  ELSE IF m \in ready \cup InHand THEN "owed"
  ELSE IF m \notin acked THEN "forgotten"
  ELSE IF SkippedBySend(m) THEN "skipped"
  ELSE IF sent[m] > 0 THEN "sent" ELSE "dropped"

Fates == [m \in Msgs |-> Fate(m)]

Promise == INSTANCE Deliveries WITH
  Items <- Msgs, Losable <- {}, fate <- Fates,
  Ends <- [m \in Msgs |-> IF SkippedBySend(m) THEN {"skipped"}
                         ELSE IF Kind[m] = "poison" THEN {} ELSE {"sent"}]

\* Nothing published is lost, to crashes either: a notification stays owed until it
\* was sent, or until send() found nothing to do for it, and is then done with for
\* good; a poison message is owed for ever (notification.controller.ts).
NotificationsEndOnce == Promise!Spec

===============================================================================
