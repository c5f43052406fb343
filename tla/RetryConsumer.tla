----------------------------- MODULE RetryConsumer -----------------------------
(***************************************************************************)
(* The RabbitMQ library (libs/rabbitmq): a confirming publisher, the       *)
(* topology every channel asserts when it (re)connects, and consumers that *)
(* run consumeWithRetry.                                                   *)
(*                                                                         *)
(* One consumer process per queue.  Its channel holds up to Prefetch       *)
(* unacknowledged deliveries, each handled by its own invocation of        *)
(* consumeWithRetry (a worker slot).  The broker processes what one        *)
(* channel sends in order, so a republished copy arrives before the ack    *)
(* that follows it; the connection can be lost in between, and the broker  *)
(* then returns every unacknowledged delivery to its queue.                *)
(*                                                                         *)
(* Data abstraction: the payload is the message's identity; of the headers *)
(* only x-attempt is kept; a queue is a bag, for no property is about the  *)
(* order of deliveries.                                                    *)
(***************************************************************************)
EXTENDS Naturals, FiniteSets, Sequences

CONSTANTS
  Msgs,         \* messages the publisher publishes
  Queues,       \* queues bound to the topic exchange
  Publisher,    \* the publishing process, which declares no queue
  RoutesTo,     \* the queues whose binding key matches each message's routing key
  Expiring,     \* the messages published with an `expiration`
  MaxAttempts,  \* consumeWithRetry's maxAttempts
  Prefetch,     \* the channel's prefetch count
  MaxLosses     \* bound on the connection losses of a behaviour

ASSUME RoutesAssumption == RoutesTo \in [Msgs -> SUBSET Queues]
ASSUME ExpiringAssumption == Expiring \subseteq Msgs
ASSUME MaxAttemptsAssumption == MaxAttempts \in Nat \ {0}
ASSUME PrefetchAssumption == Prefetch \in Nat \ {0}
ASSUME MaxLossesAssumption == MaxLosses \in Nat
ASSUME PublisherAssumption == Publisher \notin Queues

VARIABLES
  declared,   \* what exists in the broker; durable, so it never goes away
  step,       \* how far each process is in assertTopology
  pub,        \* the publisher's view of each message
  ready,      \* ready[q][m][a]: copies of m with x-attempt a waiting in q
  work,       \* work[q][w]: what worker slot w of q's consumer is doing
  done,       \* done[q][m]: deliveries of m that q's handler completed and acked
  dlq,        \* dlq[q][m]: copies of m dead-lettered from q
  failures,   \* history: handler failures of m, counted up to MaxAttempts
  owed,       \* history: <<q, m>> when a publish put m in q
  losses      \* connection losses so far

vars == <<declared, step, pub, ready, work, done, dlq, failures, owed, losses>>

Clients == Queues \cup {Publisher}
Attempts == 0 .. MaxAttempts - 1
Workers == 1 .. Prefetch

-------------------------------------------------------------------------------
(* Topology: the calls of assertTopology, in order.  A process that owns a  *)
(* queue declares it with dead-letter exchange dlx and binds it last.       *)

Common == << <<"exchange", Publisher>>, <<"dlx", Publisher>>,
             <<"dlq", Publisher>>, <<"dlq binding", Publisher>> >>

\* Faulty variant: every process declares a queue, the publisher too.
SetupOrder_EveryoneOwnsAQueue(c) == Common \o << <<"queue", c>>, <<"binding", c>> >>

SetupOrder(c) ==
  IF c = Publisher THEN Common ELSE Common \o << <<"queue", c>>, <<"binding", c>> >>

Up(c) == step[c] = Len(SetupOrder(c))

Bound(q) == <<"binding", q>> \in declared
DlqBound == <<"dlq binding", Publisher>> \in declared

\* The next call of assertTopology on the channel of process c.
AssertTopology(c) ==
  /\ ~Up(c)
  /\ declared' = declared \cup {SetupOrder(c)[step[c] + 1]}
  /\ step' = [step EXCEPT ![c] = @ + 1]
  /\ UNCHANGED <<pub, ready, work, done, dlq, failures, owed, losses>>

-------------------------------------------------------------------------------
(* The broker's routing. *)

\* The topic exchange puts a copy in every bound queue whose key matches.
Receives(q, m) == q \in RoutesTo[m] /\ Bound(q)

Routed(m, a) ==
  [q \in Queues |-> IF Receives(q, m) THEN [ready[q] EXCEPT ![m][a] = @ + 1] ELSE ready[q]]

\* Faulty variant: queues are declared without a dead-letter exchange.
DeadLetter_NoExchange(q, m) == UNCHANGED dlq

\* What is dead-lettered goes through dlx to the DLQ, or nowhere without a binding.
DeadLetter(q, m) == dlq' = IF DlqBound THEN [dlq EXCEPT ![q][m] = @ + 1] ELSE dlq

-------------------------------------------------------------------------------
(* The publisher. *)

\* channel.publish: accepted by the broker; the confirm is still to come.
Publish(m) ==
  /\ Up(Publisher)
  /\ pub[m] = "unsent"
  /\ pub' = [pub EXCEPT ![m] = "sent"]
  /\ ready' = Routed(m, 0)
  /\ owed' = owed \cup {<<q, m>> : q \in {q \in Queues : Receives(q, m)}}
  /\ UNCHANGED <<declared, step, work, done, dlq, failures, losses>>

Confirm(m) ==
  /\ pub[m] = "sent"
  /\ pub' = [pub EXCEPT ![m] = "confirmed"]
  /\ UNCHANGED <<declared, step, ready, work, done, dlq, failures, owed, losses>>

\* The publisher reconnects: setup runs again, and amqp-connection-manager sends
\* again what was not confirmed.
PublisherReconnects ==
  /\ losses < MaxLosses
  /\ losses' = losses + 1
  /\ step' = [step EXCEPT ![Publisher] = 0]
  /\ pub' = [m \in Msgs |-> IF pub[m] = "sent" THEN "unsent" ELSE pub[m]]
  /\ UNCHANGED <<declared, ready, work, done, dlq, failures, owed>>

\* A message whose expiration passes while it waits is dead-lettered.
Expire(q, m, a) ==
  /\ m \in Expiring
  /\ ready[q][m][a] > 0
  /\ ready' = [ready EXCEPT ![q][m][a] = @ - 1]
  /\ DeadLetter(q, m)
  /\ UNCHANGED <<declared, step, pub, work, done, failures, owed, losses>>

-------------------------------------------------------------------------------
(* A consumer. *)

Idle == [stage |-> "idle"]
Stages == {"handling", "acking", "republishing", "settled by retry", "rejecting"}
Delivery == [stage : Stages, msg : Msgs, attempt : Attempts]

Busy(q, w) == work[q][w].stage # "idle"
At(q, w, stage) == work[q][w].stage = stage

MoveTo(q, w, stage) == work' = [work EXCEPT ![q][w].stage = stage]
Release(q, w) == work' = [work EXCEPT ![q][w] = Idle]

\* basic.deliver, as long as the channel holds fewer than Prefetch.
Deliver(q, w, m, a) ==
  /\ Up(q)
  /\ ~Busy(q, w)
  /\ ready[q][m][a] > 0
  /\ ready' = [ready EXCEPT ![q][m][a] = @ - 1]
  /\ work' = [work EXCEPT ![q][w] = [stage |-> "handling", msg |-> m, attempt |-> a]]
  /\ UNCHANGED <<declared, step, pub, done, dlq, failures, owed, losses>>

HandlerSucceeds(q, w) ==
  /\ At(q, w, "handling")
  /\ MoveTo(q, w, "acking")
  /\ UNCHANGED <<declared, step, pub, ready, done, dlq, failures, owed, losses>>

\* Faulty variant: one attempt too few.
GivesUp_Early(attempt) == attempt + 2 >= MaxAttempts

\* The last attempt that fails is rejected without requeue, the others go back
\* to the exchange.
GivesUp(attempt) == attempt + 1 >= MaxAttempts

HandlerFails(q, w) ==
  /\ At(q, w, "handling")
  /\ MoveTo(q, w, IF GivesUp(work[q][w].attempt) THEN "rejecting" ELSE "republishing")
  /\ failures' = [failures EXCEPT ![work[q][w].msg] = IF @ < MaxAttempts THEN @ + 1 ELSE @]
  /\ UNCHANGED <<declared, step, pub, ready, done, dlq, owed, losses>>

\* channel.ack after the handler returned.
Ack(q, w) ==
  /\ At(q, w, "acking")
  /\ Release(q, w)
  /\ done' = [done EXCEPT ![q][work[q][w].msg] = @ + 1]
  /\ UNCHANGED <<declared, step, pub, ready, dlq, failures, owed, losses>>

\* channel.nack(message, false, false).
Reject(q, w) ==
  /\ At(q, w, "rejecting")
  /\ Release(q, w)
  /\ DeadLetter(q, work[q][w].msg)
  /\ UNCHANGED <<declared, step, pub, ready, done, failures, owed, losses>>

\* channel.publish(message.fields.exchange, ...) with x-attempt one higher ...
Republish(q, w) ==
  /\ At(q, w, "republishing")
  /\ ready' = Routed(work[q][w].msg, work[q][w].attempt + 1)
  /\ MoveTo(q, w, "settled by retry")
  /\ UNCHANGED <<declared, step, pub, done, dlq, failures, owed, losses>>

\* Faulty variants: the original is never acked; it is requeued as well.
AckOriginal_Forgotten(q, w) == FALSE

AckOriginal_Requeues(q, w) ==
  /\ At(q, w, "settled by retry")
  /\ Release(q, w)
  /\ ready' = [ready EXCEPT ![q][work[q][w].msg][work[q][w].attempt] = @ + 1]
  /\ UNCHANGED <<declared, step, pub, done, dlq, failures, owed, losses>>

\* ... and only then channel.ack of the original.
AckOriginal(q, w) ==
  /\ At(q, w, "settled by retry")
  /\ Release(q, w)
  /\ UNCHANGED <<declared, step, pub, ready, done, dlq, failures, owed, losses>>

\* The process dies or its connection is lost: unacknowledged deliveries are
\* ready again as they were, and what handlers do from now on reaches a closed
\* channel only.  The process reconnects and runs the setup again.
Unacked(q, m, a) == {w \in Workers : Busy(q, w) /\ work[q][w].msg = m /\ work[q][w].attempt = a}

ConsumerReconnects(q) ==
  /\ losses < MaxLosses
  /\ losses' = losses + 1
  /\ step' = [step EXCEPT ![q] = 0]
  /\ ready' = [ready EXCEPT ![q] =
       [m \in Msgs |-> [a \in Attempts |-> ready[q][m][a] + Cardinality(Unacked(q, m, a))]]]
  /\ work' = [work EXCEPT ![q] = [w \in Workers |-> Idle]]
  /\ UNCHANGED <<declared, pub, done, dlq, failures, owed>>

-------------------------------------------------------------------------------
Init ==
  /\ declared = {}
  /\ step = [c \in Clients |-> 0]
  /\ pub = [m \in Msgs |-> "unsent"]
  /\ ready = [q \in Queues |-> [m \in Msgs |-> [a \in Attempts |-> 0]]]
  /\ work = [q \in Queues |-> [w \in Workers |-> Idle]]
  /\ done = [q \in Queues |-> [m \in Msgs |-> 0]]
  /\ dlq = [q \in Queues |-> [m \in Msgs |-> 0]]
  /\ failures = [m \in Msgs |-> 0]
  /\ owed = {}
  /\ losses = 0

Consume(q) ==
  \E w \in Workers :
    \/ \E m \in Msgs, a \in Attempts : Deliver(q, w, m, a)
    \/ HandlerSucceeds(q, w)
    \/ HandlerFails(q, w)
    \/ Ack(q, w)
    \/ Reject(q, w)
    \/ Republish(q, w)
    \/ AckOriginal(q, w)

Next ==
  \/ \E c \in Clients : AssertTopology(c)
  \/ \E m \in Msgs : Publish(m) \/ Confirm(m)
  \/ PublisherReconnects
  \/ \E q \in Queues : \/ Consume(q)
                       \/ ConsumerReconnects(q)
                       \/ \E m \in Msgs, a \in Attempts : Expire(q, m, a)

Spec == Init /\ [][Next]_vars

\* Connections come back, channels deliver, and handlers settle: each process
\* that can make a step eventually makes one.
FairSpec ==
  Spec /\ \A q \in Queues : WF_vars(AssertTopology(q)) /\ WF_vars(Consume(q))

-------------------------------------------------------------------------------
(* Properties. *)

TypeOK ==
  /\ declared \subseteq {"exchange", "dlx", "dlq", "dlq binding", "queue", "binding"} \X Clients
  /\ step \in [Clients -> 0 .. 6] /\ step[Publisher] <= 4
  /\ pub \in [Msgs -> {"unsent", "sent", "confirmed"}]
  /\ ready \in [Queues -> [Msgs -> [Attempts -> Nat]]]
  /\ work \in [Queues -> [Workers -> {Idle} \cup Delivery]]
  /\ done \in [Queues -> [Msgs -> Nat]]
  /\ dlq \in [Queues -> [Msgs -> Nat]]
  /\ failures \in [Msgs -> 0 .. MaxAttempts]
  /\ owed \subseteq Queues \X Msgs
  /\ losses \in 0 .. MaxLosses

Waiting(q, m) == \E a \in Attempts : ready[q][m][a] > 0
InHand(q, m) == \E w \in Workers : Busy(q, w) /\ work[q][w].msg = m

\* Once a publish put a message in a queue, that queue still holds it, its
\* handler completed it, or it is in the dead-letter queue: whatever handlers
\* throw and wherever connections break (republish before ack, manual
\* ack, the DLQ asserted by every process before it publishes).
NoLoss ==
  \A q \in Queues, m \in Msgs : <<q, m>> \in owed =>
    Waiting(q, m) \/ InHand(q, m) \/ done[q][m] > 0 \/ dlq[q][m] > 0

\* x-attempt never runs ahead of the failures there were, and a message that did
\* not expire is dead-lettered only after MaxAttempts of them: redeliveries after
\* a crash and duplicate publishes do not use up attempts.
AttemptsAreFailures ==
  \A q \in Queues, m \in Msgs :
    /\ \A a \in Attempts : ready[q][m][a] > 0 => a <= failures[m]
    /\ \A w \in Workers : Busy(q, w) /\ work[q][w].msg = m => work[q][w].attempt <= failures[m]
    /\ dlq[q][m] > 0 => m \in Expiring \/ failures[m] = MaxAttempts

\* Retrying ends: once connections hold, every queue is drained, although each
\* retry goes through the exchange and may multiply (the attempt counter is what
\* stops poison loops).
Drained == \A q \in Queues, m \in Msgs : ~Waiting(q, m) /\ ~InHand(q, m)

RetriesEnd == <>[]Drained

\* Without connection losses every copy has exactly one fate in a queue that
\* shares its routing key with no other.
Copies(q, m) ==
  LET held == {w \in Workers : Busy(q, w) /\ work[q][w].msg = m /\ ~At(q, w, "settled by retry")}
      waiting == {a \in Attempts : ready[q][m][a] > 0}
  IN  Cardinality(waiting) + Cardinality(held) + done[q][m] + dlq[q][m]

OneFate ==
  \A q \in Queues, m \in Msgs : <<q, m>> \in owed =>
    /\ Copies(q, m) = 1
    /\ \A a \in Attempts : ready[q][m][a] <= 1

\* A retry goes back to the queue whose handler failed: with no connection lost,
\* a queue completes a message at most once per publish.
RetryStaysInQueue ==
  \A q \in Queues, m \in Msgs : done[q][m] <= 1

\* What became of m in queue q.
Outcome(q, m) ==
  IF Copies(q, m) # (IF <<q, m>> \in owed THEN 1 ELSE 0) THEN "copied"
  ELSE IF <<q, m>> \notin owed THEN "absent"
  ELSE IF done[q][m] > 0 THEN "completed"
  ELSE IF dlq[q][m] > 0 THEN "dead"
  ELSE "owed"

Outcomes == [i \in Queues \X Msgs |-> Outcome(i[1], i[2])]

Promise == INSTANCE Deliveries WITH
  Items <- Queues \X Msgs, Losable <- {}, fate <- Outcomes,
  Ends <- [i \in Queues \X Msgs |-> {"completed", "dead"}]

\* While connections hold, retrying is invisible but for the time it takes: each
\* message a queue was sent is completed once or ends in the DLQ, and is not seen
\* again, in the queues of its key that share it with no other (consumeWithRetry).
RetriesEndOnce == Promise!Spec

===============================================================================
