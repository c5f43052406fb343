------------------------------ MODULE EmailWorker ------------------------------
(***************************************************************************)
(* The email workers: instances that consume one durable queue without     *)
(* acknowledging, for the consumer is declared without noAck: false and    *)
(* Nest's default is that the broker forgets a message when it delivers    *)
(* it.  A message is one mail to each of its addresses: one for            *)
(* email.send, any number for email.send_batch.                            *)
(***************************************************************************)
EXTENDS Naturals, FiniteSets

CONSTANTS
  Workers,
  Messages,
  To,           \* To[m]: the addresses of m
  MaxCrashes    \* bound on workers that die

ASSUME EmailsAssumption == MaxCrashes \in Nat

VARIABLES
  queue,        \* messages in the queue
  hand,         \* hand[w]: messages whose handler runs in w
  due,          \* due[m]: the addresses the handler of m has not served yet
  mails,        \* mails[m][a]: how often m was mailed to a
  refused,      \* refused[m]: addresses the provider refused
  lost,         \* history: messages a worker died with
  crashes

vars == <<queue, hand, due, mails, refused, lost, crashes>>

Init == /\ queue = Messages
        /\ hand = [w \in Workers |-> {}]
        /\ due = [m \in Messages |-> {}]
        /\ mails = [m \in Messages |-> [a \in To[m] |-> 0]]
        /\ refused = [m \in Messages |-> {}]
        /\ lost = {} /\ crashes = 0

\* The broker does not wait for handlers, nor for the prefetch of 5, which counts
\* unacknowledged messages only.
Deliver(w, m) ==
  /\ m \in queue
  /\ queue' = queue \ {m}
  /\ hand' = [hand EXCEPT ![w] = @ \cup {m}]
  /\ due' = [due EXCEPT ![m] = To[m]]
  /\ UNCHANGED <<mails, refused, lost, crashes>>

\* sendEmail for one address, which the mails of a batch do in any order.  The
\* provider is still a timer in the code: it may accept or refuse.
SendEmail(w, m, a) ==
  /\ m \in hand[w] /\ a \in due[m]
  /\ due' = [due EXCEPT ![m] = @ \ {a}]
  /\ \/ mails' = [mails EXCEPT ![m][a] = @ + 1] /\ UNCHANGED refused
     \/ refused' = [refused EXCEPT ![m] = @ \cup {a}] /\ UNCHANGED mails
  /\ UNCHANGED <<queue, hand, lost, crashes>>

\* allSettled: the handler of a batch ends when every mail was sent or refused,
\* and counts them; that of a single mail throws, to no one, when it was refused.
Settled_FirstRefusal(m) == due[m] = {} \/ refused[m] # {}
Settled(m) == due[m] = {}

Finish(w, m) ==
  /\ m \in hand[w] /\ Settled(m)
  /\ hand' = [hand EXCEPT ![w] = @ \ {m}]
  /\ UNCHANGED <<queue, due, mails, refused, lost, crashes>>

\* What is in the queue after w died: not what w had in hand.
AfterCrash_Redeliver(w) == queue \cup hand[w]
AfterCrash(w) == queue

Crash(w) ==
  /\ crashes < MaxCrashes
  /\ crashes' = crashes + 1
  /\ queue' = AfterCrash(w)
  /\ lost' = lost \cup hand[w]
  /\ hand' = [hand EXCEPT ![w] = {}]
  /\ UNCHANGED <<due, mails, refused>>

Handle(w) == \E m \in Messages : \/ Finish(w, m)
                                 \/ \E a \in To[m] : SendEmail(w, m, a)

Next == \E w \in Workers : Handle(w) \/ Crash(w) \/ \E m \in Messages : Deliver(w, m)

Spec == Init /\ [][Next]_vars

\* A connected consumer is sent what is queued, and its handlers run on.
FairSpec == /\ Spec
            /\ WF_vars(\E w \in Workers, m \in Messages : Deliver(w, m))
            /\ \A w \in Workers : WF_vars(Handle(w))

-------------------------------------------------------------------------------
(* Properties. *)

TypeOK ==
  /\ queue \subseteq Messages /\ lost \subseteq Messages
  /\ hand \in [Workers -> SUBSET Messages]
  /\ DOMAIN due = Messages /\ DOMAIN mails = Messages /\ DOMAIN refused = Messages
  /\ \A m \in Messages : /\ due[m] \subseteq To[m] /\ refused[m] \subseteq To[m]
                         /\ mails[m] \in [To[m] -> Nat]
  /\ crashes \in 0 .. MaxCrashes

Held(m) == m \in queue \/ \E w \in Workers : m \in hand[w]
Served(m, a) == mails[m][a] > 0 \/ a \in refused[m]

\* No mail goes out twice, whatever dies; and one that went out to no one is
\* queued, in hand, refused, or died with its worker (email.service.ts, main.ts).
AtMostOnceExplained ==
  \A m \in Messages : \A a \in To[m] :
    /\ mails[m][a] <= 1
    /\ ~Served(m, a) => Held(m) \/ m \in lost

\* The recipients of a message that no crash took are all served in the end,
\* those after a refused one too (Promise.allSettled).
EmailsSettle == \A m \in Messages : \A a \in To[m] : <>(Served(m, a) \/ m \in lost)

\* What became of the mail of m to a.
Fate(m, a) ==
  IF mails[m][a] > 1 THEN "mailed again"
  ELSE IF mails[m][a] = 1 THEN "mailed"
  ELSE IF a \in refused[m] THEN "refused"
  ELSE IF Held(m) THEN "owed"
  ELSE IF m \in lost THEN "lost"
  ELSE "forgotten"

Mails == UNION {{m} \X To[m] : m \in Messages}

MailFates == [i \in Mails |-> Fate(i[1], i[2])]

Promise == INSTANCE Deliveries WITH
  Items <- Mails, Losable <- Mails, fate <- MailFates,
  Ends <- [i \in Mails |-> {"mailed", "refused"}]

\* Every mail has one end: sent once, refused, or lost with its worker, and nothing
\* afterwards, a redelivery, a retry or a second handler, changes that (main.ts,
\* email.controller.ts, email.service.ts).
MailsEndOnce == Promise!Spec

===============================================================================
