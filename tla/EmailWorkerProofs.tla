---------------------------- MODULE EmailWorkerProofs ----------------------------
(***************************************************************************)
(* Theorems about EmailWorker, for any workers, messages and recipients,   *)
(* and any number of crashes.                                              *)
(***************************************************************************)
EXTENDS EmailWorker, TLAPS

\* A message is in the queue, or in the hand of one worker, or in neither.
OnePlace == \A w \in Workers : \A m \in hand[w] :
              m \notin queue /\ \A v \in Workers : m \in hand[v] => v = w

\* A queued message was mailed to no one; one in hand to no one who is still due,
\* and all who are not due any more were served.
HandsSound ==
  /\ \A m \in queue : \A a \in To[m] : mails[m][a] = 0
  /\ \A w \in Workers : \A m \in hand[w] : \A a \in To[m] :
       IF a \in due[m] THEN mails[m][a] = 0 ELSE Served(m, a)

IInv == TypeOK /\ OnePlace /\ HandsSound /\ AtMostOnceExplained

LEMMA InitInv == Init => IInv
<1> SUFFICES ASSUME Init PROVE IInv
  OBVIOUS
<1>1. TypeOK
  BY EmailsAssumption DEF Init, TypeOK
<1>2. OnePlace /\ HandsSound
  BY DEF Init, OnePlace, HandsSound
<1>3. AtMostOnceExplained
  BY DEF Init, AtMostOnceExplained, Held
<1> QED BY <1>1, <1>2, <1>3 DEF IInv

LEMMA DeliverInv ==
  ASSUME IInv, NEW w \in Workers, NEW m \in Messages, Deliver(w, m)
  PROVE  IInv'
<1>1. /\ m \in queue /\ queue' = queue \ {m} /\ UNCHANGED <<mails, refused, lost, crashes>>
      /\ hand' = [hand EXCEPT ![w] = @ \cup {m}] /\ due' = [due EXCEPT ![m] = To[m]]
  BY DEF Deliver
<1>2. /\ \A v \in Workers : hand'[v] = IF v = w THEN hand[v] \cup {m} ELSE hand[v]
      /\ \A n \in Messages : due'[n] = IF n = m THEN To[m] ELSE due[n]
  BY <1>1 DEF IInv, TypeOK
<1>3. \A v \in Workers : m \notin hand[v]
  BY <1>1 DEF IInv, OnePlace
<1>4. TypeOK'
  <2>1. hand' \in [Workers -> SUBSET Messages] /\ DOMAIN due' = Messages
    BY <1>1 DEF IInv, TypeOK
  <2> QED BY <1>1, <1>2, <2>1 DEF IInv, TypeOK
<1>5. OnePlace'
  BY <1>1, <1>2, <1>3 DEF IInv, OnePlace
<1>6. HandsSound'
  <2>1. \A n \in queue' : \A a \in To[n] : mails[n][a] = 0
    BY <1>1 DEF IInv, HandsSound
  <2>2. SUFFICES ASSUME NEW v \in Workers, NEW n \in hand'[v], NEW a \in To[n]
                 PROVE  IF a \in due'[n] THEN mails[n][a] = 0 ELSE Served(n, a)
    BY <1>1, <2>1 DEF HandsSound, Served
  <2>3. CASE n = m
    BY <1>1, <1>2, <2>3 DEF IInv, HandsSound
  <2>4. CASE n # m
    <3>1. n \in hand[v] /\ n \in Messages
      BY <1>2, <2>4 DEF IInv, TypeOK
    <3> QED BY <1>2, <2>4, <3>1 DEF IInv, HandsSound
  <2> QED BY <2>3, <2>4
<1>7. AtMostOnceExplained'
  <2> SUFFICES ASSUME NEW n \in Messages, NEW a \in To[n]
               PROVE  /\ mails[n][a] <= 1
                      /\ ~Served(n, a) => Held(n)' \/ n \in lost
    BY <1>1 DEF AtMostOnceExplained, Served
  <2> QED BY <1>1, <1>2 DEF IInv, AtMostOnceExplained, Held
<1> QED BY <1>4, <1>5, <1>6, <1>7 DEF IInv

LEMMA SendEmailInv ==
  ASSUME IInv, NEW w \in Workers, NEW m \in Messages, NEW a \in To[m], SendEmail(w, m, a)
  PROVE  IInv'
<1>1. /\ m \in hand[w] /\ a \in due[m] /\ due' = [due EXCEPT ![m] = @ \ {a}]
      /\ UNCHANGED <<queue, hand, lost, crashes>>
      /\ \/ mails' = [mails EXCEPT ![m][a] = @ + 1] /\ UNCHANGED refused
         \/ refused' = [refused EXCEPT ![m] = @ \cup {a}] /\ UNCHANGED mails
  BY DEF SendEmail
<1>2. mails[m][a] = 0
  BY <1>1 DEF IInv, HandsSound
<1>3. /\ DOMAIN mails' = Messages /\ \A n \in Messages : mails'[n] \in [To[n] -> Nat]
      /\ \A n \in Messages : \A b \in To[n] :
           mails'[n][b] = mails[n][b] \/ (n = m /\ b = a /\ mails'[n][b] = 1)
  <2>1. CASE mails' = [mails EXCEPT ![m][a] = @ + 1]
    <3>1. mails'[m] = [mails[m] EXCEPT ![a] = @ + 1] /\ \A n \in Messages \ {m} : mails'[n] = mails[n]
      BY <2>1 DEF IInv, TypeOK
    <3>2. mails[m] \in [To[m] -> Nat]
      BY DEF IInv, TypeOK
    <3>3. mails'[m] \in [To[m] -> Nat] /\ mails'[m][a] = 1
      BY <1>2, <3>1, <3>2
    <3>4. \A b \in To[m] \ {a} : mails'[m][b] = mails[m][b]
      BY <3>1, <3>2
    <3> QED BY <2>1, <3>1, <3>3, <3>4 DEF IInv, TypeOK
  <2>2. CASE UNCHANGED mails
    BY <2>2 DEF IInv, TypeOK
  <2> QED BY <1>1, <2>1, <2>2
<1>4. /\ DOMAIN refused' = Messages /\ \A n \in Messages : refused'[n] \subseteq To[n]
      /\ \A n \in Messages : refused[n] \subseteq refused'[n]
  BY <1>1 DEF IInv, TypeOK
<1>5. /\ DOMAIN due' = Messages
      /\ \A n \in Messages : due'[n] = IF n = m THEN due[n] \ {a} ELSE due[n]
  BY <1>1 DEF IInv, TypeOK
<1>6. Served(m, a)'
  <2>1. CASE mails' = [mails EXCEPT ![m][a] = @ + 1]
    <3>1. mails'[m] = [mails[m] EXCEPT ![a] = @ + 1] /\ mails[m] \in [To[m] -> Nat]
      BY <2>1 DEF IInv, TypeOK
    <3> QED BY <1>2, <3>1 DEF Served
  <2>2. CASE refused' = [refused EXCEPT ![m] = @ \cup {a}]
    BY <2>2 DEF Served, IInv, TypeOK
  <2> QED BY <1>1, <2>1, <2>2
<1>7. \A n \in Messages : \A b \in To[n] : Served(n, b) => Served(n, b)'
  <2>1. \A n \in Messages : \A b \in To[n] : mails[n][b] > 0 => mails'[n][b] > 0
    BY <1>3
  <2> QED BY <1>4, <2>1 DEF Served
<1>8. TypeOK'
  BY <1>1, <1>3, <1>4, <1>5 DEF IInv, TypeOK
<1>9. OnePlace'
  BY <1>1 DEF IInv, OnePlace
<1>10. HandsSound'
  <2>1. m \notin queue
    BY <1>1 DEF IInv, OnePlace
  <2>2. \A n \in queue : \A b \in To[n] : mails'[n][b] = 0
    BY <1>3, <2>1 DEF IInv, HandsSound, TypeOK
  <2> SUFFICES ASSUME NEW v \in Workers, NEW n \in hand[v], NEW b \in To[n]
               PROVE  IF b \in due'[n] THEN mails'[n][b] = 0 ELSE Served(n, b)'
    BY <1>1, <2>2 DEF HandsSound
  <2>3. n \in Messages
    BY DEF IInv, TypeOK
  <2>4. IF b \in due[n] THEN mails[n][b] = 0 ELSE Served(n, b)
    BY DEF IInv, HandsSound
  <2> QED BY <1>3, <1>5, <1>6, <1>7, <2>3, <2>4
<1>11. AtMostOnceExplained'
  <2> SUFFICES ASSUME NEW n \in Messages, NEW b \in To[n]
               PROVE  /\ mails'[n][b] <= 1
                      /\ ~Served(n, b)' => Held(n) \/ n \in lost
    BY <1>1 DEF AtMostOnceExplained, Held
  <2>1. mails[n][b] <= 1 /\ (~Served(n, b) => Held(n) \/ n \in lost)
    BY DEF IInv, AtMostOnceExplained
  <2> QED BY <1>3, <1>7, <2>1
<1> QED BY <1>8, <1>9, <1>10, <1>11 DEF IInv

LEMMA FinishInv ==
  ASSUME IInv, NEW w \in Workers, NEW m \in Messages, Finish(w, m)
  PROVE  IInv'
<1>1. /\ m \in hand[w] /\ due[m] = {} /\ hand' = [hand EXCEPT ![w] = @ \ {m}]
      /\ UNCHANGED <<queue, due, mails, refused, lost, crashes>>
  BY DEF Finish, Settled
<1>2. \A v \in Workers : hand'[v] = IF v = w THEN hand[v] \ {m} ELSE hand[v]
  BY <1>1 DEF IInv, TypeOK
<1>3. \A a \in To[m] : Served(m, a)
  BY <1>1 DEF IInv, HandsSound
<1>4. TypeOK'
  BY <1>1 DEF IInv, TypeOK
<1>5. OnePlace' /\ HandsSound'
  BY <1>1, <1>2 DEF IInv, OnePlace, HandsSound, Served
<1>6. AtMostOnceExplained'
  BY <1>1, <1>2, <1>3 DEF IInv, AtMostOnceExplained, Served, Held
<1> QED BY <1>4, <1>5, <1>6 DEF IInv

LEMMA CrashInv == ASSUME IInv, NEW w \in Workers, Crash(w) PROVE IInv'
<1>1. /\ crashes < MaxCrashes /\ crashes' = crashes + 1 /\ lost' = lost \cup hand[w]
      /\ hand' = [hand EXCEPT ![w] = {}]
      /\ UNCHANGED <<queue, due, mails, refused>>
  BY DEF Crash, AfterCrash
<1>2. \A v \in Workers : hand'[v] = IF v = w THEN {} ELSE hand[v]
  BY <1>1 DEF IInv, TypeOK
<1>3. TypeOK'
  <2>1. hand' \in [Workers -> SUBSET Messages] /\ lost' \subseteq Messages
    BY <1>1 DEF IInv, TypeOK
  <2>2. crashes' \in 0 .. MaxCrashes
    BY <1>1, EmailsAssumption DEF IInv, TypeOK
  <2> QED BY <1>1, <2>1, <2>2 DEF IInv, TypeOK
<1>4. OnePlace' /\ HandsSound'
  BY <1>1, <1>2 DEF IInv, OnePlace, HandsSound, Served
<1>5. AtMostOnceExplained'
  BY <1>1, <1>2 DEF IInv, AtMostOnceExplained, Served, Held
<1> QED BY <1>3, <1>4, <1>5 DEF IInv

LEMMA NextInv == IInv /\ [Next]_vars => IInv'
<1> SUFFICES ASSUME IInv, [Next]_vars PROVE IInv'
  OBVIOUS
<1>1. CASE UNCHANGED vars
  BY <1>1 DEF vars, IInv, TypeOK, OnePlace, HandsSound, AtMostOnceExplained, Served, Held
<1>2. CASE Next
  <2> SUFFICES ASSUME NEW w \in Workers, Handle(w) \/ Crash(w) \/ \E m \in Messages : Deliver(w, m)
               PROVE  IInv'
    BY <1>2 DEF Next
  <2>1. CASE Handle(w)
    BY <2>1, FinishInv, SendEmailInv DEF Handle
  <2> QED BY <2>1, CrashInv, DeliverInv
<1> QED BY <1>1, <1>2

LEMMA Inductive == Spec => []IInv
<1> QED BY InitInv, NextInv, PTL DEF Spec

\* No recipient is mailed twice and none is forgotten but by a crash: the queue does
\* not wait for an acknowledgement, so that nothing is delivered again (main.ts of
\* the email worker, email.service.ts).
THEOREM MailsAtMostOnce == Spec => []AtMostOnceExplained
<1>1. IInv => AtMostOnceExplained
  BY DEF IInv
<1> QED BY <1>1, Inductive, PTL

\* What a worker has in hand is what its handlers work on: types, with each message's
\* recipients its own (email.controller.ts).
THEOREM TypeCorrect == Spec => []TypeOK
<1>1. IInv => TypeOK
  BY DEF IInv
<1> QED BY <1>1, Inductive, PTL

-------------------------------------------------------------------------------
(* EmailWorker implements Deliveries. *)

\* What a crash took is nowhere else, and who is still due was not refused.
Settling ==
  /\ \A m \in lost : m \notin queue /\ \A w \in Workers : m \notin hand[w]
  /\ \A m \in queue : refused[m] = {}
  /\ \A w \in Workers : \A m \in hand[w] : refused[m] \cap due[m] = {}

LEMMA SettlingStep == ASSUME IInv, Settling, [Next]_vars PROVE Settling'
<1>1. /\ OnePlace /\ hand \in [Workers -> SUBSET Messages]
      /\ DOMAIN due = Messages /\ DOMAIN refused = Messages
  BY DEF IInv, TypeOK
<1>2. ASSUME NEW w \in Workers, NEW m \in Messages, Deliver(w, m) PROVE Settling'
  <2>1. /\ m \in queue /\ queue' = queue \ {m} /\ UNCHANGED <<refused, lost>>
        /\ hand' = [hand EXCEPT ![w] = @ \cup {m}] /\ due' = [due EXCEPT ![m] = To[m]]
    BY <1>2 DEF Deliver
  <2>2. \A v \in Workers : hand'[v] = IF v = w THEN hand[v] \cup {m} ELSE hand[v]
    BY <1>1, <2>1
  <2>3. \A v \in Workers : m \notin hand[v] /\ hand[v] \subseteq Messages
    BY <1>1, <2>1 DEF OnePlace
  <2>4. \A n \in Messages \ {m} : due'[n] = due[n]
    BY <1>1, <2>1
  <2>5. m \notin lost /\ refused[m] = {}
    BY <2>1 DEF Settling
  <2>6. \A v \in Workers : \A n \in hand'[v] : refused'[n] \cap due'[n] = {}
    BY <2>1, <2>2, <2>3, <2>4, <2>5 DEF Settling
  <2>7. \A n \in lost' : n \notin queue' /\ \A v \in Workers : n \notin hand'[v]
    BY <2>1, <2>2, <2>5 DEF Settling
  <2> QED BY <2>1, <2>6, <2>7 DEF Settling
<1>3. ASSUME NEW w \in Workers, NEW m \in Messages, NEW a \in To[m], SendEmail(w, m, a) PROVE Settling'
  <2>1. /\ m \in hand[w] /\ due' = [due EXCEPT ![m] = @ \ {a}] /\ UNCHANGED <<queue, hand, lost>>
        /\ refused' = [refused EXCEPT ![m] = @ \cup {a}] \/ UNCHANGED refused
    BY <1>3 DEF SendEmail
  <2>2. m \notin queue
    BY <1>1, <2>1 DEF OnePlace
  <2>3. \A n \in Messages : IF n = m THEN due'[n] = due[n] \ {a} /\ refused'[n] \subseteq refused[n] \cup {a}
                                     ELSE due'[n] = due[n] /\ refused'[n] = refused[n]
    BY <1>1, <2>1
  <2>4. queue \subseteq Messages /\ \A v \in Workers : hand[v] \subseteq Messages
    BY <1>1 DEF IInv, TypeOK
  <2>5. \A n \in queue' : refused'[n] = {}
    BY <2>1, <2>2, <2>3, <2>4 DEF Settling
  <2>6. \A v \in Workers : \A n \in hand'[v] : refused'[n] \cap due'[n] = {}
    BY <2>1, <2>3, <2>4 DEF Settling
  <2> QED BY <2>1, <2>5, <2>6 DEF Settling
<1>4. ASSUME NEW w \in Workers, NEW m \in Messages, Finish(w, m) PROVE Settling'
  <2>1. hand' = [hand EXCEPT ![w] = @ \ {m}] /\ UNCHANGED <<queue, due, refused, lost>>
    BY <1>4 DEF Finish
  <2>2. \A v \in Workers : hand'[v] \subseteq hand[v]
    BY <1>1, <2>1
  <2> QED BY <2>1, <2>2 DEF Settling
<1>5. ASSUME NEW w \in Workers, Crash(w) PROVE Settling'
  <2>1. /\ lost' = lost \cup hand[w] /\ hand' = [hand EXCEPT ![w] = {}]
        /\ UNCHANGED <<queue, due, refused>>
    BY <1>5 DEF Crash, AfterCrash
  <2>2. \A v \in Workers : hand'[v] = IF v = w THEN {} ELSE hand[v]
    BY <1>1, <2>1
  <2>3. \A m \in hand[w] : m \notin queue /\ \A v \in Workers : m \in hand[v] => v = w
    BY <1>1 DEF OnePlace
  <2> QED BY <2>1, <2>2, <2>3 DEF Settling
<1>6. CASE UNCHANGED vars
  BY <1>6 DEF vars, Settling
<1> QED BY <1>2, <1>3, <1>4, <1>5, <1>6 DEF Next, Handle

\* A step after which every mail is what it was, or one that owed its end came to it.
LEMMA OneEnds ==
  ASSUME NEW i \in Mails, MailFates[i] = "owed", MailFates'[i] \in {"mailed", "refused"},
         \A j \in Mails \ {i} : MailFates'[j] = MailFates[j]
  PROVE  Promise!Next
<1>1. MailFates' = [j \in Mails |-> IF j \in {i} THEN MailFates'[i] ELSE MailFates[j]]
  BY DEF MailFates, Mails
<1>2. Promise!End(i, MailFates'[i])
  BY <1>1 DEF Promise!End, Promise!Become
<1> QED BY <1>2 DEF Promise!Next

LEMMA SameFates ==
  ASSUME \A m \in Messages : \A a \in To[m] : Fate(m, a)' = Fate(m, a)
  PROVE  UNCHANGED MailFates
<1>1. \A i \in Mails : i[1] \in Messages /\ i[2] \in To[i[1]]
  BY DEF Mails
<1> QED BY <1>1 DEF MailFates, Mails

\* A mail keeps its fate when it was served, or when its message is where it was.
LEMMA FateKept ==
  ASSUME NEW m, NEW a, mails'[m][a] = mails[m][a], refused'[m] = refused[m],
         \/ mails[m][a] \in Nat /\ Served(m, a) /\ mails[m][a] <= 1
         \/ (Held(m)' <=> Held(m)) /\ (m \in lost' <=> m \in lost)
  PROVE  Fate(m, a)' = Fate(m, a)
<1>1. CASE mails[m][a] \in Nat /\ Served(m, a) /\ mails[m][a] <= 1
  <2>1. mails[m][a] = 1 \/ (mails[m][a] = 0 /\ a \in refused[m])
    BY <1>1 DEF Served
  <2>2. CASE mails[m][a] = 1
    <3>1. Fate(m, a) = "mailed" /\ Fate(m, a)' = "mailed"
      BY <2>2 DEF Fate
    <3> QED BY <3>1
  <2>3. CASE mails[m][a] = 0 /\ a \in refused[m]
    <3>1. Fate(m, a) = "refused" /\ Fate(m, a)' = "refused"
      BY <2>3 DEF Fate
    <3> QED BY <3>1
  <2> QED BY <2>1, <2>2, <2>3
<1>2. CASE (Held(m)' <=> Held(m)) /\ (m \in lost' <=> m \in lost)
  BY <1>2 DEF Fate
<1> QED BY <1>1, <1>2

LEMMA FateOf ==
  ASSUME NEW i \in Mails
  PROVE  /\ i[1] \in Messages /\ i[2] \in To[i[1]]
         /\ MailFates[i] = Fate(i[1], i[2]) /\ MailFates'[i] = Fate(i[1], i[2])'
  BY DEF MailFates, Mails

LEMMA DeliverKeeps ==
  ASSUME IInv, NEW w \in Workers, NEW m \in Messages, Deliver(w, m)
  PROVE  UNCHANGED MailFates
<1>1. /\ m \in queue /\ queue' = queue \ {m} /\ UNCHANGED <<mails, refused, lost>>
      /\ hand' = [hand EXCEPT ![w] = @ \cup {m}]
  BY DEF Deliver
<1>2. \A v \in Workers : hand'[v] = IF v = w THEN hand[v] \cup {m} ELSE hand[v]
  BY <1>1 DEF IInv, TypeOK
<1>3. \A n \in Messages : Held(n)' <=> Held(n)
  BY <1>1, <1>2 DEF Held
<1> QED BY <1>1, <1>3, FateKept, SameFates

LEMMA SendEmailKeeps ==
  ASSUME IInv, Settling, NEW w \in Workers, NEW m \in Messages, NEW a \in To[m], SendEmail(w, m, a)
  PROVE  Promise!Next
<1> DEFINE i == <<m, a>>
<1>1. i \in Mails
  BY DEF Mails
<1>2. /\ m \in hand[w] /\ a \in due[m] /\ UNCHANGED <<queue, hand, lost>>
      /\ \/ mails' = [mails EXCEPT ![m][a] = @ + 1] /\ UNCHANGED refused
         \/ refused' = [refused EXCEPT ![m] = @ \cup {a}] /\ UNCHANGED mails
  BY DEF SendEmail
<1>3. mails[m][a] = 0 /\ a \notin refused[m]
  BY <1>2 DEF IInv, HandsSound, Settling
<1>4. Fate(m, a) = "owed"
  BY <1>2, <1>3 DEF Fate, Held
<1>5. /\ mails[m] \in [To[m] -> Nat] /\ refused[m] \subseteq To[m]
      /\ DOMAIN mails = Messages /\ DOMAIN refused = Messages
  BY DEF IInv, TypeOK
<1>6. Fate(m, a)' \in {"mailed", "refused"}
  <2>1. CASE mails' = [mails EXCEPT ![m][a] = @ + 1]
    <3>1. mails'[m][a] = 1
      BY <1>3, <1>5, <2>1
    <3> QED BY <3>1 DEF Fate
  <2>2. CASE refused' = [refused EXCEPT ![m] = @ \cup {a}] /\ UNCHANGED mails
    <3>1. a \in refused'[m] /\ mails'[m][a] = 0
      BY <1>3, <1>5, <2>2
    <3> QED BY <3>1 DEF Fate
  <2> QED BY <1>2, <2>1, <2>2
<1>7. ASSUME NEW j \in Mails \ {i} PROVE MailFates'[j] = MailFates[j]
  <2>1. j[1] \in Messages /\ j[2] \in To[j[1]] /\ ~ (j[1] = m /\ j[2] = a)
    BY <1>7 DEF Mails
  <2>2. mails'[j[1]][j[2]] = mails[j[1]][j[2]]
    <3>1. CASE mails' = [mails EXCEPT ![m][a] = @ + 1]
      BY <1>5, <2>1, <3>1
    <3> QED BY <1>2, <3>1
  <2>3. j[2] \in refused'[j[1]] <=> j[2] \in refused[j[1]]
    BY <1>2, <1>5, <2>1
  <2>4. Held(j[1])' <=> Held(j[1])
    BY <1>2 DEF Held
  <2>5. Fate(j[1], j[2])' = Fate(j[1], j[2])
    BY <1>2, <2>2, <2>3, <2>4 DEF Fate
  <2> QED BY <2>5, FateOf
<1>8. MailFates[i] = "owed" /\ MailFates'[i] \in {"mailed", "refused"}
  BY <1>1, <1>4, <1>6, FateOf
<1> QED BY <1>1, <1>7, <1>8, OneEnds

LEMMA FinishKeeps ==
  ASSUME IInv, NEW w \in Workers, NEW m \in Messages, Finish(w, m)
  PROVE  UNCHANGED MailFates
<1>1. /\ m \in hand[w] /\ due[m] = {} /\ hand' = [hand EXCEPT ![w] = @ \ {m}]
      /\ UNCHANGED <<queue, mails, refused, lost>>
  BY DEF Finish, Settled
<1>2. \A v \in Workers : hand'[v] = IF v = w THEN hand[v] \ {m} ELSE hand[v]
  BY <1>1 DEF IInv, TypeOK
<1>3. \A a \in To[m] : Served(m, a)
  BY <1>1 DEF IInv, HandsSound
<1>4. \A n \in Messages : mails[n] \in [To[n] -> Nat]
  BY DEF IInv, TypeOK
<1> SUFFICES ASSUME NEW n \in Messages, NEW a \in To[n] PROVE Fate(n, a)' = Fate(n, a)
  BY SameFates
<1>5. CASE n = m
  <2>1. mails[n][a] \in Nat /\ Served(n, a) /\ mails[n][a] <= 1
    BY <1>3, <1>4, <1>5 DEF IInv, AtMostOnceExplained
  <2> QED BY <1>1, <2>1, FateKept
<1>6. CASE n # m
  <2>1. Held(n)' <=> Held(n)
    BY <1>1, <1>2, <1>6 DEF Held
  <2> QED BY <1>1, <2>1, FateKept
<1> QED BY <1>5, <1>6

LEMMA CrashKeeps ==
  ASSUME IInv, NEW w \in Workers, Crash(w)
  PROVE  Promise!Next
<1> DEFINE S == {i \in Mails : i[1] \in hand[w] /\ ~Served(i[1], i[2])}
<1>1. /\ lost' = lost \cup hand[w] /\ hand' = [hand EXCEPT ![w] = {}]
      /\ UNCHANGED <<queue, mails, refused>>
  BY DEF Crash, AfterCrash
<1>2. \A v \in Workers : hand'[v] = IF v = w THEN {} ELSE hand[v]
  BY <1>1 DEF IInv, TypeOK
<1>3. \A m \in hand[w] : m \notin queue /\ \A v \in Workers : m \notin hand'[v]
  BY <1>2 DEF IInv, OnePlace
<1>4. ASSUME NEW i \in Mails
      PROVE  IF i \in S THEN MailFates[i] = "owed" /\ MailFates'[i] = "lost"
                        ELSE MailFates'[i] = MailFates[i]
  <2>1. i[1] \in Messages /\ i[2] \in To[i[1]]
    BY FateOf
  <2>2. mails[i[1]][i[2]] \in Nat
    BY <2>1 DEF IInv, TypeOK
  <2>3. CASE i \in S
    <3>1. mails[i[1]][i[2]] = 0 /\ i[2] \notin refused[i[1]] /\ i[1] \in hand[w]
      BY <2>2, <2>3 DEF Served
    <3>2. Fate(i[1], i[2]) = "owed" /\ Fate(i[1], i[2])' = "lost"
      BY <1>1, <1>3, <3>1 DEF Fate, Held
    <3> QED BY <2>3, <3>2, FateOf
  <2>4. CASE i[1] \in hand[w] /\ Served(i[1], i[2])
    <3>1. mails[i[1]][i[2]] <= 1
      BY <2>1 DEF IInv, AtMostOnceExplained
    <3>2. Fate(i[1], i[2])' = Fate(i[1], i[2])
      BY <1>1, <2>2, <2>4, <3>1, FateKept
    <3> QED BY <2>4, <3>2, FateOf
  <2>5. CASE i[1] \notin hand[w]
    <3>1. (Held(i[1])' <=> Held(i[1])) /\ (i[1] \in lost' <=> i[1] \in lost)
      BY <1>1, <1>2, <2>5 DEF Held
    <3>2. Fate(i[1], i[2])' = Fate(i[1], i[2])
      BY <1>1, <3>1, FateKept
    <3> QED BY <2>5, <3>2, FateOf
  <2> QED BY <2>3, <2>4, <2>5
<1>5. MailFates' = [i \in Mails |-> IF i \in S THEN "lost" ELSE MailFates[i]]
  <2>1. MailFates' = [i \in Mails |-> MailFates'[i]]
    BY DEF MailFates, Mails
  <2> QED BY <1>4, <2>1
<1>6. Promise!Lose(S)
  BY <1>4, <1>5 DEF Promise!Lose, Promise!Become
<1> QED BY <1>6 DEF Promise!Next

\* Each mail owed comes to one end and stays there, whatever workers, batches and
\* crashes there are: a crash takes mails, and gives none back (main.ts of the email
\* worker, email.controller.ts, email.service.ts).
THEOREM WorkersKeepPromise == Spec => MailsEndOnce
<1>1. Init => Settling
  BY DEF Init, Settling
<1>2. Init => Promise!Init
  <2> SUFFICES ASSUME Init PROVE \A i \in Mails : MailFates[i] = "owed"
    BY DEF Promise!Init, MailFates
  <2>1. \A m \in Messages : \A a \in To[m] : Fate(m, a) = "owed"
    BY DEF Init, Fate, Held
  <2> QED BY <2>1, FateOf
<1>3. IInv /\ Settling /\ [Next]_vars => [Promise!Next]_MailFates
  <2> SUFFICES ASSUME IInv, Settling, [Next]_vars PROVE Promise!Next \/ UNCHANGED MailFates
    OBVIOUS
  <2>1. CASE UNCHANGED vars
    BY <2>1, SameFates DEF vars, Fate, Held
  <2> QED BY <2>1, DeliverKeeps, SendEmailKeeps, FinishKeeps, CrashKeeps DEF Next, Handle
<1>4. IInv /\ Settling /\ [Next]_vars => Settling'
  BY SettlingStep
<1> QED BY <1>1, <1>2, <1>3, <1>4, Inductive, PTL DEF Spec, MailsEndOnce, Promise!Spec

===============================================================================
