---------------------------- MODULE DocumentsProofs ----------------------------
(***************************************************************************)
(* Theorems about Documents, for any users, documents, pages and limits,   *)
(* any number of overlapping requests, and any number of faults; and about *)
(* the pages of Pagination, for any total and limit.                       *)
(***************************************************************************)
EXTENDS Documents, Pagination, FiniteSetTheorems, TLAPS

Steps == {"none", "sent", "counting", "replied", "threw"}
Lists == {"findByUser", "findMarked"}
Open == {r \in Requests : arg[r] # None}

\* What a call in flight holds: the payload its handler needs.
CallSound(r) ==
  /\ arg[r].op = "create" => arg[r].user \in Users /\ arg[r].body \in NewBodies
  /\ arg[r].op = "update" => arg[r].user \in Users /\ arg[r].body \in Bodies
  /\ at[r] = "counting" => arg[r].op \in Lists

CallsSound == \A r \in Requests : IF arg[r] = None THEN answer[r] = NoAnswer ELSE CallSound(r)

\* What the histories of deletions hold is deleted: what is restored leaves them.
Hidden(i) == i \in Stored /\ docs[i].deleted
DeletionsLast == /\ \A i \in deletions : Hidden(i)
                 /\ \A r \in Requests : \A i \in gone[r] : Hidden(i)

\* Between the two queries, the page is that of the total to come.
PagesAgree ==
  \A r \in Requests :
    at[r] = "counting" /\ r \notin disturbed
      => Cardinality(answer[r].items) = PageSize(Cardinality(Matching(arg[r])), arg[r].skip, arg[r].limit)

Finite == IsFiniteSet(Open) /\ IsFiniteSet(Stored)

\* The calls to create a document for u: those the service has not carried out yet,
\* and those carried out of which u is still to be told.
Mine(r, u) == arg[r].op = "create" /\ arg[r].user = u
Unborn(u) == {r \in Requests : at[r] = "sent" /\ Mine(r, u)}
Owed(u) == {r \in waiting : at[r] = "replied" /\ Mine(r, u)}

\* Each document is one of an answered or a pending call; each acknowledgement given
\* or owed is one of a document.
Balanced ==
  \A u \in Users :
    /\ acked[u] + Cardinality(Owed(u)) <= Cardinality(Copies(u))
    /\ Cardinality(Copies(u)) + Cardinality(Unborn(u))
         <= acked[u] + refused[u] + Cardinality(Pending(u))

IInv == /\ TypeOK /\ CallsSound /\ DeletionsLast /\ ListsForgetDeleted
        /\ PagesAgree /\ ListsAgree /\ Finite /\ Balanced

-------------------------------------------------------------------------------
(* Sets that differ in one element. *)

Bit(b) == IF b THEN 1 ELSE 0

LEMMA OneElement ==
  ASSUME NEW S, NEW T, NEW x, IsFiniteSet(S), S \ {x} = T \ {x}
  PROVE  /\ IsFiniteSet(T) /\ Cardinality(S) \in Nat /\ Cardinality(T) \in Nat
         /\ Cardinality(T) + Bit(x \in S) = Cardinality(S) + Bit(x \in T)
<1> DEFINE R == S \ {x}
<1>1. IsFiniteSet(R) /\ Cardinality(R) \in Nat
  BY FS_RemoveElement, FS_CardinalityType
<1>2. IsFiniteSet(R \cup {x}) /\ Cardinality(R \cup {x}) = Cardinality(R) + 1
  BY <1>1, FS_AddElement
<1>3. /\ x \in S => S = R \cup {x}
      /\ x \notin S => S = R
      /\ x \in T => T = R \cup {x}
      /\ x \notin T => T = R
  OBVIOUS
<1> HIDE DEF R
<1>4. Cardinality(S) = Cardinality(R) + Bit(x \in S)
  <2>1. CASE x \in S
    BY <1>2, <1>3, <2>1 DEF Bit
  <2>2. CASE x \notin S
    BY <1>1, <1>3, <2>2 DEF Bit
  <2> QED BY <2>1, <2>2
<1>5. IsFiniteSet(T) /\ Cardinality(T) = Cardinality(R) + Bit(x \in T)
  <2>1. CASE x \in T
    BY <1>2, <1>3, <2>1 DEF Bit
  <2>2. CASE x \notin T
    BY <1>1, <1>3, <2>2 DEF Bit
  <2> QED BY <2>1, <2>2
<1>6. Bit(x \in S) \in Nat /\ Bit(x \in T) \in Nat
  BY DEF Bit
<1> QED BY <1>1, <1>4, <1>5, <1>6

\* The sets of Balanced are finite.
LEMMA CountsFinite ==
  ASSUME IInv, NEW u \in Users
  PROVE  /\ IsFiniteSet(Copies(u)) /\ IsFiniteSet(Unborn(u))
         /\ IsFiniteSet(Pending(u)) /\ IsFiniteSet(Owed(u))
         /\ Cardinality(Copies(u)) \in Nat /\ Cardinality(Unborn(u)) \in Nat
         /\ Cardinality(Pending(u)) \in Nat /\ Cardinality(Owed(u)) \in Nat
<1>1. Copies(u) \subseteq Stored
  BY DEF Copies
<1>2. Unborn(u) \subseteq Open /\ Pending(u) \subseteq Open /\ Owed(u) \subseteq Open
  <2>1. waiting \subseteq Requests /\ \A r \in Requests : arg[r] = None => at[r] = "none" /\ r \notin waiting
    BY DEF IInv, TypeOK
  <2>2. Unborn(u) \subseteq Open
    BY <2>1 DEF Unborn, Open
  <2>3. Pending(u) \subseteq Open
    BY <2>1 DEF Pending, Open
  <2>4. Owed(u) \subseteq Open
    BY <2>1 DEF Owed, Open
  <2> QED BY <2>2, <2>3, <2>4
<1>3. IsFiniteSet(Copies(u)) /\ IsFiniteSet(Unborn(u)) /\ IsFiniteSet(Pending(u)) /\ IsFiniteSet(Owed(u))
  BY <1>1, <1>2, FS_Subset DEF IInv, Finite
<1> QED BY <1>3, FS_CardinalityType

\* Only call r moves, and the documents' creators stay.
LEMMA BalanceKept ==
  ASSUME IInv, NEW r \in Requests,
         \A q \in Requests \ {r} : at'[q] = at[q] /\ arg'[q] = arg[q] /\ (q \in waiting' <=> q \in waiting),
         waiting' \subseteq Requests,
         NEW u \in Users,
         Copies(u)' = Copies(u),
         acked'[u] \in Nat, refused'[u] \in Nat,
         acked'[u] + Bit(r \in Owed(u)') <= acked[u] + Bit(r \in Owed(u)),
         acked[u] + refused[u] + Bit(r \in Pending(u)) + Bit(r \in Unborn(u)')
           <= acked'[u] + refused'[u] + Bit(r \in Pending(u)') + Bit(r \in Unborn(u))
  PROVE  /\ acked'[u] + Cardinality(Owed(u)') <= Cardinality(Copies(u)')
         /\ Cardinality(Copies(u)') + Cardinality(Unborn(u)')
              <= acked'[u] + refused'[u] + Cardinality(Pending(u)')
<1>1. /\ Unborn(u) \ {r} = Unborn(u)' \ {r}
      /\ Pending(u) \ {r} = Pending(u)' \ {r}
      /\ Owed(u) \ {r} = Owed(u)' \ {r}
  BY DEF Unborn, Pending, Owed, Mine, IInv, TypeOK
<1>2. /\ IsFiniteSet(Unborn(u)) /\ IsFiniteSet(Pending(u)) /\ IsFiniteSet(Owed(u))
      /\ Cardinality(Copies(u)) \in Nat
  BY CountsFinite
<1>3. /\ Cardinality(Unborn(u)) \in Nat /\ Cardinality(Unborn(u)') \in Nat
      /\ Cardinality(Unborn(u)') + Bit(r \in Unborn(u)) = Cardinality(Unborn(u)) + Bit(r \in Unborn(u)')
  BY <1>1, <1>2, OneElement
<1>4. /\ Cardinality(Pending(u)) \in Nat /\ Cardinality(Pending(u)') \in Nat
      /\ Cardinality(Pending(u)') + Bit(r \in Pending(u)) = Cardinality(Pending(u)) + Bit(r \in Pending(u)')
  BY <1>1, <1>2, OneElement
<1>5. /\ Cardinality(Owed(u)) \in Nat /\ Cardinality(Owed(u)') \in Nat
      /\ Cardinality(Owed(u)') + Bit(r \in Owed(u)) = Cardinality(Owed(u)) + Bit(r \in Owed(u)')
  BY <1>1, <1>2, OneElement
<1>6. acked[u] \in Nat /\ refused[u] \in Nat
  BY DEF IInv, TypeOK
<1>7. /\ acked[u] + Cardinality(Owed(u)) <= Cardinality(Copies(u))
      /\ Cardinality(Copies(u)) + Cardinality(Unborn(u)) <= acked[u] + refused[u] + Cardinality(Pending(u))
  BY DEF IInv, Balanced
<1>8. acked'[u] + Cardinality(Owed(u)') <= Cardinality(Copies(u))
  BY <1>2, <1>5, <1>6, <1>7 DEF Bit
<1>9. Cardinality(Copies(u)) + Cardinality(Unborn(u)') <= acked'[u] + refused'[u] + Cardinality(Pending(u)')
  BY <1>2, <1>3, <1>4, <1>6, <1>7 DEF Bit
<1> QED BY <1>8, <1>9

-------------------------------------------------------------------------------

LEMMA InitInv == Init => IInv
<1> SUFFICES ASSUME Init PROVE IInv
  OBVIOUS
<1>1. Stored = {} /\ Open = {}
  BY DEF Init, Stored, Open
<1>2. TypeOK
  BY CallsAssumption DEF Init, CallsInit, TypeOK, NoAnswer
<1>3. CallsSound /\ DeletionsLast /\ ListsForgetDeleted /\ PagesAgree /\ ListsAgree
  BY DEF Init, CallsInit, CallsSound, DeletionsLast, ListsForgetDeleted, PagesAgree, ListsAgree, NoAnswer
<1>4. Finite
  BY <1>1, FS_EmptySet DEF Finite
<1>5. Balanced
  <2> SUFFICES ASSUME NEW u \in Users
               PROVE  /\ acked[u] + Cardinality(Owed(u)) <= Cardinality(Copies(u))
                      /\ Cardinality(Copies(u)) + Cardinality(Unborn(u))
                           <= acked[u] + refused[u] + Cardinality(Pending(u))
    BY DEF Balanced
  <2>1. Owed(u) = {} /\ Copies(u) = {} /\ Unborn(u) = {} /\ Pending(u) = {} /\ acked[u] = 0 /\ refused[u] = 0
    BY <1>1 DEF Owed, Copies, Unborn, Pending, Init, CallsInit
  <2> QED BY <2>1, FS_EmptySet
<1> QED BY <1>2, <1>3, <1>4, <1>5 DEF IInv

-------------------------------------------------------------------------------
(* Which calls reach a handler. *)

LEMMA HandlerOps ==
  ASSUME NEW r \in Requests
  PROVE  /\ Handler(r, "create") => arg[r].op = "create"
         /\ Handler(r, "findById") => arg[r].op = "findById"
         /\ Handler(r, "update") => arg[r].op = "update"
         /\ Handler(r, "delete") => arg[r].op = "delete"
         /\ Handler(r, "findByUser") => arg[r].op = "findByUser"
         /\ Handler(r, "findMarked") => arg[r].op = "findMarked"
<1> DEFINE G == TodosGateway \cup TodosInternal
           C == TodosController
<1>1. \A h : Handler(r, h) => \E p : <<arg[r].op, p>> \in G /\ <<p, h>> \in C
  <2> SUFFICES ASSUME NEW h, Handler(r, h) PROVE \E p : <<arg[r].op, p>> \in G /\ <<p, h>> \in C
    OBVIOUS
  <2>1. PICK gc \in G \X C : gc[1][2] = gc[2][1] /\ <<arg[r].op, h>> = <<gc[1][1], gc[2][2]>>
    BY DEF Handler, TodoRoutes, Routes
  <2>2. gc[1] \in G /\ gc[2] \in C
    BY <2>1
  <2>3. gc[1] = <<gc[1][1], gc[1][2]>>
    BY <2>2 DEF TodosGateway, TodosInternal
  <2>4. gc[2] = <<gc[2][1], gc[2][2]>>
    BY <2>2 DEF TodosController
  <2> QED BY <2>1, <2>2, <2>3, <2>4
<1> QED BY <1>1 DEF TodosGateway, TodosInternal, TodosController

-------------------------------------------------------------------------------
(* Steps that change no document. *)

\* A step of call r to s: it fails, a find by id answers, or the gateway or the
\* service has done with it.
LEMMA CloseStep ==
  ASSUME IInv, NEW r \in Requests, arg[r] # None,
         NEW s \in Steps, at' = [at EXCEPT ![r] = s],
         s = at[r] \/ s \in {"none", "threw"} \/ (s = "replied" /\ arg[r].op = "findById"),
         UNCHANGED docs, waiting' = waiting \/ waiting' = waiting \ {r},
         IF s = "none" /\ r \notin waiting'
           THEN /\ arg' = [arg EXCEPT ![r] = None]
                /\ answer' = [answer EXCEPT ![r] = NoAnswer]
                /\ gone' = [gone EXCEPT ![r] = {}]
                /\ disturbed' = disturbed \ {r}
           ELSE UNCHANGED <<arg, answer, gone, disturbed>>,
         calls' \in 0 .. MaxCalls, faults' \in 0 .. MaxFaults,
         deletions' \subseteq deletions \cup gone[r],
         acked' \in [Users -> Nat], refused' \in [Users -> Nat],
         \A u \in Users :
           /\ acked'[u] + Bit(r \in Owed(u)') <= acked[u] + Bit(r \in Owed(u))
           /\ acked[u] + refused[u] + Bit(r \in Pending(u)) + Bit(r \in Unborn(u)')
                <= acked'[u] + refused'[u] + Bit(r \in Pending(u)') + Bit(r \in Unborn(u))
  PROVE  IInv'
<1> DEFINE closed == s = "none" /\ r \notin waiting'
<1>1. /\ at'[r] = s /\ \A q \in Requests \ {r} : at'[q] = at[q]
      /\ at' \in [Requests -> Steps]
  BY DEF IInv, TypeOK, Steps
<1>2. /\ arg'[r] = (IF closed THEN None ELSE arg[r]) /\ \A q \in Requests \ {r} : arg'[q] = arg[q]
      /\ arg' \in [Requests -> Payload \cup {None}]
  BY DEF IInv, TypeOK
<1>3. /\ answer'[r] = (IF closed THEN NoAnswer ELSE answer[r])
      /\ \A q \in Requests \ {r} : answer'[q] = answer[q]
      /\ answer' \in [Requests -> [items : SUBSET Ids, total : Nat]]
  <2>1. NoAnswer \in [items : SUBSET Ids, total : Nat]
    BY DEF NoAnswer
  <2>2. answer \in [Requests -> [items : SUBSET Ids, total : Nat]]
    BY DEF IInv, TypeOK
  <2> QED BY <2>1, <2>2
<1>4. /\ disturbed' \subseteq Requests /\ \A q \in Requests \ {r} : q \in disturbed => q \in disturbed'
      /\ ~closed => disturbed' = disturbed
  BY DEF IInv, TypeOK
<1>5. waiting' \subseteq Requests /\ \A q \in Requests \ {r} : q \in waiting' <=> q \in waiting
  BY DEF IInv, TypeOK
<1>6. /\ deletions' \subseteq Ids /\ gone' \in [Requests -> SUBSET Ids]
      /\ \A q \in Requests : gone'[q] \subseteq gone[q]
  BY DEF IInv, TypeOK
<1>7. Stored' = Stored /\ docs' = docs
  BY DEF Stored
<1>8. \A q \in Requests : arg'[q] # None => arg'[q] = arg[q] /\ answer'[q] = answer[q]
  BY <1>2, <1>3
<1>9. \A q \in Requests : at'[q] # "none" => (q = r /\ s # at[r]) \/ at'[q] = at[q]
  BY <1>1
<1> HIDE DEF closed
<1>10. TypeOK'
  <2>1. \A q \in Requests : arg'[q] = None <=> at'[q] = "none" /\ q \notin waiting'
    BY <1>1, <1>2, <1>5 DEF IInv, TypeOK, closed
  <2> QED BY <1>1, <1>2, <1>3, <1>4, <1>5, <1>6, <2>1 DEF IInv, TypeOK, Steps
<1>11. CallsSound'
  <2> SUFFICES ASSUME NEW q \in Requests
               PROVE  IF arg'[q] = None THEN answer'[q] = NoAnswer ELSE CallSound(q)'
    BY DEF CallsSound, NoAnswer
  <2>1. CASE arg'[q] = None
    BY <1>2, <1>3, <2>1 DEF IInv, CallsSound
  <2>2. CASE arg'[q] # None
    <3>1. arg'[q] = arg[q] /\ CallSound(q)
      BY <1>8, <2>2 DEF IInv, CallsSound
    <3>2. at'[q] = "counting" => at[q] = "counting"
      BY <1>1
    <3> QED BY <2>2, <3>1, <3>2 DEF CallSound
  <2> QED BY <2>1, <2>2
<1>12. DeletionsLast' /\ ListsForgetDeleted'
  <2>1. \A i : Hidden(i)' <=> Hidden(i)
    BY <1>7 DEF Hidden
  <2>2. DeletionsLast'
    BY <1>6, <2>1 DEF IInv, DeletionsLast
  <2>3. ListsForgetDeleted'
    BY <1>6, <1>8 DEF IInv, ListsForgetDeleted
  <2> QED BY <2>2, <2>3
<1>13. \A q \in Requests : at'[q] \in {"counting", "replied"} => arg'[q] = arg[q] /\ answer'[q] = answer[q]
  BY <1>1, <1>2, <1>3 DEF closed
<1>14. \A q \in Requests : at'[q] \in {"counting", "replied"} /\ q \notin disturbed' => q \notin disturbed
  BY <1>1, <1>4 DEF closed
<1>15. PagesAgree'
  <2> SUFFICES ASSUME NEW q \in Requests, at'[q] = "counting", q \notin disturbed'
               PROVE  Cardinality(answer'[q].items)
                        = PageSize(Cardinality(Matching(arg[q])'), arg'[q].skip, arg'[q].limit)
    BY DEF PagesAgree
  <2>1. at[q] = "counting" /\ q \notin disturbed /\ arg'[q] = arg[q] /\ answer'[q] = answer[q]
    BY <1>1, <1>13, <1>14
  <2>2. Cardinality(answer[q].items) = PageSize(Cardinality(Matching(arg[q])), arg[q].skip, arg[q].limit)
    BY <2>1 DEF IInv, PagesAgree
  <2>3. Matching(arg[q])' = Matching(arg[q])
    BY <1>7, <2>1 DEF Matching
  <2> QED BY <2>1, <2>2, <2>3
<1>16. ListsAgree'
  <2> SUFFICES ASSUME NEW q \in Requests, at'[q] = "replied", arg'[q].op \in Lists, q \notin disturbed'
               PROVE  Cardinality(answer'[q].items) = PageSize(answer'[q].total, arg'[q].skip, arg'[q].limit)
    BY DEF ListsAgree, Lists
  <2>1. at[q] = "replied" /\ q \notin disturbed /\ arg'[q] = arg[q] /\ answer'[q] = answer[q]
    BY <1>1, <1>13, <1>14 DEF Lists
  <2> QED BY <2>1 DEF IInv, ListsAgree, Lists
<1>17. Finite'
  <2>1. Open' \subseteq Open
    BY <1>2 DEF Open
  <2> QED BY <1>7, <2>1, FS_Subset DEF IInv, Finite
<1>18. Balanced'
  <2> SUFFICES ASSUME NEW u \in Users
               PROVE  /\ acked'[u] + Cardinality(Owed(u)') <= Cardinality(Copies(u)')
                      /\ Cardinality(Copies(u)') + Cardinality(Unborn(u)')
                           <= acked'[u] + refused'[u] + Cardinality(Pending(u)')
    BY DEF Balanced
  <2>1. Copies(u)' = Copies(u) /\ acked'[u] \in Nat /\ refused'[u] \in Nat
    BY <1>7 DEF Copies
  <2> QED BY <1>1, <1>2, <1>5, <2>1, BalanceKept
<1> QED BY <1>10, <1>11, <1>12, <1>15, <1>16, <1>17, <1>18 DEF IInv

\* The counts of the users move as the client of r is told.
LEMMA ToldCounts ==
  ASSUME IInv, NEW r \in Requests, arg[r] # None, NEW ok \in BOOLEAN, Told(r, ok)
  PROVE  /\ acked' \in [Users -> Nat] /\ refused' \in [Users -> Nat]
         /\ \A u \in Users : /\ acked'[u] = acked[u] + Bit(ok /\ Mine(r, u))
                             /\ refused'[u] = refused[u] + Bit(~ok /\ Mine(r, u))
<1>1. arg[r].op = "create" => arg[r].user \in Users
  BY DEF IInv, CallsSound, CallSound
<1>2. acked \in [Users -> Nat] /\ refused \in [Users -> Nat]
  BY DEF IInv, TypeOK
<1>3. CASE arg[r].op # "create"
  <2>1. acked' = acked /\ refused' = refused
    BY <1>3 DEF Told
  <2> QED BY <1>2, <1>3, <2>1 DEF Bit, Mine
<1>4. CASE arg[r].op = "create" /\ ok
  <2>1. acked' = [acked EXCEPT ![arg[r].user] = @ + 1] /\ refused' = refused
    BY <1>4 DEF Told
  <2> QED BY <1>1, <1>2, <1>4, <2>1 DEF Bit, Mine
<1>5. CASE arg[r].op = "create" /\ ~ok
  <2>1. refused' = [refused EXCEPT ![arg[r].user] = @ + 1] /\ acked' = acked
    BY <1>5 DEF Told
  <2> QED BY <1>1, <1>2, <1>5, <2>1 DEF Bit, Mine
<1> QED BY <1>3, <1>4, <1>5

LEMMA DeliverInv == ASSUME IInv, NEW r \in Requests, Deliver(r) PROVE IInv'
<1>1. /\ r \in waiting /\ at[r] \in {"replied", "threw"} /\ waiting' = waiting \ {r}
      /\ at' = [at EXCEPT ![r] = "none"] /\ UNCHANGED <<calls, faults, docs>>
  BY DEF Deliver, Answer, Done, Step
<1>2. at'[r] = "none" /\ arg[r] # None /\ CallSound(r)
  BY <1>1 DEF IInv, TypeOK, CallsSound
<1>3. /\ arg' = [arg EXCEPT ![r] = None]
      /\ answer' = [answer EXCEPT ![r] = NoAnswer]
      /\ gone' = [gone EXCEPT ![r] = {}]
      /\ disturbed' = disturbed \ {r}
  BY <1>1, <1>2 DEF Deliver, Forget
<1>4. Told(r, at[r] = "replied")
  BY DEF Deliver
<1>5. /\ acked' \in [Users -> Nat] /\ refused' \in [Users -> Nat]
      /\ \A u \in Users : /\ acked'[u] = acked[u] + Bit(at[r] = "replied" /\ Mine(r, u))
                          /\ refused'[u] = refused[u] + Bit(at[r] # "replied" /\ Mine(r, u))
  BY <1>2, <1>4, ToldCounts
<1>6. \A u \in Users :
        /\ acked'[u] + Bit(r \in Owed(u)') <= acked[u] + Bit(r \in Owed(u))
        /\ acked[u] + refused[u] + Bit(r \in Pending(u)) + Bit(r \in Unborn(u)')
             <= acked'[u] + refused'[u] + Bit(r \in Pending(u)') + Bit(r \in Unborn(u))
  <2> TAKE u \in Users
  <2>1. acked[u] \in Nat /\ refused[u] \in Nat
    BY DEF IInv, TypeOK
  <2>2. /\ r \notin Owed(u)' /\ (r \in Owed(u) <=> at[r] = "replied" /\ Mine(r, u))
        /\ r \notin Pending(u)' /\ (r \in Pending(u) <=> Mine(r, u))
        /\ r \notin Unborn(u)' /\ r \notin Unborn(u)
    BY <1>1, <1>2 DEF Owed, Pending, Unborn, Mine
  <2> QED BY <1>5, <2>1, <2>2 DEF Bit
<1>7. deletions' = IF at[r] = "replied" /\ arg[r].op = "delete" THEN deletions \cup gone[r] ELSE deletions
  BY <1>4 DEF Told
<1>8. deletions' \subseteq deletions \cup gone[r]
  BY <1>7
<1>9. calls' \in 0 .. MaxCalls /\ faults' \in 0 .. MaxFaults /\ "none" \in Steps
  BY <1>1 DEF IInv, TypeOK, Steps
<1>10. IF "none" = "none" /\ r \notin waiting'
         THEN /\ arg' = [arg EXCEPT ![r] = None]
              /\ answer' = [answer EXCEPT ![r] = NoAnswer]
              /\ gone' = [gone EXCEPT ![r] = {}]
              /\ disturbed' = disturbed \ {r}
         ELSE UNCHANGED <<arg, answer, gone, disturbed>>
  BY <1>1, <1>3
<1> QED BY <1>1, <1>2, <1>5, <1>6, <1>8, <1>9, <1>10, CloseStep

LEMMA TimeoutInv == ASSUME IInv, NEW r \in Requests, Timeout(r) PROVE IInv'
<1>1. r \in waiting /\ waiting' = waiting \ {r} /\ UNCHANGED <<at, calls, faults, docs>>
  BY DEF Timeout, GiveUp
<1>2. arg[r] # None /\ at[r] \in Steps /\ at' = [at EXCEPT ![r] = at[r]] /\ at'[r] = at[r]
  BY <1>1 DEF IInv, TypeOK, Steps
<1>3. IF at[r] = "none" /\ r \notin waiting'
        THEN /\ arg' = [arg EXCEPT ![r] = None]
             /\ answer' = [answer EXCEPT ![r] = NoAnswer]
             /\ gone' = [gone EXCEPT ![r] = {}]
             /\ disturbed' = disturbed \ {r}
        ELSE UNCHANGED <<arg, answer, gone, disturbed>>
  BY <1>1, <1>2 DEF Timeout, Forget
<1>4. Told(r, FALSE)
  BY DEF Timeout
<1>5. /\ acked' \in [Users -> Nat] /\ refused' \in [Users -> Nat]
      /\ \A u \in Users : acked'[u] = acked[u] + Bit(FALSE /\ Mine(r, u))
                          /\ refused'[u] = refused[u] + Bit(~FALSE /\ Mine(r, u))
  BY <1>2, <1>4, ToldCounts
<1>6. \A u \in Users :
        /\ acked'[u] + Bit(r \in Owed(u)') <= acked[u] + Bit(r \in Owed(u))
        /\ acked[u] + refused[u] + Bit(r \in Pending(u)) + Bit(r \in Unborn(u)')
             <= acked'[u] + refused'[u] + Bit(r \in Pending(u)') + Bit(r \in Unborn(u))
  <2> TAKE u \in Users
  <2>1. acked[u] \in Nat /\ refused[u] \in Nat
    BY DEF IInv, TypeOK
  <2>2. /\ r \notin Owed(u)' /\ r \notin Pending(u)'
        /\ (r \in Pending(u) <=> Mine(r, u))
    BY <1>1, <1>2 DEF Owed, Pending, Mine
  <2>3. r \in Unborn(u)' => r \in Unborn(u)
    <3>1. CASE at[r] = "none"
      BY <1>2, <3>1 DEF Unborn
    <3>2. CASE at[r] # "none"
      BY <1>2, <1>3, <3>2 DEF Unborn, Mine
    <3> QED BY <3>1, <3>2
  <2> QED BY <1>5, <2>1, <2>2, <2>3 DEF Bit
<1>7. deletions' = deletions
  BY <1>4 DEF Told
<1>8. calls' \in 0 .. MaxCalls /\ faults' \in 0 .. MaxFaults
  BY <1>1 DEF IInv, TypeOK
<1> QED BY <1>1, <1>2, <1>3, <1>5, <1>6, <1>7, <1>8, CloseStep

\* A step that tells a client nothing, and does not let the service forget a
\* creation that it still owes.
LEMMA SilentStep ==
  ASSUME IInv, NEW r \in Requests, at[r] # "none",
         NEW s \in {"none", "threw", "replied"}, at' = [at EXCEPT ![r] = s],
         s = "replied" => arg[r].op = "findById",
         UNCHANGED <<docs, waiting, calls, acked, refused, deletions>>,
         IF s = "none" /\ r \notin waiting'
           THEN /\ arg' = [arg EXCEPT ![r] = None]
                /\ answer' = [answer EXCEPT ![r] = NoAnswer]
                /\ gone' = [gone EXCEPT ![r] = {}]
                /\ disturbed' = disturbed \ {r}
           ELSE UNCHANGED <<arg, answer, gone, disturbed>>,
         faults' \in 0 .. MaxFaults
  PROVE  IInv'
<1>1. arg[r] # None /\ at'[r] = s /\ s \in Steps
  BY DEF IInv, TypeOK, Steps
<1>2. \A u \in Users :
        /\ acked'[u] + Bit(r \in Owed(u)') <= acked[u] + Bit(r \in Owed(u))
        /\ acked[u] + refused[u] + Bit(r \in Pending(u)) + Bit(r \in Unborn(u)')
             <= acked'[u] + refused'[u] + Bit(r \in Pending(u)') + Bit(r \in Unborn(u))
  <2> TAKE u \in Users
  <2>1. acked[u] \in Nat /\ refused[u] \in Nat
    BY DEF IInv, TypeOK
  <2>2. r \in waiting => arg'[r] = arg[r]
    OBVIOUS
  <2>3. r \notin Owed(u)' /\ r \notin Unborn(u)'
    BY <1>1, <2>2 DEF Owed, Unborn, Mine
  <2>4. r \in Pending(u)' <=> r \in Pending(u)
    BY <2>2 DEF Pending
  <2> QED BY <2>1, <2>3, <2>4 DEF Bit
<1>3. calls' \in 0 .. MaxCalls /\ acked' \in [Users -> Nat] /\ refused' \in [Users -> Nat]
  BY DEF IInv, TypeOK
<1> QED BY <1>1, <1>2, <1>3, CloseStep

LEMMA DropInv == ASSUME IInv, NEW r \in Requests, Drop(r) PROVE IInv'
<1>1. /\ r \notin waiting /\ at[r] # "none" /\ at' = [at EXCEPT ![r] = "none"]
      /\ UNCHANGED <<waiting, calls, faults, docs, acked, refused, deletions>>
  BY DEF Drop, DropReply, Done, Step
<1>2. at'[r] = "none"
  BY <1>1 DEF IInv, TypeOK
<1>3. IF "none" = "none" /\ r \notin waiting'
         THEN /\ arg' = [arg EXCEPT ![r] = None]
              /\ answer' = [answer EXCEPT ![r] = NoAnswer]
              /\ gone' = [gone EXCEPT ![r] = {}]
              /\ disturbed' = disturbed \ {r}
         ELSE UNCHANGED <<arg, answer, gone, disturbed>>
  BY <1>2 DEF Drop, Forget
<1>4. faults' \in 0 .. MaxFaults
  BY <1>1 DEF IInv, TypeOK
<1> QED BY <1>1, <1>3, <1>4, SilentStep

LEMMA FailInv == ASSUME IInv, NEW r \in Requests, Fail(r) PROVE IInv'
<1>1. /\ UNCHANGED <<docs, acked, refused, deletions, waiting, calls>> /\ at[r] # "none"
      /\ faults' = faults + 1 /\ faults < MaxFaults
  BY DEF Fail, LoseCall, QueryFails, Fault
<1>2. faults' \in 0 .. MaxFaults
  BY <1>1, CallsAssumption DEF IInv, TypeOK
<1>3. CASE LoseCall(r) /\ Forget(r)
  <2>1. at' = [at EXCEPT ![r] = "none"]
    BY <1>3 DEF LoseCall, Step
  <2>2. at'[r] = "none"
    BY <2>1 DEF IInv, TypeOK
  <2>3. IF "none" = "none" /\ r \notin waiting'
           THEN /\ arg' = [arg EXCEPT ![r] = None]
                /\ answer' = [answer EXCEPT ![r] = NoAnswer]
                /\ gone' = [gone EXCEPT ![r] = {}]
                /\ disturbed' = disturbed \ {r}
           ELSE UNCHANGED <<arg, answer, gone, disturbed>>
    BY <1>3, <2>2 DEF Forget
  <2> QED BY <1>1, <1>2, <2>1, <2>3, SilentStep
<1>4. CASE QueryFails(r) /\ UNCHANGED <<arg, answer, gone, disturbed>>
  <2>1. at' = [at EXCEPT ![r] = "threw"]
    BY <1>4 DEF QueryFails, Step, OnError
  <2> QED BY <1>1, <1>2, <1>4, <2>1, SilentStep
<1> QED BY <1>3, <1>4 DEF Fail

LEMMA FindByIdInv == ASSUME IInv, NEW r \in Requests, FindById(r) PROVE IInv'
<1>1. at[r] = "sent" /\ arg[r].op = "findById"
  BY HandlerOps DEF FindById, Handler
<1>2. PICK s \in {"replied", "threw"} : at' = [at EXCEPT ![r] = s]
  BY DEF FindById, Step
<1>3. faults' \in 0 .. MaxFaults
  BY DEF FindById, IInv, TypeOK
<1> QED BY <1>1, <1>2, <1>3, SilentStep DEF FindById

-------------------------------------------------------------------------------
(* Requests. *)

\* Nothing but the count of calls moves.
LEMMA CallsOnly ==
  ASSUME IInv, calls' \in 0 .. MaxCalls,
         UNCHANGED <<waiting, at, faults, docs, arg, answer, acked, refused, deletions, gone, disturbed>>
  PROVE  IInv'
<1>1. TypeOK'
  BY DEF IInv, TypeOK
<1>2. CallsSound' /\ DeletionsLast' /\ ListsForgetDeleted'
  BY DEF IInv, CallsSound, CallSound, DeletionsLast, Hidden, ListsForgetDeleted, Stored
<1>3. PagesAgree' /\ ListsAgree'
  BY DEF IInv, PagesAgree, ListsAgree, Matching, Stored
<1>4. Finite' /\ Balanced'
  BY DEF IInv, Finite, Open, Stored, Balanced, Owed, Unborn, Pending, Copies, Mine
<1> QED BY <1>1, <1>2, <1>3, <1>4 DEF IInv

LEMMA PayloadsTyped ==
  ASSUME NEW a \in Payloads
  PROVE  /\ a \in Payload
         /\ a.op = "create" => a.user \in Users /\ a.body \in NewBodies
         /\ a.op = "update" => a.user \in Users /\ a.body \in Bodies
<1>1. ASSUME NEW op \in {"create", "findById", "findByUser", "findMarked", "update", "delete"},
             NEW u \in Users \cup {None}, NEW i \in Ids \cup {None},
             NEW b \in NewBodies \cup Bodies \cup {None}, NEW m \in Marks \cup {None},
             NEW skip \in Int, NEW limit \in Int
      PROVE  /\ Pay(op, u, i, b, m, skip, limit) \in Payload
             /\ Pay(op, u, i, b, m, skip, limit).op = op
             /\ Pay(op, u, i, b, m, skip, limit).user = u
             /\ Pay(op, u, i, b, m, skip, limit).body = b
  BY DEF Pay, Payload
<1>2. \A p \in Pages, l \in Limits \cup {None} : AskedSkip(p, l) \in Int /\ LimitOf(l) \in Int
  <2>1. \A p \in Int, l \in Int : (p - 1) * l \in Int
    OBVIOUS
  <2> QED BY <2>1, DocumentsAssumption DEF AskedSkip, LimitOf, SkipOf
<1>3. \A n \in Limits : LimitOf(NumberLimit(n)) \in Int
  BY DocumentsAssumption DEF LimitOf, NumberLimit
<1>4. CASE \E u \in Users, b \in NewBodies : a = Pay("create", u, None, b, None, 0, 0)
  BY <1>1, <1>4
<1>5. CASE \E op \in {"findById", "delete"}, i \in Ids : a = Pay(op, None, i, None, None, 0, 0)
  BY <1>1, <1>5
<1>6. CASE \E u \in Users, i \in Ids, b \in Bodies : a = Pay("update", u, i, b, None, 0, 0)
  BY <1>1, <1>6
<1>7. CASE \E u \in Users, p \in Pages, l \in Limits \cup {None} :
             a = Pay("findByUser", u, None, None, None, AskedSkip(p, l), LimitOf(l))
  <2>1. PICK u \in Users, p \in Pages, l \in Limits \cup {None} :
               a = Pay("findByUser", u, None, None, None, AskedSkip(p, l), LimitOf(l))
    BY <1>7
  <2>2. AskedSkip(p, l) \in Int /\ LimitOf(l) \in Int
    BY <1>2
  <2> QED BY <1>1, <2>1, <2>2
<1>8. CASE \E u \in Users, m \in Marks, n \in Limits :
             a = Pay("findMarked", u, None, None, m, 0, LimitOf(NumberLimit(n)))
  BY <1>1, <1>3, <1>8
<1> QED BY <1>4, <1>5, <1>6, <1>7, <1>8 DEF Payloads

LEMMA AskInv == ASSUME IInv, NEW r \in Requests, Ask(r) PROVE IInv'
<1>1. /\ r \notin waiting /\ at[r] = "none" /\ arg[r] = None /\ calls + 1 \in 0 .. MaxCalls
      /\ UNCHANGED <<docs, answer, acked, refused, deletions, disturbed>>
  BY CallsAssumption DEF Ask, Free, IInv, TypeOK
<1>2. CASE TurnAway /\ UNCHANGED <<arg, gone>>
  BY <1>1, <1>2, CallsOnly DEF TurnAway
<1>3. CASE ~ (TurnAway /\ UNCHANGED <<arg, gone>>)
  <2>1. PICK a \in Payloads :
          /\ Send(r) /\ arg' = [arg EXCEPT ![r] = a]
          /\ gone' = IF a.op \in {"findByUser", "findMarked"} THEN [gone EXCEPT ![r] = deletions] ELSE gone
    BY <1>3 DEF Ask
  <2>2. /\ waiting' = waiting \cup {r} /\ calls' = calls + 1 /\ UNCHANGED faults
        /\ at'[r] = "sent" /\ \A q \in Requests \ {r} : at'[q] = at[q]
        /\ at' \in [Requests -> Steps]
    BY <2>1 DEF Send, Step, IInv, TypeOK, Steps
  <2>3. /\ a \in Payload
        /\ a.op = "create" => a.user \in Users /\ a.body \in NewBodies
        /\ a.op = "update" => a.user \in Users /\ a.body \in Bodies
    BY PayloadsTyped
  <2>4. /\ arg'[r] = a /\ a # None /\ \A q \in Requests \ {r} : arg'[q] = arg[q]
        /\ arg' \in [Requests -> Payload \cup {None}]
    BY <2>1, <2>3, NoneAssumption DEF IInv, TypeOK
  <2>5. answer[r] = NoAnswer
    BY <1>1 DEF IInv, CallsSound
  <2>6. Stored' = Stored
    BY <1>1 DEF Stored
  <2>g. /\ gone' \in [Requests -> SUBSET Ids]
        /\ \A q \in Requests \ {r} : gone'[q] = gone[q]
        /\ \A q \in Requests : gone'[q] \subseteq gone[q] \cup deletions
    BY <2>1 DEF IInv, TypeOK
  <2> HIDE <1>3
  <2>7. TypeOK'
    <3>1. \A q \in Requests : arg'[q] = None <=> at'[q] = "none" /\ q \notin waiting'
      BY <2>2, <2>4 DEF IInv, TypeOK
    <3> QED BY <1>1, <2>2, <2>4, <2>g, <3>1 DEF IInv, TypeOK, Steps
  <2>8. CallsSound'
    <3> SUFFICES ASSUME NEW q \in Requests
                 PROVE  IF arg'[q] = None THEN answer'[q] = NoAnswer ELSE CallSound(q)'
      BY DEF CallsSound, NoAnswer
    <3>1. CASE q = r
      BY <1>1, <2>2, <2>3, <2>4, <3>1 DEF CallSound
    <3>2. CASE q # r
      BY <1>1, <2>2, <2>4, <3>2 DEF CallSound, IInv, CallsSound
    <3> QED BY <3>1, <3>2
  <2>9. DeletionsLast' /\ ListsForgetDeleted'
    <3>1. DeletionsLast'
      BY <1>1, <2>6, <2>g DEF IInv, DeletionsLast, Hidden
    <3>2. ListsForgetDeleted'
      BY <1>1, <2>4, <2>5, <2>g DEF IInv, ListsForgetDeleted, NoAnswer
    <3> QED BY <3>1, <3>2
  <2>10. PagesAgree'
    <3> SUFFICES ASSUME NEW q \in Requests, at'[q] = "counting", q \notin disturbed'
                 PROVE  Cardinality(answer'[q].items)
                          = PageSize(Cardinality(Matching(arg[q])'), arg'[q].skip, arg'[q].limit)
                        /\ arg'[q] = arg[q]
      BY DEF PagesAgree
    <3>1. at[q] = "counting" /\ arg'[q] = arg[q]
      BY <2>2, <2>4
    <3>2. Matching(arg[q])' = Matching(arg[q])
      BY <1>1, <2>6, <3>1 DEF Matching
    <3> QED BY <1>1, <3>1, <3>2 DEF IInv, PagesAgree
  <2>11. ListsAgree'
    BY <1>1, <2>2, <2>4 DEF IInv, ListsAgree
  <2>12. Finite'
    <3>1. Open' = Open \cup {r}
      BY <2>4 DEF Open
    <3> QED BY <2>6, <3>1, FS_AddElement DEF IInv, Finite
  <2>13. Balanced'
    <3> SUFFICES ASSUME NEW u \in Users
                 PROVE  /\ acked'[u] + Cardinality(Owed(u)') <= Cardinality(Copies(u)')
                        /\ Cardinality(Copies(u)') + Cardinality(Unborn(u)')
                             <= acked'[u] + refused'[u] + Cardinality(Pending(u)')
      BY DEF Balanced
    <3>1. Copies(u)' = Copies(u) /\ acked'[u] \in Nat /\ refused'[u] \in Nat
      BY <1>1, <2>6 DEF Copies, IInv, TypeOK
    <3>2. /\ r \notin Owed(u) /\ r \notin Owed(u)' /\ r \notin Pending(u) /\ r \notin Unborn(u)
          /\ r \in Pending(u)' <=> r \in Unborn(u)'
      BY <1>1, <2>2 DEF Owed, Pending, Unborn, Mine
    <3>3. /\ acked'[u] + Bit(r \in Owed(u)') <= acked[u] + Bit(r \in Owed(u))
          /\ acked[u] + refused[u] + Bit(r \in Pending(u)) + Bit(r \in Unborn(u)')
               <= acked'[u] + refused'[u] + Bit(r \in Pending(u)') + Bit(r \in Unborn(u))
      BY <1>1, <3>1, <3>2 DEF Bit
    <3>4. waiting' \subseteq Requests /\ \A q \in Requests \ {r} : q \in waiting' <=> q \in waiting
      BY <2>2 DEF IInv, TypeOK
    <3> QED BY <2>2, <2>4, <3>1, <3>3, <3>4, BalanceKept
  <2> QED BY <2>7, <2>8, <2>9, <2>10, <2>11, <2>12, <2>13 DEF IInv
<1> QED BY <1>2, <1>3 DEF Ask

-------------------------------------------------------------------------------
(* Lists. *)

\* A handler that is not create leaves the counts as they are.
LEMMA OtherBalance ==
  ASSUME IInv, NEW r \in Requests, NEW s \in Steps, at' = [at EXCEPT ![r] = s],
         arg[r].op # "create", UNCHANGED <<arg, waiting, acked, refused>>,
         \A u \in Users : Copies(u)' = Copies(u)
  PROVE  Balanced'
<1> SUFFICES ASSUME NEW u \in Users
             PROVE  /\ acked'[u] + Cardinality(Owed(u)') <= Cardinality(Copies(u)')
                    /\ Cardinality(Copies(u)') + Cardinality(Unborn(u)')
                         <= acked'[u] + refused'[u] + Cardinality(Pending(u)')
  BY DEF Balanced
<1>1. \A q \in Requests \ {r} : at'[q] = at[q]
  BY DEF IInv, TypeOK
<1>2. /\ r \notin Owed(u) /\ r \notin Owed(u)' /\ r \notin Unborn(u) /\ r \notin Unborn(u)'
      /\ r \notin Pending(u) /\ r \notin Pending(u)'
  BY DEF Owed, Unborn, Pending, Mine
<1>3. acked'[u] \in Nat /\ refused'[u] \in Nat /\ acked'[u] = acked[u] /\ refused'[u] = refused[u]
  BY DEF IInv, TypeOK
<1>4. /\ acked'[u] + Bit(r \in Owed(u)') <= acked[u] + Bit(r \in Owed(u))
      /\ acked[u] + refused[u] + Bit(r \in Pending(u)) + Bit(r \in Unborn(u)')
           <= acked'[u] + refused'[u] + Bit(r \in Pending(u)') + Bit(r \in Unborn(u))
  BY <1>2, <1>3 DEF Bit
<1>5. waiting' \subseteq Requests
  BY DEF IInv, TypeOK
<1> QED BY <1>1, <1>3, <1>4, <1>5, BalanceKept

LEMMA FindPageInv == ASSUME IInv, NEW r \in Requests, FindPage(r) PROVE IInv'
<1>1. /\ at[r] = "sent" /\ arg[r].op \in Lists
      /\ UNCHANGED <<waiting, calls, faults, docs, arg, acked, refused, deletions, gone, disturbed>>
  BY HandlerOps DEF FindPage, Handler, Lists
<1>2. arg[r] # None /\ CallSound(r) /\ arg[r] \in Payload
  BY <1>1 DEF IInv, TypeOK, CallsSound
<1>3. CASE arg[r].skip < 0
  <2>1. at' = [at EXCEPT ![r] = "threw"] /\ UNCHANGED answer
    BY <1>3 DEF FindPage, Step
  <2>2. faults' \in 0 .. MaxFaults
    BY <1>1 DEF IInv, TypeOK
  <2> QED BY <1>1, <2>1, <2>2, SilentStep
<1>4. CASE ~ (arg[r].skip < 0)
  <2>1. PICK items \in SUBSET Matching(arg[r]) :
          /\ Cardinality(items) = PageSize(Cardinality(Matching(arg[r])), arg[r].skip, arg[r].limit)
          /\ answer' = [answer EXCEPT ![r].items = items]
    BY <1>4 DEF FindPage
  <2>2. /\ at' = [at EXCEPT ![r] = "counting"] /\ at'[r] = "counting"
        /\ \A q \in Requests \ {r} : at'[q] = at[q]
    BY <1>4 DEF FindPage, Step, IInv, TypeOK
  <2>3. items \subseteq Stored /\ \A i \in items : ~docs[i].deleted
    BY DEF Matching
  <2>4. answer[r] \in [items : SUBSET Ids, total : Nat]
    BY DEF IInv, TypeOK
  <2>5. /\ answer'[r].items = items /\ \A q \in Requests \ {r} : answer'[q] = answer[q]
        /\ answer' \in [Requests -> [items : SUBSET Ids, total : Nat]]
    BY <2>1, <2>3, <2>4 DEF IInv, TypeOK, Stored
  <2>6. Stored' = Stored
    BY <1>1 DEF Stored
  <2>7. TypeOK'
    <3>1. at' \in [Requests -> Steps]
      BY <2>2 DEF IInv, TypeOK, Steps
    <3>2. \A q \in Requests : arg'[q] = None <=> at'[q] = "none" /\ q \notin waiting'
      BY <1>1, <1>2, <2>2 DEF IInv, TypeOK
    <3> QED BY <1>1, <2>5, <3>1, <3>2 DEF IInv, TypeOK, Steps
  <2>8. CallsSound'
    <3> SUFFICES ASSUME NEW q \in Requests
                 PROVE  IF arg'[q] = None THEN answer'[q] = NoAnswer ELSE CallSound(q)'
      BY DEF CallsSound, NoAnswer
    <3>1. CASE q = r
      BY <1>1, <1>2, <2>2, <2>6, <3>1 DEF CallSound
    <3>2. CASE q # r
      BY <1>1, <2>2, <2>5, <2>6, <3>2 DEF CallSound, IInv, CallsSound
    <3> QED BY <3>1, <3>2
  <2>9. DeletionsLast'
    BY <1>1, <2>6 DEF IInv, DeletionsLast, Hidden
  <2>10. ListsForgetDeleted'
    <3>1. items \cap gone[r] = {}
      BY <2>3 DEF IInv, DeletionsLast, Hidden
    <3> QED BY <1>1, <2>5, <3>1 DEF IInv, ListsForgetDeleted
  <2>11. PagesAgree'
    <3> SUFFICES ASSUME NEW q \in Requests, at'[q] = "counting", q \notin disturbed'
                 PROVE  Cardinality(answer'[q].items)
                          = PageSize(Cardinality(Matching(arg[q])'), arg'[q].skip, arg'[q].limit)
                        /\ arg'[q] = arg[q]
      BY <1>1 DEF PagesAgree
    <3>1. Matching(arg[q])' = Matching(arg[q])
      BY <1>1, <2>6 DEF Matching
    <3>2. CASE q = r
      BY <1>1, <2>1, <2>5, <3>1, <3>2
    <3>3. CASE q # r
      BY <1>1, <2>2, <2>5, <3>1, <3>3 DEF IInv, PagesAgree
    <3> QED BY <3>2, <3>3
  <2>12. ListsAgree'
    BY <1>1, <2>2, <2>5 DEF IInv, ListsAgree
  <2>13. Finite'
    BY <1>1, <2>6 DEF IInv, Finite, Open
  <2>14. Balanced'
    <3>1. "counting" \in Steps /\ arg[r].op # "create"
      BY <1>1 DEF Steps, Lists
    <3>2. \A u \in Users : Copies(u)' = Copies(u)
      BY <1>1, <2>6 DEF Copies
    <3> QED BY <1>1, <2>2, <3>1, <3>2, OtherBalance
  <2> QED BY <2>7, <2>8, <2>9, <2>10, <2>11, <2>12, <2>13, <2>14 DEF IInv
<1> QED BY <1>3, <1>4

LEMMA CountAllInv == ASSUME IInv, NEW r \in Requests, CountAll(r) PROVE IInv'
<1>1. /\ at[r] = "counting" /\ at' = [at EXCEPT ![r] = "replied"]
      /\ answer' = [answer EXCEPT ![r].total = Cardinality(Matching(arg[r]))]
      /\ UNCHANGED <<waiting, calls, faults, docs, arg, acked, refused, deletions, gone, disturbed>>
  BY DEF CountAll, Counted, Step
<1>2. arg[r] # None /\ CallSound(r)
  BY <1>1 DEF IInv, TypeOK, CallsSound
<1>3. at'[r] = "replied" /\ \A q \in Requests \ {r} : at'[q] = at[q]
  BY <1>1 DEF IInv, TypeOK
<1>4. Cardinality(Matching(arg[r])) \in Nat
  <2>1. Matching(arg[r]) \subseteq Stored
    BY DEF Matching
  <2> QED BY <2>1, FS_Subset, FS_CardinalityType DEF IInv, Finite
<1>5. answer[r] \in [items : SUBSET Ids, total : Nat]
  BY DEF IInv, TypeOK
<1>6. /\ answer'[r].items = answer[r].items /\ answer'[r].total = Cardinality(Matching(arg[r]))
      /\ \A q \in Requests \ {r} : answer'[q] = answer[q]
      /\ answer' \in [Requests -> [items : SUBSET Ids, total : Nat]]
  BY <1>1, <1>4, <1>5 DEF IInv, TypeOK
<1>7. Stored' = Stored
  BY <1>1 DEF Stored
<1>8. TypeOK'
  <2>1. at' \in [Requests -> Steps]
    BY <1>1 DEF IInv, TypeOK, Steps
  <2>2. \A q \in Requests : arg'[q] = None <=> at'[q] = "none" /\ q \notin waiting'
    BY <1>1, <1>2, <1>3 DEF IInv, TypeOK
  <2> QED BY <1>1, <1>6, <2>1, <2>2 DEF IInv, TypeOK, Steps
<1>9. CallsSound'
  <2> SUFFICES ASSUME NEW q \in Requests
               PROVE  IF arg'[q] = None THEN answer'[q] = NoAnswer ELSE CallSound(q)'
    BY DEF CallsSound, NoAnswer
  <2>1. CASE q = r
    BY <1>1, <1>2, <1>3, <1>7, <2>1 DEF CallSound, Lists
  <2>2. CASE q # r
    BY <1>1, <1>3, <1>6, <1>7, <2>2 DEF CallSound, IInv, CallsSound
  <2> QED BY <2>1, <2>2
<1>10. DeletionsLast' /\ ListsForgetDeleted'
  <2>1. DeletionsLast'
    BY <1>1, <1>7 DEF IInv, DeletionsLast, Hidden
  <2>2. ListsForgetDeleted'
    BY <1>1, <1>6 DEF IInv, ListsForgetDeleted
  <2> QED BY <2>1, <2>2
<1>11. PagesAgree'
  <2> SUFFICES ASSUME NEW q \in Requests, at'[q] = "counting", q \notin disturbed'
               PROVE  Cardinality(answer'[q].items)
                        = PageSize(Cardinality(Matching(arg[q])'), arg'[q].skip, arg'[q].limit)
                      /\ arg'[q] = arg[q]
    BY <1>1 DEF PagesAgree
  <2>1. Matching(arg[q])' = Matching(arg[q]) /\ q # r
    BY <1>1, <1>3, <1>7 DEF Matching
  <2> QED BY <1>1, <1>3, <1>6, <2>1 DEF IInv, PagesAgree
<1>12. ListsAgree'
  <2> SUFFICES ASSUME NEW q \in Requests, at'[q] = "replied", arg'[q].op \in Lists, q \notin disturbed'
               PROVE  Cardinality(answer'[q].items) = PageSize(answer'[q].total, arg'[q].skip, arg'[q].limit)
    BY DEF ListsAgree, Lists
  <2>1. CASE q = r
    BY <1>1, <1>6, <2>1 DEF IInv, PagesAgree
  <2>2. CASE q # r
    BY <1>1, <1>3, <1>6, <2>2 DEF IInv, ListsAgree, Lists
  <2> QED BY <2>1, <2>2
<1>13. Finite'
  BY <1>1, <1>7 DEF IInv, Finite, Open
<1>14. Balanced'
  <2>1. "replied" \in Steps /\ arg[r].op # "create"
    BY <1>1, <1>2 DEF Steps, CallSound, Lists
  <2>2. \A u \in Users : Copies(u)' = Copies(u)
    BY <1>1, <1>7 DEF Copies
  <2> QED BY <1>1, <2>1, <2>2, OtherBalance
<1> QED BY <1>8, <1>9, <1>10, <1>11, <1>12, <1>13, <1>14 DEF IInv

-------------------------------------------------------------------------------
(* Documents that change. *)

\* A handler answers and the documents change: what the histories of deletions keep
\* stays deleted, and only a delete's own history grows.
LEMMA ChangeStep ==
  ASSUME IInv, NEW r \in Requests, at[r] = "sent", arg[r].op \notin Lists,
         at' = [at EXCEPT ![r] = "replied"],
         docs' \in [Ids -> Document \cup {None}],
         deletions' \subseteq deletions, gone' \in [Requests -> SUBSET Ids],
         \A q \in Requests : gone'[q] \subseteq gone[q] \/ (q = r /\ arg[r].op = "delete"),
         DeletionsLast',
         disturbed' = disturbed \cup {q \in Requests : at[q] = "counting"},
         IsFiniteSet(Stored'), Balanced',
         UNCHANGED <<waiting, calls, faults, arg, answer, acked, refused>>
  PROVE  IInv'
<1>1. at'[r] = "replied" /\ \A q \in Requests \ {r} : at'[q] = at[q]
  BY DEF IInv, TypeOK
<1>2. arg[r] # None /\ CallSound(r)
  BY DEF IInv, TypeOK, CallsSound
<1>3. TypeOK'
  <2>1. at' \in [Requests -> Steps]
    BY DEF IInv, TypeOK, Steps
  <2>2. \A q \in Requests : arg'[q] = None <=> at'[q] = "none" /\ q \notin waiting'
    BY <1>1, <1>2 DEF IInv, TypeOK
  <2> QED BY <2>1, <2>2 DEF IInv, TypeOK, Steps
<1>4. CallsSound'
  <2> SUFFICES ASSUME NEW q \in Requests
               PROVE  IF arg'[q] = None THEN answer'[q] = NoAnswer ELSE CallSound(q)'
    BY DEF CallsSound, NoAnswer
  <2>1. CASE q = r
    BY <1>1, <1>2, <2>1 DEF CallSound
  <2>2. CASE q # r
    <3>1. at'[q] = at[q]
      BY <1>1, <2>2
    <3> QED BY <3>1 DEF CallSound, IInv, CallsSound
  <2> QED BY <2>1, <2>2
<1>5. ListsForgetDeleted'
  BY DEF IInv, ListsForgetDeleted
<1>6. PagesAgree'
  BY <1>1 DEF PagesAgree
<1>7. ListsAgree'
  <2> SUFFICES ASSUME NEW q \in Requests, at'[q] = "replied", arg'[q].op \in Lists, q \notin disturbed'
               PROVE  Cardinality(answer'[q].items) = PageSize(answer'[q].total, arg'[q].skip, arg'[q].limit)
    BY DEF ListsAgree, Lists
  <2> QED BY <1>1 DEF IInv, ListsAgree, Lists
<1>8. Finite'
  BY DEF IInv, Finite, Open
<1> QED BY <1>3, <1>4, <1>5, <1>6, <1>7, <1>8 DEF IInv

\* What a body writes is of the schema's types; an update that does not restore
\* leaves a deleted document deleted.
LEMMA UpdatedTyped ==
  ASSUME NEW d \in Document, NEW a, a.body \in Bodies, a.user \in Users
  PROVE  /\ Updated(d, a) \in Document /\ Updated(d, a).creator = d.creator
         /\ ~ ("deleted" \in DOMAIN a.body /\ ~a.body.deleted) /\ d.deleted => Updated(d, a).deleted
<1> DEFINE owner == OwnerIn(a)
           mark == IF "mark" \in DOMAIN a.body THEN a.body["mark"] ELSE d["mark"]
           deleted == IF "deleted" \in DOMAIN a.body THEN a.body["deleted"] ELSE d["deleted"]
<1>1. IsBody(a.body)
  BY BodiesAssumption
<1>2. Fields.owner = Users /\ Fields.mark = Marks /\ Fields.deleted = BOOLEAN
  BY DEF Fields
<1>3. d.creator \in Users /\ d.mark \in Marks /\ d.deleted \in BOOLEAN
  BY DEF Document
<1>4. owner \in Users
  BY <1>1, <1>2 DEF OwnerIn, IsBody
<1>5. mark \in Marks
  BY <1>1, <1>2, <1>3 DEF IsBody
<1>6. deleted \in BOOLEAN
  BY <1>1, <1>2, <1>3 DEF IsBody
<1>7. Updated(d, a) = [creator |-> d.creator, owner |-> owner, mark |-> mark, deleted |-> deleted]
  BY DEF Updated
<1>8. ~ ("deleted" \in DOMAIN a.body /\ ~a.body.deleted) /\ d.deleted => deleted
  OBVIOUS
<1> HIDE DEF owner, mark, deleted
<1> QED BY <1>3, <1>4, <1>5, <1>6, <1>7, <1>8 DEF Document

LEMMA UpdateOrDeleteInv == ASSUME IInv, NEW r \in Requests, UpdateOrDelete(r) PROVE IInv'
<1>1. /\ at[r] = "sent" /\ arg[r].op \in {"update", "delete"}
      /\ UNCHANGED <<waiting, calls, faults, arg, answer, acked, refused>>
  BY HandlerOps DEF UpdateOrDelete, Handler
<1>2. arg[r] # None /\ CallSound(r)
  BY <1>1 DEF IInv, TypeOK, CallsSound
<1>3. CASE arg[r].id \notin Stored
  <2>1. at' = [at EXCEPT ![r] = "threw"] /\ UNCHANGED <<docs, disturbed, deletions, gone>>
    BY <1>3 DEF UpdateOrDelete, Found, Step
  <2>2. faults' \in 0 .. MaxFaults
    BY <1>1 DEF IInv, TypeOK
  <2> QED BY <1>1, <2>1, <2>2, SilentStep
<1>4. CASE arg[r].id \in Stored
  <2> DEFINE i == arg[r].id
             d == Changed(docs[i], arg[r])
  <2>1. /\ docs' = [docs EXCEPT ![i] = d] /\ at' = [at EXCEPT ![r] = "replied"]
        /\ disturbed' = disturbed \cup {q \in Requests : at[q] = "counting"} /\ Trace(r)
    BY <1>4 DEF UpdateOrDelete, Found, Step, Disturb
  <2>2. i \in Ids /\ docs[i] \in Document
    BY <1>4 DEF Stored, IInv, TypeOK
  <2>3. /\ d \in Document /\ d.creator = docs[i].creator
        /\ ~Restores(arg[r]) /\ docs[i].deleted => d.deleted
        /\ arg[r].op = "delete" => d.deleted
    <3>1. CASE arg[r].op = "update"
      <4>1. d = Updated(docs[i], arg[r]) /\ arg[r].user \in Users /\ arg[r].body \in Bodies
        BY <1>2, <3>1 DEF CallSound, Changed
      <4>2. Restores(arg[r]) <=> "deleted" \in DOMAIN arg[r].body /\ ~arg[r].body.deleted
        BY <3>1 DEF Restores
      <4> HIDE DEF d, i
      <4> QED BY <2>2, <3>1, <4>1, <4>2, UpdatedTyped
    <3>2. CASE arg[r].op = "delete"
      <4>1. d = [docs[i] EXCEPT !.deleted = TRUE]
        BY <3>2 DEF Changed, SoftDeleted
      <4> HIDE DEF d, i
      <4> QED BY <2>2, <3>2, <4>1 DEF Document
    <3> QED BY <1>1, <3>1, <3>2
  <2> HIDE DEF d
  <2>4. docs'[i] = d /\ \A j \in Ids \ {i} : docs'[j] = docs[j]
    BY <2>1, <2>2 DEF IInv, TypeOK
  <2>5. docs' \in [Ids -> Document \cup {None}]
    BY <2>1, <2>2, <2>3 DEF IInv, TypeOK
  <2>6. d # None
    BY <2>3, NoneAssumption
  <2> HIDE DEF i
  <2>7. Stored' = Stored
    BY <1>4, <2>2, <2>4, <2>6 DEF Stored, i
  <2>8. \A j : Hidden(j) /\ ~ (Restores(arg[r]) /\ j = i) => Hidden(j)'
    BY <2>3, <2>4, <2>7 DEF Hidden, Stored
  <2>9. /\ deletions' \subseteq deletions /\ gone' \in [Requests -> SUBSET Ids]
        /\ \A q \in Requests : gone'[q] \subseteq gone[q] \/ (q = r /\ arg[r].op = "delete")
        /\ DeletionsLast'
    <3>1. deletions \subseteq Ids /\ gone \in [Requests -> SUBSET Ids]
      BY DEF IInv, TypeOK
    <3>2. /\ \A j \in deletions : Hidden(j)
          /\ \A q \in Requests : \A j \in gone[q] : Hidden(j)
      BY DEF IInv, DeletionsLast
    <3>3. CASE Restores(arg[r])
      <4>1. deletions' = deletions \ {i} /\ gone' = [q \in Requests |-> gone[q] \ {i}]
        BY <2>1, <3>3 DEF Trace, i
      <4>2. /\ \A j \in deletions' : Hidden(j)'
            /\ \A q \in Requests : \A j \in gone'[q] : Hidden(j)'
        BY <2>8, <3>2, <4>1
      <4> QED BY <3>1, <4>1, <4>2 DEF DeletionsLast
    <3>4. CASE ~Restores(arg[r]) /\ arg[r].op = "delete"
      <4>1. deletions' = deletions /\ gone' = [gone EXCEPT ![r] = {i}]
        BY <2>1, <3>4 DEF Trace, i
      <4>2. /\ gone' \in [Requests -> SUBSET Ids]
            /\ \A q \in Requests : gone'[q] = IF q = r THEN {i} ELSE gone[q]
        BY <2>2, <3>1, <4>1
      <4>3. \A j : j = i => Hidden(j)'
        BY <1>4, <2>3, <2>4, <2>7, <3>4 DEF Hidden, i
      <4>4. /\ \A j \in deletions' : Hidden(j)'
            /\ \A q \in Requests : \A j \in gone'[q] : Hidden(j)'
        BY <2>8, <3>2, <3>4, <4>1, <4>2, <4>3
      <4> QED BY <3>4, <4>1, <4>2, <4>4 DEF DeletionsLast
    <3>5. CASE ~Restores(arg[r]) /\ arg[r].op # "delete"
      <4>1. deletions' = deletions /\ gone' = gone
        BY <2>1, <3>5 DEF Trace
      <4>2. /\ \A j \in deletions' : Hidden(j)'
            /\ \A q \in Requests : \A j \in gone'[q] : Hidden(j)'
        BY <2>8, <3>2, <3>5, <4>1
      <4> QED BY <3>1, <4>1, <4>2 DEF DeletionsLast
    <3> QED BY <3>3, <3>4, <3>5
  <2>10. \A u \in Users : Copies(u)' = Copies(u)
    BY <2>3, <2>4, <2>7 DEF Copies, Stored
  <2>11. Balanced'
    <3>1. "replied" \in Steps /\ arg[r].op # "create"
      BY <1>1 DEF Steps
    <3> QED BY <1>1, <2>1, <2>10, <3>1, OtherBalance
  <2>12. IsFiniteSet(Stored') /\ arg[r].op \notin Lists
    BY <1>1, <2>7 DEF IInv, Finite, Lists
  <2> QED BY <1>1, <2>1, <2>5, <2>9, <2>11, <2>12, ChangeStep
<1> QED BY <1>3, <1>4

\* A new document is of the schema's types.
LEMMA NewTyped ==
  ASSUME NEW a, a.body \in NewBodies, a.user \in Users
  PROVE  NewDocument(a) \in Document /\ NewDocument(a).creator = a.user
<1> DEFINE owner == OwnerIn(a)
           mark == IF "mark" \in DOMAIN a.body THEN a.body["mark"] ELSE DefaultMark
           deleted == IF "deleted" \in DOMAIN a.body THEN a.body["deleted"] ELSE FALSE
<1>1. IsBody(a.body)
  BY BodiesAssumption
<1>2. Fields.owner = Users /\ Fields.mark = Marks /\ Fields.deleted = BOOLEAN
  BY DEF Fields
<1>3. owner \in Users
  BY <1>1, <1>2 DEF OwnerIn, IsBody
<1>4. mark \in Marks
  BY <1>1, <1>2, DocumentsAssumption DEF IsBody
<1>5. deleted \in BOOLEAN
  BY <1>1, <1>2 DEF IsBody
<1>6. NewDocument(a) = [creator |-> a.user, owner |-> owner, mark |-> mark, deleted |-> deleted]
  BY DEF NewDocument
<1> HIDE DEF owner, mark, deleted
<1> QED BY <1>3, <1>4, <1>5, <1>6 DEF Document

\* Every document a creation makes is one of its calls.
LEMMA CreateStep ==
  ASSUME IInv, NEW r \in Requests, Handler(r, "create"), Stored # Ids,
         docs' = [docs EXCEPT ![NewId] = NewDocument(arg[r])],
         at' = [at EXCEPT ![r] = "replied"],
         disturbed' = disturbed \cup {q \in Requests : at[q] = "counting"},
         UNCHANGED <<waiting, calls, faults, arg, answer, acked, refused, deletions, gone>>
  PROVE  IInv'
<1> DEFINE i == NewId
           d == NewDocument(arg[r])
<1>1. /\ at[r] = "sent" /\ arg[r].op = "create"
      /\ docs' = [docs EXCEPT ![i] = d]
  BY HandlerOps DEF Handler
<1>2. i \in Ids /\ i \notin Stored
  BY DEF NewId, Stored
<1>3. arg[r].user \in Users /\ arg[r].body \in NewBodies
  BY <1>1 DEF IInv, TypeOK, CallsSound, CallSound
<1>4. d \in Document /\ d.creator = arg[r].user
  BY <1>3, NewTyped
<1>5. d # None
  BY <1>4, NoneAssumption
<1> HIDE DEF i, d
<1>6. docs'[i] = d /\ \A j \in Ids \ {i} : docs'[j] = docs[j]
  BY <1>1, <1>2 DEF IInv, TypeOK
<1>7. docs' \in [Ids -> Document \cup {None}]
  BY <1>1, <1>2, <1>4 DEF IInv, TypeOK
<1>8. Stored' = Stored \cup {i}
  BY <1>2, <1>5, <1>6 DEF Stored
<1>9. \A j \in Stored : j \in Stored' /\ docs'[j] = docs[j]
  BY <1>2, <1>6, <1>8 DEF Stored
<1>10. \A u \in Users : Copies(u)' = IF u = arg[r].user THEN Copies(u) \cup {i} ELSE Copies(u)
  BY <1>4, <1>6, <1>8, <1>9 DEF Copies
<1>11. at'[r] = "replied" /\ \A q \in Requests \ {r} : at'[q] = at[q]
  BY <1>1 DEF IInv, TypeOK
<1>12. Balanced'
  <2> SUFFICES ASSUME NEW u \in Users
               PROVE  /\ acked'[u] + Cardinality(Owed(u)') <= Cardinality(Copies(u)')
                      /\ Cardinality(Copies(u)') + Cardinality(Unborn(u)')
                           <= acked'[u] + refused'[u] + Cardinality(Pending(u)')
    BY DEF Balanced
  <2>1. acked'[u] = acked[u] /\ refused'[u] = refused[u] /\ acked[u] \in Nat /\ refused[u] \in Nat
    BY <1>1 DEF IInv, TypeOK
  <2>2. waiting' \subseteq Requests
    BY <1>1 DEF IInv, TypeOK
  <2>3. CASE u # arg[r].user
    <3>1. Copies(u)' = Copies(u)
      BY <1>10, <2>3
    <3>2. /\ r \notin Owed(u) /\ r \notin Owed(u)' /\ r \notin Unborn(u) /\ r \notin Unborn(u)'
          /\ r \notin Pending(u) /\ r \notin Pending(u)'
      BY <1>1, <2>3 DEF Owed, Unborn, Pending, Mine
    <3>3. /\ acked'[u] + Bit(r \in Owed(u)') <= acked[u] + Bit(r \in Owed(u))
          /\ acked[u] + refused[u] + Bit(r \in Pending(u)) + Bit(r \in Unborn(u)')
               <= acked'[u] + refused'[u] + Bit(r \in Pending(u)') + Bit(r \in Unborn(u))
      BY <2>1, <3>2 DEF Bit
    <3> QED BY <1>1, <1>11, <2>1, <2>2, <3>1, <3>3, BalanceKept
  <2>4. CASE u = arg[r].user
    <3>1. /\ IsFiniteSet(Copies(u)) /\ IsFiniteSet(Unborn(u)) /\ IsFiniteSet(Owed(u))
          /\ Cardinality(Pending(u)) \in Nat /\ Cardinality(Copies(u)) \in Nat
      BY CountsFinite
    <3>2. i \notin Copies(u)
      BY <1>2 DEF Copies
    <3>3. Cardinality(Copies(u)') = Cardinality(Copies(u)) + 1
      <4>1. Copies(u)' = Copies(u) \cup {i}
        BY <1>10, <2>4
      <4> QED BY <3>1, <3>2, <4>1, FS_AddElement
    <3>4. Owed(u) \ {r} = Owed(u)' \ {r} /\ r \notin Owed(u)
      BY <1>1, <1>11 DEF Owed, Mine, IInv, TypeOK
    <3>5. Cardinality(Owed(u)) \in Nat /\ Cardinality(Owed(u)') \in Nat /\ Cardinality(Owed(u)') <= Cardinality(Owed(u)) + 1
      <4>1. /\ Cardinality(Owed(u)) \in Nat /\ Cardinality(Owed(u)') \in Nat
            /\ Cardinality(Owed(u)') + Bit(r \in Owed(u)) = Cardinality(Owed(u)) + Bit(r \in Owed(u)')
        BY <3>1, <3>4, OneElement
      <4> QED BY <3>4, <4>1 DEF Bit
    <3>6. Unborn(u) \ {r} = Unborn(u)' \ {r} /\ r \in Unborn(u) /\ r \notin Unborn(u)'
      BY <1>1, <1>11, <2>4 DEF Unborn, Mine
    <3>7. Cardinality(Unborn(u)) \in Nat /\ Cardinality(Unborn(u)') \in Nat /\ Cardinality(Unborn(u)') + 1 = Cardinality(Unborn(u))
      <4>1. /\ Cardinality(Unborn(u)) \in Nat /\ Cardinality(Unborn(u)') \in Nat
            /\ Cardinality(Unborn(u)') + Bit(r \in Unborn(u)) = Cardinality(Unborn(u)) + Bit(r \in Unborn(u)')
        BY <3>1, <3>6, OneElement
      <4> QED BY <3>6, <4>1 DEF Bit
    <3>8. Pending(u)' = Pending(u)
      BY <1>1 DEF Pending
    <3>9. /\ acked[u] + Cardinality(Owed(u)) <= Cardinality(Copies(u))
          /\ Cardinality(Copies(u)) + Cardinality(Unborn(u)) <= acked[u] + refused[u] + Cardinality(Pending(u))
      BY DEF IInv, Balanced
    <3>10. acked'[u] + Cardinality(Owed(u)') <= Cardinality(Copies(u)')
      BY <2>1, <3>1, <3>3, <3>5, <3>9
    <3>11. Cardinality(Copies(u)') + Cardinality(Unborn(u)') <= acked'[u] + refused'[u] + Cardinality(Pending(u)')
      BY <2>1, <3>1, <3>3, <3>7, <3>8, <3>9
    <3> QED BY <3>10, <3>11
  <2> QED BY <2>3, <2>4
<1>13. IsFiniteSet(Stored') /\ arg[r].op \notin Lists
  BY <1>1, <1>8, FS_AddElement DEF IInv, Finite, Lists
<1>14. gone' \in [Requests -> SUBSET Ids] /\ DeletionsLast'
  BY <1>9 DEF IInv, TypeOK, DeletionsLast, Hidden
<1> QED BY <1>1, <1>7, <1>12, <1>13, <1>14, ChangeStep

LEMMA CreateInv == ASSUME IInv, NEW r \in Requests, Create(r) PROVE IInv'
<1>1. Handler(r, "create") /\ at[r] # "none"
  BY DEF Create, Handler
<1>2. CASE docs' = [docs EXCEPT ![NewId] = NewDocument(arg[r])] /\ Step(r, "replied") /\ Disturb
  BY <1>1, <1>2, CreateStep DEF Create, Step, Disturb
<1>3. CASE Step(r, "threw") /\ UNCHANGED <<docs, disturbed>>
  <2>1. /\ at' = [at EXCEPT ![r] = "threw"] /\ faults' \in 0 .. MaxFaults
        /\ UNCHANGED <<docs, waiting, calls, acked, refused, deletions, arg, answer, gone, disturbed>>
    BY <1>3 DEF Create, Step, IInv, TypeOK
  <2> QED BY <1>1, <2>1, SilentStep
<1> QED BY <1>2, <1>3 DEF Create

-------------------------------------------------------------------------------

LEMMA NextInv == IInv /\ [Next]_vars => IInv'
<1> SUFFICES ASSUME IInv, [Next]_vars PROVE IInv'
  OBVIOUS
<1>1. CASE UNCHANGED vars
  BY <1>1, CallsOnly DEF vars, IInv, TypeOK
<1>2. CASE Next
  BY <1>2, AskInv, DeliverInv, TimeoutInv, DropInv, FailInv, CreateInv, FindByIdInv,
     UpdateOrDeleteInv, FindPageInv, CountAllInv DEF Next
<1> QED BY <1>1, <1>2

LEMMA Inductive == Spec => []IInv
<1> QED BY InitInv, NextInv, PTL DEF Spec

\* No step leaves the types: a call has its payload for as long as the gateway or a
\* service is busy with it (todos.service.ts and books.service.ts).
THEOREM TypeCorrect == Spec => []TypeOK
<1>1. IInv => TypeOK
  BY DEF IInv
<1> QED BY <1>1, Inductive, PTL

\* However many creations run into the gateway's timeout or fail, a user has at
\* least the documents acknowledged, and at most those and one more for each
\* creation refused or pending (todos.service.ts:10-27 of the gateway).
THEOREM CopiesAreExplained == Spec => []CopiesExplained
<1>1. IInv => CopiesExplained
  <2> SUFFICES ASSUME IInv, NEW u \in Users
               PROVE  /\ acked[u] <= Cardinality(Copies(u))
                      /\ Cardinality(Copies(u)) <= acked[u] + refused[u] + Cardinality(Pending(u))
    BY DEF CopiesExplained
  <2>1. /\ Cardinality(Copies(u)) \in Nat /\ Cardinality(Unborn(u)) \in Nat
        /\ Cardinality(Pending(u)) \in Nat /\ Cardinality(Owed(u)) \in Nat
    BY CountsFinite
  <2>2. acked[u] \in Nat /\ refused[u] \in Nat
    BY DEF IInv, TypeOK
  <2> QED BY <2>1, <2>2 DEF IInv, Balanced
<1> QED BY <1>1, Inductive, PTL

\* A list no write came between has the page its total implies, for every page and
\* limit (todos.repository.ts and books.repository.ts, find then countDocuments).
THEOREM ListsAlwaysAgree == Spec => []ListsAgree
<1>1. IInv => ListsAgree
  BY DEF IInv
<1> QED BY <1>1, Inductive, PTL

\* No list shows a document that was deleted, and its deletion acknowledged, before
\* the list was asked for, whatever updates overlap the two: unless the body of one
\* carried out since set deletedAt to null (softDelete and findByUser of the two
\* repositories; todos.service.ts:31-32 and books.service.ts).
THEOREM DeletedStayHidden == Spec => []ListsForgetDeleted
<1>1. IInv => ListsForgetDeleted
  BY DEF IInv
<1> QED BY <1>1, Inductive, PTL

-------------------------------------------------------------------------------
(* The pages of a list. *)

\* Division with remainder.
LEMMA Euclid ==
  ASSUME NEW n \in Nat, NEW d \in Nat \ {0}
  PROVE  n \div d \in Nat /\ n % d \in Nat /\ n % d < d /\ n = d * (n \div d) + (n % d)
<1>1. n \div d \in Nat
  OBVIOUS
<1>2. n % d \in Nat /\ n % d < d
  OBVIOUS
<1>3. n = d * (n \div d) + (n % d)
  OBVIOUS
<1> QED BY <1>1, <1>2, <1>3

\* Products with one positive factor are ordered as the other factors.
LEMMA Ordered ==
  ASSUME NEW d \in Nat \ {0}, NEW a \in Int, NEW b \in Int
  PROVE  d * a \in Int /\ d * b \in Int /\ (d * a < d * b <=> a < b)
<1>1. a < b => d * a < d * b
  OBVIOUS
<1>2. ~ (a < b) => d * b <= d * a
  OBVIOUS
<1> QED BY <1>1, <1>2

\* Page p is before the last one if and only if items are left after it.
LEMMA PagesLeft ==
  ASSUME NEW total \in Nat, NEW limit \in Nat \ {0}, NEW p \in Nat
  PROVE  Ceil(total, limit) \in Nat /\ (p < Ceil(total, limit) <=> limit * p < total)
<1> DEFINE q == total \div limit
           m == total % limit
<1>1. q \in Nat /\ m \in Nat /\ m < limit /\ total = limit * q + m
  BY Euclid
<1>2. Ceil(total, limit) = IF m = 0 THEN q ELSE q + 1
  BY DEF Ceil
<1> HIDE DEF q, m
<1>3. /\ limit * p < limit * q <=> p < q
      /\ limit * p < limit * (q + 1) <=> p < q + 1
      /\ limit * (q + 1) = limit * q + limit
      /\ limit * p \in Int /\ limit * q \in Int
  BY <1>1, Ordered
<1>4. CASE m = 0
  BY <1>1, <1>2, <1>3, <1>4
<1>5. CASE m # 0
  <2>1. p < q + 1 => limit * p <= limit * q
    <3>1. limit * q < limit * p <=> q < p
      BY <1>1, Ordered
    <3> QED BY <1>1, <1>3, <3>1
  <2>2. limit * p < total => limit * p < limit * (q + 1)
    BY <1>1, <1>3
  <2> QED BY <1>1, <1>2, <1>3, <1>5, <2>1, <2>2
<1> QED BY <1>4, <1>5

\* A client that follows hasNext from the first page sees every item, whatever the
\* total and the limit (pagination.util.ts buildPaginatedResult).
THEOREM PagesAlwaysCover == \A total \in Nat, limit \in Nat \ {0} : PagesCover(total, limit)
<1> SUFFICES ASSUME NEW total \in Nat, NEW limit \in Nat \ {0} PROVE PagesCover(total, limit)
  OBVIOUS
<1>1. /\ Ceil(total, limit) \in Nat /\ TotalPages(total, limit) \in Nat
      /\ TotalPages(total, limit) = IF Ceil(total, limit) >= 1 THEN Ceil(total, limit) ELSE 1
  BY PagesLeft DEF TotalPages, AtLeastOne
<1>2. \A k \in 0 .. total - 1 : \E page \in 1 .. TotalPages(total, limit) : k \in OnPage(page, limit, total)
  <2> SUFFICES ASSUME NEW k \in 0 .. total - 1
               PROVE  \E page \in 1 .. TotalPages(total, limit) : k \in OnPage(page, limit, total)
    OBVIOUS
  <2> DEFINE p == k \div limit
  <2>1. k \in Nat /\ k < total
    OBVIOUS
  <2>2. p \in Nat /\ limit * p <= k /\ k < limit * p + limit /\ limit * p \in Nat
    BY <2>1, Euclid
  <2> HIDE DEF p
  <2>3. p < Ceil(total, limit)
    BY <2>1, <2>2, PagesLeft
  <2>4. p + 1 \in 1 .. TotalPages(total, limit)
    BY <1>1, <2>2, <2>3
  <2>5. SkipOf(p + 1, limit) = limit * p
    BY <2>2 DEF SkipOf
  <2>6. k \in OnPage(p + 1, limit, total)
    BY <2>2, <2>5 DEF OnPage
  <2> QED BY <2>4, <2>6
<1>3. \A page \in 1 .. TotalPages(total, limit) :
        /\ HasNext(page, total, limit) <=> SkipOf(page, limit) + limit < total
        /\ HasPrev(page) <=> SkipOf(page, limit) > 0
  <2> TAKE page \in 1 .. TotalPages(total, limit)
  <2>1. page \in Nat /\ page >= 1
    BY <1>1
  <2>2. SkipOf(page, limit) + limit = limit * page
    BY <2>1 DEF SkipOf
  <2>3. page < TotalPages(total, limit) <=> page < Ceil(total, limit)
    BY <1>1, <2>1
  <2>4. HasPrev(page) <=> SkipOf(page, limit) > 0
    <3>1. limit * 0 < limit * (page - 1) <=> 0 < page - 1
      BY <2>1, Ordered
    <3>2. SkipOf(page, limit) = limit * (page - 1) /\ limit * 0 = 0
      BY <2>1 DEF SkipOf
    <3> QED BY <2>1, <3>1, <3>2 DEF HasPrev
  <2>5. HasNext(page, total, limit) <=> SkipOf(page, limit) + limit < total
    BY <2>1, <2>2, <2>3, PagesLeft DEF HasNext
  <2> QED BY <2>4, <2>5
<1> QED BY <1>2, <1>3 DEF PagesCover

\* Whatever number a client asks for, fractions and infinities included: the page is
\* at least 1, the limit from 1 to the cap, never 0 (no limit) nor negative, and the
\* skip never negative.  Nothing more: a fractional page or limit stays one, and an
\* infinite page makes an infinite skip (pagination.util.ts normalizePagination).
THEOREM QueriesAreNormalized ==
  \A page, limit \in Query :
    /\ NormalPage(page) = Infinity \/ NormalPage(page) \in {p \in Int : p >= Grain}
    /\ NormalLimit(limit) \in Grain .. MaxLimit * Grain
    /\ \/ NormalSkip(NormalPage(page), NormalLimit(limit)) = Infinity
       \/ NormalSkip(NormalPage(page), NormalLimit(limit)) \in Nat
<1> TAKE page, limit \in Query
<1>1. NormalPage(page) = Infinity \/ NormalPage(page) \in {p \in Int : p >= Grain}
  BY QueryAssumption DEF NormalPage, AtLeast, OrDefault, Query
<1>2. NormalLimit(limit) \in Grain .. MaxLimit * Grain
  <2> DEFINE q == AtLeast(Grain, OrDefault(limit, 20 * Grain))
  <2>1. q = Infinity \/ (q \in Int /\ q >= Grain)
    BY QueryAssumption DEF AtLeast, OrDefault, Query
  <2>2. MaxLimit * Grain \in Int /\ MaxLimit * Grain >= Grain
    BY QueryAssumption DEF MaxLimit
  <2>3. NormalLimit(limit) = AtMost(MaxLimit * Grain, q)
    BY DEF NormalLimit
  <2> HIDE DEF q
  <2> QED BY <2>1, <2>2, <2>3, QueryAssumption DEF AtMost
<1>3. \A n \in Nat, d \in Nat : n * d \in Nat
  OBVIOUS
<1>4. NormalLimit(limit) \in Nat
  BY <1>2, QueryAssumption DEF MaxLimit
<1>5. CASE NormalPage(page) = Infinity
  BY <1>1, <1>2, <1>5 DEF NormalSkip
<1>6. CASE NormalPage(page) # Infinity
  <2>1. NormalPage(page) - Grain \in Nat
    BY <1>1, <1>6, QueryAssumption
  <2> QED BY <1>1, <1>2, <1>3, <1>4, <1>6, <2>1 DEF NormalSkip
<1> QED BY <1>5, <1>6

===============================================================================
