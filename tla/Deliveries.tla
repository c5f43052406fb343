------------------------------- MODULE Deliveries -------------------------------
(***************************************************************************)
(* What a queue and its consumers promise together, whatever runs between  *)
(* them: each delivery owed comes to at most one end, one of those it may  *)
(* come to, and the end is final; nothing owed disappears, but for what a  *)
(* crash may take.                                                         *)
(***************************************************************************)
CONSTANTS
  Items,        \* what may be delivered
  Ends,         \* Ends[i]: how the delivery of i may end
  Losable       \* the items a crash may take

VARIABLE fate   \* fate[i]: "absent", "owed", "lost", or one of Ends[i]

Init == fate \in [Items -> {"absent", "owed"}]

Become(S, f) == fate' = [i \in Items |-> IF i \in S THEN f ELSE fate[i]]

\* A message is put in the queues it is routed to.
Owe(S) == (\A i \in S : fate[i] = "absent") /\ Become(S, "owed")

End(i, e) == fate[i] = "owed" /\ e \in Ends[i] /\ Become({i}, e)

Lose(S) == (\A i \in S : fate[i] = "owed") /\ Become(S, "lost")

Next == \/ \E S \in SUBSET Items : Owe(S)
        \/ \E i \in Items : \E e \in Ends[i] : End(i, e)
        \/ \E S \in SUBSET Losable : Lose(S)

Spec == Init /\ [][Next]_fate

===============================================================================
