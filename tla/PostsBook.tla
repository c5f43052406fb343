------------------------------- MODULE PostsBook -------------------------------
(***************************************************************************)
(* What the posts API promises, with every request one atomic step on a    *)
(* table of posts: unless its body says otherwise, who writes a post is    *)
(* its author and nobody likes it yet; an edit changes what its body names *)
(* and nothing else, whatever other requests are under way; a deletion     *)
(* marks the post; a reaction touches the reactions alone, of them one     *)
(* user's, and makes the count the number of entries.                      *)
(***************************************************************************)
EXTENDS Integers, FiniteSets

CONSTANTS Users, Posts, Bodies, NewBodies, MaxListed

VARIABLE book     \* the posts there are

InBook(p) == p \in DOMAIN book

\* Entry e with the fields that b names replaced.
Overlay(e, b) == [f \in DOMAIN e |-> IF f \in DOMAIN b THEN b[f] ELSE e[f]]

Blank(u, b) == [userId |-> u, content |-> b.content, status |-> "draft",
                likedBy |-> {}, likesCount |-> 0, deletedAt |-> FALSE]

Write(p, u, b) ==
  /\ ~InBook(p)
  /\ book' = [q \in DOMAIN book \cup {p} |-> IF q = p THEN Overlay(Blank(u, b), b) ELSE book[q]]

Edit(p, b) == InBook(p) /\ book' = [book EXCEPT ![p] = Overlay(@, b)]

Publish(p) == InBook(p) /\ book' = [book EXCEPT ![p].status = "published"]

Delete(p) == InBook(p) /\ book' = [book EXCEPT ![p].deletedAt = TRUE]

\* The entries of the other users stay, and user u has one, or none.
React(p, u) ==
  /\ InBook(p)
  /\ \E mine \in {{}, {<<u, 1>>}} :
       LET likedBy == (book[p].likedBy \ ({u} \X (1 .. MaxListed))) \cup mine
       IN  book' = [book EXCEPT ![p].likedBy = likedBy, ![p].likesCount = Cardinality(likedBy)]

Init == book = [p \in {} |-> p]

Next ==
  \E p \in Posts :
    \/ \E u \in Users, b \in NewBodies : Write(p, u, b)
    \/ \E b \in Bodies : Edit(p, b)
    \/ Publish(p) \/ Delete(p)
    \/ \E u \in Users : React(p, u)

Spec == Init /\ [][Next]_book
===============================================================================
