----------------------------- MODULE MCDocuments -----------------------------
(* Two users, two documents; limits of zero, below and above.  The gateway's   *)
(* lists are second pages, inside and past the lists' ends and before their    *)
(* beginnings; first pages are those of the lists on a field and of the empty  *)
(* limit.                                                                      *)
EXTENDS Documents, Pagination

CONSTANTS ann, bob, d1, d2, done, r1, r2

MCUsers == {ann, bob}
MCIds == {d1, d2}
MCMarks == {done}
MCRequests == {r1, r2}
MCPages == {2}
MCLimits == -1 .. 1

\* What a body sets that the routes do not ask for, but for the mark.
MCNewBodies == {[owner |-> bob]}
MCBodies == {[mark |-> done], [deleted |-> FALSE]}

\* The pages of up to eleven items cover them.
ASSUME PagesCovered == \A total \in 0 .. 11, limit \in 1 .. 5 : PagesCover(total, limit)

===============================================================================
