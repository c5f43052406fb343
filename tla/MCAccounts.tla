------------------------------ MODULE MCAccounts ------------------------------
(* A client and an administrator, two accounts, two addresses, one of which    *)
(* clients do not write the way it is stored.                                  *)
EXTENDS Accounts

CONSTANTS ann, bob, u1, u2, r1, r2

MCClients == {ann, bob}
MCAdmins == {bob}
MCIds == {u1, u2}
MCRequests == {r1, r2}
MCSpellings == {" A@X", "b@x"}
MCCanonical == [s \in MCSpellings |-> IF s = "b@x" THEN "b@x" ELSE "a@x"]

\* An address, which the route asks for, and two fields it does not; deletedAt is left out.
MCBodies == {[email |-> " A@X", password |-> bob, role |-> "admin"]}

===============================================================================
