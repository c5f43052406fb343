---------------------------- MODULE MCPostsService ----------------------------
(* Instances of PostsService for TLC.                                          *)
EXTENDS PostsService, TLC

CONSTANTS ann, bob, c1, c2

MCUsers == {ann, bob}
MCPosts == {"p1"}
MCContents == {c1, c2}

\* An ordinary account and an administrator's; or administrators only.
MCBobAdmin == [u \in Users |-> IF u = bob THEN "admin" ELSE "user"]
MCAllAdmins == [u \in Users |-> "admin"]

RequestSymmetry == Permutations(Requests)

\* Where both users have the same role and do everything, they are interchangeable too.
FullSymmetry == Permutations(Requests) \cup Permutations(Users)
===============================================================================
