---------------------------- MODULE MCPostsClients ----------------------------
\* Instances of PostsClients for TLC: the constants are those of MCPostsService.
EXTENDS PostsClients, MCPostsService

\* A revision, a restoration, a handover and a body that lists ann twice.
MCBodies ==
  {[content |-> c2, status |-> "draft"], [deletedAt |-> FALSE], [userId |-> bob],
   [likedBy |-> {<<ann, 1>>, <<ann, 2>>}]}

MCPlainBodies == {[content |-> c1]}

MCNewBodies ==
  MCPlainBodies \cup
    {[content |-> c2, status |-> "published", likedBy |-> {<<bob, 1>>}]}
===============================================================================
