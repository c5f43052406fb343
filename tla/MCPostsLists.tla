------------------------------ MODULE MCPostsLists ------------------------------
\* An instance of PostsLists for TLC: the constants are those of MCPostsService.
EXTENDS PostsLists, MCPostsService

\* A body that withdraws and restores the post, with another content and nobody's
\* reaction but the old count, and a handover to either user.
MCBodies ==
  {[content |-> c2, status |-> "draft", deletedAt |-> FALSE, likedBy |-> {}]}
    \cup {[userId |-> u] : u \in Users}

MCNewBodies == {[content |-> c1]}

\* Pages before, on and after the only one.
MCPages == 0 .. 2
MCLimits == {1}

===============================================================================
