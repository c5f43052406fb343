----------------------------- MODULE PostsClients -----------------------------
(***************************************************************************)
(* The posts service seen by the clients that get its answers.  `acked`    *)
(* remembers, for each post, what the last acknowledged request about each *)
(* part of it was told; a request that took effect but whose answer was    *)
(* lost leaves that part unsure.  The service itself is unchanged:         *)
(* ClientsSpec is PostsService!Spec with this history.                     *)
(***************************************************************************)
EXTENDS PostsService

CONSTANT Unsure       \* no acknowledged value

ASSUME UnsureAssumption == Unsure \notin Contents \cup AnyStatus

VARIABLE acked

clientVars == <<posts, slot, submitted, acked>>

\* What is known of a post: its content, its status, whether it was deleted, and
\* each user's reaction, "in" or "out" of likedBy, or "unsure".
NothingKnown == [content |-> Unsure, status |-> Unsure, deletedAt |-> FALSE,
                 likes |-> [u \in Users |-> "out"]]

\* What a body says of a post, once it is known to have been written ...
Learnt(k, b) ==
  [k EXCEPT !.content = IF "content" \in DOMAIN b THEN b.content ELSE @,
            !.status = IF "status" \in DOMAIN b THEN b.status ELSE @,
            !.deletedAt = IF "deletedAt" \in DOMAIN b THEN b.deletedAt ELSE @,
            !.likes = IF "likedBy" \in DOMAIN b
                        THEN [u \in Users |-> IF Lists(b.likedBy, u) THEN "in" ELSE "out"] ELSE @]

\* ... and what it leaves open when it may have been.
Doubted(k, b) ==
  [k EXCEPT !.content = IF "content" \in DOMAIN b THEN Unsure ELSE @,
            !.status = IF "status" \in DOMAIN b THEN Unsure ELSE @,
            !.deletedAt = @ /\ ("deletedAt" \in DOMAIN b => b.deletedAt),
            !.likes = IF "likedBy" \in DOMAIN b THEN [u \in Users |-> "unsure"] ELSE @]

\* The knowledge after the request in slot s was answered with success.
Told(k, s) ==
  CASE s.op = "like"   -> [k EXCEPT !.likes[s.user] = "in"]
    [] s.op = "unlike" -> [k EXCEPT !.likes[s.user] = "out"]
    [] OTHER -> Learnt(k, s.update)

\* The knowledge after it took effect and its answer was lost.
Doubt(k, s) ==
  IF s.op \in {"like", "unlike"} THEN [k EXCEPT !.likes[s.user] = "unsure"]
  ELSE Doubted(k, s.update)

ClientsInit == Init /\ acked = [p \in Posts |-> NothingKnown]

LearnFromCreate(r, u, p, b) ==
  /\ CreatePost(r, u, p, b)
  /\ acked' = [acked EXCEPT ![p] = IF slot'[r].result = "ok" THEN Learnt(@, b) ELSE Doubted(@, b)]

LearnFromLikeAgain(r, u, p) ==
  /\ LikeAgain(r, u, p)
  /\ acked' = [acked EXCEPT ![p].likes[u] = "in"]

LearnFromWrite(r) ==
  /\ CommitWrite(r)
  /\ LET s == slot[r] IN
       acked' = [acked EXCEPT ![s.post] =
                   IF slot'[r].result = "ok" THEN Told(@, s) ELSE Doubt(@, s)]

ClientsNext ==
  \E r \in Requests :
    \/ \E p \in Posts, u \in Users, b \in NewBodies : LearnFromCreate(r, u, p, b)
    \/ \E p \in Posts, u \in Reactors : LearnFromLikeAgain(r, u, p)
    \/ LearnFromWrite(r)
    \/ (Start(r) \/ AbortWrite(r)) /\ UNCHANGED acked

ClientsSpec == ClientsInit /\ [][ClientsNext]_clientVars

\* Clients whose likes and unlikes never overlap another request that writes.
ReactionsAlone ==
  \A r, q \in Requests :
    r # q /\ slot[r].phase = "writing" /\ slot[q].phase = "writing"
      => slot[r].op \notin {"like", "unlike"}

AloneSpec == ClientsInit /\ [][ClientsNext /\ ReactionsAlone']_clientVars

-------------------------------------------------------------------------------
(* Properties. *)

\* What a user was told of its reaction, by a like, an unlike or a body that named
\* likedBy, whichever was last, is what the document lists (posts.service.ts like,
\* unlike; docs/POSTS_SERVICE_GUIDE.md).
AckedReactions ==
  \A p \in Posts : Exists(p) =>
    \A u \in Users : /\ acked[p].likes[u] = "in"  => Listed(posts[p], u)
                     /\ acked[p].likes[u] = "out" => ~Listed(posts[p], u)

\* Content and status that were acknowledged last, in creating the post, editing or
\* publishing it, are those of the document (posts.controller.ts update, publish).
AckedEdits ==
  \A p \in Posts : Exists(p) =>
    /\ acked[p].content \in {Unsure, posts[p].content}
    /\ acked[p].status \in {Unsure, posts[p].status}

\* A post whose deletion was acknowledged is deleted, until a body that says otherwise
\* takes effect (posts.controller.ts delete, update; abstract.repository.ts softDelete).
AckedDeletions == \A p \in Posts : acked[p].deletedAt => Exists(p) /\ posts[p].deletedAt

===============================================================================
