----------------------------- MODULE PostsService -----------------------------
(***************************************************************************)
(* The posts service: a Node process that serves HTTP requests over one    *)
(* MongoDB collection (apps/posts-service, libs/database).                 *)
(*                                                                         *)
(* Every mutating handler is a read followed, after an `await`, by one     *)
(* atomic findOneAndUpdate.  Other requests run in between.  A request     *)
(* slot holds what a handler keeps in its local variables across that      *)
(* await: the $set document it is about to send.  For update, publish and  *)
(* delete this is the few fields the client or the handler named; for like *)
(* and unlike it is the WHOLE document read before the await, because the  *)
(* hydrated Mongoose document itself is passed as the update.              *)
(*                                                                         *)
(* The bodies of POST and PUT have inline types, which the ValidationPipe   *)
(* neither validates nor whitelists: a body may name every field of the     *)
(* schema, userId, likedBy, likesCount and deletedAt included.              *)
(*                                                                         *)
(* Data abstraction: title, content, images and tags are one field         *)
(* `content`; deletedAt is TRUE when it holds a date; likedBy is a set of  *)
(* listings <<user, n>>, for only a body can list a user twice; createdAt  *)
(* and updatedAt are left out, no property is about them.                  *)
(***************************************************************************)
EXTENDS Integers, FiniteSets

CONSTANTS
  Users,       \* the values of user.sub
  Posts,       \* document ids the database can hand out
  Requests,    \* request slots: how many handlers may be in flight at once
  Contents,    \* values of the content field
  NewBodies,   \* the bodies of POST /posts that pass the schema's validation
  Bodies,      \* the bodies of PUT /posts/:id
  MaxListed,   \* how often a body may list a user in likedBy
  RoleOf,      \* the role each user's access token carries
  Reactors,    \* the users who like and unlike
  NoPost       \* the value of an id no document has

\* The values of the UserRole enum the tokens are issued with (@app/common).
TokenRoles == {"admin", "user", "guest"}

\* UserRole.ADMIN of the enum the posts controller imports (@app/constants).
RoleADMIN == "ADMIN"

\* The enum of the schema; only inserts are validated, so an update may set others.
Statuses == {"draft", "published", "archived"}
AnyStatus == Statuses \cup {"other"}

\* likedBy, an array, as the set of its entries: user u's first, second, ... one.
Listings == Users \X (1 .. MaxListed)
Lists(likedBy, u) == \E n \in 1 .. MaxListed : <<u, n>> \in likedBy
Listed(doc, u) == Lists(doc.likedBy, u)

\* The schema's fields, and what they hold.
Domains == [userId |-> Users, content |-> Contents, status |-> AnyStatus,
            likedBy |-> SUBSET Listings, likesCount |-> Int, deletedAt |-> BOOLEAN]

Doc == [userId : Users, content : Contents, status : AnyStatus,
        likedBy : SUBSET Listings, likesCount : Int, deletedAt : BOOLEAN]

\* A body: any choice of the fields.
IsBody(b) == DOMAIN b \subseteq DOMAIN Domains /\ \A f \in DOMAIN b : b[f] \in Domains[f]

\* What save() validates: a post has a content, and a status of the enum.
IsValid(b) == "content" \in DOMAIN b /\ ("status" \in DOMAIN b => b.status \in Statuses)

ASSUME RolesAssumption == RoleOf \in [Users -> TokenRoles]
ASSUME ReactorsAssumption == Reactors \subseteq Users
ASSUME UsersAssumption == IsFiniteSet(Users) /\ MaxListed \in Nat \ {0}
ASSUME BodiesAssumption == \A b \in Bodies : IsBody(b)
ASSUME NewBodiesAssumption == \A b \in NewBodies : IsBody(b) /\ IsValid(b)
ASSUME NoPostAssumption == NoPost \notin Doc

VARIABLES
  posts,       \* the collection
  slot,        \* the state of each request slot
  submitted    \* history: the contents a post was sent by its creator and its authors

vars == <<posts, slot, submitted>>

-------------------------------------------------------------------------------
(* Documents and $set updates. *)

DeleteUpdate == [deletedAt |-> TRUE]

\* Faulty variant: the status in capitals, as the enums of @app/constants are.
PublishUpdate_Capitals == [status |-> "PUBLISHED"]

PublishUpdate == [status |-> "published"]

\* What findOneAndUpdate may be sent: a few fields or a whole document.
Update == Bodies \cup {DeleteUpdate, PublishUpdate} \cup Doc

\* Faulty variant: the schema's defaults are filled in on update as on insert.
SetFields_Defaults(doc, upd) ==
  LET Field(f, default) == IF f \in DOMAIN upd THEN upd[f] ELSE default
  IN  [userId     |-> Field("userId", doc.userId),
       content    |-> Field("content", doc.content),
       status     |-> Field("status", "draft"),
       likedBy    |-> Field("likedBy", doc.likedBy),
       likesCount |-> Field("likesCount", doc.likesCount),
       deletedAt  |-> Field("deletedAt", FALSE)]

\* findOneAndUpdate(filter, upd): Mongoose wraps upd in $set, so the fields it
\* has replace those of the stored document and the others stay.
SetFields(doc, upd) ==
  LET Field(f) == IF f \in DOMAIN upd THEN upd[f] ELSE doc[f]
  IN  [userId     |-> Field("userId"),
       content    |-> Field("content"),
       status     |-> Field("status"),
       likedBy    |-> Field("likedBy"),
       likesCount |-> Field("likesCount"),
       deletedAt  |-> Field("deletedAt")]

\* The requester and the schema's defaults, for what the body does not name.
NewPost(u, b) ==
  SetFields([userId |-> u, content |-> b.content, status |-> "draft",
             likedBy |-> {}, likesCount |-> 0, deletedAt |-> FALSE], b)

\* Faulty variants of like: the count taken before the push; the update spread
\* over the requester's userId, as the todos service does; a fresh deletedAt; and
\* the count raised without the list.
Liked(doc, u) == doc.likedBy \cup {<<u, 1>>}

LikeUpdate_CountsBefore(doc, u) ==
  [doc EXCEPT !.likedBy = Liked(doc, u), !.likesCount = Cardinality(doc.likedBy)]

LikeUpdate_TakesOver(doc, u) ==
  [doc EXCEPT !.userId = u, !.likedBy = Liked(doc, u), !.likesCount = Cardinality(Liked(doc, u))]

LikeUpdate_Undeletes(doc, u) ==
  [doc EXCEPT !.deletedAt = FALSE, !.likedBy = Liked(doc, u),
              !.likesCount = Cardinality(Liked(doc, u))]

LikeUpdate_CountsOnly(doc, u) == [doc EXCEPT !.likesCount = Cardinality(Liked(doc, u))]

\* Faulty variant of unlike: everybody removed.
UnlikeUpdate_Clears(doc, u) == [doc EXCEPT !.likedBy = {}, !.likesCount = 0]

\* The documents like and unlike write back: one listing more, or all of the user's
\* filtered out.
LikeUpdate(doc, u) ==
  [doc EXCEPT !.likedBy = Liked(doc, u), !.likesCount = Cardinality(Liked(doc, u))]

Unliked(doc, u) == {l \in doc.likedBy : l[1] # u}

UnlikeUpdate(doc, u) ==
  [doc EXCEPT !.likedBy = Unliked(doc, u), !.likesCount = Cardinality(Unliked(doc, u))]

\* Faulty variant: no ownership check.
MayWrite_Anyone(doc, u) == TRUE

\* The check update, delete and publish make on the document they read.
MayWrite(doc, u) == doc.userId = u \/ RoleOf[u] = RoleADMIN

-------------------------------------------------------------------------------
(* Request slots. *)

Ops == {"update", "delete", "publish", "like", "unlike"}
Results == {"ok", "not_found", "unauthorized", "failed"}

Slot == [phase : {"free"}]
          \cup [phase : {"writing"}, op : Ops, user : Users, post : Posts, update : Update]
          \cup [phase : {"replied"}, result : Results]

\* A slot whose handler is gone can take the next request.
CanStart(r) == slot[r].phase # "writing"

Writing(r, p) == slot[r].phase = "writing" /\ slot[r].post = p

Reply(r, result) ==
  slot' = [slot EXCEPT ![r] = [phase |-> "replied", result |-> result]]

AwaitWrite(r, op, u, p, upd) ==
  slot' = [slot EXCEPT ![r] =
             [phase |-> "writing", op |-> op, user |-> u, post |-> p, update |-> upd]]

-------------------------------------------------------------------------------
Init ==
  /\ posts = [p \in Posts |-> NoPost]
  /\ slot = [r \in Requests |-> [phase |-> "free"]]
  /\ submitted = [p \in Posts |-> {}]

\* POST /posts.  One insert, under an id MongoDB chooses; its answer can be lost.
CreatePost(r, u, p, b) ==
  /\ CanStart(r)
  /\ posts[p] = NoPost
  /\ posts' = [posts EXCEPT ![p] = NewPost(u, b)]
  /\ submitted' = [submitted EXCEPT ![p] = {b.content}]
  /\ \E result \in {"ok", "failed"} : Reply(r, result)

\* POST /posts with a body the schema's validation refuses, or whose insert fails.
CreateNothing(r) ==
  /\ CanStart(r)
  /\ Reply(r, "failed")
  /\ UNCHANGED <<posts, submitted>>

\* Every handler with an id starts with findById, which throws NotFoundException
\* when there is no document with that id.
FindNothing(r, u, p) ==
  /\ CanStart(r)
  /\ posts[p] = NoPost
  /\ Reply(r, "not_found")
  /\ UNCHANGED <<posts, submitted>>

\* GET /posts/:id.
GetPost(r, u, p) ==
  /\ CanStart(r)
  /\ posts[p] # NoPost
  /\ Reply(r, "ok")
  /\ UNCHANGED <<posts, submitted>>

\* PUT /posts/:id, DELETE /posts/:id and POST /posts/:id/publish by a user the
\* check turns away.
Refuse(r, u, p) ==
  /\ CanStart(r)
  /\ posts[p] # NoPost
  /\ ~MayWrite(posts[p], u)
  /\ Reply(r, "unauthorized")
  /\ UNCHANGED <<posts, submitted>>

\* PUT /posts/:id up to its second await.
BeginUpdate(r, u, p, b) ==
  /\ CanStart(r)
  /\ posts[p] # NoPost
  /\ MayWrite(posts[p], u)
  /\ AwaitWrite(r, "update", u, p, b)
  /\ submitted' = [submitted EXCEPT ![p] =
        IF u = posts[p].userId /\ "content" \in DOMAIN b THEN @ \cup {b.content} ELSE @]
  /\ UNCHANGED posts

\* DELETE /posts/:id up to its second await.
BeginDelete(r, u, p) ==
  /\ CanStart(r)
  /\ posts[p] # NoPost
  /\ MayWrite(posts[p], u)
  /\ AwaitWrite(r, "delete", u, p, DeleteUpdate)
  /\ UNCHANGED <<posts, submitted>>

\* POST /posts/:id/publish up to its second await.
BeginPublish(r, u, p) ==
  /\ CanStart(r)
  /\ posts[p] # NoPost
  /\ MayWrite(posts[p], u)
  /\ AwaitWrite(r, "publish", u, p, PublishUpdate)
  /\ UNCHANGED <<posts, submitted>>

\* PATCH /posts/:id/like: nothing is written when the user is already a liker.
LikeAgain(r, u, p) ==
  /\ CanStart(r)
  /\ posts[p] # NoPost
  /\ Listed(posts[p], u)
  /\ Reply(r, "ok")
  /\ UNCHANGED <<posts, submitted>>

BeginLike(r, u, p) ==
  /\ CanStart(r)
  /\ posts[p] # NoPost
  /\ ~Listed(posts[p], u)
  /\ AwaitWrite(r, "like", u, p, LikeUpdate(posts[p], u))
  /\ UNCHANGED <<posts, submitted>>

\* PATCH /posts/:id/unlike writes in every case.
BeginUnlike(r, u, p) ==
  /\ CanStart(r)
  /\ posts[p] # NoPost
  /\ AwaitWrite(r, "unlike", u, p, UnlikeUpdate(posts[p], u))
  /\ UNCHANGED <<posts, submitted>>

\* findOneAndUpdate: the write, and its answer unless that is lost.  Documents
\* are never removed, so the filter { _id } always finds its document.
CommitWrite(r) ==
  /\ slot[r].phase = "writing"
  /\ LET s == slot[r] IN
       /\ posts' = [posts EXCEPT ![s.post] = SetFields(@, s.update)]
       /\ \E result \in {"ok", "failed"} : Reply(r, result)
  /\ UNCHANGED submitted

\* The database call fails, or the process dies, before the write took effect.
\* A crash of the process is this step for every slot that is writing.
AbortWrite(r) ==
  /\ slot[r].phase = "writing"
  /\ Reply(r, "failed")
  /\ UNCHANGED <<posts, submitted>>

\* The requests that write nothing, and the first half of those that will.
Start(r) ==
  \/ CreateNothing(r)
  \/ \E p \in Posts, u \in Users :
       \/ FindNothing(r, u, p)
       \/ GetPost(r, u, p)
       \/ Refuse(r, u, p)
       \/ \E b \in Bodies : BeginUpdate(r, u, p, b)
       \/ BeginDelete(r, u, p)
       \/ BeginPublish(r, u, p)
  \/ \E p \in Posts, u \in Reactors : BeginLike(r, u, p) \/ BeginUnlike(r, u, p)

Next ==
  \E r \in Requests :
    \/ \E p \in Posts, u \in Users, b \in NewBodies : CreatePost(r, u, p, b)
    \/ \E p \in Posts, u \in Reactors : LikeAgain(r, u, p)
    \/ Start(r)
    \/ CommitWrite(r)
    \/ AbortWrite(r)

Spec == Init /\ [][Next]_vars

-------------------------------------------------------------------------------
(* Properties. *)

TypeOK ==
  /\ posts \in [Posts -> Doc \cup {NoPost}]
  /\ slot \in [Requests -> Slot]
  /\ submitted \in [Posts -> SUBSET Contents]

Exists(p) == posts[p] # NoPost

\* A request that will replace the whole document of p.
WritingBack(r, p) == Writing(r, p) /\ slot[r].op \in {"like", "unlike"}

\* A request that names field f, a body of its own choice or a publication or a
\* deletion, takes effect on p.
Sets(p, f) ==
  \E r \in Requests : /\ Writing(r, p) /\ slot[r].op \notin {"like", "unlike"}
                      /\ f \in DOMAIN slot[r].update
                      /\ CommitWrite(r)

\* likesCount follows likedBy: a count that is the number of likers stays so, however
\* likes, unlikes and other requests interleave, until a body names one of the two
\* fields; and whoever likes or unlikes sets it right again (posts.service.ts like, unlike).
CountIsExact(p) == posts[p].likesCount = Cardinality(posts[p].likedBy)

LikesCountFollows ==
  [][\A p \in Posts : Exists(p) =>
       /\ CountIsExact(p) => CountIsExact(p)' \/ Sets(p, "likedBy") \/ Sets(p, "likesCount")
       /\ (\E r \in Requests : WritingBack(r, p) /\ CommitWrite(r)) => CountIsExact(p)']_vars

\* The content of a post was sent by its creator, or by a user who was its author
\* when sending it: the check is made on a document read before the write, likes
\* write documents back, and a post may have been handed on meanwhile, but none of
\* that lets anybody else's text in (posts.controller.ts update, posts.service.ts like).
ContentFromAuthor ==
  \A p \in Posts : Exists(p) => posts[p].content \in submitted[p]

\* Field f of p is settled when no document read before its last change is still to be
\* written back.  From then on it changes only by a request that names it.
Settled(p, f) ==
  Exists(p) /\ \A r \in Requests : WritingBack(r, p) => slot[r].update[f] = posts[p][f]

Settles(p, f) ==
  Settled(p, f) => (Settled(p, f)' /\ posts'[p][f] = posts[p][f]) \/ Sets(p, f)

\* A settled deletion is undone only by a body that names deletedAt, for no route
\* restores a post; likes and unlikes leave it alone (abstract.repository.ts
\* softDelete, posts.service.ts like, unlike).
DeletionsSettle == [][\A p \in Posts : Settles(p, "deletedAt")]_vars

\* A settled content or status changes only by an edit or a publication
\* (posts.controller.ts update, publish; posts.service.ts like, unlike).
EditsSettle == [][\A p \in Posts, f \in {"content", "status"} : Settles(p, f)]_vars

\* A settled author stays until a body hands the post on, whose sender was its author
\* when asking (posts.controller.ts update; posts.service.ts like, unlike).
AuthorsSettle == [][\A p \in Posts : Settles(p, "userId")]_vars

\* Likewise for reactions, one by one: once no handler holds a document that disagrees
\* about user u, only u's own unlike (or like) starts to change it, or a body that
\* names likedBy changes it (posts.service.ts like, unlike).
LikeSettled(p, u) ==
  /\ Exists(p)
  /\ Listed(posts[p], u)
  /\ \A r \in Requests : WritingBack(r, p) => Listed(slot[r].update, u)

UnlikeSettled(p, u) ==
  /\ Exists(p)
  /\ ~Listed(posts[p], u)
  /\ \A r \in Requests : WritingBack(r, p) => ~Listed(slot[r].update, u)

ReactionsSettle ==
  [][\A p \in Posts, u \in Users :
       /\ LikeSettled(p, u) =>
            LikeSettled(p, u)' \/ Sets(p, "likedBy") \/ \E r \in Requests : BeginUnlike(r, u, p)
       /\ UnlikeSettled(p, u) =>
            UnlikeSettled(p, u)' \/ Sets(p, "likedBy") \/ \E r \in Requests : BeginLike(r, u, p)]_vars

\* The collection, and the promise of PostsBook: requests act on it one at a time, as
\* long as no like or unlike overlaps another write (posts.controller.ts, posts.service.ts).
BookState == [p \in {q \in Posts : Exists(q)} |-> posts[p]]

Book == INSTANCE PostsBook WITH book <- BookState

KeepsBook == Book!Spec

===============================================================================
