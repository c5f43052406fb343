-------------------------- MODULE PostsClientsProofs --------------------------
(***************************************************************************)
(* A posts service whose likes and unlikes never overlap a write keeps     *)
(* what it told its clients and implements PostsBook, whatever the users,  *)
(* posts, contents, bodies and number of requests.  What overlap breaks is *)
(* exactly Fresh: the document a like or an unlike writes back is the      *)
(* stored one with that single reaction changed.                           *)
(***************************************************************************)
EXTENDS PostsServiceProofs, PostsClients

Fresh ==
  \A r \in Requests : slot[r].phase = "writing" =>
    LET s == slot[r] IN
      /\ s.op = "like" => /\ s.update = LikeUpdate(posts[s.post], s.user)
                          /\ ~Listed(posts[s.post], s.user)
      /\ s.op = "unlike" => s.update = UnlikeUpdate(posts[s.post], s.user)

\* A step leaves the document alone that a like or an unlike is about to replace.
LEMMA WriteBackUndisturbed ==
  ASSUME IInv, ReactionsAlone, [Next]_vars, NEW q \in Requests, NEW p \in Posts,
         WritingBack(q, p), slot'[q] = slot[q]
  PROVE  posts'[p] = posts[p]
<1>1. Exists(p)
  BY DEF WritingBack, Writing, IInv, PendingSound, SlotSound
<1>2. ASSUME NEW r \in Requests, NEW p1 \in Posts, NEW u \in Users, NEW b \in NewBodies,
             CreatePost(r, u, p1, b)
      PROVE  posts'[p] = posts[p]
  BY <1>1, <1>2, CreateEffect
<1>3. ASSUME NEW r \in Requests, CommitWrite(r)
      PROVE  FALSE
  <2>1. slot'[r].phase = "replied" /\ slot[r].phase = "writing"
    BY <1>3 DEF CommitWrite, Reply, IInv, TypeOK
  <2>2. r # q
    BY <2>1 DEF WritingBack, Writing
  <2> QED BY <2>1, <2>2 DEF ReactionsAlone, WritingBack, Writing
<1> QED BY <1>2, <1>3, StepKinds

LEMMA NextFresh ==
  ASSUME IInv, IInv', Fresh, ReactionsAlone, [Next]_vars
  PROVE  Fresh'
<1> SUFFICES ASSUME NEW q \in Requests, slot'[q].phase = "writing", slot'[q].op \in {"like", "unlike"}
             PROVE  LET s == slot'[q] IN
                      /\ s.op = "like" => /\ s.update = LikeUpdate(posts'[s.post], s.user)
                                          /\ ~Listed(posts'[s.post], s.user)
                      /\ s.op = "unlike" => s.update = UnlikeUpdate(posts'[s.post], s.user)
  BY DEF Fresh
<1>1. PICK p \in Posts : p = slot'[q].post
  BY DEF IInv, TypeOK, Slot
<1>2. WritingBack(q, p)'
  BY <1>1 DEF WritingBack, Writing
<1>3. CASE WritingBack(q, p) /\ slot'[q] = slot[q]
  <2>1. posts'[p] = posts[p]
    BY <1>1, <1>3, WriteBackUndisturbed
  <2> QED BY <1>1, <1>3, <2>1 DEF Fresh, WritingBack, Writing
<1>4. ASSUME UNCHANGED posts, NEW u \in Reactors, BeginLike(q, u, p), slot'[q].update = LikeUpdate(posts[p], u)
      PROVE  /\ slot'[q].op = "like" /\ slot'[q].update = LikeUpdate(posts'[p], slot'[q].user)
             /\ ~Listed(posts'[p], slot'[q].user)
  BY <1>1, <1>4 DEF BeginLike, AwaitWrite, IInv, TypeOK
<1>5. ASSUME UNCHANGED posts, NEW u \in Reactors, BeginUnlike(q, u, p), slot'[q].update = UnlikeUpdate(posts[p], u)
      PROVE  slot'[q].op = "unlike" /\ slot'[q].update = UnlikeUpdate(posts'[p], slot'[q].user)
  BY <1>1, <1>5 DEF BeginUnlike, AwaitWrite, IInv, TypeOK
<1>6. \/ WritingBack(q, p) /\ slot'[q] = slot[q]
      \/ /\ UNCHANGED posts
         /\ \E u \in Reactors :
              \/ BeginLike(q, u, p) /\ slot'[q].update = LikeUpdate(posts[p], u)
              \/ BeginUnlike(q, u, p) /\ slot'[q].update = UnlikeUpdate(posts[p], u)
  BY <1>1, <1>2, WriteBackKinds
<1>7. CASE UNCHANGED posts /\ \E u \in Reactors :
              \/ BeginLike(q, u, p) /\ slot'[q].update = LikeUpdate(posts[p], u)
              \/ BeginUnlike(q, u, p) /\ slot'[q].update = UnlikeUpdate(posts[p], u)
  BY <1>1, <1>4, <1>5, <1>7
<1> QED BY <1>1, <1>3, <1>6, <1>7

-------------------------------------------------------------------------------
(* How a change of the collection shows in the book. *)

\* Each operation sends the update of its own kind.
Shaped ==
  \A r \in Requests : slot[r].phase = "writing" =>
    /\ slot[r].op = "update" => slot[r].update \in Bodies
    /\ slot[r].op = "publish" => slot[r].update = PublishUpdate
    /\ slot[r].op = "delete" => slot[r].update = DeleteUpdate

LEMMA InitShaped == Init => Shaped
  BY DEF Init, Shaped

LEMMA NextShaped == IInv /\ Shaped /\ [Next]_vars => Shaped'
<1> SUFFICES ASSUME IInv, Shaped, [Next]_vars PROVE Shaped'
  OBVIOUS
<1>1. CASE UNCHANGED vars
  BY <1>1 DEF vars, Shaped
<1>2. ASSUME NEW r \in Requests, NEW result, Reply(r, result)
      PROVE  Shaped'
  BY <1>2 DEF Reply, Shaped, IInv, TypeOK
<1>3. ASSUME NEW r \in Requests, NEW u, NEW p, NEW op, NEW upd, AwaitWrite(r, op, u, p, upd),
             op = "update" => upd \in Bodies,
             op = "publish" => upd = PublishUpdate,
             op = "delete" => upd = DeleteUpdate
      PROVE  Shaped'
  BY <1>3 DEF AwaitWrite, Shaped, IInv, TypeOK
<1>4. ASSUME NEW r \in Requests, Start(r)
      PROVE  Shaped'
  BY <1>2, <1>3, <1>4 DEF Start, CreateNothing, FindNothing, GetPost, Refuse, BeginUpdate,
         BeginDelete, BeginPublish, BeginLike, BeginUnlike
<1> QED BY <1>1, <1>2, <1>4 DEF Next, CreatePost, LikeAgain, CommitWrite, AbortWrite

LEMMA ShownStep ==
  ASSUME IInv, NEW p \in Posts, Exists(p), NEW new \in Doc,
         posts' = [posts EXCEPT ![p] = new]
  PROVE  /\ Book!InBook(p)
         /\ BookState[p] = posts[p]
         /\ BookState' = [BookState EXCEPT ![p] = new]
<1>1. new # NoPost
  BY NoPostAssumption
<1>2. \A q \in Posts : Exists(q)' <=> Exists(q)
  BY <1>1 DEF Exists, IInv, TypeOK
<1>3. DOMAIN BookState = {q \in Posts : Exists(q)}
  BY DEF BookState
<1>4. BookState' = [q \in {q \in Posts : Exists(q)} |-> posts'[q]]
  BY <1>2 DEF BookState
<1>5. \A q \in Posts : posts'[q] = IF q = p THEN new ELSE posts[q]
  BY DEF IInv, TypeOK
<1> QED BY <1>3, <1>4, <1>5 DEF BookState, Book!InBook

\* PostsBook counts as PostsService does.
LEMMA SameCardinality == \A S : Book!Cardinality(S) = Cardinality(S)
  BY DEF Book!Cardinality, Cardinality

\* Documents are the same when their fields are.
LEMMA DocsEqual ==
  ASSUME NEW x \in Doc, NEW y \in Doc,
         x.userId = y.userId, x.content = y.content, x.status = y.status,
         x.likedBy = y.likedBy, x.likesCount = y.likesCount, x.deletedAt = y.deletedAt
  PROVE  x = y
  BY DEF Doc

\* The book overlays as the database sets.
LEMMA SetIsOverlay ==
  ASSUME NEW doc \in Doc, NEW upd
  PROVE  SetFields(doc, upd) = Book!Overlay(doc, upd)
  BY DEF SetFields, Book!Overlay, Doc

LEMMA CreateShown ==
  ASSUME IInv, NEW r \in Requests, NEW u \in Users, NEW p \in Posts,
         NEW b \in NewBodies, CreatePost(r, u, p, b)
  PROVE  Book!Next
<1> DEFINE new == NewPost(u, b)
<1>1. new \in Doc /\ b.content \in Contents
  BY NewPostType
<1>2. new # NoPost
  BY <1>1, NoPostAssumption
<1>3. \A q \in Posts : posts'[q] = IF q = p THEN new ELSE posts[q]
  BY DEF CreatePost, IInv, TypeOK
<1>4. {q \in Posts : Exists(q)'} = {q \in Posts : Exists(q)} \cup {p}
  BY <1>2, <1>3 DEF Exists
<1>5. DOMAIN BookState = {q \in Posts : Exists(q)} /\ p \notin DOMAIN BookState
  BY DEF BookState, Exists, CreatePost
<1>6. new = Book!Overlay(Book!Blank(u, b), b)
  <2>1. Book!Blank(u, b) \in Doc
    BY <1>1 DEF Book!Blank, Doc, AnyStatus, Statuses
  <2>2. new = SetFields(Book!Blank(u, b), b)
    BY DEF NewPost, Book!Blank
  <2> QED BY <2>1, <2>2, SetIsOverlay
<1> HIDE DEF new
<1>7. BookState' = [q \in {q \in Posts : Exists(q)} \cup {p} |-> posts'[q]]
  BY <1>4 DEF BookState
<1>8. BookState' = [q \in DOMAIN BookState \cup {p} |-> IF q = p THEN new ELSE BookState[q]]
  BY <1>3, <1>5, <1>7 DEF BookState
<1>9. Book!Write(p, u, b)
  BY <1>5, <1>6, <1>8 DEF Book!Write, Book!InBook
<1> QED BY <1>9 DEF Book!Next

\* A document with the entries of user u replaced by `mine`.
Reacted(doc, u, mine) ==
  LET likedBy == (doc.likedBy \ ({u} \X (1 .. MaxListed))) \cup mine
  IN  [doc EXCEPT !.likedBy = likedBy, !.likesCount = Cardinality(likedBy)]

\* A fresh reaction changes the reactions of its user alone.
LEMMA ReactionShown ==
  ASSUME NEW old \in Doc, NEW u \in Users, NEW new,
         \/ new = LikeUpdate(old, u) /\ ~Listed(old, u)
         \/ new = UnlikeUpdate(old, u)
  PROVE  \E mine \in {{}, {<<u, 1>>}} : new = Reacted(old, u, mine)
<1> DEFINE others == old.likedBy \ ({u} \X (1 .. MaxListed))
<1>0. old.likedBy \subseteq Users \X (1 .. MaxListed)
  BY DEF Doc, Listings
<1>1. CASE new = LikeUpdate(old, u) /\ ~Listed(old, u)
  <2>1. others = old.likedBy
    BY <1>0, <1>1 DEF Listed, Lists
  <2>2. Liked(old, u) = others \cup {<<u, 1>>}
    BY <2>1 DEF Liked
  <2> QED BY <1>1, <2>2 DEF LikeUpdate, Reacted
<1>2. CASE new = UnlikeUpdate(old, u)
  <2>1. Unliked(old, u) = others \cup {}
    BY <1>0 DEF Unliked
  <2> QED BY <1>2, <2>1 DEF UnlikeUpdate, Reacted
<1> QED BY <1>1, <1>2

LEMMA CommitShown ==
  ASSUME IInv, Fresh, Shaped, NEW r \in Requests, CommitWrite(r)
  PROVE  Book!Next
<1> DEFINE p == slot[r].post
           u == slot[r].user
           old == posts[p]
           upd == slot[r].update
           new == SetFields(old, upd)
<1>1. p \in Posts /\ Exists(p) /\ u \in Users /\ old \in Doc /\ new \in Doc
  BY WriteEffect DEF CommitWrite
<1>2. slot[r].op \in Ops
  BY DEF IInv, TypeOK, Slot, CommitWrite
<1>3. posts' = [posts EXCEPT ![p] = new]
  BY DEF CommitWrite
<1>4. Book!InBook(p) /\ BookState[p] = old /\ BookState' = [BookState EXCEPT ![p] = new]
  BY <1>1, <1>3, ShownStep
<1>5. CASE slot[r].op \in {"like", "unlike"}
  <2>1. new = upd
    BY <1>5, WriteEffect DEF CommitWrite
  <2>2. \/ new = LikeUpdate(old, u) /\ ~Listed(old, u)
        \/ new = UnlikeUpdate(old, u)
    BY <1>5, <2>1 DEF Fresh, CommitWrite
  <2> HIDE DEF new, old
  <2>3. PICK mine \in {{}, {<<u, 1>>}} : new = Reacted(old, u, mine)
    BY <1>1, <2>2, ReactionShown
  <2>4. BookState' = [BookState EXCEPT ![p] = Reacted(BookState[p], u, mine)]
    BY <1>4, <2>3
  <2>5. \E m \in {{}, {<<u, 1>>}} :
          LET likedBy == (BookState[p].likedBy \ ({u} \X (1 .. MaxListed))) \cup m
          IN  BookState' = [BookState EXCEPT ![p].likedBy = likedBy,
                                             ![p].likesCount = Cardinality(likedBy)]
    BY <1>4, <2>4 DEF Reacted, Book!InBook
  <2>6. Book!React(p, u)
    BY <1>4, <2>5, SameCardinality DEF Book!React
  <2> QED BY <1>1, <2>6 DEF Book!Next
<1>6. CASE slot[r].op = "update"
  <2>1. upd \in Bodies /\ new = Book!Overlay(old, upd)
    BY <1>1, <1>6, SetIsOverlay DEF Shaped, CommitWrite
  <2>2. Book!Edit(p, upd)
    BY <1>4, <2>1 DEF Book!Edit
  <2> QED BY <1>1, <2>1, <2>2 DEF Book!Next
<1>7. CASE slot[r].op = "publish"
  <2>1. new = [old EXCEPT !.status = "published"]
    BY <1>1, <1>7 DEF Shaped, CommitWrite, SetFields, PublishUpdate, Doc
  <2>2. Book!Publish(p)
    BY <1>4, <2>1 DEF Book!Publish
  <2> QED BY <1>1, <2>2 DEF Book!Next
<1>8. CASE slot[r].op = "delete"
  <2>1. new = [old EXCEPT !.deletedAt = TRUE]
    <3>1. upd = [deletedAt |-> TRUE]
      BY <1>8 DEF Shaped, CommitWrite, DeleteUpdate
    <3>2. /\ new.userId = old.userId /\ new.content = old.content /\ new.status = old.status
          /\ new.likedBy = old.likedBy /\ new.likesCount = old.likesCount
      BY <3>1 DEF SetFields
    <3>3. new.deletedAt = TRUE
      BY <3>1 DEF SetFields
    <3> DEFINE y == [old EXCEPT !.deletedAt = TRUE]
    <3>4. /\ y \in Doc
          /\ y.userId = old.userId /\ y.content = old.content /\ y.status = old.status
          /\ y.likedBy = old.likedBy /\ y.likesCount = old.likesCount
      BY <1>1 DEF Doc
    <3>5. y.deletedAt = TRUE
      BY <1>1 DEF Doc
    <3> HIDE DEF y, new, old
    <3>6. new = y
      BY <1>1, <3>2, <3>3, <3>4, <3>5, DocsEqual
    <3> QED BY <3>6 DEF y
  <2>2. Book!Delete(p)
    BY <1>4, <2>1 DEF Book!Delete
  <2> QED BY <1>1, <2>2 DEF Book!Next
<1> QED BY <1>2, <1>5, <1>6, <1>7, <1>8 DEF Ops

-------------------------------------------------------------------------------
LEMMA InitFresh == Init => Fresh
  BY DEF Init, Fresh

\* Whoever keeps reactions alone keeps them fresh, and with that the book.
LEMMA AloneKeepsBook == Spec /\ []ReactionsAlone => [](Fresh /\ Shaped) /\ KeepsBook
<1>1. Init => Book!Init
  <2> SUFFICES ASSUME Init PROVE Book!Init
    OBVIOUS
  <2>1. {q \in Posts : Exists(q)} = {}
    BY DEF Init, Exists
  <2> QED BY <2>1 DEF Book!Init, BookState
<1>2. IInv /\ IInv' /\ ReactionsAlone /\ Fresh /\ [Next]_vars => Fresh'
  BY NextFresh
<1>3. IInv /\ Fresh /\ Shaped /\ [Next]_vars => [Book!Next]_BookState
  <2> SUFFICES ASSUME IInv, Fresh, Shaped, [Next]_vars PROVE Book!Next \/ UNCHANGED BookState
    OBVIOUS
  <2>1. CASE UNCHANGED posts
    BY <2>1 DEF BookState, Exists
  <2> QED BY <2>1, StepKinds, CreateShown, CommitShown
<1> QED BY <1>1, <1>2, <1>3, InitFresh, InitShaped, NextShaped, Invariance, PTL
        DEF Spec, KeepsBook, Book!Spec

\* In particular, a service that never has two requests in flight keeps the promise
\* of PostsBook, whatever fields the bodies name: every step is a step of the book or
\* leaves it alone.
THEOREM SerialServiceKeepsBook ==
  ASSUME \A r1, r2 \in Requests : r1 = r2
  PROVE  Spec => KeepsBook
<1>1. ReactionsAlone
  BY DEF ReactionsAlone
<1> QED BY <1>1, AloneKeepsBook, PTL

-------------------------------------------------------------------------------
(* What clients were told. *)

Knowledge == [content : Contents \cup {Unsure}, status : AnyStatus \cup {Unsure},
              deletedAt : BOOLEAN, likes : [Users -> {"in", "out", "unsure"}]]

Agrees(k, doc) ==
  /\ \A u \in Users : /\ k.likes[u] = "in"  => Listed(doc, u)
                      /\ k.likes[u] = "out" => ~Listed(doc, u)
  /\ k.content \in {Unsure, doc.content}
  /\ k.status \in {Unsure, doc.status}
  /\ k.deletedAt => doc.deletedAt

\* The acknowledgements clients hold agree with the documents, and of a post that
\* does not exist they were told nothing.
AckInv ==
  /\ acked \in [Posts -> Knowledge]
  /\ \A p \in Posts : IF Exists(p) THEN Agrees(acked[p], posts[p]) ELSE acked[p] = NothingKnown

\* What a body taught, or put in doubt, agrees with the document it was set on.
LEMMA BodyLearnt ==
  ASSUME NEW k \in Knowledge, NEW old \in Doc, Agrees(k, old), NEW b, IsBody(b)
  PROVE  /\ Learnt(k, b) \in Knowledge /\ Agrees(Learnt(k, b), SetFields(old, b))
         /\ Doubted(k, b) \in Knowledge /\ Agrees(Doubted(k, b), SetFields(old, b))
<1> DEFINE new == SetFields(old, b)
           told == Learnt(k, b)
           doubt == Doubted(k, b)
           all == [u \in Users |-> IF Lists(b.likedBy, u) THEN "in" ELSE "out"]
<1>1. /\ "content" \in DOMAIN b => b.content \in Contents
      /\ "status" \in DOMAIN b => b.status \in AnyStatus
      /\ "deletedAt" \in DOMAIN b => b.deletedAt \in BOOLEAN
  BY DEF IsBody, Domains
<1>2. /\ new.content = IF "content" \in DOMAIN b THEN b.content ELSE old.content
      /\ new.status = IF "status" \in DOMAIN b THEN b.status ELSE old.status
      /\ new.likedBy = IF "likedBy" \in DOMAIN b THEN b.likedBy ELSE old.likedBy
      /\ new.deletedAt = IF "deletedAt" \in DOMAIN b THEN b.deletedAt ELSE old.deletedAt
  BY DEF SetFields
<1>3. /\ told.content = IF "content" \in DOMAIN b THEN b.content ELSE k.content
      /\ told.status = IF "status" \in DOMAIN b THEN b.status ELSE k.status
      /\ told.deletedAt = IF "deletedAt" \in DOMAIN b THEN b.deletedAt ELSE k.deletedAt
      /\ told.likes = IF "likedBy" \in DOMAIN b THEN all ELSE k.likes
  BY DEF Learnt, Knowledge
<1>4. /\ doubt.content = IF "content" \in DOMAIN b THEN Unsure ELSE k.content
      /\ doubt.status = IF "status" \in DOMAIN b THEN Unsure ELSE k.status
      /\ doubt.deletedAt = (k.deletedAt /\ ("deletedAt" \in DOMAIN b => b.deletedAt))
      /\ doubt.likes = IF "likedBy" \in DOMAIN b THEN [u \in Users |-> "unsure"] ELSE k.likes
  BY DEF Doubted, Knowledge
<1>5. all \in [Users -> {"in", "out", "unsure"}] /\ [u \in Users |-> "unsure"] \in [Users -> {"in", "out", "unsure"}]
  OBVIOUS
<1>6. told \in Knowledge
  BY <1>1, <1>5 DEF Learnt, Knowledge
<1>7. doubt \in Knowledge
  BY <1>1, <1>5 DEF Doubted, Knowledge
<1> HIDE DEF new, told, doubt
<1>8. Agrees(told, new)
  <2>1. ASSUME NEW u \in Users
        PROVE  (told.likes[u] = "in" => Listed(new, u)) /\ (told.likes[u] = "out" => ~Listed(new, u))
    <3>1. CASE "likedBy" \in DOMAIN b
      BY <1>2, <1>3, <3>1 DEF Listed
    <3>2. CASE "likedBy" \notin DOMAIN b
      BY <1>2, <1>3, <3>2 DEF Agrees, Listed
    <3> QED BY <3>1, <3>2
  <2>2. told.content \in {Unsure, new.content} /\ told.status \in {Unsure, new.status}
    BY <1>2, <1>3 DEF Agrees
  <2>3. told.deletedAt => new.deletedAt
    BY <1>2, <1>3 DEF Agrees
  <2> QED BY <2>1, <2>2, <2>3 DEF Agrees
<1>9. Agrees(doubt, new)
  <2>1. ASSUME NEW u \in Users
        PROVE  (doubt.likes[u] = "in" => Listed(new, u)) /\ (doubt.likes[u] = "out" => ~Listed(new, u))
    <3>1. CASE "likedBy" \in DOMAIN b
      BY <1>4, <3>1
    <3>2. CASE "likedBy" \notin DOMAIN b
      BY <1>2, <1>4, <3>2 DEF Agrees, Listed
    <3> QED BY <3>1, <3>2
  <2>2. doubt.content \in {Unsure, new.content} /\ doubt.status \in {Unsure, new.status}
    BY <1>2, <1>4 DEF Agrees
  <2>3. doubt.deletedAt => new.deletedAt
    BY <1>2, <1>4 DEF Agrees
  <2> QED BY <2>1, <2>2, <2>3 DEF Agrees
<1> QED BY <1>6, <1>7, <1>8, <1>9 DEF new, told, doubt

\* What an acknowledged reaction, or one in doubt, adds to the knowledge.
LEMMA ReactionLearnt ==
  ASSUME NEW k \in Knowledge, NEW old \in Doc, NEW new \in Doc, Agrees(k, old), NEW v \in Users,
         NEW said \in {"in", "out", "unsure"},
         new.content = old.content, new.status = old.status, new.deletedAt = old.deletedAt,
         \A u \in Users : u # v => (Listed(new, u) <=> Listed(old, u)),
         said = "in" => Listed(new, v), said = "out" => ~Listed(new, v),
         NEW known, known = [k EXCEPT !.likes[v] = said]
  PROVE  known \in Knowledge /\ Agrees(known, new)
  BY DEF Knowledge, Agrees

\* What the answer to a write, or the doubt about it, adds to the knowledge.
LEMMA WriteLearnt ==
  ASSUME NEW k \in Knowledge, NEW old \in Doc, NEW new \in Doc, Agrees(k, old),
         NEW s, s.op \in Ops, s.user \in Users, s.update \in Update,
         new = SetFields(old, s.update),
         s.op = "like" => new = LikeUpdate(old, s.user),
         s.op = "unlike" => new = UnlikeUpdate(old, s.user)
  PROVE  /\ Told(k, s) \in Knowledge /\ Agrees(Told(k, s), new)
         /\ Doubt(k, s) \in Knowledge /\ Agrees(Doubt(k, s), new)
<1>0. \A u \in Users : /\ Listed(LikeUpdate(old, s.user), u) <=> Listed(old, u) \/ u = s.user
                       /\ Listed(UnlikeUpdate(old, s.user), u) <=> Listed(old, u) /\ u # s.user
  BY ReactionLists
<1>1. CASE s.op = "like"
  <2>1. new.content = old.content /\ new.status = old.status /\ new.deletedAt = old.deletedAt
    BY <1>1 DEF LikeUpdate, Doc
  <2>2. Listed(new, s.user) /\ \A u \in Users : u # s.user => (Listed(new, u) <=> Listed(old, u))
    BY <1>0, <1>1
  <2>3. /\ Told(k, s) = [k EXCEPT !.likes[s.user] = "in"]
        /\ Doubt(k, s) = [k EXCEPT !.likes[s.user] = "unsure"]
    BY <1>1 DEF Told, Doubt
  <2> QED BY <2>1, <2>2, <2>3, ReactionLearnt
<1>2. CASE s.op = "unlike"
  <2>1. new.content = old.content /\ new.status = old.status /\ new.deletedAt = old.deletedAt
    BY <1>2 DEF UnlikeUpdate, Doc
  <2>2. ~Listed(new, s.user) /\ \A u \in Users : u # s.user => (Listed(new, u) <=> Listed(old, u))
    BY <1>0, <1>2
  <2>3. /\ Told(k, s) = [k EXCEPT !.likes[s.user] = "out"]
        /\ Doubt(k, s) = [k EXCEPT !.likes[s.user] = "unsure"]
    BY <1>2 DEF Told, Doubt
  <2> QED BY <2>1, <2>2, <2>3, ReactionLearnt
<1>3. CASE s.op \notin {"like", "unlike"}
  <2>1. Told(k, s) = Learnt(k, s.update) /\ Doubt(k, s) = Doubted(k, s.update)
    BY <1>3 DEF Told, Doubt
  <2> QED BY <2>1, UpdateIsBody, BodyLearnt
<1> QED BY <1>1, <1>2, <1>3

LEMMA AckInit == ClientsInit => AckInv
<1> SUFFICES ASSUME ClientsInit PROVE AckInv
  OBVIOUS
<1>1. NothingKnown \in Knowledge
  BY DEF NothingKnown, Knowledge
<1> QED BY <1>1 DEF ClientsInit, Init, AckInv, Exists

LEMMA AckCreate ==
  ASSUME IInv, AckInv, NEW r \in Requests, NEW p \in Posts, NEW u \in Users,
         NEW b \in NewBodies, LearnFromCreate(r, u, p, b)
  PROVE  AckInv'
<1> DEFINE blank == [userId |-> u, content |-> b.content, status |-> "draft",
                     likedBy |-> {}, likesCount |-> 0, deletedAt |-> FALSE]
           new == NewPost(u, b)
<1>1. new \in Doc /\ new # NoPost /\ b.content \in Contents /\ IsBody(b)
  BY NewPostType, NewBodiesAssumption, NoPostAssumption
<1>2. acked[p] = NothingKnown /\ posts' = [posts EXCEPT ![p] = new]
  BY DEF LearnFromCreate, CreatePost, AckInv, Exists
<1>3. \/ acked' = [acked EXCEPT ![p] = Learnt(acked[p], b)]
      \/ acked' = [acked EXCEPT ![p] = Doubted(acked[p], b)]
  BY DEF LearnFromCreate
<1>4. blank \in Doc /\ new = SetFields(blank, b)
  BY <1>1 DEF Doc, AnyStatus, Statuses, NewPost
<1>5. acked[p] \in Knowledge /\ Agrees(acked[p], blank)
  <2>1. acked[p] \in Knowledge
    BY DEF AckInv
  <2>2. \A v \in Users : ~Listed(blank, v)
    BY DEF Listed, Lists
  <2>3. /\ \A v \in Users : acked[p].likes[v] = "out"
        /\ acked[p].content = Unsure /\ acked[p].status = Unsure /\ ~acked[p].deletedAt
    BY <1>2 DEF NothingKnown
  <2> HIDE DEF blank
  <2> QED BY <2>1, <2>2, <2>3 DEF Agrees
<1> HIDE DEF new, blank
<1>6. /\ Learnt(acked[p], b) \in Knowledge /\ Agrees(Learnt(acked[p], b), new)
      /\ Doubted(acked[p], b) \in Knowledge /\ Agrees(Doubted(acked[p], b), new)
  BY <1>1, <1>4, <1>5, BodyLearnt
<1>7. acked' \in [Posts -> Knowledge] /\ Agrees(acked'[p], new)
  BY <1>3, <1>6 DEF AckInv
<1>8. \A q \in Posts : q # p => posts'[q] = posts[q] /\ acked'[q] = acked[q]
  BY <1>2, <1>3 DEF AckInv, IInv, TypeOK
<1>9. posts'[p] = new
  BY <1>2 DEF IInv, TypeOK
<1> QED BY <1>1, <1>7, <1>8, <1>9 DEF AckInv, Exists

LEMMA AckWrite ==
  ASSUME IInv, AckInv, Fresh, NEW r \in Requests, LearnFromWrite(r)
  PROVE  AckInv'
<1> DEFINE s == slot[r]
           p == s.post
           new == SetFields(posts[p], s.update)
<1>1. /\ p \in Posts /\ Exists(p) /\ s.user \in Users /\ posts[p] \in Doc /\ new \in Doc
      /\ s.op \in {"like", "unlike"} => new = s.update
  BY WriteEffect DEF LearnFromWrite, CommitWrite
<1>2. s.op \in Ops /\ s.update \in Update
  BY DEF IInv, TypeOK, Slot, LearnFromWrite, CommitWrite
<1>3. posts' = [posts EXCEPT ![p] = new]
  BY DEF LearnFromWrite, CommitWrite
<1>4. /\ s.op = "like" => new = LikeUpdate(posts[p], s.user)
      /\ s.op = "unlike" => new = UnlikeUpdate(posts[p], s.user)
  BY <1>1 DEF Fresh, LearnFromWrite, CommitWrite
<1>5. /\ Told(acked[p], s) \in Knowledge /\ Agrees(Told(acked[p], s), new)
      /\ Doubt(acked[p], s) \in Knowledge /\ Agrees(Doubt(acked[p], s), new)
  <2>1. acked[p] \in Knowledge /\ Agrees(acked[p], posts[p])
    BY <1>1 DEF AckInv
  <2> QED BY <1>1, <1>2, <1>4, <2>1, WriteLearnt
<1>6. \/ acked' = [acked EXCEPT ![p] = Told(acked[p], s)]
      \/ acked' = [acked EXCEPT ![p] = Doubt(acked[p], s)]
  BY DEF LearnFromWrite
<1> HIDE DEF new, p, s
<1>7. acked' \in [Posts -> Knowledge] /\ Agrees(acked'[p], new)
  BY <1>1, <1>5, <1>6 DEF AckInv
<1>8. \A q \in Posts : q # p => posts'[q] = posts[q] /\ acked'[q] = acked[q]
  BY <1>1, <1>3, <1>6 DEF AckInv, IInv, TypeOK
<1>9. posts'[p] = new /\ new # NoPost
  BY <1>1, <1>3, NoPostAssumption DEF IInv, TypeOK
<1> QED BY <1>1, <1>7, <1>8, <1>9 DEF AckInv, Exists

LEMMA AckNext == IInv /\ AckInv /\ Fresh /\ [ClientsNext]_clientVars => AckInv'
<1> SUFFICES ASSUME IInv, AckInv, Fresh, [ClientsNext]_clientVars PROVE AckInv'
  OBVIOUS
<1>1. CASE UNCHANGED <<posts, acked>>
  BY <1>1 DEF AckInv, Exists
<1>2. ASSUME NEW r \in Requests, NEW p \in Posts, NEW u \in Reactors, LearnFromLikeAgain(r, u, p)
      PROVE  AckInv'
  <2>1. posts' = posts /\ Exists(p) /\ Listed(posts[p], u) /\ u \in Users
    BY <1>2, ReactorsAssumption DEF LearnFromLikeAgain, LikeAgain, Exists
  <2>2. acked' = [acked EXCEPT ![p].likes[u] = "in"]
    BY <1>2 DEF LearnFromLikeAgain
  <2>3. acked' \in [Posts -> Knowledge]
    BY <2>1, <2>2 DEF AckInv, Knowledge
  <2>4. \A q \in Posts : q # p => acked'[q] = acked[q]
    BY <2>2 DEF AckInv
  <2>5. acked'[p] = [acked[p] EXCEPT !.likes[u] = "in"]
    BY <2>2 DEF AckInv
  <2>6. Agrees(acked'[p], posts[p])
    BY <2>1, <2>5 DEF AckInv, Agrees, Knowledge
  <2> QED BY <2>1, <2>3, <2>4, <2>6 DEF AckInv, Exists
<1>3. ASSUME NEW r \in Requests, Start(r) \/ AbortWrite(r), UNCHANGED acked
      PROVE  UNCHANGED <<posts, acked>>
  BY <1>3 DEF Start, AbortWrite, CreateNothing, FindNothing, GetPost, Refuse, BeginUpdate, BeginDelete, BeginPublish,
             BeginLike, BeginUnlike
<1> QED BY <1>1, <1>2, <1>3, AckCreate, AckWrite DEF ClientsNext, clientVars

\* Clients only watch: their steps are steps of the service.
LEMMA ClientsWatch == [ClientsNext /\ ReactionsAlone']_clientVars => [Next]_vars
  BY DEF ClientsNext, LearnFromCreate, LearnFromLikeAgain, LearnFromWrite, Next, clientVars, vars

LEMMA AloneIsService == AloneSpec => Spec /\ []ReactionsAlone
<1>1. ClientsInit => Init /\ ReactionsAlone
  BY DEF ClientsInit, Init, ReactionsAlone
<1>2. ReactionsAlone /\ [ClientsNext /\ ReactionsAlone']_clientVars => ReactionsAlone'
  BY DEF clientVars, ReactionsAlone
<1> QED BY <1>1, <1>2, ClientsWatch, PTL DEF AloneSpec, Spec

LEMMA AckInvariance == AloneSpec => [](IInv /\ AckInv)
<1>1. IInv /\ AckInv /\ Fresh /\ [ClientsNext /\ ReactionsAlone']_clientVars => AckInv'
  BY AckNext
<1> QED BY <1>1, AckInit, AloneIsService, AloneKeepsBook, Invariance, PTL DEF AloneSpec

\* However many requests run, as long as likes and unlikes do not overlap a write
\* every step is a step of the book or leaves it alone.
THEOREM AloneServiceKeepsBook == AloneSpec => KeepsBook
  BY AloneIsService, AloneKeepsBook, PTL

\* A user who was told that a like or an unlike succeeded finds it in the document,
\* until that user reacts again or a body that names likedBy takes effect: updates,
\* publications and deletions may overlap one another freely.
THEOREM ReactionsAreKept == AloneSpec => []AckedReactions
<1>1. IInv /\ AckInv => AckedReactions
  BY DEF AckInv, Agrees, AckedReactions
<1> QED BY <1>1, AckInvariance, PTL

\* Acknowledged edits and publications are what the document shows.
THEOREM EditsAreKept == AloneSpec => []AckedEdits
<1>1. IInv /\ AckInv => AckedEdits
  BY DEF AckInv, Agrees, AckedEdits
<1> QED BY <1>1, AckInvariance, PTL

\* A post whose deletion was acknowledged stays deleted until a body that names
\* deletedAt takes effect.
THEOREM DeletionsAreKept == AloneSpec => []AckedDeletions
<1>1. IInv /\ AckInv => AckedDeletions
  BY DEF AckInv, Agrees, AckedDeletions, NothingKnown
<1> QED BY <1>1, AckInvariance, PTL

-------------------------------------------------------------------------------
(* Without that condition. *)

LEMMA WatchStep == [ClientsNext]_clientVars => [Next]_vars
  BY DEF ClientsNext, LearnFromCreate, LearnFromLikeAgain, LearnFromWrite, Next, clientVars, vars

\* What clients are told has no influence on the service: all that is proved of the
\* service holds while clients watch it (posts.controller.ts answers and forgets).
THEOREM ClientsOnlyWatch == ClientsSpec => Spec
<1>1. ClientsInit => Init
  BY DEF ClientsInit
<1> QED BY <1>1, WatchStep, PTL DEF ClientsSpec, Spec

\* No request in flight replaces a whole document.
NoWriteBack == \A r \in Requests : slot[r].phase = "writing" => slot[r].op \notin {"like", "unlike"}

LEMMA NoWriteBackStep ==
  ASSUME Reactors = {}, IInv, NoWriteBack, [Next]_vars
  PROVE  NoWriteBack'
<1>1. CASE UNCHANGED vars
  BY <1>1 DEF vars, NoWriteBack
<1>2. ASSUME NEW r \in Requests, NEW result, Reply(r, result)
      PROVE  NoWriteBack'
  BY <1>2 DEF Reply, NoWriteBack, IInv, TypeOK
<1>3. ASSUME NEW r \in Requests, NEW op \in {"update", "delete", "publish"}, NEW u, NEW p, NEW upd,
             AwaitWrite(r, op, u, p, upd)
      PROVE  NoWriteBack'
  BY <1>3 DEF AwaitWrite, NoWriteBack, IInv, TypeOK
<1>4. ASSUME NEW r \in Requests, Start(r)
      PROVE  NoWriteBack'
  BY <1>2, <1>3, <1>4 DEF Start, CreateNothing, FindNothing, GetPost, Refuse, BeginUpdate, BeginDelete, BeginPublish
<1> QED BY <1>1, <1>2, <1>4 DEF Next, CreatePost, CommitWrite, AbortWrite

\* Only likes and unlikes write what nobody asked for: on a platform without them every
\* update, whatever its body names, changes what it names and nothing else, however
\* requests overlap, so that the service implements PostsBook and the document shows
\* what was acknowledged last (posts.controller.ts update, delete, publish).
THEOREM OnlyReactionsOverwrite ==
  ASSUME Reactors = {}
  PROVE  ClientsSpec => KeepsBook /\ []AckedReactions /\ []AckedEdits /\ []AckedDeletions
<1>1. ClientsInit => NoWriteBack
  BY DEF ClientsInit, Init, NoWriteBack
<1>2. IInv /\ NoWriteBack /\ [ClientsNext]_clientVars => NoWriteBack'
  BY WatchStep, NoWriteBackStep
<1>3. NoWriteBack' => ReactionsAlone'
  BY DEF NoWriteBack, ReactionsAlone
<1>4. ClientsSpec => AloneSpec
  <2>1. [ClientsNext]_clientVars /\ NoWriteBack' => [ClientsNext /\ ReactionsAlone']_clientVars
    BY <1>3
  <2> QED BY <1>1, <1>2, <2>1, ClientsOnlyWatch, Invariance, PTL DEF ClientsSpec, AloneSpec
<1> QED BY <1>4, AloneServiceKeepsBook, ReactionsAreKept, EditsAreKept, DeletionsAreKept, PTL

\* A service that takes one request at a time keeps every promise to its clients: what
\* they were told last, by a reaction or a body, is what the document shows.
THEOREM SerialClientsAreServed ==
  ASSUME \A r1, r2 \in Requests : r1 = r2
  PROVE  ClientsSpec => []AckedReactions /\ []AckedEdits /\ []AckedDeletions
<1>1. ReactionsAlone'
  BY DEF ReactionsAlone
<1>2. [ClientsNext]_clientVars => [ClientsNext /\ ReactionsAlone']_clientVars
  BY <1>1
<1>3. ClientsSpec => AloneSpec
  BY <1>2, PTL DEF ClientsSpec, AloneSpec
<1> QED BY <1>3, ReactionsAreKept, EditsAreKept, DeletionsAreKept, PTL

===============================================================================
