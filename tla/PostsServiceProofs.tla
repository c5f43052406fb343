-------------------------- MODULE PostsServiceProofs --------------------------
(***************************************************************************)
(* Theorems about PostsService and PostsLists, for any number of users,    *)
(* posts, contents, bodies and concurrent requests.                        *)
(***************************************************************************)
EXTENDS PostsLists, FiniteSetTheorems, TLAPS

\* The number of entries of likedBy is a natural number.
LEMMA ListingsCounted ==
  ASSUME NEW S \in SUBSET Listings
  PROVE  Cardinality(S) \in Nat
<1>1. IsFiniteSet(1 .. MaxListed)
  BY UsersAssumption, FS_Interval
<1>2. IsFiniteSet(Listings)
  BY <1>1, UsersAssumption, FS_Product DEF Listings
<1> QED BY <1>2, FS_Subset, FS_CardinalityType

\* Whatever findOneAndUpdate is sent names fields of the schema, with values of theirs.
LEMMA UpdateIsBody ==
  ASSUME NEW upd \in Update
  PROVE  IsBody(upd)
<1>1. CASE upd \in Bodies
  BY <1>1, BodiesAssumption
<1>2. CASE upd = DeleteUpdate
  <2>1. DOMAIN upd = {"deletedAt"} /\ upd["deletedAt"] = TRUE
    BY <1>2 DEF DeleteUpdate
  <2>2. "deletedAt" \in DOMAIN Domains /\ TRUE \in Domains["deletedAt"]
    BY DEF Domains
  <2> QED BY <2>1, <2>2 DEF IsBody
<1>3. CASE upd = PublishUpdate
  BY <1>3 DEF PublishUpdate, IsBody, Domains, AnyStatus, Statuses
<1>4. CASE upd \in Doc
  BY <1>4 DEF Doc, IsBody, Domains
<1> QED BY <1>1, <1>2, <1>3, <1>4 DEF Update

\* A $set replaces the fields it names and leaves the others; the types stay.
LEMMA SetFieldsIs ==
  ASSUME NEW doc \in Doc, NEW upd, NEW f \in DOMAIN Domains
  PROVE  SetFields(doc, upd)[f] = IF f \in DOMAIN upd THEN upd[f] ELSE doc[f]
  BY DEF SetFields, Domains

LEMMA SetFieldsType ==
  ASSUME NEW doc \in Doc, NEW upd, IsBody(upd)
  PROVE  SetFields(doc, upd) \in Doc
<1> DEFINE F(f) == IF f \in DOMAIN upd THEN upd[f] ELSE doc[f]
<1>1. \A f \in DOMAIN Domains : F(f) \in Domains[f]
  BY DEF IsBody, Doc, Domains
<1>2. /\ F("userId") \in Users /\ F("content") \in Contents /\ F("status") \in AnyStatus
      /\ F("likedBy") \in SUBSET Listings /\ F("likesCount") \in Int /\ F("deletedAt") \in BOOLEAN
  BY <1>1 DEF Domains
<1> QED BY <1>2 DEF SetFields, Doc

LEMMA ReactionUpdateType ==
  ASSUME NEW doc \in Doc, NEW u \in Users
  PROVE  /\ LikeUpdate(doc, u) \in Doc
         /\ UnlikeUpdate(doc, u) \in Doc
<1>1. <<u, 1>> \in Listings
  BY UsersAssumption DEF Listings
<1>2. Liked(doc, u) \in SUBSET Listings /\ Unliked(doc, u) \in SUBSET Listings
  BY <1>1 DEF Liked, Unliked, Doc
<1>3. Cardinality(Liked(doc, u)) \in Int /\ Cardinality(Unliked(doc, u)) \in Int
  BY <1>2, ListingsCounted
<1> QED BY <1>2, <1>3 DEF LikeUpdate, UnlikeUpdate, Doc

\* The fields a reaction leaves as it read them.
LEMMA ReactionKeeps ==
  ASSUME NEW doc \in Doc, NEW u \in Users,
         NEW f \in DOMAIN Domains \ {"likedBy", "likesCount"}
  PROVE  LikeUpdate(doc, u)[f] = doc[f] /\ UnlikeUpdate(doc, u)[f] = doc[f]
  BY DEF LikeUpdate, UnlikeUpdate, Doc, Domains

\* No token carries the role the controller compares with, so the check passes
\* for the author alone.
LEMMA OnlyAuthorMayWrite ==
  ASSUME NEW doc \in Doc, NEW u \in Users
  PROVE  MayWrite(doc, u) <=> doc.userId = u
  BY RolesAssumption DEF MayWrite, RoleADMIN, TokenRoles

\* Writing a whole document back replaces the stored one.
LEMMA WriteBackReplaces ==
  ASSUME NEW doc \in Doc, NEW upd \in Doc
  PROVE  SetFields(doc, upd) = upd
  BY DEF SetFields, Doc

LEMMA NewPostType ==
  ASSUME NEW u \in Users, NEW b \in NewBodies
  PROVE  /\ b.content \in Contents
         /\ NewPost(u, b) \in Doc
         /\ NewPost(u, b).content = b.content
<1> DEFINE blank == [userId |-> u, content |-> b.content, status |-> "draft",
                     likedBy |-> {}, likesCount |-> 0, deletedAt |-> FALSE]
<1>1. IsBody(b) /\ "content" \in DOMAIN b
  BY NewBodiesAssumption DEF IsValid
<1>2. b.content \in Contents
  BY <1>1 DEF IsBody, Domains
<1>3. blank \in Doc
  BY <1>2 DEF Doc, AnyStatus, Statuses
<1>4. SetFields(blank, b) \in Doc
  BY <1>1, <1>3, SetFieldsType
<1>5. SetFields(blank, b).content = b.content
  BY <1>1 DEF SetFields
<1> QED BY <1>2, <1>4, <1>5 DEF NewPost

-------------------------------------------------------------------------------
(* The inductive invariant.  A handler that waits has found its post; what it  *)
(* is about to write names no content but one the post was sent, and if it is  *)
(* a document read earlier, its count is the number of its entries.            *)

Sound(s, contents) ==
  /\ "content" \in DOMAIN s.update => s.update.content \in contents
  /\ s.op \in {"like", "unlike"} =>
       s.update \in Doc /\ s.update.likesCount = Cardinality(s.update.likedBy)

SlotSound(r) == Exists(slot[r].post) /\ Sound(slot[r], submitted[slot[r].post])

PendingSound == \A r \in Requests : slot[r].phase = "writing" => SlotSound(r)

IInv == TypeOK /\ ContentFromAuthor /\ PendingSound

LEMMA InitInv == Init => IInv
<1> SUFFICES ASSUME Init PROVE IInv
  OBVIOUS
<1>1. TypeOK
  BY DEF Init, TypeOK, Slot
<1>2. ContentFromAuthor
  BY DEF Init, ContentFromAuthor, Exists
<1>3. PendingSound
  <2>1. \A r \in Requests : slot[r].phase = "free"
    BY DEF Init
  <2> QED BY <2>1 DEF PendingSound
<1> QED BY <1>1, <1>2, <1>3 DEF IInv

\* A step that only answers, whatever the slot was doing.
LEMMA ReplyInv ==
  ASSUME IInv, NEW r \in Requests, NEW result \in Results,
         Reply(r, result), UNCHANGED <<posts, submitted>>
  PROVE  IInv'
<1>1. TypeOK'
  BY DEF IInv, TypeOK, Reply, Slot
<1>2. ContentFromAuthor'
  BY DEF IInv, ContentFromAuthor, Exists
<1>3. PendingSound'
  <2>1. \A q \in Requests : slot'[q].phase = "writing" => slot'[q] = slot[q]
    BY DEF IInv, TypeOK, Reply
  <2> QED BY <2>1 DEF IInv, PendingSound, SlotSound, Exists
<1> QED BY <1>1, <1>2, <1>3 DEF IInv

LEMMA CreateInv ==
  ASSUME IInv, NEW r \in Requests, NEW u \in Users, NEW p \in Posts,
         NEW b \in NewBodies, CreatePost(r, u, p, b)
  PROVE  IInv'
<1>1. NewPost(u, b) \in Doc /\ NewPost(u, b).content = b.content /\ b.content \in Contents
  BY NewPostType
<1>2. PICK result \in Results : Reply(r, result)
  BY DEF CreatePost, Results
<1>3. TypeOK'
  BY <1>1, <1>2 DEF IInv, TypeOK, CreatePost, Reply, Slot
<1>4. ContentFromAuthor'
  BY <1>1 DEF IInv, TypeOK, CreatePost, ContentFromAuthor, Exists
<1>5. PendingSound'
  <2>1. \A q \in Requests : slot'[q].phase = "writing" =>
          /\ slot'[q] = slot[q]
          /\ slot[q].post # p
    BY <1>2 DEF IInv, TypeOK, CreatePost, Reply, PendingSound, SlotSound, Exists
  <2>2. \A q \in Posts : q # p => posts'[q] = posts[q] /\ submitted'[q] = submitted[q]
    BY DEF IInv, TypeOK, CreatePost
  <2>3. \A q \in Requests : slot[q].phase = "writing" => slot[q].post \in Posts
    BY DEF IInv, TypeOK, Slot
  <2> QED BY <2>1, <2>2, <2>3 DEF IInv, PendingSound, SlotSound, Exists
<1> QED BY <1>3, <1>4, <1>5 DEF IInv

\* A step that puts a sound update in a slot.
LEMMA AwaitInv ==
  ASSUME IInv, NEW r \in Requests, NEW op \in Ops, NEW u \in Users, NEW p \in Posts,
         NEW upd \in Update, AwaitWrite(r, op, u, p, upd), Exists(p),
         UNCHANGED posts,
         submitted' \in [Posts -> SUBSET Contents],
         \A q \in Posts : submitted[q] \subseteq submitted'[q],
         Sound([phase |-> "writing", op |-> op, user |-> u, post |-> p, update |-> upd],
               submitted'[p])
  PROVE  IInv'
<1>1. TypeOK'
  BY DEF IInv, TypeOK, AwaitWrite, Slot
<1>2. ContentFromAuthor'
  BY DEF IInv, ContentFromAuthor, Exists
<1>3. PendingSound'
  <2> SUFFICES ASSUME NEW q \in Requests, slot'[q].phase = "writing"
               PROVE  SlotSound(q)'
    BY DEF PendingSound
  <2>1. CASE q = r
    <3>1. slot'[q] = [phase |-> "writing", op |-> op, user |-> u, post |-> p, update |-> upd]
      BY <2>1 DEF IInv, TypeOK, AwaitWrite
    <3> QED BY <3>1 DEF SlotSound, Exists
  <2>2. CASE q # r
    <3>1. slot'[q] = slot[q] /\ slot[q].post \in Posts
      BY <2>2 DEF IInv, TypeOK, AwaitWrite, Slot
    <3>2. SlotSound(q)
      BY <3>1 DEF IInv, PendingSound
    <3>3. submitted[slot[q].post] \subseteq submitted'[slot[q].post]
      BY <3>1
    <3> QED BY <3>1, <3>2, <3>3 DEF SlotSound, Sound, Exists
  <2> QED BY <2>1, <2>2
<1> QED BY <1>1, <1>2, <1>3 DEF IInv

-------------------------------------------------------------------------------
(* What a write does to the document it is about. *)

LEMMA WriteEffect ==
  ASSUME IInv, NEW r \in Requests, slot[r].phase = "writing"
  PROVE  LET p == slot[r].post
             old == posts[p]
             upd == slot[r].update
             new == SetFields(old, upd)
         IN  /\ p \in Posts /\ Exists(p) /\ slot[r].user \in Users
             /\ old \in Doc /\ new \in Doc /\ new # NoPost
             /\ new.content \in submitted[p]
             /\ slot[r].op \in {"like", "unlike"} =>
                  new = upd /\ new.likesCount = Cardinality(new.likedBy)
             /\ \A f \in DOMAIN Domains : new[f] = IF f \in DOMAIN upd THEN upd[f] ELSE old[f]
<1> DEFINE p == slot[r].post
           old == posts[p]
           upd == slot[r].update
           new == SetFields(old, upd)
<1>1. p \in Posts /\ upd \in Update /\ slot[r].user \in Users
  BY DEF IInv, TypeOK, Slot
<1>2. Exists(p) /\ Sound(slot[r], submitted[p])
  BY DEF IInv, PendingSound, SlotSound
<1>3. old \in Doc
  BY <1>1, <1>2 DEF IInv, TypeOK, Exists
<1>4. old.content \in submitted[p]
  BY <1>1, <1>2 DEF IInv, ContentFromAuthor
<1>5. new \in Doc /\ new # NoPost
  BY <1>1, <1>3, UpdateIsBody, SetFieldsType, NoPostAssumption
<1>6. \A f \in DOMAIN Domains : new[f] = IF f \in DOMAIN upd THEN upd[f] ELSE old[f]
  BY <1>3, SetFieldsIs
<1>7. new.content \in submitted[p]
  <2>1. new.content = IF "content" \in DOMAIN upd THEN upd.content ELSE old.content
    BY DEF SetFields
  <2> QED BY <1>2, <1>4, <2>1 DEF Sound
<1>8. slot[r].op \in {"like", "unlike"} =>
        new = upd /\ new.likesCount = Cardinality(new.likedBy)
  BY <1>2, <1>3, WriteBackReplaces DEF Sound
<1> QED BY <1>1, <1>2, <1>3, <1>5, <1>6, <1>7, <1>8

LEMMA CommitInv ==
  ASSUME IInv, NEW r \in Requests, CommitWrite(r)
  PROVE  IInv'
<1> DEFINE p == slot[r].post
           new == SetFields(posts[p], slot[r].update)
<1>1. /\ p \in Posts /\ Exists(p)
      /\ new \in Doc /\ new # NoPost
      /\ new.content \in submitted[p]
  BY WriteEffect DEF CommitWrite
<1>2. posts' = [posts EXCEPT ![p] = new] /\ submitted' = submitted
  BY DEF CommitWrite
<1>3. PICK result \in Results : Reply(r, result)
  BY DEF CommitWrite, Results
<1> HIDE DEF new
<1>4. TypeOK'
  BY <1>1, <1>2, <1>3 DEF IInv, TypeOK, Reply, Slot
<1>5. ContentFromAuthor'
  BY <1>1, <1>2 DEF IInv, TypeOK, ContentFromAuthor, Exists
<1>6. PendingSound'
  <2> SUFFICES ASSUME NEW q \in Requests, slot'[q].phase = "writing"
               PROVE  SlotSound(q)'
    BY DEF PendingSound
  <2>1. slot'[q] = slot[q] /\ slot[q].post \in Posts
    BY <1>3 DEF IInv, TypeOK, Reply, Slot
  <2>2. SlotSound(q)
    BY <2>1 DEF IInv, PendingSound
  <2>3. Exists(slot[q].post)'
    BY <1>1, <1>2, <2>1, <2>2 DEF SlotSound, Exists, IInv, TypeOK
  <2> QED BY <1>2, <2>1, <2>2, <2>3 DEF SlotSound, Exists
<1> QED BY <1>4, <1>5, <1>6 DEF IInv

-------------------------------------------------------------------------------
(* The requests that start. *)

\* A post a request found is a document with a content it was sent.
LEMMA FoundDoc ==
  ASSUME IInv, NEW p \in Posts, posts[p] # NoPost
  PROVE  posts[p] \in Doc /\ posts[p].content \in submitted[p]
  BY DEF IInv, TypeOK, ContentFromAuthor, Exists

LEMMA UpdateInv ==
  ASSUME IInv, NEW r \in Requests, NEW u \in Users, NEW p \in Posts,
         NEW b \in Bodies, BeginUpdate(r, u, p, b)
  PROVE  IInv'
<1>1. posts[p] \in Doc /\ Exists(p) /\ UNCHANGED posts
  BY FoundDoc DEF BeginUpdate, Exists
<1>2. u = posts[p].userId
  BY <1>1, OnlyAuthorMayWrite DEF BeginUpdate
<1>3. IsBody(b) /\ b \in Update
  BY BodiesAssumption DEF Update
<1>4. "content" \in DOMAIN b => b.content \in Contents
  BY <1>3 DEF IsBody, Domains
<1>5. submitted' \in [Posts -> SUBSET Contents]
  BY <1>4 DEF IInv, TypeOK, BeginUpdate
<1>6. \A q \in Posts : submitted[q] \subseteq submitted'[q]
  BY DEF IInv, TypeOK, BeginUpdate
<1>7. "content" \in DOMAIN b => b.content \in submitted'[p]
  BY <1>2 DEF IInv, TypeOK, BeginUpdate
<1>8. Sound([phase |-> "writing", op |-> "update", user |-> u, post |-> p, update |-> b],
            submitted'[p])
  BY <1>7 DEF Sound
<1>9. AwaitWrite(r, "update", u, p, b)
  BY DEF BeginUpdate
<1> QED BY <1>1, <1>3, <1>5, <1>6, <1>8, <1>9, AwaitInv DEF Ops

\* Delete and publish, whose updates carry no content.
LEMMA PatchInv ==
  ASSUME IInv, NEW r \in Requests, NEW u \in Users, NEW p \in Posts,
         BeginDelete(r, u, p) \/ BeginPublish(r, u, p)
  PROVE  IInv'
<1>1. PICK op \in {"delete", "publish"}, upd \in {DeleteUpdate, PublishUpdate} :
        AwaitWrite(r, op, u, p, upd)
  BY DEF BeginDelete, BeginPublish
<1>2. Exists(p) /\ UNCHANGED <<posts, submitted>>
  BY DEF BeginDelete, BeginPublish, Exists
<1>3. "content" \notin DOMAIN upd
  BY DEF DeleteUpdate, PublishUpdate
<1>4. upd \in Update /\ op \in Ops
  BY DEF Update, Ops
<1>5. Sound([phase |-> "writing", op |-> op, user |-> u, post |-> p, update |-> upd],
            submitted'[p])
  BY <1>3 DEF Sound
<1>6. submitted' \in [Posts -> SUBSET Contents] /\ \A q \in Posts : submitted[q] \subseteq submitted'[q]
  BY <1>2 DEF IInv, TypeOK
<1> QED BY <1>1, <1>2, <1>4, <1>5, <1>6, AwaitInv

LEMMA ReactInv ==
  ASSUME IInv, NEW r \in Requests, NEW u \in Users, NEW p \in Posts,
         BeginLike(r, u, p) \/ BeginUnlike(r, u, p)
  PROVE  IInv'
<1>1. PICK op \in {"like", "unlike"}, upd \in {LikeUpdate(posts[p], u), UnlikeUpdate(posts[p], u)} :
        AwaitWrite(r, op, u, p, upd)
  BY DEF BeginLike, BeginUnlike
<1>2. Exists(p) /\ posts[p] # NoPost /\ UNCHANGED <<posts, submitted>>
  BY DEF BeginLike, BeginUnlike, Exists
<1>3. posts[p] \in Doc /\ posts[p].content \in submitted[p]
  BY <1>2, FoundDoc
<1>4. upd \in Doc
  BY <1>3, ReactionUpdateType
<1>5. upd.content = posts[p].content /\ upd.likesCount = Cardinality(upd.likedBy)
  BY <1>3 DEF LikeUpdate, UnlikeUpdate, Doc
<1>6. upd \in Update /\ op \in Ops
  BY <1>4 DEF Update, Ops
<1>7. Sound([phase |-> "writing", op |-> op, user |-> u, post |-> p, update |-> upd],
            submitted'[p])
  BY <1>2, <1>3, <1>4, <1>5 DEF Sound
<1>8. submitted' \in [Posts -> SUBSET Contents] /\ \A q \in Posts : submitted[q] \subseteq submitted'[q]
  BY <1>2 DEF IInv, TypeOK
<1> QED BY <1>1, <1>2, <1>6, <1>7, <1>8, AwaitInv

LEMMA StartInv ==
  ASSUME IInv, NEW r \in Requests, Start(r)
  PROVE  IInv'
<1>1. ASSUME NEW p \in Posts, NEW u \in Users,
             FindNothing(r, u, p) \/ GetPost(r, u, p) \/ Refuse(r, u, p)
      PROVE  IInv'
  BY <1>1, ReplyInv DEF FindNothing, GetPost, Refuse, Results
<1>2. ASSUME NEW p \in Posts, NEW u \in Users, NEW b \in Bodies, BeginUpdate(r, u, p, b)
      PROVE  IInv'
  BY <1>2, UpdateInv
<1>3. ASSUME NEW p \in Posts, NEW u \in Users, BeginDelete(r, u, p) \/ BeginPublish(r, u, p)
      PROVE  IInv'
  BY <1>3, PatchInv
<1>4. ASSUME NEW p \in Posts, NEW u \in Reactors, BeginLike(r, u, p) \/ BeginUnlike(r, u, p)
      PROVE  IInv'
  BY <1>4, ReactInv, ReactorsAssumption
<1>5. ASSUME CreateNothing(r) PROVE IInv'
  BY <1>5, ReplyInv DEF CreateNothing, Results
<1> QED BY <1>1, <1>2, <1>3, <1>4, <1>5 DEF Start

LEMMA NextInv == IInv /\ [Next]_vars => IInv'
<1> SUFFICES ASSUME IInv, [Next]_vars PROVE IInv'
  OBVIOUS
<1>1. CASE UNCHANGED vars
  BY <1>1 DEF vars, IInv, TypeOK, ContentFromAuthor, PendingSound, SlotSound, Exists
<1>2. ASSUME NEW r \in Requests, NEW p \in Posts, NEW u \in Users, NEW b \in NewBodies,
             CreatePost(r, u, p, b)
      PROVE  IInv'
  BY <1>2, CreateInv
<1>3. ASSUME NEW r \in Requests, NEW p \in Posts, NEW u \in Reactors, LikeAgain(r, u, p)
      PROVE  IInv'
  BY <1>3, ReplyInv, ReactorsAssumption DEF LikeAgain, Results
<1>4. ASSUME NEW r \in Requests, Start(r) PROVE IInv'
  BY <1>4, StartInv
<1>5. ASSUME NEW r \in Requests, CommitWrite(r) PROVE IInv'
  BY <1>5, CommitInv
<1>6. ASSUME NEW r \in Requests, AbortWrite(r) PROVE IInv'
  BY <1>6, ReplyInv, WriteEffect DEF AbortWrite, Results
<1> QED BY <1>1, <1>2, <1>3, <1>4, <1>5, <1>6 DEF Next

LEMMA Invariance == Spec => []IInv
<1>1. QED BY InitInv, NextInv, PTL DEF Spec

-------------------------------------------------------------------------------
(* The invariants. *)

\* Every document, request slot and history value has its type.
THEOREM TypeCorrect == Spec => []TypeOK
  BY Invariance, PTL DEF IInv

\* Whatever the interleaving and whatever the bodies name, a post shows a content that
\* its creator sent, or a user who was its author when sending it.
THEOREM ContentIsFromAuthor == Spec => []ContentFromAuthor
  BY Invariance, PTL DEF IInv

-------------------------------------------------------------------------------
(* The action properties.  Only two actions write documents, so each step is *)
(* either a creation, a write, or leaves every document as it is.            *)

LEMMA StepKinds ==
  ASSUME [Next]_vars
  PROVE  \/ \E r \in Requests, p \in Posts, u \in Users, b \in NewBodies : CreatePost(r, u, p, b)
         \/ \E r \in Requests : CommitWrite(r)
         \/ UNCHANGED posts
  BY DEF Next, Start, vars, CreateNothing, FindNothing, GetPost, Refuse, BeginUpdate, BeginDelete,
         BeginPublish, LikeAgain, BeginLike, BeginUnlike, AbortWrite

\* A write leaves the other documents alone, and of its own the fields it does not
\* name; that of a like or an unlike leaves the document it carried.
LEMMA CommitEffect ==
  ASSUME IInv, NEW r \in Requests, CommitWrite(r), NEW p \in Posts, Exists(p)
  PROVE  /\ Exists(p)' /\ posts'[p] \in Doc
         /\ \/ posts'[p] = posts[p]
            \/ /\ WritingBack(r, p)
               /\ posts'[p] = slot[r].update
               /\ posts'[p].likesCount = Cardinality(posts'[p].likedBy)
            \/ /\ Writing(r, p) /\ slot[r].op \notin {"like", "unlike"}
               /\ \A f \in DOMAIN Domains : f \notin DOMAIN slot[r].update => posts'[p][f] = posts[p][f]
         /\ WritingBack(r, p) => posts'[p].likesCount = Cardinality(posts'[p].likedBy)
<1> DEFINE new == SetFields(posts[p], slot[r].update)
<1>0. slot[r].phase = "writing"
  BY DEF CommitWrite
<1>1. CASE slot[r].post = p
  <2>1. /\ new \in Doc /\ new # NoPost
        /\ slot[r].op \in {"like", "unlike"} =>
             new = slot[r].update /\ new.likesCount = Cardinality(new.likedBy)
        /\ \A f \in DOMAIN Domains :
             new[f] = IF f \in DOMAIN slot[r].update THEN slot[r].update[f] ELSE posts[p][f]
    BY <1>0, <1>1, WriteEffect
  <2>2. posts'[p] = new
    BY <1>1 DEF CommitWrite, IInv, TypeOK
  <2> HIDE DEF new
  <2> QED BY <1>0, <1>1, <2>1, <2>2 DEF Exists, WritingBack, Writing
<1>2. CASE slot[r].post # p
  BY <1>2, FoundDoc DEF CommitWrite, IInv, TypeOK, Exists, WritingBack, Writing
<1> QED BY <1>1, <1>2

LEMMA CreateEffect ==
  ASSUME IInv, NEW r \in Requests, NEW u \in Users, NEW q \in Posts, NEW b \in NewBodies,
         CreatePost(r, u, q, b), NEW p \in Posts, Exists(p)
  PROVE  posts'[p] = posts[p]
  BY DEF CreatePost, IInv, TypeOK, Exists

\* A field of a post changes by a request that names it, or by writing back a document
\* that holds another value.
LEMMA FieldChange ==
  ASSUME IInv, [Next]_vars, NEW p \in Posts, Exists(p), NEW f \in DOMAIN Domains
  PROVE  /\ Exists(p)'
         /\ \/ posts'[p][f] = posts[p][f]
            \/ Sets(p, f)
            \/ \E r \in Requests : WritingBack(r, p) /\ posts'[p][f] = slot[r].update[f]
<1>1. CASE \E r \in Requests, q \in Posts, u \in Users, b \in NewBodies : CreatePost(r, u, q, b)
  BY <1>1, CreateEffect DEF Exists
<1>2. CASE \E r \in Requests : CommitWrite(r)
  BY <1>2, CommitEffect DEF Sets
<1>3. CASE UNCHANGED posts
  BY <1>3 DEF Exists
<1> QED BY <1>1, <1>2, <1>3, StepKinds

\* Every write of a like or an unlike leaves an exact count, and the count stays exact
\* as long as no body names it or the entries it counts.
THEOREM LikesCountsFollow == Spec => LikesCountFollows
<1> DEFINE
      P == \A p \in Posts : Exists(p) =>
             /\ CountIsExact(p) => CountIsExact(p)' \/ Sets(p, "likedBy") \/ Sets(p, "likesCount")
             /\ (\E r \in Requests : WritingBack(r, p) /\ CommitWrite(r)) => CountIsExact(p)'
<1>1. ASSUME IInv, [Next]_vars, NEW p \in Posts, Exists(p), CountIsExact(p)
      PROVE  CountIsExact(p)' \/ Sets(p, "likedBy") \/ Sets(p, "likesCount")
  <2>1. CASE \E r \in Requests, q \in Posts, u \in Users, b \in NewBodies : CreatePost(r, u, q, b)
    BY <1>1, <2>1, CreateEffect DEF CountIsExact
  <2>2. CASE UNCHANGED posts
    BY <1>1, <2>2 DEF CountIsExact
  <2>3. ASSUME NEW r \in Requests, CommitWrite(r), ~Sets(p, "likedBy"), ~Sets(p, "likesCount")
        PROVE  CountIsExact(p)'
    <3>1. CASE posts'[p] = posts[p]
      BY <1>1, <3>1 DEF CountIsExact
    <3>2. CASE posts'[p].likesCount = Cardinality(posts'[p].likedBy)
      BY <3>2 DEF CountIsExact
    <3>3. CASE /\ Writing(r, p) /\ slot[r].op \notin {"like", "unlike"}
               /\ \A f \in DOMAIN Domains : f \notin DOMAIN slot[r].update => posts'[p][f] = posts[p][f]
      <4>1. "likedBy" \notin DOMAIN slot[r].update /\ "likesCount" \notin DOMAIN slot[r].update
        BY <2>3, <3>3 DEF Sets
      <4>2. "likedBy" \in DOMAIN Domains /\ "likesCount" \in DOMAIN Domains
        BY DEF Domains
      <4>3. posts'[p]["likedBy"] = posts[p]["likedBy"] /\ posts'[p]["likesCount"] = posts[p]["likesCount"]
        BY <3>3, <4>1, <4>2
      <4> QED BY <1>1, <4>3 DEF CountIsExact
    <3> QED BY <1>1, <2>3, <3>1, <3>2, <3>3, CommitEffect
  <2> QED BY <1>1, <2>1, <2>2, <2>3, StepKinds
<1>2. ASSUME IInv, NEW p \in Posts, Exists(p), NEW r \in Requests, WritingBack(r, p), CommitWrite(r)
      PROVE  CountIsExact(p)'
  BY <1>2, CommitEffect DEF CountIsExact
<1>3. IInv /\ [Next]_vars => [P]_vars
  BY <1>1, <1>2
<1> QED BY <1>3, Invariance, PTL DEF Spec, LikesCountFollows

\* A document waiting to be written back was waiting before the step, or it was
\* read in this step by a like or an unlike.
LEMMA WriteBackKinds ==
  ASSUME IInv, [Next]_vars, NEW q \in Requests, NEW p \in Posts, WritingBack(q, p)'
  PROVE  \/ WritingBack(q, p) /\ slot'[q] = slot[q]
         \/ /\ Exists(p)
            /\ UNCHANGED posts
            /\ \E u \in Reactors :
                 \/ BeginLike(q, u, p) /\ slot'[q].update = LikeUpdate(posts[p], u)
                 \/ BeginUnlike(q, u, p) /\ slot'[q].update = UnlikeUpdate(posts[p], u)
<1> USE DEF WritingBack, Writing
<1>1. CASE UNCHANGED vars
  BY <1>1 DEF vars
<1>2. ASSUME NEW r \in Requests, NEW result, Reply(r, result)
      PROVE  WritingBack(q, p) /\ slot'[q] = slot[q]
  BY <1>2 DEF Reply, IInv, TypeOK
<1>3. ASSUME NEW r \in Requests, NEW u, NEW p1, NEW op \in {"update", "delete", "publish"},
             NEW upd, AwaitWrite(r, op, u, p1, upd)
      PROVE  WritingBack(q, p) /\ slot'[q] = slot[q]
  BY <1>3 DEF AwaitWrite, IInv, TypeOK
<1>4. ASSUME NEW r \in Requests, NEW p1 \in Posts, NEW u \in Reactors, BeginLike(r, u, p1)
      PROVE  \/ WritingBack(q, p) /\ slot'[q] = slot[q]
             \/ /\ Exists(p) /\ UNCHANGED posts
                /\ BeginLike(q, u, p) /\ slot'[q].update = LikeUpdate(posts[p], u)
  <2>1. CASE q = r
    <3>1. slot'[q] = [phase |-> "writing", op |-> "like", user |-> u, post |-> p1,
                      update |-> LikeUpdate(posts[p1], u)]
      BY <1>4, <2>1 DEF BeginLike, AwaitWrite, IInv, TypeOK
    <3>2. p1 = p
      BY <3>1
    <3> QED BY <1>4, <2>1, <3>1, <3>2 DEF BeginLike, Exists
  <2>2. CASE q # r
    BY <1>4, <2>2 DEF BeginLike, AwaitWrite, IInv, TypeOK
  <2> QED BY <2>1, <2>2
<1>5. ASSUME NEW r \in Requests, NEW p1 \in Posts, NEW u \in Reactors, BeginUnlike(r, u, p1)
      PROVE  \/ WritingBack(q, p) /\ slot'[q] = slot[q]
             \/ /\ Exists(p) /\ UNCHANGED posts
                /\ BeginUnlike(q, u, p) /\ slot'[q].update = UnlikeUpdate(posts[p], u)
  <2>1. CASE q = r
    <3>1. slot'[q] = [phase |-> "writing", op |-> "unlike", user |-> u, post |-> p1,
                      update |-> UnlikeUpdate(posts[p1], u)]
      BY <1>5, <2>1 DEF BeginUnlike, AwaitWrite, IInv, TypeOK
    <3>2. p1 = p
      BY <3>1
    <3> QED BY <1>5, <2>1, <3>1, <3>2 DEF BeginUnlike, Exists
  <2>2. CASE q # r
    BY <1>5, <2>2 DEF BeginUnlike, AwaitWrite, IInv, TypeOK
  <2> QED BY <2>1, <2>2
<1>6. \/ UNCHANGED vars
      \/ \E r \in Requests : \E result : Reply(r, result)
      \/ \E r \in Requests, op \in {"update", "delete", "publish"} : \E u, p1, upd :
           AwaitWrite(r, op, u, p1, upd)
      \/ \E r \in Requests, p1 \in Posts, u \in Reactors : BeginLike(r, u, p1) \/ BeginUnlike(r, u, p1)
  BY DEF Next, Start, CreatePost, CommitWrite, FindNothing, GetPost, Refuse, BeginUpdate, BeginDelete,
         BeginPublish, LikeAgain, AbortWrite, CreateNothing
<1> QED BY <1>1, <1>2, <1>3, <1>4, <1>5, <1>6

\* A settled field stays as it is, and settled, until a request that names it takes
\* effect: what is read after its last change cannot bring another value back.
LEMMA FieldSettles ==
  ASSUME IInv, [Next]_vars, NEW p \in Posts,
         NEW f \in DOMAIN Domains \ {"likedBy", "likesCount"}
  PROVE  Settles(p, f)
<1> SUFFICES ASSUME Settled(p, f), ~Sets(p, f)
             PROVE  Settled(p, f)' /\ posts'[p][f] = posts[p][f]
  BY DEF Settles
<1>1. Exists(p) /\ posts[p] \in Doc
  BY DEF Settled, IInv, TypeOK, Exists
<1>2. Exists(p)' /\ posts'[p][f] = posts[p][f]
  BY <1>1, FieldChange DEF Settled
<1>3. ASSUME NEW q \in Requests, WritingBack(q, p)'
      PROVE  slot'[q].update[f] = posts[p][f]
  <2>1. CASE WritingBack(q, p) /\ slot'[q] = slot[q]
    BY <2>1 DEF Settled
  <2>2. ASSUME NEW u \in Reactors,
               slot'[q].update = LikeUpdate(posts[p], u) \/ slot'[q].update = UnlikeUpdate(posts[p], u)
        PROVE  slot'[q].update[f] = posts[p][f]
    BY <1>1, <2>2, ReactionKeeps, ReactorsAssumption
  <2> QED BY <1>3, <2>1, <2>2, WriteBackKinds
<1> QED BY <1>2, <1>3 DEF Settled

\* A settled deletion is undone by a body that names deletedAt and by nothing else.
THEOREM DeletionsAreSettled == Spec => DeletionsSettle
<1> DEFINE P == \A p \in Posts : Settles(p, "deletedAt")
<1>1. IInv /\ [Next]_vars => [P]_vars
  BY FieldSettles DEF Domains
<1> QED BY <1>1, Invariance, PTL DEF Spec, DeletionsSettle

\* A settled content or status changes by an edit or a publication and by nothing else.
THEOREM EditsAreSettled == Spec => EditsSettle
<1> DEFINE P == \A p \in Posts, f \in {"content", "status"} : Settles(p, f)
<1>1. IInv /\ [Next]_vars => [P]_vars
  BY FieldSettles DEF Domains
<1> QED BY <1>1, Invariance, PTL DEF Spec, EditsSettle

\* A settled author is replaced by a body that hands the post on and by nothing else.
THEOREM AuthorsAreSettled == Spec => AuthorsSettle
<1> DEFINE P == \A p \in Posts : Settles(p, "userId")
<1>1. IInv /\ [Next]_vars => [P]_vars
  BY FieldSettles DEF Domains
<1> QED BY <1>1, Invariance, PTL DEF Spec, AuthorsSettle

\* A like lists its user and an unlike does not; neither touches another user's entries.
LEMMA ReactionLists ==
  ASSUME NEW doc \in Doc, NEW v \in Users, NEW u \in Users
  PROVE  /\ Listed(LikeUpdate(doc, v), u) <=> Listed(doc, u) \/ u = v
         /\ Listed(UnlikeUpdate(doc, v), u) <=> Listed(doc, u) /\ u # v
<1>1. 1 \in 1 .. MaxListed
  BY UsersAssumption
<1>2. LikeUpdate(doc, v).likedBy = doc.likedBy \cup {<<v, 1>>}
  BY DEF LikeUpdate, Liked, Doc
<1>3. UnlikeUpdate(doc, v).likedBy = {l \in doc.likedBy : l[1] # v}
  BY DEF UnlikeUpdate, Unliked, Doc
<1>4. Listed(LikeUpdate(doc, v), u) <=> Listed(doc, u) \/ u = v
  BY <1>1, <1>2 DEF Listed, Lists
<1>5. Listed(UnlikeUpdate(doc, v), u) <=> Listed(doc, u) /\ u # v
  BY <1>3 DEF Listed, Lists
<1> QED BY <1>4, <1>5

\* Once every handler agrees about a user, only that user's own request, or a body that
\* names likedBy, changes whether the user is among the likers.
THEOREM ReactionsAreSettled == Spec => ReactionsSettle
<1> DEFINE
      P == \A p \in Posts, u \in Users :
             /\ LikeSettled(p, u) =>
                  LikeSettled(p, u)' \/ Sets(p, "likedBy") \/ \E r \in Requests : BeginUnlike(r, u, p)
             /\ UnlikeSettled(p, u) =>
                  UnlikeSettled(p, u)' \/ Sets(p, "likedBy") \/ \E r \in Requests : BeginLike(r, u, p)
<1>0. "likedBy" \in DOMAIN Domains
  BY DEF Domains
<1>1. ASSUME IInv, [Next]_vars, NEW p \in Posts, NEW u \in Users, LikeSettled(p, u),
             ~Sets(p, "likedBy"), ~\E r \in Requests : BeginUnlike(r, u, p)
      PROVE  LikeSettled(p, u)'
  <2>1. Exists(p) /\ posts[p] \in Doc /\ Listed(posts[p], u)
    BY <1>1 DEF LikeSettled, IInv, TypeOK, Exists
  <2>2. Exists(p)' /\ Listed(posts'[p], u)
    BY <1>0, <1>1, <2>1, FieldChange DEF LikeSettled, Listed
  <2>3. ASSUME NEW q \in Requests, WritingBack(q, p)'
        PROVE  Listed(slot'[q].update, u)
    <3>1. CASE WritingBack(q, p) /\ slot'[q] = slot[q]
      BY <1>1, <3>1 DEF LikeSettled
    <3>2. ASSUME NEW v \in Reactors, BeginLike(q, v, p), slot'[q].update = LikeUpdate(posts[p], v)
          PROVE  Listed(slot'[q].update, u)
      BY <2>1, <3>2, ReactionLists, ReactorsAssumption
    <3>3. ASSUME NEW v \in Reactors, BeginUnlike(q, v, p), slot'[q].update = UnlikeUpdate(posts[p], v)
          PROVE  Listed(slot'[q].update, u)
      <4>1. v # u
        BY <1>1, <3>3
      <4> QED BY <2>1, <3>3, <4>1, ReactionLists, ReactorsAssumption
    <3> QED BY <1>1, <2>3, <3>1, <3>2, <3>3, WriteBackKinds
  <2> QED BY <2>2, <2>3 DEF LikeSettled
<1>2. ASSUME IInv, [Next]_vars, NEW p \in Posts, NEW u \in Users, UnlikeSettled(p, u),
             ~Sets(p, "likedBy"), ~\E r \in Requests : BeginLike(r, u, p)
      PROVE  UnlikeSettled(p, u)'
  <2>1. Exists(p) /\ posts[p] \in Doc /\ ~Listed(posts[p], u)
    BY <1>2 DEF UnlikeSettled, IInv, TypeOK, Exists
  <2>2. Exists(p)' /\ ~Listed(posts'[p], u)
    BY <1>0, <1>2, <2>1, FieldChange DEF UnlikeSettled, Listed
  <2>3. ASSUME NEW q \in Requests, WritingBack(q, p)'
        PROVE  ~Listed(slot'[q].update, u)
    <3>1. CASE WritingBack(q, p) /\ slot'[q] = slot[q]
      BY <1>2, <3>1 DEF UnlikeSettled
    <3>2. ASSUME NEW v \in Reactors, BeginUnlike(q, v, p), slot'[q].update = UnlikeUpdate(posts[p], v)
          PROVE  ~Listed(slot'[q].update, u)
      BY <2>1, <3>2, ReactionLists, ReactorsAssumption
    <3>3. ASSUME NEW v \in Reactors, BeginLike(q, v, p), slot'[q].update = LikeUpdate(posts[p], v)
          PROVE  ~Listed(slot'[q].update, u)
      <4>1. v # u
        BY <1>2, <3>3
      <4> QED BY <2>1, <3>3, <4>1, ReactionLists, ReactorsAssumption
    <3> QED BY <1>2, <2>3, <3>1, <3>2, <3>3, WriteBackKinds
  <2> QED BY <2>2, <2>3 DEF UnlikeSettled
<1>3. IInv /\ [Next]_vars => [P]_vars
  BY <1>1, <1>2
<1> QED BY <1>3, Invariance, PTL DEF Spec, ReactionsSettle

-------------------------------------------------------------------------------
(* The lists. *)

\* Reading lists leaves the service as it is: what is proved of Spec holds with them.
THEOREM ListsOnlyRead == ListsSpec => Spec
<1>1. ListsInit => Init
  BY DEF ListsInit
<1>2. [ListsNext]_listVars => [Next]_vars
  BY DEF ListsNext, listVars, FindPage, CountTotal, ListFails, OtherRequest
<1> QED BY <1>1, <1>2, PTL DEF ListsSpec, Spec

\* A request carries the status "published" only for a post whose author asked for it.
AsksFor(upd, status) == "status" \in DOMAIN upd /\ upd.status = status

StatusesSound ==
  /\ \A p \in Posts : Exists(p) /\ posts[p].status = "published" => p \in published
  /\ \A r \in Requests :
       slot[r].phase = "writing" /\ AsksFor(slot[r].update, "published") => slot[r].post \in published

\* What was shown is a page of a selection that agrees, for the posts that did not
\* change since, with what the filter selects now.
ListSound ==
  list # NoList =>
    /\ list = [request |-> list.request, filter |-> list.filter, skip |-> list.skip,
               limit |-> list.limit, items |-> list.items, changed |-> list.changed]
    /\ list.skip \in Nat /\ list.limit \in Int
    /\ list.items \subseteq {p \in Posts : Exists(p)} /\ list.changed \subseteq Posts
    /\ \E S \in SUBSET Posts :
         /\ Cardinality(list.items) = PageSize(Cardinality(S), list.skip, list.limit)
         /\ \A p \in Posts \ list.changed : p \in S <=> p \in Selected(list.filter)

ListsInv == StatusesSound /\ ListSound /\ DraftsUnlisted

\* A set of posts is no larger than two sets that cover it.
LEMMA CoveredBy ==
  ASSUME NEW X \in SUBSET Posts, NEW Y \in SUBSET Posts, NEW Z \in SUBSET Posts, X \subseteq Y \cup Z
  PROVE  Cardinality(X) <= Cardinality(Y) + Cardinality(Z)
<1>1. IsFiniteSet(Y) /\ IsFiniteSet(Z) /\ IsFiniteSet(Y \cup Z) /\ IsFiniteSet(Y \cap Z)
  BY PostsAssumption, FS_Subset
<1>2. Cardinality(X) <= Cardinality(Y \cup Z) /\ IsFiniteSet(X)
  BY <1>1, FS_Subset
<1>3. Cardinality(Y \cup Z) = Cardinality(Y) + Cardinality(Z) - Cardinality(Y \cap Z)
  BY <1>1, FS_Union
<1>4. /\ Cardinality(X) \in Nat /\ Cardinality(Y) \in Nat /\ Cardinality(Z) \in Nat
      /\ Cardinality(Y \cap Z) \in Nat
  BY <1>1, <1>2, FS_CardinalityType
<1> QED BY <1>2, <1>3, <1>4

LEMMA ListsInvInit == ListsInit => ListsInv
  BY DEF ListsInit, Init, ListsInv, StatusesSound, ListSound, DraftsUnlisted, Exists

\* What waits to be written after a step waited before it, or a handler has just
\* come to its second await.
LEMMA NewWrites ==
  ASSUME IInv, StatusesSound, OtherRequest, NEW q \in Requests,
         slot'[q].phase = "writing", AsksFor(slot'[q].update, "published")
  PROVE  slot'[q].post \in published'
<1> DEFINE Goal == slot'[q].post \in published'
<1>0. published \subseteq published' /\ \A p \in Posts : Publishes(p) => p \in published'
  BY DEF OtherRequest
<1>1. slot'[q] = slot[q] => Goal
  BY <1>0 DEF StatusesSound
<1>2. ASSUME NEW r \in Requests, NEW result, Reply(r, result) PROVE Goal
  BY <1>1, <1>2 DEF Reply, IInv, TypeOK
<1>3. ASSUME NEW r \in Requests, NEW op, NEW u, NEW p, NEW upd, AwaitWrite(r, op, u, p, upd), q # r
      PROVE  Goal
  BY <1>1, <1>3 DEF AwaitWrite, IInv, TypeOK
<1>4. ASSUME NEW op, NEW u, NEW p \in Posts, NEW upd, AwaitWrite(q, op, u, p, upd),
             Exists(p), posts[p].status = "published"
      PROVE  Goal
  BY <1>0, <1>4 DEF AwaitWrite, IInv, TypeOK, StatusesSound
<1>5. ASSUME NEW op \in {"update", "publish"}, NEW u \in Users, NEW p \in Posts, NEW upd,
             AwaitWrite(q, op, u, p, upd), posts[p] # NoPost, MayWrite(posts[p], u)
      PROVE  Goal
  <2>1. slot'[q] = [phase |-> "writing", op |-> op, user |-> u, post |-> p, update |-> upd]
    BY <1>5 DEF AwaitWrite, IInv, TypeOK
  <2>2. u = posts[p].userId
    BY <1>5, FoundDoc, OnlyAuthorMayWrite
  <2>3. Publishes(p)
    BY <2>1, <2>2 DEF Publishes, Writing, AsksFor
  <2> QED BY <1>0, <2>1, <2>3
<1>6. ASSUME NEW u, NEW p, AwaitWrite(q, "delete", u, p, DeleteUpdate) PROVE FALSE
  BY <1>6 DEF AwaitWrite, DeleteUpdate, AsksFor, IInv, TypeOK
<1>7. ASSUME NEW op, NEW u, NEW p \in Posts, posts[p] # NoPost,
             \/ AwaitWrite(q, op, u, p, LikeUpdate(posts[p], u))
             \/ AwaitWrite(q, op, u, p, UnlikeUpdate(posts[p], u))
      PROVE  Goal
  <2>1. PICK upd : /\ AwaitWrite(q, op, u, p, upd)
                   /\ upd = LikeUpdate(posts[p], u) \/ upd = UnlikeUpdate(posts[p], u)
    BY <1>7
  <2>2. slot'[q].update = upd
    BY <2>1 DEF AwaitWrite, IInv, TypeOK
  <2>3. upd.status = posts[p].status
    BY <1>7, <2>1, FoundDoc DEF LikeUpdate, UnlikeUpdate, Doc
  <2> QED BY <1>4, <1>7, <2>1, <2>2, <2>3 DEF AsksFor, Exists
<1>8. ASSUME NEW r \in Requests, Start(r) PROVE Goal
  <2>1. ASSUME NEW p \in Posts, NEW u \in Users,
               FindNothing(r, u, p) \/ GetPost(r, u, p) \/ Refuse(r, u, p)
        PROVE  Goal
    BY <1>2, <2>1 DEF FindNothing, GetPost, Refuse
  <2>2. ASSUME NEW p \in Posts, NEW u \in Users, NEW b \in Bodies, BeginUpdate(r, u, p, b)
        PROVE  Goal
    BY <1>3, <1>5, <2>2 DEF BeginUpdate
  <2>3. ASSUME NEW p \in Posts, NEW u \in Users, BeginDelete(r, u, p) PROVE Goal
    BY <1>3, <1>6, <2>3 DEF BeginDelete
  <2>4. ASSUME NEW p \in Posts, NEW u \in Users, BeginPublish(r, u, p) PROVE Goal
    BY <1>3, <1>5, <2>4 DEF BeginPublish
  <2>5. ASSUME NEW p \in Posts, NEW u \in Reactors, BeginLike(r, u, p) \/ BeginUnlike(r, u, p)
        PROVE  Goal
    BY <1>3, <1>7, <2>5 DEF BeginLike, BeginUnlike
  <2>6. ASSUME CreateNothing(r) PROVE Goal
    BY <1>2, <2>6 DEF CreateNothing
  <2> QED BY <1>8, <2>1, <2>2, <2>3, <2>4, <2>5, <2>6 DEF Start
<1> QED BY <1>2, <1>8 DEF OtherRequest, Next, CreatePost, LikeAgain, CommitWrite, AbortWrite

LEMMA StatusesStep ==
  ASSUME IInv, StatusesSound, OtherRequest
  PROVE  StatusesSound'
<1>0. published \subseteq published' /\ \A p \in Posts : Publishes(p) => p \in published'
  BY DEF OtherRequest
<1>1. ASSUME NEW p \in Posts, Exists(p)', posts'[p].status = "published" PROVE p \in published'
  <2>1. CASE posts'[p] = posts[p]
    BY <1>0, <1>1, <2>1 DEF StatusesSound, Exists
  <2>2. ASSUME NEW r \in Requests, NEW q \in Posts, NEW u \in Users, NEW b \in NewBodies,
               CreatePost(r, u, q, b), posts'[p] # posts[p]
        PROVE  p \in published'
    <3>1. p = q /\ posts[p] = NoPost
      BY <2>2 DEF CreatePost, IInv, TypeOK
    <3>2. Publishes(p)
      BY <1>1, <3>1 DEF Publishes, Exists
    <3> QED BY <1>0, <3>2
  <2>3. ASSUME NEW r \in Requests, CommitWrite(r), posts'[p] # posts[p] PROVE p \in published'
    <3>1. p = slot[r].post /\ posts'[p] = SetFields(posts[p], slot[r].update) /\ Exists(p)
      BY <2>3, WriteEffect DEF CommitWrite, IInv, TypeOK
    <3>2. posts[p].status = "published" \/ AsksFor(slot[r].update, "published")
      BY <1>1, <3>1 DEF SetFields, AsksFor
    <3> QED BY <1>0, <2>3, <3>1, <3>2 DEF StatusesSound, CommitWrite
  <2> QED BY <2>1, <2>2, <2>3, StepKinds DEF OtherRequest
<1> QED BY <1>1, NewWrites DEF StatusesSound

LEMMA ListStep ==
  ASSUME IInv, ListSound, DraftsUnlisted, OtherRequest
  PROVE  ListSound' /\ DraftsUnlisted'
<1>1. CASE list = NoList
  BY <1>1 DEF OtherRequest, ListSound, DraftsUnlisted
<1>2. CASE list # NoList
  <2> DEFINE now == {p \in Posts : posts'[p] # posts[p]}
             new == [request |-> list.request, filter |-> list.filter, skip |-> list.skip,
                     limit |-> list.limit, items |-> list.items, changed |-> list.changed \cup now]
  <2>1. list' = new
    BY <1>2 DEF OtherRequest, ListSound
  <2>2. \A p \in Posts : Exists(p) => Exists(p)'
    BY CreateEffect, CommitEffect, StepKinds DEF OtherRequest, Exists
  <2>3. /\ list'.filter = list.filter /\ list'.items = list.items
        /\ list'.skip = list.skip /\ list'.limit = list.limit
        /\ list'.changed = list.changed \cup now
    BY <2>1
  <2>4. \A p \in Posts \ now : p \in Selected(list.filter)' <=> p \in Selected(list.filter)
    BY <2>3 DEF Selected
  <2>5. ListSound'
    <3>1. list' = [request |-> list'.request, filter |-> list'.filter, skip |-> list'.skip,
                   limit |-> list'.limit, items |-> list'.items, changed |-> list'.changed]
      BY <2>1
    <3>2. list'.items \subseteq {p \in Posts : Exists(p)'} /\ list'.changed \subseteq Posts
      BY <1>2, <2>2, <2>3 DEF ListSound
    <3>3. PICK S \in SUBSET Posts :
            /\ Cardinality(list.items) = PageSize(Cardinality(S), list.skip, list.limit)
            /\ \A p \in Posts \ list.changed : p \in S <=> p \in Selected(list.filter)
      BY <1>2 DEF ListSound
    <3>4. \A p \in Posts \ list'.changed : p \in S <=> p \in Selected(list.filter)'
      BY <2>3, <2>4, <3>3
    <3>5. list'.skip \in Nat /\ list'.limit \in Int
      BY <1>2, <2>3 DEF ListSound
    <3> QED BY <2>3, <3>1, <3>2, <3>3, <3>4, <3>5 DEF ListSound
  <2>6. DraftsUnlisted'
    <3>1. ASSUME NEW p \in list'.items
          PROVE  IF list'.filter.public THEN p \in published'
                 ELSE posts'[p].userId \in list'.filter.by \/ p \in list'.changed
      <4>1. p \in list.items /\ p \in Posts
        BY <1>2, <2>3, <3>1 DEF ListSound
      <4>2. published \subseteq published'
        BY DEF OtherRequest
      <4> QED BY <1>2, <2>3, <4>1, <4>2 DEF DraftsUnlisted
    <3> QED BY <3>1 DEF DraftsUnlisted
  <2> QED BY <2>5, <2>6
<1> QED BY <1>1, <1>2

\* What the first query of a list returns.
LEMMA FirstQuery ==
  ASSUME IInv, StatusesSound, NEW r \in Requests, FindPage(r)
  PROVE  ListSound' /\ DraftsUnlisted'
<1>1. PICK f \in Filters, page \in Pages, limit \in Limits :
        /\ SkipOf(page, limit) >= 0
        /\ \E items \in SUBSET Selected(f) :
             /\ Cardinality(items) = PageSize(Cardinality(Selected(f)), SkipOf(page, limit), limit)
             /\ list' = [request |-> r, filter |-> f, skip |-> SkipOf(page, limit), limit |-> limit,
                         items |-> items, changed |-> {}]
  BY DEF FindPage
<1> DEFINE skip == SkipOf(page, limit)
<1>2. PICK items \in SUBSET Selected(f) :
        /\ Cardinality(items) = PageSize(Cardinality(Selected(f)), skip, limit)
        /\ list' = [request |-> r, filter |-> f, skip |-> skip, limit |-> limit,
                    items |-> items, changed |-> {}]
  BY <1>1
<1>3. UNCHANGED <<vars, published>>
  BY DEF FindPage
<1>4. Selected(f)' = Selected(f) /\ Selected(f) \in SUBSET {p \in Posts : Exists(p)}
  BY <1>3 DEF vars, Selected, Exists
<1>5. skip \in Nat /\ limit \in Int
  BY <1>1, PagesAssumption DEF SkipOf
<1> HIDE DEF skip
<1>6. ListSound'
  BY <1>2, <1>3, <1>4, <1>5 DEF vars, ListSound, Exists
<1>7. DraftsUnlisted'
  BY <1>2, <1>3 DEF vars, DraftsUnlisted, Selected, Matches, StatusesSound, Exists
<1> QED BY <1>6, <1>7

LEMMA ListsInvStep == IInv /\ ListsInv /\ [ListsNext]_listVars => ListsInv'
<1> SUFFICES ASSUME IInv, ListsInv, [ListsNext]_listVars PROVE ListsInv'
  OBVIOUS
<1> USE DEF ListsInv
<1>1. CASE OtherRequest
  BY <1>1, StatusesStep, ListStep
<1>2. ASSUME UNCHANGED <<vars, published>> PROVE StatusesSound'
  BY <1>2 DEF vars, StatusesSound, Exists
<1>3. CASE \E r \in Requests : FindPage(r)
  BY <1>2, <1>3, FirstQuery DEF FindPage
<1>4. CASE UNCHANGED <<vars, published>> /\ list' = list
  BY <1>2, <1>4 DEF vars, ListSound, DraftsUnlisted, Selected, Exists
<1>5. CASE UNCHANGED <<vars, published>> /\ list' = NoList
  BY <1>2, <1>5 DEF ListSound, DraftsUnlisted
<1> QED BY <1>1, <1>3, <1>4, <1>5 DEF ListsNext, CountTotal, ListFails, listVars

LEMMA ListsInvariance == ListsSpec => [](IInv /\ ListsInv)
  BY ListsOnlyRead, Invariance, ListsInvInit, ListsInvStep, PTL DEF ListsSpec

\* However edits, handovers, publications, deletions and likes overlap a list and one
\* another, a list shows no draft to anyone but its author.
THEOREM DraftsAreUnlisted == ListsSpec => []DraftsUnlisted
  BY ListsInvariance, PTL DEF ListsInv

\* A page of a list grows by no more than the list does.
LEMMA PageSizeGrows ==
  ASSUME NEW m \in Nat, NEW n \in Nat, NEW d \in Nat, NEW skip \in Nat, NEW limit \in Int, m <= n + d
  PROVE  PageSize(m, skip, limit) <= PageSize(n, skip, limit) + d
  BY DEF PageSize

\* Whatever the page and the limit, the page shown differs from the page the total
\* implies by no more than the posts that changed between the two queries; with none
\* they agree.
THEOREM TotalsAlwaysAgree == ListsSpec => TotalsAgree
<1> DEFINE P == \A total \in 0 .. Cardinality(Posts) : CountTotal(total) =>
                  LET implied == PageSize(total, list.skip, list.limit)
                      shown == Cardinality(list.items)
                  IN  /\ implied <= shown + Cardinality(list.changed)
                      /\ shown <= implied + Cardinality(list.changed)
<1>1. ListsInv => [P]_listVars
  <2> SUFFICES ASSUME ListsInv, NEW total \in 0 .. Cardinality(Posts), CountTotal(total)
               PROVE  /\ PageSize(total, list.skip, list.limit)
                           <= Cardinality(list.items) + Cardinality(list.changed)
                      /\ Cardinality(list.items)
                           <= PageSize(total, list.skip, list.limit) + Cardinality(list.changed)
    OBVIOUS
  <2> DEFINE C == list.changed
             N == Selected(list.filter)
  <2>1. PICK S \in SUBSET Posts :
          /\ Cardinality(list.items) = PageSize(Cardinality(S), list.skip, list.limit)
          /\ \A p \in Posts \ C : p \in S <=> p \in N
    BY DEF ListsInv, ListSound, CountTotal
  <2>2. list.skip \in Nat /\ list.limit \in Int /\ C \subseteq Posts /\ N \subseteq Posts
    BY DEF ListsInv, ListSound, CountTotal, Selected
  <2>3. S \subseteq N \cup C /\ N \subseteq S \cup C
    BY <2>1, <2>2
  <2>4. total = Cardinality(N)
    BY DEF CountTotal, Counted
  <2> HIDE DEF C, N
  <2>5. Cardinality(S) <= Cardinality(N) + Cardinality(C)
    BY <2>1, <2>2, <2>3, CoveredBy
  <2>6. Cardinality(N) <= Cardinality(S) + Cardinality(C)
    BY <2>1, <2>2, <2>3, CoveredBy
  <2>7. Cardinality(S) \in Nat /\ Cardinality(N) \in Nat /\ Cardinality(C) \in Nat
    BY <2>1, <2>2, PostsAssumption, FS_Subset, FS_CardinalityType
  <2> QED BY <2>1, <2>2, <2>4, <2>5, <2>6, <2>7, PageSizeGrows DEF C
<1> QED BY <1>1, ListsInvariance, PTL DEF ListsSpec, TotalsAgree

===============================================================================
