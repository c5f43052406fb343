------------------------------ MODULE PostsLists ------------------------------
(***************************************************************************)
(* The lists of the posts service, next to the requests that change posts. *)
(* A list is two queries of one filter, find and countDocuments, with an   *)
(* await in between.  A list is a request like the others and takes one of *)
(* their slots.  Lists write nothing, so that one under way at a time      *)
(* meets all that can happen to one.                                       *)
(***************************************************************************)
EXTENDS PostsService, MongoPages

CONSTANTS
  Tagged,      \* the contents that have the tag of GET /posts?tag=
  Pages,       \* the page and limit of a query string, zero and below included
  Limits,
  NoList       \* the value of `list` when none is under way

ASSUME TaggedAssumption == Tagged \subseteq Contents
ASSUME PostsAssumption == IsFiniteSet(Posts)
ASSUME PagesAssumption == Pages \subseteq Int /\ Limits \subseteq Int

VARIABLES
  list,        \* the list under way, or NoList
  published    \* history: posts whose author has asked for them to be public

listVars == <<vars, list, published>>

\* What the two queries of a list select by; deletedAt: null is part of each.
Filter == [by : SUBSET Users, public : BOOLEAN, tagged : BOOLEAN]
Published == [by |-> Users, public |-> TRUE, tagged |-> FALSE]
ByTag == [by |-> Users, public |-> TRUE, tagged |-> TRUE]
ByUser(u) == [by |-> {u}, public |-> FALSE, tagged |-> FALSE]

\* Faulty variant: the status is not part of the filter.
Matches_AnyStatus(f, doc) ==
  ~doc.deletedAt /\ doc.userId \in f.by /\ (f.tagged => doc.content \in Tagged)

Matches(f, doc) ==
  /\ ~doc.deletedAt
  /\ doc.userId \in f.by
  /\ f.public => doc.status = "published"
  /\ f.tagged => doc.content \in Tagged

Selected(f) == {p \in Posts : posts[p] # NoPost /\ Matches(f, posts[p])}

\* getUserPosts lists a user's posts, drafts too, for that user; RoleADMIN is no
\* token's role.
MayList(u, owner) == u = owner \/ RoleOf[u] = RoleADMIN

ListsInit == Init /\ list = NoList /\ published = {}

\* Which lists there are: of what is published, of that with a tag, of one's own.
Filters ==
  {Published, ByTag} \cup {ByUser(o) : o \in {o \in Users : \E u \in Users : MayList(u, o)}}

\* The first query of GET /posts and of GET /posts/my-posts/:userId.  Which posts are
\* on the page is a matter of createdAt; how many are is not.
FindPage(r) ==
  /\ list = NoList
  /\ CanStart(r)
  /\ \E f \in Filters, page \in Pages, limit \in Limits :
       LET skip == SkipOf(page, limit) IN
       /\ skip >= 0
       /\ \E items \in SUBSET Selected(f) :
            /\ Cardinality(items) = PageSize(Cardinality(Selected(f)), skip, limit)
            /\ list' = [request |-> r, filter |-> f, skip |-> skip, limit |-> limit,
                        items |-> items, changed |-> {}]
  /\ UNCHANGED <<vars, published>>

\* Faulty variant: deleted posts are counted too.
Counted_DeletedToo(f) ==
  {p \in Posts : posts[p] # NoPost /\ Matches(f, [posts[p] EXCEPT !.deletedAt = FALSE])}

Counted(f) == Selected(f)

\* The second query; the list is answered with its items and this total.
CountTotal(total) ==
  /\ list # NoList
  /\ total = Cardinality(Counted(list.filter))
  /\ list' = NoList
  /\ UNCHANGED <<vars, published>>

\* A query fails: the first, as it does when MongoDB refuses the negative skip of a
\* page below 1, or the second.
ListFails ==
  /\ list' = NoList
  /\ UNCHANGED <<vars, published>>

\* The author of p asks for it to be public: in a request, or in creating it.
Publishes(p) ==
  \/ \E r \in Requests : /\ Writing(r, p)' /\ slot'[r].op \in {"publish", "update"}
                         /\ slot'[r].user = posts[p].userId
                         /\ "status" \in DOMAIN slot'[r].update
                         /\ slot'[r].update.status = "published"
  \/ posts[p] = NoPost /\ posts'[p] # NoPost /\ posts'[p].status = "published"

\* Any other request, while a list is under way or not.
OtherRequest ==
  /\ Next
  /\ list # NoList => slot'[list.request] = slot[list.request]
  /\ published' = published \cup {p \in Posts : Publishes(p)}
  /\ list' = IF list = NoList THEN list
             ELSE [list EXCEPT !.changed = @ \cup {p \in Posts : posts'[p] # posts[p]}]

ListsNext ==
  \/ \E r \in Requests : FindPage(r)
  \/ \E total \in 0 .. Cardinality(Posts) : CountTotal(total)
  \/ ListFails
  \/ OtherRequest

ListsSpec == ListsInit /\ [][ListsNext]_listVars

-------------------------------------------------------------------------------
(* Properties. *)

\* A list shows a post to others than its author only if an author has asked for
\* it to be public: likes write the status back as they read it, but no overlap of
\* requests makes a draft public (posts.repository.ts, posts.service.ts like).
DraftsUnlisted ==
  list # NoList =>
    \A p \in list.items : IF list.filter.public THEN p \in published
                          ELSE posts[p].userId \in list.filter.by \/ p \in list.changed

\* The number of posts shown differs from what the total implies for the page by no
\* more than the posts that changed between the two queries (posts.repository.ts
\* findByUser, findPublished, findByTag; the skip of posts.controller.ts).
TotalsAgree ==
  [][\A total \in 0 .. Cardinality(Posts) : CountTotal(total) =>
       LET implied == PageSize(total, list.skip, list.limit)
           shown == Cardinality(list.items)
       IN  /\ implied <= shown + Cardinality(list.changed)
           /\ shown <= implied + Cardinality(list.changed)]_listVars

===============================================================================
