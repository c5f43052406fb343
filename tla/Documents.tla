------------------------------ MODULE Documents ------------------------------
(***************************************************************************)
(* The todos-service and the books-service, called through the             *)
(* api-gateway: two services of one shape (RoutesAlike), each with its     *)
(* collection, of which the module is one.  at[r] = "counting" is the      *)
(* await between the two queries of a list; the other handlers make one    *)
(* query each.  The bodies of POST and PUT have inline types, which the    *)
(* ValidationPipe neither validates nor whitelists: they may name every    *)
(* field of the schema, userId and deletedAt included.                     *)
(***************************************************************************)
EXTENDS GatewayCalls, MongoPages, FiniteSets

CONSTANTS
  Users,
  Ids,          \* ids MongoDB may give to new documents
  Marks,        \* values of the field a list may filter on: status, isRead, genre
  DefaultMark,  \* that of the schema
  NewBodies,    \* the bodies of POST
  Bodies,       \* the bodies of PUT
  Pages,        \* the page and limit of a query string, zero and below included
  Limits,
  None

\* What a body may name.
Fields == [owner |-> Users, mark |-> Marks, deleted |-> BOOLEAN]
IsBody(b) == DOMAIN b \subseteq DOMAIN Fields /\ \A f \in DOMAIN b : b[f] \in Fields[f]

ASSUME DocumentsAssumption ==
  /\ Pages \subseteq Int /\ Limits \subseteq Int /\ DefaultMark \in Marks
  /\ None \notin Ids \cup Marks \cup Users \cup Int
ASSUME BodiesAssumption == \A b \in NewBodies \cup Bodies : IsBody(b)

VARIABLES
  docs,         \* the collection: a document, or None, for each id
  arg,          \* arg[r]: the payload of r's call
  answer,       \* answer[r]: the items and the total of a list
  acked,        \* history: acked[u] creations u was told of
  refused,      \* history: refused[u] creations u was told had failed
  deletions,    \* history: documents whose deletion was acknowledged, unless restored
  gone,         \* history: of deletions, those a list was asked for after, or the one
                \* a call carried out; less what was restored since
  disturbed     \* history: lists under way when a document changed

vars == <<waiting, at, calls, faults, docs, arg, answer, acked, refused, deletions, gone, disturbed>>

Stored == {i \in Ids : docs[i] # None}

TodosGateway == {<<"create", "todo.create">>, <<"findById", "todo.findById">>,
                 <<"findByUser", "todo.findByUser">>,
                 <<"update", "todo.update">>, <<"delete", "todo.delete">>}
TodosController == {<<"todo.create", "create">>, <<"todo.findById", "findById">>,
                    <<"todo.findByUser", "findByUser">>, <<"todo.findByStatus", "findMarked">>,
                    <<"todo.update", "update">>, <<"todo.delete", "delete">>,
                    <<"todo.list", "findByUser">>}
BooksGateway == {<<"create", "book.create">>, <<"findById", "book.findById">>,
                 <<"findByUser", "book.findByUser">>,
                 <<"update", "book.update">>, <<"delete", "book.delete">>}
BooksController == {<<"book.create", "create">>, <<"book.findById", "findById">>,
                    <<"book.findByUser", "findByUser">>, <<"book.findByReadStatus", "findMarked">>,
                    <<"book.findByGenre", "findMarked">>,
                    <<"book.update", "update">>, <<"book.delete", "delete">>,
                    <<"book.list", "findByUser">>}

\* Lists on a field, which no gateway method asks for: first pages only.
TodosInternal == {<<"findMarked", "todo.findByStatus">>}
BooksInternal == {<<"findMarked", "book.findByReadStatus">>, <<"findMarked", "book.findByGenre">>}

TodoRoutes == Routes(TodosGateway \cup TodosInternal, TodosController)
BookRoutes == Routes(BooksGateway \cup BooksInternal, BooksController)

\* Each gateway method reaches the same handler in both services.
ASSUME RoutesAlike == TodoRoutes = BookRoutes

Handler(r, h) == at[r] = "sent" /\ <<arg[r].op, h>> \in TodoRoutes

\* A payload has the user of the token, and None or 0 for what its handler does
\* not read.
Pay(op, u, i, b, m, skip, limit) ==
  [op |-> op, user |-> u, id |-> i, body |-> b, mark |-> m, skip |-> skip, limit |-> limit]

\* The gateway's controllers make a skip of the texts of page and limit, and pass the
\* limit on as it is.  None is a limit that is empty, and 0 in the product.
AskedSkip(page, limit) == IF limit = None THEN 0 ELSE SkipOf(page, limit)

\* `dto.limit || 10`: the empty text is falsy, "0" is not.
LimitOf(limit) == IF limit = None THEN 10 ELSE limit

\* Other callers send numbers, of which 0 is falsy.
NumberLimit(n) == IF n = 0 THEN None ELSE n

Payloads ==
  {Pay("create", u, None, b, None, 0, 0) : u \in Users, b \in NewBodies}
  \cup {Pay(op, None, i, None, None, 0, 0) : op \in {"findById", "delete"}, i \in Ids}
  \cup {Pay("update", u, i, b, None, 0, 0) : u \in Users, i \in Ids, b \in Bodies}
  \cup {Pay("findByUser", u, None, None, None, AskedSkip(p, l), LimitOf(l)) :
           u \in Users, p \in Pages, l \in Limits \cup {None}}
  \cup {Pay("findMarked", u, None, None, m, 0, LimitOf(NumberLimit(n))) :
           u \in Users, m \in Marks, n \in Limits}

NoAnswer == [items |-> {}, total |-> 0]

Init == /\ CallsInit
        /\ docs = [i \in Ids |-> None]
        /\ arg = [r \in Requests |-> None]
        /\ answer = [r \in Requests |-> NoAnswer]
        /\ acked = [u \in Users |-> 0] /\ refused = [u \in Users |-> 0]
        /\ deletions = {} /\ gone = [r \in Requests |-> {}] /\ disturbed = {}

-------------------------------------------------------------------------------
(* The gateway. *)

Ask(r) ==
  /\ Free(r)
  /\ \/ \E a \in Payloads :
          /\ Send(r) /\ arg' = [arg EXCEPT ![r] = a]
          /\ gone' = IF a.op \in {"findByUser", "findMarked"} THEN [gone EXCEPT ![r] = deletions] ELSE gone
     \/ TurnAway /\ UNCHANGED <<arg, gone>>
  /\ UNCHANGED <<docs, answer, acked, refused, deletions, disturbed>>

\* What the client of r learns of its call, once: that it succeeded, or that it failed.
Told(r, ok) ==
  LET a == arg[r] IN
  /\ acked' = IF ok /\ a.op = "create" THEN [acked EXCEPT ![a.user] = @ + 1] ELSE acked
  /\ refused' = IF ~ok /\ a.op = "create" THEN [refused EXCEPT ![a.user] = @ + 1] ELSE refused
  /\ deletions' = IF ok /\ a.op = "delete" THEN deletions \cup gone[r] ELSE deletions

\* The gateway and the service have both finished with the call.
Forget(r) ==
  IF at'[r] = "none" /\ r \notin waiting'
    THEN /\ arg' = [arg EXCEPT ![r] = None]
         /\ answer' = [answer EXCEPT ![r] = NoAnswer]
         /\ gone' = [gone EXCEPT ![r] = {}]
         /\ disturbed' = disturbed \ {r}
    ELSE UNCHANGED <<arg, answer, gone, disturbed>>

Deliver(r) == Answer(r) /\ Told(r, at[r] = "replied") /\ Forget(r) /\ UNCHANGED docs

Timeout(r) == GiveUp(r) /\ Told(r, FALSE) /\ Forget(r) /\ UNCHANGED docs

Drop(r) == DropReply(r) /\ Forget(r) /\ UNCHANGED <<docs, acked, refused, deletions>>

-------------------------------------------------------------------------------
(* The services. *)

\* Lists that stand between their two queries while a document changes.
Disturb == disturbed' = disturbed \cup {r \in Requests : at[r] = "counting"}

NewId == CHOOSE i \in Ids : i \notin Stored    \* MongoDB's ids are unique

\* The message is {userId, ...body}: the requester's userId for a body without one.
OwnerIn(a) == IF "owner" \in DOMAIN a.body THEN a.body.owner ELSE a.user

\* The schema's defaults, for what the body does not name.
NewDocument(a) ==
  LET Field(f, default) == IF f \in DOMAIN a.body THEN a.body[f] ELSE default
  IN  [creator |-> a.user, owner |-> OwnerIn(a),
       mark |-> Field("mark", DefaultMark), deleted |-> Field("deleted", FALSE)]

\* save() validates: a body without a title, which is left out here, stores nothing.
Create(r) ==
  /\ Handler(r, "create") /\ Stored # Ids
  /\ \/ /\ docs' = [docs EXCEPT ![NewId] = NewDocument(arg[r])]
        /\ Step(r, "replied") /\ Disturb
     \/ Step(r, "threw") /\ UNCHANGED <<docs, disturbed>>
  /\ UNCHANGED <<waiting, calls, faults, arg, answer, acked, refused, deletions, gone>>

\* A deleted document is found, and updated, like any other.
Found(r) == arg[r].id \in Stored

FindById(r) ==
  /\ Handler(r, "findById")
  /\ Step(r, IF Found(r) THEN "replied" ELSE "threw")
  /\ UNCHANGED <<waiting, calls, faults, docs, arg, answer, acked, refused, deletions, gone, disturbed>>

\* The whole message is the $set.
Updated(d, a) ==
  LET Field(f) == IF f \in DOMAIN a.body THEN a.body[f] ELSE d[f]
  IN  [creator |-> d.creator, owner |-> OwnerIn(a), mark |-> Field("mark"), deleted |-> Field("deleted")]

SoftDeleted_WithPayload(d, a) == [d EXCEPT !.owner = a.user, !.deleted = TRUE]
SoftDeleted(d, a) == [d EXCEPT !.deleted = TRUE]

Changed(d, a) == IF a.op = "update" THEN Updated(d, a) ELSE SoftDeleted(d, a)

\* A body that sets deletedAt to null.
Restores(a) == a.op = "update" /\ "deleted" \in DOMAIN a.body /\ ~a.body.deleted

\* What r's call does to the histories of deletions: it is one, or undoes those before.
Trace(r) ==
  LET a == arg[r] IN
  IF Restores(a)
    THEN /\ deletions' = deletions \ {a.id}
         /\ gone' = [q \in Requests |-> gone[q] \ {a.id}]
    ELSE /\ gone' = IF a.op = "delete" THEN [gone EXCEPT ![r] = {a.id}] ELSE gone
         /\ UNCHANGED deletions

UpdateOrDelete(r) ==
  /\ \/ Handler(r, "update")
     \/ Handler(r, "delete")
  /\ IF Found(r)
       THEN /\ docs' = [docs EXCEPT ![arg[r].id] = Changed(@, arg[r])]
            /\ Step(r, "replied") /\ Disturb /\ Trace(r)
       ELSE Step(r, "threw") /\ UNCHANGED <<docs, disturbed, deletions, gone>>
  /\ UNCHANGED <<waiting, calls, faults, arg, answer, acked, refused>>

\* The filter of a list's two queries.
Matching_DeletedToo(a) ==
  {i \in Stored : /\ docs[i].owner = a.user
                  /\ a.op = "findMarked" => docs[i].mark = a.mark}
Matching(a) ==
  {i \in Stored : /\ docs[i].owner = a.user /\ ~docs[i].deleted
                  /\ a.op = "findMarked" => docs[i].mark = a.mark}

\* The first query.  The sort order decides which documents are on the page; how
\* many are does not depend on it.  MongoDB refuses a negative skip.
FindPage(r) ==
  LET a == arg[r] IN
  /\ Handler(r, "findByUser") \/ Handler(r, "findMarked")
  /\ IF a.skip < 0
       THEN Step(r, "threw") /\ UNCHANGED answer
       ELSE /\ \E items \in SUBSET Matching(a) :
                 /\ Cardinality(items) = PageSize(Cardinality(Matching(a)), a.skip, a.limit)
                 /\ answer' = [answer EXCEPT ![r].items = items]
            /\ Step(r, "counting")
  /\ UNCHANGED <<waiting, calls, faults, docs, arg, acked, refused, deletions, gone, disturbed>>

\* The second query.
Counted_All(a) == {i \in Stored : docs[i].owner = a.user}
Counted(a) == Matching(a)

CountAll(r) ==
  /\ at[r] = "counting"
  /\ answer' = [answer EXCEPT ![r].total = Cardinality(Counted(arg[r]))]
  /\ Step(r, "replied")
  /\ UNCHANGED <<waiting, calls, faults, docs, arg, acked, refused, deletions, gone, disturbed>>

\* A call is lost with its instance; or its database call fails: before its effect,
\* or after it, when only the answer is lost.
Fail(r) ==
  /\ \/ LoseCall(r) /\ Forget(r)
     \/ /\ \/ at[r] \in {"sent", "counting"}
           \/ at[r] = "replied" /\ arg[r].op \in {"create", "update", "delete"}
        /\ QueryFails(r) /\ UNCHANGED <<arg, answer, gone, disturbed>>
  /\ UNCHANGED <<docs, acked, refused, deletions>>

Next == \E r \in Requests : \/ Ask(r) \/ Deliver(r) \/ Timeout(r) \/ Drop(r) \/ Fail(r)
                            \/ Create(r) \/ FindById(r) \/ UpdateOrDelete(r)
                            \/ FindPage(r) \/ CountAll(r)

Spec == Init /\ [][Next]_vars

\* The gateway's timer of five seconds fires unless the answer is there first.
FairSpec == Spec /\ \A r \in Requests : WF_vars(Timeout(r))

-------------------------------------------------------------------------------
(* Properties. *)

Document == [creator : Users, owner : Users, mark : Marks, deleted : BOOLEAN]
Payload == [op : {"create", "findById", "findByUser", "findMarked", "update", "delete"},
            user : Users \cup {None}, id : Ids \cup {None}, body : NewBodies \cup Bodies \cup {None},
            mark : Marks \cup {None}, skip : Int, limit : Int]

ASSUME NoneAssumption == None \notin Document \cup Payload

\* Types; a call in a service has its payload.
TypeOK ==
  /\ waiting \subseteq Requests
  /\ at \in [Requests -> {"none", "sent", "counting", "replied", "threw"}]
  /\ calls \in 0 .. MaxCalls /\ faults \in 0 .. MaxFaults
  /\ docs \in [Ids -> Document \cup {None}]
  /\ arg \in [Requests -> Payload \cup {None}]
  /\ answer \in [Requests -> [items : SUBSET Ids, total : Nat]]
  /\ acked \in [Users -> Nat] /\ refused \in [Users -> Nat]
  /\ deletions \subseteq Ids /\ gone \in [Requests -> SUBSET Ids] /\ disturbed \subseteq Requests
  /\ \A r \in Requests : arg[r] = None <=> at[r] = "none" /\ r \notin waiting

Copies(u) == {i \in Stored : docs[i].creator = u}
Pending(u) == {r \in waiting : arg[r].op = "create" /\ arg[r].user = u}

\* A creation is told of at most once and then stored; one told to have failed may
\* be stored all the same, once: a client that tries again after n failures has at
\* most n + 1 documents (todos.service.ts:10-27 and books.service.ts of the gateway,
\* which gives up without telling the service).
CopiesExplained ==
  \A u \in Users :
    /\ acked[u] <= Cardinality(Copies(u))
    /\ Cardinality(Copies(u)) <= acked[u] + refused[u] + Cardinality(Pending(u))

\* A list whose collection did not change between its two queries has the page
\* its total implies (todos.repository.ts findByUser, findByStatus, and the three
\* lists of books.repository.ts).
ListsAgree ==
  \A r \in Requests :
    at[r] = "replied" /\ arg[r].op \in {"findByUser", "findMarked"} /\ r \notin disturbed
      => Cardinality(answer[r].items) = PageSize(answer[r].total, arg[r].skip, arg[r].limit)

\* A list asked for after a deletion was acknowledged does not have the document,
\* whatever updates were carried out since the deletion was, unless the body of one
\* of them set deletedAt to null (softDelete and the deletedAt filter of the lists;
\* todos.service.ts:31-32).
ListsForgetDeleted ==
  \A r \in Requests : arg[r] # None /\ arg[r].op # "delete" => answer[r].items \cap gone[r] = {}

===============================================================================
