# A TLA+ model of the NestJS microservice platform

This directory holds TLA+ models of the platform under `src/`, TLC
configurations that check them on small instances, and proofs checked by TLAPS
of the properties that matter most. `PROJECT.json` relates every definition to
the lines it models, every property to a mutation of the code that breaks it,
and every hazard of the code to the properties that cover it.

Run, in this directory:

    tlc -workers 2 -config PostsRaces.cfg MCPostsLists       # any run: see "Runs"
    tlapm PostsServiceProofs.tla                             # the proofs; likewise the
                                                             # other *Proofs modules

## 1. Inventory

### The system

Clients talk HTTP to the **api-gateway** and to the **posts-service**. The
gateway forwards to the auth, user, todos and books services by request/reply
calls over Nest's TCP transport and gives up after five seconds. The services
keep their data in MongoDB; auth and user share the users collection. The auth
service emits an event when a user registers; the **notification-worker** and
the **email-worker** consume queues. Libraries under `libs/` hold the RabbitMQ
topology, publisher and retrying consumer, a Redis cache, the repositories,
token handling, guards, filters and pagination.

Every service is a Node process: a handler runs undisturbed from one `await` to
the next, and any number of other handlers run at each `await`. Nothing in the
repository uses transactions, locks or document versions, so every
read–`await`–write is a race, and what is left after it is the point of the
models.

| Component | State | Operations | What is hard | What makes it correct | Module |
|---|---|---|---|---|---|
| **posts-service**, **database library** | the posts collection; per request, the document or fields held across an `await` | create, get, update, delete (soft), publish, like, unlike, three lists | read, `await`, write; `like` and `unlike` write the *whole* document back; lists are two queries | a request changes what it names and nothing else: the count follows the likers; only text an author sent appears; what a client was told stays; deletions, edits and authors stay until a request says otherwise; drafts stay out of public lists | `PostsService`, `PostsLists`, `PostsClients`, `PostsBook` |
| **rabbitmq library** | exchanges, queues and bindings; unconfirmed publishes; unacked deliveries; `x-attempt` | `assertTopology`, `publish`, `consumeWithRetry` | a connection lost between any two steps; retries through the exchange; the attempt counter | nothing routed is lost; attempts count failures; retrying ends; each delivery has one end | `RetryConsumer`, `Deliveries` |
| **notification-worker** | its deliveries between `send` and ack | deliver, send, ack, nack with requeue | crash between send and ack; poison messages at the head of the queue; the prefetch window | acked means sent; duplicates have a reason; healthy messages get through | `NotificationWorker`, `Deliveries` |
| **auth-service**, **user-service** | accounts under a unique index on email; the USER_CREATED queue | register, login, logout, refresh, validate; find, list, update, delete | find, hash, insert: two registrations of one address, or one and a change of address; event after the insert | one account per address; tokens only against a password the account has had; every account announced or the fault known | `Accounts`, `Registry` |
| **api-gateway** | calls waiting for a reply | one call per route | timeout against a late reply; repetition of a request that took effect | every call ends; copies are explained by calls that were told to have failed | `GatewayCalls` |
| **todos-service**, **books-service** | their collections | create, get, update, delete, lists | find, then count; the update document is the whole message | an undisturbed list agrees with its total; deleted documents stay hidden until a body restores them | `Documents` |
| **redis library** | keys with a prefix and a time to live | getOrSet, set, del, deletePattern, incrWithTtl | a fetch that overlaps a write and its invalidation; the prefix in `scan` and `del`; lost answers | every stale value has a known cause and ends; a window's counter ends with it | `RedisCache` |
| **email-worker** | its deliveries | send, send batch | deliveries are acknowledged before they are handled; part of a batch fails | no mail twice; what no crash took is served | `EmailWorker`, `Deliveries` |
| **pagination** | none | normalise a query, build a page | zero, fractions, infinite, not a number, past the end | `skip` and `limit` are in range; following `hasNext` shows everything | `Pagination` |
| **guards, roles** | none | role check, authentication, two `UserRole` enums | the enums disagree on spelling | – | operators of `GatewayCalls`, `Accounts`, `PostsService` |
| filters, interceptors, dto, config, logger, hashing | none | pure mappings, input/output | – | – | – |

The gateway's `modules/auth` and `modules/user` are stubs no module imports, and
`user-service`'s `user.*` files are not wired in. No application imports
`libs/auth`, `libs/guards` or the functions of `pagination.util.ts`;
`auth.module.ts:6,35` imports the module of `libs/redis` and nothing injects its
service; and no worker calls `consumeWithRetry`. Those of them that have behaviour
of their own are modelled as what they promise a caller.

### What a body may name

Every `@Body()` of the services modelled here has an inline type. Such a type is
`Object` at run time, so the `ValidationPipe` (`main.ts:13` of the posts service, and
the gateway's) neither validates nor whitelists it, and its fields reach MongoDB as
the client sent them: `create` spreads them over the requester's id
(`posts.service.ts:11-14`), an update makes them its `$set` (`posts.service.ts:36`,
`users.service.ts:29`, `todos.service.ts:32`). A body may therefore name `userId`,
`likedBy`, `likesCount`, `deletedAt`, `password` and `roles` as well as what its type
lists, and the models' bodies do: `IsBody` in `PostsService`, `Accounts` and
`Documents` admits every choice of the schema's fields. Inserts are validated by
Mongoose (`IsValid`); updates are not. So no property says that such a field never
changes; they say that it changes only by a request that names it, whatever overlaps.

### Hazards

The full list, each at its line, is in `PROJECT.json`. The ones that shaped the
models: like and unlike write back a document read before an `await`
(`posts.service.ts:52,61`); the ownership check is made on such a document
(`posts.controller.ts:66`), and bodies may hand the post on meanwhile; the retry is
published before the original is acked (`rabbitmq.consumer.utils.ts:58`) and to the
exchange, not the queue (`:59`); the
notification worker requeues every failure (`notification.controller.ts:29`);
registration looks for the address, hashes, and inserts (`auth.service.ts:30-36`)
and announces what it inserted afterwards (`:46`); the gateway gives up on a
request the service goes on with (`todos.service.ts:33` of the gateway); every
list is two queries (`posts.repository.ts:15-19`, `todos.repository.ts:15-19`);
a cached value is fetched before and stored after an invalidation
(`redis.service.ts:68-71`).

## 2. Plan

The modules, in the order of what matters most; all are done.

1. `PostsService`, `PostsClients`, `PostsBook` — the concurrent core of the only
   service that serves HTTP from its own database, what its clients are told, and
   the abstract specification of that; `PostsLists` composes the service with its
   lists.
2. `RetryConsumer` — the delivery machinery meant for all services.
3. `NotificationWorker` — the consumer that is deployed; `Deliveries`, the abstract
   specification that both, and `EmailWorker`, implement.
4. `GatewayCalls` — the call and its timeout, composed with the services behind it
   in `Accounts`, whose abstract specification is `Registry`, and in `Documents`.
5. `RedisCache`, `EmailWorker`, `Pagination`; `MongoPages`, the arithmetic of skip and
   limit, which `PostsLists`, `Documents` and `Pagination` share.

Each has its proofs in a module of the same name with `Proofs`; those of
`Pagination` are in `DocumentsProofs`, those of `PostsLists` in
`PostsServiceProofs`. Left for later: the rooms of the websocket gateway, and the
order in which publishers and consumers of an exchange start (section 7).

## 3. What is modelled

### `PostsService` — the collection and its handlers

A *request slot* is one handler in flight. `slot[r]` is `free`, `writing` (the
handler awaits its `findOneAndUpdate`; `update` is the `$set` it sent) or
`replied`. So the interleavings are those of the code: each action is the code
between two awaits.

| Action | Code |
|---|---|
| `CreatePost` | `posts.controller.ts` create → `AbstractRepository.create` |
| `FindNothing` | `findById` throws `NotFoundException`, in every handler with an id |
| `GetPost` | `GET /posts/:id` |
| `Refuse` | update, delete, publish by a user the check turns away |
| `BeginUpdate`, `BeginDelete`, `BeginPublish` | the handler up to its second await: the check passed, the `$set` is the body, or the one field the handler sets |
| `LikeAgain` | like by a user already in `likedBy`: nothing is written |
| `BeginLike`, `BeginUnlike` | the handler up to its second await: the `$set` is the whole document it read |
| `CommitWrite` | `findOneAndUpdate` takes effect; the answer arrives or is lost |
| `AbortWrite` | the call fails before it takes effect, or the process dies |

`SetFields` is Mongoose's update: fields that are named replace the stored ones.
Because a hydrated document names all of them, like and unlike replace the
document; this is the cause of the races in section 6. `MayWrite` compares the
token's role (`TokenRoles`, from `@app/common`: lower case) with the controller's
`UserRole.ADMIN` (from `@app/constants`: upper case).

`submitted[p]` is history: the contents sent for the post by its creator and by those
who were its author when sending them. `NewBodies` and `Bodies` are the bodies of POST
and PUT; `CreateNothing` is a POST whose body `save()` refuses.

`PostsClients` adds what clients were told (`acked`): the last acknowledged
value of each part of a post, or that a lost answer leaves it open. `PostsBook`
is the promise: every request one atomic step on a table of entries, an edit changing
the fields its body names and no other, a reaction one user's entries and the count.
`Book` in `PostsService` is the refinement mapping.

Abstractions. Title, content, images and tags are one field; `deletedAt` is a
flag; `likedBy` is the set of its listings, the first, second, … entry of a user,
because a body can list a user twice, which like and unlike never do; `createdAt` and
`updatedAt` are left out. A status other than the enum's, which an update may set, is
`other`. Documents are never removed (`deleteOne` has no caller).

### `PostsLists` — the lists of the posts service

`ListsSpec` is `PostsService` with one list under way at a time: since a list
writes nothing, two of them cannot tell each other's presence. `list` is what the
first query found, with the filter both queries use and the page asked for;
`list.changed` and `published` are history. A list occupies a request slot. The page
has `PageSize` of the matching posts, which ones is left open, as the order by
`createdAt` is not modelled.

| Action | Code |
|---|---|
| `FindPage` | `GET /posts`, `GET /posts?tag=`, `GET /posts/my-posts/:userId` up to the answer of `find`, with `skip = (page - 1) * limit` |
| `CountTotal` | `countDocuments` with the same filter, and the reply |
| `ListFails` | either query fails, the first one also on a negative skip |
| `OtherRequest` | any step of `PostsService` meanwhile |

### `RetryConsumer` — `libs/rabbitmq`

`declared` is what the broker has, `step[c]` how far process `c` is in
`assertTopology`, which runs again on every (re)connection. `ready[q][m][a]`
counts the copies of `m` with `x-attempt = a` in queue `q`; `work[q][w]` is one
invocation of `consumeWithRetry`, from delivery to settlement:

    handling ─ success ─► acking ─► done
             └ failure ─► republishing ─► settled by retry ─► (original acked)
                       └► rejecting ─► dlq           (attempt + 1 >= maxAttempts)

The republish (`Republish`) and the ack of the original (`AckOriginal`) are two
steps because the connection can be lost in between. A lost connection
(`ConsumerReconnects`) makes every unacked delivery ready again, with the
attempt it had. `PublisherReconnects` sends again what was not confirmed. The
broker handles what one channel sends in order, so the copy precedes the ack even
though the republish is not confirmed; the broker itself does not fail, since
exchanges and queues are durable and messages persistent. `failures` and `owed`
are history. No worker of this repository calls `consumeWithRetry` yet, so its
handler is any asynchronous function that returns or throws.

### `NotificationWorker` — `apps/notification-worker`

RabbitMQ puts a requeued message back at its original place, so messages are
numbered by publication and the broker delivers the smallest in the queue.
`hand[m]` is `sending`, `acking` or `nacking`; at most `Prefetch` are not
`none`. A lost connection leaves the asynchronous calls running (`orphans`):
they may still send, and their ack goes nowhere. A crash ends them. `Kind` is
what `NotificationService.send` and the strategies branch on. `sent` and
`failed` are history.

### `GatewayCalls` — the calls of the api-gateway

Every method of the gateway's four services has one shape:
`client.send(pattern, payload)`, `timeout(5000)`, `catchError`. `waiting` holds the
requests whose client has no answer yet; `at[r]` is how far the called service is,
and goes on after the gateway gave up. The module has the steps all calls share;
`Accounts` and `Documents` extend it with payloads, handlers and collections.

| Step | Code |
|---|---|
| `Send`, `TurnAway` | the guards (throttler, `JwtAuthGuard`, `RolesGuard`) pass the request on, or do not |
| `Answer` | the reply, or the error that any exception of a service becomes |
| `GiveUp`, `DropReply` | the timeout, and the late reply nobody hears |
| `LoseCall` | the service instance or its connection fails |
| `QueryFails` | a database call of the handler fails, or only its answer is lost: no handler catches it |
| `Routes` | which handler a gateway method reaches: the pattern both sides name |

### `Accounts` — `apps/auth-service` and `apps/user-service`

`users` is the collection both services share. `at[r]` is `hashing` after
register's `findOne`, `emitting` after its insert. A password is the client that
chose it, or `None` for one nobody's compares with; an address is a spelling, and
`Canonical` is the schema's `lowercase` and `trim`, which Mongoose applies to filters
and documents alike. `Bodies` are those of `PUT /users/:id`: they may name address,
password, role and `deletedAt` (`Edited`). A password is stored as the body has it, so
it is one that compares only when a client put its own hash there. `roles` holds the
roles of a client's tokens, which `MayPass` checks against `@Roles`.

| Action | Code |
|---|---|
| `FindExisting`, `Insert`, `Emit` | `register`: `findOne` / hash and `create` under the unique index / `emit` of USER_CREATED, confirmed, confirmed but sent again, or failed and logged |
| `Login`, `RefreshToken`, `Logout`, `ValidateToken` | the rest of `auth.service.ts` |
| `FindById`, `FindByEmail`, `ListUsers`, `UpdateUser`, `DeleteUser` | `users.service.ts` |
| `Ask`, `Deliver`, `Timeout` | the gateway's `auth` and `users` modules; delivered tokens are `held` |
| `Fail` | a lost call or a failing query |

`unannounced`, `loggedOut` and `owned` are history; `owned[i]` holds the clients whose
password account `i` has had.

`Registry` is what the two services promise together, with every request one atomic
step: `Register` an account under a free address, `Announce` it or miss that for good,
`Edit` its fields, under a free address again, `Grant` a token of it to who has, or
has had, its password. `KeepsRegistry` maps `users`, `held` and `owned` to it as they
are, and `emitted` and `unannounced` to how far each announcement is (`News`): an event
sent again after a lost confirm is no step of `Registry`. What a call does after the gateway gave up on
it is a step like any other.

### `Documents` — `apps/todos-service` and `apps/books-service`

The two services differ in field names only: `RoutesAlike` is an assumption TLC
evaluates, that each gateway method reaches the same handler in both. `docs` is
one collection, `mark` the field a list may filter on. `NewBodies` and `Bodies` may
name the owner, the mark and `deletedAt`; a body without an owner gets the requester's
(`OwnerIn`). A limit is any integer or empty: `dto.limit || 10` replaces the empty text
and the number 0, but not the text `"0"`, which is what the gateway passes on.

| Action | Code |
|---|---|
| `Create`, `FindById`, `UpdateOrDelete` | the one-query handlers; `save()` may refuse a document; an update's `$set` is the whole message (`Updated`) |
| `FindPage`, `CountAll` | the two queries of a list, the gateway's `skip` and `limit` included; MongoDB refuses a negative skip |
| `Ask`, `Deliver`, `Timeout`, `Drop` | the gateway's `todos` and `books` modules |
| `Fail` | a lost call or a failing query |

`acked`, `refused` and `deletions` are what clients were told; `disturbed` holds
the lists under which a document changed. `gone[r]` are the documents whose deletion
was acknowledged before call `r` was sent; what a body restores leaves both histories.

### `RedisCache` — `libs/redis`

One cached key and one counter. A process runs `getOrSet` (`Get`, `Fetch`,
`Store`, each a round trip) or is a writer (`Write`, then `Invalidate`,
`DeletePattern` or, when it fails, `Forgo`); `Hit` is `incrWithTtl`; `Tick` is a second of
Redis's clock. Names are sequences, so that the client's prefix is put before a
key, and not before a pattern, as ioredis does. `source` is whatever `fetch` reads.

### `EmailWorker` — `apps/email-worker`

`queue`, what each worker has in `hand`, and for each message the addresses still
`due`, `mails` sent and addresses `refused`. A delivered message has left the
queue, because the consumer is declared without `noAck: false`; a crash takes
what the worker had in hand. A batch sends its mails in any order and waits for all
of them; the provider, a timer in the code so far, accepts or refuses.

### `Deliveries` — what a queue and its consumers promise

The abstract specification of the three consumers: each item, a message in a queue or
a mail to one address, is `absent`, then `owed`, then at one of its `Ends` or, if it
is `Losable`, `lost`; the last two are final. How the consumers map to it:

| Consumer | Item | Ends | Losable | Mapping, property |
|---|---|---|---|---|
| `RetryConsumer`, no connection lost, a key for each queue | queue and message | `completed`, `dead` (in the DLQ) | nothing | `Outcomes`, `RetriesEndOnce` |
| `NotificationWorker` | message | `sent`; `skipped` where `send()` has nothing to do; none for poison | nothing, crashes included | `Fates`, `NotificationsEndOnce` |
| `EmailWorker` | message and address | `mailed`, `refused` | every mail: deliveries are acknowledged on arrival | `MailFates`, `MailsEndOnce` |

The mappings have more values than the promise has ends (`copied`, `forgotten`,
`dropped`, `mailed again`): a state that has one of them is outside the promise, which
is how a step that duplicates or forgets shows. So `RetriesEndOnce` contains
`RetryStaysInQueue`, `MailsEndOnce` contains `AtMostOnceExplained`, and
`NotificationsEndOnce`, with `OnePlace`, contains `AckedMeansSent`; these three have
theorems of their own and no run.

### `Pagination` — `libs/common/src/utils/pagination.util.ts`

Operators for `normalizePagination` and `buildPaginatedResult`, and `PagesCover`,
what a client that follows `hasNext` relies on. `Number(...)` yields `NaN`, an infinity
or a finite number, and the code keeps fractions: finite numbers are counted in grains,
of which `Grain` make 1, so that 2.5 is five grains of a half. `NormalPage`,
`NormalLimit` and `NormalSkip` are in these units.

## 4. Runs

| Run | Bounds | What it shows |
|---|---|---|
| `PostsRaces` | 2 users, 1 post, 2 request slots, of which a list takes one; pages 0 to 2, limit 1; a body that withdraws, restores, rewrites the post and empties `likedBy` but not the count, and handovers to either user | `ContentFromAuthor`, `LikesCountFollows`, `DeletionsSettle`, `EditsSettle`, `AuthorsSettle`, `ReactionsSettle`, `DraftsUnlisted`, `TotalsAgree` survive every interleaving |
| `PostsAlone` | 2 users, one an administrator; 2 requests of which a like or unlike never overlaps another write; bodies that revise, restore, hand on, and list a user twice | what was acknowledged last of reactions, content, status and deletion holds, and the service implements `PostsBook` (`KeepsBook`) |
| `PostsLostLike` | 2 ordinary users, 2 requests that overlap as they like | *violation*: of two overlapping reactions the later write drops the earlier one, which was acknowledged |
| `RetryCrashes` | 2 queues on one key, 1 message, 2 attempts, 1 lost connection | `NoLoss`, `AttemptsAreFailures`, and every queue drains (`RetriesEnd`) |
| `RetryCalm` | 1 queue, prefetch 2, 2 messages (one expires), 3 attempts | with no connection lost and a key of its own, each message has one copy or one fate (`OneFate`), and retrying implements `Deliveries` (`RetriesEndOnce`) |
| `NotifyDelivery` | 4 messages, the first poison; prefetch 2; 1 outage, 2 losses or crashes | `OnePlace`, `DuplicatesExplained`; the worker implements `Deliveries` (`NotificationsEndOnce`); healthy messages are acknowledged (`HealthySettle`) |
| `Accounts` | 2 clients, one an administrator; 2 accounts, 2 addresses; a body that names address, password and role; 2 overlapping requests, `MaxCalls` = 3, `MaxFaults` = 1 | `OneAccountPerEmail`, `TokensProved`, `EventsExplained`; the two services implement `Registry` (`KeepsRegistry`); every account is announced unless a fault took its event (`WelcomesSettle`) |
| `LogoutRevokes` | the same | *violation*: a refresh token is accepted after logout |
| `Documents` | 2 users, 2 documents, first and second pages, limits -1 to 1 and empty; bodies that name an owner, name the mark, restore; 2 overlapping requests, `MaxCalls` = 3, `MaxFaults` = 1 | `CopiesExplained`, `ListsAgree`, `ListsForgetDeleted`; every call ends (`EveryCallEnds`); and `PagesCover` for up to 11 items, limits up to 5 |
| `Cache` | 2 processes; time to live 2, window 3; `MaxWrites` = 2, `MaxHits` = 3, `MaxFaults` = 2 | `StaleExplained`, `WindowFixed`; staleness ebbs while nothing is written (`StalenessEbbs`), and the cache agrees with its source in the end (`CacheConverges`) |
| `PatternInvalidates` | the same | *violation*: `deletePattern` deletes nothing |
| `Emails` | 2 workers; messages to 1, 2 and 3 addresses; `MaxCrashes` = 1 | the workers implement `Deliveries` (`MailsEndOnce`); what no crash took is served (`EmailsSettle`) |

### Why the bounds are enough

*Posts.* Documents do not interact, so one post suffices. Every race is between a
handler's read and its write: two slots show all of them, since a slot takes any
number of requests one after another while the other waits. Two users tell the
author from another user; the two contents tell an old text from a new one, and
only the newer has the tag of the list. What an edit does to a field does not depend
on which other fields its body names, so a few bodies stand for all: between them
those of each run name every field but `likesCount`, which a body that names `likedBy`
alone makes as wrong as one that names the count. One entry a user is enough for
`PostsRaces`; in `PostsAlone` a body lists a user twice (`MaxListed` = 2). With one
post, page 1 and limit 1 the page is that post, page 2 is past the end, page 0 has a
negative skip. Users and slots are interchangeable in `PostsRaces`, slots in the other
posts runs, hence the symmetry sets; no run with symmetry checks liveness.
`PostsRaces` has 366 thousand distinct states, `PostsAlone` 486 thousand.

*Retries.* Two attempts have a first and a last one; three, in `RetryCalm`, one
that is neither. Two queues on one key make retries multiply; one lost connection
can hit any two steps. `MaxLosses` is the only cap on behaviours; `failures`
stops counting at `MaxAttempts`, where nothing depends on it any more.

*Notifications.* With a prefetch of two and one poison message there is one place
that stays usable and one that does not. As many poison messages as the window
is wide would stop the queue: `HealthySettle` is stated for fewer.

*Calls.* Three calls are two that overlap and one that follows or precedes, which
the properties need: a deletion before a list, a creation repeated after a timeout,
a logout before a refresh. `MaxFaults` caps failing queries, instances and emits; the
timeout is not capped. `Insert` and `Create` have one more bound in their guard,
`Stored # Ids`: ids are handed out while there are any. In `Accounts` the one body
changes address, password and role at once, which is what an overlapping login,
registration or refresh can tell; deletion is the route's. In `Documents` the
gateway's lists ask for page 2: with limit 1 the second document, with limit -1 a
negative skip, with limit 0 no skip and MongoDB's "no limit"; the lists on a field and
the empty limit ask for page 1. `Accounts` has 544 thousand distinct states,
`Documents` 782 thousand.

*Cache.* Two writes tell "stale since the last write" from "stale since the one
before"; two processes are a reader and a writer, or two of either. The time to live
differs from the window, and three hits leave one in the middle.

*Emails.* A batch of three has a first, a middle and a last address; one crash can
take either worker at any point.

### Deadlock

The posts and cache runs check for deadlock. The others do not: their messages and
calls are finite, and a drained queue, or a client that calls no more, is where
they are meant to stop.

### Fairness

Safety properties are checked without fairness or hold with it alike. The
assumptions of the liveness properties:

- `RetryCrashes`: for each consumer, weak fairness of its set-up and of its work as
  a whole: a connection manager reconnects, the broker delivers to an idle channel,
  handlers return or throw. Nothing is assumed of handlers succeeding, nor of
  publishers.
- `NotifyDelivery`: weak fairness of each message's handling and strong fairness of
  its delivery: the broker fills an open window at once, without waiting for the
  worker's next nack to return, so a message that is again and again first in the
  queue while the window is open is delivered. That the poison message is first
  again and again is part of what is checked.
- `Accounts`: weak fairness of each handler of the auth service: Node resumes a
  handler when what it awaits is there. Nothing is assumed of the gateway.
- `Documents`: weak fairness of the gateway's timer alone. Nothing is assumed of the
  services: they may never answer.
- `Cache`: Redis's clock goes on, and a `getOrSet` that has fetched goes on to its
  `set`. Writers and invalidations may stop anywhere.
- `Emails`: the broker delivers, and each worker's handlers run on.

## 5. What is proved

They hold for all values of the constants; the bounds on losses, faults, calls and
crashes are constants like the others, so they do not limit the theorems.

| Module | Theorem | States |
|---|---|---|
| `PostsServiceProofs` | `TypeCorrect` | `Spec => []TypeOK` |
| | `ContentIsFromAuthor` | `Spec => []ContentFromAuthor` |
| | `LikesCountsFollow` | `Spec => LikesCountFollows` |
| | `DeletionsAreSettled`, `EditsAreSettled`, `AuthorsAreSettled` | `Spec => DeletionsSettle`, `Spec => EditsSettle`, `Spec => AuthorsSettle` |
| | `ReactionsAreSettled` | `Spec => ReactionsSettle` |
| | `ListsOnlyRead` | `ListsSpec => Spec` |
| | `DraftsAreUnlisted` | `ListsSpec => []DraftsUnlisted` |
| | `TotalsAlwaysAgree` | `ListsSpec => TotalsAgree` |
| `PostsClientsProofs` | `SerialServiceKeepsBook` | one request slot: `Spec => KeepsBook` |
| | `SerialClientsAreServed` | one request slot: `ClientsSpec => []AckedReactions`, `[]AckedEdits`, `[]AckedDeletions` |
| | `ClientsOnlyWatch` | `ClientsSpec => Spec` |
| | `OnlyReactionsOverwrite` | no likes and unlikes: `ClientsSpec => KeepsBook`, `[]AckedReactions`, `[]AckedEdits`, `[]AckedDeletions` |
| | `AloneServiceKeepsBook` | `AloneSpec => KeepsBook` |
| | `ReactionsAreKept`, `EditsAreKept`, `DeletionsAreKept` | `AloneSpec => []AckedReactions`, `[]AckedEdits`, `[]AckedDeletions` |
| `RetryConsumerProofs` | `TypeCorrect` | `Spec => []TypeOK` |
| | `NothingIsLost` | `Spec => []NoLoss` |
| | `AttemptsCountFailures` | `Spec => []AttemptsAreFailures` |
| | `OneFateForEach`, `CompletedAtMostOnce` | with `NoLosses` and `OwnKeys`: `Spec => []OneFate`, `[]RetryStaysInQueue` |
| | `CalmRetriesKeepPromise` | with `NoLosses` and `OwnKeys`: `Spec => RetriesEndOnce` |
| | `AttemptsAreExact` | with `NoLosses` and `OwnKeys`: `Spec => []AttemptsExact` |
| `NotificationWorkerProofs` | `TypeCorrect` | `Spec => []TypeOK` |
| | `EachInOnePlace` | `Spec => []OnePlace` |
| | `AckedOnlyAfterSend` | `Spec => []AckedMeansSent` |
| | `DuplicatesAreExplained` | `Spec => []DuplicatesExplained` |
| | `WorkerKeepsPromise` | `Spec => NotificationsEndOnce` |
| | `WindowStaysOpen` | fewer poison messages than `Prefetch`: `Spec => []NeverBlocked` |
| `AccountsProofs` | `TypeCorrect` | `Spec => []TypeOK` |
| | `OneAccountForEachEmail` | `Spec => []OneAccountPerEmail` |
| | `TokensAreProved` | `Spec => []TokensProved` |
| | `EventsAreExplained` | `Spec => []EventsExplained` |
| | `RegistryIsKept` | `Spec => KeepsRegistry` |
| `DocumentsProofs` | `TypeCorrect` | `Spec => []TypeOK` |
| | `CopiesAreExplained` | `Spec => []CopiesExplained` |
| | `ListsAlwaysAgree` | `Spec => []ListsAgree` |
| | `DeletedStayHidden` | `Spec => []ListsForgetDeleted` |
| | `PagesAlwaysCover` | `PagesCover(total, limit)` for every total and positive limit |
| | `QueriesAreNormalized` | a normalised query has a page from 1 or infinite, a limit of 1 to 100 and no negative skip, fractions and infinities included |
| `RedisCacheProofs` | `TypeCorrect` | `Spec => []TypeOK` |
| | `StalenessIsExplained` | `Spec => []StaleExplained` |
| | `WindowsAreFixed` | `Spec => []WindowFixed` |
| | `StalenessAlwaysEbbs` | `Spec => StalenessEbbs` |
| | `EntriesAlwaysExpire` | an expiry: `Spec => []EntriesExpire` |
| | `PrefixDefeatsPatterns` | a prefix: `Spec => PatternsDeleteNothing` |
| | `UnprefixedPatternsInvalidate` | no prefix: `Spec => PatternInvalidates` |
| `EmailWorkerProofs` | `TypeCorrect` | `Spec => []TypeOK` |
| | `MailsAtMostOnce` | `Spec => []AtMostOnceExplained` |
| | `WorkersKeepPromise` | `Spec => MailsEndOnce` |

Each invariance theorem has one lemma per action (or, where actions are many and
invariants independent, one per conjunct) and combines them over `Next`.

### The posts service

Assumptions: `RolesAssumption` (tokens carry roles of `@app/common`),
`ReactorsAssumption`, `UsersAssumption` (finitely many users and entries of each, so
that likers can be counted), `BodiesAssumption` and `NewBodiesAssumption` (bodies name
fields of the schema with values of theirs; those of POST pass `save()`'s validation),
`NoPostAssumption`; for the lists `TaggedAssumption`, `PostsAssumption` (finitely many
posts) and `PagesAssumption` (whole pages and limits, zero and below included).

`ContentFromAuthor` is not inductive: a like that is about to write back a document
could, as far as it says, write anything. The inductive invariant is

    IInv == TypeOK /\ ContentFromAuthor /\ PendingSound

where `PendingSound` says what handlers hold across their `await`: content that the
post was sent, and for like and unlike a document whose count is the number of its
entries, however old. It stays true while *other* requests write, because `submitted`
only grows; the writer's own slot is emptied by its write. That only who is the author
when asking gets past `MayWrite` (`OnlyAuthorMayWrite`) follows from the disagreement
of the two role enums; with that repaired, `ContentFromAuthor` would have to admit
administrators.

The action properties follow from `IInv` and a case split over which step writes which
document. A field changes only by a write that names it (`FieldChange`), so what is
settled changes only by a body, a publication or a deletion, or by the write-back of a
document that has another value, which being settled rules out (`WriteBackKinds`,
`FieldSettles`). `LikesCountsFollow` needs of `PendingSound` that what a reaction
writes has an exact count; `ReactionsAreSettled` that a like or an unlike lists the
other users as the document it read does (`ReactionLists`).

`ListsOnlyRead` makes all of this available to `ListsSpec`. `DraftsUnlisted` needs
`StatusesSound`: a status `published`, stored or about to be written back, is one
an author has asked for. `TotalsAgree` needs `ListSound`: the list shows a page of a
set of posts that, apart from those that changed, is what matches; the bound then
follows from cardinalities of finite sets, and from a page growing by no more than the
set it is of (`PageSizeGrows`).

`PostsClientsProofs` rests on `Fresh`: what a like or an unlike is about to write is
the *stored* document with one reaction changed. `ReactionsAlone` keeps it, since
nothing else writes meanwhile; a single slot implies `ReactionsAlone`. With `Fresh`,
each step is a step of `PostsBook` or leaves the book alone, and `AckInv` (what
clients were told agrees with the document) is inductive. `Fresh` is exactly
what overlap destroys, as `PostsLostLike` shows. `OnlyReactionsOverwrite` says that
nothing else does: where nobody likes or unlikes (`Reactors = {}`), no document is ever
written back (`NoWriteBack`), so `ReactionsAlone` holds by itself, and what bodies and
deletions say holds however they overlap. `ClientsOnlyWatch` carries every
theorem about `Spec` over to the service with its clients.

### The retrying consumer

Assumptions: the constants' types; nothing about the routing. The invariant is

    IInv == TypeOK /\ Topology /\ Routes /\ Kept /\ Counted

- `Topology`: what a process has asserted exists; a reconnection repeats calls and
  undoes none. Hence whoever is `Up` has its queue and the DLQ bound.
- `Routes`: a message is in a queue, or in its consumer's hands, only where the
  exchange sends it, and only once the DLQ is bound. Without it a retry could be
  routed nowhere, or a rejected message vanish.
- `Kept` strengthens `NoLoss`: a delivery whose retry is already published does
  not count as holding the message, since its next step is the ack.
- `Counted` strengthens `AttemptsAreFailures`: after a failure the delivery stands
  for one attempt more, a republished copy stays below `MaxAttempts`, and a
  rejected one has reached it.

`OneFate` and `RetryStaysInQueue` hold only where no connection is lost and no two
queues share a message's key, and are proved from just these two assumptions,
`NoLosses` and `OwnKeys`. The invariant `Fates` says, for each queue and message,
that the message is nowhere yet, or waits there with one attempt count, or is in one
worker's hands, or is completed, or is in the DLQ, and never two of these. A
delivery whose copy is out already, only its ack outstanding, counts as settled.

`CalmRetriesKeepPromise` rests on `Fates` too: the effect of each step on the counts
behind `Outcome` is a lemma (`SettleEffect` for the steps that settle), from which the
step is an `Owe`, an `End` or a stutter of `Deliveries`. A publish owes the message to
every queue it is routed to at once; a retry, whose copy is published before the
original is acknowledged, changes no outcome.

`AttemptsAreExact` turns the bound of `AttemptsAreFailures` into an equality under
the same two assumptions: what waits has failed exactly as often as its `x-attempt`
says, and a message is in the DLQ after exactly `MaxAttempts` failures. Its invariant
adds to `Fates` that failures are of what was owed (`FailedOwed`), and that a queue is
owed only what is routed to it (`OwedRouted`): with keys of their own, no other
queue's failures count.

### The notification worker

`OnePlace` and `AckedMeansSent` need that a handler which is about to acknowledge
has sent (`AckingMeansSent`). `DuplicatesExplained` needs the count it is the rest
of: what was sent of a message, plus what lost calls may still send, plus the send
still to come, is at most one plus the losses and the failures (`SendsCounted`).

`WorkerKeepsPromise` needs one invariant more, `PoisonUnsent`: what no strategy can
send was never sent, by orphaned calls either. `WindowStaysOpen` is the part of
`HealthySettle` that is not fairness: while a healthy message is not acknowledged,
either one is in hand, or the messages in hand are all poison, hence fewer than the
window has places (a subset of a finite set), and the queue has a first message
(`FirstExists`, by the least element of a set of numbers).

### Accounts, documents, cache and mails

- `AccountsProofs`: `CallsSound` says what a handler holds (register, from its insert
  on, and login and refresh, when they answer, an account of their caller; refresh
  only tokens the client was given); `EmitOnce` that an account is announced by one
  handler, which has sent at most one event per fault so far; `PasswordsOwned` that a
  password that compares is in `owned`, so that whoever a login lets in is one of the
  account's owners, past or present, and stays one (`TokensStep`). `OneAccountPerEmail`
  is inductive by itself: the two writers of an address both pass the index.
  `BodiesAssumption` is all that is known of bodies.
  `RegistryIsKept` needs one invariant more, `MissedForGood`: whose announcement was
  missed has no handler at its emit any more, so that nothing that was missed is made
  up for, nor anything that was told taken back.
- `DocumentsProofs`: `PagesAgree` is `ListsAgree` at the `await` between the queries;
  `DeletionsLast` says that what the histories of deletions hold is deleted: an update
  leaves `deletedAt` alone (`Updated`) unless its body names it, and what that restores
  leaves the histories; `Balanced` strengthens
  `CopiesExplained`: each document is one of an answered or a pending call, and each
  creation under way can make one more. Its proof counts, over lemmas about finite
  sets that differ in one element. `Euclid`, `Ordered` and `PagesLeft` are the
  arithmetic of pages.
- `RedisCacheProofs`: `Alive`, that a key that is there has time left. The proof
  treats the cached key and the counter apart. `StalenessAlwaysEbbs` and
  `EntriesAlwaysExpire` are the part of `CacheConverges` that is not fairness: once
  the source is written no more, only getOrSets that a write outran bring a stale
  value back, each once, and what they store has a limited life. The two theorems on `deletePattern`
  say when the violation of section 6 occurs: for every prefix but the empty one, by
  the lengths of the names.
- `EmailWorkerProofs`: a message is in one place (`OnePlace`), and in a hand the
  addresses still due are those not mailed (`HandsSound`). `WorkersKeepPromise` adds
  `Settling`: what a crash took is nowhere else, and what waits was not refused.

### Only model-checked

All liveness (`RetriesEnd`, `HealthySettle`, `WelcomesSettle`, `EveryCallEnds`,
`CacheConverges`, `EmailsSettle`), which like `ENABLED` is outside the prover's
reach; and the violations.

## 6. Where the code and its documents disagree

Shown by a run, and listed with the quoted sentence under `findings` in
`PROJECT.json`:

- `PostsLostLike`: of two overlapping reactions the later write drops the earlier,
  acknowledged one (`posts.service.ts:52`).
- `LogoutRevokes`: logout revokes nothing (`auth.service.ts:79`).
- `PatternInvalidates`: `deletePattern` deletes nothing under the configured key
  prefix (`redis.service.ts:97`).

Of the same cause as the first, and what the `ReactionsAlone` of `PostsAlone` rules
out: a like that overlaps the author's update writes the old title, content and
status back over it, and one that overlaps a deletion restores the post
(`posts.service.ts:52,61`, against `docs/POSTS_SERVICE_GUIDE.md:401`).

Single steps of the models that contradict a sentence of the documents:

- An administrator's update, deletion or publication of a post is refused: the
  token's role is `'admin'`, the controller compares it with `'ADMIN'`
  (`posts.controller.ts:66`, `MayWrite`; against `docs/POSTS_SERVICE_GUIDE.md:261`).
- No route restores what was deleted: a deletion can be recovered only by a PUT whose
  body sets `deletedAt` to null, a field no dto type declares (`posts.service.ts:36`,
  `todos.service.ts:32`; against `docs/POSTS_SERVICE_GUIDE.md:185`, "can be recovered",
  `docs/POSTS_SERVICE_OVERVIEW.md:149`, "Can be recovered by clearing `deletedAt`", and
  `docs/TODOS_BOOKS_COMPLETED.md:17,23,33,42`, "can be restored", "Soft-delete with
  recovery capability"). The properties on deletions are stated up to such a body. The
  same goes for deleted users.
- Bodies are not whitelisted, though `main.ts:13` of the posts service and the gateway
  asks the `ValidationPipe` for it: their types are inline (section 1).
- `GET /posts/:id` serves deleted posts and drafts (`posts.service.ts:20`, `GetPost`;
  against `docs/POSTS_SERVICE_OVERVIEW.md:148`), and publish accepts a post in any
  status (`posts.controller.ts:106`, `BeginPublish`; against `:119` of the same
  document).
- A retry is published to the exchange and reaches every queue bound to the key
  (`rabbitmq.consumer.utils.ts:58`, `Republish`; the comment at `:13` says
  `nack(requeue=true)`, which returns it to one queue).
- A notification that always fails is requeued for ever; its queue has no
  dead-letter exchange (`notification.controller.ts:29`, `Nack`; against
  `docs/ARCHITECTURE.md:156`).
- Emails are acknowledged as they are delivered, and neither retried nor requeued
  (`email-worker/src/main.ts:15`, `Deliver`, `AfterCrash`; against
  `docs/ARCHITECTURE.md:157` "Message acknowledgment & retry strategy" and `:350`
  "Messages requeued if needed").
- A deleted user can log in and is listed (`auth.service.ts:63`,
  `users.repository.ts:18-22`; `Login`, `ListUsers`; against
  `docs/IMPLEMENTATION_STATUS.md:172`), and a deleted todo or book is found and
  updated by its id (`Found`).
- An error of a service reaches the gateway with the status `'error'`, not with
  an HTTP status (`GatewayCalls`; against `docs/API_REFERENCE.md:151` and
  `docs/IMPLEMENTATION_STATUS.md:187`).
- The gateway's calls are TCP, not RabbitMQ's request/reply
  (`docs/ARCHITECTURE.md:154`).
- `redis.service.ts:9-11` says that `getOrSet` eliminates the race between a miss
  and its `set`; `StaleExplained` needs its third case, `outdated`, for that race.

Met without a document to hold it against: updating a todo or a book makes the
requester its owner, unless the body names another (`Updated`); a user may give itself
another role, and any user's account another password (`UpdateUser`).

## 7. What is not modelled

- Filters, interceptors, dto, decorators, logger, configuration, hashing: no state,
  and no effect on the order of steps. `libs/auth` and `libs/guards`: no application
  uses them; the auth service signs and verifies its own tokens, in the model a
  pair of client and account that may expire at any use.
- Health routes, HTTP framing, and which HTTP status a framework makes of an error.
- Redis and the email queue have no caller and no producer in `src/`: their models
  take any (`Write`, messages queued at the start).
- Bodies with update operators (`$inc`, `$unset`) or fields outside the schema, which
  Mongoose drops; null or ill-typed values, other than null for `deletedAt`.
- Pages and limits of the services' lists that are no whole numbers: a text that is no
  number makes a skip of NaN, a fraction one MongoDB truncates or refuses. `Pagination`
  has them, for the function that is meant to remove them.
- Failures of MongoDB, Redis and RabbitMQ that lose what they stored.
- A message published before any consumer has declared its queue: it is dropped
  by the exchange. `NoLoss` starts from the queues bound at the publish.
- The rooms of the websocket gateway: an emission to an empty room completes as
  one to a full room does.
