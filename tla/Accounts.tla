------------------------------- MODULE Accounts -------------------------------
(***************************************************************************)
(* The auth-service and the user-service, which share the users            *)
(* collection, called through the api-gateway.  at[r] names the await a    *)
(* handler stands at: "hashing" and "emitting" are those of register,      *)
(* "counting" is the one between the two queries of a list; the other      *)
(* handlers depend on, and change, the collection at one point only.       *)
(* A client is known by its password: it registers and logs in with that,  *)
(* and a password comparison tells clients apart.  The body of PUT         *)
(* /users/:id has an inline type, which the ValidationPipe neither         *)
(* validates nor whitelists: it may name every field of the schema.        *)
(***************************************************************************)
EXTENDS GatewayCalls, FiniteSets

CONSTANTS
  Clients,
  Admins,       \* clients with the token of an administrator's account
  Ids,          \* ids MongoDB may give to new accounts
  Spellings,    \* addresses as clients write them
  Canonical,    \* what lowercase and trim make of a spelling
  Bodies,       \* the bodies of PUT /users/:id
  None

\* UserRole of @app/common; a token carries the first of its account's roles.
Roles == {"admin", "user", "guest"}

\* What a body may name.  Its password is stored as it is, and is one that compares
\* with a client's when that client has put in its own hash, with nobody's otherwise.
Fields == [email |-> Spellings, password |-> Clients \cup {None},
           role |-> Roles, deleted |-> BOOLEAN]
IsBody(b) == DOMAIN b \subseteq DOMAIN Fields /\ \A f \in DOMAIN b : b[f] \in Fields[f]

ASSUME AccountsAssumption == Admins \subseteq Clients /\ None \notin Ids
ASSUME BodiesAssumption == \A b \in Bodies : IsBody(b)

VARIABLES
  users,        \* the collection: an account, or None, for each id
  arg,          \* arg[r]: the payload of r's call
  held,         \* held[c]: accounts c was given tokens of
  roles,        \* roles[c]: the roles those tokens carry
  emitted,      \* emitted[i]: USER_CREATED events of account i in the queue
  unannounced,  \* history: accounts whose event was lost to a fault
  loggedOut,    \* history: logouts told to succeed, and no login since
  owned         \* history: owned[i]: the clients whose password account i has had

vars == <<waiting, at, calls, faults, users, arg, held, roles, emitted,
          unannounced, loggedOut, owned>>

Addresses == {Canonical[s] : s \in Spellings}
Stored == {i \in Ids : users[i] # None}
Taken(e) == \E i \in Stored : users[i].email = e

AuthGateway == {<<"register", "auth.user.register">>, <<"login", "auth.user.login">>,
                <<"logout", "auth.user.logout">>, <<"refresh", "auth.token.refresh">>}
AuthController == {<<"auth.user.register", "register">>, <<"auth.user.login", "login">>,
                   <<"auth.user.logout", "logout">>, <<"auth.token.refresh", "refreshToken">>,
                   <<"auth.token.validate", "validateToken">>}
UsersGateway == {<<"findAll", "user.list">>, <<"findById", "user.findById">>,
                 <<"update", "user.update">>, <<"delete", "user.delete">>}
UsersController == {<<"user.list", "list">>, <<"user.findById", "findById">>,
                    <<"user.findByEmail", "findByEmail">>,
                    <<"user.update", "update">>, <<"user.delete", "delete">>}

\* Handlers no gateway method calls, for other callers inside the platform.
Internal == {<<"validate", "auth.token.validate">>, <<"findByEmail", "user.findByEmail">>}

AccountRoutes == Routes(AuthGateway \cup UsersGateway \cup Internal,
                        AuthController \cup UsersController)

Handler(r, h) == at[r] = "sent" /\ <<arg[r].op, h>> \in AccountRoutes

\* The payloads client c can send, with what the handlers make use of.  A token
\* names an account; `late` tells that c was told that this account's session was
\* logged out; `role` is that of the tokens a handler answers with.  A handler that
\* has no use for the caller has None for it.
Pay(c, op, email, id) == [client |-> c, op |-> op, email |-> email, id |-> id,
                          body |-> None, role |-> None,
                          late |-> op = "refresh" /\ <<c, id>> \in loggedOut]
Put(b, id) == [Pay(None, "update", None, id) EXCEPT !.body = b]

PublicCalls(c) ==
  {Pay(c, op, e, None) : op \in {"register", "login"}, e \in Spellings}
  \cup {Pay(c, "refresh", None, i) : i \in held[c]}
  \cup {Pay(None, op, None, None) : op \in {"validate", "findByEmail"}}

ProtectedCalls(c) ==
  {Pay(c, "logout", None, i) : i \in held[c]}
  \cup {Pay(None, op, None, i) : op \in {"findById", "delete"}, i \in Ids}
  \cup {Put(b, i) : b \in Bodies, i \in Ids}
  \cup {Pay(None, "findAll", None, None)}

\* @Roles on the users controller.
RequiredRoles(op) == CASE op = "update" -> {"admin", "user"}
                       [] op = "delete" -> {"admin"}
                       [] OTHER -> {}

Init == /\ CallsInit
        /\ users = [i \in Ids |-> None]
        /\ arg = [r \in Requests |-> None]
        /\ held = [c \in Clients |-> {}]
        /\ roles = [c \in Clients |-> IF c \in Admins THEN {"admin"} ELSE {}]
        /\ emitted = [i \in Ids |-> 0]
        /\ unannounced = {} /\ loggedOut = {}
        /\ owned = [i \in Ids |-> {}]

-------------------------------------------------------------------------------
(* The gateway. *)

Pass(r, a) == Send(r) /\ arg' = [arg EXCEPT ![r] = a]
\* JwtAuthGuard and RolesGuard let a protected call pass with a token of a listed
\* role; any call may be turned away by the throttler, and one with an expired token
\* by JwtAuthGuard.
MayPass(c, a) == \E role \in roles[c] : RoleAllows(role, RequiredRoles(a.op))

Ask(r) ==
  /\ Free(r)
  /\ \/ \E c \in Clients : \/ \E a \in PublicCalls(c) : Pass(r, a)
                           \/ \E a \in ProtectedCalls(c) : MayPass(c, a) /\ Pass(r, a)
     \/ TurnAway /\ UNCHANGED arg
  /\ UNCHANGED <<users, held, roles, emitted, unannounced, loggedOut, owned>>

\* The methods whose answer carries a token pair (_generateTokens): of account i,
\* with the role it has just been read with.
GivesTokens == {"register", "login", "refresh"}
GenerateTokens(r, i, role) == arg' = [arg EXCEPT ![r].id = i, ![r].role = role]

Forget(r) == arg' = [arg EXCEPT ![r] = None]

Deliver(r) ==
  /\ Answer(r)
  /\ LET a == arg[r]
         ok == at[r] = "replied"
     IN /\ IF ok /\ a.op \in GivesTokens
             THEN /\ held' = [held EXCEPT ![a.client] = @ \cup {a.id}]
                  /\ roles' = [roles EXCEPT ![a.client] = @ \cup {a.role}]
             ELSE UNCHANGED <<held, roles>>
        /\ loggedOut' = CASE ok /\ a.op = "logout" -> loggedOut \cup {<<a.client, a.id>>}
                          [] ok /\ a.op \in {"register", "login"} -> loggedOut \ {<<a.client, a.id>>}
                          [] OTHER -> loggedOut
  /\ Forget(r)
  /\ UNCHANGED <<users, emitted, unannounced, owned>>

Timeout(r) ==
  /\ \/ GiveUp(r) /\ UNCHANGED arg
     \/ DropReply(r) /\ Forget(r)
  /\ UNCHANGED <<users, held, roles, emitted, unannounced, loggedOut, owned>>

-------------------------------------------------------------------------------
(* auth-service: register.  Two registrations of one address can both find   *)
(* nobody; the unique index of the schema decides between them.              *)

\* Mongoose applies the schema's lowercase and trim to filters, documents and
\* updates alike.
Address_AsWritten(e) == e
Address(e) == Canonical[e]

FindExisting(r) ==
  /\ Handler(r, "register")
  /\ Step(r, IF Taken(Address(arg[r].email)) THEN "threw" ELSE "hashing")
  /\ UNCHANGED <<waiting, calls, faults, users, arg, held, roles, emitted, unannounced, loggedOut, owned>>

NewId == CHOOSE i \in Ids : i \notin Stored    \* MongoDB's ids are unique
NewUser(r) == [email |-> Address(arg[r].email), password |-> arg[r].client,
               role |-> "user", deleted |-> FALSE]

\* What the unique index on email admits: account i may take address e.
IndexAdmits_NoIndex(i, e) == TRUE
IndexAdmits(i, e) == \A j \in Stored \ {i} : users[j].email # e

\* register goes on to announce the new account.
AfterInsert_NoEvent == "replied"
AfterInsert == "emitting"

Insert(r) ==
  /\ at[r] = "hashing" /\ Stored # Ids
  /\ LET i == NewId IN
       IF IndexAdmits(i, Address(arg[r].email))
         THEN /\ users' = [users EXCEPT ![i] = NewUser(r)]
              /\ owned' = [owned EXCEPT ![i] = {arg[r].client}]
              /\ GenerateTokens(r, i, "user")
              /\ Step(r, AfterInsert)
         ELSE Step(r, "threw") /\ UNCHANGED <<users, arg, owned>>
  /\ UNCHANGED <<waiting, calls, faults, held, roles, emitted, unannounced, loggedOut>>

\* The event is confirmed; or its confirm is lost and the client library sends it
\* again; or the emit fails, which is only logged.
Emit(r) ==
  LET i == arg[r].id IN
  /\ at[r] = "emitting"
  /\ \/ emitted' = [emitted EXCEPT ![i] = @ + 1] /\ Step(r, "replied") /\ UNCHANGED <<faults, unannounced>>
     \/ emitted' = [emitted EXCEPT ![i] = @ + 1] /\ Fault /\ UNCHANGED <<at, unannounced>>
     \/ unannounced' = unannounced \cup {i} /\ Fault /\ Step(r, "replied") /\ UNCHANGED emitted
  /\ UNCHANGED <<waiting, calls, users, arg, held, roles, loggedOut, owned>>

-------------------------------------------------------------------------------
(* auth-service: sessions. *)

\* The account login finds, if its password is the client's.  A deleted account
\* is found too; lastLoginAt, which is written then, is read by no one.
MayLogIn_AnyPassword(r, i) == users[i].email = Address(arg[r].email)
MayLogIn(r, i) == users[i].email = Address(arg[r].email) /\ users[i].password = arg[r].client

Login(r) ==
  /\ Handler(r, "login")
  /\ \/ \E i \in Stored : /\ MayLogIn(r, i)
                          /\ GenerateTokens(r, i, users[i].role)
                          /\ Step(r, "replied")
     \/ ~ (\E i \in Stored : MayLogIn(r, i)) /\ Step(r, "threw") /\ UNCHANGED arg
  /\ UNCHANGED <<waiting, calls, faults, users, held, roles, emitted, unannounced, loggedOut, owned>>

\* The refresh token is verified (it may have expired) and its account looked up;
\* nothing remembers which tokens were issued, used or logged out.
RefreshToken(r) ==
  LET i == arg[r].id IN
  /\ Handler(r, "refreshToken")
  /\ \/ i \in Stored /\ GenerateTokens(r, i, users[i].role) /\ Step(r, "replied")
     \/ Step(r, "threw") /\ UNCHANGED arg
  /\ UNCHANGED <<waiting, calls, faults, users, held, roles, emitted, unannounced, loggedOut, owned>>

\* Neither touches anything.
Logout(r) ==
  /\ Handler(r, "logout") /\ Step(r, "replied")
  /\ UNCHANGED <<waiting, calls, faults, users, arg, held, roles, emitted, unannounced, loggedOut, owned>>

ValidateToken(r) ==
  /\ Handler(r, "validateToken") /\ Step(r, "replied")
  /\ UNCHANGED <<waiting, calls, faults, users, arg, held, roles, emitted, unannounced, loggedOut, owned>>

-------------------------------------------------------------------------------
(* user-service. *)

\* findById throws for an unknown id; findByEmail answers null.
FindById(r) ==
  /\ Handler(r, "findById")
  /\ Step(r, IF arg[r].id \in Stored THEN "replied" ELSE "threw")
  /\ UNCHANGED <<waiting, calls, faults, users, arg, held, roles, emitted, unannounced, loggedOut, owned>>

FindByEmail(r) ==
  /\ Handler(r, "findByEmail") /\ Step(r, "replied")
  /\ UNCHANGED <<waiting, calls, faults, users, arg, held, roles, emitted, unannounced, loggedOut, owned>>

\* find, which refuses a negative skip, then countDocuments: of all accounts,
\* deleted ones too.
ListUsers(r) ==
  /\ \/ Handler(r, "list") /\ Step(r, "counting")
     \/ Handler(r, "list") /\ Step(r, "threw")
     \/ at[r] = "counting" /\ Step(r, "replied")
  /\ UNCHANGED <<waiting, calls, faults, users, arg, held, roles, emitted, unannounced, loggedOut, owned>>

\* findOneAndUpdate by id alone: Mongoose wraps the body in $set.
Edited(u, b) ==
  LET Field(f) == IF f \in DOMAIN b THEN b[f] ELSE u[f]
  IN  [email |-> IF "email" \in DOMAIN b THEN Address(b.email) ELSE u.email,
       password |-> Field("password"), role |-> Field("role"), deleted |-> Field("deleted")]

UpdateUser(r) ==
  LET i == arg[r].id
      edited == Edited(users[i], arg[r].body)
  IN
  /\ Handler(r, "update")
  /\ IF i \in Stored /\ IndexAdmits(i, edited.email)
       THEN /\ users' = [users EXCEPT ![i] = edited]
            /\ owned' = [owned EXCEPT ![i] = @ \cup ({edited.password} \cap Clients)]
            /\ Step(r, "replied")
       ELSE Step(r, "threw") /\ UNCHANGED <<users, owned>>
  /\ UNCHANGED <<waiting, calls, faults, arg, held, roles, emitted, unannounced, loggedOut>>

DeleteUser(r) ==
  /\ Handler(r, "delete")
  /\ IF arg[r].id \in Stored
       THEN users' = [users EXCEPT ![arg[r].id].deleted = TRUE] /\ Step(r, "replied")
       ELSE Step(r, "threw") /\ UNCHANGED users
  /\ UNCHANGED <<waiting, calls, faults, arg, held, roles, emitted, unannounced, loggedOut, owned>>

-------------------------------------------------------------------------------
\* A call is lost with its instance; or its database call fails: before its effect,
\* or after it, when only the answer is lost ("emitting" follows the insert).
\* logout makes none, and validateToken throws nothing.
Fail(r) ==
  /\ \/ LoseCall(r) /\ Forget(r)
     \/ /\ \/ at[r] \in {"hashing", "emitting", "counting"}
           \/ at[r] = "sent" /\ arg[r].op \notin {"logout", "validate"}
           \/ at[r] = "replied" /\ arg[r].op \in {"update", "delete"}
        /\ QueryFails(r) /\ UNCHANGED arg
  /\ unannounced' = IF at[r] = "emitting" THEN unannounced \cup {arg[r].id} ELSE unannounced
  /\ UNCHANGED <<users, held, roles, emitted, loggedOut, owned>>

AuthStep(r) == FindExisting(r) \/ Insert(r) \/ Emit(r) \/ Login(r)
               \/ RefreshToken(r) \/ Logout(r) \/ ValidateToken(r)
UserStep(r) == FindById(r) \/ FindByEmail(r) \/ ListUsers(r) \/ UpdateUser(r) \/ DeleteUser(r)

Next == \E r \in Requests : Ask(r) \/ Deliver(r) \/ Timeout(r) \/ AuthStep(r) \/ UserStep(r) \/ Fail(r)

Spec == Init /\ [][Next]_vars

\* A handler is resumed when what it awaits is there: Node's event loop.
FairSpec == Spec /\ \A r \in Requests : WF_vars(AuthStep(r))

-------------------------------------------------------------------------------
(* Properties. *)

Account == [email : Addresses, password : Clients \cup {None}, role : Roles, deleted : BOOLEAN]
Steps == {"none", "sent", "hashing", "emitting", "counting", "replied", "threw"}
Payload == [client : Clients \cup {None}, email : Spellings \cup {None}, id : Ids \cup {None},
            body : Bodies \cup {None}, role : Roles \cup {None}, late : BOOLEAN,
            op : {"register", "login", "logout", "refresh", "validate",
                  "findAll", "findById", "findByEmail", "update", "delete"}]

ASSUME NoneAssumption == None \notin Account \cup Payload

\* Types; a call in the service has its payload, and a token names an account.
TypeOK ==
  /\ waiting \subseteq Requests
  /\ at \in [Requests -> Steps]
  /\ calls \in 0 .. MaxCalls /\ faults \in 0 .. MaxFaults
  /\ users \in [Ids -> Account \cup {None}]
  /\ arg \in [Requests -> Payload \cup {None}]
  /\ held \in [Clients -> SUBSET Ids]
  /\ roles \in [Clients -> SUBSET Roles]
  /\ owned \in [Ids -> SUBSET Clients]
  /\ emitted \in [Ids -> Nat]
  /\ unannounced \subseteq Ids
  /\ loggedOut \subseteq Clients \X Ids
  /\ \A r \in Requests : at[r] = "none" <=> arg[r] = None

\* However registrations, changes of address and deletions overlap, no two
\* accounts, deleted ones included, have the same address (auth.service.ts
\* register and users.service.ts update, each a check or write of its own; the
\* unique index of user.schema.ts).
OneAccountPerEmail ==
  \A i, j \in Stored : users[i].email = users[j].email => i = j

\* A client holds tokens only of accounts that have, or have had, its own password,
\* by its registration or by an update's body: of two registrations of one address,
\* the one that lost gets nothing of the other's account, and no login that overlaps
\* a change of address or password ends in an account the client never had the
\* password of (auth.service.ts register, login, refreshToken; users.service.ts update).
TokensProved ==
  \A c \in Clients : \A i \in held[c] : i \in Stored /\ c \in owned[i]

\* USER_CREATED names a stored account, is in the queue at most once but for
\* confirms that were lost, and is missing only while register is still at its
\* emit or when a fault took it (auth.service.ts:46-57).
EventsExplained ==
  \A i \in Ids :
    /\ emitted[i] > 0 => i \in Stored
    /\ emitted[i] <= faults + 1
    /\ i \in Stored => \/ emitted[i] > 0
                       \/ i \in unannounced
                       \/ \E r \in Requests : at[r] = "emitting" /\ arg[r].id = i

\* Every stored account is announced in the end, or a fault took its event,
\* whether or not the gateway still waits (auth.service.ts:46-57).
WelcomesSettle ==
  \A i \in Ids : i \in Stored ~> (emitted[i] > 0 \/ i \in unannounced)

\* How far the announcement of an account is: an event that reached the queue stays
\* there, whatever fails afterwards.
News == [i \in Ids |-> CASE i \notin Stored -> "none"
                         [] emitted[i] > 0 -> "told"
                         [] i \in unannounced /\ emitted[i] = 0 -> "missed"
                         [] OTHER -> "due"]

RegistryOf == INSTANCE Registry WITH accounts <- users, news <- News, tokens <- held, keys <- owned

\* Overlapping, timed out and failing calls do to the accounts, the tokens and the
\* announcements only what single requests would: each step is one of Registry, or
\* none (auth.service.ts register, login, refreshToken; users.service.ts update, delete).
KeepsRegistry == RegistryOf!Spec

\* What docs/IMPLEMENTATION_STATUS.md:29 says of logout: a refresh token does not
\* work any more after it.
LogoutRevokes ==
  \A r \in Requests : ~ (at[r] = "replied" /\ arg[r].op = "refresh" /\ arg[r].late)

===============================================================================
