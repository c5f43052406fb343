----------------------------- MODULE AccountsProofs -----------------------------
(***************************************************************************)
(* Theorems about Accounts, for any clients, addresses and ids, any number *)
(* of overlapping requests, and any number of faults.                      *)
(***************************************************************************)
EXTENDS Accounts, TLAPS

\* Account i exists and has, or has had, the password of client c.
Owns(c, i) == c \in Clients /\ i \in Stored /\ c \in owned[i]

\* What a handler in flight holds: its caller, the address, the token or the body it
\* was sent, and, once it answers with tokens, an account of its caller and a role.
CallSound(r) ==
  /\ arg[r].op \in {"register", "login"} => arg[r].client \in Clients /\ arg[r].email \in Spellings
  /\ arg[r].op = "update" => arg[r].body \in Bodies
  /\ arg[r].op \in {"refresh", "logout"} => arg[r].client \in Clients /\ arg[r].id \in held[arg[r].client]
  /\ at[r] \in {"hashing", "emitting"} => arg[r].op = "register"
  /\ at[r] = "counting" => arg[r].op = "findAll"
  /\ at[r] = "emitting" \/ (at[r] = "replied" /\ arg[r].op \in GivesTokens) =>
       Owns(arg[r].client, arg[r].id) /\ arg[r].role \in Roles

CallsSound == \A r \in Requests : at[r] # "none" => CallSound(r)

\* An account is announced by one handler only, which has sent its event once for
\* each confirm that was lost.
EmitOnce ==
  \A r \in Requests : at[r] = "emitting" =>
    /\ emitted[arg[r].id] <= faults
    /\ \A q \in Requests : at[q] = "emitting" /\ arg[q].id = arg[r].id => q = r

\* A password that compares is one the account has had.
PasswordsOwned == \A i \in Stored : users[i].password \in Clients => users[i].password \in owned[i]

IInv == /\ TypeOK /\ OneAccountPerEmail /\ TokensProved /\ EventsExplained
        /\ CallsSound /\ EmitOnce /\ PasswordsOwned

LEMMA InitInv == Init => IInv
<1> SUFFICES ASSUME Init PROVE IInv
  OBVIOUS
<1>1. TypeOK
  BY CallsAssumption DEF Init, CallsInit, TypeOK, Steps, Roles
<1>2. Stored = {}
  BY DEF Init, Stored
<1>3. OneAccountPerEmail /\ TokensProved /\ EventsExplained /\ PasswordsOwned
  BY <1>2, CallsAssumption DEF Init, CallsInit, OneAccountPerEmail, TokensProved, EventsExplained, PasswordsOwned
<1>4. CallsSound /\ EmitOnce
  BY DEF Init, CallsInit, CallsSound, EmitOnce
<1> QED BY <1>1, <1>3, <1>4 DEF IInv

-------------------------------------------------------------------------------
(* Which calls reach a handler. *)

LEMMA RouteOf ==
  ASSUME NEW op, NEW h, <<op, h>> \in AccountRoutes
  PROVE  \E p : /\ <<op, p>> \in AuthGateway \cup UsersGateway \cup Internal
                /\ <<p, h>> \in AuthController \cup UsersController
<1> DEFINE G == AuthGateway \cup UsersGateway \cup Internal
           C == AuthController \cup UsersController
<1>1. PICK gc \in G \X C : gc[1][2] = gc[2][1] /\ <<op, h>> = <<gc[1][1], gc[2][2]>>
  BY DEF AccountRoutes, Routes
<1>2. gc[1] \in G /\ gc[2] \in C
  BY <1>1
<1>3. gc[1] = <<gc[1][1], gc[1][2]>>
  BY <1>2 DEF AuthGateway, UsersGateway, Internal
<1>4. gc[2] = <<gc[2][1], gc[2][2]>>
  BY <1>2 DEF AuthController, UsersController
<1> QED BY <1>1, <1>2, <1>3, <1>4

LEMMA HandlerOps ==
  ASSUME NEW r \in Requests
  PROVE  /\ Handler(r, "register") => arg[r].op = "register"
         /\ Handler(r, "login") => arg[r].op = "login"
         /\ Handler(r, "refreshToken") => arg[r].op = "refresh"
         /\ Handler(r, "logout") => arg[r].op = "logout"
         /\ Handler(r, "validateToken") => arg[r].op = "validate"
         /\ Handler(r, "findById") => arg[r].op = "findById"
         /\ Handler(r, "findByEmail") => arg[r].op = "findByEmail"
         /\ Handler(r, "list") => arg[r].op = "findAll"
         /\ Handler(r, "update") => arg[r].op = "update"
         /\ Handler(r, "delete") => arg[r].op = "delete"
<1>1. \A h : Handler(r, h) =>
        \E p : /\ <<arg[r].op, p>> \in AuthGateway \cup UsersGateway \cup Internal
               /\ <<p, h>> \in AuthController \cup UsersController
  BY RouteOf DEF Handler
<1> QED BY <1>1 DEF AuthGateway, UsersGateway, Internal, AuthController, UsersController

-------------------------------------------------------------------------------
(* Steps that change no account. *)

\* A step of one call that is not at its emit, nor goes there.
LEMMA QuietStep ==
  ASSUME IInv, NEW r \in Requests, NEW s \in Steps \ {"emitting"},
         at[r] # "emitting", at' = [at EXCEPT ![r] = s],
         arg' \in [Requests -> Payload \cup {None}],
         \A q \in Requests \ {r} : arg'[q] = arg[q],
         s = "none" <=> arg'[r] = None,
         s # "none" => CallSound(r)',
         UNCHANGED <<users, held, roles, emitted, unannounced, owned>>,
         waiting' \subseteq Requests, calls' \in 0 .. MaxCalls, faults' \in faults .. MaxFaults,
         loggedOut' \subseteq Clients \X Ids
  PROVE  IInv'
<1>1. TypeOK'
  <2>1. at' \in [Requests -> Steps] /\ faults' \in 0 .. MaxFaults
    BY CallsAssumption DEF IInv, TypeOK
  <2>2. \A q \in Requests : at'[q] = "none" <=> arg'[q] = None
    BY DEF IInv, TypeOK
  <2> QED BY <2>1, <2>2 DEF IInv, TypeOK
<1>2. Stored' = Stored /\ at'[r] = s /\ faults' >= faults /\ faults \in Nat
  BY CallsAssumption DEF IInv, TypeOK, Stored
<1>3. \A q \in Requests \ {r} : at'[q] = at[q]
  BY DEF IInv, TypeOK
<1>4. OneAccountPerEmail' /\ TokensProved' /\ PasswordsOwned'
  BY <1>2 DEF IInv, OneAccountPerEmail, TokensProved, PasswordsOwned
<1>5. EventsExplained'
  <2> SUFFICES ASSUME NEW i \in Ids
               PROVE  /\ emitted[i] > 0 => i \in Stored
                      /\ emitted[i] <= faults' + 1
                      /\ i \in Stored => \/ emitted[i] > 0
                                         \/ i \in unannounced
                                         \/ \E q \in Requests : at'[q] = "emitting" /\ arg'[q].id = i
    BY <1>2 DEF EventsExplained
  <2>1. emitted[i] \in Nat
    BY DEF IInv, TypeOK
  <2>2. /\ emitted[i] > 0 => i \in Stored
        /\ emitted[i] <= faults + 1
        /\ i \in Stored => \/ emitted[i] > 0
                           \/ i \in unannounced
                           \/ \E q \in Requests : at[q] = "emitting" /\ arg[q].id = i
    BY DEF IInv, EventsExplained
  <2>3. \A q \in Requests : at[q] = "emitting" => at'[q] = "emitting" /\ arg'[q] = arg[q]
    BY <1>3
  <2>4. emitted[i] <= faults' + 1
    BY <1>2, <2>1, <2>2 DEF IInv, TypeOK
  <2> QED BY <2>2, <2>3, <2>4
<1>6. CallsSound'
  BY <1>2, <1>3 DEF IInv, CallsSound, CallSound, Owns
<1>7. EmitOnce'
  <2> SUFFICES ASSUME NEW q \in Requests, at'[q] = "emitting"
               PROVE  /\ emitted[arg'[q].id] <= faults'
                      /\ \A p \in Requests : at'[p] = "emitting" /\ arg'[p].id = arg'[q].id => p = q
    BY DEF EmitOnce
  <2>1. q # r /\ at[q] = "emitting" /\ arg'[q] = arg[q]
    BY <1>2, <1>3
  <2>2. emitted[arg[q].id] <= faults
    BY <2>1 DEF IInv, EmitOnce
  <2>3. arg[q].id \in Ids
    BY <2>1 DEF IInv, CallsSound, CallSound, Owns, Stored
  <2>4. emitted[arg[q].id] \in Nat
    BY <2>3 DEF IInv, TypeOK
  <2> QED BY <1>2, <1>3, <2>1, <2>2, <2>4 DEF IInv, EmitOnce
<1> QED BY <1>1, <1>4, <1>5, <1>6, <1>7 DEF IInv

\* Steps of the gateway that no handler notices.
LEMMA GatewayOnly ==
  ASSUME IInv, UNCHANGED <<at, faults, users, arg, held, roles, emitted, unannounced, loggedOut, owned>>,
         waiting' \subseteq Requests, calls' \in 0 .. MaxCalls
  PROVE  IInv'
<1>1. TypeOK'
  BY DEF IInv, TypeOK
<1>2. Stored' = Stored
  BY DEF Stored
<1> QED
  BY <1>1, <1>2 DEF IInv, OneAccountPerEmail, TokensProved, EventsExplained,
                    CallsSound, CallSound, Owns, EmitOnce, PasswordsOwned

Ops == {"register", "login", "logout", "refresh", "validate",
        "findAll", "findById", "findByEmail", "update", "delete"}

LEMMA PayTyped ==
  ASSUME NEW c \in Clients \cup {None}, NEW e \in Spellings \cup {None}, NEW i \in Ids \cup {None},
         NEW op \in Ops
  PROVE  /\ Pay(c, op, e, i) \in Payload
         /\ Pay(c, op, e, i).op = op /\ Pay(c, op, e, i).client = c
         /\ Pay(c, op, e, i).email = e /\ Pay(c, op, e, i).id = i
<1>1. (op = "refresh" /\ <<c, i>> \in loggedOut) \in BOOLEAN
  OBVIOUS
<1> QED BY <1>1 DEF Pay, Payload, Ops

LEMMA PutTyped ==
  ASSUME NEW b \in Bodies, NEW i \in Ids
  PROVE  Put(b, i) \in Payload /\ Put(b, i).op = "update" /\ Put(b, i).body = b
<1>1. Pay(None, "update", None, i) \in Payload /\ Pay(None, "update", None, i).op = "update"
  BY PayTyped DEF Ops
<1>2. Put(b, i) = [Pay(None, "update", None, i) EXCEPT !.body = b]
  BY DEF Put
<1> QED BY <1>1, <1>2 DEF Payload

LEMMA PayloadsTyped ==
  ASSUME TypeOK, NEW c \in Clients, NEW a \in PublicCalls(c) \cup ProtectedCalls(c)
  PROVE  /\ a \in Payload
         /\ a.op \in {"register", "login"} => a.client = c /\ a.email \in Spellings
         /\ a.op = "update" => a.body \in Bodies
         /\ a.op \in {"refresh", "logout"} => a.client = c /\ a.id \in held[c]
<1>1. held[c] \subseteq Ids
  BY DEF TypeOK
<1>2. CASE a \in PublicCalls(c)
  <2>1. CASE \E op \in {"register", "login"}, e \in Spellings : a = Pay(c, op, e, None)
    <3>1. PICK op \in {"register", "login"}, e \in Spellings : a = Pay(c, op, e, None)
      BY <2>1
    <3>2. op \in Ops
      BY <3>1 DEF Ops
    <3>3. a \in Payload /\ a.op = op /\ a.client = c /\ a.email = e
      BY <3>1, <3>2, PayTyped
    <3> QED BY <3>1, <3>3
  <2>2. CASE \E i \in held[c] : a = Pay(c, "refresh", None, i)
    <3>1. PICK i \in held[c] : a = Pay(c, "refresh", None, i)
      BY <2>2
    <3>2. a \in Payload /\ a.op = "refresh" /\ a.client = c /\ a.id = i
      BY <1>1, <3>1, PayTyped DEF Ops
    <3> QED BY <3>2
  <2>3. CASE \E op \in {"validate", "findByEmail"} : a = Pay(None, op, None, None)
    <3>1. PICK op \in {"validate", "findByEmail"} : a = Pay(None, op, None, None)
      BY <2>3
    <3>2. op \in Ops
      BY <3>1 DEF Ops
    <3>3. a \in Payload /\ a.op = op
      BY <3>1, <3>2, PayTyped
    <3> QED BY <3>1, <3>3
  <2> QED BY <1>2, <2>1, <2>2, <2>3 DEF PublicCalls
<1>3. CASE a \in ProtectedCalls(c)
  <2>1. CASE \E i \in held[c] : a = Pay(c, "logout", None, i)
    <3>1. PICK i \in held[c] : a = Pay(c, "logout", None, i)
      BY <2>1
    <3>2. a \in Payload /\ a.op = "logout" /\ a.client = c /\ a.id = i
      BY <1>1, <3>1, PayTyped DEF Ops
    <3> QED BY <3>2
  <2>2. CASE \E op \in {"findById", "delete"}, i \in Ids : a = Pay(None, op, None, i)
    <3>1. PICK op \in {"findById", "delete"}, i \in Ids : a = Pay(None, op, None, i)
      BY <2>2
    <3>2. op \in Ops
      BY <3>1 DEF Ops
    <3>3. a \in Payload /\ a.op = op
      BY <3>1, <3>2, PayTyped
    <3> QED BY <3>1, <3>3
  <2>3. CASE \E b \in Bodies, i \in Ids : a = Put(b, i)
    <3>1. PICK b \in Bodies, i \in Ids : a = Put(b, i)
      BY <2>3
    <3>2. a \in Payload /\ a.op = "update" /\ a.body = b
      BY <3>1, PutTyped
    <3> QED BY <3>2
  <2>4. CASE a = Pay(None, "findAll", None, None)
    <3>1. a \in Payload /\ a.op = "findAll"
      BY <2>4, PayTyped DEF Ops
    <3> QED BY <3>1
  <2> QED BY <1>3, <2>1, <2>2, <2>3, <2>4 DEF ProtectedCalls
<1> QED BY <1>2, <1>3

LEMMA AskInv == ASSUME IInv, NEW r \in Requests, Ask(r) PROVE IInv'
<1>1. calls + 1 \in 0 .. MaxCalls /\ at[r] = "none"
  BY CallsAssumption DEF Ask, Free, IInv, TypeOK
<1>2. CASE TurnAway /\ UNCHANGED arg
  BY <1>1, <1>2, GatewayOnly DEF TurnAway, Ask, IInv, TypeOK
<1>3. CASE \E c \in Clients : \E a \in PublicCalls(c) \cup ProtectedCalls(c) : Pass(r, a)
  <2>1. PICK c \in Clients : \E a \in PublicCalls(c) \cup ProtectedCalls(c) : Pass(r, a)
    BY <1>3
  <2>2. PICK a \in PublicCalls(c) \cup ProtectedCalls(c) : Pass(r, a)
    BY <2>1
  <2>3. /\ a \in Payload
        /\ a.op \in {"register", "login"} => a.client = c /\ a.email \in Spellings
        /\ a.op = "update" => a.body \in Bodies
        /\ a.op \in {"refresh", "logout"} => a.client = c /\ a.id \in held[c]
    BY PayloadsTyped DEF IInv
  <2>4. /\ at' = [at EXCEPT ![r] = "sent"] /\ arg' = [arg EXCEPT ![r] = a]
        /\ waiting' = waiting \cup {r} /\ calls' = calls + 1 /\ UNCHANGED faults
        /\ UNCHANGED <<users, held, roles, emitted, unannounced, loggedOut, owned>>
    BY <2>2 DEF Pass, Send, Step, Ask
  <2>5. at'[r] = "sent" /\ arg'[r] = a
    BY <2>4 DEF IInv, TypeOK
  <2>6. CallSound(r)'
    BY <2>3, <2>4, <2>5 DEF CallSound
  <2>7. arg' \in [Requests -> Payload \cup {None}] /\ arg'[r] # None
    BY <2>3, <2>4, <2>5, NoneAssumption DEF IInv, TypeOK
  <2>8. \A q \in Requests \ {r} : arg'[q] = arg[q]
    BY <2>4 DEF IInv, TypeOK
  <2>9. waiting' \subseteq Requests /\ loggedOut' \subseteq Clients \X Ids /\ faults' \in faults .. MaxFaults
    BY <2>4, CallsAssumption DEF IInv, TypeOK
  <2>10. "sent" \in Steps \ {"emitting"}
    BY DEF Steps
  <2> HIDE <1>3
  <2> QED BY <1>1, <2>4, <2>6, <2>7, <2>8, <2>9, <2>10, QuietStep
<1> QED BY <1>2, <1>3 DEF Ask

LEMMA TimeoutInv == ASSUME IInv, NEW r \in Requests, Timeout(r) PROVE IInv'
<1>1. CASE GiveUp(r) /\ UNCHANGED arg
  BY <1>1, GatewayOnly DEF GiveUp, Timeout, IInv, TypeOK
<1>2. CASE DropReply(r) /\ Forget(r)
  <2>1. /\ at[r] # "emitting" /\ at' = [at EXCEPT ![r] = "none"] /\ arg' = [arg EXCEPT ![r] = None]
        /\ UNCHANGED <<waiting, calls, faults, users, held, roles, emitted, unannounced, loggedOut, owned>>
    BY <1>2 DEF DropReply, Done, Step, Forget, Timeout
  <2>2. arg' \in [Requests -> Payload \cup {None}] /\ arg'[r] = None /\ \A q \in Requests \ {r} : arg'[q] = arg[q]
    BY <2>1 DEF IInv, TypeOK
  <2>3. "none" \in Steps \ {"emitting"} /\ faults' \in faults .. MaxFaults
    BY <2>1, CallsAssumption DEF Steps, IInv, TypeOK
  <2>4. waiting' \subseteq Requests /\ calls' \in 0 .. MaxCalls /\ loggedOut' \subseteq Clients \X Ids
    BY <2>1 DEF IInv, TypeOK
  <2> QED BY <2>1, <2>2, <2>3, <2>4, QuietStep
<1> QED BY <1>1, <1>2 DEF Timeout

\* A handler's step to s with the same accounts and the same call, without tokens.
LEMMA ReplyStep ==
  ASSUME IInv, NEW r \in Requests, NEW s \in {"hashing", "counting", "replied", "threw"},
         at[r] \in {"sent", "hashing", "counting"}, Step(r, s),
         s = "hashing" => arg[r].op = "register",
         s = "counting" => arg[r].op = "findAll",
         s = "replied" => arg[r].op \notin GivesTokens,
         UNCHANGED <<waiting, calls, faults, users, arg, held, roles, emitted, unannounced, loggedOut, owned>>
  PROVE  IInv'
<1>1. CallSound(r)
  BY DEF IInv, CallsSound
<1>2. at'[r] = s /\ at' = [at EXCEPT ![r] = s] /\ Stored' = Stored
  BY DEF Step, IInv, TypeOK, Stored
<1>3. CallSound(r)'
  BY <1>1, <1>2 DEF CallSound, Owns
<1>4. arg[r] # None
  BY DEF IInv, TypeOK
<1>5. faults' \in faults .. MaxFaults
  BY CallsAssumption DEF IInv, TypeOK
<1>6. s \in Steps \ {"emitting"}
  BY DEF Steps
<1>7. /\ arg' \in [Requests -> Payload \cup {None}] /\ \A q \in Requests \ {r} : arg'[q] = arg[q]
      /\ waiting' \subseteq Requests /\ calls' \in 0 .. MaxCalls /\ loggedOut' \subseteq Clients \X Ids
  BY DEF IInv, TypeOK
<1> QED BY <1>2, <1>3, <1>4, <1>5, <1>6, <1>7, QuietStep

LEMMA FindExistingInv == ASSUME IInv, NEW r \in Requests, FindExisting(r) PROVE IInv'
<1>1. at[r] = "sent" /\ arg[r].op = "register"
  BY HandlerOps DEF FindExisting, Handler
<1>2. PICK s \in {"hashing", "threw"} : Step(r, s)
  BY DEF FindExisting
<1> QED BY <1>1, <1>2, ReplyStep DEF FindExisting

\* login and refreshToken answer with tokens of account i, with the role it has.
LEMMA TokensStep ==
  ASSUME IInv, NEW r \in Requests, at[r] = "sent", arg[r].op \in {"login", "refresh"},
         NEW i \in Stored, arg[r].op = "refresh" => i = arg[r].id,
         Owns(arg[r].client, i), GenerateTokens(r, i, users[i].role), Step(r, "replied"),
         UNCHANGED <<waiting, calls, faults, users, held, roles, emitted, unannounced, loggedOut, owned>>
  PROVE  IInv'
<1>1. i \in Ids /\ arg[r] \in Payload /\ at'[r] = "replied" /\ CallSound(r) /\ users[i].role \in Roles
  BY DEF Stored, IInv, TypeOK, CallsSound, Step, Account
<1>2. arg'[r] = [arg[r] EXCEPT !.id = i, !.role = users[i].role]
  BY DEF GenerateTokens, IInv, TypeOK
<1>3. /\ arg'[r] \in Payload /\ arg'[r].op = arg[r].op /\ arg'[r].client = arg[r].client
      /\ arg'[r].email = arg[r].email /\ arg'[r].id = i /\ arg'[r].role = users[i].role
  BY <1>1, <1>2 DEF Payload
<1>4. Stored' = Stored
  BY DEF Stored
<1>5. CallSound(r)'
  <2>1. Owns(arg[r].client, arg[r].id)'
    BY <1>3, <1>4 DEF Owns
  <2> QED BY <1>1, <1>3, <2>1 DEF CallSound
<1>6. arg' \in [Requests -> Payload \cup {None}] /\ \A q \in Requests \ {r} : arg'[q] = arg[q]
  BY <1>3 DEF GenerateTokens, IInv, TypeOK
<1>7. arg'[r] # None /\ "replied" \in Steps \ {"emitting"} /\ at' = [at EXCEPT ![r] = "replied"]
  BY <1>3, NoneAssumption DEF Steps, Step
<1>8. faults' \in faults .. MaxFaults /\ waiting' \subseteq Requests /\ calls' \in 0 .. MaxCalls
  BY CallsAssumption DEF IInv, TypeOK
<1>9. loggedOut' \subseteq Clients \X Ids
  BY DEF IInv, TypeOK
<1> QED BY <1>5, <1>6, <1>7, <1>8, <1>9, QuietStep

LEMMA LoginInv == ASSUME IInv, NEW r \in Requests, Login(r) PROVE IInv'
<1>1. at[r] = "sent" /\ arg[r].op = "login" /\ arg[r].client \in Clients
  BY HandlerOps DEF Login, Handler, IInv, CallsSound, CallSound
<1>2. CASE Step(r, "threw") /\ UNCHANGED arg
  BY <1>1, <1>2, ReplyStep DEF Login
<1>3. CASE \E i \in Stored : MayLogIn(r, i) /\ GenerateTokens(r, i, users[i].role) /\ Step(r, "replied")
  <2>1. PICK i \in Stored : MayLogIn(r, i) /\ GenerateTokens(r, i, users[i].role) /\ Step(r, "replied")
    BY <1>3
  <2>2. Owns(arg[r].client, i)
    BY <1>1, <2>1 DEF Owns, MayLogIn, IInv, PasswordsOwned
  <2> HIDE <1>3
  <2> QED BY <1>1, <2>1, <2>2, TokensStep DEF Login
<1> QED BY <1>2, <1>3 DEF Login

LEMMA RefreshInv == ASSUME IInv, NEW r \in Requests, RefreshToken(r) PROVE IInv'
<1>1. at[r] = "sent" /\ arg[r].op = "refresh" /\ CallSound(r)
  BY HandlerOps DEF RefreshToken, Handler, IInv, CallsSound
<1>2. CASE Step(r, "threw") /\ UNCHANGED arg
  BY <1>1, <1>2, ReplyStep DEF RefreshToken
<1>3. CASE /\ arg[r].id \in Stored /\ Step(r, "replied")
           /\ GenerateTokens(r, arg[r].id, users[arg[r].id].role)
  <2>1. Owns(arg[r].client, arg[r].id)
    BY <1>1 DEF CallSound, IInv, TokensProved, Owns
  <2> QED BY <1>1, <1>3, <2>1, TokensStep DEF RefreshToken
<1> QED BY <1>2, <1>3 DEF RefreshToken

LEMMA QuietHandlersInv ==
  ASSUME IInv, NEW r \in Requests,
         Logout(r) \/ ValidateToken(r) \/ FindById(r) \/ FindByEmail(r) \/ ListUsers(r)
  PROVE  IInv'
<1>1. at[r] = "counting" => arg[r].op = "findAll"
  BY DEF IInv, CallsSound, CallSound
<1>2. at[r] \in {"sent", "counting"} /\ arg[r].op \notin GivesTokens
  BY <1>1, HandlerOps DEF Logout, ValidateToken, FindById, FindByEmail, ListUsers, Handler, GivesTokens
<1>3. UNCHANGED <<waiting, calls, faults, users, arg, held, roles, emitted, unannounced, loggedOut, owned>>
  BY DEF Logout, ValidateToken, FindById, FindByEmail, ListUsers
<1>4. PICK s \in {"counting", "replied", "threw"} : Step(r, s) /\ (s = "counting" => arg[r].op = "findAll")
  <2>1. CASE Logout(r) \/ ValidateToken(r) \/ FindByEmail(r)
    BY <2>1 DEF Logout, ValidateToken, FindByEmail
  <2>2. CASE FindById(r)
    BY <2>2 DEF FindById
  <2>3. CASE ListUsers(r)
    BY <2>3, HandlerOps DEF ListUsers
  <2> QED BY <2>1, <2>2, <2>3
<1> QED BY <1>2, <1>3, <1>4, ReplyStep

-------------------------------------------------------------------------------
(* Steps that change an account, or announce it. *)

LEMMA ChangeAccount ==
  ASSUME IInv, NEW r \in Requests, NEW i \in Stored, NEW acc \in Account,
         NEW had \in SUBSET Clients, owned' = [owned EXCEPT ![i] = @ \cup had],
         acc.password \in Clients => acc.password \in owned[i] \cup had,
         \A j \in Stored \ {i} : users[j].email # acc.email,
         users' = [users EXCEPT ![i] = acc],
         at[r] = "sent", arg[r].op \notin GivesTokens, Step(r, "replied"),
         UNCHANGED <<waiting, calls, faults, arg, held, roles, emitted, unannounced, loggedOut>>
  PROVE  IInv'
<1>1. /\ users'[i] = acc /\ \A j \in Ids \ {i} : users'[j] = users[j]
      /\ at'[r] = "replied" /\ \A q \in Requests \ {r} : at'[q] = at[q]
  BY DEF IInv, TypeOK, Step, Stored
<1>2. Stored' = Stored
  BY <1>1, NoneAssumption DEF Stored
<1>3. owned' \in [Ids -> SUBSET Clients] /\ \A j \in Stored : owned[j] \subseteq owned'[j]
  BY DEF IInv, TypeOK, Stored
<1>4. TypeOK'
  <2>1. at' \in [Requests -> Steps] /\ users' \in [Ids -> Account \cup {None}]
    BY DEF IInv, TypeOK, Step, Steps
  <2>2. \A q \in Requests : at'[q] = "none" <=> arg'[q] = None
    BY <1>1 DEF IInv, TypeOK
  <2> QED BY <1>3, <2>1, <2>2 DEF IInv, TypeOK
<1>5. OneAccountPerEmail'
  BY <1>1, <1>2 DEF IInv, OneAccountPerEmail, Stored
<1>6. TokensProved'
  BY <1>2, <1>3 DEF IInv, TokensProved
<1>7. EventsExplained'
  <2>1. \A q \in Requests : at[q] = "emitting" => at'[q] = "emitting" /\ arg'[q] = arg[q]
    BY <1>1
  <2> QED BY <1>2, <2>1 DEF IInv, EventsExplained
<1>8. CallsSound'
  <2> SUFFICES ASSUME NEW q \in Requests, at'[q] # "none" PROVE CallSound(q)'
    BY DEF CallsSound
  <2>1. CallSound(q)
    BY <1>1 DEF IInv, CallsSound
  <2> QED BY <1>1, <1>2, <1>3, <2>1 DEF CallSound, Owns
<1>9. EmitOnce'
  BY <1>1 DEF IInv, EmitOnce
<1>10. PasswordsOwned'
  <2> SUFFICES ASSUME NEW j \in Stored, users'[j].password \in Clients PROVE users'[j].password \in owned'[j]
    BY <1>2 DEF PasswordsOwned
  <2>1. CASE j = i
    BY <1>1, <2>1 DEF IInv, TypeOK, Stored
  <2>2. CASE j # i
    <3>1. users'[j] = users[j] /\ owned[j] \subseteq owned'[j]
      BY <1>1, <1>3, <2>2 DEF Stored
    <3> QED BY <3>1 DEF IInv, PasswordsOwned
  <2> QED BY <2>1, <2>2
<1> QED BY <1>4, <1>5, <1>6, <1>7, <1>8, <1>9, <1>10 DEF IInv

\* What the body makes of an account is an account.
LEMMA EditedTyped ==
  ASSUME NEW u \in Account, NEW b \in Bodies
  PROVE  Edited(u, b) \in Account
<1>1. /\ DOMAIN b \subseteq {"email", "password", "role", "deleted"}
      /\ "email" \in DOMAIN b => b["email"] \in Spellings
      /\ "password" \in DOMAIN b => b["password"] \in Clients \cup {None}
      /\ "role" \in DOMAIN b => b["role"] \in Roles
      /\ "deleted" \in DOMAIN b => b["deleted"] \in BOOLEAN
  BY BodiesAssumption DEF IsBody, Fields
<1>2. u.email \in Addresses /\ u.password \in Clients \cup {None} /\ u.role \in Roles /\ u.deleted \in BOOLEAN
  BY DEF Account
<1>3. /\ Edited(u, b).email \in Addresses
      /\ Edited(u, b).password \in Clients \cup {None}
      /\ Edited(u, b).role \in Roles
      /\ Edited(u, b).deleted \in BOOLEAN
  BY <1>1, <1>2 DEF Edited, Address, Addresses
<1>4. Edited(u, b) = [email |-> Edited(u, b).email, password |-> Edited(u, b).password,
                      role |-> Edited(u, b).role, deleted |-> Edited(u, b).deleted]
  BY DEF Edited
<1> QED BY <1>3, <1>4 DEF Account

LEMMA UpdateUserInv == ASSUME IInv, NEW r \in Requests, UpdateUser(r) PROVE IInv'
<1> DEFINE i == arg[r].id
           acc == Edited(users[i], arg[r].body)
           had == {acc.password} \cap Clients
<1>1. at[r] = "sent" /\ arg[r].op = "update" /\ arg[r].body \in Bodies /\ arg[r].op \notin GivesTokens
  BY HandlerOps DEF UpdateUser, Handler, IInv, CallsSound, CallSound, GivesTokens
<1>2. CASE i \in Stored /\ IndexAdmits(i, acc.email)
  <2>1. /\ users' = [users EXCEPT ![i] = acc] /\ owned' = [owned EXCEPT ![i] = @ \cup had]
        /\ Step(r, "replied")
        /\ UNCHANGED <<waiting, calls, faults, arg, held, roles, emitted, unannounced, loggedOut>>
    BY <1>2 DEF UpdateUser
  <2>2. users[i] \in Account
    BY <1>2 DEF Stored, IInv, TypeOK
  <2>3. acc \in Account
    BY <1>1, <2>2, EditedTyped
  <2>4. \A j \in Stored \ {i} : users[j].email # acc.email
    BY <1>2 DEF IndexAdmits
  <2>5. had \in SUBSET Clients /\ (acc.password \in Clients => acc.password \in owned[i] \cup had)
    OBVIOUS
  <2> HIDE DEF acc, had
  <2> QED BY <1>1, <1>2, <2>1, <2>3, <2>4, <2>5, ChangeAccount
<1>3. CASE ~ (i \in Stored /\ IndexAdmits(i, acc.email))
  BY <1>1, <1>3, ReplyStep DEF UpdateUser
<1> QED BY <1>2, <1>3

LEMMA DeleteUserInv == ASSUME IInv, NEW r \in Requests, DeleteUser(r) PROVE IInv'
<1>1. at[r] = "sent" /\ arg[r].op = "delete"
  BY HandlerOps DEF DeleteUser, Handler
<1>2. CASE arg[r].id \in Stored
  <2> DEFINE i == arg[r].id
             acc == [users[i] EXCEPT !.deleted = TRUE]
  <2>1. /\ users' = [users EXCEPT ![i].deleted = TRUE] /\ Step(r, "replied")
        /\ UNCHANGED <<waiting, calls, faults, arg, held, roles, emitted, unannounced, loggedOut, owned>>
    BY <1>2 DEF DeleteUser
  <2>2. users[i] \in Account
    BY <1>2 DEF Stored, IInv, TypeOK
  <2>3. acc \in Account /\ acc.password = users[i].password /\ acc.email = users[i].email
    BY <2>2 DEF Account
  <2>4. users' = [users EXCEPT ![i] = acc]
    BY <2>1
  <2>5. \A j \in Stored \ {i} : users[j].email # acc.email
    BY <1>2, <2>3 DEF IInv, OneAccountPerEmail
  <2>6. arg[r].op \notin GivesTokens
    BY <1>1 DEF GivesTokens
  <2>7. acc.password \in Clients => acc.password \in owned[i] \cup {}
    BY <1>2, <2>3 DEF IInv, PasswordsOwned
  <2>8. owned' = [owned EXCEPT ![i] = @ \cup {}] /\ {} \in SUBSET Clients
    BY <1>2, <2>1 DEF IInv, TypeOK
  <2> HIDE DEF acc
  <2> QED BY <1>1, <1>2, <2>1, <2>3, <2>4, <2>5, <2>6, <2>7, <2>8, ChangeAccount
<1>3. CASE arg[r].id \notin Stored
  BY <1>1, <1>3, ReplyStep DEF DeleteUser
<1> QED BY <1>2, <1>3

LEMMA InsertInv == ASSUME IInv, NEW r \in Requests, Insert(r) PROVE IInv'
<1> DEFINE i == NewId
<1>1. /\ at[r] = "hashing" /\ arg[r].op = "register" /\ CallSound(r)
      /\ arg[r].client \in Clients /\ arg[r].email \in Spellings /\ arg[r] \in Payload
  BY DEF Insert, IInv, CallsSound, CallSound, TypeOK
<1>2. i \in Ids /\ i \notin Stored
  BY DEF Insert, NewId, Stored
<1>3. CASE ~IndexAdmits(i, Address(arg[r].email))
  BY <1>1, <1>3, ReplyStep DEF Insert
<1>4. CASE IndexAdmits(i, Address(arg[r].email))
  <2>1. /\ users' = [users EXCEPT ![i] = NewUser(r)]
        /\ owned' = [owned EXCEPT ![i] = {arg[r].client}]
        /\ arg' = [arg EXCEPT ![r].id = i, ![r].role = "user"] /\ at' = [at EXCEPT ![r] = "emitting"]
        /\ UNCHANGED <<waiting, calls, faults, held, roles, emitted, unannounced, loggedOut>>
    BY <1>4 DEF Insert, AfterInsert, Step, GenerateTokens
  <2>2. NewUser(r) \in Account /\ NewUser(r).password = arg[r].client /\ NewUser(r).email = Address(arg[r].email)
    BY <1>1 DEF NewUser, Account, Address, Addresses, Roles
  <2> HIDE DEF i
  <2>3. /\ arg'[r] \in Payload /\ arg'[r].op = "register" /\ arg'[r].client = arg[r].client
        /\ arg'[r].email = arg[r].email /\ arg'[r].id = i /\ arg'[r].role \in Roles
        /\ arg' \in [Requests -> Payload \cup {None}]
    <3>1. arg'[r] = [arg[r] EXCEPT !.id = i, !.role = "user"]
      BY <2>1 DEF IInv, TypeOK
    <3>2. "user" \in Roles
      BY DEF Roles
    <3>3. /\ arg'[r] \in Payload /\ arg'[r].op = "register" /\ arg'[r].client = arg[r].client
          /\ arg'[r].email = arg[r].email /\ arg'[r].id = i /\ arg'[r].role \in Roles
      BY <1>1, <1>2, <3>1, <3>2 DEF Payload
    <3> QED BY <2>1, <3>3 DEF IInv, TypeOK
  <2>4. /\ users'[i] = NewUser(r) /\ \A j \in Ids \ {i} : users'[j] = users[j]
        /\ at'[r] = "emitting" /\ \A q \in Requests \ {r} : at'[q] = at[q] /\ arg'[q] = arg[q]
        /\ owned'[i] = {arg[r].client} /\ \A j \in Ids \ {i} : owned'[j] = owned[j]
        /\ owned' \in [Ids -> SUBSET Clients]
    BY <1>1, <1>2, <2>1 DEF IInv, TypeOK
  <2>5. Stored' = Stored \cup {i}
    BY <1>2, <2>2, <2>4, NoneAssumption DEF Stored
  <2>6. TypeOK'
    <3>1. at' \in [Requests -> Steps] /\ users' \in [Ids -> Account \cup {None}]
      BY <2>1, <2>2 DEF IInv, TypeOK, Steps
    <3>2. \A q \in Requests : at'[q] = "none" <=> arg'[q] = None
      BY <2>3, <2>4, NoneAssumption DEF IInv, TypeOK
    <3> QED BY <2>1, <2>3, <2>4, <3>1, <3>2 DEF IInv, TypeOK
  <2>7. OneAccountPerEmail'
    BY <1>2, <1>4, <2>2, <2>4, <2>5 DEF IInv, OneAccountPerEmail, IndexAdmits, Stored
  <2>8. \A j \in Stored : users'[j] = users[j] /\ owned'[j] = owned[j]
    BY <1>2, <2>4 DEF Stored
  <2>9. TokensProved'
    BY <2>1, <2>5, <2>8 DEF IInv, TokensProved
  <2>10. emitted[i] = 0
    BY <1>2 DEF IInv, TypeOK, EventsExplained
  <2>11. EventsExplained'
    <3> SUFFICES ASSUME NEW j \in Ids
                 PROVE  /\ emitted[j] > 0 => j \in Stored'
                        /\ emitted[j] <= faults + 1
                        /\ j \in Stored' => \/ emitted[j] > 0
                                            \/ j \in unannounced
                                            \/ \E q \in Requests : at'[q] = "emitting" /\ arg'[q].id = j
      BY <2>1 DEF EventsExplained
    <3>1. \A q \in Requests : at[q] = "emitting" => at'[q] = "emitting" /\ arg'[q] = arg[q]
      BY <1>1, <2>4
    <3> QED BY <2>3, <2>4, <2>5, <3>1 DEF IInv, EventsExplained
  <2>12. CallsSound'
    <3> SUFFICES ASSUME NEW q \in Requests, at'[q] # "none" PROVE CallSound(q)'
      BY DEF CallsSound
    <3>1. CASE q = r
      BY <1>1, <2>1, <2>2, <2>3, <2>4, <2>5, <3>1 DEF CallSound, Owns
    <3>2. CASE q # r
      <4>1. CallSound(q) /\ at'[q] = at[q] /\ arg'[q] = arg[q]
        BY <2>4, <3>2 DEF IInv, CallsSound
      <4>2. Owns(arg[q].client, arg[q].id) => Owns(arg[q].client, arg[q].id)'
        BY <2>5, <2>8, <4>1 DEF Owns
      <4>3. at'[q] = at[q] /\ arg'[q] = arg[q] /\ held' = held
        BY <2>1, <4>1
      <4>4. CallSound(q)
        BY <4>1
      <4> QED BY <4>2, <4>3, <4>4 DEF CallSound
    <3> QED BY <3>1, <3>2
  <2>13. EmitOnce'
    <3>1. \A q \in Requests : q # r /\ at'[q] = "emitting" => arg'[q].id \in Stored
      BY <2>4 DEF IInv, CallsSound, CallSound, Owns
    <3>2. emitted[i] <= faults
      BY <2>10, CallsAssumption DEF IInv, TypeOK
    <3> QED BY <1>2, <2>1, <2>3, <2>4, <3>1, <3>2 DEF IInv, EmitOnce
  <2>14. PasswordsOwned'
    BY <2>2, <2>4, <2>5, <2>8 DEF IInv, PasswordsOwned
  <2> QED BY <2>6, <2>7, <2>9, <2>11, <2>12, <2>13, <2>14 DEF IInv
<1> QED BY <1>3, <1>4

-------------------------------------------------------------------------------
(* The event of a new account. *)

\* A handler at its emit has an account of its caller, announced once for each
\* confirm that was lost.
LEMMA AtEmit ==
  ASSUME IInv, NEW r \in Requests, at[r] = "emitting"
  PROVE  /\ arg[r].id \in Ids /\ arg[r].id \in Stored /\ CallSound(r)
         /\ emitted[arg[r].id] \in Nat /\ emitted[arg[r].id] <= faults
         /\ arg[r] # None
<1>1. CallSound(r) /\ arg[r] # None
  BY DEF IInv, CallsSound, TypeOK
<1>2. arg[r].id \in Ids /\ arg[r].id \in Stored
  BY <1>1 DEF CallSound, Owns, Stored
<1> QED BY <1>1, <1>2 DEF IInv, TypeOK, EmitOnce

\* The emit ends, with an event in the queue or without one.
LEMMA EmitEnds ==
  ASSUME IInv, NEW r \in Requests, at[r] = "emitting",
         NEW s \in {"replied", "threw", "none"}, at' = [at EXCEPT ![r] = s],
         arg' = IF s = "none" THEN [arg EXCEPT ![r] = None] ELSE arg,
         \/ emitted' = [emitted EXCEPT ![arg[r].id] = @ + 1] /\ UNCHANGED unannounced
         \/ unannounced' = unannounced \cup {arg[r].id} /\ UNCHANGED emitted,
         UNCHANGED <<waiting, calls, users, held, roles, loggedOut, owned>>,
         faults' \in faults .. MaxFaults
  PROVE  IInv'
<1> DEFINE i == arg[r].id
<1>1. i \in Ids /\ i \in Stored /\ CallSound(r) /\ emitted[i] \in Nat /\ emitted[i] <= faults /\ arg[r] # None
  BY AtEmit
<1>2. /\ \A j \in Ids \ {i} : emitted'[j] = emitted[j]
      /\ emitted'[i] \in Nat /\ emitted'[i] <= faults + 1
      /\ emitted'[i] > 0 \/ i \in unannounced'
      /\ unannounced \subseteq unannounced'
      /\ emitted' \in [Ids -> Nat] /\ unannounced' \subseteq Ids
  <2>1. CASE emitted' = [emitted EXCEPT ![i] = @ + 1] /\ UNCHANGED unannounced
    <3>1. emitted'[i] = emitted[i] + 1 /\ \A j \in Ids \ {i} : emitted'[j] = emitted[j]
      BY <1>1, <2>1 DEF IInv, TypeOK
    <3>2. emitted' \in [Ids -> Nat]
      BY <1>1, <2>1 DEF IInv, TypeOK
    <3>3. faults \in Nat
      BY CallsAssumption DEF IInv, TypeOK
    <3> HIDE DEF i
    <3> QED BY <1>1, <2>1, <3>1, <3>2, <3>3 DEF IInv, TypeOK
  <2>2. CASE unannounced' = unannounced \cup {i} /\ UNCHANGED emitted
    <3>1. faults \in Nat
      BY CallsAssumption DEF IInv, TypeOK
    <3> HIDE DEF i
    <3> QED BY <1>1, <2>2, <3>1 DEF IInv, TypeOK
  <2> QED BY <2>1, <2>2
<1>3. /\ at'[r] = s /\ \A q \in Requests \ {r} : at'[q] = at[q] /\ arg'[q] = arg[q]
      /\ arg'[r] = IF s = "none" THEN None ELSE arg[r]
      /\ arg' \in [Requests -> Payload \cup {None}]
  BY DEF IInv, TypeOK
<1>4. Stored' = Stored /\ faults \in Nat /\ faults' \in Nat /\ faults' >= faults
  BY CallsAssumption DEF IInv, TypeOK, Stored
<1> HIDE DEF i
<1>5. TypeOK'
  <2>1. at' \in [Requests -> Steps] /\ faults' \in 0 .. MaxFaults
    BY CallsAssumption DEF IInv, TypeOK, Steps
  <2>2. \A q \in Requests : at'[q] = "none" <=> arg'[q] = None
    BY <1>1, <1>3 DEF IInv, TypeOK
  <2> QED BY <1>2, <1>3, <2>1, <2>2 DEF IInv, TypeOK
<1>6. OneAccountPerEmail' /\ TokensProved' /\ PasswordsOwned'
  BY <1>4 DEF IInv, OneAccountPerEmail, TokensProved, PasswordsOwned
<1>7. EventsExplained'
  <2> SUFFICES ASSUME NEW j \in Ids
               PROVE  /\ emitted'[j] > 0 => j \in Stored
                      /\ emitted'[j] <= faults' + 1
                      /\ j \in Stored => \/ emitted'[j] > 0
                                         \/ j \in unannounced'
                                         \/ \E q \in Requests : at'[q] = "emitting" /\ arg'[q].id = j
    BY <1>4 DEF EventsExplained
  <2>1. CASE j = i
    BY <1>1, <1>2, <1>4, <2>1
  <2>2. CASE j # i
    <3>1. emitted'[j] = emitted[j] /\ emitted[j] \in Nat
      BY <1>2, <2>2 DEF IInv, TypeOK
    <3>2. \A q \in Requests : at[q] = "emitting" /\ arg[q].id = j => at'[q] = "emitting" /\ arg'[q].id = j
      BY <1>3, <2>2 DEF i
    <3>3. emitted[j] <= faults + 1
      BY DEF IInv, EventsExplained
    <3>4. emitted[j] <= faults' + 1
      BY <1>4, <3>1, <3>3
    <3> QED BY <1>2, <3>1, <3>2, <3>4 DEF IInv, EventsExplained
  <2> QED BY <2>1, <2>2
<1>8. CallsSound'
  <2> SUFFICES ASSUME NEW q \in Requests, at'[q] # "none" PROVE CallSound(q)'
    BY DEF CallsSound
  <2>1. arg'[q] = arg[q] /\ CallSound(q) /\ (q = r => at[q] = "emitting") /\ (q # r => at'[q] = at[q])
    BY <1>1, <1>3 DEF IInv, CallsSound
  <2>2. Owns(arg[q].client, arg[q].id) => Owns(arg[q].client, arg[q].id)'
    BY <1>4, <2>1 DEF Owns
  <2>3. q = r => at'[q] \in {"replied", "threw"}
    BY <1>3
  <2> QED BY <2>1, <2>2, <2>3 DEF CallSound
<1>9. EmitOnce'
  <2> SUFFICES ASSUME NEW q \in Requests, at'[q] = "emitting"
               PROVE  /\ emitted'[arg'[q].id] <= faults'
                      /\ \A p \in Requests : at'[p] = "emitting" /\ arg'[p].id = arg'[q].id => p = q
    BY DEF EmitOnce
  <2>1. q # r /\ at[q] = "emitting" /\ arg'[q] = arg[q]
    BY <1>3
  <2>2. arg[q].id \in Ids /\ emitted[arg[q].id] \in Nat /\ emitted[arg[q].id] <= faults
    BY <2>1, AtEmit
  <2>3. arg[q].id # i
    BY <2>1 DEF i, IInv, EmitOnce
  <2>4. emitted'[arg[q].id] = emitted[arg[q].id]
    BY <1>2, <2>2, <2>3
  <2>5. emitted'[arg[q].id] <= faults'
    BY <1>4, <2>2, <2>4
  <2> QED BY <1>3, <2>1, <2>5 DEF IInv, EmitOnce
<1> QED BY <1>5, <1>6, <1>7, <1>8, <1>9 DEF IInv

\* A confirm is lost and the event is sent again.
LEMMA EmitAgain ==
  ASSUME IInv, NEW r \in Requests, at[r] = "emitting",
         emitted' = [emitted EXCEPT ![arg[r].id] = @ + 1], faults' = faults + 1, faults < MaxFaults,
         UNCHANGED <<at, unannounced, waiting, calls, users, arg, held, roles, loggedOut, owned>>
  PROVE  IInv'
<1> DEFINE i == arg[r].id
<1>1. i \in Ids /\ i \in Stored /\ emitted[i] \in Nat /\ emitted[i] <= faults
  BY AtEmit
<1>2. faults \in Nat /\ faults' \in 0 .. MaxFaults /\ Stored' = Stored
  BY CallsAssumption DEF IInv, TypeOK, Stored
<1>3. emitted'[i] = emitted[i] + 1 /\ \A j \in Ids \ {i} : emitted'[j] = emitted[j]
  BY <1>1 DEF IInv, TypeOK
<1>4. emitted' \in [Ids -> Nat]
  BY <1>1 DEF IInv, TypeOK
<1> HIDE DEF i
<1>5. TypeOK'
  BY <1>2, <1>4 DEF IInv, TypeOK
<1>6. OneAccountPerEmail' /\ TokensProved' /\ CallsSound' /\ PasswordsOwned'
  BY <1>2 DEF IInv, OneAccountPerEmail, TokensProved, CallsSound, CallSound, Owns, PasswordsOwned
<1>7. \A j \in Ids : emitted[j] \in Nat /\ emitted[j] <= faults + 1
  BY DEF IInv, TypeOK, EventsExplained
<1>8. \A j \in Ids : emitted'[j] <= faults' + 1 /\ (j = i \/ emitted'[j] = emitted[j])
  BY <1>1, <1>2, <1>3, <1>7
<1>9. EventsExplained'
  BY <1>1, <1>2, <1>3, <1>8 DEF IInv, EventsExplained
<1>10. EmitOnce'
  <2> SUFFICES ASSUME NEW q \in Requests, at[q] = "emitting"
               PROVE  /\ emitted'[arg[q].id] <= faults'
                      /\ \A p \in Requests : at[p] = "emitting" /\ arg[p].id = arg[q].id => p = q
    BY DEF EmitOnce
  <2>1. arg[q].id \in Ids /\ emitted[arg[q].id] \in Nat /\ emitted[arg[q].id] <= faults
    BY AtEmit
  <2>2. emitted'[arg[q].id] <= faults'
    BY <1>1, <1>2, <1>3, <2>1
  <2> QED BY <2>2 DEF IInv, EmitOnce
<1> QED BY <1>5, <1>6, <1>9, <1>10 DEF IInv

LEMMA EmitInv == ASSUME IInv, NEW r \in Requests, Emit(r) PROVE IInv'
<1>1. at[r] = "emitting" /\ UNCHANGED <<waiting, calls, users, arg, held, roles, loggedOut, owned>>
  BY DEF Emit
<1>2. faults \in Nat /\ faults <= MaxFaults
  BY CallsAssumption DEF IInv, TypeOK
<1>3. CASE emitted' = [emitted EXCEPT ![arg[r].id] = @ + 1] /\ Step(r, "replied")
           /\ UNCHANGED <<faults, unannounced>>
  <2>1. faults' \in faults .. MaxFaults
    BY <1>2, <1>3, CallsAssumption
  <2> QED BY <1>1, <1>3, <2>1, EmitEnds DEF Step
<1>4. CASE emitted' = [emitted EXCEPT ![arg[r].id] = @ + 1] /\ Fault /\ UNCHANGED <<at, unannounced>>
  BY <1>1, <1>4, EmitAgain DEF Fault
<1>5. CASE unannounced' = unannounced \cup {arg[r].id} /\ Fault /\ Step(r, "replied") /\ UNCHANGED emitted
  <2>1. faults' \in faults .. MaxFaults
    BY <1>2, <1>5, CallsAssumption DEF Fault
  <2> QED BY <1>1, <1>5, <2>1, EmitEnds DEF Step
<1> QED BY <1>3, <1>4, <1>5 DEF Emit

-------------------------------------------------------------------------------
(* Failures and answers. *)

LEMMA FailInv == ASSUME IInv, NEW r \in Requests, Fail(r) PROVE IInv'
<1>1. /\ UNCHANGED <<users, held, roles, emitted, loggedOut, owned, waiting, calls>>
      /\ faults' = faults + 1 /\ faults < MaxFaults /\ at[r] # "none"
      /\ \/ at' = [at EXCEPT ![r] = "none"] /\ arg' = [arg EXCEPT ![r] = None]
         \/ at' = [at EXCEPT ![r] = "threw"] /\ arg' = arg
  BY DEF Fail, LoseCall, QueryFails, OnError, Fault, Step, Forget
<1>2. faults' \in faults .. MaxFaults
  BY <1>1, CallsAssumption DEF IInv, TypeOK
<1>3. PICK s \in {"threw", "none"} : /\ at' = [at EXCEPT ![r] = s]
                                     /\ arg' = IF s = "none" THEN [arg EXCEPT ![r] = None] ELSE arg
  BY <1>1
<1>4. CASE at[r] = "emitting"
  <2>1. unannounced' = unannounced \cup {arg[r].id}
    BY <1>4 DEF Fail
  <2> QED BY <1>1, <1>2, <1>3, <1>4, <2>1, EmitEnds
<1>5. CASE at[r] # "emitting"
  <2>1. UNCHANGED unannounced
    BY <1>5 DEF Fail
  <2>2. CallSound(r) /\ arg[r] # None
    BY <1>1 DEF IInv, CallsSound, TypeOK
  <2>3. /\ at'[r] = s /\ arg'[r] = IF s = "none" THEN None ELSE arg[r]
        /\ \A q \in Requests \ {r} : arg'[q] = arg[q]
        /\ arg' \in [Requests -> Payload \cup {None}]
    BY <1>3 DEF IInv, TypeOK
  <2>4. s # "none" => CallSound(r)'
    BY <1>1, <2>2, <2>3 DEF CallSound
  <2>5. s \in Steps \ {"emitting"} /\ (s = "none" <=> arg'[r] = None)
    BY <2>2, <2>3 DEF Steps
  <2>6. waiting' \subseteq Requests /\ calls' \in 0 .. MaxCalls /\ loggedOut' \subseteq Clients \X Ids
    BY <1>1 DEF IInv, TypeOK
  <2> QED BY <1>1, <1>2, <1>3, <1>5, <2>1, <2>3, <2>4, <2>5, <2>6, QuietStep
<1> QED BY <1>4, <1>5

LEMMA DeliverInv == ASSUME IInv, NEW r \in Requests, Deliver(r) PROVE IInv'
<1> DEFINE a == arg[r]
<1>1. /\ at[r] \in {"replied", "threw"} /\ at' = [at EXCEPT ![r] = "none"]
      /\ arg' = [arg EXCEPT ![r] = None] /\ waiting' = waiting \ {r}
      /\ UNCHANGED <<calls, faults, users, emitted, unannounced, owned>>
  BY DEF Deliver, Answer, Done, Step, Forget
<1>2. a \in Payload /\ CallSound(r)
  BY <1>1 DEF IInv, TypeOK, CallsSound
<1>3. /\ held' \in [Clients -> SUBSET Ids] /\ roles' \in [Clients -> SUBSET Roles] /\ TokensProved'
      /\ \A c \in Clients : held[c] \subseteq held'[c]
  <2>1. /\ Stored' = Stored /\ owned' = owned
        /\ held \in [Clients -> SUBSET Ids] /\ roles \in [Clients -> SUBSET Roles]
    BY <1>1 DEF Stored, IInv, TypeOK
  <2>2. CASE at[r] = "replied" /\ a.op \in GivesTokens
    <3>1. /\ Owns(a.client, a.id) /\ a.id \in Ids /\ a.role \in Roles
          /\ held' = [held EXCEPT ![a.client] = @ \cup {a.id}]
          /\ roles' = [roles EXCEPT ![a.client] = @ \cup {a.role}]
      BY <1>2, <2>2 DEF CallSound, Owns, Stored, Deliver
    <3> HIDE DEF a
    <3>2. \A c \in Clients : held'[c] = IF c = a.client THEN held[c] \cup {a.id} ELSE held[c]
      BY <2>1, <3>1 DEF Owns
    <3>3. held' \in [Clients -> SUBSET Ids] /\ roles' \in [Clients -> SUBSET Roles]
      BY <2>1, <3>1 DEF Owns
    <3>4. TokensProved'
      BY <2>1, <3>1, <3>2 DEF Owns, IInv, TokensProved
    <3> QED BY <3>2, <3>3, <3>4
  <2>3. CASE ~ (at[r] = "replied" /\ a.op \in GivesTokens)
    <3>1. held' = held /\ roles' = roles
      BY <2>3 DEF Deliver
    <3> QED BY <2>1, <3>1 DEF IInv, TokensProved
  <2> QED BY <2>2, <2>3
<1>4. loggedOut' \subseteq Clients \X Ids
  <2>1. a.op = "logout" => a.client \in Clients /\ a.id \in Ids
    BY <1>2 DEF CallSound, IInv, TypeOK
  <2>2. loggedOut' \subseteq loggedOut \cup (IF a.op = "logout" THEN {<<a.client, a.id>>} ELSE {})
    BY DEF Deliver
  <2> HIDE DEF a
  <2> QED BY <2>1, <2>2 DEF IInv, TypeOK
<1>5. /\ at'[r] = "none" /\ arg'[r] = None /\ Stored' = Stored
      /\ \A q \in Requests \ {r} : at'[q] = at[q] /\ arg'[q] = arg[q]
  BY <1>1 DEF IInv, TypeOK, Stored
<1>6. TypeOK'
  <2>1. at' \in [Requests -> Steps] /\ arg' \in [Requests -> Payload \cup {None}] /\ waiting' \subseteq Requests
    BY <1>1 DEF IInv, TypeOK, Steps
  <2>2. \A q \in Requests : at'[q] = "none" <=> arg'[q] = None
    BY <1>5 DEF IInv, TypeOK
  <2> QED BY <1>1, <1>3, <1>4, <2>1, <2>2 DEF IInv, TypeOK
<1>7. OneAccountPerEmail' /\ PasswordsOwned'
  BY <1>1, <1>5 DEF IInv, OneAccountPerEmail, PasswordsOwned
<1>8. EventsExplained'
  <2>1. \A q \in Requests : at[q] = "emitting" => at'[q] = "emitting" /\ arg'[q] = arg[q]
    BY <1>1, <1>5
  <2> QED BY <1>1, <1>5, <2>1 DEF IInv, EventsExplained
<1>9. CallsSound'
  <2> SUFFICES ASSUME NEW q \in Requests, at'[q] # "none" PROVE CallSound(q)'
    BY DEF CallsSound
  <2>1. at'[q] = at[q] /\ arg'[q] = arg[q] /\ CallSound(q)
    BY <1>5 DEF IInv, CallsSound
  <2>2. Owns(arg[q].client, arg[q].id) => Owns(arg[q].client, arg[q].id)'
    BY <1>1, <1>5, <2>1 DEF Owns
  <2>3. arg[q].client \in Clients => held[arg[q].client] \subseteq held'[arg[q].client]
    BY <1>3
  <2> QED BY <2>1, <2>2, <2>3 DEF CallSound
<1>10. EmitOnce'
  BY <1>1, <1>5 DEF IInv, EmitOnce
<1> QED BY <1>3, <1>6, <1>7, <1>8, <1>9, <1>10 DEF IInv

-------------------------------------------------------------------------------

LEMMA NextInv == IInv /\ [Next]_vars => IInv'
<1> SUFFICES ASSUME IInv, [Next]_vars PROVE IInv'
  OBVIOUS
<1>1. CASE UNCHANGED vars
  BY <1>1, GatewayOnly DEF vars, IInv, TypeOK
<1>2. CASE Next
  <2> SUFFICES ASSUME NEW r \in Requests,
                      Ask(r) \/ Deliver(r) \/ Timeout(r) \/ AuthStep(r) \/ UserStep(r) \/ Fail(r)
               PROVE  IInv'
    BY <1>2 DEF Next
  <2>1. CASE AuthStep(r)
    BY <2>1, FindExistingInv, InsertInv, EmitInv, LoginInv, RefreshInv, QuietHandlersInv DEF AuthStep
  <2>2. CASE UserStep(r)
    BY <2>2, QuietHandlersInv, UpdateUserInv, DeleteUserInv DEF UserStep
  <2> QED BY <2>1, <2>2, AskInv, DeliverInv, TimeoutInv, FailInv
<1> QED BY <1>1, <1>2

LEMMA Inductive == Spec => []IInv
<1> QED BY InitInv, NextInv, PTL DEF Spec

\* No step leaves the types: a call in a service has its payload, a token names an
\* account (every handler of auth.service.ts and users.service.ts).
THEOREM TypeCorrect == Spec => []TypeOK
<1>1. IInv => TypeOK
  BY DEF IInv
<1> QED BY <1>1, Inductive, PTL

\* No interleaving of registrations and changes of address, with whatever faults,
\* gives two accounts one address (user.schema.ts's unique index).
THEOREM OneAccountForEachEmail == Spec => []OneAccountPerEmail
<1>1. IInv => OneAccountPerEmail
  BY DEF IInv
<1> QED BY <1>1, Inductive, PTL

\* A client's tokens are of accounts that have or have had its password, whoever
\* registers, edits any field or deletes an account meanwhile (auth.service.ts register,
\* login, refreshToken; users.service.ts update, whose body may name the password).
THEOREM TokensAreProved == Spec => []TokensProved
<1>1. IInv => TokensProved
  BY DEF IInv
<1> QED BY <1>1, Inductive, PTL

\* USER_CREATED events are those of stored accounts, one each but for lost
\* confirms, and none is missing without a fault (auth.service.ts:46-57).
THEOREM EventsAreExplained == Spec => []EventsExplained
<1>1. IInv => EventsExplained
  BY DEF IInv
<1> QED BY <1>1, Inductive, PTL

-------------------------------------------------------------------------------
(* The accounts, tokens and announcements are those of Registry. *)

\* A missed announcement is of an account whose handler is past its emit, so that
\* nobody makes up for it.
MissedForGood ==
  /\ unannounced \subseteq Stored
  /\ \A r \in Requests : at[r] = "emitting" => arg[r].id \notin unannounced

RInv == IInv /\ MissedForGood

\* A step after which no handler is at an emit that was not there before.
LEMMA NoNewEmit ==
  ASSUME RInv, unannounced' = unannounced, Stored \subseteq Stored',
         \A r \in Requests : at'[r] = "emitting" => at[r] = "emitting" /\ arg'[r] = arg[r]
  PROVE  MissedForGood'
<1> QED BY DEF RInv, MissedForGood

\* What the steps of the gateway do to the accounts: nothing, but for a token that is
\* delivered.
LEMMA GatewayEffect ==
  ASSUME RInv, NEW r \in Requests, Ask(r) \/ Deliver(r) \/ Timeout(r)
  PROVE  /\ UNCHANGED <<users, emitted, unannounced, owned>>
         /\ \/ held' = held
            \/ /\ Owns(arg[r].client, arg[r].id)
               /\ held' = [held EXCEPT ![arg[r].client] = @ \cup {arg[r].id}]
         /\ MissedForGood'
<1>1. UNCHANGED <<users, emitted, unannounced, owned>> /\ Stored' = Stored
  BY DEF Ask, Deliver, Timeout, Stored
<1>2. \/ held' = held
      \/ Owns(arg[r].client, arg[r].id) /\ held' = [held EXCEPT ![arg[r].client] = @ \cup {arg[r].id}]
  <2>1. CASE Ask(r) \/ Timeout(r)
    BY <2>1 DEF Ask, Timeout
  <2>2. CASE Deliver(r)
    <3>1. at[r] # "none"
      BY <2>2 DEF Deliver, Answer, Done
    <3>2. CallSound(r)
      BY <3>1 DEF RInv, IInv, CallsSound
    <3> QED BY <2>2, <3>2 DEF Deliver, CallSound
  <2> QED BY <2>1, <2>2
<1>3. /\ \A q \in Requests \ {r} : at'[q] = at[q] /\ arg'[q] = arg[q]
      /\ at'[r] # "emitting" \/ (at'[r] = at[r] /\ arg'[r] = arg[r])
  <2>1. at \in [Requests -> Steps] /\ DOMAIN arg = Requests
    BY DEF RInv, IInv, TypeOK
  <2>2. CASE Ask(r)
    <3>1. /\ arg' = arg \/ \E a : arg' = [arg EXCEPT ![r] = a]
          /\ at' = [at EXCEPT ![r] = "sent"] \/ (at' = at /\ arg' = arg)
      BY <2>2 DEF Ask, Pass, Send, Step, TurnAway
    <3> QED BY <2>1, <3>1
  <2>3. CASE Deliver(r)
    BY <2>1, <2>3 DEF Deliver, Answer, Step, Forget
  <2>4. CASE Timeout(r)
    BY <2>1, <2>4 DEF Timeout, GiveUp, DropReply, Step, Forget
  <2> QED BY <2>2, <2>3, <2>4
<1>4. MissedForGood'
  BY <1>1, <1>3, NoNewEmit
<1> QED BY <1>1, <1>2, <1>4

\* The account of r's call is given what account acc holds, under a free address.
EditsTo(r, acc) ==
  /\ arg[r].id \in Stored /\ acc \in Account /\ IndexAdmits(arg[r].id, acc.email)
  /\ users' = [users EXCEPT ![arg[r].id] = acc]
  /\ owned' = [owned EXCEPT ![arg[r].id] = @ \cup ({acc.password} \cap Clients)]

\* What a handler does to the accounts that is not at its emit and stores none: it
\* edits one, deletion included, or does nothing.
LEMMA HandlerEffect ==
  ASSUME RInv, NEW r \in Requests,
         \/ FindExisting(r) \/ Login(r) \/ RefreshToken(r) \/ Logout(r) \/ ValidateToken(r) \/ UserStep(r)
  PROVE  /\ UNCHANGED <<held, emitted, unannounced>> /\ Stored' = Stored
         /\ UNCHANGED <<users, owned>> \/ \E acc \in Account : EditsTo(r, acc)
         /\ MissedForGood'
<1>1. UNCHANGED <<held, emitted, unannounced>>
  BY DEF FindExisting, Login, RefreshToken, Logout, ValidateToken, UserStep,
         FindById, FindByEmail, ListUsers, UpdateUser, DeleteUser
<1>2. UNCHANGED <<users, owned>> \/ \E acc \in Account : EditsTo(r, acc)
  <2>1. ASSUME UpdateUser(r), users' # users \/ owned' # owned
        PROVE  \E acc \in Account : EditsTo(r, acc)
    <3> DEFINE acc == Edited(users[arg[r].id], arg[r].body)
    <3>1. at[r] = "sent" /\ arg[r].op = "update"
      BY <2>1, HandlerOps DEF UpdateUser, Handler
    <3>2. arg[r].body \in Bodies
      BY <3>1 DEF RInv, IInv, CallsSound, CallSound
    <3>3. /\ arg[r].id \in Stored /\ IndexAdmits(arg[r].id, acc.email)
          /\ users' = [users EXCEPT ![arg[r].id] = acc]
          /\ owned' = [owned EXCEPT ![arg[r].id] = @ \cup ({acc.password} \cap Clients)]
      BY <2>1 DEF UpdateUser
    <3>4. users[arg[r].id] \in Account
      BY <3>3 DEF Stored, RInv, IInv, TypeOK
    <3>5. acc \in Account
      BY <3>2, <3>4, EditedTyped
    <3> HIDE DEF acc
    <3> QED BY <3>3, <3>5 DEF EditsTo
  <2>2. ASSUME DeleteUser(r), users' # users \/ owned' # owned
        PROVE  \E acc \in Account : EditsTo(r, acc)
    <3> DEFINE i == arg[r].id
               acc == [users[i] EXCEPT !.deleted = TRUE]
    <3>1. i \in Stored /\ users' = [users EXCEPT ![i].deleted = TRUE] /\ owned' = owned
      BY <2>2 DEF DeleteUser
    <3>2. users[i] \in Account /\ i \in Ids
      BY <3>1 DEF Stored, RInv, IInv, TypeOK
    <3>3. acc \in Account /\ acc.password = users[i].password /\ acc.email = users[i].email
      BY <3>2 DEF Account
    <3>4. users' = [users EXCEPT ![i] = acc]
      BY <3>1
    <3>5. IndexAdmits(i, acc.email)
      BY <3>1, <3>3 DEF IndexAdmits, RInv, IInv, OneAccountPerEmail
    <3>6. owned[i] \cup ({acc.password} \cap Clients) = owned[i]
      BY <3>1, <3>3 DEF RInv, IInv, PasswordsOwned
    <3>7. owned' = [owned EXCEPT ![i] = @ \cup ({acc.password} \cap Clients)]
      BY <3>1, <3>2, <3>6 DEF RInv, IInv, TypeOK
    <3> HIDE DEF acc
    <3> QED BY <3>1, <3>3, <3>4, <3>5, <3>7 DEF EditsTo
  <2>3. CASE ~UpdateUser(r) /\ ~DeleteUser(r)
    BY <2>3 DEF FindExisting, Login, RefreshToken, Logout, ValidateToken, UserStep,
                FindById, FindByEmail, ListUsers
  <2> QED BY <2>1, <2>2, <2>3
<1>3. Stored' = Stored
  <2>1. CASE UNCHANGED <<users, owned>>
    BY <2>1 DEF Stored
  <2>2. ASSUME NEW acc \in Account, EditsTo(r, acc) PROVE Stored' = Stored
    <3>1. acc # None /\ users \in [Ids -> Account \cup {None}]
      BY NoneAssumption DEF RInv, IInv, TypeOK
    <3> QED BY <2>2, <3>1 DEF EditsTo, Stored
  <2> QED BY <1>2, <2>1, <2>2
<1>4. \A q \in Requests : at'[q] = "emitting" => at[q] = "emitting" /\ arg'[q] = arg[q]
  <2>1. PICK s \in Steps \ {"emitting"} : at' = [at EXCEPT ![r] = s]
    BY DEF FindExisting, Login, RefreshToken, Logout, ValidateToken, UserStep,
           FindById, FindByEmail, ListUsers, UpdateUser, DeleteUser, Step, Steps
  <2>2. \A q \in Requests \ {r} : arg'[q] = arg[q]
    BY DEF FindExisting, Login, RefreshToken, Logout, ValidateToken, UserStep, GenerateTokens,
           FindById, FindByEmail, ListUsers, UpdateUser, DeleteUser, RInv, IInv, TypeOK
  <2> QED BY <2>1, <2>2 DEF RInv, IInv, TypeOK
<1> QED BY <1>1, <1>2, <1>3, <1>4, NoNewEmit

\* register's insert registers the account, whose announcement is due.
LEMMA InsertEffect ==
  ASSUME RInv, NEW r \in Requests, Insert(r)
  PROVE  /\ MissedForGood'
         /\ \/ UNCHANGED <<users, News, held, owned>>
            \/ \E i \in Ids, c \in Clients, e \in Addresses : RegistryOf!Register(i, c, e)
<1> DEFINE i == NewId
<1>1. /\ at[r] = "hashing" /\ arg[r].client \in Clients /\ arg[r].email \in Spellings
      /\ UNCHANGED <<held, emitted, unannounced>>
  BY DEF Insert, RInv, IInv, CallsSound, CallSound
<1>2. i \in Ids /\ i \notin Stored
  BY DEF Insert, NewId, Stored
<1>3. CASE ~IndexAdmits(i, Address(arg[r].email))
  <2>1. UNCHANGED <<users, arg, owned>> /\ at' = [at EXCEPT ![r] = "threw"]
    BY <1>3 DEF Insert, Step
  <2>2. News' = News /\ Stored' = Stored
    BY <1>1, <2>1 DEF News, Stored
  <2>3. \A q \in Requests : at'[q] = "emitting" => at[q] = "emitting" /\ arg'[q] = arg[q]
    BY <2>1 DEF RInv, IInv, TypeOK
  <2> QED BY <1>1, <2>1, <2>2, <2>3, NoNewEmit
<1>4. CASE IndexAdmits(i, Address(arg[r].email))
  <2>1. /\ users' = [users EXCEPT ![i] = NewUser(r)]
        /\ owned' = [owned EXCEPT ![i] = {arg[r].client}]
        /\ arg' = [arg EXCEPT ![r].id = i, ![r].role = "user"] /\ at' = [at EXCEPT ![r] = "emitting"]
    BY <1>4 DEF Insert, AfterInsert, Step, GenerateTokens
  <2> HIDE DEF i
  <2>2. NewUser(r) \in Account /\ Address(arg[r].email) \in Addresses
    BY <1>1 DEF NewUser, Account, Address, Addresses, Roles
  <2>3. users'[i] = NewUser(r) /\ \A j \in Ids \ {i} : users'[j] = users[j]
    BY <1>2, <2>1 DEF RInv, IInv, TypeOK
  <2>4. Stored' = Stored \cup {i}
    BY <1>2, <2>2, <2>3, NoneAssumption DEF Stored
  <2>5. i \notin unannounced /\ emitted[i] = 0
    BY <1>2 DEF RInv, IInv, TypeOK, EventsExplained, MissedForGood
  <2>6. MissedForGood'
    <3> SUFFICES ASSUME NEW q \in Requests, at'[q] = "emitting" PROVE arg'[q].id \notin unannounced
      BY <1>1, <2>4 DEF RInv, MissedForGood
    <3>1. CASE q = r
      <4>1. arg[r] \in Payload
        BY <1>1 DEF RInv, IInv, TypeOK
      <4>2. arg'[r].id = i
        BY <2>1, <4>1 DEF RInv, IInv, TypeOK, Payload
      <4> QED BY <2>5, <3>1, <4>2
    <3>2. CASE q # r
      BY <2>1, <3>2 DEF RInv, IInv, TypeOK, MissedForGood
    <3> QED BY <3>1, <3>2
  <2>7. News' = [News EXCEPT ![i] = "due"]
    <3>1. \A j \in Ids : News'[j] = IF j = i THEN "due" ELSE News[j]
      BY <1>1, <2>4, <2>5 DEF News
    <3> QED BY <3>1 DEF News
  <2>8. RegistryOf!FreeFor(i, Address(arg[r].email)) /\ ~RegistryOf!Open(i)
    BY <1>2, <1>4 DEF RegistryOf!FreeFor, RegistryOf!Open, IndexAdmits, Stored
  <2>9. RegistryOf!Register(i, arg[r].client, Address(arg[r].email))
    BY <1>1, <2>1, <2>7, <2>8 DEF RegistryOf!Register, NewUser
  <2> QED BY <1>1, <1>2, <2>2, <2>6, <2>9
<1> QED BY <1>3, <1>4

\* An emit, or a failure at it, announces the account, or misses that for good; an
\* event sent again changes nothing.
LEMMA AnnounceEffect ==
  ASSUME RInv, NEW r \in Requests, at[r] = "emitting", UNCHANGED <<users, held, owned>>,
         \/ emitted' = [emitted EXCEPT ![arg[r].id] = @ + 1] /\ UNCHANGED unannounced
         \/ unannounced' = unannounced \cup {arg[r].id} /\ UNCHANGED emitted
  PROVE  UNCHANGED <<users, News, held, owned>> \/ \E i \in Ids : RegistryOf!Announce(i)
<1> DEFINE i == arg[r].id
<1>1. i \in Ids /\ i \in Stored /\ emitted[i] \in Nat /\ i \notin unannounced /\ Stored' = Stored
  BY AtEmit DEF RInv, MissedForGood, Stored
<1>2. /\ \A j \in Ids \ {i} : emitted'[j] = emitted[j] /\ (j \in unannounced' <=> j \in unannounced)
      /\ \/ emitted'[i] > 0
         \/ emitted'[i] = emitted[i] /\ i \in unannounced'
  BY <1>1 DEF RInv, IInv, TypeOK
<1> HIDE DEF i
<1>3. \A j \in Ids \ {i} : News'[j] = News[j]
  BY <1>1, <1>2 DEF News
<1>4. CASE emitted[i] > 0
  <2>1. emitted'[i] > 0
    BY <1>2, <1>4
  <2>2. News'[i] = News[i]
    BY <1>1, <1>4, <2>1 DEF News
  <2>3. News' = News
    BY <1>3, <2>2 DEF News
  <2> QED BY <2>3
<1>5. CASE ~ (emitted[i] > 0)
  <2>1. News[i] = "due"
    BY <1>1, <1>5 DEF News
  <2>2. PICK m \in {"told", "missed"} : News'[i] = m
    <3>1. CASE emitted'[i] > 0
      BY <1>1, <3>1 DEF News
    <3>2. CASE ~ (emitted'[i] > 0) /\ emitted'[i] = emitted[i] /\ i \in unannounced'
      <4>1. emitted'[i] = 0
        BY <1>1, <1>5, <3>2
      <4> QED BY <1>1, <3>2, <4>1 DEF News
    <3> QED BY <1>2, <3>1, <3>2
  <2>3. News' = [News EXCEPT ![i] = m]
    BY <1>3, <2>2 DEF News
  <2>4. RegistryOf!Announce(i)
    BY <2>1, <2>3 DEF RegistryOf!Announce
  <2> QED BY <1>1, <2>4
<1> QED BY <1>4, <1>5

LEMMA EmitFailEffect ==
  ASSUME RInv, NEW r \in Requests, Emit(r) \/ Fail(r)
  PROVE  /\ MissedForGood'
         /\ UNCHANGED <<users, News, held, owned>> \/ \E i \in Ids : RegistryOf!Announce(i)
<1>1. UNCHANGED <<users, held, owned>> /\ Stored' = Stored
  BY DEF Emit, Fail, Stored
<1>2. /\ \A q \in Requests \ {r} : at'[q] = at[q] /\ arg'[q] = arg[q]
      /\ at'[r] = "emitting" => at[r] = "emitting" /\ arg'[r] = arg[r]
  BY DEF Emit, Fail, LoseCall, QueryFails, OnError, Step, Forget, RInv, IInv, TypeOK
<1>3. CASE at[r] = "emitting"
  <2>1. \/ emitted' = [emitted EXCEPT ![arg[r].id] = @ + 1] /\ UNCHANGED unannounced
        \/ /\ unannounced' = unannounced \cup {arg[r].id} /\ UNCHANGED emitted
           /\ at'[r] # "emitting"
    BY <1>3 DEF Emit, Fail, LoseCall, QueryFails, OnError, Step, RInv, IInv, TypeOK
  <2>2. MissedForGood'
    <3>1. CASE UNCHANGED unannounced
      BY <1>1, <1>2, <3>1, NoNewEmit
    <3>2. CASE unannounced' = unannounced \cup {arg[r].id} /\ at'[r] # "emitting"
      <4>1. \A q \in Requests \ {r} : at[q] = "emitting" => arg[q].id # arg[r].id
        BY <1>3 DEF RInv, IInv, EmitOnce
      <4>2. arg[r].id \in Stored
        BY <1>3, AtEmit DEF RInv
      <4> QED BY <1>1, <1>2, <3>2, <4>1, <4>2 DEF RInv, MissedForGood
    <3> QED BY <2>1, <3>1, <3>2
  <2> QED BY <1>1, <1>3, <2>1, <2>2, AnnounceEffect
<1>4. CASE at[r] # "emitting"
  <2>1. UNCHANGED <<emitted, unannounced>>
    BY <1>4 DEF Emit, Fail
  <2>2. News' = News
    BY <1>1, <2>1 DEF News
  <2> QED BY <1>1, <1>2, <1>4, <2>1, <2>2, NoNewEmit
<1> QED BY <1>3, <1>4

\* What a handler does to an account is a step of Registry.
LEMMA HandlerStep ==
  ASSUME RInv, NEW r \in Requests, UNCHANGED <<held, emitted, unannounced>>, Stored' = Stored,
         UNCHANGED <<users, owned>> \/ \E acc \in Account : EditsTo(r, acc)
  PROVE  RegistryOf!Next \/ UNCHANGED <<users, News, held, owned>>
<1>1. News' = News
  BY DEF News
<1>2. ASSUME NEW acc \in Account, EditsTo(r, acc) PROVE RegistryOf!Next
  <2>1. arg[r].id \in Ids
    BY <1>2 DEF EditsTo, Stored
  <2>2. RegistryOf!FreeFor(arg[r].id, acc.email) /\ RegistryOf!Open(arg[r].id)
    BY <1>2 DEF EditsTo, RegistryOf!FreeFor, RegistryOf!Open, IndexAdmits, Stored
  <2>3. RegistryOf!Edit(arg[r].id, acc)
    BY <1>1, <1>2, <2>2 DEF RegistryOf!Edit, EditsTo
  <2>4. acc \in RegistryOf!Account
    BY DEF Account, RegistryOf!Account
  <2> QED BY <2>1, <2>3, <2>4 DEF RegistryOf!Next
<1> QED BY <1>1, <1>2

\* A delivered token is a grant.
LEMMA DeliverStep ==
  ASSUME RInv, NEW r \in Requests, UNCHANGED <<users, emitted, unannounced, owned>>,
         \/ held' = held
         \/ /\ Owns(arg[r].client, arg[r].id)
            /\ held' = [held EXCEPT ![arg[r].client] = @ \cup {arg[r].id}]
  PROVE  RegistryOf!Next \/ UNCHANGED <<users, News, held, owned>>
<1>1. News' = News
  BY DEF News, Stored
<1>2. CASE /\ Owns(arg[r].client, arg[r].id)
           /\ held' = [held EXCEPT ![arg[r].client] = @ \cup {arg[r].id}]
  <2>1. arg[r].id \in Ids /\ arg[r].client \in Clients
    BY <1>2 DEF Owns, Stored
  <2>2. RegistryOf!Grant(arg[r].id, arg[r].client)
    BY <1>1, <1>2 DEF RegistryOf!Grant, RegistryOf!Open, Owns, Stored
  <2> QED BY <2>1, <2>2 DEF RegistryOf!Next
<1> QED BY <1>1, <1>2

LEMMA RegistryStep ==
  RInv /\ [Next]_vars => [RegistryOf!Next]_<<users, News, held, owned>> /\ MissedForGood'
<1> SUFFICES ASSUME RInv, [Next]_vars
             PROVE  (RegistryOf!Next \/ UNCHANGED <<users, News, held, owned>>) /\ MissedForGood'
  OBVIOUS
<1>1. CASE UNCHANGED vars
  <2>1. News' = News /\ Stored' = Stored
    BY <1>1 DEF vars, News, Stored
  <2>2. MissedForGood'
    BY <1>1, <2>1 DEF vars, RInv, MissedForGood
  <2> QED BY <1>1, <2>1, <2>2 DEF vars
<1>2. CASE Next
  <2> SUFFICES ASSUME NEW r \in Requests,
                      Ask(r) \/ Deliver(r) \/ Timeout(r) \/ AuthStep(r) \/ UserStep(r) \/ Fail(r)
               PROVE  (RegistryOf!Next \/ UNCHANGED <<users, News, held, owned>>) /\ MissedForGood'
    BY <1>2 DEF Next
  <2>1. CASE Ask(r) \/ Deliver(r) \/ Timeout(r)
    BY <2>1, GatewayEffect, DeliverStep
  <2>2. CASE Emit(r) \/ Fail(r)
    BY <2>2, EmitFailEffect DEF RegistryOf!Next
  <2>3. CASE Insert(r)
    BY <2>3, InsertEffect DEF RegistryOf!Next
  <2>4. CASE \/ FindExisting(r) \/ Login(r) \/ RefreshToken(r) \/ Logout(r) \/ ValidateToken(r)
             \/ UserStep(r)
    BY <2>4, HandlerEffect, HandlerStep
  <2> QED BY <2>1, <2>2, <2>3, <2>4 DEF AuthStep
<1> QED BY <1>1, <1>2

\* Whatever overlaps, times out or fails, each step is one of Registry or none: an
\* account is edited only under an address of its own, tokens go to who has or has had
\* its password, no account goes away, and an announcement that was made or missed stays
\* so (auth.service.ts register, login, refreshToken; users.service.ts update, delete).
THEOREM RegistryIsKept == Spec => KeepsRegistry
<1>1. Init => RegistryOf!Init /\ MissedForGood
  BY DEF Init, CallsInit, RegistryOf!Init, News, Stored, MissedForGood
<1>2. RInv /\ [Next]_vars => MissedForGood'
  BY RegistryStep
<1>3. RInv /\ [Next]_vars => [RegistryOf!Next]_<<users, News, held, owned>>
  BY RegistryStep
<1>4. Spec => []RInv
  BY <1>1, <1>2, Inductive, PTL DEF Spec, RInv
<1>5. RegistryOf!registry = <<users, News, held, owned>>
  BY DEF RegistryOf!registry
<1> QED BY <1>1, <1>3, <1>4, <1>5, PTL DEF Spec, KeepsRegistry, RegistryOf!Spec, RegistryOf!registry

===============================================================================
