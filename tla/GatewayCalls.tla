----------------------------- MODULE GatewayCalls -----------------------------
(***************************************************************************)
(* The request/reply calls of the api-gateway.  Every method of its auth,  *)
(* users, todos and books services has one shape: send a pattern and a     *)
(* payload over TCP, wait at most five seconds, turn an error into an      *)
(* HttpException.  waiting holds the requests whose client has no answer   *)
(* yet; at[r] is how far the called service is with request r, and         *)
(* outlives the gateway's patience: a call it gave up on is carried out    *)
(* all the same.                                                           *)
(***************************************************************************)
EXTENDS Naturals

CONSTANTS
  Requests,     \* requests that may be under way at the same time
  MaxCalls,     \* bound on the calls clients make in all
  MaxFaults     \* bound on failing instances, connections and database calls

ASSUME CallsAssumption == MaxCalls \in Nat /\ MaxFaults \in Nat

VARIABLES waiting, at, calls, faults

callVars == <<waiting, at, calls, faults>>

CallsInit == /\ waiting = {}
             /\ at = [r \in Requests |-> "none"]
             /\ calls = 0 /\ faults = 0

\* Which handler of a controller each gateway method reaches, through the pattern
\* both name.
Routes(gateway, controller) ==
  {<<gc[1][1], gc[2][2]>> : gc \in {gc \in gateway \X controller : gc[1][2] = gc[2][1]}}

Fault == faults < MaxFaults /\ faults' = faults + 1

Step(r, s) == at' = [at EXCEPT ![r] = s]

\* A client calls: the guards pass it on to the service or turn it away.
Free(r) == r \notin waiting /\ at[r] = "none" /\ calls < MaxCalls
Send(r) == /\ calls' = calls + 1 /\ waiting' = waiting \cup {r}
           /\ Step(r, "sent") /\ UNCHANGED faults
TurnAway == calls' = calls + 1 /\ UNCHANGED <<waiting, at, faults>>

\* The reply arrives in time: what the handler returned, or, if it threw, an error
\* status.  Any exception of a service arrives with the status 'error', for that
\* is what Nest answers without an RPC exception filter.
Done(r) == at[r] \in {"replied", "threw"}
Answer(r) == /\ r \in waiting /\ Done(r)
             /\ waiting' = waiting \ {r}
             /\ Step(r, "none")
             /\ UNCHANGED <<calls, faults>>

\* timeout(5000) fires, or the connection is lost: 500.  The service is not told.
GiveUp_Never(r) == r \in waiting /\ FALSE /\ UNCHANGED callVars
GiveUp(r) == /\ r \in waiting
             /\ waiting' = waiting \ {r}
             /\ UNCHANGED <<at, calls, faults>>

\* A reply nobody waits for any more is dropped.
DropReply(r) == /\ r \notin waiting /\ Done(r)
                /\ Step(r, "none")
                /\ UNCHANGED <<waiting, calls, faults>>

\* The service instance dies with the call, or its connection does.
LoseCall(r) == /\ at[r] # "none"
               /\ Fault /\ Step(r, "none")
               /\ UNCHANGED <<waiting, calls>>

\* A database call of a handler fails, or its answer is lost: the handler throws,
\* for none catches the error or tries again.
OnError_Retry == "sent"
OnError == "threw"
QueryFails(r) == Fault /\ Step(r, OnError) /\ UNCHANGED <<waiting, calls>>

\* libs/common's RolesGuard: no role required, or the token's role is listed.
RoleAllows(role, required) == required = {} \/ role \in required

-------------------------------------------------------------------------------
\* Every request the gateway passes on is answered, whatever becomes of the
\* service that works on it (timeout(5000) in every method of its services).
EveryCallEnds == \A r \in Requests : r \in waiting ~> r \notin waiting

===============================================================================
