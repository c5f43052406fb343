-------------------------------- MODULE Registry --------------------------------
(***************************************************************************)
(* What the auth-service and the user-service promise together, with every *)
(* request one atomic step: an address has one account; an account's       *)
(* registration is announced, or missed for good; its fields are whatever  *)
(* its last edit made them, for an edit may name each of them; and tokens  *)
(* go to those whose password the account has, or has had.                 *)
(***************************************************************************)
CONSTANTS Clients, Ids, Addresses, Roles, None

VARIABLES
  accounts,     \* the account of each id, or None
  news,         \* news[i]: how far the announcement of account i is
  tokens,       \* tokens[c]: the accounts client c has been given tokens of
  keys          \* keys[i]: the clients whose password account i has had

registry == <<accounts, news, tokens, keys>>

Account == [email : Addresses, password : Clients \cup {None}, role : Roles, deleted : BOOLEAN]

Open(i) == accounts[i] # None
FreeFor(i, e) == \A j \in Ids \ {i} : Open(j) => accounts[j].email # e

Register(i, c, e) ==
  /\ ~Open(i) /\ FreeFor(i, e)
  /\ accounts' = [accounts EXCEPT ![i] = [email |-> e, password |-> c,
                                          role |-> "user", deleted |-> FALSE]]
  /\ keys' = [keys EXCEPT ![i] = {c}]
  /\ news' = [news EXCEPT ![i] = "due"]
  /\ UNCHANGED tokens

Announce(i) ==
  /\ news[i] = "due"
  /\ \E n \in {"told", "missed"} : news' = [news EXCEPT ![i] = n]
  /\ UNCHANGED <<accounts, tokens, keys>>

Edit(i, account) ==
  /\ Open(i) /\ FreeFor(i, account.email)
  /\ accounts' = [accounts EXCEPT ![i] = account]
  /\ keys' = [keys EXCEPT ![i] = @ \cup ({account.password} \cap Clients)]
  /\ UNCHANGED <<news, tokens>>

Grant(i, c) ==
  /\ Open(i) /\ c \in keys[i]
  /\ tokens' = [tokens EXCEPT ![c] = @ \cup {i}]
  /\ UNCHANGED <<accounts, news, keys>>

Init == /\ accounts = [i \in Ids |-> None]
        /\ news = [i \in Ids |-> "none"]
        /\ tokens = [c \in Clients |-> {}]
        /\ keys = [i \in Ids |-> {}]

Next ==
  \E i \in Ids :
    \/ \E c \in Clients, e \in Addresses : Register(i, c, e)
    \/ Announce(i)
    \/ \E account \in Account : Edit(i, account)
    \/ \E c \in Clients : Grant(i, c)

Spec == Init /\ [][Next]_registry
===============================================================================
