--------------------------- MODULE AccountService ---------------------------
(***************************************************************************)
(* What the account handlers promise a client: an address is registered at *)
(* most once, with one password, for good; a client is signed in only as a *)
(* registered address, by giving that address's password.  Each operation  *)
(* happens at one instant.                                                 *)
(***************************************************************************)
CONSTANTS Client, Email, Password, Nobody

VARIABLES
  accounts,   \* the password of each registered address
  session     \* the address each client is signed in as, or Nobody

svars == <<accounts, session>>

Registered == DOMAIN accounts

ServiceTypeOK ==
  /\ Registered \subseteq Email
  /\ accounts \in [Registered -> Password]
  /\ session \in [Client -> Email \cup {Nobody}]

ServiceInit ==
  /\ accounts = [e \in {} |-> Nobody]
  /\ session = [c \in Client |-> Nobody]

Register(e, p) ==
  /\ e \notin Registered
  /\ accounts' = [f \in Registered \cup {e} |-> IF f = e THEN p ELSE accounts[f]]
  /\ UNCHANGED session

SignIn(c, e, p) ==
  /\ e \in Registered
  /\ accounts[e] = p
  /\ session' = [session EXCEPT ![c] = e]
  /\ UNCHANGED accounts

\* On request, or because the cookie of a sign-in did not fit its buffer.
SignOut(c) ==
  /\ session' = [session EXCEPT ![c] = Nobody]
  /\ UNCHANGED accounts

ServiceNext ==
  \/ \E e \in Email, p \in Password : Register(e, p)
  \/ \E c \in Client, e \in Email, p \in Password : SignIn(c, e, p)
  \/ \E c \in Client : SignOut(c)

ServiceSpec == ServiceInit /\ [][ServiceNext]_svars
=============================================================================
