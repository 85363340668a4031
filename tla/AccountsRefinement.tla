-------------------------- MODULE AccountsRefinement --------------------------
(***************************************************************************)
(* With one thread, addresses shorter than their array and a database that *)
(* answers user_exists, the handlers of Accounts implement AccountService, *)
(* however often other calls fail or the process is restarted.             *)
(***************************************************************************)
EXTENDS Accounts

\* The account of an address is its row, a password what the row accepts.
AccountsOf(rows) ==
  [e \in {u.email : u \in rows} |->
     CHOOSE p \in Password : \E u \in rows : u.email = e /\ Accepts(u.password, p)]

\* A client is signed in as the address in its cookie while that decodes.
SessionOf(token) ==
  IF token = NoToken THEN NoToken
  ELSE IF token.intact THEN token.sub ELSE NoToken

Service ==
  INSTANCE AccountService
    WITH accounts <- AccountsOf(users),
         session <- [c \in Client |-> SessionOf(jar[c])],
         Nobody <- NoToken

\* Every step of a handler is one operation of the service or none: the check,
\* the hash, the insert and the signing appear to happen at once.  (SignIn's
\* password is not in the service's state and so left open here: that it is the
\* one the request gave is AckedIsStored.)
ImplementsService == Service!ServiceSpec
===============================================================================
