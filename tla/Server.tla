------------------------------- MODULE Server -------------------------------
(***************************************************************************)
(* What every handler of logproj runs on: the worker threads of the HTTP   *)
(* server, the request each is serving, the user table in Postgres, and    *)
(* the access_token cookie each client holds.  A worker runs one handler   *)
(* at a time; a step of a handler is one call that reads or writes shared  *)
(* state (a statement on its own connection, which commits by itself, or   *)
(* the signing of a token), with the local code up to the next such call.  *)
(***************************************************************************)
EXTENDS Buffers

CONSTANTS
  Worker,       \* the server's threads
  Client,       \* browsers and API callers, each with a cookie jar
  Email,        \* e-mail addresses, as texts
  Password,
  UserId,       \* uuids of user rows; bounds the size of the table
  EmailLength,  \* the length of each address, in bytes
  Clip,         \* the text of an address's first EMAIL_CHAR_SIZE bytes
  Name,         \* names of projects
  ProjectId,    \* uuids of project rows; bounds the size of the table
  FaultyCalls,  \* the calls that may fail, see Call
  MaxFaults,    \* bound: how many calls may fail in a behaviour
  NoRow, NoToken, NoRequest, NoName, NoProject

Call == {"lookup", "exists", "insert", "pwhash", "sign",
         "create", "list", "show", "keys"}

ASSUME EmailAssumption ==
  /\ EmailLength \in [Email -> Nat]
  /\ Clip \in [Email -> Email]
  /\ \A e \in Email :
       /\ EmailLength[e] <= EMAIL_CHAR_SIZE => Clip[e] = e
       /\ EmailLength[e] > EMAIL_CHAR_SIZE => EmailLength[Clip[e]] = EMAIL_CHAR_SIZE

ASSUME FaultAssumption == FaultyCalls \subseteq Call /\ MaxFaults \in Nat

ASSUME NullAssumption == NoRow \notin UserId

VARIABLES
  users,    \* rows of logproj.user
  pc,       \* the call each worker makes next; "idle" between requests
  req,      \* the request each worker is serving
  row,      \* the row a worker is about to sign a token for
  jar,      \* the access_token each client holds
  reply,    \* the last answer the server gave, and the request it answers
  faults    \* calls that have failed so far

vars == <<users, pc, req, row, jar, reply, faults>>

-----------------------------------------------------------------------------
(* Values.  A password hash is known by the passwords it accepts.          *)

HashOf(p) == <<"scrypt", p>>
Accepts(hash, p) == hash = HashOf(p)

UserRow == [id : UserId, email : Email, password : {HashOf(p) : p \in Password}]

\* A token also remembers, for the properties only, the row it was signed for.
Token == [sub : Email, row : UserId, intact : BOOLEAN]

SignOps == {"api_register", "api_login", "form_signup", "form_login"}
ReadOps == {"form_junk", "whoami", "index"}
CreateOps == {"api_new_project", "form_new_project"}
ViewOps == {"dashboard", "project", "project_keys"}
PlainOps == {"junk_project", "new_project", "unrouted"}

Cookie == Token \cup {NoToken}

SignRequest ==
  [op : SignOps, client : Client, email : Email, pw : Password, token : Cookie]
ReadRequest == [op : ReadOps \cup PlainOps, client : Client, token : Cookie]
CreateRequest ==
  [op : CreateOps, client : Client, name : Name \cup {NoName}, token : Cookie]
ViewRequest ==
  [op : ViewOps, client : Client, project : ProjectId \cup {NoProject},
   token : Cookie]

Request == SignRequest \cup ReadRequest \cup CreateRequest \cup ViewRequest

Tag == {"none", "invalid", "taken", "failed", "nouser", "badpw", "welcome",
        "home", "loginpage", "user", "anonymous", "bye",
        "unauthorized", "created", "page", "notfound"}

Reply == [tag : Tag, req : Request \cup {NoRequest}, row : UserId \cup {NoRow}]

SignSteps == {"exists", "insert", "pwhash", "sign"}

PC == {"idle", "lookup", "create", "list", "show", "keys"} \cup SignSteps

TypeOK ==
  /\ users \subseteq UserRow
  /\ pc \in [Worker -> PC]
  /\ req \in [Worker -> Request \cup {NoRequest}]
  /\ row \in [Worker -> UserId \cup {NoRow}]
  /\ jar \in [Client -> Cookie]
  /\ reply \in Reply
  /\ faults \in 0..MaxFaults

Init ==
  /\ users = {}
  /\ pc = [w \in Worker |-> "idle"]
  /\ req = [w \in Worker |-> NoRequest]
  /\ row = [w \in Worker |-> NoRow]
  /\ jar = [c \in Client |-> NoToken]
  /\ reply = [tag |-> "none", req |-> NoRequest, row |-> NoRow]
  /\ faults = 0

-----------------------------------------------------------------------------
(* The frame of every handler. *)

\* A worker takes a request off the socket and runs its handler up to `at`.
Begin(w, r, at) ==
  /\ pc[w] = "idle"
  /\ pc' = [pc EXCEPT ![w] = at]
  /\ req' = [req EXCEPT ![w] = r]
  /\ UNCHANGED <<users, row, jar, reply, faults>>

\* The handler returns: the client gets its answer, the worker is free.
Answer(w, tag, who) ==
  /\ pc' = [pc EXCEPT ![w] = "idle"]
  /\ req' = [req EXCEPT ![w] = NoRequest]
  /\ row' = [row EXCEPT ![w] = NoRow]
  /\ reply' = [tag |-> tag, req |-> req[w], row |-> who]

\* The handler goes on to its next call.
Goto(w, at) ==
  /\ pc' = [pc EXCEPT ![w] = at]
  /\ UNCHANGED <<req, row, jar, reply>>

\* This call fails: no connection, a failed statement, an unreadable key file.
Fault(call) ==
  /\ call \in FaultyCalls
  /\ faults < MaxFaults
  /\ faults' = faults + 1

Works == UNCHANGED faults

-----------------------------------------------------------------------------
(* Reading the client's identity and the users table. *)

RowsOf(addr) == {u \in users : u.email = addr}

\* The rows _lp_get_user_from_request may return for a cookie: the statement
\* has no ORDER BY, and the first row of its result is taken.
Identities(token) ==
  IF token = NoToken THEN {}
  ELSE IF token.intact THEN {u.id : u \in RowsOf(token.sub)} ELSE {}

\* Either some row is found, or none is, because none is there or because
\* the key or the database could not be read.
CurrentUser(token, who) ==
  \/ who \in Identities(token) /\ Works
  \/ who = NoRow /\ Identities(token) = {} /\ Works
  \/ who = NoRow /\ token # NoToken /\ Fault("lookup")

\* The handlers of /api copy the address into an array of EMAIL_CHAR_SIZE
\* bytes with strncpy, which leaves a longer one unterminated: what is then
\* read back is the clipped address followed by whatever is next in memory.
Reads(r) ==
  IF r.op \in {"api_register", "api_login"}
       /\ EmailLength[r.email] >= EMAIL_CHAR_SIZE
  THEN {e \in Email : Clip[e] = Clip[r.email]}
  ELSE {r.email}

-----------------------------------------------------------------------------
\* SIGTERM, SIGINT or a crash ends the process in the middle of its handlers;
\* the supervisor starts it again.  Rows and cookies outlive it.
Restart ==
  /\ \E w \in Worker : pc[w] # "idle"
  /\ pc' = [w \in Worker |-> "idle"]
  /\ req' = [w \in Worker |-> NoRequest]
  /\ row' = [w \in Worker |-> NoRow]
  /\ UNCHANGED <<users, jar, reply, faults>>
=============================================================================
