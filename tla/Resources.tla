------------------------------ MODULE Resources ------------------------------
(***************************************************************************)
(* What a handler holds while it runs: the connection and the result of    *)
(* the database function it is in (db.c), a result such a function has     *)
(* handed over to it, the object of the logged-in user, and the template   *)
(* context of the page it makes.  Every thread allocates from the memory   *)
(* of one process and opens sessions at one database, which may go down,   *)
(* fall silent, or come back at any time.  The requests and tables         *)
(* themselves are those of Accounts and Projects; what a handler allocates *)
(* for its JSON, its form values and its token is left out.                *)
(***************************************************************************)
EXTENDS Naturals, FiniteSets

CONSTANTS
  Worker,   \* the server's threads
  Op,       \* the handlers that are called
  Object,   \* the process's memory: what can be allocated at a time
  None      \* the NULL pointer

VARIABLES
  db,     \* the database: "up", "down" or "hung"
  op,     \* the handler each worker runs, or "none"
  call,   \* the function of db.c it is in, or "none"
  at,     \* how far that function has got, see Position
  conn,   \* the function's PGconn
  res,    \* the PGresult of the function, then of the handler it returned to
  user,   \* the handler's current_user
  ctext,  \* the handler's template context, with the contexts added to it
  heap    \* what each object holds, or "free"

vars == <<db, op, call, at, conn, res, user, ctext, heap>>

-----------------------------------------------------------------------------
(* The handlers, by the calls they make. *)

FormOps == {"form_signup", "form_login", "form_junk"}
ApiOps == {"api_register", "api_login"}
OpenOps == {"whoami", "index", "unrouted"}
CreateOps == {"api_new_project", "form_new_project"}
JunkOps == {"api_junk_project", "form_junk_project"}
ClosedOps == CreateOps \cup JunkOps \cup
  {"new_project", "dashboard", "project", "project_keys"}

Ops == FormOps \cup ApiOps \cup OpenOps \cup ClosedOps

ASSUME ResourcesAssumption ==
  /\ IsFiniteSet(Worker)
  /\ Op \subseteq Ops
  /\ None \notin Object

Fn == {"lookup", "exists", "set_user", "pwhash", "create", "list", "show", "keys"}

\* The functions that return their result for the caller to clear.
Handing == {"list", "show", "keys"}

First(o) ==
  CASE o = "api_register" -> "exists"
    [] o = "api_login" -> "pwhash"
    [] OTHER -> "lookup"

\* The functions a handler may call once f has returned, success or not; "none"
\* is its return.  (libscrypt_hash, before set_user, may fail.)
After(o, f, success) ==
  CASE f = "lookup" /\ o = "form_signup" /\ ~success -> {"exists"}
    [] f = "lookup" /\ o = "form_login" /\ ~success -> {"pwhash"}
    [] f = "lookup" /\ o = "dashboard" /\ success -> {"list"}
    [] f = "lookup" /\ o \in {"project", "project_keys"} /\ success -> {"show"}
    [] f = "lookup" /\ o \in CreateOps /\ success -> {"create"}
    [] f = "exists" /\ ~success -> {"set_user", "none"}
    [] f = "show" /\ o = "project_keys" /\ success -> {"keys"}
    [] OTHER -> {"none"}

\* Mutant: the keys page, with its many returns, forgets the user.
FreesUserLess == FormOps \cup {"whoami", "dashboard", "project"}

\* The handlers that free their user before they return.
FreesUser == FormOps \cup {"whoami", "dashboard", "project", "project_keys"}

\* The C function of a handler, by which its template context is known.
Page(o) ==
  CASE o \in FormOps -> "lp_post_index_handler"
    [] o = "index" -> "lp_index_handler"
    [] o = "unrouted" -> "lp_404_page"
    [] o = "dashboard" -> "lp_app_main"
    [] o = "new_project" -> "lp_app_new_project"
    [] o = "project" -> "lp_app_project"
    [] o = "project_keys" -> "lp_app_project_keys"
    [] OTHER -> "lp_app_post_new_project"

Pages == {Page(o) : o \in Ops}

-----------------------------------------------------------------------------
(* Memory.  An object is a connection, open ("session") or failed; a result,*)
(* known by the function that made it; a user, by the handler it is for; or *)
(* a template context, by the C function that made it.                      *)

Block == {"free", "session", "failed"} \cup Fn \cup Ops \cup Pages

Unused == {x \in Object : heap[x] = "free"}

Without(freed) == [x \in Object |-> IF x \in freed THEN "free" ELSE heap[x]]

\* The object malloc finds; which it is makes no difference.
Fresh == CHOOSE x \in Object : heap[x] = "free"

Holds(w) == {conn[w], res[w], user[w], ctext[w]} \ {None}
Held == UNION {Holds(w) : w \in Worker}

Position == {"idle", "connect", "exec", "good", "bad", "yes", "no"}

TypeOK ==
  /\ db \in {"up", "down", "hung"}
  /\ op \in [Worker -> Op \cup {"none"}]
  /\ call \in [Worker -> Fn \cup {"none"}]
  /\ at \in [Worker -> Position]
  /\ conn \in [Worker -> Object \cup {None}]
  /\ res \in [Worker -> Object \cup {None}]
  /\ user \in [Worker -> Object \cup {None}]
  /\ ctext \in [Worker -> Object \cup {None}]
  /\ heap \in [Object -> Block]

Init ==
  /\ db = "up"
  /\ op = [w \in Worker |-> "none"]
  /\ call = [w \in Worker |-> "none"]
  /\ at = [w \in Worker |-> "idle"]
  /\ conn = [w \in Worker |-> None]
  /\ res = [w \in Worker |-> None]
  /\ user = [w \in Worker |-> None]
  /\ ctext = [w \in Worker |-> None]
  /\ heap = [x \in Object |-> "free"]

Goes(w, position) == at' = [at EXCEPT ![w] = position]

\* The process ends and is started again; its memory is gone, and with it its
\* sessions at the database.
Reset ==
  /\ op' = [w \in Worker |-> "none"]
  /\ call' = [w \in Worker |-> "none"]
  /\ at' = [w \in Worker |-> "idle"]
  /\ conn' = [w \in Worker |-> None]
  /\ res' = [w \in Worker |-> None]
  /\ user' = [w \in Worker |-> None]
  /\ ctext' = [w \in Worker |-> None]
  /\ heap' = [x \in Object |-> "free"]
  /\ UNCHANGED db

-----------------------------------------------------------------------------
(* The template context. *)

\* The handlers that make their page once they know the user.
PageOps == {"dashboard", "new_project", "form_new_project", "form_junk_project",
            "project", "project_keys"}

\* The handler comes to its gshkl_init_context: before it looks the user up, or
\* once it has found none, or one.
NeedsContext(w) ==
  /\ ctext[w] = None /\ call[w] = "lookup"
  /\ \/ at[w] = "connect" /\ op[w] = "unrouted"
     \/ at[w] = "no" /\ op[w] \in FormOps \cup {"index"}
     \/ at[w] = "yes" /\ op[w] \in PageOps

\* gshkl_init_context; without memory for a context the process dies.
InitContext(w) ==
  /\ NeedsContext(w)
  /\ \/ /\ Unused # {}
        /\ heap' = [heap EXCEPT ![Fresh] = Page(op[w])]
        /\ ctext' = [ctext EXCEPT ![w] = Fresh]
        /\ UNCHANGED <<db, op, call, at, conn, res, user>>
     \/ Unused = {} /\ Reset

-----------------------------------------------------------------------------
(* A function of db.c. *)

\* Mutant: a connection that fails is tried again.
ConnectRetries(w) ==
  /\ at[w] = "connect" /\ db = "up" /\ ~NeedsContext(w)
  /\ \/ Unused = {} /\ Goes(w, "no") /\ UNCHANGED <<conn, heap>>
     \/ /\ Unused # {}
        /\ heap' = [heap EXCEPT ![Fresh] = "session"]
        /\ conn' = [conn EXCEPT ![w] = Fresh]
        /\ Goes(w, "exec")
  /\ UNCHANGED <<db, op, call, res, user, ctext>>

\* _get_pg_connection.  PQconnectdb makes an object whether or not it connects;
\* of one that did not, the only pointer is dropped.  Without memory it makes
\* none.  While the database is silent the call does not return.
Connect(w) ==
  /\ at[w] = "connect" /\ db # "hung" /\ ~NeedsContext(w)
  /\ \/ Unused = {} /\ Goes(w, "no") /\ UNCHANGED <<conn, heap>>
     \/ /\ db = "up" /\ Unused # {}
        /\ heap' = [heap EXCEPT ![Fresh] = "session"]
        /\ conn' = [conn EXCEPT ![w] = Fresh]
        /\ Goes(w, "exec")
     \/ /\ db = "down" /\ Unused # {}
        /\ heap' = [heap EXCEPT ![Fresh] = "failed"]
        /\ Goes(w, "no")
        /\ UNCHANGED conn
  /\ UNCHANGED <<db, op, call, res, user, ctext>>

\* The cookie is missing or does not decode: no statement is made.
Anonymous(w) ==
  /\ at[w] = "connect" /\ call[w] = "lookup" /\ ~NeedsContext(w)
  /\ Goes(w, "no")
  /\ UNCHANGED <<db, op, call, conn, res, user, ctext, heap>>

\* PQexecParams: rows, a result that tells of an error, or no result at all.
Execute(w) ==
  /\ at[w] = "exec" /\ db # "hung"
  /\ \/ /\ Unused # {}
        /\ heap' = [heap EXCEPT ![Fresh] = call[w]]
        /\ res' = [res EXCEPT ![w] = Fresh]
        /\ (db = "up" /\ Goes(w, "good")) \/ Goes(w, "bad")
     \/ /\ Unused = {} \/ db = "down"
        /\ Goes(w, "bad")
        /\ UNCHANGED <<res, heap>>
  /\ UNCHANGED <<db, op, call, conn, user, ctext>>

\* The end of every function: `freed` are what PQclear and PQfinish get.
Return(w, position, freed) ==
  /\ Goes(w, position)
  /\ heap' = Without(freed)
  /\ conn' = [conn EXCEPT ![w] = None]

\* Mutant: the error path forgets the connection.
ClearedOnError(w) == {res[w]}

OnError(w) == {conn[w], res[w]}

\* The label `error`, for a bad status; PQclear is not given NULL.
Fail(w) ==
  /\ at[w] = "bad"
  /\ Return(w, "no", OnError(w))
  /\ res' = [res EXCEPT ![w] = None]
  /\ UNCHANGED <<db, op, call, user, ctext>>

\* user_exists, set_user, get_user_pw_hash_by_email: the value is copied out.
\* Any count, and any number of rows but one for the hash, may be there.
ReadValue(w) ==
  /\ at[w] = "good" /\ call[w] \in {"exists", "set_user", "pwhash"}
  /\ \E position \in {"yes"} \cup (IF call[w] = "set_user" THEN {} ELSE {"no"}) :
       Return(w, position, {conn[w], res[w]})
  /\ res' = [res EXCEPT ![w] = None]
  /\ UNCHANGED <<db, op, call, user, ctext>>

\* _lp_get_user_by_email: without rows the error path is taken, with some a user
\* is made of the first before the result is cleared.
ReadUser(w) ==
  /\ at[w] = "good" /\ call[w] = "lookup"
  /\ \/ Return(w, "no", {conn[w], res[w]}) /\ UNCHANGED user
     \/ /\ Unused # {}
        /\ heap' = [Without({conn[w], res[w]}) EXCEPT ![Fresh] = op[w]]
        /\ user' = [user EXCEPT ![w] = Fresh]
        /\ conn' = [conn EXCEPT ![w] = None]
        /\ Goes(w, "yes")
  /\ res' = [res EXCEPT ![w] = None]
  /\ UNCHANGED <<db, op, call, ctext>>

\* calloc is not checked: without memory for the user the process dies.
NoMemoryForUser(w) ==
  /\ at[w] = "good" /\ call[w] = "lookup" /\ Unused = {}
  /\ Reset

\* Mutant: the result is cleared before it is handed over.
HandedFreed(w) == {conn[w], res[w]}

HandedFrees(w) == {conn[w]}

\* get_projects_for_user, _lp_get_project, _lp_get_project_keys.
HandOver(w) ==
  /\ at[w] = "good" /\ call[w] \in Handing
  /\ Return(w, "yes", HandedFrees(w))
  /\ UNCHANGED <<db, op, call, res, user, ctext>>

\* insert_new_project_for_user: the pointer to the result goes, the result stays.
CreateReturns(w) ==
  /\ at[w] = "good" /\ call[w] = "create"
  /\ Return(w, "yes", {conn[w]})
  /\ res' = [res EXCEPT ![w] = None]
  /\ UNCHANGED <<db, op, call, user, ctext>>

-----------------------------------------------------------------------------
(* The handlers. *)

Begin(w) ==
  /\ at[w] = "idle"
  /\ \E o \in Op :
       /\ op' = [op EXCEPT ![w] = o]
       /\ call' = [call EXCEPT ![w] = First(o)]
  /\ Goes(w, "connect")
  /\ UNCHANGED <<db, conn, res, user, ctext, heap>>

Success(w) == at[w] = "yes"

\* The handler uses and clears a result it was handed, and makes its next call.
CallNext(w) ==
  /\ at[w] \in {"yes", "no"} /\ ~NeedsContext(w)
  /\ \E f \in After(op[w], call[w], Success(w)) \ {"none"} :
       call' = [call EXCEPT ![w] = f]
  /\ Goes(w, "connect")
  /\ heap' = Without({res[w]})
  /\ res' = [res EXCEPT ![w] = None]
  /\ UNCHANGED <<db, op, conn, user, ctext>>

\* What a handler releases when it returns.
LastFrees(w) ==
  {res[w]} \cup (IF op[w] \in FreesUser THEN {user[w]} ELSE {})

\* The returns of a handler that has a context and renders no page: the redirect
\* to the new project's dashboard, and a project or keys that cannot be read.
Unrendered(w) ==
  \/ op[w] = "form_new_project" /\ call[w] = "create" /\ Success(w)
  \/ op[w] \in {"project", "project_keys"} /\ ~Success(w)

\* The redirect of a login, for one whose password is right and who is signed.
LogsIn(w) ==
  op[w] \in {"form_signup", "form_login"} /\ call[w] \in {"set_user", "pwhash"}
    /\ Success(w)

\* Or it answers and returns, with which its pointers are gone.  m38_render_file
\* frees the context it renders.
Answer(w) ==
  /\ at[w] \in {"yes", "no"} /\ ~NeedsContext(w)
  /\ "none" \in After(op[w], call[w], Success(w))
  /\ op' = [op EXCEPT ![w] = "none"]
  /\ call' = [call EXCEPT ![w] = "none"]
  /\ \/ ~Unrendered(w) /\ heap' = Without(LastFrees(w) \cup {ctext[w]})
     \/ (Unrendered(w) \/ LogsIn(w)) /\ heap' = Without(LastFrees(w))
  /\ res' = [res EXCEPT ![w] = None]
  /\ user' = [user EXCEPT ![w] = None]
  /\ ctext' = [ctext EXCEPT ![w] = None]
  /\ Goes(w, "idle")
  /\ UNCHANGED <<db, conn>>

\* SIGTERM, or a crash: the supervisor starts the server again.
Restart == (\E w \in Worker : at[w] # "idle") /\ Reset

\* A session the database ends on its side is seen by the next statement only.
DatabaseTurns ==
  /\ db' \in {"up", "down", "hung"} \ {db}
  /\ UNCHANGED <<op, call, at, conn, res, user, ctext, heap>>

Advance(w) ==
  \/ Connect(w)
  \/ Anonymous(w)
  \/ Execute(w)
  \/ Fail(w)
  \/ ReadValue(w)
  \/ ReadUser(w)
  \/ NoMemoryForUser(w)
  \/ HandOver(w)
  \/ CreateReturns(w)
  \/ InitContext(w)
  \/ CallNext(w)
  \/ Answer(w)

Next ==
  \/ \E w \in Worker : Begin(w) \/ Advance(w)
  \/ DatabaseTurns
  \/ Restart

\* A thread that has taken a request runs on.
Fairness == \A w \in Worker : WF_vars(Advance(w))

Spec == Init /\ [][Next]_vars /\ Fairness

-----------------------------------------------------------------------------
(* Properties. *)

\* Every pointer a function or handler still uses or frees is to an object that
\* is allocated and is what the code takes it for, and no two pointers share
\* one: nothing is used after it is freed, or freed twice.
PointersSound ==
  /\ \A w \in Worker :
       /\ at[w] \in {"exec", "good", "bad"} => conn[w] # None
       /\ conn[w] # None => heap[conn[w]] = "session"
       /\ at[w] = "good" \/ (at[w] = "yes" /\ call[w] \in Handing) => res[w] # None
       /\ res[w] # None => heap[res[w]] = call[w]
       /\ user[w] # None => heap[user[w]] = op[w]
       /\ ctext[w] # None => heap[ctext[w]] = Page(op[w])
  /\ \A w, v \in Worker : w # v => Holds(w) \cap Holds(v) = {}

Sessions == {x \in Object : heap[x] = "session"}

\* The server never has more open connections to the database than threads,
\* however long it runs and however its statements fail: there is no pool, and
\* nothing but this keeps it under the database's limit.  (These are the living
\* process's; the database may notice late that a killed one has gone.)
SessionsBounded == Cardinality(Sessions) <= Cardinality(Worker)

KnownLeaks ==
  {"failed", "create", "index", "unrouted", "new_project",
   "lp_post_index_handler", "lp_app_post_new_project",
   "lp_app_project", "lp_app_project_keys"} \cup CreateOps \cup JunkOps

\* Of its connections, results, users and template contexts the server loses
\* these and no other: connections that failed (db.c:14); results of created
\* projects (db.c:402); users of handlers that return without a free
\* (views.c:31, 236, 251, 297 and 301, api_views.c:157 to 181); and contexts of
\* handlers that return without rendering them, which are the redirect after a
\* login or a sign-up (views.c:164), the one after a new project (views.c:297)
\* and a project or keys that cannot be read (views.c:329, 363 and 381).
OnlyKnownLeaks ==
  \A x \in Object :
    heap[x] \notin {"free", "session"} /\ x \notin Held => heap[x] \in KnownLeaks

Busy(w) == at[w] # "idle"

\* Once the database no longer falls silent, every handler returns, with any
\* failures and any shortage of memory.  Of a database that falls silent again
\* and again nothing is said: no call has a timeout, and one that is never
\* answered keeps its thread.
Answered ==
  <>[](db # "hung") => \A w \in Worker : Busy(w) ~> ~Busy(w)
=============================================================================
