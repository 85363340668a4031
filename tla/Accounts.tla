------------------------------ MODULE Accounts ------------------------------
(***************************************************************************)
(* Registration, login, logout and "who am I", through the JSON API and    *)
(* through the form on the index page.  A handler checks whether the       *)
(* address is taken, hashes the password, inserts the row and signs a      *)
(* token, in that order and with nothing held in between.                  *)
(***************************************************************************)
EXTENDS Server, FiniteSets

AccountRequest(op, c, e, p, t) ==
  [op |-> op, client |-> c, email |-> e, pw |-> p, token |-> t]

-----------------------------------------------------------------------------
(* Entry of the handlers. *)

ApiRegister(w, c) ==
  \E e \in Email, p \in Password :
    Begin(w, AccountRequest("api_register", c, e, p, NoToken), "exists")

ApiLogin(w, c) ==
  \E e \in Email, p \in Password :
    Begin(w, AccountRequest("api_login", c, e, p, NoToken), "pwhash")

\* A body that does not parse, is no object or lacks a field is refused
\* before anything is read.
ApiRefuse(w, c) ==
  /\ pc[w] = "idle"
  /\ reply' = [tag |-> "invalid", req |-> NoRequest, row |-> NoRow]
  /\ UNCHANGED <<users, pc, req, row, jar, faults>>

PostIndex(w, c) ==
  \/ \E op \in {"form_signup", "form_login"}, e \in Email, p \in Password :
       Begin(w, AccountRequest(op, c, e, p, jar[c]), "lookup")
  \/ Begin(w, [op |-> "form_junk", client |-> c, token |-> jar[c]], "lookup")

GetPage(w, c) ==
  \E op \in {"whoami", "index"} :
    Begin(w, [op |-> op, client |-> c, token |-> jar[c]], "lookup")

\* Logging out only tells the browser to drop its cookie.
Logout(w, c) ==
  /\ pc[w] = "idle"
  /\ jar' = [jar EXCEPT ![c] = NoToken]
  /\ reply' = [tag |-> "bye", req |-> NoRequest, row |-> NoRow]
  /\ UNCHANGED <<users, pc, req, row, faults>>

-----------------------------------------------------------------------------
(* Steps of the handlers. *)

\* The form is for clients that are not logged in; the fields are looked at
\* only then.
LookUpForForm(w) ==
  /\ pc[w] = "lookup"
  /\ req[w].op \in {"form_signup", "form_login", "form_junk"}
  /\ \E who \in UserId \cup {NoRow} :
       /\ CurrentUser(req[w].token, who)
       /\ \/ who # NoRow /\ Answer(w, "home", who) /\ UNCHANGED jar
          \/ who = NoRow /\ req[w].op = "form_junk"
               /\ Answer(w, "invalid", NoRow) /\ UNCHANGED jar
          \/ who = NoRow /\ req[w].op = "form_signup" /\ Goto(w, "exists")
          \/ who = NoRow /\ req[w].op = "form_login" /\ Goto(w, "pwhash")
  /\ UNCHANGED users

LookUpForPage(w) ==
  /\ pc[w] = "lookup"
  /\ req[w].op \in {"whoami", "index"}
  /\ \E who \in UserId \cup {NoRow} :
       /\ CurrentUser(req[w].token, who)
       /\ Answer(w, IF req[w].op = "whoami"
                    THEN IF who = NoRow THEN "anonymous" ELSE "user"
                    ELSE IF who = NoRow THEN "loginpage" ELSE "home", who)
  /\ UNCHANGED <<users, jar>>

\* Mutants: the count is compared with one; is not looked at; is negated.
TakenOnce(addr) == Cardinality(RowsOf(addr)) = 1
TakenNever(addr) == FALSE
TakenNot(addr) == RowsOf(addr) = {}

Taken(addr) == RowsOf(addr) # {}

\* user_exists answers 0 when the statement fails, as when no row is there.
UserExists(w) ==
  /\ pc[w] = "exists"
  /\ \E addr \in Reads(req[w]) :
       \/ Taken(addr) /\ Works /\ Answer(w, "taken", NoRow) /\ UNCHANGED jar
       \/ ~Taken(addr) /\ Works /\ Goto(w, "insert")
       \/ Fault("exists") /\ Goto(w, "insert")
  /\ UNCHANGED users

FreshIds == UserId \ {u.id : u \in users}

\* Mutant: the password goes into the row as it is.
NewUserPlain(id, r) ==
  [id |-> id, email |-> Clip[r.email], password |-> r.pw]

\* Mutant: the address is not cut to its array.
NewUserWhole(id, r) ==
  [id |-> id, email |-> r.email, password |-> HashOf(r.pw)]

NewUser(id, r) ==
  [id |-> id, email |-> Clip[r.email], password |-> HashOf(r.pw)]

\* Mutant: an insert that seems to have failed is tried again.
InsertRetried(w) == Goto(w, "insert")

InsertFailed(w) == Answer(w, "failed", NoRow) /\ UNCHANGED jar

\* libscrypt_hash and insert_user.  A statement may fail before it commits or
\* after: the handler cannot tell.
InsertUser(w) ==
  /\ pc[w] = "insert"
  /\ \/ \E id \in FreshIds :
          /\ users' = users \cup {NewUser(id, req[w])}
          /\ \/ /\ Works
                /\ pc' = [pc EXCEPT ![w] = "sign"]
                /\ row' = [row EXCEPT ![w] = id]
                /\ UNCHANGED <<req, jar, reply>>
             \/ Fault("insert") /\ InsertFailed(w)
     \/ /\ Fault("insert") \/ (FreshIds = {} /\ Works)
        /\ InsertFailed(w)
        /\ UNCHANGED users

\* Mutant: libscrypt_check's 0, a mismatch, counts as success.
PasswordLax(u, r) == TRUE

PasswordPasses(u, r) == Accepts(u.password, r.pw)

\* Mutant: of several rows, any is looked at.
ReadHashFirst(w) ==
  /\ pc[w] = "pwhash"
  /\ \E addr \in Reads(req[w]) :
       \/ RowsOf(addr) = {} /\ Answer(w, "nouser", NoRow) /\ UNCHANGED jar
       \/ \E u \in RowsOf(addr) :
            /\ PasswordPasses(u, req[w])
            /\ pc' = [pc EXCEPT ![w] = "sign"]
            /\ row' = [row EXCEPT ![w] = u.id]
            /\ UNCHANGED <<req, jar, reply>>
  /\ Works
  /\ UNCHANGED users

\* get_user_pw_hash_by_email wants exactly one row; then libscrypt_check.
ReadHash(w) ==
  /\ pc[w] = "pwhash"
  /\ \/ \E addr \in Reads(req[w]) :
          \/ /\ \A u \in users : RowsOf(addr) # {u}
             /\ Answer(w, "nouser", NoRow)
             /\ UNCHANGED jar
          \/ \E u \in users :
               /\ RowsOf(addr) = {u}
               /\ \/ /\ ~PasswordPasses(u, req[w])
                     /\ Answer(w, "badpw", NoRow)
                     /\ UNCHANGED jar
                  \/ /\ PasswordPasses(u, req[w])
                     /\ pc' = [pc EXCEPT ![w] = "sign"]
                     /\ row' = [row EXCEPT ![w] = u.id]
                     /\ UNCHANGED <<req, jar, reply>>
       /\ Works
     \/ Fault("pwhash") /\ Answer(w, "nouser", NoRow) /\ UNCHANGED jar
  /\ UNCHANGED users

\* _lp_get_jwt, then the cookie, which is cut to its buffer.
LogUserIn(w) ==
  /\ pc[w] = "sign"
  /\ \/ \E sub \in Reads(req[w]) :
          /\ jar' = [jar EXCEPT ![req[w].client] =
                       [sub |-> sub, row |-> row[w],
                        intact |-> TokenIntact(EmailLength[sub])]]
          /\ Answer(w, "welcome", row[w])
          /\ Works
     \/ Fault("sign") /\ Answer(w, "failed", NoRow) /\ UNCHANGED jar
  /\ UNCHANGED users

-----------------------------------------------------------------------------
Arrive(w) ==
  \E c \in Client :
    \/ ApiRegister(w, c)
    \/ ApiLogin(w, c)
    \/ ApiRefuse(w, c)
    \/ PostIndex(w, c)
    \/ GetPage(w, c)
    \/ Logout(w, c)

Advance(w) ==
  \/ LookUpForForm(w)
  \/ LookUpForPage(w)
  \/ UserExists(w)
  \/ InsertUser(w)
  \/ ReadHash(w)
  \/ LogUserIn(w)

Serve == \E w \in Worker : Arrive(w) \/ Advance(w)

Next == Restart \/ Serve

Spec == Init /\ [][Next]_vars

\* Every handler is straight-line code over calls that return, and a thread
\* that has taken a request runs.  Nothing is assumed of clients, of faults or
\* of restarts.
Fairness == \A w \in Worker : WF_vars(Advance(w))

\* A stretch of service in which the process is not killed.
SteadySpec == Init /\ [][Serve]_vars /\ Fairness

-----------------------------------------------------------------------------
(* Properties. *)

\* A cookie that still decodes names the address of a row that exists, and of
\* the very row whose password was set or checked before it was signed.
\* (_lp_get_jwt puts the address, not the row, into the token; the address
\* the handler signs need not be the one insert_user stored.)
TokensBacked ==
  \A c \in Client :
    jar[c] # NoToken /\ jar[c].intact =>
      \E u \in users : u.id = jar[c].row /\ u.email = jar[c].sub

\* Who is told "welcome" has an account: a row under the stored form of the
\* address given, with the password given.  (The check, the hash, the insert
\* and the answer are separate steps, between which others run.)
AckedIsStored ==
  reply.tag = "welcome" =>
    \E u \in users : /\ u.id = reply.row
                    /\ u.email = Clip[reply.req.email]
                    /\ Accepts(u.password, reply.req.pw)

\* The comment "Check DB for existing user with that email address" and the
\* answer "That email address is already registered." of both registration
\* handlers: no two rows have the same address.
EmailUnique == \A u, v \in users : u.email = v.email => u = v

\* The addresses that only they themselves are stored as.
Exact(e) == EmailLength[e] < EMAIL_CHAR_SIZE

Inserting(e) == {w \in Worker : pc[w] = "insert" /\ req[w].email = e}

\* Duplicates of an address come only from registrations that were under way
\* together when it had no row, at most one per thread, and from failed
\* calls: however many registrations of the address follow, no more are added.
DuplicatesBounded ==
  \A e \in Email :
    Exact(e) => Cardinality(RowsOf(e)) <= Cardinality(Worker) + faults

\* One account has the address, and no registration of it is past its check.
Settled(e) ==
  /\ Exact(e)
  /\ \E u \in users : RowsOf(e) = {u}
  /\ Inserting(e) = {}

\* From then on, as long as no call fails, the address keeps this one account,
\* whoever registers it again or restarts the server, and every cookie for it
\* goes on meaning the row it was signed for.  (A token holds the address, and
\* _lp_get_user_by_email takes the first of its rows, in no order: with a second
\* row the same cookie may mean either, from one request to the next.)
IdentitySettles ==
  [][\A e \in Email :
       Settled(e) /\ UNCHANGED faults =>
         /\ Settled(e)'
         /\ \A c \in Client :
              jar'[c] # NoToken /\ jar'[c].sub = e =>
                Identities(jar[c])' \subseteq {jar'[c].row}]_vars

LoggingIn(w, e) ==
  pc[w] = "sign" /\ req[w].op \in {"api_login", "form_login"} /\ req[w].email = e

\* Two accounts have the address, and no login got past its password before
\* the second came.
LockedOut(e) ==
  /\ Exact(e)
  /\ \E u, v \in RowsOf(e) : u # v
  /\ \A w \in Worker : ~LoggingIn(w, e)

\* An address that has come to have two accounts is lost to both: whatever
\* password is given, and whatever else is registered, fails or is restarted,
\* no login for it is let through again.  (get_user_pw_hash_by_email refuses a
\* result of two rows as it does an empty one; no code removes a row.)
LockoutIsPermanent == [][\A e \in Email : LockedOut(e) => LockedOut(e)']_vars

\* The comment "Generates a new JWT for a given email address." and the cookie
\* both handlers make of it: what a client is given to keep is a whole JWT.
JarHoldsWholeJwt == \A c \in Client : jar[c] # NoToken => jar[c].intact

\* While no insert fails and nothing is killed, a registration that has got as
\* far as the check leaves an account under the stored form of its address,
\* its own or the one it found there, unless the table is full.
SignUpSettles ==
  \A w \in Worker, e \in Email :
    (pc[w] = "exists" /\ req[w].email = e)
      ~> (RowsOf(Clip[e]) # {} \/ FreshIds = {})
=============================================================================
