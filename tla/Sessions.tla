------------------------------- MODULE Sessions -------------------------------
(***************************************************************************)
(* How long a login lasts.  The token of a login is signed with the        *)
(* private key file and later checked with the public one, which           *)
(* generate_key.sh replaces in several steps while the server runs; the    *)
(* client keeps it as a cookie under a path, which the server's cookie     *)
(* buffer may cut off.  Who may log in is the subject of Accounts: here an *)
(* address that is signed for has been checked.                            *)
(***************************************************************************)
EXTENDS Buffers

CONSTANTS
  Worker, Client, Email,
  EmailLength,  \* the length of each address, in bytes
  MaxGen,       \* bound: how many pairs of keys are made after the first
  Unusable,     \* a key file cut short, or in a format libjwt does not read
  None          \* no cookie, no client, no request under way

ASSUME SessionsAssumption ==
  /\ EmailLength \in [Email -> Nat]
  /\ MaxGen \in Nat
  /\ Unusable \notin Nat
  /\ None \notin [sub : Email, gen : 0..MaxGen, intact : BOOLEAN]

VARIABLES
  private,    \* rsa256.key: the generation of its key, or Unusable
  public,     \* rsa256.key.pub, likewise
  script,     \* where generate_key.sh has got to, "idle" when it does not run
  completed,  \* its last run, if any, ended with the last command done
  made,       \* the number of the last pair made
  signing,    \* the login each worker has signed a token for, or None
  jar,        \* the access_token cookies of each client, by path
  last        \* the token of the last login each client was answered, None
              \* when it has logged out since

keyvars == <<private, public, script, completed, made>>
vars == <<keyvars, signing, jar, last>>

-----------------------------------------------------------------------------
(* Cookies.  A cookie without a path, or with the attribute cut short, is   *)
(* kept under the path of the request that set it: "/api/user" for the API, *)
(* "/" for the form.                                                        *)

Route == {"api", "form"}
Path == {"/", "/api/user"}

Token == [sub : Email, gen : 0..MaxGen, intact : BOOLEAN]
Login == [client : Client, route : Route, token : Token]

PathWhole(n) == Kept(CookieLength(n)) = CookieLength(n)

CookiePath(route, n) ==
  IF route = "api" /\ ~PathWhole(n) THEN "/api/user" ELSE "/"

TypeOK ==
  /\ private \in 0..MaxGen \cup {Unusable}
  /\ public \in 0..MaxGen \cup {Unusable}
  /\ script \in {"idle", "private", "public", "openssl", "convert"}
  /\ completed \in BOOLEAN
  /\ made \in 0..MaxGen
  /\ signing \in [Worker -> Login \cup {None}]
  /\ jar \in [Client -> [Path -> Token \cup {None}]]
  /\ last \in [Client -> Token \cup {None}]

Init ==
  /\ private = 0 /\ public = 0 /\ made = 0
  /\ script = "idle" /\ completed = TRUE
  /\ signing = [w \in Worker |-> None]
  /\ jar = [c \in Client |-> [p \in Path |-> None]]
  /\ last = [c \in Client |-> None]

-----------------------------------------------------------------------------
(* generate_key.sh, run by hand.  Nothing stops it when a command fails. *)

\* ssh-keygen asks before it overwrites: it opens the private key's file anew,
Overwrite ==
  /\ script = "idle" /\ made < MaxGen
  /\ script' = "private"
  /\ private' = Unusable
  /\ completed' = FALSE
  /\ UNCHANGED <<public, made>>

\* or goes on, without a new key, with the next command.
Decline ==
  /\ script = "idle"
  /\ script' = "openssl"
  /\ completed' = FALSE
  /\ UNCHANGED <<private, public, made>>

WritePrivate ==
  /\ script = "private"
  /\ private' = made + 1
  /\ made' = made + 1
  /\ script' = "public"
  /\ UNCHANGED <<public, completed>>

\* The public key ssh-keygen writes is not PEM.
WritePublic ==
  /\ script = "public"
  /\ public' = Unusable
  /\ script' = "openssl"
  /\ UNCHANGED <<private, completed, made>>

\* Mutant: the public key is left as ssh-keygen wrote it.
OpensslSkipped ==
  /\ script = "openssl"
  /\ script' = "idle"
  /\ completed' = (private # Unusable)
  /\ UNCHANGED <<private, public, made>>

\* openssl reads the private key, then opens the public key's file anew.
Openssl ==
  /\ script = "openssl"
  /\ IF private = Unusable
     THEN script' = "idle" /\ UNCHANGED public
     ELSE script' = "convert" /\ public' = Unusable
  /\ UNCHANGED <<private, completed, made>>

Convert ==
  /\ script = "convert"
  /\ public' = private
  /\ completed' = TRUE
  /\ script' = "idle"
  /\ UNCHANGED <<private, made>>

\* Mutant: an interrupted run puts the public key of the run before back.
InterruptRestores ==
  /\ script # "idle"
  /\ script' = "idle"
  /\ public' = IF public = Unusable /\ made > 0 THEN made - 1 ELSE public
  /\ UNCHANGED <<private, completed, made>>

Interrupt ==
  /\ script # "idle"
  /\ script' = "idle"
  /\ UNCHANGED <<private, public, completed, made>>

Script ==
  /\ \/ Overwrite \/ Decline \/ WritePrivate \/ WritePublic
     \/ Openssl \/ Convert \/ Interrupt
  /\ UNCHANGED <<signing, jar, last>>

-----------------------------------------------------------------------------
(* The server and its clients. *)

\* jwt_set_alg refuses what is not a whole private key.
Signs == private # Unusable

\* _lp_get_jwt reads the private key for each login.
Sign(w) ==
  /\ signing[w] = None /\ Signs
  /\ \E c \in Client, route \in Route, e \in Email :
       signing' = [signing EXCEPT ![w] =
         [client |-> c, route |-> route,
          token |-> [sub |-> e, gen |-> private,
                     intact |-> TokenIntact(EmailLength[e])]]]
  /\ UNCHANGED <<keyvars, jar, last>>

\* The client gets the answer and keeps the cookie, in place of one of the
\* same path.
Welcome(w) ==
  /\ signing[w] # None
  /\ LET c == signing[w].client
         t == signing[w].token
         p == CookiePath(signing[w].route, EmailLength[t.sub])
     IN  /\ jar' = [jar EXCEPT ![c] = [@ EXCEPT ![p] = t]]
         /\ last' = [last EXCEPT ![c] = t]
  /\ signing' = [signing EXCEPT ![w] = None]
  /\ UNCHANGED keyvars

\* Mutant: the cookie that deletes the login's has no path.
LogoutHere(c) ==
  /\ last' = [last EXCEPT ![c] = None]
  /\ UNCHANGED <<keyvars, signing, jar>>

\* lp_app_logout sends a cookie for "/" that has expired.
Logout(c) ==
  /\ jar' = [jar EXCEPT ![c] = [@ EXCEPT !["/"] = None]]
  /\ last' = [last EXCEPT ![c] = None]
  /\ UNCHANGED <<keyvars, signing>>

Next ==
  \/ Script
  \/ \E w \in Worker : Sign(w) \/ Welcome(w)
  \/ \E c \in Client : Logout(c)

Spec == Init /\ [][Next]_vars

-----------------------------------------------------------------------------
(* What the server makes of a request. *)

\* _lp_get_user_from_request reads the public key for each request.
Decodes(t) == t # None /\ t.intact /\ t.gen = public

\* The browser sends the cookies whose path is a prefix of the request's.
Sent(c, route) ==
  {jar[c][p] : p \in IF route = "api" THEN Path ELSE {"/"}} \ {None}

\* The addresses a request may be taken to come from: of two cookies of one
\* name the server looks at one.
SeenAs(c, route) == {t.sub : t \in {u \in Sent(c, route) : Decodes(u)}}

-----------------------------------------------------------------------------
(* Properties. *)

\* Only a login through the API whose cookie lost its path leaves a cookie
\* under "/api/user".  A client without one is seen, wherever it goes, as the
\* address it logged in with last, or as nobody, at once after it has logged
\* out, whatever other logins and requests are under way.
LastLoginDecides ==
  \A c \in Client :
    LET narrow == jar[c]["/api/user"]
    IN  /\ narrow # None => ~PathWhole(EmailLength[narrow.sub])
        /\ narrow = None =>
             \A route \in Route :
               SeenAs(c, route) \subseteq (IF last[c] = None THEN {} ELSE {last[c].sub})

\* A login signed with the key that is in place now is good wherever its cookie
\* is sent, as soon as the script has run to its end, and however often it was
\* started, declined, interrupted and started again before.
LoginLasts ==
  completed /\ script = "idle" =>
    /\ private # Unusable
    /\ \A c \in Client, p \in Path :
         jar[c][p] # None /\ jar[c][p].intact /\ jar[c][p].gen = private =>
           Decodes(jar[c][p])

Gone(g) == g \in 0..made /\ g \notin {private, public}

\* Once neither file holds a key it is gone, not to come back when the script
\* stops half-way and is run again: a token that was refused after a rotation
\* is refused for good, and a rotation is a way to end every login.
OldKeysAreGone == [][\A g \in 0..MaxGen : Gone(g) => Gone(g)']_vars
=============================================================================
