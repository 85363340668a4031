--------------------------- MODULE SessionsProofs ---------------------------
(***************************************************************************)
(* Proofs about Sessions for any number of threads, clients, addresses and *)
(* pairs of keys, however the script is started, declined and interrupted. *)
(***************************************************************************)
EXTENDS Sessions, TLAPS

-----------------------------------------------------------------------------
(* The inductive invariant. *)

\* The private key is the one made last, and where it is not yet written the
\* script is at its first command or was interrupted there.
KeysFollowScript ==
  /\ private \in {made, Unusable}
  /\ script = "private" => private = Unusable /\ made < MaxGen
  /\ script = "public" => private = made
  /\ script = "convert" => private = made
  /\ completed => script = "idle" /\ private = made /\ public = made

\* A client that has no cookie for "/api/user" never got one there: its other
\* cookie is that of its last login.
JarFollowsLogins ==
  \A c \in Client :
    IF jar[c]["/api/user"] = None
    THEN jar[c]["/"] = last[c]
    ELSE ~PathWhole(EmailLength[jar[c]["/api/user"].sub])

IInv == TypeOK /\ KeysFollowScript /\ JarFollowsLogins

-----------------------------------------------------------------------------
(* The script. *)

LEMMA ScriptIInv ==
  ASSUME IInv, Script
  PROVE  IInv'
<1> USE SessionsAssumption
<1>1. TypeOK'
  <2>1. UNCHANGED <<signing, jar, last>>
    BY DEF Script
  <2>2. /\ made \in 0..MaxGen /\ private \in 0..MaxGen \cup {Unusable}
        /\ public \in 0..MaxGen \cup {Unusable} /\ completed \in BOOLEAN
        /\ script = "private" => made < MaxGen
    BY DEF IInv, TypeOK, KeysFollowScript
  <2> DEFINE Typed == /\ private' \in 0..MaxGen \cup {Unusable}
                      /\ public' \in 0..MaxGen \cup {Unusable}
                      /\ script' \in {"idle", "private", "public", "openssl", "convert"}
                      /\ completed' \in BOOLEAN
                      /\ made' \in 0..MaxGen
  <2>3. Overwrite => Typed
    BY <2>2 DEF Overwrite
  <2>4. Decline => Typed
    BY <2>2 DEF Decline
  <2>5. WritePrivate => Typed
    <3>1. WritePrivate => made + 1 \in 0..MaxGen
      BY <2>2 DEF WritePrivate
    <3> QED
      BY <2>2, <3>1 DEF WritePrivate
  <2>6. WritePublic => Typed
    BY <2>2 DEF WritePublic
  <2>7. Openssl => Typed
    BY <2>2 DEF Openssl
  <2>8. Convert => Typed
    BY <2>2 DEF Convert
  <2>9. Interrupt => Typed
    BY <2>2 DEF Interrupt
  <2> QED
    BY <2>1, <2>3, <2>4, <2>5, <2>6, <2>7, <2>8, <2>9 DEF IInv, TypeOK, Script
<1>2. KeysFollowScript'
  BY DEF IInv, TypeOK, KeysFollowScript, Script, Overwrite, Decline, WritePrivate,
         WritePublic, Openssl, Convert, Interrupt
<1>3. JarFollowsLogins'
  BY DEF IInv, JarFollowsLogins, Script
<1> QED
  BY <1>1, <1>2, <1>3 DEF IInv

-----------------------------------------------------------------------------
(* The server and its clients. *)

LEMMA SignIInv ==
  ASSUME IInv, NEW w \in Worker, Sign(w)
  PROVE  IInv'
<1>1. UNCHANGED keyvars /\ UNCHANGED <<jar, last>>
  BY DEF Sign
<1>2. signing' \in [Worker -> Login \cup {None}]
  <2>1. PICK c \in Client, route \in Route, e \in Email :
          signing' = [signing EXCEPT ![w] =
            [client |-> c, route |-> route,
             token |-> [sub |-> e, gen |-> private,
                        intact |-> TokenIntact(EmailLength[e])]]]
    BY DEF Sign
  <2>2. private \in 0..MaxGen
    BY DEF Sign, Signs, IInv, TypeOK
  <2>3. TokenIntact(EmailLength[e]) \in BOOLEAN
    BY DEF TokenIntact
  <2> QED
    BY <2>1, <2>2, <2>3 DEF IInv, TypeOK, Login, Token
<1> QED
  BY <1>1, <1>2 DEF IInv, TypeOK, KeysFollowScript, JarFollowsLogins, keyvars

LEMMA WelcomeIInv ==
  ASSUME IInv, NEW w \in Worker, Welcome(w)
  PROVE  IInv'
<1> DEFINE c == signing[w].client
           t == signing[w].token
           p == CookiePath(signing[w].route, EmailLength[t.sub])
<1>1. /\ UNCHANGED keyvars
      /\ signing' = [signing EXCEPT ![w] = None]
      /\ jar' = [jar EXCEPT ![c] = [@ EXCEPT ![p] = t]]
      /\ last' = [last EXCEPT ![c] = t]
  BY DEF Welcome
<1>2. c \in Client /\ t \in Token /\ t.sub \in Email
  BY DEF Welcome, IInv, TypeOK, Login, Token
<1>3. /\ p \in Path
      /\ p # "/" => p = "/api/user" /\ ~PathWhole(EmailLength[t.sub])
  BY DEF CookiePath, Path
<1>4. t # None
  BY <1>2, SessionsAssumption DEF Token
<1> HIDE DEF c, t, p
<1>5. TypeOK'
  BY <1>1, <1>2, <1>3 DEF IInv, TypeOK, keyvars
<1>6. KeysFollowScript'
  BY <1>1 DEF IInv, KeysFollowScript, keyvars
<1>7. JarFollowsLogins'
  <2> SUFFICES ASSUME NEW d \in Client
               PROVE  IF jar'[d]["/api/user"] = None
                      THEN jar'[d]["/"] = last'[d]
                      ELSE ~PathWhole(EmailLength[jar'[d]["/api/user"].sub])
    BY DEF JarFollowsLogins, PathWhole
  <2>1. jar[d] \in [Path -> Token \cup {None}] /\ DOMAIN jar = Client /\ DOMAIN last = Client
    BY DEF IInv, TypeOK
  <2>2. CASE d # c
    BY <1>1, <2>1, <2>2 DEF IInv, JarFollowsLogins
  <2>3. CASE d = c
    <3>1. jar'[d] = [jar[d] EXCEPT ![p] = t] /\ last'[d] = t
      BY <1>1, <2>1, <2>3
    <3> QED
      BY <1>3, <1>4, <2>1, <3>1 DEF IInv, JarFollowsLogins, Path
  <2> QED
    BY <2>2, <2>3
<1> QED
  BY <1>5, <1>6, <1>7 DEF IInv

LEMMA LogoutIInv ==
  ASSUME IInv, NEW c \in Client, Logout(c)
  PROVE  IInv'
<1>1. /\ UNCHANGED keyvars /\ UNCHANGED signing
      /\ jar' = [jar EXCEPT ![c] = [@ EXCEPT !["/"] = None]]
      /\ last' = [last EXCEPT ![c] = None]
  BY DEF Logout
<1>2. TypeOK'
  BY <1>1 DEF IInv, TypeOK, keyvars, Path
<1>3. JarFollowsLogins'
  <2> SUFFICES ASSUME NEW d \in Client
               PROVE  IF jar'[d]["/api/user"] = None
                      THEN jar'[d]["/"] = last'[d]
                      ELSE ~PathWhole(EmailLength[jar'[d]["/api/user"].sub])
    BY DEF JarFollowsLogins, PathWhole
  <2>1. jar[d] \in [Path -> Token \cup {None}] /\ DOMAIN jar = Client /\ DOMAIN last = Client
    BY DEF IInv, TypeOK
  <2> QED
    BY <1>1, <2>1 DEF IInv, JarFollowsLogins, Path
<1> QED
  BY <1>1, <1>2, <1>3 DEF IInv, KeysFollowScript, keyvars

LEMMA InitIInv == Init => IInv
BY SessionsAssumption DEF Init, IInv, TypeOK, KeysFollowScript, JarFollowsLogins, Path

LEMMA NextIInv == IInv /\ [Next]_vars => IInv'
<1> SUFFICES ASSUME IInv, [Next]_vars PROVE IInv'
  OBVIOUS
<1>1. CASE UNCHANGED vars
  BY <1>1 DEF vars, keyvars, IInv, TypeOK, KeysFollowScript, JarFollowsLogins
<1> QED
  BY <1>1, ScriptIInv, SignIInv, WelcomeIInv, LogoutIInv DEF Next

THEOREM Invariance == Spec => []IInv
BY InitIInv, NextIInv, PTL DEF Spec

-----------------------------------------------------------------------------
(* The theorems. *)

\* Every variable keeps its type.
THEOREM TypeCorrect == Spec => []TypeOK
<1>1. IInv => TypeOK
  BY DEF IInv
<1> QED
  BY <1>1, Invariance, PTL

\* Where a client's API logins keep the path of their cookies, the last login
\* or logout decides who it is, for any number of logins under way.
THEOREM LastLoginsDecide == Spec => []LastLoginDecides
<1>1. IInv => LastLoginDecides
  <2> SUFFICES ASSUME IInv, NEW c \in Client
               PROVE  /\ jar[c]["/api/user"] # None =>
                           ~PathWhole(EmailLength[jar[c]["/api/user"].sub])
                      /\ jar[c]["/api/user"] = None =>
                           \A route \in Route :
                             SeenAs(c, route) \subseteq
                               (IF last[c] = None THEN {} ELSE {last[c].sub})
    BY DEF LastLoginDecides
  <2>1. ASSUME jar[c]["/api/user"] = None, NEW route \in Route, NEW e \in SeenAs(c, route)
        PROVE  last[c] # None /\ e = last[c].sub
    <3>1. jar[c]["/"] = last[c]
      BY <2>1 DEF IInv, JarFollowsLogins
    <3>2. PICK u \in Sent(c, route) : e = u.sub
      BY <2>1 DEF SeenAs
    <3>3. u = last[c] /\ u # None
      BY <2>1, <3>1, <3>2 DEF Sent, Path
    <3> QED
      BY <3>2, <3>3
  <2> QED
    BY <2>1 DEF IInv, JarFollowsLogins
<1> QED
  BY <1>1, Invariance, PTL

\* A completed run of the script leaves a pair: logins signed from then on last.
THEOREM LoginsLast == Spec => []LoginLasts
<1>1. IInv => LoginLasts
  BY SessionsAssumption DEF IInv, TypeOK, KeysFollowScript, LoginLasts, Decodes
<1> QED
  BY <1>1, Invariance, PTL

\* No sequence of runs, complete or not, brings an old key back.
THEOREM KeysStayGone == Spec => OldKeysAreGone
<1>1. IInv /\ [Next]_vars => [\A g \in 0..MaxGen : Gone(g) => Gone(g)']_vars
  <2> SUFFICES ASSUME IInv, Next, NEW g \in 0..MaxGen, Gone(g) PROVE Gone(g)'
    OBVIOUS
  <2>1. CASE UNCHANGED keyvars
    BY <2>1 DEF Gone, keyvars
  <2>2. CASE Script
    BY <2>2, SessionsAssumption
       DEF Gone, IInv, TypeOK, KeysFollowScript, Script, Overwrite, Decline,
           WritePrivate, WritePublic, Openssl, Convert, Interrupt
  <2> QED
    BY <2>1, <2>2 DEF Next, Sign, Welcome, Logout
<1> QED
  BY <1>1, Invariance, PTL DEF Spec, OldKeysAreGone
=============================================================================
