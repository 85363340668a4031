--------------------------- MODULE AccountsProofs ---------------------------
(***************************************************************************)
(* Proofs about Accounts for any number of threads, clients, addresses and *)
(* rows, with any calls failing any number of times; and about a server of *)
(* one thread, where addresses are unique and AccountService is kept.      *)
(***************************************************************************)
EXTENDS AccountsRefinement, FiniteSetTheorems, TLAPS

-----------------------------------------------------------------------------
(* The inductive invariant. *)

\* A worker between requests has none; a worker that is past the lookup of a
\* registration or a login holds an address and a password.
WorkersHoldRequests ==
  \A w \in Worker :
    /\ pc[w] # "idle" => req[w] \in Request
    /\ pc[w] \in SignSteps => req[w] \in SignRequest

\* The table holds stored forms only.
RowsClipped == \A u \in users : Clip[u.email] = u.email

\* The row a worker is about to sign for is there, under the stored form of
\* the address it was given, with the password it was given.
SignBacked ==
  \A w \in Worker :
    pc[w] = "sign" =>
      \E u \in users : /\ u.id = row[w]
                       /\ u.email = Clip[req[w].email]
                       /\ Accepts(u.password, req[w].pw)

IInv ==
  /\ TypeOK
  /\ WorkersHoldRequests
  /\ RowsClipped
  /\ SignBacked
  /\ TokensBacked
  /\ AckedIsStored

-----------------------------------------------------------------------------
(* Lemmas about the buffers and the addresses. *)

\* The cookie buffer holds the JWT of an address of up to 45 bytes and of no
\* longer one: the limit char buf[512] puts on an address is 45, far below
\* the 128 its array allows.
THEOREM CookieLimit == \A n \in Nat : TokenIntact(n) <=> n <= 45
BY DEF TokenIntact, Kept, CookieLength, JwtLength, Base64Length, HeaderLength,
       ClaimsLength, SignatureLength, CookieNameLength, CookieAttributesLength,
       COOKIE_BUF

\* The stored form of an address is stored as itself.
LEMMA ClipStored ==
  \A e \in Email : Clip[e] \in Email /\ Clip[Clip[e]] = Clip[e]
BY EmailAssumption DEF EMAIL_CHAR_SIZE

\* What a handler reads back of an address has the same stored form.
LEMMA ReadsClip ==
  ASSUME NEW r \in SignRequest, NEW e \in Reads(r)
  PROVE  e \in Email /\ Clip[e] = Clip[r.email]
BY DEF Reads, SignRequest

\* An address that is read back and whose token is usable is the stored form:
\* an array read past its end gives an address too long for the cookie.
LEMMA UsableIsStored ==
  ASSUME NEW r \in SignRequest, NEW e \in Reads(r), TokenIntact(EmailLength[e])
  PROVE  e = Clip[r.email]
<1>1. e \in Email /\ Clip[e] = Clip[r.email]
  BY ReadsClip
<1>2. EmailLength[e] \in Nat /\ EmailLength[e] <= 45
  BY <1>1, CookieLimit, EmailAssumption
<1>3. Clip[e] = e
  BY <1>1, <1>2, EmailAssumption DEF EMAIL_CHAR_SIZE
<1> QED
  BY <1>1, <1>3

\* The fields of a request, whichever handler it is for.
LEMMA RequestFields ==
  ASSUME NEW r \in Request
  PROVE  /\ r.client \in Client
         /\ r.token \in Cookie
         /\ r.op \in SignOps => r \in SignRequest
BY DEF Request, SignRequest, ReadRequest, CreateRequest, ViewRequest,
       SignOps, ReadOps, CreateOps, ViewOps, PlainOps

LEMMA SignRequestFields ==
  ASSUME NEW r \in SignRequest
  PROVE  /\ r \in Request /\ r.client \in Client
         /\ r.email \in Email /\ r.pw \in Password
BY DEF Request, SignRequest

-----------------------------------------------------------------------------
(* The initial state. *)

LEMMA InitIInv == Init => IInv
<1> SUFFICES ASSUME Init PROVE IInv
  OBVIOUS
<1>1. TypeOK
  BY FaultAssumption DEF Init, TypeOK, PC, Cookie, Reply, Tag
<1>2. WorkersHoldRequests /\ RowsClipped /\ SignBacked
  BY DEF Init, WorkersHoldRequests, RowsClipped, SignBacked, SignSteps
<1>3. TokensBacked /\ AckedIsStored
  BY DEF Init, TokensBacked, AckedIsStored
<1> QED
  BY <1>1, <1>2, <1>3 DEF IInv

-----------------------------------------------------------------------------
(* A request is taken. *)

LEMMA BeginIInv ==
  ASSUME IInv, NEW w \in Worker, NEW r \in Request, NEW at \in PC,
         at \in SignSteps => r \in SignRequest, at # "sign",
         Begin(w, r, at)
  PROVE  IInv'
<1> USE DEF IInv, Begin
<1>1. TypeOK'
  BY DEF TypeOK
<1>2. WorkersHoldRequests'
  BY DEF WorkersHoldRequests, TypeOK
<1>3. RowsClipped' /\ TokensBacked' /\ AckedIsStored'
  BY DEF RowsClipped, TokensBacked, AckedIsStored
<1>4. SignBacked'
  BY DEF SignBacked, TypeOK
<1> QED
  BY <1>1, <1>2, <1>3, <1>4

LEMMA ArriveIInv ==
  ASSUME IInv, NEW w \in Worker, Arrive(w)
  PROVE  IInv'
<1> PICK c \in Client : \/ ApiRegister(w, c)
                        \/ ApiLogin(w, c)
                        \/ ApiRefuse(w, c)
                        \/ PostIndex(w, c)
                        \/ GetPage(w, c)
                        \/ Logout(w, c)
  BY DEF Arrive
<1>0. jar[c] \in Cookie /\ NoToken \in Cookie
  BY DEF IInv, TypeOK, Cookie
<1>1. ASSUME NEW op \in SignOps, NEW e \in Email, NEW p \in Password,
             NEW t \in Cookie
      PROVE  AccountRequest(op, c, e, p, t) \in SignRequest
  BY DEF AccountRequest, SignRequest
<1>2. SignRequest \subseteq Request /\ ReadRequest \subseteq Request
  BY DEF Request
<1>3. CASE ApiRegister(w, c)
  <2> PICK e \in Email, p \in Password :
        Begin(w, AccountRequest("api_register", c, e, p, NoToken), "exists")
    BY <1>3 DEF ApiRegister
  <2> QED
    BY <1>0, <1>1, <1>2, BeginIInv DEF SignOps, PC, SignSteps
<1>4. CASE ApiLogin(w, c)
  <2> PICK e \in Email, p \in Password :
        Begin(w, AccountRequest("api_login", c, e, p, NoToken), "pwhash")
    BY <1>4 DEF ApiLogin
  <2> QED
    BY <1>0, <1>1, <1>2, BeginIInv DEF SignOps, PC, SignSteps
<1>5. CASE ApiRefuse(w, c)
  BY <1>5 DEF ApiRefuse, IInv, TypeOK, Reply, Tag, WorkersHoldRequests,
       RowsClipped, SignBacked, TokensBacked, AckedIsStored
<1>6. CASE PostIndex(w, c)
  <2>1. CASE \E op \in {"form_signup", "form_login"}, e \in Email, p \in Password :
               Begin(w, AccountRequest(op, c, e, p, jar[c]), "lookup")
    <3> PICK op \in {"form_signup", "form_login"}, e \in Email, p \in Password :
          Begin(w, AccountRequest(op, c, e, p, jar[c]), "lookup")
      BY <2>1
    <3> QED
      BY <1>0, <1>1, <1>2, BeginIInv DEF SignOps, PC, SignSteps
  <2>2. CASE Begin(w, [op |-> "form_junk", client |-> c, token |-> jar[c]], "lookup")
    <3>1. [op |-> "form_junk", client |-> c, token |-> jar[c]] \in Request
      BY <1>0, <1>2 DEF ReadRequest, ReadOps
    <3> QED
      BY <2>2, <3>1, BeginIInv DEF PC, SignSteps
  <2> QED
    BY <1>6, <2>1, <2>2 DEF PostIndex
<1>7. CASE GetPage(w, c)
  <2> PICK op \in {"whoami", "index"} :
        Begin(w, [op |-> op, client |-> c, token |-> jar[c]], "lookup")
    BY <1>7 DEF GetPage
  <2>1. [op |-> op, client |-> c, token |-> jar[c]] \in Request
    BY <1>0, <1>2 DEF ReadRequest, ReadOps
  <2> QED
    BY <2>1, BeginIInv DEF PC, SignSteps
<1>8. CASE Logout(w, c)
  BY <1>8 DEF Logout, IInv, TypeOK, Reply, Tag, Cookie, WorkersHoldRequests,
       RowsClipped, SignBacked, TokensBacked, AckedIsStored
<1> QED
  BY <1>3, <1>4, <1>5, <1>6, <1>7, <1>8

-----------------------------------------------------------------------------
(* The handlers' answers and steps, which leave the table and the jars alone. *)

\* Any answer but "welcome".
LEMMA PlainAnswerIInv ==
  ASSUME IInv, NEW w \in Worker, pc[w] # "idle",
         NEW tag \in Tag \ {"welcome"},
         NEW who \in UserId \cup {NoRow},
         Answer(w, tag, who), UNCHANGED <<users, jar>>, faults' \in 0..MaxFaults
  PROVE  IInv'
<1> USE DEF IInv, Answer
<1>1. TypeOK'
  BY DEF TypeOK, WorkersHoldRequests, Reply, PC
<1>2. WorkersHoldRequests' /\ SignBacked'
  BY DEF WorkersHoldRequests, SignBacked, TypeOK, SignSteps
<1>3. RowsClipped' /\ TokensBacked'
  BY DEF RowsClipped, TokensBacked
<1>4. AckedIsStored'
  BY DEF AckedIsStored
<1> QED
  BY <1>1, <1>2, <1>3, <1>4

\* On to a call other than the signing.
LEMMA GotoIInv ==
  ASSUME IInv, NEW w \in Worker, pc[w] # "idle",
         NEW at \in PC \ {"sign", "idle"},
         at \in SignSteps => req[w] \in SignRequest,
         Goto(w, at), UNCHANGED users, faults' \in 0..MaxFaults
  PROVE  IInv'
<1> USE DEF IInv, Goto
<1>1. TypeOK'
  BY DEF TypeOK
<1>2. WorkersHoldRequests' /\ SignBacked'
  BY DEF WorkersHoldRequests, SignBacked, TypeOK
<1>3. RowsClipped' /\ TokensBacked' /\ AckedIsStored'
  BY DEF RowsClipped, TokensBacked, AckedIsStored
<1> QED
  BY <1>1, <1>2, <1>3

LEMMA FaultCount ==
  ASSUME TypeOK, NEW call, Fault(call) \/ Works
  PROVE  faults' \in 0..MaxFaults
BY FaultAssumption DEF TypeOK, Fault, Works

LEMMA LookUpForFormIInv ==
  ASSUME IInv, NEW w \in Worker, LookUpForForm(w)
  PROVE  IInv'
<1> PICK who \in UserId \cup {NoRow} :
      /\ CurrentUser(req[w].token, who)
      /\ \/ who # NoRow /\ Answer(w, "home", who) /\ UNCHANGED jar
         \/ who = NoRow /\ req[w].op = "form_junk"
              /\ Answer(w, "invalid", NoRow) /\ UNCHANGED jar
         \/ who = NoRow /\ req[w].op = "form_signup" /\ Goto(w, "exists")
         \/ who = NoRow /\ req[w].op = "form_login" /\ Goto(w, "pwhash")
  BY DEF LookUpForForm
<1>1. faults' \in 0..MaxFaults
  BY FaultCount DEF CurrentUser, IInv
<1>2. pc[w] # "idle" /\ UNCHANGED users
  BY DEF LookUpForForm
<1>3. req[w].op \in SignOps => req[w] \in SignRequest
  BY <1>2, RequestFields DEF IInv, WorkersHoldRequests
<1>4. CASE who # NoRow /\ Answer(w, "home", who) /\ UNCHANGED jar
  BY <1>1, <1>2, <1>4, PlainAnswerIInv DEF Tag
<1>5. CASE Answer(w, "invalid", NoRow) /\ UNCHANGED jar
  BY <1>1, <1>2, <1>5, PlainAnswerIInv DEF Tag
<1>6. CASE req[w].op = "form_signup" /\ Goto(w, "exists")
  BY <1>1, <1>2, <1>3, <1>6, GotoIInv DEF PC, SignSteps, SignOps
<1>7. CASE req[w].op = "form_login" /\ Goto(w, "pwhash")
  BY <1>1, <1>2, <1>3, <1>7, GotoIInv DEF PC, SignSteps, SignOps
<1> QED
  BY <1>4, <1>5, <1>6, <1>7

LEMMA LookUpForPageIInv ==
  ASSUME IInv, NEW w \in Worker, LookUpForPage(w)
  PROVE  IInv'
<1> PICK who \in UserId \cup {NoRow} :
      /\ CurrentUser(req[w].token, who)
      /\ Answer(w, IF req[w].op = "whoami"
                   THEN IF who = NoRow THEN "anonymous" ELSE "user"
                   ELSE IF who = NoRow THEN "loginpage" ELSE "home", who)
  BY DEF LookUpForPage
<1>1. faults' \in 0..MaxFaults
  BY FaultCount DEF CurrentUser, IInv
<1>2. pc[w] # "idle" /\ UNCHANGED <<users, jar>>
  BY DEF LookUpForPage
<1>3. PICK tag \in {"user", "home", "anonymous", "loginpage"} : Answer(w, tag, who)
  OBVIOUS
<1> QED
  BY <1>1, <1>2, <1>3, PlainAnswerIInv DEF Tag

LEMMA UserExistsIInv ==
  ASSUME IInv, NEW w \in Worker, UserExists(w)
  PROVE  IInv'
<1>1. /\ pc[w] # "idle" /\ UNCHANGED users
      /\ req[w] \in SignRequest
      /\ faults' \in 0..MaxFaults
  BY FaultCount DEF UserExists, IInv, WorkersHoldRequests, SignSteps
<1>2. CASE Answer(w, "taken", NoRow) /\ UNCHANGED jar
  BY <1>1, <1>2, PlainAnswerIInv DEF Tag
<1>3. CASE Goto(w, "insert")
  BY <1>1, <1>3, GotoIInv DEF PC, SignSteps
<1> QED
  BY <1>2, <1>3 DEF UserExists

-----------------------------------------------------------------------------
(* The steps that write the table, choose a row or sign. *)

\* Rows are only added.
LEMMA GrowthKeeps ==
  ASSUME IInv, users \subseteq users'
  PROVE  /\ UNCHANGED jar => TokensBacked'
         /\ UNCHANGED reply => AckedIsStored'
<1>1. ASSUME UNCHANGED jar PROVE TokensBacked'
  BY <1>1 DEF IInv, TokensBacked
<1>2. ASSUME UNCHANGED reply PROVE AckedIsStored'
  BY <1>2 DEF IInv, AckedIsStored
<1> QED
  BY <1>1, <1>2

LEMMA InsertUserIInv ==
  ASSUME IInv, NEW w \in Worker, InsertUser(w)
  PROVE  IInv'
<1>1. /\ pc[w] # "idle" /\ req[w] \in SignRequest
      /\ req[w] \in Request /\ req[w].email \in Email /\ req[w].pw \in Password
  BY SignRequestFields DEF InsertUser, IInv, WorkersHoldRequests, SignSteps
<1>2. faults' \in 0..MaxFaults
  BY FaultCount DEF InsertUser, IInv
<1>3. ASSUME UNCHANGED <<users, jar>>, Answer(w, "failed", NoRow)
      PROVE  IInv'
  BY <1>1, <1>2, <1>3, PlainAnswerIInv DEF Tag
<1>4. ASSUME NEW id \in FreshIds,
             users' = users \cup {NewUser(id, req[w])},
             \/ /\ pc' = [pc EXCEPT ![w] = "sign"]
                /\ row' = [row EXCEPT ![w] = id]
                /\ UNCHANGED <<req, jar, reply>>
             \/ Answer(w, "failed", NoRow) /\ UNCHANGED jar
      PROVE  IInv'
  <2> DEFINE new == NewUser(id, req[w])
  <2>1. /\ new \in UserRow /\ new.id = id
        /\ new.email = Clip[req[w].email] /\ Accepts(new.password, req[w].pw)
        /\ id \in UserId
    BY <1>1, ClipStored DEF NewUser, UserRow, FreshIds, HashOf, Accepts
  <2>2. /\ users' \subseteq UserRow /\ users \subseteq users' /\ new \in users'
        /\ users' = users \cup {new}
    BY <1>4, <2>1 DEF IInv, TypeOK
  <2> HIDE DEF new
  <2>3. RowsClipped'
    BY <1>1, <2>1, <2>2, ClipStored DEF IInv, RowsClipped
  <2>4. TokensBacked'
    BY <1>4, <2>2, GrowthKeeps
  <2>5. CASE /\ pc' = [pc EXCEPT ![w] = "sign"]
             /\ row' = [row EXCEPT ![w] = id]
             /\ UNCHANGED <<req, jar, reply>>
    <3>1. TypeOK'
      BY <1>2, <2>1, <2>2, <2>5 DEF IInv, TypeOK, PC, SignSteps
    <3>2. WorkersHoldRequests'
      BY <1>1, <2>5 DEF IInv, TypeOK, WorkersHoldRequests
    <3>3. SignBacked'
      <4> SUFFICES ASSUME NEW v \in Worker, pc'[v] = "sign"
                   PROVE  \E u \in users' : /\ u.id = row'[v]
                                            /\ u.email = Clip[req'[v].email]
                                            /\ Accepts(u.password, req'[v].pw)
        BY DEF SignBacked, Accepts, HashOf
      <4>1. CASE v = w
        BY <4>1, <2>1, <2>2, <2>5 DEF IInv, TypeOK
      <4>2. CASE v # w
        BY <4>2, <2>2, <2>5 DEF IInv, TypeOK, SignBacked
      <4> QED
        BY <4>1, <4>2
    <3>4. AckedIsStored'
      BY <2>2, <2>5, GrowthKeeps
    <3> QED
      BY <2>3, <2>4, <3>1, <3>2, <3>3, <3>4 DEF IInv
  <2>6. CASE Answer(w, "failed", NoRow) /\ UNCHANGED jar
    <3>1. TypeOK'
      BY <1>1, <1>2, <2>2, <2>6 DEF IInv, TypeOK, Answer, PC, Reply, Tag
    <3>2. WorkersHoldRequests'
      BY <2>6 DEF IInv, TypeOK, WorkersHoldRequests, Answer, SignSteps
    <3>3. SignBacked'
      BY <2>2, <2>6 DEF IInv, TypeOK, SignBacked, Answer
    <3>4. AckedIsStored'
      BY <2>6 DEF Answer, AckedIsStored
    <3> QED
      BY <2>3, <2>4, <3>1, <3>2, <3>3, <3>4 DEF IInv
  <2> QED
    BY <1>4, <2>5, <2>6
<1> QED
  BY <1>3, <1>4 DEF InsertUser, InsertFailed

LEMMA ReadHashIInv ==
  ASSUME IInv, NEW w \in Worker, ReadHash(w)
  PROVE  IInv'
<1>1. /\ pc[w] # "idle" /\ UNCHANGED users
      /\ req[w] \in SignRequest
      /\ faults' \in 0..MaxFaults
  BY FaultCount DEF ReadHash, IInv, WorkersHoldRequests, SignSteps
<1>2. ASSUME NEW tag \in {"nouser", "badpw"}, Answer(w, tag, NoRow), UNCHANGED jar
      PROVE  IInv'
  BY <1>1, <1>2, PlainAnswerIInv DEF Tag
<1>3. ASSUME NEW addr \in Reads(req[w]), NEW u \in users, RowsOf(addr) = {u},
             Accepts(u.password, req[w].pw),
             pc' = [pc EXCEPT ![w] = "sign"],
             row' = [row EXCEPT ![w] = u.id],
             UNCHANGED <<req, jar, reply>>
      PROVE  IInv'
  <2>1. u.email = addr /\ u.id \in UserId
    BY <1>3 DEF RowsOf, IInv, TypeOK, UserRow
  <2>2. u.email = Clip[req[w].email]
    BY <1>1, <2>1, ReadsClip DEF IInv, RowsClipped
  <2>3. TypeOK'
    BY <1>1, <1>3, <2>1 DEF IInv, TypeOK, PC, SignSteps
  <2>4. WorkersHoldRequests'
    BY <1>1, <1>3, SignRequestFields DEF IInv, TypeOK, WorkersHoldRequests
  <2>5. SignBacked'
    <3> SUFFICES ASSUME NEW v \in Worker, pc'[v] = "sign"
                 PROVE  \E x \in users' : /\ x.id = row'[v]
                                          /\ x.email = Clip[req'[v].email]
                                          /\ Accepts(x.password, req'[v].pw)
      BY DEF SignBacked, Accepts, HashOf
    <3>1. CASE v = w
      BY <3>1, <1>1, <1>3, <2>2 DEF IInv, TypeOK
    <3>2. CASE v # w
      BY <3>2, <1>1, <1>3 DEF IInv, TypeOK, SignBacked
    <3> QED
      BY <3>1, <3>2
  <2>6. RowsClipped' /\ TokensBacked' /\ AckedIsStored'
    BY <1>1, <1>3, GrowthKeeps DEF IInv, RowsClipped
  <2> QED
    BY <2>3, <2>4, <2>5, <2>6 DEF IInv
<1> QED
  BY <1>2, <1>3 DEF ReadHash, PasswordPasses

LEMMA LogUserInIInv ==
  ASSUME IInv, NEW w \in Worker, LogUserIn(w)
  PROVE  IInv'
<1>1. /\ pc[w] = "sign" /\ UNCHANGED users
      /\ req[w] \in SignRequest /\ req[w] \in Request /\ req[w].client \in Client
      /\ faults' \in 0..MaxFaults
  BY FaultCount, SignRequestFields
     DEF LogUserIn, IInv, WorkersHoldRequests, SignSteps
<1>2. PICK u \in users : /\ u.id = row[w]
                         /\ u.email = Clip[req[w].email]
                         /\ Accepts(u.password, req[w].pw)
  BY <1>1 DEF IInv, SignBacked
<1>3. u.id \in UserId
  BY DEF IInv, TypeOK, UserRow
<1>4. CASE Answer(w, "failed", NoRow) /\ UNCHANGED jar
  BY <1>1, <1>4, PlainAnswerIInv DEF Tag
<1>5. ASSUME NEW sub \in Reads(req[w]),
             jar' = [jar EXCEPT ![req[w].client] =
                       [sub |-> sub, row |-> row[w],
                        intact |-> TokenIntact(EmailLength[sub])]],
             Answer(w, "welcome", row[w])
      PROVE  IInv'
  <2> DEFINE token == [sub |-> sub, row |-> row[w],
                       intact |-> TokenIntact(EmailLength[sub])]
  <2>1. token \in Token
    BY <1>1, <1>2, <1>3, ReadsClip DEF Token, TokenIntact
  <2>2. TypeOK'
    BY <1>1, <1>2, <1>3, <1>5, <2>1
       DEF IInv, TypeOK, Answer, PC, Cookie, Reply, Tag
  <2>3. WorkersHoldRequests' /\ SignBacked' /\ RowsClipped'
    BY <1>1, <1>5 DEF IInv, TypeOK, Answer, WorkersHoldRequests, SignBacked,
         RowsClipped, SignSteps
  <2>4. AckedIsStored'
    BY <1>1, <1>2, <1>5 DEF Answer, AckedIsStored
  <2>5. TokensBacked'
    <3> SUFFICES ASSUME NEW c \in Client, jar'[c] # NoToken, jar'[c].intact
                 PROVE  \E x \in users' : x.id = jar'[c].row /\ x.email = jar'[c].sub
      BY DEF TokensBacked
    <3>1. CASE c = req[w].client
      <4>1. jar'[c] = token
        BY <1>5, <3>1 DEF IInv, TypeOK
      <4>2. sub = Clip[req[w].email]
        BY <1>1, <4>1, UsableIsStored
      <4> QED
        BY <1>1, <1>2, <4>1, <4>2
    <3>2. CASE c # req[w].client
      BY <1>1, <1>5, <3>2 DEF IInv, TypeOK, TokensBacked
    <3> QED
      BY <3>1, <3>2
  <2> QED
    BY <2>2, <2>3, <2>4, <2>5 DEF IInv
<1> QED
  BY <1>4, <1>5 DEF LogUserIn

LEMMA RestartIInv ==
  ASSUME IInv, Restart
  PROVE  IInv'
BY DEF Restart, IInv, TypeOK, PC, WorkersHoldRequests, RowsClipped, SignBacked,
   TokensBacked, AckedIsStored, SignSteps

LEMMA StutterIInv ==
  ASSUME IInv, UNCHANGED vars
  PROVE  IInv'
BY DEF vars, IInv, TypeOK, WorkersHoldRequests, RowsClipped, SignBacked,
   TokensBacked, AckedIsStored

LEMMA NextIInv == IInv /\ [Next]_vars => IInv'
<1> SUFFICES ASSUME IInv, [Next]_vars PROVE IInv'
  OBVIOUS
<1>1. CASE Restart
  BY <1>1, RestartIInv
<1>2. ASSUME NEW w \in Worker, Arrive(w) PROVE IInv'
  BY <1>2, ArriveIInv
<1>3. ASSUME NEW w \in Worker, Advance(w) PROVE IInv'
  BY <1>3, LookUpForFormIInv, LookUpForPageIInv, UserExistsIInv,
     InsertUserIInv, ReadHashIInv, LogUserInIInv DEF Advance
<1>4. CASE UNCHANGED vars
  BY <1>4, StutterIInv
<1> QED
  BY <1>1, <1>2, <1>3, <1>4 DEF Next, Serve

-----------------------------------------------------------------------------
(* The theorems. *)

THEOREM Invariance == Spec => []IInv
BY InitIInv, NextIInv, PTL DEF Spec

\* Every variable keeps its type.
THEOREM TypeCorrect == Spec => []TypeOK
<1>1. IInv => TypeOK
  BY DEF IInv
<1> QED
  BY <1>1, Invariance, PTL

\* A cookie that decodes always names the address of the row it was signed
\* for, whatever the lengths of the addresses and however the threads
\* interleave.
THEOREM TokensAreBacked == Spec => []TokensBacked
<1>1. IInv => TokensBacked
  BY DEF IInv
<1> QED
  BY <1>1, Invariance, PTL

\* Nobody is welcomed without a stored account that accepts the password.
THEOREM WelcomeIsStored == Spec => []AckedIsStored
<1>1. IInv => AckedIsStored
  BY DEF IInv
<1> QED
  BY <1>1, Invariance, PTL

-----------------------------------------------------------------------------
(* How many rows an address can get, for any finite number of threads: at  *)
(* most one for each thread and one for each failed call.                  *)

\* A worker at the insert counts as the row it may add.
RowsAndInserts ==
  \A e \in Email :
    Exact(e) =>
      Cardinality(RowsOf(e)) + Cardinality(Inserting(e)) <= Cardinality(Worker) + faults

FiniteServer == IsFiniteSet(Worker)

CountInv == IsFiniteSet(users) /\ RowsAndInserts

-----------------------------------------------------------------------------
(* Counting. *)

LEMMA CountsAreNumbers ==
  ASSUME IsFiniteSet(Worker), IsFiniteSet(users), NEW e
  PROVE  /\ IsFiniteSet(RowsOf(e)) /\ Cardinality(RowsOf(e)) \in Nat
         /\ IsFiniteSet(Inserting(e)) /\ Cardinality(Inserting(e)) \in Nat
         /\ Cardinality(Inserting(e)) <= Cardinality(Worker)
         /\ Cardinality(Worker) \in Nat
<1>1. RowsOf(e) \subseteq users /\ Inserting(e) \subseteq Worker
  BY DEF RowsOf, Inserting
<1> QED
  BY <1>1, FS_Subset, FS_CardinalityType

\* An address within its array is stored, and read back, as itself, and no
\* longer address is stored as it.
LEMMA ExactAlone ==
  ASSUME NEW e \in Email, Exact(e), NEW r \in SignRequest
  PROVE  /\ Clip[r.email] = e <=> r.email = e
         /\ r.email = e => Reads(r) = {e}
BY EmailAssumption DEF Exact, Reads, SignRequest, EMAIL_CHAR_SIZE

LEMMA InitCountInv == IsFiniteSet(Worker) /\ Init => CountInv
<1> SUFFICES ASSUME IsFiniteSet(Worker), Init PROVE CountInv
  OBVIOUS
<1>1. IsFiniteSet(users) /\ faults = 0
  BY FS_EmptySet DEF Init
<1>2. ASSUME NEW e \in Email PROVE RowsOf(e) = {} /\ Inserting(e) = {}
  BY DEF Init, RowsOf, Inserting
<1>3. Cardinality(Worker) \in Nat /\ Cardinality({}) = 0
  BY FS_CardinalityType, FS_EmptySet
<1> QED
  BY <1>1, <1>2, <1>3 DEF CountInv, RowsAndInserts

-----------------------------------------------------------------------------
(* Steps. *)

\* A step that adds no row and takes no worker to the insert.
LEMMA ElsewhereCountInv ==
  ASSUME IsFiniteSet(Worker), TypeOK, TypeOK', CountInv, UNCHANGED users,
         faults' >= faults,
         \A w \in Worker : pc'[w] = "insert" => pc[w] = "insert" /\ req'[w] = req[w]
  PROVE  CountInv'
<1>1. IsFiniteSet(users')
  BY DEF CountInv
<1>2. ASSUME NEW e \in Email, Exact(e)
      PROVE  Cardinality(RowsOf(e)') + Cardinality(Inserting(e)')
               <= Cardinality(Worker) + faults'
  <2>1. RowsOf(e)' = RowsOf(e) /\ Inserting(e)' \subseteq Inserting(e)
    BY DEF RowsOf, Inserting
  <2>2. Cardinality(Inserting(e)') <= Cardinality(Inserting(e))
        /\ Cardinality(Inserting(e)') \in Nat
    BY <2>1, CountsAreNumbers, FS_Subset, FS_CardinalityType DEF CountInv
  <2>3. Cardinality(RowsOf(e)) + Cardinality(Inserting(e)) <= Cardinality(Worker) + faults
    BY <1>2 DEF CountInv, RowsAndInserts
  <2>4. faults \in Nat /\ faults' \in Nat
    BY DEF TypeOK
  <2> QED
    BY <2>1, <2>2, <2>3, <2>4, CountsAreNumbers DEF CountInv
<1> QED
  BY <1>1, <1>2 DEF CountInv, RowsAndInserts, Exact

\* One more worker at the insert: there was no row, or the check failed.
LEMMA UserExistsCountInv ==
  ASSUME IsFiniteSet(Worker), IInv, TypeOK', CountInv, NEW w \in Worker, UserExists(w)
  PROVE  CountInv'
<1>1. /\ req[w] \in SignRequest /\ UNCHANGED users
      /\ faults \in Nat /\ faults' \in Nat /\ faults' >= faults
  BY DEF IInv, TypeOK, WorkersHoldRequests, UserExists, SignSteps, Works, Fault
<1>2. CASE pc' = [pc EXCEPT ![w] = "idle"]
  <2>1. \A v \in Worker : v # w => req'[v] = req[v]
    BY DEF UserExists, Answer, Goto, IInv, TypeOK
  <2>2. \A v \in Worker : pc'[v] = "insert" => pc[v] = "insert" /\ req'[v] = req[v]
    BY <1>2, <2>1 DEF IInv, TypeOK
  <2> QED
    BY <1>1, <2>2, ElsewhereCountInv DEF IInv
<1>3. CASE pc' = [pc EXCEPT ![w] = "insert"] /\ UNCHANGED req
  <2>1. ASSUME NEW e \in Email, Exact(e)
        PROVE  Cardinality(RowsOf(e)') + Cardinality(Inserting(e)')
                 <= Cardinality(Worker) + faults'
    <3>1. RowsOf(e)' = RowsOf(e)
      BY <1>1 DEF RowsOf
    <3>2. Cardinality(RowsOf(e)) + Cardinality(Inserting(e)) <= Cardinality(Worker) + faults
      BY <2>1 DEF CountInv, RowsAndInserts
    <3>3. CASE req[w].email # e
      <4>1. Inserting(e)' = Inserting(e)
        BY <1>3, <3>3 DEF Inserting, UserExists, IInv, TypeOK
      <4> QED
        BY <1>1, <3>1, <3>2, <4>1, CountsAreNumbers DEF CountInv
    <3>4. CASE req[w].email = e
      <4>1. Inserting(e)' = Inserting(e) \cup {w} /\ w \notin Inserting(e)
        BY <1>3, <3>4 DEF Inserting, UserExists, IInv, TypeOK
      <4>2. /\ Cardinality(Inserting(e)') = Cardinality(Inserting(e)) + 1
            /\ Cardinality(Inserting(e)') <= Cardinality(Worker)
        <5>1. Inserting(e)' \subseteq Worker
          BY DEF Inserting
        <5> QED
          BY <4>1, <5>1, CountsAreNumbers, FS_AddElement, FS_Subset DEF CountInv
      <4>3. RowsOf(e) = {} \/ faults' = faults + 1
        BY <1>1, <1>3, <2>1, <3>4, ExactAlone
           DEF UserExists, Taken, Fault, Works, Answer, Goto, IInv, TypeOK
      <4> QED
        BY <1>1, <3>1, <3>2, <4>2, <4>3, CountsAreNumbers, FS_EmptySet DEF CountInv
    <3> QED
      BY <3>3, <3>4
  <2> QED
    BY <1>1, <2>1 DEF CountInv, RowsAndInserts, Exact
<1> QED
  BY <1>2, <1>3 DEF UserExists, Answer, Goto

\* A worker at the insert becomes a row, or nothing.
LEMMA InsertUserCountInv ==
  ASSUME IsFiniteSet(Worker), IInv, TypeOK', CountInv, NEW w \in Worker, InsertUser(w)
  PROVE  CountInv'
<1>1. /\ req[w] \in SignRequest /\ pc[w] = "insert"
      /\ faults \in Nat /\ faults' \in Nat /\ faults' >= faults
  BY DEF IInv, TypeOK, WorkersHoldRequests, InsertUser, SignSteps, Works, Fault
<1>2. /\ pc'[w] # "insert"
      /\ \A v \in Worker : v # w => pc'[v] = pc[v] /\ req'[v] = req[v]
  BY DEF InsertUser, InsertFailed, Answer, IInv, TypeOK
<1>3. CASE UNCHANGED users
  BY <1>1, <1>2, <1>3, ElsewhereCountInv DEF IInv
<1>4. ASSUME NEW id \in FreshIds, users' = users \cup {NewUser(id, req[w])}
      PROVE  CountInv'
  <2> DEFINE new == NewUser(id, req[w])
  <2>1. IsFiniteSet(users')
    BY <1>4, FS_AddElement DEF CountInv
  <2>2. ASSUME NEW e \in Email, Exact(e)
        PROVE  Cardinality(RowsOf(e)') + Cardinality(Inserting(e)')
                 <= Cardinality(Worker) + faults'
    <3>1. Cardinality(RowsOf(e)) + Cardinality(Inserting(e)) <= Cardinality(Worker) + faults
      BY <2>2 DEF CountInv, RowsAndInserts
    <3>2. new.email = e <=> req[w].email = e
      BY <1>1, <2>2, ExactAlone DEF NewUser
    <3>3. CASE req[w].email # e
      <4>1. RowsOf(e)' = RowsOf(e) /\ Inserting(e)' = Inserting(e)
        BY <1>1, <1>2, <1>4, <3>2, <3>3 DEF RowsOf, Inserting
      <4> QED
        BY <1>1, <3>1, <4>1, CountsAreNumbers DEF CountInv
    <3>4. CASE req[w].email = e
      <4>1. /\ RowsOf(e)' = RowsOf(e) \cup {new}
            /\ Inserting(e)' = Inserting(e) \ {w} /\ w \in Inserting(e)
        BY <1>1, <1>2, <1>4, <3>2, <3>4 DEF RowsOf, Inserting
      <4>2. Cardinality(Inserting(e)') = Cardinality(Inserting(e)) - 1
        BY <4>1, CountsAreNumbers, FS_RemoveElement DEF CountInv
      <4>3. Cardinality(RowsOf(e)') <= Cardinality(RowsOf(e)) + 1
            /\ Cardinality(RowsOf(e)') \in Nat
        <5>1. IsFiniteSet(RowsOf(e)) /\ Cardinality(RowsOf(e)) \in Nat
          BY CountsAreNumbers DEF CountInv
        <5> HIDE DEF new
        <5>2. /\ IsFiniteSet(RowsOf(e) \cup {new})
              /\ Cardinality(RowsOf(e) \cup {new}) =
                   IF new \in RowsOf(e) THEN Cardinality(RowsOf(e))
                   ELSE Cardinality(RowsOf(e)) + 1
          BY <5>1, FS_AddElement
        <5> QED
          BY <4>1, <5>1, <5>2
      <4> QED
        BY <1>1, <3>1, <4>2, <4>3, CountsAreNumbers DEF CountInv
    <3> QED
      BY <3>3, <3>4
  <2> QED
    BY <2>1, <2>2 DEF CountInv, RowsAndInserts, Exact
<1> QED
  BY <1>3, <1>4 DEF InsertUser

\* A request is taken: no handler begins at the insert.
LEMMA ArriveCountInv ==
  ASSUME IsFiniteSet(Worker), IInv, TypeOK', CountInv, NEW w \in Worker, Arrive(w)
  PROVE  CountInv'
<1>1. UNCHANGED <<users, faults>>
  BY DEF Arrive, ApiRegister, ApiLogin, ApiRefuse, PostIndex, GetPage, Logout, Begin
<1>2. \/ UNCHANGED <<pc, req>>
      \/ \E r, at : /\ at # "insert"
                    /\ pc' = [pc EXCEPT ![w] = at]
                    /\ req' = [req EXCEPT ![w] = r]
  BY DEF Arrive, ApiRegister, ApiLogin, ApiRefuse, PostIndex, GetPage, Logout, Begin
<1>3. \A v \in Worker : pc'[v] = "insert" => pc[v] = "insert" /\ req'[v] = req[v]
  BY <1>2 DEF IInv, TypeOK
<1>4. faults' >= faults
  BY <1>1 DEF IInv, TypeOK
<1> QED
  BY <1>1, <1>3, <1>4, ElsewhereCountInv DEF IInv

\* The steps of a handler that neither check nor insert.
LEMMA OtherStepsCountInv ==
  ASSUME IsFiniteSet(Worker), IInv, TypeOK', CountInv, NEW w \in Worker,
         LookUpForForm(w) \/ LookUpForPage(w) \/ ReadHash(w) \/ LogUserIn(w)
  PROVE  CountInv'
<1>1. UNCHANGED users /\ faults' >= faults
  <2>1. UNCHANGED users
    BY DEF LookUpForForm, LookUpForPage, ReadHash, LogUserIn
  <2>2. Works \/ \E call : Fault(call)
    BY DEF LookUpForForm, LookUpForPage, ReadHash, LogUserIn, CurrentUser
  <2>3. faults \in Nat
    BY DEF IInv, TypeOK
  <2> QED
    BY <2>1, <2>2, <2>3 DEF Works, Fault
<1>2. \E at : at # "insert" /\ pc' = [pc EXCEPT ![w] = at]
  BY DEF LookUpForForm, LookUpForPage, ReadHash, LogUserIn, Answer, Goto
<1>3. \A v \in Worker : v # w => req'[v] = req[v]
  BY DEF LookUpForForm, LookUpForPage, ReadHash, LogUserIn, Answer, Goto, IInv, TypeOK
<1>4. \A v \in Worker : pc'[v] = "insert" => pc[v] = "insert" /\ req'[v] = req[v]
  BY <1>2, <1>3 DEF IInv, TypeOK
<1> QED
  BY <1>1, <1>4, ElsewhereCountInv DEF IInv

LEMMA NextCountInv ==
  IsFiniteSet(Worker) /\ IInv /\ IInv' /\ CountInv /\ [Next]_vars => CountInv'
<1> SUFFICES ASSUME IsFiniteSet(Worker), IInv, IInv', CountInv, [Next]_vars
             PROVE  CountInv'
  OBVIOUS
<1>0. TypeOK /\ TypeOK' /\ faults \in Nat
  BY DEF IInv, TypeOK
<1>1. CASE Restart
  <2>1. UNCHANGED <<users, faults>> /\ \A w \in Worker : pc'[w] # "insert"
    BY <1>1 DEF Restart
  <2> QED
    BY <1>0, <2>1, ElsewhereCountInv
<1>2. CASE UNCHANGED vars
  BY <1>0, <1>2, ElsewhereCountInv DEF vars
<1>3. ASSUME NEW w \in Worker, Arrive(w) PROVE CountInv'
  BY <1>0, <1>3, ArriveCountInv
<1>4. ASSUME NEW w \in Worker, Advance(w) PROVE CountInv'
  BY <1>0, <1>4, UserExistsCountInv, InsertUserCountInv, OtherStepsCountInv DEF Advance
<1> QED
  BY <1>1, <1>2, <1>3, <1>4 DEF Next, Serve

-----------------------------------------------------------------------------
\* However many registrations of an address are sent, at once or one after
\* the other, it gets at most one row for each thread of the server and one
\* for each call that failed.
THEOREM RowsAreBounded == FiniteServer /\ Spec => []DuplicatesBounded
<1>1. FiniteServer /\ Init => CountInv
  BY InitCountInv DEF FiniteServer
<1>2. FiniteServer /\ IInv /\ IInv' /\ CountInv /\ [Next]_vars => CountInv'
  BY NextCountInv DEF FiniteServer
<1>3. Spec => []IInv
  BY Invariance
<1>4. FiniteServer /\ IInv /\ CountInv => DuplicatesBounded
  <2> SUFFICES ASSUME FiniteServer, IInv, CountInv, NEW e \in Email, Exact(e)
               PROVE  Cardinality(RowsOf(e)) <= Cardinality(Worker) + faults
    BY DEF DuplicatesBounded
  <2>1. Cardinality(RowsOf(e)) + Cardinality(Inserting(e)) <= Cardinality(Worker) + faults
    BY DEF CountInv, RowsAndInserts
  <2> QED
    BY <2>1, CountsAreNumbers DEF CountInv, IInv, TypeOK, FiniteServer
<1>5. FiniteServer => []FiniteServer
  <2>1. FiniteServer' <=> FiniteServer
    BY DEF FiniteServer
  <2> QED
    BY <2>1, PTL
<1> QED
  BY <1>1, <1>2, <1>3, <1>4, <1>5, PTL DEF Spec

-----------------------------------------------------------------------------
(* What becomes of an address with two rows. *)

\* Who is at the check or the insert is registering.
Registers ==
  \A w \in Worker :
    pc[w] \in {"exists", "insert"} => req[w].op \in {"api_register", "form_signup"}

LEMMA NextRegisters == IInv /\ Registers /\ [Next]_vars => Registers'
<1> SUFFICES ASSUME IInv, Registers, [Next]_vars PROVE Registers'
  OBVIOUS
<1>0. pc \in [Worker -> PC] /\ DOMAIN req = Worker
  BY DEF IInv, TypeOK
<1>1. CASE Restart \/ UNCHANGED vars
  BY <1>1 DEF Registers, Restart, vars
<1>2. ASSUME NEW w \in Worker, Arrive(w) PROVE Registers'
  <2>1. \/ UNCHANGED <<pc, req>>
        \/ \E r, at : /\ at = "exists" => r.op = "api_register"
                      /\ at # "insert"
                      /\ pc' = [pc EXCEPT ![w] = at]
                      /\ req' = [req EXCEPT ![w] = r]
    BY <1>2 DEF Arrive, ApiRegister, ApiLogin, ApiRefuse, PostIndex, GetPage, Logout,
                Begin, AccountRequest
  <2> QED
    BY <1>0, <2>1 DEF Registers
<1>3. ASSUME NEW w \in Worker, LookUpForForm(w) PROVE Registers'
  <2>1. \/ UNCHANGED req /\ req[w].op = "form_signup" /\ pc' = [pc EXCEPT ![w] = "exists"]
        \/ UNCHANGED req /\ pc' = [pc EXCEPT ![w] = "pwhash"]
        \/ pc' = [pc EXCEPT ![w] = "idle"] /\ req' = [req EXCEPT ![w] = NoRequest]
    BY <1>3 DEF LookUpForForm, Answer, Goto
  <2> QED
    BY <1>0, <2>1 DEF Registers
<1>4. ASSUME NEW w \in Worker, UserExists(w) PROVE Registers'
  <2>1. pc[w] = "exists"
    BY <1>4 DEF UserExists
  <2>2. \/ UNCHANGED req /\ pc' = [pc EXCEPT ![w] = "insert"]
        \/ pc' = [pc EXCEPT ![w] = "idle"] /\ req' = [req EXCEPT ![w] = NoRequest]
    BY <1>4 DEF UserExists, Answer, Goto
  <2> QED
    BY <1>0, <2>1, <2>2 DEF Registers
<1>5. ASSUME NEW w \in Worker,
             LookUpForPage(w) \/ InsertUser(w) \/ ReadHash(w) \/ LogUserIn(w)
      PROVE  Registers'
  <2>1. \/ UNCHANGED req /\ pc' = [pc EXCEPT ![w] = "sign"]
        \/ pc' = [pc EXCEPT ![w] = "idle"] /\ req' = [req EXCEPT ![w] = NoRequest]
    BY <1>5 DEF LookUpForPage, InsertUser, InsertFailed, ReadHash, LogUserIn, Answer
  <2> QED
    BY <1>0, <2>1 DEF Registers
<1> QED
  BY <1>1, <1>2, <1>3, <1>4, <1>5 DEF Next, Serve, Advance

LEMMA RowsStay == Next => users \subseteq users'
BY DEF Next, Serve, Restart, Arrive, Advance, ApiRegister, ApiLogin, ApiRefuse,
       PostIndex, GetPage, Logout, Begin, LookUpForForm, LookUpForPage,
       UserExists, InsertUser, ReadHash, LogUserIn

\* The step by which a login gets past its password wants a single row.
LEMMA LockedOutSteps ==
  ASSUME IInv, Registers, [Next]_vars, NEW e \in Email, LockedOut(e)
  PROVE  LockedOut(e)'
<1>0. pc \in [Worker -> PC] /\ DOMAIN req = Worker
  BY DEF IInv, TypeOK
<1>1. Exact(e)'
  BY DEF LockedOut, Exact
<1>2. \E u, v \in RowsOf(e)' : u # v
  BY RowsStay DEF LockedOut, RowsOf, vars
<1>3. ASSUME NEW w \in Worker PROVE ~LoggingIn(w, e)'
  <2>0. ~LoggingIn(w, e)
    BY DEF LockedOut
  <2>1. SUFFICES ASSUME pc'[w] # pc[w] \/ req'[w] # req[w], pc'[w] = "sign"
                 PROVE  ~LoggingIn(w, e)'
    BY <2>0 DEF LoggingIn
  <2>2. ~Restart /\ ~UNCHANGED vars
    BY <2>1 DEF Restart, vars
  <2>3. PICK v \in Worker : Arrive(v) \/ Advance(v)
    BY <2>2 DEF Next, Serve
  <2>4. /\ \E at : pc' = [pc EXCEPT ![v] = at]
        /\ \E r : req' = [req EXCEPT ![v] = r] \/ req' = req
        \/ UNCHANGED <<pc, req>>
    BY <2>3 DEF Arrive, ApiRegister, ApiLogin, ApiRefuse, PostIndex, GetPage, Logout,
         Begin, Advance, LookUpForForm, LookUpForPage, UserExists, InsertUser,
         InsertFailed, ReadHash, LogUserIn, Answer, Goto
  <2>5. v = w
    BY <1>0, <2>1, <2>4
  <2>6. InsertUser(w) \/ ReadHash(w)
    BY <1>0, <2>1, <2>3, <2>5
       DEF Arrive, ApiRegister, ApiLogin, ApiRefuse, PostIndex, GetPage, Logout,
           Begin, Advance, LookUpForForm, LookUpForPage, UserExists, LogUserIn,
           Answer, Goto
  <2>7. UNCHANGED req
    BY <1>0, <2>1, <2>6 DEF InsertUser, InsertFailed, ReadHash, Answer
  <2>8. CASE InsertUser(w)
    BY <2>7, <2>8 DEF InsertUser, Registers, LoggingIn
  <2>9. CASE ReadHash(w) /\ req[w].email = e
    <3>1. req[w] \in SignRequest
      BY <2>9 DEF ReadHash, IInv, WorkersHoldRequests, SignSteps
    <3>2. Reads(req[w]) = {e}
      BY <2>9, <3>1, ExactAlone DEF LockedOut
    <3>3. \E u : RowsOf(e) = {u}
      BY <1>0, <2>1, <2>9, <3>2 DEF ReadHash, Answer
    <3> QED
      BY <3>3 DEF LockedOut
  <2> QED
    BY <2>6, <2>7, <2>8, <2>9 DEF LoggingIn
<1> QED
  BY <1>1, <1>2, <1>3 DEF LockedOut

\* Two accounts of one address shut each other out for good.
THEOREM LockoutsArePermanent == Spec => LockoutIsPermanent
<1>1. Init => Registers
  BY DEF Init, Registers
<1>2. IInv /\ Registers /\ [Next]_vars => Registers'
  BY NextRegisters
<1>3. IInv /\ Registers /\ [Next]_vars =>
        [\A e \in Email : LockedOut(e) => LockedOut(e)']_vars
  BY LockedOutSteps
<1>4. Spec => []IInv
  BY Invariance
<1> QED
  BY <1>1, <1>2, <1>3, <1>4, PTL DEF Spec, LockoutIsPermanent

-----------------------------------------------------------------------------
(* What a cookie means, once its address has one row. *)

\* Only a check that finds no row, or fails, takes a registration on to the
\* insert.
LEMMA SettledNoInsert ==
  ASSUME IInv, [Next]_vars, NEW e \in Email, Settled(e), UNCHANGED faults
  PROVE  Inserting(e)' = {}
<1>0. pc \in [Worker -> PC] /\ DOMAIN req = Worker /\ faults \in Nat
  BY FaultAssumption DEF IInv, TypeOK
<1> SUFFICES ASSUME NEW w \in Worker, pc'[w] = "insert", req'[w].email = e
             PROVE  FALSE
  BY DEF Inserting
<1>1. ~(pc[w] = "insert" /\ req[w].email = e)
  BY DEF Settled, Inserting
<1>2. ~Restart /\ ~UNCHANGED vars
  BY <1>1 DEF Restart, vars
<1>3. PICK v \in Worker : Arrive(v) \/ Advance(v)
  BY <1>2 DEF Next, Serve
<1>4. /\ \E at : pc' = [pc EXCEPT ![v] = at]
      /\ \E r : req' = [req EXCEPT ![v] = r] \/ req' = req
      \/ UNCHANGED <<pc, req>>
  BY <1>3 DEF Arrive, ApiRegister, ApiLogin, ApiRefuse, PostIndex, GetPage, Logout,
       Begin, Advance, LookUpForForm, LookUpForPage, UserExists, InsertUser,
       InsertFailed, ReadHash, LogUserIn, Answer, Goto
<1>5. v = w
  BY <1>0, <1>1, <1>4
<1>6. UserExists(w)
  <2>1. ~UNCHANGED <<pc, req>>
    BY <1>1
  <2> QED
    BY <1>0, <1>3, <1>5, <2>1
       DEF Arrive, ApiRegister, ApiLogin, ApiRefuse, PostIndex, GetPage, Logout, Begin,
           Advance, LookUpForForm, LookUpForPage, InsertUser, InsertFailed, ReadHash,
           LogUserIn, Answer, Goto
<1>7. req[w] \in SignRequest /\ UNCHANGED req
  BY <1>0, <1>6 DEF IInv, WorkersHoldRequests, UserExists, SignSteps, Answer, Goto
<1>8. Reads(req[w]) = {e} /\ Taken(e)
  BY <1>7, ExactAlone DEF Settled, Taken
<1> QED
  BY <1>0, <1>6, <1>8 DEF UserExists, Answer, Fault

LEMMA SettledSteps ==
  ASSUME IInv, IInv', [Next]_vars, NEW e \in Email, Settled(e), UNCHANGED faults
  PROVE  /\ Settled(e)'
         /\ \A c \in Client :
              jar'[c] # NoToken /\ jar'[c].sub = e =>
                Identities(jar[c])' \subseteq {jar'[c].row}
<1>1. PICK u \in users : RowsOf(e) = {u}
  BY DEF Settled
<1>2. RowsOf(e)' = {u}
  <2>1. CASE UNCHANGED users
    BY <1>1, <2>1 DEF RowsOf
  <2>2. CASE ~UNCHANGED users
    <3>1. PICK w \in Worker : InsertUser(w)
      BY <2>2 DEF Next, Serve, Restart, vars, Arrive, Advance, ApiRegister, ApiLogin,
           ApiRefuse, PostIndex, GetPage, Logout, Begin, LookUpForForm, LookUpForPage,
           UserExists, ReadHash, LogUserIn
    <3>2. PICK id : users' = users \cup {NewUser(id, req[w])}
      BY <2>2, <3>1 DEF InsertUser
    <3>3. pc[w] = "insert" /\ req[w] \in SignRequest
      BY <3>1 DEF InsertUser, IInv, WorkersHoldRequests, SignSteps
    <3>4. req[w].email # e
      BY <3>3 DEF Settled, Inserting
    <3>5. NewUser(id, req[w]).email # e
      BY <3>3, <3>4, ExactAlone DEF NewUser, Settled
    <3> QED
      BY <1>1, <3>2, <3>5 DEF RowsOf
  <2> QED
    BY <2>1, <2>2
<1>3. Settled(e)'
  BY <1>2, SettledNoInsert DEF Settled, Exact, RowsOf
<1>4. ASSUME NEW c \in Client, jar'[c] # NoToken, jar'[c].sub = e
      PROVE  Identities(jar[c])' \subseteq {jar'[c].row}
  <2>1. CASE jar'[c].intact
    <3>1. PICK x \in users' : x.id = jar'[c].row /\ x.email = e
      BY <1>4, <2>1 DEF IInv, TokensBacked
    <3>2. x = u
      BY <1>2, <3>1 DEF RowsOf
    <3> QED
      BY <1>2, <1>4, <2>1, <3>1, <3>2 DEF Identities
  <2>2. CASE ~jar'[c].intact
    BY <1>4, <2>2 DEF Identities
  <2> QED
    BY <2>1, <2>2
<1> QED
  BY <1>3, <1>4

\* An address with one account, and no registration past its check, keeps this
\* one account, and its cookies their meaning, until a call fails: whatever the
\* number of threads.
THEOREM IdentitiesSettle == Spec => IdentitySettles
<1>1. IInv /\ IInv' /\ [Next]_vars =>
        [\A e \in Email :
           Settled(e) /\ UNCHANGED faults =>
             /\ Settled(e)'
             /\ \A c \in Client :
                  jar'[c] # NoToken /\ jar'[c].sub = e =>
                    Identities(jar[c])' \subseteq {jar'[c].row}]_vars
  BY SettledSteps
<1> QED
  BY <1>1, Invariance, PTL DEF Spec, IdentitySettles

-----------------------------------------------------------------------------
(* Where addresses are unique after all: on a server of one thread, while   *)
(* user_exists never fails and no address overruns its array.  Other calls  *)
(* may fail, and the process may be killed, at any point.                   *)

Serial ==
  /\ \A v, w \in Worker : v = w
  /\ "exists" \notin FaultyCalls
  /\ \A e \in Email : Exact(e)

\* What user_exists found is still so when the insert runs: nobody else is
\* between the two.
InsertsNew ==
  \A w \in Worker : pc[w] = "insert" => RowsOf(req[w].email) = {}

SerialInv == EmailUnique /\ InsertsNew

-----------------------------------------------------------------------------

\* An address within its array is stored, and read back, as itself.
LEMMA ExactIsExact ==
  ASSUME Serial, NEW r \in SignRequest
  PROVE  Clip[r.email] = r.email /\ Reads(r) = {r.email}
BY EmailAssumption DEF Serial, Exact, Reads, SignRequest, EMAIL_CHAR_SIZE

LEMMA InitSerialInv == Init => SerialInv
BY DEF Init, SerialInv, EmailUnique, InsertsNew

\* A step that leaves the table alone and takes no worker to the insert.
LEMMA ElsewhereSerialInv ==
  ASSUME SerialInv, UNCHANGED users,
         \A w \in Worker : pc'[w] = "insert" => pc[w] = "insert" /\ req'[w] = req[w]
  PROVE  SerialInv'
BY DEF SerialInv, EmailUnique, InsertsNew, RowsOf

LEMMA UserExistsSerialInv ==
  ASSUME IInv, Serial, SerialInv, NEW w \in Worker, UserExists(w)
  PROVE  SerialInv'
<1>1. req[w] \in SignRequest
  BY DEF IInv, WorkersHoldRequests, UserExists, SignSteps
<1>2. Reads(req[w]) = {req[w].email}
  BY <1>1, ExactIsExact
<1>3. CASE RowsOf(req[w].email) = {}
  <2>1. users' = users /\ (UNCHANGED req \/ pc' = [pc EXCEPT ![w] = "idle"])
    BY DEF UserExists, Answer, Goto
  <2>2. \A v \in Worker : v = w
    BY DEF Serial
  <2> QED
    BY <1>3, <2>1, <2>2 DEF SerialInv, EmailUnique, InsertsNew, RowsOf, IInv, TypeOK
<1>4. CASE RowsOf(req[w].email) # {}
  <2>1. pc' = [pc EXCEPT ![w] = "idle"] /\ UNCHANGED users
    BY <1>2, <1>4 DEF UserExists, Answer, Taken, Fault, Serial
  <2>2. \A v \in Worker : v = w
    BY DEF Serial
  <2> QED
    BY <2>1, <2>2, ElsewhereSerialInv DEF IInv, TypeOK
<1> QED
  BY <1>3, <1>4

LEMMA InsertUserSerialInv ==
  ASSUME IInv, Serial, SerialInv, NEW w \in Worker, InsertUser(w)
  PROVE  SerialInv'
<1>1. req[w] \in SignRequest /\ pc[w] = "insert"
  BY DEF IInv, WorkersHoldRequests, InsertUser, SignSteps
<1>2. \A v \in Worker : v = w
  BY DEF Serial
<1>3. pc'[w] # "insert"
  BY DEF InsertUser, InsertFailed, Answer, IInv, TypeOK
<1>4. InsertsNew'
  BY <1>2, <1>3 DEF InsertsNew
<1>5. CASE UNCHANGED users
  BY <1>4, <1>5 DEF SerialInv, EmailUnique
<1>6. ASSUME NEW id \in FreshIds, users' = users \cup {NewUser(id, req[w])}
      PROVE  EmailUnique'
  <2>1. NewUser(id, req[w]).email = req[w].email
    BY <1>1, ExactIsExact DEF NewUser
  <2>2. \A u \in users : u.email # req[w].email
    BY <1>1 DEF SerialInv, InsertsNew, RowsOf
  <2> QED
    BY <1>6, <2>1, <2>2 DEF SerialInv, EmailUnique
<1> QED
  BY <1>4, <1>5, <1>6 DEF SerialInv, InsertUser

LEMMA ArriveSerialInv ==
  ASSUME IInv, SerialInv, NEW w \in Worker, Arrive(w)
  PROVE  SerialInv'
<1>1. UNCHANGED users
  BY DEF Arrive, ApiRegister, ApiLogin, ApiRefuse, PostIndex, GetPage, Logout, Begin
<1>2. \/ UNCHANGED <<pc, req>>
      \/ \E r, at : /\ at # "insert"
                    /\ pc' = [pc EXCEPT ![w] = at]
                    /\ req' = [req EXCEPT ![w] = r]
  BY DEF Arrive, ApiRegister, ApiLogin, ApiRefuse, PostIndex, GetPage, Logout, Begin
<1>3. \A v \in Worker : pc'[v] = "insert" => pc[v] = "insert" /\ req'[v] = req[v]
  BY <1>2 DEF IInv, TypeOK
<1> QED
  BY <1>1, <1>3, ElsewhereSerialInv

\* The steps of a handler that neither check nor insert.
LEMMA OtherStepsSerialInv ==
  ASSUME IInv, SerialInv, NEW w \in Worker,
         LookUpForForm(w) \/ LookUpForPage(w) \/ ReadHash(w) \/ LogUserIn(w)
  PROVE  SerialInv'
<1>1. UNCHANGED users
  BY DEF LookUpForForm, LookUpForPage, ReadHash, LogUserIn
<1>2. \E at : at # "insert" /\ pc' = [pc EXCEPT ![w] = at]
  BY DEF LookUpForForm, LookUpForPage, ReadHash, LogUserIn, Answer, Goto
<1>3. \A v \in Worker : v # w => req'[v] = req[v]
  BY DEF LookUpForForm, LookUpForPage, ReadHash, LogUserIn, Answer, Goto, IInv, TypeOK
<1>4. \A v \in Worker : pc'[v] = "insert" => pc[v] = "insert" /\ req'[v] = req[v]
  BY <1>2, <1>3 DEF IInv, TypeOK
<1> QED
  BY <1>1, <1>4, ElsewhereSerialInv

LEMMA NextSerialInv == IInv /\ Serial /\ SerialInv /\ [Next]_vars => SerialInv'
<1> SUFFICES ASSUME IInv, Serial, SerialInv, [Next]_vars
             PROVE  SerialInv'
  OBVIOUS
<1>1. CASE Restart
  <2>1. UNCHANGED users /\ \A w \in Worker : pc'[w] # "insert"
    BY <1>1 DEF Restart
  <2> QED
    BY <2>1, ElsewhereSerialInv
<1>2. CASE UNCHANGED vars
  BY <1>2, ElsewhereSerialInv DEF vars
<1>3. ASSUME NEW w \in Worker, Arrive(w) PROVE SerialInv'
  BY <1>3, ArriveSerialInv
<1>4. ASSUME NEW w \in Worker, Advance(w) PROVE SerialInv'
  BY <1>4, UserExistsSerialInv, InsertUserSerialInv, OtherStepsSerialInv DEF Advance
<1> QED
  BY <1>1, <1>2, <1>3, <1>4 DEF Next, Serve

\* "That email address is already registered." holds of every server of one
\* thread on which user_exists does not fail: no two rows have one address,
\* whatever else fails and whenever the process is killed.
THEOREM SerialEmailUnique == Serial /\ Spec => []EmailUnique
<1>1. Init => SerialInv
  BY InitSerialInv
<1>2. IInv /\ Serial /\ SerialInv /\ [Next]_vars => SerialInv'
  BY NextSerialInv
<1>3. Spec => []IInv
  BY Invariance
<1>4. SerialInv => EmailUnique
  BY DEF SerialInv
<1>5. Serial => []Serial
  <2>1. Serial' <=> Serial
    BY DEF Serial, Exact
  <2> QED
    BY <2>1, PTL
<1> QED
  BY <1>1, <1>2, <1>3, <1>4, <1>5, PTL DEF Spec

-----------------------------------------------------------------------------
(* Such a server implements AccountService: the check, the hash, the       *)
(* insert and the signing of a request appear to happen at once.  The      *)
(* table of users is read as a map from addresses to passwords.            *)

OneRowEach(rows) == \A u, v \in rows : u.email = v.email => u = v

\* The password of a registered address is the one its row accepts.
LEMMA AccountOfRow ==
  ASSUME NEW rows \in SUBSET UserRow, OneRowEach(rows),
         NEW u \in rows, NEW p \in Password, Accepts(u.password, p)
  PROVE  u.email \in DOMAIN AccountsOf(rows) /\ AccountsOf(rows)[u.email] = p
<1>1. u.email \in {v.email : v \in rows}
  OBVIOUS
<1>2. \A q \in Password :
        (\E v \in rows : v.email = u.email /\ Accepts(v.password, q)) <=> q = p
  BY DEF OneRowEach, Accepts, HashOf
<1>3. (CHOOSE q \in Password :
         \E v \in rows : v.email = u.email /\ Accepts(v.password, q)) = p
  BY <1>2
<1> QED
  BY <1>1, <1>3 DEF AccountsOf

\* Every row accepts some password.
LEMMA RowHasPassword ==
  ASSUME NEW rows \in SUBSET UserRow, NEW u \in rows
  PROVE  \E p \in Password : Accepts(u.password, p)
BY DEF UserRow, Accepts

\* A row of a new address registers it and leaves the other accounts alone.
LEMMA RowRegisters ==
  ASSUME NEW rows \in SUBSET UserRow, OneRowEach(rows),
         NEW u \in UserRow, NEW p \in Password, Accepts(u.password, p),
         \A v \in rows : v.email # u.email
  PROVE  /\ u.email \notin DOMAIN AccountsOf(rows)
         /\ AccountsOf(rows \cup {u}) =
              [e \in DOMAIN AccountsOf(rows) \cup {u.email} |->
                 IF e = u.email THEN p ELSE AccountsOf(rows)[e]]
<1> DEFINE more == rows \cup {u}
           old == AccountsOf(rows)
           new == AccountsOf(more)
<1>1. DOMAIN old = {v.email : v \in rows} /\ DOMAIN new = {v.email : v \in more}
  BY DEF AccountsOf
<1>2. u.email \notin DOMAIN old /\ DOMAIN new = DOMAIN old \cup {u.email}
  BY <1>1
<1>3. more \in SUBSET UserRow /\ OneRowEach(more)
  BY DEF OneRowEach
<1>4. new[u.email] = p
  <2>1. u \in more
    OBVIOUS
  <2> HIDE DEF more
  <2> QED
    BY <1>3, <2>1, AccountOfRow
<1>5. ASSUME NEW e \in DOMAIN old PROVE new[e] = old[e]
  <2>1. PICK v \in rows : v.email = e
    BY <1>1, <1>5
  <2>2. PICK q \in Password : Accepts(v.password, q)
    BY RowHasPassword
  <2>3. old[v.email] = q
    BY <2>2, AccountOfRow
  <2>4. v \in more
    OBVIOUS
  <2>5. new[v.email] = q
    <3> HIDE DEF more
    <3> QED
      BY <1>3, <2>2, <2>4, AccountOfRow
  <2> QED
    BY <2>1, <2>3, <2>5
<1>6. new = [e \in DOMAIN new |-> new[e]]
  <2> DEFINE At(e) == CHOOSE q \in Password :
                        \E v \in more : v.email = e /\ Accepts(v.password, q)
  <2>1. new = [e \in {v.email : v \in more} |-> At(e)]
    BY DEF AccountsOf
  <2> HIDE DEF At, new
  <2> QED
    BY <2>1
<1> HIDE DEF old, new
<1>7. \A e \in DOMAIN new : new[e] = IF e = u.email THEN p ELSE old[e]
  BY <1>2, <1>4, <1>5
<1>8. new = [e \in DOMAIN old \cup {u.email} |-> IF e = u.email THEN p ELSE old[e]]
  BY <1>2, <1>6, <1>7
<1> QED
  BY <1>2, <1>8 DEF old, new

-----------------------------------------------------------------------------
(* The steps of the handlers as operations of the service. *)

LEMMA InitMaps == Init => Service!ServiceInit
<1> SUFFICES ASSUME Init PROVE Service!ServiceInit
  OBVIOUS
<1>1. AccountsOf(users) = [e \in {} |-> NoToken]
  BY DEF Init, AccountsOf
<1>2. [c \in Client |-> SessionOf(jar[c])] = [c \in Client |-> NoToken]
  BY DEF Init, SessionOf
<1> QED
  BY <1>1, <1>2 DEF Service!ServiceInit

\* A step that touches neither table nor cookies is no operation.
LEMMA StutterMaps ==
  ASSUME UNCHANGED <<users, jar>>
  PROVE  UNCHANGED Service!svars
BY DEF Service!svars

\* The insert of a row is the registration.
LEMMA InsertMaps ==
  ASSUME IInv, Serial, SerialInv, NEW w \in Worker, InsertUser(w)
  PROVE  [Service!ServiceNext]_(Service!svars)
<1>1. req[w] \in SignRequest /\ pc[w] = "insert"
  BY DEF IInv, WorkersHoldRequests, InsertUser, SignSteps
<1>2. UNCHANGED jar
  BY DEF InsertUser, InsertFailed
<1>3. CASE UNCHANGED users
  BY <1>2, <1>3, StutterMaps
<1>4. ASSUME NEW id \in FreshIds, users' = users \cup {NewUser(id, req[w])}
      PROVE  Service!ServiceNext
  <2> DEFINE u == NewUser(id, req[w])
             e == req[w].email
             p == req[w].pw
  <2>1. e \in Email /\ p \in Password
    BY <1>1, SignRequestFields
  <2>2. u \in UserRow /\ u.email = e /\ Accepts(u.password, p)
    <3>1. Clip[e] = e
      BY <1>1, ExactIsExact
    <3> QED
      BY <2>1, <3>1 DEF NewUser, UserRow, FreshIds, Accepts
  <2>3. \A v \in users : v.email # u.email
    BY <1>1, <2>2 DEF SerialInv, InsertsNew, RowsOf
  <2>4. users \in SUBSET UserRow /\ OneRowEach(users)
    BY DEF IInv, TypeOK, SerialInv, EmailUnique, OneRowEach
  <2>5. users' = users \cup {u}
    BY <1>4
  <2> HIDE DEF u, e, p
  <2>6. /\ e \notin DOMAIN AccountsOf(users)
        /\ AccountsOf(users') =
             [f \in DOMAIN AccountsOf(users) \cup {e} |->
                IF f = e THEN p ELSE AccountsOf(users)[f]]
    BY <2>1, <2>2, <2>3, <2>4, <2>5, RowRegisters
  <2>7. Service!Register(e, p)
    BY <1>2, <2>6 DEF Service!Register, Service!Registered
  <2> QED
    BY <2>1, <2>7 DEF Service!ServiceNext
<1> QED
  BY <1>3, <1>4 DEF InsertUser

\* The cookie of a client is what its session is read from.
LEMMA JarSession ==
  ASSUME IInv, NEW c \in Client, NEW t, jar' = [jar EXCEPT ![c] = t]
  PROVE  [d \in Client |-> SessionOf(jar[d])]'
           = [[d \in Client |-> SessionOf(jar[d])] EXCEPT ![c] = SessionOf(t)]
<1>1. \A d \in Client : jar'[d] = IF d = c THEN t ELSE jar[d]
  BY DEF IInv, TypeOK
<1>2. \A d \in Client : SessionOf(jar[d])' = IF d = c THEN SessionOf(t) ELSE SessionOf(jar[d])
  BY <1>1 DEF SessionOf
<1> QED
  BY <1>2

LEMMA LogoutMaps ==
  ASSUME IInv, NEW w \in Worker, NEW c \in Client, Logout(w, c)
  PROVE  Service!ServiceNext
<1>1. UNCHANGED users /\ jar' = [jar EXCEPT ![c] = NoToken]
  BY DEF Logout
<1>2. SessionOf(NoToken) = NoToken
  BY DEF SessionOf
<1>3. Service!SignOut(c)
  BY <1>1, <1>2, JarSession DEF Service!SignOut
<1> QED
  BY <1>3 DEF Service!ServiceNext

\* A cookie that came through whole signs the client in as the owner of the
\* row whose password the handler checked or set; a cut one signs it out.
LEMMA LogUserInMaps ==
  ASSUME IInv, Serial, SerialInv, NEW w \in Worker, LogUserIn(w)
  PROVE  [Service!ServiceNext]_(Service!svars)
<1>1. req[w] \in SignRequest /\ pc[w] = "sign"
  BY DEF IInv, WorkersHoldRequests, LogUserIn, SignSteps
<1>2. UNCHANGED users
  BY DEF LogUserIn
<1>3. CASE UNCHANGED jar
  BY <1>2, <1>3, StutterMaps
<1> DEFINE e == req[w].email
           p == req[w].pw
           c == req[w].client
           t == [sub |-> e, row |-> row[w], intact |-> TokenIntact(EmailLength[e])]
<1>4. ASSUME jar' = [jar EXCEPT ![c] = t] PROVE Service!ServiceNext
  <2>1. e \in Email /\ p \in Password /\ c \in Client
    BY <1>1, SignRequestFields
  <2>2. PICK u \in users : u.email = e /\ Accepts(u.password, p)
    BY <1>1, ExactIsExact DEF IInv, SignBacked
  <2>3. users \in SUBSET UserRow /\ OneRowEach(users)
    BY DEF IInv, TypeOK, SerialInv, EmailUnique, OneRowEach
  <2>4. e \in DOMAIN AccountsOf(users) /\ AccountsOf(users)[e] = p
    BY <2>1, <2>2, <2>3, AccountOfRow
  <2>5. SessionOf(t) = e \/ SessionOf(t) = NoToken
    BY DEF SessionOf
  <2> HIDE DEF e, p, c, t
  <2>6. [d \in Client |-> SessionOf(jar[d])]'
          = [[d \in Client |-> SessionOf(jar[d])] EXCEPT ![c] = SessionOf(t)]
    BY <1>4, <2>1, JarSession
  <2>7. CASE SessionOf(t) = e
    <3>1. Service!SignIn(c, e, p)
      BY <1>2, <2>4, <2>6, <2>7 DEF Service!SignIn, Service!Registered
    <3> QED
      BY <2>1, <3>1 DEF Service!ServiceNext
  <2>8. CASE SessionOf(t) = NoToken
    <3>1. Service!SignOut(c)
      BY <1>2, <2>6, <2>8 DEF Service!SignOut
    <3> QED
      BY <2>1, <3>1 DEF Service!ServiceNext
  <2> QED
    BY <2>5, <2>7, <2>8
<1>5. UNCHANGED jar \/ jar' = [jar EXCEPT ![c] = t]
  <2>1. Reads(req[w]) = {e}
    BY <1>1, ExactIsExact
  <2> QED
    BY <2>1 DEF LogUserIn
<1> QED
  BY <1>3, <1>4, <1>5

LEMMA ArriveMaps ==
  ASSUME IInv, NEW w \in Worker, Arrive(w)
  PROVE  [Service!ServiceNext]_(Service!svars)
<1>1. CASE \E c \in Client : Logout(w, c)
  BY <1>1, LogoutMaps
<1>2. CASE UNCHANGED <<users, jar>>
  BY <1>2, StutterMaps
<1>3. (\E c \in Client : Logout(w, c)) \/ UNCHANGED <<users, jar>>
  BY DEF Arrive, ApiRegister, ApiLogin, ApiRefuse, PostIndex, GetPage, Begin
<1> QED
  BY <1>1, <1>2, <1>3

LEMMA AdvanceMaps ==
  ASSUME IInv, Serial, SerialInv, NEW w \in Worker, Advance(w)
  PROVE  [Service!ServiceNext]_(Service!svars)
<1>1. CASE LookUpForForm(w) \/ LookUpForPage(w) \/ UserExists(w) \/ ReadHash(w)
  <2>1. UNCHANGED <<users, jar>>
    BY <1>1 DEF LookUpForForm, LookUpForPage, UserExists, ReadHash, Answer, Goto
  <2> QED
    BY <2>1, StutterMaps
<1>2. CASE InsertUser(w)
  BY <1>2, InsertMaps
<1>3. CASE LogUserIn(w)
  BY <1>3, LogUserInMaps
<1> QED
  BY <1>1, <1>2, <1>3 DEF Advance

LEMMA NextMaps ==
  IInv /\ Serial /\ SerialInv /\ [Next]_vars => [Service!ServiceNext]_(Service!svars)
<1> SUFFICES ASSUME IInv, Serial, SerialInv, [Next]_vars
             PROVE  [Service!ServiceNext]_(Service!svars)
  OBVIOUS
<1>1. CASE Restart \/ UNCHANGED vars
  <2>1. UNCHANGED <<users, jar>>
    BY <1>1 DEF Restart, vars
  <2> QED
    BY <2>1, StutterMaps
<1>2. ASSUME NEW w \in Worker, Arrive(w)
      PROVE  [Service!ServiceNext]_(Service!svars)
  BY <1>2, ArriveMaps
<1>3. ASSUME NEW w \in Worker, Advance(w)
      PROVE  [Service!ServiceNext]_(Service!svars)
  BY <1>3, AdvanceMaps
<1> QED
  BY <1>1, <1>2, <1>3 DEF Next, Serve

\* On such a server a client sees the account service: an address is registered
\* once, with one password, for good, and only that password signs a client in
\* as it, whatever else fails and whenever the process is killed.
THEOREM ServiceImplemented == Serial /\ Spec => ImplementsService
<1>1. Init => Service!ServiceInit
  BY InitMaps
<1>2. IInv /\ Serial /\ SerialInv /\ [Next]_vars => [Service!ServiceNext]_(Service!svars)
  BY NextMaps
<1>3. Init => SerialInv
  BY InitSerialInv
<1>4. IInv /\ Serial /\ SerialInv /\ [Next]_vars => SerialInv'
  BY NextSerialInv
<1>5. Spec => []IInv
  BY Invariance
<1>6. Serial => []Serial
  <2>1. Serial' <=> Serial
    BY DEF Serial, Exact
  <2> QED
    BY <2>1, PTL
<1> QED
  BY <1>1, <1>2, <1>3, <1>4, <1>5, <1>6, PTL
     DEF Spec, ImplementsService, Service!ServiceSpec
=============================================================================
