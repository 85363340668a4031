--------------------------- MODULE ProjectsProofs ---------------------------
(***************************************************************************)
(* Proofs about Projects: what a page shows belongs to the address in the  *)
(* cookie that asked for it, for any number of threads, rows and failures. *)
(***************************************************************************)
EXTENDS Projects, AccountsProofs, FiniteSetTheorems

ProjectSteps == {"create", "list", "show", "keys"}

\* A handler that works on projects holds a request for them, and the row it
\* works for is of the address in its cookie, whatever was registered since.
WorkersServeOwn ==
  \A w \in Worker :
    pc[w] \in ProjectSteps =>
      /\ pc[w] = "create" => req[w] \in CreateRequest
      /\ pc[w] # "create" => req[w] \in ViewRequest
      /\ row[w] \in UserId
      /\ OfAddress(row[w], req[w].token.sub)

\* What lp_app_project_keys found is that user's, though it asks for the keys
\* in another statement.
FoundOwn ==
  \A w \in Worker :
    pc[w] = "keys" => \A p \in found[w] : p.user = row[w]

\* Keys are put into the table one by one.
FiniteKeys == IsFiniteSet(keys)

PInv == ProjectsTypeOK /\ WorkersServeOwn /\ FoundOwn /\ OwnPagesOnly

-----------------------------------------------------------------------------
(* IInv, the invariant of Accounts, is kept by the steps of Projects.      *)

LEMMA ArriveProjectIInv ==
  ASSUME IInv, NEW w \in Worker, ArriveProject(w)
  PROVE  IInv'
<1> PICK c \in Client : PostProject(w, c) \/ GetProjects(w, c)
  BY DEF ArriveProject
<1>1. jar[c] \in Cookie
  BY DEF IInv, TypeOK
<1>2. PICK r \in ReadRequest \cup CreateRequest \cup ViewRequest : Begin(w, r, "lookup")
  <2>1. CASE PostProject(w, c)
    BY <1>1, <2>1 DEF PostProject, ReadRequest, PlainOps, CreateRequest, CreateOps
  <2>2. CASE GetProjects(w, c)
    BY <1>1, <2>2 DEF GetProjects, ReadRequest, PlainOps, ViewRequest, ViewOps
  <2> QED
    BY <2>1, <2>2
<1> QED
  BY <1>2, BeginIInv DEF Request, PC, SignSteps

LEMMA LookUpForProjectIInv ==
  ASSUME IInv, NEW w \in Worker, LookUpForProject(w)
  PROVE  IInv'
<1> PICK who \in UserId \cup {NoRow} :
      /\ CurrentUser(req[w].token, who)
      /\ \/ \E tag \in {"notfound", "unauthorized", "invalid", "page"} :
              Answer(w, tag, who)
         \/ /\ req[w].op \in CreateOps \cup ViewOps
            /\ pc' = [pc EXCEPT ![w] = NextCall(req[w].op)]
            /\ row' = [row EXCEPT ![w] = who]
            /\ UNCHANGED <<req, reply>>
  BY DEF LookUpForProject
<1>1. faults' \in 0..MaxFaults
  BY FaultCount DEF CurrentUser, IInv
<1>2. pc[w] # "idle" /\ UNCHANGED <<users, jar>>
  BY DEF LookUpForProject
<1>3. CASE \E tag \in {"notfound", "unauthorized", "invalid", "page"} : Answer(w, tag, who)
  BY <1>1, <1>2, <1>3, PlainAnswerIInv DEF Tag
<1>4. CASE /\ req[w].op \in CreateOps \cup ViewOps
           /\ pc' = [pc EXCEPT ![w] = NextCall(req[w].op)]
           /\ row' = [row EXCEPT ![w] = who]
           /\ UNCHANGED <<req, reply>>
  <2>1. NextCall(req[w].op) \in ProjectSteps
    BY <1>4 DEF NextCall, CreateOps, ViewOps, ProjectSteps
  <2>2. TypeOK'
    BY <1>1, <1>2, <1>4, <2>1 DEF IInv, TypeOK, PC, ProjectSteps
  <2>3. WorkersHoldRequests' /\ SignBacked'
    BY <1>2, <1>4, <2>1
       DEF IInv, TypeOK, WorkersHoldRequests, SignBacked, SignSteps, ProjectSteps
  <2>4. RowsClipped' /\ TokensBacked' /\ AckedIsStored'
    BY <1>2, <1>4 DEF IInv, RowsClipped, TokensBacked, AckedIsStored
  <2> QED
    BY <2>2, <2>3, <2>4 DEF IInv
<1> QED
  BY <1>3, <1>4

LEMMA ProjectStepsIInv ==
  ASSUME IInv, NEW w \in Worker,
         CreateProject(w) \/ ListProjects(w) \/ ShowProject(w) \/ ShowKeys(w)
  PROVE  IInv'
<1>1. /\ pc[w] # "idle" /\ UNCHANGED <<users, jar>>
      /\ row[w] \in UserId \cup {NoRow}
  BY DEF CreateProject, ListProjects, ShowProject, ShowKeys, IInv, TypeOK
<1>2. Works \/ \E call : Fault(call)
  BY DEF CreateProject, ListProjects, ShowProject, ShowKeys, ShowFails
<1>3. faults' \in 0..MaxFaults
  BY <1>2, FaultCount DEF IInv
<1>4. \/ \E tag \in {"created", "failed", "page", "notfound"} : Answer(w, tag, row[w])
      \/ Goto(w, "keys")
  BY DEF CreateProject, ListProjects, ShowProject, ShowKeys
<1> QED
  BY <1>1, <1>3, <1>4, PlainAnswerIInv, GotoIInv DEF Tag, PC, SignSteps

-----------------------------------------------------------------------------
(* The invariant of Projects. *)

LEMMA InitPInv == ProjectsInit => PInv
BY DEF ProjectsInit, Init, PInv, ProjectsTypeOK, Page, Cookie, WorkersServeOwn,
       ProjectSteps, FoundOwn, OwnPagesOnly

\* A step of the account handlers: rows are only added, and no worker comes to
\* work on projects.
LEMMA ElsewherePInv ==
  ASSUME PInv, users \subseteq users', UNCHANGED pvars,
         \A w \in Worker : pc'[w] \in ProjectSteps =>
           pc'[w] = pc[w] /\ req'[w] = req[w] /\ row'[w] = row[w]
  PROVE  PInv'
<1>1. ProjectsTypeOK'
  BY DEF PInv, ProjectsTypeOK, pvars
<1>2. WorkersServeOwn'
  BY DEF PInv, WorkersServeOwn, OfAddress
<1>3. FoundOwn'
  BY DEF PInv, FoundOwn, pvars, ProjectSteps
<1>4. OwnPagesOnly'
  BY DEF PInv, OwnPagesOnly, OfAddress, pvars
<1> QED
  BY <1>1, <1>2, <1>3, <1>4 DEF PInv

LEMMA ArrivePInv ==
  ASSUME IInv, PInv, NEW w \in Worker, UNCHANGED pvars, Arrive(w) \/ ArriveProject(w)
  PROVE  PInv'
<1>1. /\ UNCHANGED <<users, row>>
      /\ \/ UNCHANGED <<pc, req>>
         \/ \E r, at : /\ at \notin ProjectSteps
                       /\ pc' = [pc EXCEPT ![w] = at]
                       /\ req' = [req EXCEPT ![w] = r]
  BY DEF Arrive, ApiRegister, ApiLogin, ApiRefuse, PostIndex, GetPage, Logout, Begin,
         ArriveProject, PostProject, GetProjects, ProjectSteps
<1>2. \A v \in Worker : pc'[v] \in ProjectSteps =>
        pc'[v] = pc[v] /\ req'[v] = req[v] /\ row'[v] = row[v]
  BY <1>1 DEF IInv, TypeOK
<1> QED
  BY <1>1, <1>2, ElsewherePInv

LEMMA AdvancePInv ==
  ASSUME IInv, PInv, NEW w \in Worker, UNCHANGED pvars, Advance(w)
  PROVE  PInv'
<1>1. users \subseteq users'
  BY DEF Advance, LookUpForForm, LookUpForPage, UserExists, InsertUser, ReadHash, LogUserIn
<1>2. \E at : at \notin ProjectSteps /\ pc' = [pc EXCEPT ![w] = at]
  BY DEF Advance, LookUpForForm, LookUpForPage, UserExists, InsertUser, InsertFailed,
         ReadHash, LogUserIn, Answer, Goto, ProjectSteps
<1>3. \A v \in Worker : v # w => req'[v] = req[v] /\ row'[v] = row[v]
  BY DEF Advance, LookUpForForm, LookUpForPage, UserExists, InsertUser, InsertFailed,
         ReadHash, LogUserIn, Answer, Goto, IInv, TypeOK
<1>4. \A v \in Worker : pc'[v] \in ProjectSteps =>
        pc'[v] = pc[v] /\ req'[v] = req[v] /\ row'[v] = row[v]
  BY <1>2, <1>3 DEF IInv, TypeOK
<1> QED
  BY <1>1, <1>4, ElsewherePInv

LEMMA RestartPInv ==
  ASSUME PInv, UNCHANGED pvars, Restart
  PROVE  PInv'
<1>1. UNCHANGED users /\ \A w \in Worker : pc'[w] \notin ProjectSteps
  BY DEF Restart, ProjectSteps
<1> QED
  BY <1>1, ElsewherePInv

\* A user has been looked up, and is of the address in the cookie.
LEMMA LookUpForProjectPInv ==
  ASSUME IInv, PInv, NEW w \in Worker, LookUpForProject(w)
  PROVE  PInv'
<1>1. UNCHANGED <<users, pvars>> /\ pc[w] = "lookup"
  BY DEF LookUpForProject
<1>2. CASE pc' = [pc EXCEPT ![w] = "idle"]
  <2>1. \A v \in Worker : v # w => req'[v] = req[v] /\ row'[v] = row[v]
    BY DEF LookUpForProject, Answer, IInv, TypeOK
  <2>2. \A v \in Worker : pc'[v] \in ProjectSteps =>
          pc'[v] = pc[v] /\ req'[v] = req[v] /\ row'[v] = row[v]
    BY <1>2, <2>1 DEF IInv, TypeOK, ProjectSteps
  <2> QED
    BY <1>1, <2>2, ElsewherePInv
<1>3. ASSUME NEW who \in UserId, CurrentUser(req[w].token, who),
             req[w].op \in CreateOps \cup ViewOps,
             pc' = [pc EXCEPT ![w] = NextCall(req[w].op)],
             row' = [row EXCEPT ![w] = who],
             UNCHANGED req
      PROVE  PInv'
  <2>1. OfAddress(who, req[w].token.sub)
    BY <1>3, NullAssumption DEF CurrentUser, Identities, RowsOf, OfAddress
  <2>2. /\ req[w].op \in CreateOps => req[w] \in CreateRequest
        /\ req[w].op \in ViewOps => req[w] \in ViewRequest
    <3>1. req[w] \in Request
      BY <1>1 DEF IInv, WorkersHoldRequests
    <3> QED
      BY <3>1 DEF Request, SignRequest, ReadRequest, CreateRequest, ViewRequest,
                  SignOps, ReadOps, CreateOps, ViewOps, PlainOps
  <2>3. \/ req[w].op \in CreateOps /\ NextCall(req[w].op) = "create"
        \/ req[w].op \in ViewOps /\ NextCall(req[w].op) \in {"list", "show"}
    BY <1>3 DEF NextCall, CreateOps, ViewOps
  <2>4. WorkersServeOwn'
    BY <1>1, <1>3, <2>1, <2>2, <2>3
       DEF PInv, WorkersServeOwn, OfAddress, ProjectSteps, IInv, TypeOK
  <2>5. FoundOwn'
    BY <1>1, <1>3, <2>3 DEF PInv, FoundOwn, IInv, TypeOK, pvars
  <2>6. ProjectsTypeOK' /\ OwnPagesOnly'
    BY <1>1 DEF PInv, ProjectsTypeOK, OwnPagesOnly, OfAddress, pvars
  <2> QED
    BY <2>4, <2>5, <2>6 DEF PInv
<1> QED
  BY <1>2, <1>3 DEF LookUpForProject, Answer

\* The worker's own part of PInv when its handler returns.
LEMMA ReturnPInv ==
  ASSUME IInv, PInv, NEW w \in Worker, NEW tag, Answer(w, tag, row[w]),
         UNCHANGED users,
         \A v \in Worker : v # w => found'[v] = found[v]
  PROVE  WorkersServeOwn' /\ FoundOwn'
<1>1. /\ pc'[w] = "idle"
      /\ \A v \in Worker : v # w => /\ pc'[v] = pc[v] /\ req'[v] = req[v]
                                    /\ row'[v] = row[v]
  BY DEF Answer, IInv, TypeOK
<1>2. WorkersServeOwn'
  BY <1>1 DEF PInv, WorkersServeOwn, OfAddress, ProjectSteps
<1>3. FoundOwn'
  BY <1>1 DEF PInv, FoundOwn
<1> QED
  BY <1>2, <1>3

LEMMA CreateProjectPInv ==
  ASSUME IInv, PInv, NEW w \in Worker, CreateProject(w)
  PROVE  PInv'
<1>1. /\ UNCHANGED <<users, keys, found, page>>
      /\ \E tag : Answer(w, tag, row[w])
  BY DEF CreateProject
<1>2. WorkersServeOwn' /\ FoundOwn'
  BY <1>1, ReturnPInv
<1>3. projects \subseteq projects' /\ projects' \subseteq ProjectRow
  <2>1. req[w] \in CreateRequest /\ row[w] \in UserId
    BY DEF PInv, WorkersServeOwn, ProjectSteps, CreateProject
  <2>2. req[w].name \in Name \cup {NoName} /\ projects \subseteq ProjectRow
    BY <2>1 DEF CreateRequest, PInv, ProjectsTypeOK
  <2> QED
    BY <2>1, <2>2 DEF CreateProject, Admits, FreshProjects, ProjectRow
<1>4. ProjectsTypeOK'
  BY <1>1, <1>3 DEF PInv, ProjectsTypeOK
<1>5. OwnPagesOnly'
  BY <1>1, <1>3 DEF PInv, OwnPagesOnly, OfAddress
<1> QED
  BY <1>2, <1>4, <1>5 DEF PInv

\* A page that is rendered from rows of the worker's user.
LEMMA RenderPInv ==
  ASSUME IInv, PInv, NEW w \in Worker, pc[w] \in ProjectSteps \ {"create"},
         UNCHANGED <<users, projects, keys>>,
         NEW kind \in {"dashboard", "project", "keys"},
         NEW rows \in SUBSET ProjectRow, \A p \in rows : p.user = row[w],
         NEW ks \in SUBSET KeyRow,
         \A k \in ks : \E p \in projects : p.id = k.project /\ p.user = row[w],
         NEW lines \in Nat, Render(w, kind, rows, ks, lines)
  PROVE  page' \in Page /\ OwnPagesOnly'
<1>1. OfAddress(row[w], req[w].token.sub) /\ req[w] \in ViewRequest
  BY DEF PInv, WorkersServeOwn
<1>2. req[w].token \in Cookie
  BY <1>1 DEF ViewRequest
<1>3. page' \in Page
  BY <1>2 DEF Render, Page
<1>4. OwnPagesOnly'
  BY <1>1 DEF Render, OwnPagesOnly, OfAddress
<1> QED
  BY <1>3, <1>4

LEMMA ListProjectsPInv ==
  ASSUME IInv, PInv, NEW w \in Worker, ListProjects(w)
  PROVE  PInv'
<1>1. /\ UNCHANGED <<users, projects, keys, found>>
      /\ Answer(w, "page", row[w])
      /\ pc[w] \in ProjectSteps \ {"create"}
  BY DEF ListProjects, ProjectSteps
<1>2. WorkersServeOwn' /\ FoundOwn'
  BY <1>1, ReturnPInv
<1>3. PICK rows \in {Listed(row[w]), {}} : Render(w, "dashboard", rows, {}, 0)
  BY DEF ListProjects
<1>4. rows \in SUBSET ProjectRow /\ \A p \in rows : p.user = row[w]
  BY DEF Listed, PInv, ProjectsTypeOK
<1>5. page' \in Page /\ OwnPagesOnly'
  BY <1>1, <1>3, <1>4, RenderPInv
<1> QED
  BY <1>1, <1>2, <1>5 DEF PInv, ProjectsTypeOK

LEMMA ShowProjectPInv ==
  ASSUME IInv, PInv, NEW w \in Worker, ShowProject(w)
  PROVE  PInv'
<1>1. /\ UNCHANGED <<users, projects, keys>>
      /\ pc[w] = "show" /\ pc[w] \in ProjectSteps \ {"create"}
  BY DEF ShowProject, ProjectSteps
<1>2. OwnProject(w) \in SUBSET ProjectRow /\ \A p \in OwnProject(w) : p.user = row[w]
  BY DEF OwnProject, PInv, ProjectsTypeOK
<1>3. CASE Answer(w, "notfound", row[w]) /\ UNCHANGED <<found, page>>
  <2>1. WorkersServeOwn' /\ FoundOwn'
    BY <1>1, <1>3, ReturnPInv
  <2> QED
    BY <1>1, <1>3, <2>1 DEF PInv, ProjectsTypeOK, OwnPagesOnly, OfAddress
<1>4. CASE /\ Render(w, "project", OwnProject(w), {}, 0)
           /\ Answer(w, "page", row[w]) /\ UNCHANGED found
  <2>1. WorkersServeOwn' /\ FoundOwn'
    BY <1>1, <1>4, ReturnPInv
  <2>2. page' \in Page /\ OwnPagesOnly'
    BY <1>1, <1>2, <1>4, RenderPInv
  <2> QED
    BY <1>1, <1>4, <2>1, <2>2 DEF PInv, ProjectsTypeOK
<1>5. CASE /\ found' = [found EXCEPT ![w] = OwnProject(w)]
           /\ Goto(w, "keys") /\ UNCHANGED page
  <2>1. WorkersServeOwn'
    BY <1>1, <1>5 DEF Goto, PInv, WorkersServeOwn, OfAddress, ProjectSteps, IInv, TypeOK
  <2>2. FoundOwn'
    BY <1>2, <1>5 DEF Goto, PInv, FoundOwn, ProjectsTypeOK, IInv, TypeOK
  <2>3. ProjectsTypeOK' /\ OwnPagesOnly'
    BY <1>1, <1>2, <1>5 DEF PInv, ProjectsTypeOK, OwnPagesOnly, OfAddress
  <2> QED
    BY <2>1, <2>2, <2>3 DEF PInv
<1> QED
  BY <1>3, <1>4, <1>5 DEF ShowProject

LEMMA ShowKeysPInv ==
  ASSUME IInv, PInv, FiniteKeys, NEW w \in Worker, ShowKeys(w)
  PROVE  PInv'
<1>1. /\ UNCHANGED <<users, projects, keys>>
      /\ pc[w] = "keys" /\ pc[w] \in ProjectSteps \ {"create"}
      /\ found' = [found EXCEPT ![w] = {}]
      /\ \E tag : Answer(w, tag, row[w])
  BY DEF ShowKeys, ProjectSteps
<1>2. WorkersServeOwn' /\ FoundOwn'
  <2>1. \A v \in Worker : v # w => found'[v] = found[v]
    BY <1>1 DEF PInv, ProjectsTypeOK
  <2> QED
    BY <1>1, <2>1, ReturnPInv
<1>3. found' \in [Worker -> SUBSET ProjectRow]
  BY <1>1 DEF PInv, ProjectsTypeOK
<1>4. CASE UNCHANGED page
  BY <1>1, <1>2, <1>3, <1>4 DEF PInv, ProjectsTypeOK, OwnPagesOnly, OfAddress
<1>5. ASSUME NEW ks \in SUBSET OwnKeys(w), NEW lines \in Nat,
             Render(w, "keys", found[w], ks, lines)
      PROVE  PInv'
  <2>1. /\ found[w] \in SUBSET ProjectRow
        /\ \A p \in found[w] : p.user = row[w]
    BY <1>1 DEF PInv, ProjectsTypeOK, FoundOwn
  <2>2. /\ ks \in SUBSET KeyRow
        /\ \A k \in ks : \E p \in projects : p.id = k.project /\ p.user = row[w]
    BY DEF OwnKeys, PInv, ProjectsTypeOK
  <2>3. page' \in Page /\ OwnPagesOnly'
    BY <1>1, <1>5, <2>1, <2>2, RenderPInv
  <2> QED
    BY <1>1, <1>2, <1>3, <2>3 DEF PInv, ProjectsTypeOK
<1>6. Cardinality(OwnKeys(w)) \in Nat
  <2>1. OwnKeys(w) \subseteq keys
    BY DEF OwnKeys
  <2> QED
    BY <2>1, FS_Subset, FS_CardinalityType DEF FiniteKeys
<1>7. \/ UNCHANGED page
      \/ Render(w, "keys", found[w], {}, 0)
      \/ \E k \in OwnKeys(w) : Render(w, "keys", found[w], {k}, Cardinality(OwnKeys(w)))
  BY DEF ShowKeys
<1>8. CASE Render(w, "keys", found[w], {}, 0)
  BY <1>5, <1>8
<1>9. CASE \E k \in OwnKeys(w) :
             Render(w, "keys", found[w], {k}, Cardinality(OwnKeys(w)))
  <2> PICK k \in OwnKeys(w) : Render(w, "keys", found[w], {k}, Cardinality(OwnKeys(w)))
    BY <1>9
  <2> QED
    BY <1>5, <1>6
<1> QED
  BY <1>4, <1>7, <1>8, <1>9

LEMMA AddKeyPInv ==
  ASSUME PInv, AddKey
  PROVE  PInv'
<1>1. UNCHANGED <<vars, projects, found, page>>
  BY DEF AddKey
<1>2. keys' \subseteq KeyRow
  BY DEF AddKey, PInv, ProjectsTypeOK, KeyRow, ProjectRow
<1> QED
  BY <1>1, <1>2 DEF PInv, ProjectsTypeOK, WorkersServeOwn, FoundOwn, OwnPagesOnly,
                    OfAddress, vars

-----------------------------------------------------------------------------
(* All steps. *)

LEMMA NextFiniteKeys == FiniteKeys /\ [ProjectsNext]_allvars => FiniteKeys'
<1>1. AddKey /\ FiniteKeys => FiniteKeys'
  BY FS_AddElement DEF AddKey, FiniteKeys
<1>2. (~AddKey /\ [ProjectsNext]_allvars) => UNCHANGED keys
  BY DEF ProjectsNext, pvars, allvars, ArriveProject, AdvanceProject, LookUpForProject,
         CreateProject, ListProjects, ShowProject, ShowKeys
<1> QED
  BY <1>1, <1>2 DEF FiniteKeys

LEMMA ProjectsNextIInv == IInv /\ [ProjectsNext]_allvars => IInv'
<1> SUFFICES ASSUME IInv, [ProjectsNext]_allvars PROVE IInv'
  OBVIOUS
<1>1. CASE Next
  BY <1>1, NextIInv
<1>2. ASSUME NEW w \in Worker, ArriveProject(w) PROVE IInv'
  BY <1>2, ArriveProjectIInv
<1>3. ASSUME NEW w \in Worker, AdvanceProject(w) PROVE IInv'
  BY <1>3, LookUpForProjectIInv, ProjectStepsIInv DEF AdvanceProject
<1>4. CASE AddKey \/ UNCHANGED allvars
  BY <1>4, StutterIInv DEF AddKey, allvars
<1> QED
  BY <1>1, <1>2, <1>3, <1>4 DEF ProjectsNext

LEMMA ProjectsNextPInv ==
  IInv /\ FiniteKeys /\ PInv /\ [ProjectsNext]_allvars => PInv'
<1> SUFFICES ASSUME IInv, FiniteKeys, PInv, [ProjectsNext]_allvars PROVE PInv'
  OBVIOUS
<1>1. CASE Restart /\ UNCHANGED pvars
  BY <1>1, RestartPInv
<1>2. ASSUME NEW w \in Worker, UNCHANGED pvars, Arrive(w) \/ ArriveProject(w) PROVE PInv'
  BY <1>2, ArrivePInv
<1>3. ASSUME NEW w \in Worker, UNCHANGED pvars, Advance(w) PROVE PInv'
  BY <1>3, AdvancePInv
<1>4. ASSUME NEW w \in Worker, AdvanceProject(w) PROVE PInv'
  BY <1>4, LookUpForProjectPInv, CreateProjectPInv, ListProjectsPInv, ShowProjectPInv,
     ShowKeysPInv DEF AdvanceProject
<1>5. CASE AddKey
  BY <1>5, AddKeyPInv
<1>6. CASE UNCHANGED allvars
  BY <1>6, ElsewherePInv DEF allvars, vars
<1> QED
  BY <1>1, <1>2, <1>3, <1>4, <1>5, <1>6 DEF ProjectsNext, Next, Serve, ArriveProject

THEOREM ProjectsInvariance == ProjectsSpec => [](IInv /\ FiniteKeys /\ PInv)
<1>1. ProjectsInit => IInv /\ FiniteKeys /\ PInv
  BY InitIInv, InitPInv, FS_EmptySet DEF ProjectsInit, FiniteKeys
<1> QED
  BY <1>1, NextFiniteKeys, ProjectsNextIInv, ProjectsNextPInv, PTL DEF ProjectsSpec

\* Every variable of Projects keeps its type.
THEOREM ProjectsTypeCorrect == ProjectsSpec => [](TypeOK /\ ProjectsTypeOK)
<1>1. IInv /\ PInv => TypeOK /\ ProjectsTypeOK
  BY DEF IInv, PInv
<1> QED
  BY <1>1, ProjectsInvariance, PTL

\* A project page shows projects and keys of the address in the cookie that
\* asked for it and of no other, whoever registers, creates or logs in between
\* the statements that gather it.
THEOREM PagesAreOwn == ProjectsSpec => []OwnPagesOnly
<1>1. PInv => OwnPagesOnly
  BY DEF PInv
<1> QED
  BY <1>1, ProjectsInvariance, PTL

-----------------------------------------------------------------------------
(* Names.  The constraint of the table is about rows of users, and an       *)
(* address has as many of a name as it has rows at most.                    *)

NamePerRow == \A p, q \in projects : p.name = q.name /\ p.user = q.user => p = q

LEMMA NextNamePerRow == NamePerRow /\ [ProjectsNext]_allvars => NamePerRow'
<1> SUFFICES ASSUME NamePerRow, [ProjectsNext]_allvars PROVE NamePerRow'
  OBVIOUS
<1>1. CASE UNCHANGED projects
  BY <1>1 DEF NamePerRow
<1>2. ASSUME NEW w \in Worker, CreateProject(w), projects' # projects PROVE NamePerRow'
  <2>1. PICK id \in FreshProjects :
          projects' = projects \cup {[id |-> id, name |-> req[w].name, user |-> row[w]]}
    BY <1>2 DEF CreateProject
  <2>2. \A p \in projects : ~(p.name = req[w].name /\ p.user = row[w])
    BY <1>2 DEF CreateProject, Admits
  <2> QED
    BY <2>1, <2>2 DEF NamePerRow
<1> QED
  BY <1>1, <1>2 DEF ProjectsNext, pvars, allvars, ArriveProject, AdvanceProject,
     LookUpForProject, ListProjects, ShowProject, ShowKeys, AddKey

\* Users are added one by one.
FiniteUsers == IsFiniteSet(users)

LEMMA NextFiniteUsers == FiniteUsers /\ [ProjectsNext]_allvars => FiniteUsers'
<1> SUFFICES ASSUME FiniteUsers, [ProjectsNext]_allvars PROVE FiniteUsers'
  OBVIOUS
<1>1. CASE UNCHANGED users
  BY <1>1 DEF FiniteUsers
<1>2. ASSUME NEW w \in Worker, InsertUser(w), ~UNCHANGED users PROVE FiniteUsers'
  BY <1>2, FS_AddElement DEF InsertUser, FiniteUsers
<1> QED
  BY <1>1, <1>2
     DEF ProjectsNext, pvars, allvars, vars, ArriveProject, PostProject, GetProjects,
         AdvanceProject, LookUpForProject, CreateProject, ListProjects, ShowProject,
         ShowKeys, AddKey, Next, Serve, Restart, Arrive, Advance, ApiRegister, ApiLogin,
         ApiRefuse, PostIndex, GetPage, Logout, Begin, LookUpForForm, LookUpForPage,
         UserExists, ReadHash, LogUserIn

\* The projects of one name go to the rows of users they are for, each to its own.
LEMMA NamesByRow == FiniteUsers /\ NamePerRow => NamePerAddress
<1> SUFFICES ASSUME FiniteUsers, NamePerRow, NEW e \in Email, NEW n \in Name
             PROVE  Cardinality({p \in projects : p.name = n /\ OfAddress(p.user, e)})
                      <= Cardinality(RowsOf(e))
  BY DEF NamePerAddress
<1> DEFINE named == {p \in projects : p.name = n /\ OfAddress(p.user, e)}
           owner == [p \in named |-> CHOOSE u \in users : u.id = p.user /\ u.email = e]
<1>1. IsFiniteSet(RowsOf(e))
  BY FS_Subset DEF FiniteUsers, RowsOf
<1>2. ASSUME NEW p \in named
      PROVE  owner[p] \in users /\ owner[p].id = p.user /\ owner[p].email = e
  BY DEF OfAddress
<1>3. owner \in [named -> RowsOf(e)]
  BY <1>2 DEF RowsOf
<1>4. \A p, q \in named : owner[p] = owner[q] => p = q
  BY <1>2 DEF NamePerRow
<1>5. owner \in Injection(named, RowsOf(e))
  BY <1>3, <1>4 DEF Injection, IsInjective
<1> QED
  BY <1>1, <1>5, FS_Injection

\* A project that was created is not created again: an address has at most as
\* many projects of a name as it has accounts.
THEOREM NamesPerAddress == ProjectsSpec => []NamePerAddress
<1>1. ProjectsInit => FiniteUsers /\ NamePerRow
  BY FS_EmptySet DEF ProjectsInit, Init, FiniteUsers, NamePerRow
<1> QED
  BY <1>1, NextFiniteUsers, NextNamePerRow, NamesByRow, PTL DEF ProjectsSpec

-----------------------------------------------------------------------------
(* Dashboards.  The row a dashboard is for was looked up by its cookie's     *)
(* address, and rows are never removed or changed.                           *)

LEMMA DashboardStep ==
  ASSUME IInv, PInv, NEW w \in Worker, ListProjects(w), UNCHANGED faults
  PROVE  \E u \in RowsOf(req[w].token.sub) :
           page'.projects = {p \in projects : p.user = u.id}
<1>1. ~Fault("list")
  BY DEF IInv, TypeOK, Fault
<1>2. page'.projects = Listed(row[w])
  BY <1>1 DEF ListProjects, Render
<1>3. OfAddress(row[w], req[w].token.sub)
  BY DEF ListProjects, PInv, WorkersServeOwn, ProjectSteps
<1> QED
  BY <1>2, <1>3 DEF OfAddress, RowsOf, Listed

\* A dashboard whose statement worked lists every project of one account of the
\* address in its cookie, whatever login they were created under and whoever
\* registers the address again or creates others in between.
THEOREM DashboardsComplete == ProjectsSpec => DashboardComplete
<1>1. IInv /\ PInv /\ [ProjectsNext]_allvars =>
        [\A w \in Worker :
           ListProjects(w) /\ UNCHANGED faults =>
             \E u \in RowsOf(req[w].token.sub) :
               page'.projects = {p \in projects : p.user = u.id}]_allvars
  BY DashboardStep
<1>2. ProjectsSpec => [](IInv /\ PInv)
  BY ProjectsInvariance, PTL
<1> QED
  BY <1>1, <1>2, PTL DEF ProjectsSpec, DashboardComplete
=============================================================================
