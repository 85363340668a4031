------------------------------ MODULE Projects ------------------------------
(***************************************************************************)
(* Projects and their API keys, served by the same threads, to the same    *)
(* clients, under the same identities as Accounts: Projects is Accounts    *)
(* with the project handlers and tables added.                             *)
(***************************************************************************)
EXTENDS Accounts

CONSTANT Key        \* API keys

ASSUME NoProjectAssumption == NoProject \notin ProjectId /\ NoName \notin Name

VARIABLES
  projects,   \* rows of logproj.project
  keys,       \* rows of logproj.api_key that have a project
  found,      \* the project rows lp_app_project_keys holds for its page
  page        \* the last project page the server rendered

pvars == <<projects, keys, found, page>>
allvars == <<vars, pvars>>

ProjectRow == [id : ProjectId, name : Name, user : UserId]
KeyRow == [key : Key, project : ProjectId]

\* A page knows the cookie it was made for.  A keys page has one line per key;
\* `keys` are the keys these lines show.
Page ==
  [kind : {"none", "dashboard", "project", "keys"},
   token : Cookie,
   projects : SUBSET ProjectRow, keys : SUBSET KeyRow, lines : Nat]

ProjectsTypeOK ==
  /\ projects \subseteq ProjectRow
  /\ keys \subseteq KeyRow
  /\ found \in [Worker -> SUBSET ProjectRow]
  /\ page \in Page

ProjectsInit ==
  /\ Init
  /\ projects = {}
  /\ keys = {}
  /\ found = [w \in Worker |-> {}]
  /\ page = [kind |-> "none", token |-> NoToken,
             projects |-> {}, keys |-> {}, lines |-> 0]

Render(w, kind, rows, ks, lines) ==
  page' = [kind |-> kind, token |-> req[w].token,
           projects |-> rows, keys |-> ks, lines |-> lines]

-----------------------------------------------------------------------------
(* Entry of the handlers. *)

PostProject(w, c) ==
  \/ \E n \in Name \cup {NoName} :
       Begin(w, [op |-> "api_new_project", client |-> c, name |-> n,
                 token |-> jar[c]], "lookup")
  \/ \E n \in Name :
       Begin(w, [op |-> "form_new_project", client |-> c, name |-> n,
                 token |-> jar[c]], "lookup")
  \/ Begin(w, [op |-> "junk_project", client |-> c, token |-> jar[c]], "lookup")

\* NoProject is an id in the path that is no uuid.
GetProjects(w, c) ==
  \/ Begin(w, [op |-> "dashboard", client |-> c, project |-> NoProject,
               token |-> jar[c]], "lookup")
  \/ \E op \in {"project", "project_keys"}, p \in ProjectId \cup {NoProject} :
       Begin(w, [op |-> op, client |-> c, project |-> p,
                 token |-> jar[c]], "lookup")
  \/ \E op \in {"new_project", "unrouted"} :
       Begin(w, [op |-> op, client |-> c, token |-> jar[c]], "lookup")

-----------------------------------------------------------------------------
(* Steps of the handlers. *)

\* The call a handler makes once it knows its user.
NextCall(op) ==
  CASE op \in CreateOps -> "create"
    [] op = "dashboard" -> "list"
    [] op \in {"project", "project_keys"} -> "show"

LookUpForProject(w) ==
  /\ pc[w] = "lookup"
  /\ req[w].op \in CreateOps \cup ViewOps \cup PlainOps
  /\ \E who \in UserId \cup {NoRow} :
       /\ CurrentUser(req[w].token, who)
       /\ \/ req[w].op = "unrouted" /\ Answer(w, "notfound", who)
          \/ /\ who = NoRow /\ req[w].op # "unrouted"
             /\ Answer(w, "unauthorized", NoRow)
          \/ /\ who # NoRow /\ req[w].op = "junk_project"
             /\ Answer(w, "invalid", who)
          \/ /\ who # NoRow /\ req[w].op = "new_project"
             /\ Answer(w, "page", who)
          \/ /\ who # NoRow /\ req[w].op \in CreateOps \cup ViewOps
             /\ pc' = [pc EXCEPT ![w] = NextCall(req[w].op)]
             /\ row' = [row EXCEPT ![w] = who]
             /\ UNCHANGED <<req, reply>>
  /\ UNCHANGED <<users, jar, pvars>>

FreshProjects == ProjectId \ {p.id : p \in projects}

\* Mutant: no UNIQUE (name, user_id).
AdmitsAgain(n, who) == n # NoName

\* Mutant: no NOT NULL.
AdmitsNull(n, who) == \A p \in projects : ~(p.name = n /\ p.user = who)

\* NOT NULL and UNIQUE (name, user_id) of logproj.project.
Admits(n, who) ==
  n # NoName /\ \A p \in projects : ~(p.name = n /\ p.user = who)

\* insert_new_project_for_user.  A lost answer leaves the row behind, and the
\* client is told that it could not be created.
CreateProject(w) ==
  /\ pc[w] = "create"
  /\ \/ /\ Admits(req[w].name, row[w])
        /\ \E id \in FreshProjects :
             projects' = projects \cup
               {[id |-> id, name |-> req[w].name, user |-> row[w]]}
        /\ \/ Works /\ Answer(w, "created", row[w])
           \/ Fault("create") /\ Answer(w, "failed", row[w])
     \/ /\ \/ Fault("create")
           \/ /\ ~Admits(req[w].name, row[w]) \/ FreshProjects = {}
              /\ Works
        /\ Answer(w, "failed", row[w])
        /\ UNCHANGED projects
  /\ UNCHANGED <<users, jar, keys, found, page>>

\* Mutant: the loop ends one row early.
ListedButOne(who) ==
  LET own == {p \in projects : p.user = who}
  IN  {p \in own : p # CHOOSE q \in own : TRUE}

Listed(who) == {p \in projects : p.user = who}

\* lp_app_main: a statement that fails shows as a user without projects.
ListProjects(w) ==
  /\ pc[w] = "list"
  /\ \/ Works /\ Render(w, "dashboard", Listed(row[w]), {}, 0)
     \/ Fault("list") /\ Render(w, "dashboard", {}, {}, 0)
  /\ Answer(w, "page", row[w])
  /\ UNCHANGED <<users, jar, projects, keys, found>>

\* Mutant: the WHERE of _lp_get_project leaves out the user.
OwnProjectAnyones(w) == {p \in projects : p.id = req[w].project}

OwnProject(w) == {p \in projects : p.id = req[w].project /\ p.user = row[w]}

\* The statement fails by itself on an id that is no uuid.
ShowFails(w) == Fault("show") \/ (req[w].project = NoProject /\ Works)

\* _lp_get_project and what its callers make of the result: a failure is a
\* 404, an empty result is a page all the same, whose id and name are the NULL
\* that PQgetvalue gives for a row out of range.  (Where the template library
\* cannot take a NULL the process dies there: a Restart.)
ShowProject(w) ==
  /\ pc[w] = "show"
  /\ \/ ShowFails(w) /\ Answer(w, "notfound", row[w]) /\ UNCHANGED <<found, page>>
     \/ /\ req[w].project # NoProject /\ req[w].op = "project" /\ Works
        /\ Render(w, "project", OwnProject(w), {}, 0)
        /\ Answer(w, "page", row[w])
        /\ UNCHANGED found
     \/ /\ req[w].project # NoProject /\ req[w].op = "project_keys" /\ Works
        /\ found' = [found EXCEPT ![w] = OwnProject(w)]
        /\ Goto(w, "keys")
        /\ UNCHANGED page
  /\ UNCHANGED <<users, jar, projects, keys>>

\* The rows of _lp_get_project_keys.
OwnKeys(w) ==
  {k \in keys : \E p \in projects :
     p.id = k.project /\ p.user = row[w] /\ p.id = req[w].project}

\* The loop over the result reads its first row every time.
ShowKeys(w) ==
  /\ pc[w] = "keys"
  /\ \/ Fault("keys") /\ Answer(w, "notfound", row[w]) /\ UNCHANGED page
     \/ /\ Works
        /\ \/ OwnKeys(w) = {} /\ Render(w, "keys", found[w], {}, 0)
           \/ \E k \in OwnKeys(w) :
                Render(w, "keys", found[w], {k}, Cardinality(OwnKeys(w)))
        /\ Answer(w, "page", row[w])
  /\ found' = [found EXCEPT ![w] = {}]
  /\ UNCHANGED <<users, jar, projects, keys>>

\* No handler makes a key: they are put into the table by hand.
AddKey ==
  /\ \E k \in Key \ {r.key : r \in keys}, p \in projects :
       keys' = keys \cup {[key |-> k, project |-> p.id]}
  /\ UNCHANGED <<vars, projects, found, page>>

-----------------------------------------------------------------------------
ArriveProject(w) ==
  /\ \E c \in Client : PostProject(w, c) \/ GetProjects(w, c)
  /\ UNCHANGED pvars

AdvanceProject(w) ==
  \/ LookUpForProject(w)
  \/ CreateProject(w)
  \/ ListProjects(w)
  \/ ShowProject(w)
  \/ ShowKeys(w)

ProjectsNext ==
  \/ Next /\ UNCHANGED pvars
  \/ \E w \in Worker : ArriveProject(w) \/ AdvanceProject(w)
  \/ AddKey

ProjectsSpec == ProjectsInit /\ [][ProjectsNext]_allvars

-----------------------------------------------------------------------------
(* Properties. *)

OfAddress(id, e) == \E u \in users : u.id = id /\ u.email = e

\* Whatever a project page shows belongs to the address in the cookie that
\* asked for it: the projects, and every key, whose row the page reads in a
\* second statement.
OwnPagesOnly ==
  page.kind # "none" =>
    /\ \A p \in page.projects : OfAddress(p.user, page.token.sub)
    /\ \A k \in page.keys : \E p \in projects :
         p.id = k.project /\ OfAddress(p.user, page.token.sub)

\* An address has no more projects of a name than it has accounts, however often
\* a creation whose answer was lost is tried again: one, unless the address was
\* registered twice, and then a cookie for it may create the name once under
\* each.  (UNIQUE (name, user_id) is about rows of users, not addresses.)
NamePerAddress ==
  \A e \in Email, n \in Name :
    Cardinality({p \in projects : p.name = n /\ OfAddress(p.user, e)})
      <= Cardinality(RowsOf(e))

\* A dashboard whose statement worked lists every project of one account of the
\* address in its cookie, created before this login or another, and none of a
\* second account: all of the address where it has one account, and where it
\* has two never the projects of both.
DashboardComplete ==
  [][\A w \in Worker :
       ListProjects(w) /\ UNCHANGED faults =>
         \E u \in RowsOf(req[w].token.sub) :
           page'.projects = {p \in projects : p.user = u.id}]_allvars

\* "We couldn't find the page you were looking for.": the 404 both handlers
\* return when _lp_get_project gives them nothing to show.
UnknownProjectIs404 ==
  page.kind \in {"project", "keys"} => page.projects # {}

\* "LOOP key KEYS": the keys page lists the keys of the project.
KeysPageListsKeys ==
  page.kind = "keys" => Cardinality(page.keys) = page.lines
=============================================================================
