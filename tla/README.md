# A verification project for logproj

logproj is a small web service in C: users register with an e-mail address and
a password, get a JWT in a cookie, and keep projects (later: log entries sent
with API keys) in Postgres. This directory models it in TLA+, checks small
instances with TLC and proves theorems about it with TLAPS.

## 1. Inventory

| Part | Source | State it keeps | Operations | What must hold |
|---|---|---|---|---|
| account handlers | `src/api_views.c`, `src/views.c` | none between requests; the `users` table and the client's cookie | register, log in (JSON API and form), log out, index, `/api/user` | an address is one account; a welcome is for a stored account whose password was given; a handler returns |
| project handlers | `src/views.c`, `src/api_views.c:146-181` | the `project` and `api_key` tables | create, dashboard, project page, keys page | a page shows what belongs to the cookie's address and all of it; a retried creation adds nothing |
| identity and tokens | `src/utils.c` | the RSA key files; the token lives at the client | `_lp_get_jwt`, `_lp_get_user_from_request` | a usable token names the address of an existing row; while that address has one account it goes on to mean it; it lasts as long as the keys, and no longer than the client wants |
| key script | `generate_key.sh` | the two key files | `ssh-keygen`, `openssl rsa` | a finished run leaves a pair that fits; an old key does not come back |
| database access | `src/db.c`, `src/models.c` | one connection and one result per call; handlers hold a user and a template context besides | one statement per function, each its own transaction | callers can tell "no row" from "no answer" (they cannot); connections and results are released once, after their last use |
| schema | `sql/` | tables, keys, `UNIQUE (name, user_id)` | migrations | the constraints the handlers rely on are there (`email_address` is not unique) |
| process and routing | `src/main.c`, 38-moths | two worker threads (`num_threads = 2`) | dispatch; `term` exits at once on SIGTERM/SIGINT | nothing is held across a restart |
| JSON library | `src/parson.c` (vendored) | trees of values | parse, get, set, remove, serialise | an object is a map; every value has one owner; a failed call takes nothing away; what is written is read back; a broken text is refused |
| unused | `src/blue_midnight_wish.c`, session functions of `src/db.c`, most of `src/models.c` | - | no caller | - |

The parts interact by calls and through shared state only: handlers call
`utils.c` and `db.c`; handlers on different threads meet in the database; the
client's cookie carries the identity from one request to the next.

What is hard here:

* **Interleaving.** A registration is *look up, check, hash, insert, sign*, every
  step a call of its own, nothing locked, no transaction around them, two threads.
* **Failure.** Every call may fail before or after its effect. The functions of
  `db.c` fold "failed" into an ordinary value (`user_exists` into 0,
  `get_projects_for_user` into no projects, `insert_user` into "not created").
* **Restart** between any two steps.
* **Fixed buffers.** An address goes through `char[128]` (by `strncpy`, which may
  leave it unterminated, or by `memcpy`) and its JWT through `char[512]`.
* **Memory by hand.** A function of `db.c` releases its connection and either
  releases its result or hands it over; handlers free their user, or forget to.
  Outages make every error path real, and a silent database holds a thread for good.
* **Keys that change.** `generate_key.sh` replaces two files by three commands
  under a server that reads one of them for each login and the other for each page.
* **A size computed apart.** The JSON library measures a value in one recursion and
  writes it in another; it parses strings of escapes, surrogates and raw bytes.
* **Identity by address.** A token holds an address; which row it means is
  decided at each request, from a table where the address may occur twice.

`PROJECT.json` lists these hazards line by line with the properties for each.

## 2. Modules

| Module | Models |
|---|---|
| `Buffers` | the lengths of a JWT and its cookie as functions of the address's length, and the buffer that cuts them |
| `Server` | threads, requests, the `users` table, cookies, failing calls, restart, and the operators all handlers use |
| `Accounts` | the account handlers: one action per request type and per call of a handler |
| `AccountService` | what the account handlers promise: atomic `Register`, `SignIn`, `SignOut` over a map of accounts and a map of sessions |
| `AccountsRefinement` | the refinement mapping from `Accounts` to `AccountService` |
| `Projects` | `Accounts` with the project handlers and tables added, served by the same threads |
| `Resources` | what a handler holds: connections, results, the user, the template context; threads that share the process's memory and a database that goes down, falls silent and comes back |
| `Sessions` | how long a login lasts: `generate_key.sh` command by command, the two key files, cookies under their paths, logging out |
| `JsonLimits` | the limits of `parson.c` and what is assumed of them |
| `JsonMap` | what a JSON object promises: a map from names to values |
| `JsonTree` | the objects of `parson.c` as a heap of nodes: members in order, capacity, owners; the calls that change them; the parser, one open object after another |
| `JsonText` | the texts of `parson.c` as bytes: strings and escapes, the parser, the serialiser and the size it allocates; a caller that receives bodies and builds answers |
| `JsonLibrary` | both views of the library, one at a time |
| `AccountsProofs` | theorems about `Accounts` and their proofs; on one thread, its refinement of `AccountService` included |
| `ProjectsProofs`, `ResourcesProofs`, `SessionsProofs` | theorems about `Projects`, `Resources` and `Sessions` |
| `JsonProofs` | theorems about `JsonTree`, its refinement of `JsonMap` included |
| `JsonTextProofs`, `JsonParseProofs`, `JsonReadProofs` | theorems about `JsonText`: types and sizes; what the parser makes of UTF-8; what it makes of texts of the serialiser, whole and cut |
| `MC_Accounts`, `MC_Projects`, `MC_Resources`, `MC_Sessions`, `MC_Json` | small instances |

`Projects` extends `Accounts`, which extends `Server` and `Buffers`: one
composition, in which all handlers share threads, tables and cookies.
`Resources` looks at the same handlers from below: a call there is three steps
(connect, execute, return), what the statement says is a choice, and the state is
what is allocated. `Sessions` takes the lengths of `Buffers` and looks at tokens
over time; that an address it signs for was checked is `Accounts`'s business.
The JSON modules stand apart: a tree or a text lives within one handler, on one
thread, and the server modules see only whether a body parses.

### How state and actions correspond to the code

A *worker* is a thread of the HTTP server running one handler. `pc[w]` is the
next call it makes that touches shared state; an action is that call together
with the local code up to the next one, early returns included. Statements in
Postgres commit on their own (each function of `db.c` opens its own connection),
so a statement is one step.

| `pc` | call in the code | action |
|---|---|---|
| `idle` | waiting in 38-moths | `ApiRegister`, `ApiLogin`, `ApiRefuse`, `PostIndex`, `GetPage`, `Logout`, `PostProject`, `GetProjects` |
| `lookup` | `_lp_get_user_from_request` | `LookUpForForm`, `LookUpForPage`, `LookUpForProject` |
| `exists` | `user_exists` | `UserExists` |
| `insert` | `libscrypt_hash`, `insert_user` | `InsertUser` |
| `pwhash` | `get_user_pw_hash_by_email`, `libscrypt_check` | `ReadHash` |
| `sign` | `_lp_get_jwt`, the Set-Cookie header | `LogUserIn` |
| `create`, `list` | `insert_new_project_for_user`, `get_projects_for_user` | `CreateProject`, `ListProjects` |
| `show`, `keys` | `_lp_get_project`, `_lp_get_project_keys` | `ShowProject`, `ShowKeys` |

In `Resources` the position of a thread is its handler (`op`), the function of
`db.c` it is in (`call`), and how far that has got (`at`):

| `at` | where | actions |
|---|---|---|
| `connect` | `_get_pg_connection` | `Connect`, `Anonymous` (the request needs no statement), `InitContext` (of the 404 page) |
| `exec` | `PQexecParams` | `Execute` |
| `bad` | the label `error` | `Fail` |
| `good` | behind the check of the status | `ReadValue`, `ReadUser`, `NoMemoryForUser`, `HandOver`, `CreateReturns` |
| `yes`, `no` | back in the handler | `InitContext` (`gshkl_init_context`), `CallNext`, `Answer` |

`heap[x]` says what an object holds: a session at the database, a connection that
failed, a result (by the function that asked for it), a user (by the handler it
was made for) or a template context (by the C function that made it), so that a leak
tells where it comes from. `m38_render_file`, which is external, frees the context it
renders; `Unrendered` and `LogsIn` are the returns of `Answer` that render none. `Connect` of a database
that is down makes an object nobody points to, as `db.c:14-17` does.

In `Sessions` a key is known by its generation; a file that is cut short, or in
a format libjwt does not read, is `Unusable`. Each action of `Script` is a step of
a command that changes what the server would read. A cookie is kept under the path
the client derives: `/`, or `/api/user` for one the API set and whose
`; Path=/` the buffer cut off.

In `JsonText` each function of the parser is an operator of the text and a
position that returns a set of one result, or none for NULL; `Processed` is the loop
of `process_string`, `Utf16` is `parse_utf_16`, `Quoted` is `get_quoted_string`,
`ValueAt`, `ContainerAt` and `MemberAt` stand for the three functions that call each
other, by the levels of nesting that are left. `SizeOf` and `Written` are the two passes
of the serialiser. All recursion is in recursive functions, on lengths, positions,
levels and the values nested at most `MaxDepth` deep, so that the provers can reason about it. `Receive` adds a piece to a body,
`ParseBody` and `RefuseBody` are what a handler does with it, and `NewContainer`,
`SetString`, `AppendString`, `Wrap` and `Done` make, fill, embed and drop a value.

`users` holds rows `[id, email, password]`; a hash is known by the password it
accepts. `jar[c]` is the `access_token` cookie of client `c`: the address signed
(`sub`), whether the JWT survived the cookie buffer (`intact`), and, for the
properties only, the row it was signed for. `reply` is the last answer of the
server with the request it answers, `page` the last project page. `Restart`
empties the threads and leaves tables and cookies.

Abstractions:

* A fault (`Fault(call)`) stands for every way a call can fail: no connection, a
  failed statement, an answer lost after the commit (`InsertUser`,
  `CreateProject`), an unreadable key file, a failed hash. `FaultyCalls` says
  which calls may fail in an instance, `MaxFaults` how often.
* Addresses are model values with a length (`EmailLength`) and a stored form
  (`Clip`, the first 128 bytes). An API handler that filled its array to the
  last byte reads on into whatever follows: each read is any address with the
  same first 128 bytes (`Reads`).
* `UserId` and `ProjectId` bound the tables. An insert into a full table is refused.
* `PQgetvalue` of a row out of range gives a NULL, which the page templates of the
  external library either print as nothing (modelled) or die of (a `Restart`).
* The compact JSON, base64url and 10-digit `iat` of the JWT are libjwt's; the
  lengths in `Buffers` rest on them and on the 2048-bit key of `generate_key.sh`. An
  address is taken to have no bytes that JSON escapes; such bytes make a JWT longer.
* A lost answer comes after its commit, as libpq reports it. An INSERT that Postgres
  commits only after its failure was reported, or after the process was killed, is not
  modelled.
* In `JsonTree` a node is one allocated `JSON_Value` with its object; strings,
  numbers, booleans and null are leaves, arrays are left out. `Below` is what
  `json_value_free` reaches. An allocation fails in the model wherever the code
  makes one (the `ok |-> FALSE` outcomes), names and values of a dotted call have
  two parts (the copy of its first part may fail too), and the caller hands over only values that are his and do not contain
  the object they go into: the library relies on it without checking.
* `MaxDepth` bounds the nesting of the values in `JsonText`; the parser goes to
  `MAX_NESTING`, which must not exceed it (`DepthAssumption`), and only `Wrap` goes deeper.
* In `JsonText` memory does not run out (that is `JsonTree`'s subject) and numbers
  are naturals that fit an `int`; signs, fractions and exponents are `strtod`'s.
  `isspace` and `%c` are those of the C locale, which the server never leaves.
* In `Resources` an object is one unit of memory, and what libpq allocates besides
  belongs to its connection or result; a template context is one unit with the contexts
  that are added to it. JSON, form values and token strings are left out. A shortage of
  memory is a full `Object`: a user and a context are not checked for, so that the
  process dies. `Fresh` is any one free object, as all are alike.
* In `Sessions` a server whose key file is missing or broken signs and reads
  nothing.
* API keys are put into the table by hand (`AddKey`): no route makes one.

## 3. What TLC checks

| Run | Instance | Shows |
|---|---|---|
| `race` | 2 threads, 1 address, 2 passwords, 4 rows, 1 failed call | `AckedIsStored`; `DuplicatesBounded`: an address gets at most one row per thread, and one more per failed call; `LockoutIsPermanent`: with two rows it is never logged in with again; `IdentitySettles`: an address with one account and no registration past its check keeps that account, and its cookies their row |
| `lengths` | addresses of 20, 60, 128, 129, 200 bytes, 1 thread, 1 failed call | `TypeOK`, `TokensBacked`, `AckedIsStored` |
| `serial` | 1 thread, 2 clients, 2 addresses, 2 failed calls, any but `user_exists` | `EmailUnique`, and `ImplementsService`: the handlers refine `AccountService`, which does not look at the password a sign-in was given (`AckedIsStored` does) |
| `steady` | 2 fair threads, 1 failed call but no insert, no restart | `SignUpSettles`: a registration that has got as far as the check leaves an account under its address |
| `json` | 4 nodes, 3 names, capacity 1 then 2, objects 2 deep in the parser; bodies of up to 5 of 17 pieces, values built up from texts of 9 bytes | trees: `JsonTypeOK`, `ObjectsSound`, `OneOwner`, `FailureKeeps`, `ImplementsMap`; texts: `TextTypeOK`, `SizeExact`, `ReadsBack`, `CutOffIsRefused`, `StringsAreUtf8` |
| `resources` | 2 fair threads, 4 objects; the API login, the creation of a project, the keys page | `PointersSound`, `SessionsBounded`, `OnlyKnownLeaks`, `Answered` |
| `sessions` | 2 threads, 1 client, addresses of 32, 33 and 46 bytes, 2 rotations | `LastLoginDecides`, `LoginLasts`, `OldKeysAreGone` |
| `projects` | 1 thread, 2 addresses, 2 project rows, 1 key, 1 failed call, `user_exists` included, so that an address may have two rows | `ProjectsTypeOK`, `OwnPagesOnly`; `NamePerAddress`: no more projects of a name than its address has accounts; `DashboardComplete`: a dashboard lists the projects of one account of its address, and all of them |

The bounds are small because the interesting cases are: two threads are what
`main.c:46` starts and what the race takes; the fourth row of `race` is the one
the bound of three forbids; the five lengths of `lengths` lie on each side of
the two limits (45 bytes for the cookie, 128 for the array), with two addresses
that share their first 128 bytes; two failed calls are a lost insert and a failed retry.
In `json` three values suffice to fill an object of two and to offer it a third,
or to nest to the depth at which the parser gives up. The pieces of a body are the
tokens and the fragments that meet at the hard places: a quote before and behind a
two-byte character, `\u0000`, a surrogate's halves, a number with a leading zero,
an escape that is cut; five of them make an object with a member, with one piece of
a surprise. Values are built upon while
their text fits nine bytes with its end, by which they get deeper than the parser
follows. In `resources` four objects are what one keys page holds at a time, its user,
its context, a connection and a result; with the other thread, and with what was lost
before, every allocation fails somewhere. Its three handlers make both kinds of
route, hand over and lose every kind of object; the theorems are about all handlers,
among them those that register, read a dashboard or make their context at another
place. In `sessions`
the addresses are the three kinds a cookie buffer makes; two rotations are the least in
which a key can be old, older, and come back.
Values of the same kind are interchangeable, so the safety runs use symmetry
(`serial` and `steady` do not; nor does `resources`, for its liveness property and the choice in `Fresh`).
Deadlock is checked in every run but `json`, where a call that needs a node when
all are taken, on values that fill their bounds, has nowhere to go.

**Fairness.** Weak fairness of each thread's `Advance`: a handler is straight-line
code over calls that return, and nothing in one thread waits for another.
Nothing is assumed of clients and faults. `SteadySpec` has no restarts, its
instance no lost inserts: `SignUpSettles` is about a stretch in which
the process lives, as a restart answers nobody. `Resources` takes the same fairness
but lets the database fall silent, in which `Connect` and `Execute` are disabled:
no call of the code has a timeout. Its `Answered` is about what comes after the last
time the database fell silent: from then on it may go down and come back for ever,
memory may be used up, and the process may be restarted, which ends a handler. Of a
database that falls silent again and again it says nothing: a call that happens to be
waiting each time would have to be answered in between.

### Findings

Four runs check what a comment, a message or a template of the repository says,
and TLC finds it violated:

* `found_race`: two registrations at once of an address both pass `user_exists`
  and both insert (`api_views.c:81-94`, `views.c:105-119`).
* `found_cookie`: the cookie buffer cuts the JWT of an address of 46 bytes or more
  (`api_views.c:48-49`, `views.c:49-50`); the client is welcomed with a token that
  does not decode. `CookieLimit` proves that 45 is the limit.
* `found_404`: an id of nobody's project gets a page without id and name
  instead of the 404 (`views.c:320-330`, `353-364`).
* `found_keys`: the keys page reads row 0 on every turn of its loop (`views.c:372-374`).

What follows from a duplicate: neither owner can log in with the address again
(`db.c:239` wants exactly one row; `LockoutIsPermanent`), tokens mean whichever
row comes first, from one request to the next, and the address may have a project of one
name twice, of which no dashboard shows both. `IdentitySettles` says when this is ruled
out: once the address has one account and no registration of it is past its check, only
a failed call can bring a second. One thread is enough for two rows when a `SELECT` fails:
`user_exists` returns 0 for it (`db.c:89-93`), which reads as "not registered". That
is the term for failed calls in `DuplicatesBounded` and the exception in `Serial`.

Not findings, as nothing in the repository says otherwise, but stated by properties
and worth knowing:

* memory is lost for each failed connection (`db.c:14`), for each created project
  (`db.c:402`), for the user of each handler that does not free it (`views.c:31`, `236`,
  `251`, `297`, `301`, `api_views.c:157` to `181`), and for the template context of each
  return that renders none: the redirect after a login or a registration
  (`views.c:164`), the one after a new project (`views.c:297`), and a project or keys
  that cannot be read (`views.c:329`, `363`, `381`). `OnlyKnownLeaks` says that of
  connections, results, users and contexts this is all; it does not speak of what the
  libraries allocate for JSON, form values and tokens;
* logging out leaves a cookie behind that the API set for an address of 33 to 45
  bytes, and `/api/user` goes on to take its client for that address
  (`LastLoginDecides` says that there is no other case);
* a member's name may begin with any byte instead of a quote (`parson.c:453-457`), and
  a raw control character can be written that cannot be read (`ReadsBack`).

## 4. What is proved

| Module | Theorem | Says |
|---|---|---|
| `AccountsProofs` | `CookieLimit` | the cookie buffer holds the JWT of an address of up to 45 bytes, and of no longer one |
| | `TypeCorrect` | `Spec => []TypeOK` |
| | `TokensAreBacked` | `Spec => []TokensBacked` |
| | `WelcomeIsStored` | `Spec => []AckedIsStored` |
| | `RowsAreBounded` | `FiniteServer /\ Spec => []DuplicatesBounded` |
| | `LockoutsArePermanent` | `Spec => LockoutIsPermanent` |
| | `IdentitiesSettle` | `Spec => IdentitySettles` |
| | `SerialEmailUnique` | `Serial /\ Spec => []EmailUnique` |
| | `ServiceImplemented` | `Serial /\ Spec => ImplementsService` |
| `ProjectsProofs` | `ProjectsTypeCorrect` | `ProjectsSpec => [](TypeOK /\ ProjectsTypeOK)` |
| | `PagesAreOwn` | `ProjectsSpec => []OwnPagesOnly` |
| | `NamesPerAddress` | `ProjectsSpec => []NamePerAddress` |
| | `DashboardsComplete` | `ProjectsSpec => DashboardComplete` |
| `JsonProofs` | `JsonTypeCorrect`, `ObjectsAreSound` | `Spec => []JsonTypeOK`, `Spec => []ObjectsSound` |
| | `ValuesHaveOneOwner` | `Spec => []OneOwner` |
| | `FailuresKeep` | `Spec => FailureKeeps` |
| | `MapImplemented` | `Spec => ImplementsMap` |
| `JsonTextProofs` | `TextTypeCorrect`, `SizesAreExact` | `TextSpec => []TextTypeOK`, `TextSpec => []SizeExact` |
| | `NestingIsLimited` | of any text of bytes the parser returns values nested at most `MAX_NESTING` deep |
| `JsonParseProofs` | `ParsedIsUtf8` | of any text in UTF-8 the parser returns values whose strings are in UTF-8, but for the first byte of a name |
| | `StringsStayUtf8` | `Utf8Given /\ TextSpec => []StringsAreUtf8` |
| `JsonReadProofs` | `WrittenIsReadBack` | `TextSpec => []ReadsBack` |
| | `CutOffRefused` | `TextSpec => []CutOffIsRefused` |
| | `ValuesAreTidy` | `TextSpec => []KeepsTidy`: the names of every object that is parsed or built differ, at any depth |
| `ResourcesProofs` | `TypeCorrect`, `PointersAreSound` | `Spec => []TypeOK`, `Spec => []PointersSound` |
| | `LeaksAreKnown`, `SessionsAreBounded` | `Spec => []OnlyKnownLeaks`, `Spec => []SessionsBounded` |
| `SessionsProofs` | `TypeCorrect`, `LastLoginsDecide` | `Spec => []TypeOK`, `Spec => []LastLoginDecides` |
| | `LoginsLast` | `Spec => []LoginLasts` |
| | `KeysStayGone` | `Spec => OldKeysAreGone` |

They hold for any sets of threads, clients, addresses, passwords, rows and nodes
and any number of failures and restarts, under the assumptions the modules name.
Those of `Server` are `EmailAssumption` (a clipped address is an address of 128
bytes, one that fits is its own clipping), `FaultAssumption` and `NullAssumption`
(the placeholder for "no row" is no row id); `JsonTree` and `JsonLimits` have
`RootAssumption`, `CapacityAssumption` and `NestingAssumption`; `JsonText` has
`TextAssumption` (bodies and the callers' strings are bytes) and `DepthAssumption`; `Resources` a finite set
of threads and handlers that exist (`ResourcesAssumption`), `Sessions` lengths that are
numbers and placeholders that are no keys or tokens (`SessionsAssumption`). TLC
evaluates all of them. `StringsStayUtf8` is about bodies and strings in UTF-8
(`Utf8Given`): what a body in another encoding is turned into is the same bytes, and
the property says nothing of it. TLC evaluates `Utf8Given` on the instance.

**Accounts.** None of the safety invariants is inductive. A welcome is right
because of the row the handler found or made some steps earlier, while others
ran, so `IInv` adds

* `WorkersHoldRequests`: a worker under way holds a request, and one past the
  look-up of a registration or login one with an address and a password;
* `RowsClipped`: the table holds stored forms of addresses only;
* `SignBacked`: the row a worker is about to sign for is in the table, with the
  address and the password of the worker's request.

The step that needs an idea is `LogUserIn` for an address that overran its array:
the text signed may be any continuation of the stored 128 bytes. By `CookieLimit`
a token over 128 bytes or more does not survive the cookie buffer, so that a token
that does decode is for the stored form (`UsableIsStored`): one defect hides
the other. Rows are never changed or deleted, which carries the rest over the
steps of other workers (`GrowthKeeps`). There is one lemma per action
(`UserExistsIInv`, `InsertUserIInv`, ...), put together in `NextIInv`.

**One row per address, or how many.** `Serial` states where addresses are unique
after all: one thread, a `user_exists` that never fails, addresses within their
arrays. It drops no other failure and no restart. The strengthening `InsertsNew`
says that what `user_exists` found is still so at the insert. With more threads
`RowsAreBounded` counts: rows of an address plus the workers at its insert never
exceed the threads plus the failed calls (`RowsAndInserts`), because a worker
gets to the insert only while there is no row, or by a failed call. It assumes a
finite set of threads (`FiniteServer`) and speaks of addresses within their arrays.
`LockoutsArePermanent` needs neither: two rows stay two, and a login that has not
passed `ReadHash` does not pass it any more.
`IdentitiesSettle` needs one thing from the code: a worker gets to an insert only from a
check that found no row or failed (`SettledNoInsert`). While an address has its row and no
call fails there is none at its insert, and no step takes one there (`SettledSteps`);
the row a cookie was signed for is a row of its address (`TokensBacked`), hence the one.
It holds for any number of threads, of which one may register the address again at any time.

**The account service.** `ServiceImplemented` maps the table to accounts (an address to
the password its row accepts) and the jars to sessions. Most steps of a handler change
neither and map to a stutter. `InsertUser` maps to a registration, answered or not,
for which `InsertsNew` must say that the address has no row and `AccountOfRow` that the
map is then changed at one place only; `LogUserIn` maps to a sign-in, for which
`SignBacked` must say that the password was the account's (the mapping lets it be any, so
that the one the client gave is `WelcomeIsStored`'s); a cookie that was cut maps
to no session.

**Projects.** `IInv` is kept by the project handlers too. `WorkersServeOwn` says
that the row a handler works for is of the address in its cookie, whatever was
registered since; `FoundOwn` carries the project a page has found over to the
statement that asks for its keys. The table's `UNIQUE (name, user_id)` is by row, and
promises are by address: `NamesPerAddress` maps the projects of a name to their rows, one
to one (`NamePerRow`), so that there are no more of them than rows of the address.
`DashboardsComplete` takes from `WorkersServeOwn` that the row the statement asks for is
one of the address. Neither needs `Serial`.

**JSON objects.** `HeapSound` states ownership by the children of each node: they
are allocated, none is a root, no two nodes share one. The idea is in
`DetachedApart`: what `json_value_free` reaches from a member of an object that is
itself reached from the roots is referred to from nowhere else, and does not
contain the object. Were it otherwise, all nodes outside it would be closed under
"child of" and hold the roots, so the object would not be reached. `ObjectChanges` covers
every change of one object with the frees that go with it.
`FailuresKeep` follows each call to the point where it gives up and finds every member
in its place (`KeepsPlaces`), also when the arrays had grown by then. For `MapImplemented`
an object is looked at through the names it binds (`Binds`), which do not depend on
the order of its members: `BindStep` lists how a call can change them, and each way
is a step of `JsonMap`. It needs `RootHeld`, that the caller keeps the object it began with.

**JSON texts.** What `SizeOf`, `Written`, `Processed`, `QuoteEnd`, `Parser` and `Strings`
compute for *every* value and text is proved by induction. The library's induction theorems
take an operator, so `JsonTextProofs` begins with its own over sets: the naturals
have a least element in every subset that is not empty (`LeastNatural`, from the
well-foundedness of finite subsets), hence induction on a rank (`RankInduction`) and the
existence of a function that satisfies a recursive equation whose calls descend
(`Recursion`). For each recursive function one lemma says that its equation is such
(`WrittenByLocal`, `ProcessedByLocal`, ...), one that it satisfies it (`WrittenEquation`,
`ProcessedEquation`, `QuoteEndEquation`, `ParserLevels`, `StringsEquation`).
`SizesAreExact` is then an induction on the depth of a value: the texts of the parts
are as long as their sizes, and the separators make up the rest (`SizeByExact`). That a
name is looked up by itself when its member is measured or written is part of it, as
`Under` finds a value of the object, of lesser depth.

`StringsStayUtf8` needs to know where the parser is in the text. A position is a
*boundary* if what follows it is in UTF-8 (`Boundary`). From a boundary the parser moves
over bytes of ASCII, which are characters of their own (`BoundaryStep`), and over
quoted strings, which begin with one byte taken for a quote, and end with a quote that is a
character (`QuoteEndCloses`, `QuotedUtf8`); so wherever it begins a value is a boundary.
Within a string each turn of `process_string` replaces an escape, all ASCII, by a
character (`EscapeUtf8`), or copies a byte, whatever its place in a character:
`ProcessedUtf8` therefore speaks of any bytes put in front. Cutting at a NUL keeps
characters whole (`CStringUtf8`). The one exception is a name whose "quote" was the
first byte of a longer character, for which `NearlyUtf8` is exact. `Scans`, `Takes`
and `Yields` carry this through arrays, objects and levels for any set of positions
and of strings.

`WrittenIsReadBack` and `CutOffRefused` have one proof. A text *agrees* with what a value
is written as if it is the same as far as the text goes (`Agrees`): the whole of
it and every part that is cut off do. For each function of the parser there is one lemma
on what it returns on such a text. A string is read escape by escape as it was written
(`QuoteEndForms`, `ProcessedForms`: what `Escaped` puts in front of a text is what
`ReadOne` takes from it), and refused just when a byte of it is a control character
without a letter; if its closing quote is missing, `skip_quotes` runs into the end
(`QuotedReads`). A number is the one kind of value that says nothing of its own end:
cut off, `17` is read as `1`. `ReadTo` therefore promises less where the text ends:
what was read reaches up to the end, so that the array or the object around it meets a
zero byte instead of a comma or a bracket (`LoopBreaks`). A cut number would make a
body, were it not that `json_parse_string` takes arrays and objects only; `KeepsTidy`
says that a caller holds nothing else. `LoopWhole` says that the parts between the commas are read
one a turn, until one is met that is not read back; `LevelReads` carries `Reads` from the values of `n`
levels (`Kept`) to those of `n + 1`, and `ParserReads` to any number of levels.

`ReadsBack` does not hold of every value: an object with two members of one name is written
with one value twice, and refused when it is read. So the invariant `KeepsTidy` is needed, by which the names
of an object differ *all the way down*, and are no more than it has room for. `Tidy` is the largest
such set of values (`TidyIs`), which makes it an invariant without recursion:
`TidyClimbs` shows it of what the parser makes, `KeepsTidyStep` of what callers build.

`tlapm` 1.4.5 tells its SMT solver that anything whose domain is `1 .. n` has the
length `n`, which the semantics of `Len` does not give for what is no sequence. The proofs
of the JSON texts, where lengths matter most, were also checked with that
weakened to sequences.

**Resources.** `IInv` says of each thread what it owns at each position (`Own`), that
no two pointers share an object (`Distinct`), and that every object that is in use and
not held is a known leak (`Accounted`). It is the last that makes the first two
inductive: what `Fresh` returns is free, hence held by nobody. A thread's own pointers
differ because what they point to is marked differently (`PointersDiffer`). A context is a known leak exactly where `Answer` drops
it without rendering. Sessions are then
the `conn` of some thread each, and the bound is a matter of counting.

**Sessions.** `LoginLasts` is about the state after a script that may have been
stopped and restarted anywhere, so `KeysFollowScript` follows the two files through
the positions of `script`. The private key is the one made last or none, from which
`OldKeysAreGone` follows too: the public key is only ever written from it.
`JarFollowsLogins` says that a client without a cookie under `/api/user` holds just
that of its last login.

Only model-checked are the liveness properties `Answered` and `SignUpSettles`: fairness
and `ENABLED` are out of the prover's reach. Every other property that a passing run
checks is stated by a theorem.

## 5. Not modelled, and why

* Static files and the error page: I/O without state. Command-line parsing.
* Expiry: `iat` is signed but never looked at, so that tokens have none.
* Code without a caller; `log_entry`, which no code writes; migrations.
* Of the JSON library: arrays as a heap of nodes, numbers with signs, fractions and
  exponents, validation, comparison, comments, deep copies, files. Values that nobody
  can free any more (a leaf that `json_object_set_string` made and could not add; the
  members of a nested object whose name was taken) are in the model and stay allocated;
  no property forbids them, as the library promises nothing about them.
* The length of a project id in the path (`views.c:340` copies it by its own length
  into `char[64]`): ids are uuids or no uuids here.
* The lengths of key files: both readers in `utils.c` write a zero byte behind what they
  read (`utils.c:45`, `116`), which must leave them room. That is a matter of constants:
  the files of a 2048-bit key are shorter than 2048 bytes.
* The one-step handling of a client's side: a cookie is in the jar when the
  handler returns.

## 6. Plan

In this order:

1. `Migrations`: the start-up script against partially applied schemas.
2. Arrays in `JsonTree`: the only other owner of values.
