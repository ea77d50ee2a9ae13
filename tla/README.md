# Verification of the diagram backend

TLA+ models of the Go program in `src/backend`: what its handlers do to the
state they share, what they promise, and where they keep or break the promise.
TLC checks small instances; TLAPS proves every safety property that a passing run
checks, and the two implementations of abstract specifications, for every value
of the constants.

Paths below are relative to `src/backend` unless they begin with `src/`.

## 1. Inventory

The program is a fiber (HTTP) server: each request runs in a goroutine of its
own, handlers call services, services call repositories, repositories issue one
SQL statement per call through gorm.  There is no transaction, no lock and no
test in the repository.  Everything concurrent meets in one of three places:
the database, the session store, or (SFTP) a remote file system.

| part | files | state | operations |
|---|---|---|---|
| workspace module | `app/module/workspace`, `app/database/schema/workspace.go` | table `workspaces` (soft delete, unique index on owner and name) | create, list, get, update, delete |
| authentication and sessions | `app/module/auth`, `app/module/user`, `app/middleware/auth.go`, `utils/session` | session store (memory or redis), table `users`, cookies, grants at the identity provider | login, callback, me, logout, `RequireAuth` |
| storage drivers | `utils/storage` | remote or local files, one SSH connection per SFTP call, one goroutine per SFTP upload | Upload, Delete, Open, Stat, GetURL |
| lifecycle | `internal/bootstrap`, `cmd/web/main.go`, `app/middleware/register.go`, `app/router` | the database handle, the listener | start, migrate, seed, stop |
| configuration and start-up | `utils/config`, `utils/session`, `app/middleware/register.go`, `internal/bootstrap/webserver.go` | the file, what each process read from it, bound ports, prefork children | find, parse, validate, build the store, register, listen |
| paginator | `utils/paginator` | none | `Paginate` (no caller) |
| responses and validation | `utils/response` | none | error to JSON |
| helpers, logging | `utils/helpers`, `utils/logger`, `internal/bootstrap/logger.go` | none | random strings, digests, slugs, log lines |
| document schemas | `app/database/schema/document*.go`, `shared_access.go` | tables nobody reads or writes yet | none |

How the parts interact: `RequireAuth` reads the session and puts a user id into
the request context; the workspace handlers take that id as the owner.  The
session middleware of fiber hands every request a private COPY of its session
and writes the copy back as a whole on `Save`.  The auth service calls the
identity provider (discovery, token, keys) and the user table in the middle of
a callback.  The storage drivers are called by nobody yet.  With prefork the
parent process starts children that run `main` again: each reads the
configuration for itself and, without redis, keeps sessions of its own.

What is hard about it:

* **Check, then write.**  `CreateWorkspace` and `UpdateWorkspace` ask whether a
  name is free and write later; `HandleCallback` asks whether a user exists and
  inserts later; owner checks are made on a row read earlier.
* **Whole-copy writes.**  `Update` writes back every column of a stale row, and
  `Save` writes back a stale session, under an id that may be gone by then.
* **Dropped errors.**  `CheckNameExists` ignores the error of its COUNT, any
  error of `FindUserByLogtoSub` means "new user", an UPDATE without a matching
  row is a success.
* **Lost and repeated messages.**  A browser reloads the callback URL; an answer
  of the database gets lost after the commit; a code is spent and its token lost.
* **Paging under writers.**  Page and total are two statements and the table
  changes between pages; the offset is machine arithmetic.
* **A goroutine that outlives its call** (`utils/storage/ftp.go:99`), a channel
  it reports into, a context that ends at the wrong moment.
* **Files under their final names.**  Two of three drivers truncate the old file
  first and fill it under the eyes of readers; the third may lose the answer of a
  request that took effect.
* **Rules that must agree.**  The number that `Validate` looks at and the one
  that is bound, the seconds that are configured and the ticks of a session, the
  origins that are accepted and those `cors.New` takes, come from different code.
* **Start and stop.**  The listener runs before the database is connected, a
  failed connection is only logged, a shutdown that times out never closes the
  database; prefork children migrate, seed and keep sessions each on its own.

What would make each part correct:

* workspaces: live names of an owner are unique; only the owner's accepted
  requests change a row; an answer says what happened; each request is one
  indivisible step to an observer;
* listing: a walk misses only as much as was deleted and repeats only as much as
  was created; a page is the slice that was asked for;
* sessions: a browser is signed in only as a user it was granted; flows and
  sessions never cross; a flow completes at most once, and completes if nothing
  fails; a subject has one account; logout is final;
* gateway: a write goes to a user who was granted to the browser that asked;
* storage: "ok" means the file is whole, whatever the driver; a torn file has a
  cause; with SFTP nothing is written after the call returned, no connection and
  no goroutine leaks;
* lifecycle: a stop loses no request that was accepted, unless the process is
  ended from outside or by a panic, and always ends; processes that migrate side
  by side and to their end leave a complete schema;
* configuration: every process that listens has the configuration that was
  validated, and does with it what was validated.

The full list of hazards, each at its line, is `hazards` in `PROJECT.json`.

## 2. Modules

```
WorkspaceRegistry          what the workspace module promises (abstract)
Workspace                  its handlers, statement by statement; implements the registry
  WorkspaceProofs          theorems about Workspace: names, owners, refinement
    WorkspaceLedgerProofs  more of them: what the replies say of the table
WorkspaceListing           the listing endpoint under concurrent writers
  WorkspaceListingProofs   theorems about WorkspaceListing
OidcLogin                  login, callback, me, logout, RequireAuth, stores, users
  OidcLoginProofs          theorems about OidcLogin
  Gateway                  OidcLogin composed with WorkspaceRegistry
    GatewayProofs          theorems about Gateway; uses OidcLoginProofs
StorageCalls               the calls of the Storage interface, common to the drivers
  FileSystem               the file system under two of them (external)
    LocalStorage           the local driver
    SftpStorage            the SFTP driver
  S3Storage                the S3 driver; implements AtomicStorage
AtomicStorage              a storage of indivisible calls (abstract)
Storage                    the three drivers behind NewStorage, and their properties
  StorageProofs            theorems about Storage
Boot                       configuration and start-up of a process and its children
  BootProofs               theorems about Boot
Lifecycle                  start and stop hooks, listener, database handle, migration
  LifecycleProofs          theorems about Lifecycle
MC<module>                 constants and symmetry for TLC
```

Two conventions hold in every module.  An action is one call to shared state
(one statement, one store operation, one call to the provider or the server)
with the Go code up to the next such call.  A definition whose comment begins
with "Variant:" is not part of the specification: it is a form that the
definition after it would take if the code had a particular mistake, and
`mutants` in `PROJECT.json` says which property notices it.

### Workspace

`rows` is the table; the index of a row is its id, and soft-deleted rows stay.
`pc`, `call`, `ws`, `status` are a handler's position, its decoded request, its
`*schema.Workspace` and its reply.

| action | code |
|---|---|
| `Receive`, `Reject` | middleware, id and body parsing, validation: a request enters with any content that passes, or ends in 401, 400 or 422 |
| `CreateCheck`, `CreateWrite` | `CheckNameExists`; INSERT |
| `GetFind` | SELECT, owner or public |
| `UpdateFind`, `UpdateCheck`, `UpdateWrite` | SELECT and owner check; name check if a name was sent; merge and UPDATE |
| `DeleteFind`, `DeleteWrite` | SELECT and owner check; soft delete |

`Stored` is what gorm's `Updates(struct)` does: it sets the columns whose field
is not the zero value, so false and nil never reach the table, and the stale
name does.  `IndexHolds` is `idx_workspace_owner_name`, which covers deleted
rows.  `Faults` lets any statement fail; a failed statement has no effect unless
`Lost` is set: then a write may take effect and its handler see an error.

Abstracted: time stamps, message texts, the gaps a refused INSERT leaves in the
id sequence (so ids are consecutive), lengths of names beyond "valid or not".

`WorkspaceRegistry` is the abstract specification: a table and a verdict for each
request.  A step decides one request and changes at most one live row, the
caller's; deleted rows are never touched; a refused request leaves no trace
(unless `Lost`).  `Workspace!ImplementsRegistry` instantiates it with
`table <- rows` and `outcome <- Outcome`, where a request is open until its
handler is done, and then accepted or refused by its status: every statement but
the deciding one maps to a stutter.

### WorkspaceListing

`rows` holds the ids of one owner's live workspaces in the order of the SELECT,
newest first.  `Ask` is the handler's treatment of the query string, `Find` the
SELECT with LIMIT and OFFSET, `Count` the COUNT and the reply.  `Create` and
`Delete` are other requests.  Two clients: one walks (`AskNext`) until the total
it was told is covered, one asks for arbitrary numbers (`AskAny`).  `Offset`
wraps past `MaxInt` as Go's int does past 2^63 - 1.  `created_at` is taken to be
distinct.

### OidcLogin

`store` maps session ids to data, in each process that has a store of its own
(`Stores`; `at` is the process that accepted a request), `users` is the table, `grant` is what the
provider knows of a flow, `cookie` what a browser sends; a request has its
position, the cookie it was sent with, its copy of the session and its reply,
and a callback the `code` and `state` of its query.  Session id, state and
verifier are minted by one Login each, so the login names all three, and the
code too that the provider makes of its flow.

| action | code |
|---|---|
| `SendOther`, `SendCallback`, `Deliver` | a browser sends a request with its present cookie and obeys `Set-Cookie` when a reply arrives; requests overlap, replies arrive in any order or never.  A callback may be repeated; its code and its state are independent: any code of an approved flow, of another browser too, and any state that was drawn, or none |
| `Approve`, `Expire` | the user signs in at the provider; a stored session expires |
| `LoginGet`, `LoginRegenerate`, `LoginSave` | `Login`: `Regenerate` deletes the old id and keeps the data in the copy |
| `CallbackGet` | `Callback`: session, comparison of the states, where none in both is equal too |
| `CallbackExchange` | discovery, token exchange with the session's verifier, verification; the provider takes no code without the verifier of its flow, and it is this that refuses a foreign code in a session that waits for no flow |
| `CallbackFind`, `CallbackUpdate`, `CallbackCreate` | provisioning |
| `CallbackSave` | user in, state and verifier out, `Save` under the loaded id |
| `RequireAuth`, `MeGet`, `MeFind`, `LogoutGet`, `LogoutDestroy` | the middleware, which leaves the user in Locals for other modules, and the two protected handlers of this one |

External, modelled from their use: fiber's session semantics (snapshot on Get,
whole write on Save, cookie set before the write), the provider (a code is
accepted once, with its verifier), browsers.  Equal random strings are not
modelled.

### Gateway

A request of `Others` passes `RequireAuth` of `OidcLogin` and stops at `pc =
"next"` with the user in `uid`; `Serve` lets `WorkspaceRegistry` decide it for
that user.  Between the two the session may be logged out, replaced or expire.
The registry stands for the handlers because they implement it (`Refinement`
below, and the run `names`); `table` and `outcome` are its variables.

### Storage drivers

A chunk is known by the upload it came from, so a file is a sequence of upload
names and a mixed, cut or holed file is visible as such.  `FileSystem` keeps
names apart from files: `dir` is what a name stands for, `data` what a file
holds, `handle` which file a call has open, so that a handle outlives a
removal and two uploads of one name share a file.

| action | code |
|---|---|
| `LocalStorage`: `Create`, `CopyChunk`, `CopyEnd` | `Upload`: `os.Create` (truncates), `io.Copy`, return |
| `Delete`, `Open`, `ReadChunk`, `ReadEnd` | `os.Remove`; `os.Open`, `os.Stat`, and what the caller does with the file |
| `SftpStorage`: `Dial`, `NewClient` | `connect`, which every call begins with: the SSH connection, and the SFTP client on it, whose failure closes it |
| `Create`, `SelectCopied` | `Upload`, up to the goroutine, and the branch of its select where the copy is over |
| `SelectDone`, `CloseCanceled` | the branch of the context: the remote file is closed, a request of its own, then the call returns |
| `CopyChunk`, `CopyEnd`, `Send` | the goroutine; it goes on after `Upload` returned |
| `Cancel`, `Delete`, `Open`, `ReadChunk`, `Close` | the caller's context; `Delete`; `Open`, `Stat`; the wrapper that closes the connection |
| `S3Storage`: `Begin`, `CopyChunk`, `Complete`, `Delete`, `Fetch` | the requests minio makes for `PutObject` (in parts: the size is -1), `RemoveObject`, and the first `Read` of `GetObject` |
| `Answer`, `Fail` | the call returns, with an error perhaps although it took effect; or has no effect |

`Storage` holds the three drivers as instances over one set of variables and
picks one as `NewStorage` does.  `raced` and `last` are history: which calls
another writer of the name overlapped, and who began last.  `AtomicStorage` is
the storage one could wish for; `S3Storage!Atomic` is the mapping.  The file
drivers do not implement it (a reader sees parts), so what can still be relied
on is stated instead (`TornHasCause`, `QuietReadsAreWhole`, `OkMeansWhole`).

Taken for granted: an SFTP write is applied before its call returns, closing a
file or a connection fails without a trace, the object store answers each request
as a whole.  In pkg/sftp the `Close` of a file takes the lock that
`File.ReadFrom` holds for the whole copy (`Locked`): a cancelled upload returns
when the copy lets it, so with a reader that blocks for ever perhaps never.  The context
of `Upload` is looked at by the SFTP driver only, and only in its select.

### Boot

`disk` holds what is at each place `ParseConfig` tries, `conf` what a process
has read, `phase` how far it is, `port` what it has bound.

| action | code |
|---|---|
| `Load` | `NewConfig`: the first place with a file decides; the parent panics over a configuration that does not validate, a child logs it |
| `BuildStore` | `NewStore`: redis or memory; the redis constructor may panic |
| `Register` | the start hook; `cors.New` may panic |
| `Listen` | the listener's goroutine: bound, or an error that is logged (`deaf`); for port 0 the system picks a free one (`Ports`) |
| `FinishStart` | the rest of the start hook beside it: the process has started, or it ends, because there is no DSN, because the migration meets a handle without a pool, or by fx's 15 seconds for a start |
| `Fork`, `Reap`, `Crash`, `Orphaned` | fiber's prefork: children started; one ended, the others killed; a child that dies; a child that finds its parent gone |
| `Edit` | an operator changes one file, once, after the parent has read its own |

`Errors` is `Validate`, clause by clause; `Expiration` and `Lifetime` are the
rule of `NewStore` and the default of fiber's session; `Origins`, `ListenAddress`
and `CheckedPart` are the three places where a text is taken apart.
A configuration is reduced to what these look at (`IsConfig`): whether a text was
given, an address as the texts between its colons, the secret as its length.

### Lifecycle

Several processes (replicas, prefork parents and their children) share a
database.  `hook` is where a process is in its start or stop hook, `listener` its
listening goroutine, `handle` is `Database.DB`, `next` and `logged` belong to its
migration, `tables` is the database; a request has the process that accepted it
and what became of it.  `ParentOf` says who preforked whom, and `recovers` which
servers have the recover middleware enabled.

| action | code |
|---|---|
| `Listen`, `Bind`, `Connect` | `OnStart`: the goroutine, what it does later, `ConnectDatabase` |
| `HasTable`, `CreateTable` | `MigrateModels`, table by table until the first error |
| `StartDeadline` | fx ends a process whose start hook, connecting or migrating, takes 15 seconds |
| `Accept`, `Serve` | a request, and a statement of its handler |
| `Signal`, `Shutdown`, `Drained`, `Deadline`, `CloseDatabase`, `Exit` | the signal, `OnStop`, the end of main |
| `Orphaned` | a prefork child notices that its parent is gone, and ends |

A handle is `nil` before `Connect`, then `open`, or what `gorm.Open` returned with
an error: `bad` (a closed pool: statements fail) or `poolless` (a malformed DSN:
statements panic, and there is nothing to close).  `NoPool` is a handle that
panics: in a handler that is a 500 or the end of the process, in a hook always
the end.  External: gorm's AutoMigrate, the shutdown of fasthttp (close the
listener if there is one, wait for the requests or the context), fiber's
prefork.  Left out: a configuration without DSN (it is in `Boot`), seeding
(`SeedModels` is called without seeders), and what a parent does to the other
children when one ends (`Boot!Reap`).

## 3. Runs

A run marked * is expected to find a violation: it states what a comment or an
answer of the code says and the code does not do.  Each is a finding.

| run | shows |
|---|---|
| `names` | three requests of one user over two names and one row; any statement may fail and any answer to a write be lost.  Names stay unique although both checks are racy and a failed check says "free": the index alone carries it.  The handlers implement the registry. |
| `owners` | two users with a row each, requests of either on both ids, which a deletion may take away.  The owner check of a write still holds when the write runs; every 201 has its row and every row its 201; deletions, publications and names go back to an accepted request of the owner. |
| `unpublish` * | `is_public: false` is accepted and not stored (zero value). |
| `unsent_name` * | an update without a name writes the stale name back over a rename. |
| `free_name` * | the name of a deleted workspace passes the check and is refused by the index. |
| `listing` | the walk misses at most one row per deletion and repeats at most one per creation; a page is the slice it names while the offset fits. |
| `login` | two browsers, two logins, two callbacks and a workspace request; two subjects who have no account yet; callbacks with any code and any state; failing calls.  A session is signed in only as granted, sessions and flows do not cross, one account per subject, a flow completes at most once, a workspace is written only for a user the browser was granted. |
| `prefork` | two processes with a memory store each, and sessions that expire: a session is signed in only as granted, and a callback that reaches the process of its login ends signed in, with a reload, a profile request and a logout beside it, unless its session expired or another login began (liveness). |
| `login_logout` * | a login that had read the session before a logout saves the user under its new id after the logout was answered. |
| `storage` | for each driver, three of four calls (two uploads of different length, a delete, a read) on one path, cancel and failure anywhere: "ok" means whole, a torn file and a torn read have a cause, the S3 driver is atomic, and for SFTP silence after return, no leak of connections (safety); finished goroutines end, whoever still listens to them, while a reader may block for ever (liveness). |
| `lifecycle` | a prefork parent and its child, with the recover middleware or without, and another parent that does not migrate: they start, migrate one database, serve and stop, with everything failing that can.  A request accepted before the shutdown finds its handle open and is answered unless the process is ended; the migrations complete each other although the slower one gives up, unless one is ended in the middle; a process told to stop ends though handlers block (liveness). |
| `boot` | a parent, alone or with two children, comes up from any of 32 configurations at two places tried in the order of the code, one of which is edited meanwhile.  Whoever listens has the validated configuration, except a child after an edit; the bound number is the validated one, or one that the system picked; no session outlives what was configured; the end of any process leaves nobody listening (liveness). |

### Bounds

* Requests: each race here is between the steps of two requests; `names` has
  three, so that one can delete or rename between the two others' check and
  write.  Two names make "same" and "other"; one description makes nil and not.
* Ids: `owners` starts with two rows and uses both ids; new rows get id 3, which
  no client can know before it exists.  `names` is about id 1.
* Listing: 4 rows and a walk of 2 per page give a walk of several pages, with up
  to two creations and any number of deletions.  `MaxInt` 31 puts the wrap
  within reach: pages 11, 12, 22, 23 and 31 lie on both sides of it for limits 1 to 3.
* Login: a flow needs one login and one callback, an overlap two of each.  The
  browsers may share the two logins in any way, so one of them may have two tabs,
  and a callback may bring the code of one with the state of the other.  Two
  subjects cover "same" and "other"; nobody has an account at first, so the first
  sign-in of a subject creates it and the second updates it.  Subjects that share an
  e-mail address, accounts and workspaces from before, and changes to them are in
  the theorems only, which hold for any `EmailOf`, `InitUsers` and `InitRows`.
  Sessions expire in `prefork` only, where fewer requests leave room for it.
* Storage: bodies of two and of one chunk distinguish nothing, part and whole, and
  the shorter may end up inside the longer.  `MaxCalls` lets any three of two
  uploads, a delete and a read be made, which covers every pair at a path with a
  third beside it, and a retry after a failure.
* Boot: one right configuration and 31 that differ from it in one or two respects,
  one clause of `Validate` or one rule of the start each; two places give the order
  of search.  `Edits` bounds what an operator puts there later: nothing, the right
  configuration, or one that preforks and does not validate, so an edit can add,
  remove, repair or break.  Two children let one survive the other, and two
  `Ephemeral` ports let the system choose.  A second is 10 ticks, a day 3 seconds and the
  threshold 5, so that the expirations 0, 1, 3, 5, 10 and 25 fall on both sides of
  each; the rule compares nothing else.
* Lifecycle: parent and child make the race of the migrations; with two tables
  the one that loses the first may find the second created, created half way by a
  process that ended, or missing.  The third process has a stop without a
  migration, where a poolless handle is closed.  One request is served by the
  child: what becomes of it depends on its process only; that another request's
  panic takes it along is in `Dies`, and in the theorems, for any number.
* Deadlock is not checked: requests are one-shot, so every run ends.

Symmetry is used over requests of one kind (in `login` over browsers and subjects
too) in runs that check only safety; the users and names of the workspace runs are
not symmetric because the initial tables mention them.

### Fairness

`OidcLogin!FairSpec` is weak fairness of each handler: the Go scheduler runs
every runnable goroutine and a call returns, with a result or an error.  No
fairness is assumed of users, browsers, replies or expiration; `Gateway` keeps
this and adds the handlers of workspace requests.
`Storage!FairSpec` is weak fairness of each SFTP call that was made and of the
report of a finished copy; making a call is not fair, and neither is the copy
itself, since a reader may block, nor a closing that waits for it, nor the caller
who reads a file.
`Boot!FairSpec` is weak fairness of each process up to its listener, of the
parent's listener, and of a child that looks for its parent: processes run.  The
rest of the start hook, crashes and edits are not fair.  `Lifecycle!FairSpec` is
weak fairness of the stop hook, whose context ends; handlers and start are not
fair.  `Workspace` and `WorkspaceListing` state
no fairness: their handlers are straight lines, and what could go wrong in them
is safety.

## 4. Proofs

### WorkspaceProofs

`WorkspaceProofs` proves, from the named assumptions of `Workspace` alone
(`RowsAssumption`: the initial table satisfies its index; `ConstantsAssumption`:
`Absent` is none of the values, the two flags are Boolean, ids are numbers), for
any number of requests, users, names, descriptions and rows, with and without
`Faults` and `Lost`:

| theorem | states |
|---|---|
| `TypeCorrect` | `Spec => []TypeOK` |
| `NamesUnique` | `Spec => []LiveNamesUnique` |
| `OwnerCheckHolds` | `Spec => []CheckStillHolds` |
| `Refinement` | `Spec => ImplementsRegistry` |

The argument.  `LiveNamesUnique` is not inductive: it says nothing of deleted
rows, whose names an update could write back.  The inductive invariant is

    IInv == TypeOK /\ IndexHolds(rows) /\ CheckStillHolds

`IndexHolds` is the uniqueness over ALL rows that the database maintains: the
name checks of the service play no part in the proof.  `CheckStillHolds` says
that a handler between its statements holds a well-typed request, a well-formed
row whose owner is its caller, and an id that still exists with that owner: it
survives the steps of others because rows are never removed and no write changes
an owner (`OthersUndisturbed`, `StoredTypes`).  There is one lemma per action
(`CreateWriteInv`, `UpdateWriteInv`, ...), `NextInv` collects them, and
`Invariance` closes the induction.  For the refinement each write is shown to be
a `Register`, `Amend`, `Retire` or `NoEffect` of the registry (the last when an
UPDATE met a deleted row), each refusal a `Refuse`, each other step a stutter.

### WorkspaceLedgerProofs

From the same assumptions and the theorems of `WorkspaceProofs`:

| theorem | states |
|---|---|
| `EveryCreateAnswered` | `~Lost => (Spec => []CreatesAccounted)` |
| `EveryDeletionAnswered` | `~Lost => (Spec => []DeletionsAccounted)` |
| `OnlyOwnersPublish` | `~Lost => (Spec => []PublishedByOwner)` |
| `OnlyOwnersName` | `~Lost => (Spec => []NamesHaveAuthor)` |

`~Lost` is part of what these properties mean: a client whose write took effect
and was answered 500 cannot account for the change, and the run `owners`, which
checks them, sets it too.  Failing statements are allowed.  The hard part is the
update, which writes back a whole row read two statements earlier.  `LedgerInv`
therefore says of the copy of every update under way what the properties say of
the table (`CopyAccounted`): its name has an author and its being public a
publisher already.  Authors and publishers stay (`AuthorsStay`), because a
finished request keeps its call and its answer and a row its owner, so a copy
may be stale and still be accounted for.  For `CreatesAccounted` the set of
requests answered 201 is finite and grows by the one whose row is appended.

### WorkspaceListingProofs

From `CountsAssumption`, `LimitsAssumption`, `RawAssumption` (the bounds are
natural numbers, the limits lie between 1 and `MaxLimit`, what a client sends is
an integer) and `SizeAssumption` (an int can count the rows), for any number of
rows, page size and width of the int:

| theorem | states |
|---|---|
| `TypeCorrect` | `Spec => []TypeOK` |
| `MissesBounded` | `Spec => []MissesBoundedByDeletions` |
| `RepeatsBounded` | `Spec => []RepeatsBoundedByCreations` |
| `PagesAreSlices` | `Spec => PageIsSlice` |

Both bounds speak of cardinalities at the end of a walk and are not inductive.
The argument follows the boundary b of the walk, the number of rows its pages
should have covered.  `Missed` are the rows of the start before b that the walk
was not given, `Ahead` the rows behind b that it was given.  A deletion moves at
most one row over the boundary forwards, so `Missed` grows by at most one while
the number of deletions does; a creation moves at most one backwards, so `Ahead`
does while the number of creations does; a page moves the boundary itself, and
what it adds to the rows received twice it takes from `Ahead` (`Bounded`,
`DeleteKeepsBound`, `CreateKeepsBound`, `PageKeepsBound`).  `WalkInv` states this
also for the page that was selected and not counted yet.  That the offsets of the
walk do not wrap is `OffsetIsExact`, which needs `SizeAssumption`.

### OidcLoginProofs and GatewayProofs

From `RoutesAssumption` (a request has one route), `AbsentAssumption`,
`FlagsAssumption`, `EmailAssumption` (every subject has an address),
`UsersAssumption` (the initial users satisfy the unique index of the address),
and for `Gateway` `AccountsAssumption` and `TableAssumption` (its initial table is
one), for any number of requests, browsers, processes and subjects:

| theorem | states |
|---|---|
| `TypeCorrect` | `Spec => []TypeOK` |
| `AccountsUnique` | `Spec => []OneAccountPerSub` |
| `SignedInAsGranted` | `Spec => []SessionsAreGranted` |
| `NothingCrosses` | `Spec => []SessionsDoNotCross` |
| `FlowsCompleteOnce` | `Spec => []FlowCompletesOnce` |
| `DecidedAsGranted` | `GatewaySpec => []WritesAreGranted` |
| `LoginUndisturbed` | `GatewaySpec =>` all of the invariants above |

The properties look at the stores and at replies; what reaches them was carried
there in private copies.  The inductive invariant `IInv` therefore states for each
request what holds of everything it carries: ids minted for its browser
(`OwnIds`), a code of a flow that somebody approved (`Issued`), which is of its own browser
once the exchange got through (`ClaimOK`): until then it may be anybody's, and it
is the verifier in the session that the exchange compares it with,
users granted to its browser (`OwnUser`), each at the labels where the handler
has them, and the same for stored sessions (`SessionOK`) and cookies.  A copy
may be as stale as it likes, since all that it is compared with only grows
(`Grow`): grants, spent codes, rows of the table, the browser and the process of
a request.  `Undisturbed` uses this once for all actions: a step of one request
leaves what is said of the others.  `ClaimsOnce` (of the callbacks past the
exchange no two have one flow) rests on the code being spent at the provider.
`OneAccountPerSub` follows from the unique index of the address, since a subject
has one address; the SELECT before the INSERT plays no part.

`GatewayInv` adds to `IInv` that a request was sent before it is decided; `Serve`
changes nothing that `IInv` speaks of but the label and the reply of one request,
and a row changes only in the name of the user that `RequireAuth` left, who was
granted.

### LifecycleProofs

From `ProcsAssumption` and `TablesAssumption`, for any number of processes,
parents or not, requests and tables:

| theorem | states |
|---|---|
| `TypeCorrect` | `Spec => []TypeOK` |
| `StopIsGraceful` | `Spec => []StopLosesNothing` |
| `MigrationsJoin` | `Spec => []MigrationCompletes` |

`StopInv` ties the handle, the listener and the requests of a process to its
hook: a request that was not late is answered when the drain ends, so there is
none left that the close of the handle could meet; and no process that ended runs
any, which `EndStop` shows once for all ways to end (`DiesStop`).  `MigrationCompletes` is about
the end of all migrations; `MigrationInv` says how they get there: the tables
before the one a process is at exist, whoever was beaten to a table was beaten by
a process that is further (`Beaten(p) => Passed(p)`), and somebody is furthest
(`Leader`).  The leader was beaten by nobody, so if it met no other error and was
not ended in the middle (`Interrupted`) it is past the last table
(`LeaderCompletes`).  Without the condition the property is false: a process that
is ended by the start deadline after it won a table leaves the rest to nobody, if
the others have given up at that table.

### BootProofs

From `BootAssumption` (every configuration is an `IsConfig`, the parent is no
child, what is not a configuration is told apart from one, what a text without a
number is read as is no port, and a day of seconds, a million and the ticks of a
second grow in this order), for any set of configurations, places and children:

| theorem | states |
|---|---|
| `TypeCorrect` | `FairSpec => []TypeOK` |
| `ListenersAreValidated` | `FairSpec => []ListenersValidated` |
| `BoundPortChecked` | `FairSpec => []BoundPortIsChecked` |
| `SessionsEndInTime` | `FairSpec => []LifetimeNeverLonger` |

The inductive invariant is `BootInv`, five named parts.  `ListenersValidated`
compares two processes and says nothing of those still on their way, so it needs
`ParentValidated` (whatever the parent goes on with has validated), `SameSource`
(without an edit all processes have read what the search finds now) and
`ChildrenOfFork` (a child acts only once its parent has loaded and forked: it
cannot have read an earlier file).  `BoundIsBindable` ties a bound port to the
number in the address it came from, or to the picked ones where that is 0; that it
is also the number that was checked is a lemma about the two ways to take an
address apart (`OneNumber`).  `LifetimeBounded` is arithmetic about the two
rules for durations, one lemma for every number of seconds.

### StorageProofs

From `CallsAssumption` (each call has a name, each upload a size, the kinds of
calls are disjoint, `Absent` is neither an upload nor a text nor a result) and
`DriversAssumption` (a configuration names one of the three drivers: `NewStorage`
refuses any other), for any calls, names, bodies and drivers:

| theorem | states |
|---|---|
| `TypeCorrect` | `FairSpec => []TypeOK` |
| `SuccessIsWhole` | `FairSpec => OkMeansWhole` |
| `TornIsExplained` | `FairSpec => []TornHasCause` |
| `QuietReadsGetBodies` | `FairSpec => []QuietReadsAreWhole` |
| `NoConnectionIsLeft` | `FairSpec => []NoConnectionLeaks` |
| `ReturnedIsSilent` | `FairSpec => SilentAfterReturn` |
| `S3ImplementsAtomic` | `FairSpec => S3IsAtomic` |

`NoConnectionLeaks` speaks of calls that returned; the invariant `CallInv` adds
that a call which has not begun has no connection either, and that only the SFTP
driver has any.  It is shown driver by driver, action by action.  Silence
follows: a copying goroutine needs its call's connection to write.  For
`S3IsAtomic` the labels of a call are mapped to what its caller could know
(`Phase`): the lemmas `Effective`, `Answered`, `Failed` and `Unchanged` say what
one change of a label looks like there, and `S3Step` maps each action to `Put`,
`Remove`, `Fetch`, `Answer`, `Fail` or a stutter.  `PlaceInv` is needed because
an action is guarded by the label of a call, not by its kind.

What a file holds is argued once for both drivers with a file system: each of
their steps is one of eight kinds, as the files show it, or invisible
(`FileStep`, with `LocalFileStep` and `FtpFileStep`, the second of which needs
`CopierInv`: a goroutine reports success only at the end of its reader).  The
invariant `FileInv` follows the upload that began last under a name.  While it
writes and nobody disturbs it, its file is the one under the name, holds what it
has copied so far, and nobody else writes there (`WriterInv`); once it has
succeeded, the file stays as it left it until the next one begins (`LastInv`);
and a read that no writer met has a prefix of a file that is whole or has an
excuse (`ReaderInv`).  `HandlesInv` keeps files of different names apart.  There
is one lemma for each kind of step (`StartsKeeps`, ..., `OpensKeeps`).  That a
disturbed call is noted as such is `Meets` and `MeetsRemoval`: who writes, begins
to write or removes the name while another call is under way makes that call
`raced`.  An upload that failed to begin and emptied the file nevertheless counts
as the last one (`FumblesKeeps`).  Behind the S3 driver `ObjectInv` says that an
object is always a body, and until its upload is answered that upload's, unless
it was disturbed.

The theorems compare the file under a name with histories, `raced` and `last`,
that `Next` writes and the code does not have; they constrain no step.

### Only model-checked

Every invariant and every action property of a passing run is a theorem.  Out of
the prover's reach and left to TLC are the liveness properties:
`LoginCompletes`, `CopierEnds`, `StopEnds` and `DeathStopsService`.  The four properties that the code breaks (the runs
marked *) are counterexamples and have nothing to prove.  No module uses a
RECURSIVE operator; a statement by induction over data, such as a closed form of
a whole walk through the pages, would stay with TLC as well.

## 5. What the code does that it does not say

1. `is_public: false` is never stored (`workspace_repository.go:70`).
2. An update without a name undoes a concurrent rename (`workspace_service.go:147`).
3. A deleted workspace keeps its name (`schema/workspace.go:12`).
4. A login beside a logout brings the user back (`auth_controller.go:62`).

Noticed and not a run of its own: an update of a workspace deleted meanwhile is
answered 200 although nothing is stored (`workspace_repository.go:70`; for the
registry it is as good as an update before the deletion: `NoEffect`); of two first logins
of one subject, one is refused although the account exists afterwards
(`auth_service.go:196`; the other side of it, one account per subject, is
checked); a page whose offset wraps shows first rows (`workspace_service.go:89`; `PageIsSlice` excludes it
explicitly); a process counts as started although its listener or its database
connection failed (`webserver.go:108`, `database.go:52`).

About start-up: `cors.New` is built, and panics over a wildcard or a bare host,
also when CORS is disabled, while `Validate` only warns of the wildcard
(`config.go:242`, `register.go:41`); an expiration of 1000000 configured seconds
or more is taken for nanoseconds, and below a second fiber takes a day
(`session.go:52`; `LifetimeNeverLonger` shows the direction of the error); port 0
validates, and the listener gets a port that nobody is told (`config.go:180`); the
startup ends with a panic without a DSN or, if it migrates, with a malformed one
(`database.go:45,52,78`), and after 15 seconds of connecting and migrating, which
may leave a migration half done (`main.go:56`); after an edit of the file a child
may run with a configuration that its parent would have refused (`config.go:307`);
the address `:8080` is split into host `:8080` and no port, for the log only
(`config.go:318`).  About storage: the local and the S3 driver ignore the context
they are given (`local.go:25`, `s3.go:37`), and the SFTP driver, which takes
it "untuk timeout/cancel" (for these two, `ftp.go:64`), first closes the remote file
when it is done (`ftp.go:106`), for which pkg/sftp waits until the copy has ended:
a cancelled upload whose reader blocks does not return.  About sign-in: with prefork and without redis a callback
that reaches another process than its login is refused (`session.go:44`); a
callback without a state passes the comparison in a session without one
(`auth_service.go:144`), and only the provider refuses its code, for want of a
verifier.  About password accounts: `Register`
takes the error "record not found" of `FindUserByEmail` for a failure, so it
refuses every new address (`auth_service.go:82`); if it did not, the empty
`logto_sub` of such a row would satisfy its unique index once only
(`schema/user.go:14`).  No route reaches it.

## 6. Not modelled, and the plan

* Responses, validation texts, helpers, logging: functions of their arguments or
  output.  The status codes of replies are in `Workspace` and `OidcLogin`.
* `utils/paginator`: arithmetic that nothing calls; the listing does its own,
  which is in `WorkspaceListing`.
* The document schemas: tables that are migrated (`Lifecycle!Models`) and that
  nothing reads or writes.
* Password `Login` and `Register`, `Protected`, `GenerateTokenAccess`,
  `CheckUserByEmail`: no route and no caller.
* Equal random strings of two logins in one nanosecond (`helpers/pkce.go:12`),
  and rows of equal `created_at` (`workspace_repository.go:48`): states and time
  stamps are taken as distinct.
* The middleware that keeps no state of the program's own (limiter, compression,
  pprof, monitor); seeding (there is no seeder).

The plan that is left: that the composition of `OidcLogin` with the registry
implements the registry alone, and that the handlers of `Workspace` may stand for
it there, as theorems (now two results side by side, `Refinement` and
`DecidedAsGranted`); an abstract specification of a login (a browser is granted
an account at one moment, or never) that `OidcLogin` implements; and for the file
drivers an abstract specification of what concurrent uploads may leave.
