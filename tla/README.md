# Refentra: TLA+ models, model checking and proofs

Refentra keeps "references" (a url, a title, tags) for signed-in users.  It is a
Go server (Echo, GORM on PostgreSQL, sessions in Redis) and a React client.
This directory holds TLA+ modules translated from that code, TLC configurations
that check them on small instances, and TLAPS proofs for every value of the
constants.  `PROJECT.json` maps each definition to the lines it models, each
run to its properties, each hazard to what covers it.

    tlc -workers 2 -config ref_store.cfg MCReferenceStore     # a run
    tlapm ReferenceStoreProofs.tla                            # the proofs

## 1. Inventory

| Component | State | Operations | Talks to |
|---|---|---|---|
| Reference write path, `internal/handlers/references.go` | table `references`: live or soft-deleted rows with `deleted_by`, `restore_until` | `POST /references`, `DELETE /references/:id`, `POST /references/:id/restore` | PostgreSQL through GORM, one statement at a time; only the delete opens a transaction |
| Reference listing, same file | none | `GET /references`: count, page and tags in three queries | PostgreSQL |
| Session service and store, `internal/auth/service.go`, `session_store.go` | Redis: one key per refresh token, with TTL; signed access tokens | sign-up, sign-in, refresh (rotation), logout, authenticate | Redis, user store |
| Authentication handlers, `internal/handlers/auth.go` | the two cookies they set or clear | `/auth/signup`, `/login`, `/refresh`, `/logout`, `/me` | session service, browser |
| Middleware, `internal/auth/middleware.go` | none | rejects a missing or expired access cookie | session service |
| User store, `internal/auth/user_store.go` | table `users`, unique email | create, find | PostgreSQL |
| Browser session client, `frontend/src/lib/auth.ts` | `refreshPromise` of the page | single-flight refresh, fetch with retry, session-expired event | handlers, application shell |
| Application shell and login, `App.tsx`, `Login.tsx`, `loginRedirect.ts` | boot and authentication status, history of the tab, redirect in `sessionStorage` | boot, sign-in, sign-out, protected routes | health check, browser session client |
| Dashboard, `Dashboard.tsx`, `dashboardQuery.ts`, `AddReferenceModal.tsx` | query in the url, list on the screen, deletion asked for, undo, form | load, search (debounced), page, tags, mode, create, delete, undo | references API, demo library |
| Portfolio demo, `portfolioReferences.ts` | list in `sessionStorage` | the same queries and saves on local data | dashboard |
| Startup and health, `main.go`, `health.go` | which dependencies came up, how far the tables are migrated | start, migrate, `/health` | PostgreSQL, Redis |
| Server configuration, landing page, shared UI, deployment | | | |

**What is hard.** Every handler is a sequence of store commands with other
requests between them: a soft delete is two UPDATEs in one transaction after a
SELECT outside it; a restore decides on a SELECT and writes by primary key; a
refresh loads, deletes and saves a session in three Redis commands.  Any
command can fail, a failed command may have been executed, a process can die in
between.  Answers reach the browser in any order or never, and all tabs share
one cookie jar.  Three clocks with the same TTL (Redis key, `ExpiresAt`, cookie
`MaxAge`) end at different moments.  In the client, state read before an
`await` is used after it: a dashboard handler goes on in the render it was
started in, whatever the url has become, and two navigations race for one
place.  A list is read in three SELECTs while rows come and go, and a server
may start while its database is down, or be stopped in the middle of a migration.

**What makes the components correct.**  Deletion metadata describes exactly the
deleted rows; only owners write; a repeated delete never extends the restore
window; nothing but a restore inside the window brings a row back.  A spent
refresh token never works again; a session never changes hands; an answer
"expired" is true; one token is rotated once (true only if refreshes do not
overlap), and then a sign-in has one usable session at a time, under one user,
until it is over for good; a logout that succeeds ends its whole sign-in, but for the
refreshes that overlap it or each other; a page never lets its refreshes overlap, leaves no call waiting, and
never repeats a request that was carried out.  The list a user sees belongs to
the query in the url, but for a few races that can be named; no button or
message is left busy; an undisturbed list answer is a snapshot, a torn one
has a cause, and each part of any answer was true at some moment of the request; whoever walks through the pages misses nothing that stayed.  A
guest returns after signing in to the query wanted; no two routes send the tab
to and fro; a server that says it is ready can sign users in, and has migrated
its tables unless it could not look at them when it started.

The full list of hazards, with lines, is `hazards` in `PROJECT.json`.

## 2. Modules

| Module | What it is |
|---|---|
| `ReferenceArchive` | abstract specification: a reference is absent, active or trashed, moved by save, trash, recover and the end of its restore window |
| `ReferenceStore` | the handlers of `references.go` that write, one action per SQL statement |
| `MCReferenceStore` | instances for TLC |
| `ReferenceDuplicates` | `ReferenceStore` watched by history variables: how two active rows come to share a key |
| `MCReferenceDuplicates` | an instance for TLC |
| `ReferenceStoreProofs` | invariants, theorems, refinement of `ReferenceArchive`; extends `ReferenceDuplicates` |
| `AuthSessions` | session service, handlers and the browser's cookie jar, one action per store command |
| `MCAuthSessions` | instances of `Logouts` for TLC |
| `SessionLedger` | abstract specification: what the session service promises whoever signs in |
| `SignIns` | `AuthSessions` watched by a history variable: the sign-in each token descends from; refinement of `SessionLedger` |
| `Logouts` | `SignIns` watched by a history variable: the logouts that a refresh was ahead of; what a logout ends |
| `AuthSessionsProofs` | invariants, theorems, refinement; extends `Logouts` |
| `AuthPage` | one page of the client on top of `AuthSessions`: `auth.ts`, the parts of `App.tsx`, `Login.tsx` and the dashboard that start its calls, the access check of the middleware |
| `PageSignIns` | `AuthPage` with the history variable of `SignIns` |
| `MCAuthPage`, `MCPageSignIns` | instances for TLC |
| `AuthPageProofs` | the page takes only steps of `AuthSessions`; invariants and theorems |
| `ReferenceList` | matching, counting pages, the rows of a page: what `GET /references` and the demo layer both compute |
| `ReferenceListProofs` | lemmas on ranks and pages |
| `ReferenceListing` | `GetReferences` on top of `ReferenceList`, one action per query, and a reader that walks through the pages |
| `ListAnswers` | abstract specification: what an answer to `GET /references` promises its reader |
| `ListReads` | `ReferenceListing` watched by a history variable: the tables there have been since the request; refinement of `ListAnswers` |
| `MCReferenceListing` | an instance for TLC |
| `ReferenceListingProofs` | invariants, theorems, refinement; extends `ListReads` |
| `Dashboard` | the dashboard of one tab on top of `ReferenceList`, with the server's library and the demo's |
| `MCDashboard` | an instance for TLC |
| `DashboardProofs` | invariant and theorems |
| `Startup` | `main.go` and `/health`, one action per statement of the start |
| `MCStartup` | an instance for TLC |
| `StartupProofs` | invariants and theorems |
| `Shell` | one tab on top of `Startup`: boot, routes, sign-in, the redirect kept in `sessionStorage` |
| `MCShell` | an instance for TLC |
| `ShellProofs` | extends `StartupProofs`; invariant and theorems |

Definitions whose comment begins with "Faulty variant" are plausible bugs beside
the definition they would replace.  They are used by no specification; they
exist to show that each property notices such a bug.

### ReferenceStore

`rows[i]` is the row of reference `i` (uploader, the url-and-title key, whether
`deleted_at` is set, `deleted_by`, `restore_until`); `lock[i]` the request
whose open transaction holds the row lock; `req[r]` what the handler of request
`r` has read and what it does next; `now` the clock.

* Create: `CreateCheck` (`FindDuplicateReference`), `CreateInsert`.
* Delete: `DeleteFind` (SELECT, owner check; an already deleted row is answered
  204 at once), `DeleteStamp` (reads the clock), `DeleteMark` (first
  statement: metadata, takes the row lock), `DeleteRemove` (second statement and
  commit).
* Restore: `RestoreFind`, `RestoreCheck` (window), `RestoreWrite` (Unscoped
  UPDATE by primary key).
* `Refuse` is an answer before any statement, `Fail` an error of the statement
  that comes next, with the rollback of an open transaction.

Assumed of code outside `src/`: GORM adds `deleted_at IS NULL` to an UPDATE or
DELETE on a model with a `DeletedAt` field unless it is `Unscoped`; no
row affected is not an error; PostgreSQL runs at READ COMMITTED, so that an
UPDATE waits for the row lock, then tests its WHERE clause again on the
committed row.  A delete that matched no row in its first statement takes no
lock and still runs the second: this is where `ref_late_delete` comes from.

`ReferenceDuplicates` adds `since[r]`, what became active since request `r` looked for a
duplicate, and `coincided`, the pairs of active rows of which one was
restored beside the other, or saved by a request for which the other is in
`since`.  `DuplicatesHaveACause` says that there are no duplicates but those, so a
client that lets its saves wait for each other and never restores what it has saved again has none.

### AuthSessions

`redis[t]` says whether token `t` is unused, live, overdue (`ExpiresAt` has passed, the
key still there) or gone; `issued[t]` is the saved session, with a
history field `from`, the token it was rotated from; `jar` is the browser's
pair of cookies; `req[r]` a request from its being sent to its answer's being
delivered.  `loggedOut` is history.

* `SendLogin`, `SendSignup`, `SendRefresh`, `SendLogout` capture the cookie and
  make the first decision; `SendSignup` also inserts the account, which the
  code commits before it issues a session.
* Any of the four may be turned away before anything is read, by the rate limiter (429) or
  for want of a session service (503): the answer "rejected", which leaves the cookies.
* `Load`, `DropOverdue`, `DeleteOld`, `Save` are the commands of `Refresh` and
  `issueSession`; `Revoke` is `Logout`.
* `FailEarly`, `FailLoad`, `FailDelete`, `FailSave`: a store's error, after which
  the command may have been executed.
* `Deliver` applies an answer to the jar (set, clear or leave), `Lose` is a lost
  connection or a dying process.
* `SessionLapses`, `AccessLapses`, `RefreshCookieLapses`: the three clocks.

A cookie lapses no earlier than its session, because both have the same TTL and
the cookie's starts later, when the answer is delivered.

`SessionLedger` says what this is for, in terms of sign-ins.  A sign-in is named
after its first token; of the tokens it is given it can use one at a time
(`usable`), gets the next one only by a renewal that began while it could use one
(`renewing`), and they all stand for the user who signed in (`owner`).
`SignIns` adds the history variable `signIn[t]`, the sign-in of token `t`, and
maps: `given` to the tokens that are not unused, `usable` to the live ones with
the user saved for them, `renewing` to the sign-ins of refreshes past
`Load`.  `Save` is `Open` or `Renew`, `Load` of a live session `BeginRenewal`;
`DeleteOld`, `Revoke`, `DropOverdue` and `SessionLapses` are `Retire` or
nothing, an answer of a failed refresh is `GiveUp`.

`Logouts` asks what a logout ends.  The code deletes the one session whose token
the request carries.  `overtaken` notes the tokens that some refresh had loaded, or
rotated, by the time a logout revoked them (`Outrun`).  `LogoutEndsSignIn`: if
the browser saw a logout of token `t` succeed, no session of the sign-in of `t` is usable,
however many rotations led to `t`, unless `t` was overtaken or two
overlapping refreshes had rotated one token of that sign-in
(`RotatedTwice`).  Both exceptions are needed, TLC finds a behaviour for each: in the first
the refresh saves its session after the logout, or its answer was lost
and the logout carries the spent token; in the second the logout ends one of the two lines and
the other lives on.  `LoadCached`, a service that reads a session from a
copy that deletions do not reach, breaks it: the token of a finished logout is
refreshed.

### AuthPage

Extends `AuthSessions` with a page: `refreshPromise` (nothing, the request it
stands for, or `Broken`: rejected), the two requests a form or the dashboard waits
for, `authStatus` of the shell, and `call[c]`, one `fetchWithAuth` or
`fetchCurrentUser`.  The requests of `AuthSessions` are sent by the page only.

* `Boot`, `CallApi` send a call with the access cookie of the moment; `CarryOut` is
  the middleware letting it through and the handler's work; `Answered`,
  `Unauthorized`, `UnauthorizedAgain`, `Rejected` settle its promise.
* `RefreshSession` joins the page's refresh, starts it, or is rejected with it.
  `RefreshAnswered` applies the answer to the jar and moves every waiting call
  on in the same step, because the browser runs all continuations of a
  settled promise before anything else.
* `SignIn`, `SignOut` and what becomes of them; `Reload`.
* A promise may reject at any moment (`RefreshRejected`, ...).  The handler then
  runs on at the server, and `Unheard` ends it some time later.

A 401 may answer any request that has been sent and not let through: its cookie was missing, or the
token in it expired on the way, even if the cookies have been renewed
by the time the answer is read.  `Reload`
happens when the server is done with the old page's requests; a reload before
that, or a second tab, lets two refreshes overlap at the server (section 5).  React's
StrictMode, which boots twice in development, and forms that are
unmounted while they wait are not modelled.

### ReferenceListing

`active` and `at` are the table: the rows that are not deleted and their
`created_at`, which may coincide.  `stage`, `query` and `answer` are the one
request of a reader: what comes next (or the status it was answered), the
parameters as the handler holds them, and the answer so far.

* `Request`, `NextPage`: parsing (`parsePositiveInt`, `Capped`,
  `normalizeReferenceTags`), 400 and 503 before any query; then `Count`,
  `ReadPage`, `ReadTags`, each of which may `Fail`.
* `Offset` is computed in Go's `int`, from the page asked for and before
  `InRange` corrects it; `Word` is the number of values of an `int`.
* `ORDER BY created_at DESC` leaves rows of one moment to the database
  (`NewestFirst` is the set of the orders allowed), anew for every answer.
* `Enter` and `Leave` are commits of other requests.  A restored row keeps its
  `created_at`, so it enters anywhere.
* `sinceCount`, `sincePage` and `walk` are history: what was written between the
  queries of one answer, and what the reader has seen since page 1.

`ListAnswers` is the promise without statements and integers of a machine: rows
enter and leave (`Write`) while an answer is on its way, `views` are the tables there
have been since it was asked for, and `Answer` takes the count from one of
them, the rows of the page from it or a later one, the tags in use from that or
a later one.  `ListReads` records `views`; `Count` and `ReadPage` are
steps that nobody sees, `ReadTags` is `Answer`, a failure or a refusal is `GiveUp`.  The
promise has one exception, and TLC shows that it is needed: if nothing was counted, the page asked
for is not corrected and its offset may overflow, so rows that enter before the
page is read may show on page 7 of none.

### Dashboard

`url` is the query in the address bar, `previous` the one a step back;
`shown` the list with `totalCount`, `availableTags`, `lastValidPage` and, as
history, the query it was loaded for.  `task[t]` is an asynchronous handler with
what its render has captured (`query`, `valid`, the reference); `library` and
`trash` are what the server and the demo layer hold.

* `Type`, `Debounce`, `GoToPage`, `ToggleTag`, `ClearFilters`, `SwitchMode`, `Back`,
  `Retry` and the buttons and the form; `Arrive` is `navigate` with the effects
  of the render that follows, `Load` is `loadReferences`.
* `ServeWrite` and the three queries of a list, `ServeCount`, `ServePage` and `ServeTags`,
  happen at the server at any time, with writes between them; `WriteAnswered`, `ListAnswered` are
  the handler going on; `WriteFailed`, `ListFailed` its `catch`; `Finally` the
  `finally` blocks.
* `Elsewhere` is another session of the same user.
* The demo layer answers within the step.
* `since`, a part of each answer, is history: whether a row that matches has left or entered after the
  count of the answer and before its page.  `EmptinessHasACause` says that
  nothing else makes rows and count of the list on the screen contradict each other: not
  a page beyond the end, not a correction, not the deletion of the last row of a page.
  The handler's treatment of its parameters, with its overflows, is in `ReferenceListing`.
* `lost` is history.  It becomes true when a handler goes on in a render whose
  query has left the url while nothing loads the query there is (`TooLate`), or when a
  correction is dropped because the page to fall back to is the invalid page
  (`Dropped`).

### Startup

`postgres` and `redis` say which dependency answers; `schema` what is on the
volume; `pc`, `db`, `redisClient`, `authService` are `main`.  Each statement of the
start that needs a dependency is an action (`OpenDatabase`, `Ping`, `HasTable`,
`DropConstraint`, `DropIndex`, `MigrateUsers`, `MigrateReferences`, `PingRedis`,
`Serve`); dependencies come and go between them (`Postgres`, `Redis`), and `Crash`
stops the process anywhere.  `Ready` is `/health`.  `missed` is history: this start
went on though `gorm.Open` or `HasTable` could not reach the database.

Assumed of code outside `src/`: `gorm.Open` returns its DB besides its error, with
the pool it could not ping, or without a pool when the DSN is malformed;
`AutoMigrate` fails on a unique constraint of a name it does not expect, as
the repository's devlog reports.  `references` is a reserved word of PostgreSQL and
`docker/postgres/init/01-init.sql` creates the table of that name unquoted, so
volumes that hold users only are among the initial ones.

### Shell

`entries` and `at` are the history of the tab since the document was loaded,
`initial` the address it was loaded at, `storage` the redirect in
`sessionStorage`; `boot` and `auth` are `bootStatus` and `authStatus`; `form` is a
sign-in under way with the `redirectTo` of the render it was submitted in.
`wanted` is history: the query a guest was last turned away from.

* `Visit`, `Reload` load a document, which stores its own address if it is a
  dashboard's; `HealthAnswered`, `MeAnswered` are the boot.
* `Redirect` is a `<Navigate>` of the routes: it runs in an effect, so that other
  things may come before it.
* `Submit`, `SignInAnswered`, `SignInFails`; `Popped` is `navigate(-1)` taking
  effect.  `SignOut` and its answers; `SessionExpired` is `handleSessionExpired`.
* `Follow`, `Browse`, `Travel` are links, the dashboard's navigation and the
  browser's buttons.

Cookies are reduced to `session`, whether they are good: `AuthPage` has the rest.

## 3. Runs

| Run | Instance | Question |
|---|---|---|
| `ref_store` | 2 users, 1 reference, 3 requests, clock to 3, window 1 | metadata, lock, ownership and deletion record under every interleaving and failure; refinement of `ReferenceArchive` |
| `ref_progress` | 1 user, 2 references, 2 requests | every request is answered; two active rows of one key have a cause |
| `ref_late_delete` | violation | a delete overlapping a delete and a restore makes a row that cannot be restored |
| `ref_duplicate_save` | violation | two saves of one key, both inserted |
| `auth_sessions` | 2 users, 3 tokens, 2 requests | spent tokens, identity, truth of SESSION_EXPIRED, what a logout ends |
| `auth_page` | 1 user, 2 tokens, 2 requests, 2 calls | shared refresh: nobody left waiting, nothing carried out twice, no overlap at the server; refinement of `SessionLedger` |
| `auth_page_progress` | 1 user, 2 tokens, 1 request, 2 calls | every call ends, the boot decides |
| `reference_list` | 4 rows, 2 tags, 2 clocks, limits to 3, 4-bit integers, 2 commits | answers that nobody wrote during, torn answers, walks through the pages; refinement of `ListAnswers` |
| `dashboard` | 2 handlers, 4 + 2 references, pages of 2, 1 word, 1 tag, 3 moves | nothing left busy, the list belongs to the url, what makes a list contradict its count, typed text, the end of loading |
| `dashboard_late_result` | violation | a late answer replaces the list of a newer query |
| `shell` | 3 dashboards, history of 2, 2 volumes, 4 changes | a ready server works, the cause of a stale schema, the way back to the query wanted, redirects fit, screens settle, good starts succeed |
| `startup_stale_schema` | violation | a server that started without its database is ready later and has not migrated |

**Bounds.**  Two requests are enough for a pair of handlers to interleave at
every statement; `ref_store` has three because the late delete needs a
delete to overlap another delete and a restore, which may overlap as well.
References interact only through the duplicate key: one is enough for the
properties of `ref_store`, and `ref_progress` and `ref_duplicate_save` have two.  The clock (`MaxTime`) passes the end
of a restore window that began at time 0 and at time 1.  Three tokens are a
session, its successor, and a competing successor or another sign-in.  Tokens
are the only bound on the length of a behaviour of `AuthSessions`; when all are
spent, handlers about to save can only fail.  `auth_page` needs two requests for
a refresh beside another refresh, a sign-in or a logout, and two calls for one to
join the refresh of the other; it has two tokens, a session and its
successor, or two sign-ins.  Rotating a token twice takes three: that a page never does is
proved (`PageRotatesOnce`), not run.  `auth_page_progress` has one request, which is
enough for a call to wait for a refresh and for a boot.  The proofs need none of these
bounds but the clock's, of which they only assume that it is a natural number.

`reference_list` has up to four pages of one row, and two of two or of three, so
a row can enter or leave before, on and behind the page between any two queries
of a walk, and two commits can do both.  One of its clocks has two rows of one
moment.  An `int` of 4 bits overflows for page 7 with a limit of 2 or 3, and not
for the pages there are.  `dashboard` has three saved references on two pages, with a
fourth to be saved, so that the last page may lose its only row and the list may
shrink below or grow beyond a page; a word that some match and a tag; the page is
opened without a page and with an unknown mode, with a page that is no number, or beyond the last page of the demo; two
handlers, because the races are between a handler and a later one.  Three moves
are what a user does to start a write, leave its query and come back, besides what is free (asking for a deletion,
closing the form, the search timer, failures and answers).  `shell` has a
query that is wanted, the demo link's and none; a history of two is a page and the one
`navigate(-1)` goes back to; four changes are a visit, a sign-out or an expiry,
another visit and a dependency that fails, in any order.

**Fairness.**  The safety runs use none.  `ref_progress` uses strong fairness of
`Advance(r)`, the next statement of an admitted request: the Go scheduler runs every
handler, and PostgreSQL grants row locks in the order they were asked for, so
that a waiting statement gets its turn although the lock is taken
and released again and again.  Arrivals, failures and the clock are not fair: the
property must hold if none ever happens.

`auth_page_progress` assumes that a booting application asks who is
signed in, and that the browser settles the promise of every fetch, with an answer
or an error (weak fairness of `Boot`, of `Settle(c)` for each call, of
`SettleRefresh`).  Nothing is assumed of the user, of the server's handlers, which may
stop half way, of the stores, and of the clock.

`dashboard` assumes that the promise of every fetch settles, with an answer or an
error (weak fairness of `Continue(t)` for each handler), and that the timer of the
search fires (`Debounce`).  Nothing is assumed of the user, of other sessions, or of how
soon the server carries a write out.  `shell` assumes that the process is started and runs
(`Main`), that the two requests of the boot, a sign-in and a sign-out are answered
or given up, that a `<Navigate>` runs its effect and that `navigate(-1)` takes
effect.  Nothing is assumed of the user and of the dependencies;
`GoodStartsSucceed` speaks of starts during which they stay up.

Deadlock is checked in every run but `dashboard`, `dashboard_late_result` and `shell`, where everything may come to
rest: the user has no moves left and nothing is under way, or the health
check has failed and the page waits for the user to load it again.

## 4. Proofs

The proof modules establish an inductive invariant `IInv` with
`Init => IInv`, one lemma per action, and conclude the theorems by PTL.

`ReferenceStoreProofs`.  What has to be strengthened is the state between two
statements: a request past `DeleteMark` holds the row lock exactly if it matched
the row, the locked row is active and carries that request's stamp, a
transaction that matched nothing holds nothing; a request past its SELECT knows
the row's uploader, which never changes.  With these, `MetadataCoherent`,
`LockedRowIsActive`, `WritersOwnTheirRow`, `DeletionRecordIsFixed` and the
refinement `ImplementsArchive` (every step maps to a step of the archive or a
stutter) hold for any number of users, references and requests.  Assumptions: the named
ASSUMEs of `ReferenceStore` only.  `DuplicatesNeedACause` adds to the invariant what a
request knows between its lookup and its insert: whatever would make its row a
duplicate became active since (`LookupKnown`).

`AuthSessionsProofs`.  The stores only grow: `StoresGrow` says that accounts
stay, a saved session keeps its user and predecessor, and a token only moves
forward from unused to gone.  What a handler learned stays true because it is
expressible in these terms (`HandlerOK`), whatever other handlers do in between
(`KnowledgeLasts`).  `SpentTokensDie`, `IdentityKept` and `ExpiredAnswersTrue`
follow.  `OneRefreshRotatesOnce` is an assume-guarantee statement:
`Spec /\ []OneRefreshAtATime => []OneRotationPerToken`.  Its invariant says that a
session which a handler is about to rotate has no successor, and that only
refreshes rotate.  Without the assumption it is false: two overlapping refreshes of one
token may both load it before either deletes it.

`LogoutsEnd` is about any overlap, without that assumption.  `DescentInv` says that tokens of one sign-in have
its user, that a session and its predecessor are of one sign-in, and that of the tokens of a
sign-in only one has no successor yet (`Newest`), unless a token of it was rotated
twice.  `LogoutInv` says what a logout leaves behind: a token that was revoked before any
refresh had it has no successor, and no refresh holds it.  It stays so because a
refresh gets hold of a token only by loading it while it is not gone
(`HandlerMoves`).  A revoked token that was not overtaken is then a
`Newest` one; so is a live session of the same sign-in, and it would be the same
token, which is gone.

`ServiceKeepsLedger` is the refinement of `SessionLedger`, under the assumption
that refreshes do not overlap
and with `OneRefreshRotatesOnce` behind it, which excludes `RotatedTwice` from
`DescentInv`.  A live session is then the only `Newest` one of its sign-in
(`LiveIsAlone`), and so is the predecessor of a session about to be saved, which
is why saving it makes no second one.  Each step of a handler is then a step of the ledger or
none (`LedgerSend` to `LedgerClock`).  `OneSessionPerSignIn` and `SignInsEnd`
are what the ledger promises, carried over: rotation never multiplies a sign-in,
and one that has ended stays so though answers come late.

`AuthPageProofs`.  `PageIsABrowser` shows that every step of the page is a step of
`AuthSessions` or leaves it alone; all theorems above therefore hold for the
page.  `PageKeepsLedger` needs no assumption: the page discharges that of
`ServiceKeepsLedger` by `PageRefreshesOnce`.  `PromiseInv` says what the page knows of the server: as long as
`refreshPromise` is not `Broken`, any refresh at the server is the one it stands for;
when it is, one unheard refresh may be left and no other is sent.
From it follow `PageRefreshesOnce`, the assumption of `OneRefreshRotatesOnce`, and so
`PageRotatesOnce`.  It is worth noting that the promise that stays rejected until the page is
reloaded (section 5) is what keeps the last theorem true after a rejection: a
page that only reset the promise would send a refresh beside the one that still
runs (the variant `RefreshRejectedAndReset`).  `CallInv` ties the calls that
wait to the refresh under way and counts what was carried out; it gives
`NobodyLeftBehind` and `NothingRepeated`.

`StartupProofs`.  `ServerTypeCorrect`, from an invariant that also says what
`main` knows at each statement: there are users if there are references
(`UsersFirst`), a statement past the users' migration finds the table, and a
server that serves has a session service exactly if it has a database handle and
Redis (`ServiceFollows`).  It is what `ShellProofs` builds on.  `StartsMigrate`
gives the violation of `startup_stale_schema` its exact causes: whatever else fails or is cut
short, a ready server has migrated its tables.  `TablesKnown` says
what each statement of a start that could look at the tables relies on: no legacy constraint
when the index is dropped, no legacy name at all when the users are migrated,
current users when the references are.  It holds because every
other failure sets the handle to nil, and it needs that a legacy name belongs to a
table of users (`StartupAssumption`): a start that finds no table of users skips the
statements that take a legacy name away.

`ShellProofs`.  `ShellTypeCorrect`; `ReadyServersWork`, which needs
`UsersFirst` and `ServiceFollows`, because readiness is decided by pings of the
moment and usability by what the start did; `WantedStaysWanted` and
`GuestsReturn`, from `Kept`: a query that is wanted is what is stored, and it
is wanted only by a guest, whose form, if one is under way, was given it.  Without
the second half a sign-in submitted earlier could lead elsewhere.
`ReadyServersMigrated` is `StartsMigrate` in the world of the tab.  `RedirectsSettle` is
the safety half of `ScreensSettle`: a redirect leads to a screen that fits, because what
`redirectTo` returns is a dashboard wherever the document was loaded
(`Resolves`).  Assumptions: the
named ASSUMEs of `Startup` and `Shell` only.

`ReferenceListProofs`.  The rank of a row is how many come before it.  Rows with
moments of their own have the ranks from 0 to one less than their number, each
once (`RanksOnto`, `RanksDiffer`), so a page has no more rows than its limit
(`WindowIsSmall`) and a page that exists has at least one.  Rows that
share a moment are put in an order anew by every answer; what is said across answers
is about the other rows (`Distinct`).

`ReferenceListingProofs`.  Between two queries of one answer others write, so
what the handler has read is known only up to what they did: while no row left,
the count is not above what matches; while none entered, not below
(`CountKnown`, `PageKnown`); while nobody wrote, the page is exact (`PageExact`).
`QuietAnswers` and `TornAnswers` follow.  For a walk, `Passed` is how many rows the
pages before the reader's hold.  What was seen and is still there has a rank below it, if
no row entered (`SeenIsPassed`); what stayed and has such a rank was seen, if no
row left and no answer was torn (`PassedIsSeen`): entering rows only raise ranks, leaving
rows only lower them.  `WalksMissNothing` and `WalksRepeatNothing` follow.
The offset is computed in Go's `int`; `WalkInReach` bounds it for a walk by the number of
rows, so the proof assumes that a table has fewer rows than an `int` counts
(`ListingAssumption`).

`HandlersAnswer` is the refinement of `ListAnswers`.  A view is never changed once it
is recorded, so what was read stays true of the view it was read from, and what
has to be invariant is that there are such views, in order (`CountSeen`, `PageSeen`).
That the rows read are those of the page answered (`SliceIsPage`) needs that the
offset is exact for every page there is, and that a page beyond the last one gets
the offset of the first.

`DashboardProofs`.  Any number of handlers, each with the query of its own
render.  A busy button needs a handler that will reset it.  For a delete and an
undo that is one of the same kind and reference in any of its states
(`DeletingGoesOn`, `RestoringGoesOn`); for the form, which is closed before
the list that follows a save is loaded, it must still wait for the save
(`SavingGoesOn`), or the end of that list would leave it submitting.  `LoadingGoesOn` holds
because whoever loads a list in place of another sets `isLoading` again, and any
end resets it.  `Follows` is `ListFollowsUrl` without its exception; each
handler that goes on either has the url's query, or another one is loading it,
or it sets `lost` (`LateOrNot`); a correction to the url itself can only come
from such a handler or is dropped.  `EmptinessExplained` has an
invariant of its own, `CInv`: between count and page a handler knows that what it counted is not more
than what is found, unless a row has left, and not less, unless one has entered
(`Counted`, kept by `ShiftsTell`).  With `PageHasRows` (a page that
exists has a row) the answer it reads then contradicts its count for these causes only
(`Coherent`), and so does the list on the screen.
Assumptions: the named ASSUMEs of `ReferenceList` and `Dashboard` only; nothing of
the number of moves, handlers or references but that the references are finite.

Checked by TLC only: `EveryRequestAnswered`, `EveryCallEnds`, `BootDecides`,
`SearchIsApplied`, `LoadingEnds`, `ScreensSettle`, `GoodStartsSucceed`
(liveness), and all violation runs.

## 5. Findings

Each violation run refutes one sentence of a document; `findings` in
`PROJECT.json` quotes them.  More observations, for which there is no run:

* two refreshes of one token that overlap, from two tabs or after an early reload,
  both rotate it: the first session saved stays in Redis with nobody to use it;
* the 401 of a refresh that lost such a race clears the cookies the winner set,
  if it arrives later;
* a refresh that overlaps a logout may save its session after the logout
  revoked the old one: the user is signed in again; and a logout with a token whose
  rotation never reached the browser leaves the new session in Redis (the exceptions
  of `LogoutEndsSignIn`);
* after the request of a refresh was rejected once (a lost connection), the page
  tries no other refresh until it is reloaded (`lib/auth.ts:118`);
* a guest who steps back to an entry of the dashboard is turned away by
  `<Navigate>` before `RequireAuth` is rendered (`App.tsx:260`): that query is
  not stored;
* a session that expires at the dashboard without a query does not replace a
  stored or initial query: the user returns to that older one;
* a start during which the database fails just for `HasTable` takes the table of
  users for absent and leaves the legacy name in place; if it was an index, the
  migration then succeeds beside it (`main.go:166`);
* of an empty list a page of any number can be asked for; a row that enters before
  the page is read may be shown on it, since the offset of a huge page overflows;
* a row deleted by another session between the count and the page of a list may leave
  a page without rows and a count that has it: the dashboard sees no page to correct
  (`Dashboard.tsx:99`) and shows the empty screen though rows match, where
  PRD v2.0:76 has an emptied page left for a valid one;
* the parts of one list answer may disagree, if a row enters or leaves
  between its queries; rows of one `created_at` may change places between pages;
* a dashboard handler that goes on after its query has left the url may replace
  the list by that of the old query or navigate back to it, and a page correction to the invalid page itself is
  dropped, with the old list left on the screen (`lost` in `Dashboard`);
* a restore does not look for duplicates, so delete, save again and restore
  leaves two active rows with one key;
* a restore admitted inside the window may commit after it;
* of two overlapping restores of one deletion both answer 200;
* a refresh that dies between DEL and SET leaves the user signed out;
* a sign-up whose session cannot be saved answers 500 and the account stays;
* a logout that fails at the server still shows the signed-out page, and the
  next boot finds the user signed in.

## 6. Not modelled, and why

* Parsing and validation of bodies, password hashing and token signing: a
  choice between accepted and refused.
* The in-memory stores: they serve tests.
* An ambiguous COMMIT of PostgreSQL (executed, reported as failed): `Fail`
  rolls back.  Rows made by hand or by old versions are outside `Init`.
* The settings read from the environment, but for a malformed DSN, the embedded
  files, a listen address in use, TTLs of zero.
* Messages (`pageNotice`, `actionFeedback`), the fields of the form before it is
  submitted, and the duplicate check of the demo save, which only shows a
  message.  Broken contents of `sessionStorage`.
* In `Dashboard` the history is one step deep and forward is back once more; an invalid page in the url is met when
  the dashboard is opened only.
* In `Shell` every page lives in one tab; `sessionStorage` is not shared by tabs.
* React's StrictMode.  Echo's CORS and the token bucket of its rate limiter, which are library
  code; that any request may get its 429 is modelled.
* The landing page but for its links, shared UI components, texts, deployment and CI:
  no state of their own.

## 7. Plan

Done: every component with state of its own.  Left, in this order:

1. `Shell` composed with `AuthPage`: the boot's two requests and the sign-out form are in
   both, with the cookies in the one and the routes in the other;
2. two tabs on one cookie jar: the assumption of `OneRefreshRotatesOnce` fails
   there, and what remains true is worth stating: two usable sessions of one
   sign-in have two refreshes that overlapped behind them;
3. a dashboard that stays open across a session's end;
4. the answers of `Dashboard` shown to be answers of `ListAnswers`.
