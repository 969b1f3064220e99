# A verification project for Sekre-HQ

Sekre-HQ is an administration system for student organizations: a Go API
(`src/sekre-backend`: gorilla/mux, GORM, PostgreSQL), a
SvelteKit web client (`src/sekre-frontend`) and a React Native client
(`src/sekre-mobile`). This directory holds TLA+ models of the parts where order,
concurrency and failure decide whether the system is correct, the TLC instances
that check them, and TLAPS proofs of their safety for every value of the constants.

Run anything here with `tlc -workers 2 -config X.cfg M` and `tlapm M.tla`.
`PROJECT.json` lists components, runs, mutants, the source lines behind every
definition, findings, hazards and theorems.

## 1. The system

### Components, state and operations

| component | state | operations | modelled in |
|---|---|---|---|
| auth sessions (`auth_usecase.go`, `refresh_session.go`) | table `refresh_sessions`: jti, user, expiry, `revoked_at` | Login, Refresh, Logout, ChangePassword (does not touch it), nightly purge | `RefreshSessions` |
| tokens (`pkg/token/jwt.go`) | none: claims are signed | Generate, Verify | inside `RefreshSessions`; the role in the claims in `MobileScreens` |
| audit service (`pkg/audit/service.go`) | a bounded channel, worker goroutines, a context, a wait group | Log, worker loop, drainBuffer, Shutdown | `AuditService` |
| process (`cmd/api/main.go`), timeout middleware | the shutdown sequence; a handler goroutine per request | signal, server.Shutdown, scheduler stop with its wait for running jobs, audit Shutdown, DB close; Timeout | `AuditService` |
| divisions and rosters (`division_usecase.go`) | `divisions`, `division_members`, limits | Create, Delete, AddMember, RemoveMember, UpdateMemberRole | `Divisions`, deletion in `DivisionWork` |
| member creation, import (`member_creation_usecase.go`) | `users`, `user_organizations`, `division_members` | CreateMember, BulkImport | `Divisions` |
| tasks, events, finance transactions | three tables of work per division | create, update, status, delete; counts for a division's deletion | `DivisionWork` |
| organizations, roles, accounts | `organizations`, `user_organizations.role`, `users` | register, profile, role change, removal | removal in `Divisions`, a change of role in `MobileScreens`, profile, name and registration as the clients see them in `MobileAccount` and `WebClient` |
| rate limiter | a map of limiters and a cleanup goroutine | allow, refill, cleanup | one bucket, that of the `/auth` routes, in `WebClient` |
| scheduler | cron entries, running jobs | purge of sessions and audit logs, ping | session purge in `RefreshSessions`, a running job at shutdown in `AuditService` |
| web server session, web client (`sekre-frontend`) | a cookie, `/auth/me` per request, pages with their loads and forms | sign-in, registration, logout, navigation, form actions, dialogs | `WebClient` |
| mobile HTTP client (`client.ts`, interceptors) | `isRefreshing`, `failedQueue`, token storage | request, 401, refresh, retry | `RefreshInterceptor` |
| mobile session, login lockout | stored tokens, persisted Redux session, persisted query cache, attempts and timer | check at start, sign-in, registration, sign-out, profile, kill and restart | `MobileAccount`; against a refresh in `RefreshInterceptor` |
| mobile queries, task screens | the TanStack query cache, the board's drag state, forms | optimistic status change and rollback, create, update, delete, fetch, invalidation, search | `TaskBoard` |
| mobile screens of events, divisions, finance, members | queries, mutations, forms, the role the app knows | list, detail, create, edit, delete, roster | `MobileScreens` |
| Money, other middleware, tools, seed, tests | none that another component reads | | not modelled |

### How they interact

* Handlers run in goroutines of their own and share nothing but the database and the
  audit channel. Most use cases open no transaction: they read in one statement and
  write in a later one. Only registration, CreateMember and the bulk import use one.
* After its change a handler hands an entry to the audit channel; workers insert it.
* The Timeout middleware answers 408 and leaves the handler running; main's shutdown
  waits for connections, not for such handlers.
* The cron goroutine deletes rows of the tables the handlers use; main's shutdown waits
  for a job that is running, without a deadline.
* Every request to the SvelteKit server first calls `/auth/me`, through the rate
  limiter and under the web server's own address, before its load or action runs.
* The mobile client's calls share one token pair; one of them refreshes it for all.
  Login, logout and the check at start write the same storage. Tokens are written
  through; the Redux session and the query cache reach the disk a moment later.
* The mobile screens share the query cache: a mutation's hook stores its answer,
  invalidates queries, or both, whatever fetches are on the wire. Without a
  connection (`networkMode: "online"`) mutations and fetches wait in the phone.

### What is hard, and what makes each part correct

| part | hard because | correct if |
|---|---|---|
| sessions | two refreshes of one token, logout between two statements of a refresh, crash between revoke and insert | a rotated token is dead before its successor lives; nothing comes back to life; a logout is final unless it overlapped a rotation; the purge takes only dead rows |
| audit | `select` picks any ready case; two workers drain; abandoned handlers log after the cancel | each queued entry has one holder; a drain leaves only late entries; a quiet shutdown loses none; the database outlives the jobs; the shutdown ends if they do |
| rosters | count in one statement, insert in the next | a limit is passed by no more than the races account for; the last HEAD stays |
| work | four statements of a deletion against creations and updates; work of another organization; a check of the assignee before the write | a deleted division holds no work of its organization that the deletion should have seen; an assignee was a member; deleted rows stay as they are |
| mobile refresh | calls queue while a refresh is on the wire; sign-out, restart, timeout meanwhile | one refresh at a time; nobody waits for ever; no token is used twice; storage, session and server agree |
| mobile account | four stores say who the user is; the process is killed between two writes; answers to an earlier user come late, those of updates into a cleared cache | session, tokens and cached rows are one user's; the check at start and the lockout end |
| task board | optimistic changes, rollbacks, fetches and answers cross in one cache, or wait for a connection | a status the client made up is never taken for fresh and leaves the board once the phone is online; own writes are shown; a full update does not undo an own confirmed move |
| mobile screens | a fetch from before a write answers after it; edit forms follow the cache; the role is in the tokens and in the session | own writes stay visible; an edit builds on them; nothing is offered that the tokens' role is refused, promotions aside |
| web client | double clicks, a dialog closed while its form is on its way, lost answers, redirects, loads that a button waits for, the limiter | a form is not written twice unnoticed; what is reported as saved is shown; loads and buttons come to rest; only an invalid session is ended |

`PROJECT.json` "hazards" lists each at its line, with the property that would catch
it, or the reason why none does.

## 2. The modules

Every module is in terms of sets of model values; a SQL statement, a channel
operation or a JavaScript callback is one action.

### RefreshSessions and SessionLineage

`row[t]` is the row of `refresh_sessions` whose jti is `t` ("unwritten" and "purged":
there is none; "live"/"revoked": `revoked_at` is null or not). `claims[t]` is the JWT
payload; `held` the tokens clients received; `job[r]` a handler between two
statements. Refresh is `RefreshVerify` (JWT), `RefreshLookup` (GetByJTI, the checks,
Generate), `RefreshRevoke` (the UPDATE whose row count the code ignores) and `Persist`
(the INSERT); `Fail` ends a handler before any of its statements, `Crash` ends all of
them. `Logout` is one UPDATE over the user's live rows; AuthMiddleware, before it, never
looks at `token_type`, so `Authenticated` takes the refresh token of a pair as well as its
access token. `Cleanup` is the DELETE of the
cron job. `now` is one clock for the API server and the database. Histories: `parent`
and `minter` of a token, `era` (the logouts seen by the login a token descends from),
`raced` (users whose logout overlapped a rotation).

`SessionLineage` is the abstract promise: a token is fresh, live, then dead for good,
and gets successors only when dead, at most `Width` of them. `RefreshSessions`
implements it with `Width` = the number of handlers; strict rotation would be
`Width` = 1, which the code reaches only if handlers run one at a time.

### AuditService

`buffer` is the channel, `worker[w]` the loop position of a worker and the entry in
its hands, `cancelled` the context, `main` the position in main's shutdown,
`handler[r]` and `conn[r]` the goroutine and the connection of a request. `Log` is the
Go `select` with `default`: if the channel has room and the context is done, either
case may be taken. `Timeout` abandons the connection and leaves the handler running.
`job` is a cleanup job of the scheduler, which may start until main has called
`sched.Stop()` and which main then waits for (`JobsEnded`): its DELETE has neither a context
nor a timeout.

### Divisions

`roster[d][u]` is the row of `division_members`; it survives the soft delete of `d`
and the removal of `u` from the organization, as in the database. The limits are
constants (7 divisions, 15 members and 3 heads in the code). `CountHeads` returns
`None`: the statement names a column `role` that the table does not have, so it always
fails, and so does `UpdateMemberRole`. `imported` remembers rows written without a
count.

### DivisionWork

`item[i]` is a row of `tasks`, `events` or `transactions`, reduced to its division,
assignee, a state that says whether it stands against a deletion, and `own`: whether it
carries the organization of its division. Creations take a division of any organization,
and the three counts ask for `organization_id = ?` (`Counts`). A deletion is
`StartDelete`, three `CountWork` in the order of the code, `DeleteDivision`. `late`
remembers open work that a deletion could not have counted, `removed` roster rows that
were deleted. The roster's own rules are in `Divisions`; here rows may come, several at a
time, and go, one at a time, whenever they like.

### DivisionSystem

The two modules above over one database: `Divisions` with its deletion replaced by the
one of `DivisionWork`, and `DivisionWork` with the roster `Membership`, the users who
have a row. A step of the system is a step of one half: `RosterStep`, which records in
`removed` who left, or `WorkStep`, which names divisions that exist (`OfDivisions`: a
foreign key, and the GetByID before a deletion). The system implements both modules
(`WorkIsServed`, `RostersAreServed`), so each may be read without the other.

### RefreshInterceptor

Token pairs are numbered in order of issue. `stored` is the MMKV storage, `signedIn`
the persisted Redux flag, `call[c]` a call (idle, sent, queued, refreshing) with the
pair it carries and its `_retry` flag, `post` the refresh on the wire with the answer
the server has given. `MapsFirst` says whether errorInterceptor runs before
refreshInterceptor: it does in `client.ts`, whose comment claims the opposite.
Modelled with both values. TRUE is the program: no call reaches the refresh, and the
violation run shows what becomes of the promise that a 401 is refreshed first. FALSE is the
order that the comment names, in which the code of `refreshInterceptor.ts` can be reached at
all: what is checked and proved with it (one refresh at a time, the pair in storage, that
every call ends) is about that module, should it be registered as its authors meant; single
flight and the shapes hold in either order. The server side of a rotation is reduced to:
the old pair is spent, a new one is issued.

`RefreshInterceptor` and `MobileAccount` are two views of one client: who holds which
pair, and whose data the stores hold. What they have in common is a constant of the
second, `EventArrives`, whether the interceptors announce the end of a session to the
app. `MobileSessionProofs` extends both (so their definitions have different names:
`AccountInit`, `SignOut`, `Nobody`) and proves which value is the program's:
`NeverAnnounced` says that in the interceptor order of `client.ts` no step announces
it.

### MobileAccount

`tokens` is the storage that is written through, `session` and `cache` are the Redux
session and the query cache in memory, `saved` and `disk` their copies, brought up to
date by `SaveSession` and `SaveCache` whenever the persisters get to it; `Kill` loses
what has not been saved, `Start` reads it back. Requests (`boot`, `signins`,
`leaving`, `edits`, `asking`, `updates`) remember the user in whose name they were sent.
`updates` are the mutations whose answers or rollbacks write rows: `UpdateDone` and
`UpdateFailed` do so in whatever cache they find, also in one that `LogoutDone` has cleared.
`lock` is the lockout of the sign-in form and its timer. `EventArrives` says whether a
failed refresh is announced to the session, which depends on the interceptor order.
Histories: `crossed` (an answer was taken over under another user than it was asked
for) and `residue` (rows outlive their session, for good or until the cleared cache
has been saved; a sign-out over an update on the wire is one cause, a kill another). The
two name the ways in which the code does mix users up; the properties say that there is
no other.

### TaskBoard

`hist[t]` is every value the server gave a task, the last one current. `cache[q]` is
the entry of a list or detail query: rows with the version they were read at, whether
they are fresh, the fetch under way. `shown`, `screen`, `open`, `form` and `drag` are
the search, the stack, the form and the references of `useDragDrop`. `moves` are the
optimistic status mutations with their snapshots: `OnMutate` cancels the lists' fetches,
takes the snapshot and writes the cache; `MoveDone` stores the server's row, `MoveFailed`
puts the snapshot back; both invalidate. `changes` are create, update and delete. `online`
is what NetInfo tells the library: offline, a mutation is paused after `OnMutate` and a
fetch waits (`Waiting`), and both go on when the connection is back; a request that is on
the wire then still ends by its answer or its timeout. The query library is
modelled from its use: an invalidation restarts the fetch of a mounted query that has
rows, joins a first fetch that is under way, and only marks a query that is not mounted.
`known[t]` remembers the newest own write whose answer arrived.

### MobileScreens

`kind` is the tab a behaviour stays in: events, divisions, finance or members. `srv`
numbers the server's writes, and a query's content is the number of the newest write
it reflects. `Touched` says which queries a mutation's hook refreshes, `Displays` which
ones show its effect, per tab as in the code; `UpdateEventStores` is the one hook that
also stores the answer. `role`, `claim` and `session` are the role in the database, in
the tokens and in the app; `Offers` what each screen offers for it. `known[k]`
remembers the newest own write that a query is due to show.

### WebClient

`cookie` is the browser's cookie, `live` the sessions the backend accepts, `bucket` the
limiter's tokens for the web server's address, which `Neighbour` (any other visitor)
drains as well. A page load is `Navigate`, `CheckLoad` (the hook's `/auth/me`),
`ServeLoad`, `LoadArrives`; a form is `Open`, `Submit`, `CheckPost`, `ServePost`,
`PostArrives` or `PostLost`, and `Dismiss` closes its dialog at any time. An answer closes
the dialog it belongs to (`Closes`), be it another row's by now. The settings, the new
division and the registration enable their button only when the load that the answer asks
for has ended (`AwaitsLoad`). Closing the result of an import sets a timer (`reloads`) whose
`Reload` comes at any later moment, on whatever page the tab is by then. What differs
between the pages is a family of operators, one per page: what its load does with a failure (`TasksLoad`,
...), what it offers (`TasksOffers`, ...), what its action answers (`TasksAction`, ...)
and what the page does with that (`TasksSettled`, ...). `db` counts writes, `copies[f]`
those of one filled-in form; `unsure` are the forms of which an answer did not both report
success and close them: lost, refused truly or not, or redirected with the dialog left open
(a new division). `Trouble` lets connections fail and time out.

## 3. The runs

| run | instance | what it shows |
|---|---|---|
| `refresh_sessions` | 1 user, 4 tokens, 2 handlers, clock to 2, 1 logout, 1 password change in short histories | rotation order, finality of revocation and logout, purge, refinement of `SessionLineage`, under every interleaving of two handlers with logout, purge and crash |
| `audit_service` | 2 requests, 2 workers, channel of 1 | hand-over, quiet shutdown, the database outlives the jobs, progress of the entries, and of the shutdown if the jobs end |
| `divisions` | 1 organization, 3 divisions, 3 users, 2 handlers, limits of 1 | how far a limit can be passed |
| `division_work` | 2 divisions, 1 user, 2 rows, at most one of another organization, 2 handlers | deletion against creation and update; assignees; deleted rows |
| `interceptor` | a screen, a logout, the check at start; 3 pairs, 1 restart; documented order | of the refresh code: single flight, newest pair in storage, every call comes back |
| `interceptor_order` | the same, real order | **violation**: a 401 reaches the caller without any refresh |
| `task_moves` | 2 status changes, 1 task, the list and a search, 1 visit, a connection that comes and goes | a made-up status is never taken for fresh, and leaves the board once the connection stays |
| `task_forms` | 1 status change, 1 other change, 1 write of another client, 2 texts, 2 visits, 1 refetch | own writes are shown; a full update does not undo an own confirmed move |
| `mobile_account` | 2 accounts, 1 query, 3 starts, 2 sign-ins, 1 edit or update, lockout of 2 after 2 attempts | session, tokens and rows are one user's up to the named late answers and updates; waits end |
| `mobile_screens` | each tab with one row, 2 mutations at once, 2 writes, 1 lapse in two of the tabs | own writes stay visible, edits start from them, refusals are of promoted users only |
| `web` | 1 tab, each page or group of pages, 1 form, 2 submissions on their way, 2 writes, limiter of 1, failing connections | no form written twice unnoticed, saves are shown, loads and buttons come to rest |
| `web_limit` | 1 tab, the task page, limiter of 2, no failing connection | **violation**: a refusal by the limiter ends a good session |

### Bounds, and why they are enough

* Two handlers reach every race between two statements; the theorems cover any number.
  Four tokens are a login, two rival successors and one more generation.
* A clock of 2 with TTL 1 and retention 0 lets a token expire and its row be purged
  while a handler still holds it. A password change leaves the sessions alone, so
  `ShortPasswordHistories` follows it while at most two tokens are issued.
* A channel of one slot and two workers: full channel, two workers competing, one
  worker draining while the other still writes.
* Limits of one: the excess is a matter of handlers between count and insert, not of
  the limit. `OneDimension` explores histories with many divisions and histories with
  many accounts separately, since the two limits share no state; three divisions and
  three users exceed the allowed excess by one, so the invariants can fail.
* Two rows of work and two divisions: one row that is counted and one that slips in.
  `OneRoster` keeps members in one division at a time: a used roster and an unused one
  are enough to tell a check of the wrong roster from a right one. `OneForeigner` allows one
  row of another organization: it meets no check and no count.
* Three pairs are a login and two refreshes, or a login, a refresh and a second login
  that meets a late answer; one restart meets every state of a refresh.
* Two status changes of one task are what it takes for a rollback to restore somebody
  else's optimistic row; a second list is a query that a visit mounts and unmounts. One
  other change, one foreign write and one refetch put a read on either side of each; in
  `task_forms` one of the foreign write, the refetch and the lost connection at a time
  (`OneDisturbance`).
* Two accounts, three starts: a user signs in, the process dies between two writes, the
  other signs in, it dies again and starts on what the first one left.
* Two mutations and two writes: one whose answer is overtaken by the other's. A lapse
  (a refetch nobody asked for, a failed request) is allowed in the tab whose answers are
  stored and in the one whose updates the backend refuses; roles change where the
  backend looks at them.
* One form and two slots are a form sent again while its first submission is on its
  way; two writes separate what a page shows from what is saved. The event page is the
  task page, definition by definition, and has no journey of its own. A burst of one
  empties at the first check, so that every refusal is met.
* `MaxNow`, `MaxLogouts`, `MaxPwChanges`, `MaxBatch`, `MaxPairs`, `MaxRestarts`,
  `MaxOther`, `MaxVisits`, `MaxLapses`, `MaxStarts`, `MaxSignIns`, `MaxEdits`,
  `MaxSessions`, `MaxWrites` are bounds of the models, not of the code.
  `CHECK_DEADLOCK FALSE` stands where they run out or the process ends.

### Fairness

* Each audit worker and each step of main is weakly fair: goroutines are scheduled,
  `processEntry` has a five-second context, and the waits of main for connections and for
  the workers have timeouts. Its wait in `sched.Stop()` has none, so `ShutdownEnds` assumes
  that jobs end (`JobsEnd`) and nothing else does; a job has no fairness. Signals, requests
  and handlers are not fair.
* In the client every call and the refresh call are weakly fair: axios ends each by
  an answer or by its timeout. Which of the two is not assumed: `RefreshFails` and
  `Fail` satisfy the fairness as well as a success does.
* In `TaskBoard` the steps of a mutation and of a fetch that are under way are weakly
  fair, for the same reason, while they are on the wire or the phone is online: a paused one
  has no timeout. The connection need not come back; `PhantomsResolve` is about behaviours
  in which it stays in the end. The user never has to act, and no refetch has to happen
  that the library does not start.
* In `MobileAccount` the check at start (an answer or its timeout) and the tick of the
  lockout's interval are weakly fair. Neither persister is.
* In `WebClient` a request that has been sent is checked, served and answered
  (`Answered`). Nobody has to click, no timer has to run out, and the limiter refills at no
  particular time.

## 4. Proofs

All theorems hold for every value of the constants; they rest on the named ASSUMEs of
the modules only (None is no token/user/pair/form; handlers, divisions and users are finite
where cardinalities are taken; TTLs, limits and bounds are naturals; access tokens do not
outlive refresh tokens; there is a text to type into a form; a list of rows is not one of
the two marks that stand for its absence).

| module | inductive invariant | results |
|---|---|---|
| `RefreshSessionsProofs` | `IInv`: a job past its lookup holds a minted token whose parent is the one it looked up (`JobInv`), rows exist only for minted tokens (`RowInv`), a stored successor's parent is no longer live (`ParentInv`), a handler has stored no successor yet of the token it is rotating (`FanOutInv`), a rotation older than its user's logout is marked as raced (`RotationEraInv`) | type, rotation order, fan-out, no resurrection, safe purge, strict rotation for one handler, finality of logout, refinement of `SessionLineage` |
| `AuditServiceProofs` | `AInv`: adds to `OneHolder` and `StrandedOnlyLate` what handlers, connections, workers and main have established at each of their positions | type, one holder, complete drain, loss only in trouble, quiet shutdown, no job without a database |
| `DivisionsProofs` | `MemberInv`, `DivisionInv`: rows that went through a count plus handlers that have counted and not yet written stay within the limit plus the other handlers; `SerialInv` for one handler: what a job has read is still so; `FreshInv` for any number: rows are of accounts that exist, and accounts that are being made are new and in one handler's hands | type, both limits, last HEAD for one handler, roles never change in place |
| `DivisionsProofs`, the system | `SystemInv`: those two, `WInv` of the work below, and: a deletion on its way is of a division that was created (`DeletionsExist`), whoever a handler is about to assign to has an account (`JobsHaveUsers`) | the system implements `DivisionWork` and `Divisions`; assignees have accounts; late orphans and checked assignees under the rosters that the handlers write |
| `DivisionWorkProofs` | `WInv`: open work of the division's own organization, of a kind that a running deletion has counted, is late (`CountedOrLate`); the assignee in a handler's hands has passed the check (`JobsChecked`) | type, orphans, assignees, finality of deletion |
| `MobileSessionProofs`, the interceptors | `CInv`: the flag, the post, the refreshing call and the queue agree (`FlightInv`); the pair to be posted next is unposted (`UnspentInv`); while no session was ended behind a call's back a refresh finds its tokens where it left them (`SessionInv`) and nothing but its answer is issued (`NewestInv`) | type, single flight, storage and session, newest pair, no double post, and no announcement of a session's end (for the order of today) |
| `MobileSessionProofs`, the account | `AInv`: a process that is down holds nothing in memory and waits for nothing (`DownInv`); unless rows were left behind, rows, fetches and updates on the wire are of the owner of the tokens, and the disk holds none that memory does not (`OwnInv`, `OwnUpdate`) | type, one user in tokens and session, rows of that user |
| `TaskBoardProofs` | `BInv`: a form exists exactly while the screen that edits is open (`FormInv`); nothing that is held, shown or on its way is newer than the server (`VersionInv`, `MoveInv`); an answer on its way is a real row and, unless its query was joined, an up-to-date one (`FetchInv`); while no move is under way fresh rows are real and no older than the own writes, and so are the rows of an open detail that nobody refetches (`RestInv`); what an update claims to have seen it has seen (`ChangeInv`) | type, made-up statuses never fresh, own writes shown, full updates keep own moves |
| `MobileScreensProofs` | `SInv`: forms and mutations are the manager's, and a refusal means that the tokens say otherwise (`RoleInv`); what is due has been written (`WriteInv`); whatever is not stale, or is about to come in, is as new as it is due (`ShownInv`) | type, own writes shown, edits start from them, refusals of promoted users only |
| `WebClientProofs` | `WInv`: a form is open in one tab (`TabInv`); what is reported as saved has been written (`PostInv`); a button stays disabled while a submission blocks it, one submission for each (`BusyInv`); of a form whose tab is not in doubt one submission at most may write (`FormInv`); a load on its way brings what was saved, unless the timer of a reload runs (`SavedInv`) | type, no form written twice unnoticed, saves shown, for any number of tabs, forms and submissions |

The properties are not inductive as they stand. `RotationRevokesParent`, for example,
says nothing of a handler that has minted and not yet stored a successor; `JobInv`
does. `OrphansArriveLate` says nothing of a division that is not deleted yet;
`CountedOrLate` says it of a deletion that has counted one kind and not the next.
`NoDoubleRows` says nothing of the submissions on their way: a form whose button is
enabled has none left that could write, or else its tab is in doubt (`BusyInv`,
`FormInv`). `OwnWritesShown` says nothing of an answer served before a write and not yet
arrived; `ShownInv` does. `NoFreshPhantom` says nothing of the snapshot that a rollback
will put back, nor of the rows on the board while two moves overlap: what is proved of
the rows at rest (`RestInv`) rests on what is known of the answers that will replace
them (`FetchInv`) and of the moves under way (`MoveInv`). Each strengthening was checked
with TLC on the instance of its run before it was proved. Each action has a step or a
lemma of its own; a temporal theorem combines initiation, consecution and implication
with PTL.

Some theorems state what no run repeats: `BoundedFanOut`, `SerialRotation`,
`DrainIsComplete`, `ShutdownLosesOnlyAbandoned`, `SerialLastHead`,
`SessionAgreesWithStorage`, `PostsOnce`, `NeverAnnounced`, `RolesAreFixed`, and the
theorems about `DivisionSystem`, whose instances are too large for a run that is
exhaustive in a few minutes: the two halves multiply. TLC was used on its refinements and
on `AssigneesExist` with one division, one or two users and one or two handlers on each
side before they were proved. `NeverAnnounced` is about the interceptor order of today
(its hypothesis `MapsFirst`), `SerialRotation` and `SerialLastHead` about one handler at a
time; those of `DivisionSystem` assume that `Nobody` is no user.

The theorems of one half are not proved again for the system. `DivisionsProofs`
instantiates `DivisionWorkProofs` with the rosters of `Divisions` and carries its `WInv`
along: a step of the rosters adds rows of new accounts or of one account, or deletes one
row (`RosterMove`, from `FreshInv`), and both are steps of the work's environment.

Model-checked only: liveness (`QueuedIsProcessed`, `ShutdownEnds`, `CallsSettle`,
`PhantomsResolve`, `WaitsEnd`, `Settles`), which is beyond the prover. Every other
property of the passing runs is a theorem.

## 5. Where code and documentation disagree

Two disagreements are runs of their own (marked above), with the quoted lines in
`PROJECT.json` "findings". Others met while modelling, established by reading, which no
run is spent on:

Backend

* two concurrent refreshes of one token both succeed (bounded by `BoundedFanOut`);
* a session survives a password change, whereas `openapi.yaml:2271` promises otherwise;
* the member limit of `internal/domain/constants/limits.go` is passed by concurrent additions
  (bounded by `MemberLimitUpToRaces`) and without any bound by the bulk import;
* `AddMember` never counts heads, so the limit of heads is not enforced there; the
  change of a role ends in an SQL error, since the table has no column `role`, and no
  other step changes the role of a row (`RolesAreFixed`);
* a removal that read STAFF, or no row, before the user was entered as HEAD deletes that
  row, and with it perhaps the last HEAD, which `sentinels.go` says must exist (with one
  handler: `SerialLastHead`);
* an account can be assigned to another organization's division, against the tenant
  separation of the backend's README (line 137);
* a division is deleted although its roster is not empty, whereas `openapi.yaml` says
  that a division with active members cannot be deleted;
* a task, an event or a transaction can be created in a division of another
  organization, and no count of a deletion sees it: a division is deleted over work that
  was there before (`OrphansArriveLate` is about the division's own organization only);
* `AuthMiddleware` accepts a refresh token where an access token is meant, also one that
  was rotated or revoked, until it expires;
* main waits for running cleanup jobs without a deadline, also after a forced shutdown,
  so that a DELETE that hangs keeps the process and its queued audit entries (`JobsEnd`);
* the comment on `Log` says that a full channel blocks the caller; the `default` case
  drops the entry. The comment on `Shutdown` says that all buffered entries are
  processed; one that `Log` queues behind the drain is not (`DrainIsComplete`);
* a logout that overlaps a refresh does not end the refreshed session
  (`LogoutFinalWhenQuiet`); a demoted administrator keeps the rights of the old role
  through refreshes, and a promoted one is offered what the tokens are refused
  (`RefusedOnlyIfPromoted`);
* `openapi.yaml` says that removing a member unassigns the tasks; they stay assigned
  (`AssigneeHasBeenMember`); `task_status.go` calls DONE a final state; any status may
  follow it;
* titles of 256 to 500 characters pass the check and fail in the column; a transaction
  is approved on creation and can never be updated; a summary adds currencies; `Money`
  wraps at the ends of int64.

Mobile

* the check at start signs a user in again who signed out while it was on the wire (the
  exception in `SessionAgreesWithStorage`), and signs out a user who starts the app offline
  (`useBootstrapAuth.ts:81`, against its comment);
* a sign-out while an update of a task or an event is on the wire clears the cache, and
  the answer or the rollback then writes rows of that user into it, which the next user is
  shown (the exception in `RowsAreOwn`);
* offline, a change of status stays on the board unconfirmed for as long as there is no
  connection (`PhantomsResolve`);
* removing a division's member does not refresh the member count of the list; the
  screen that edits a member always fails, for want of an endpoint;
* an edit form follows the query, so a refetch overwrites typed text; the form of a
  division may be seeded with the value from before the last edit until it is refetched.

Web

* actions answer `{ error }` where `fail()` is meant, so a save that failed closes its
  dialog and drops what was typed; a POST without data in the answer is reported as a
  failure although it was done, which invites the second submission that
  `NoDoubleRows` excepts;
* the dialog for a new member always reports an error and loses the temporary password;
* calls from the browser never carry a token: role change, removal of a member and the
  user search always meet a 401, and nobody can be added to a division;
* finance sends `amount` where the backend expects `amount_cents`; editing a task clears
  its assignee;
* the loads of the divisions and of the organization hide failures (an empty list; the
  role MEMBER); lists show the first page only;
* a dialog closed with Escape while its form is on its way lets the answer close a newer
  dialog; the dialog of a new division stays open after it was created; the `confirm`
  of the delete buttons does not prevent the submission; the sign-in button stays
  disabled after a redirect back to the sign-in page;
* signing out leaves the backend's session alive, and a late response of another tab can
  clear a newer cookie.

## 6. Not modelled, and why

* Cryptography, encodings, validation of formats, pagination, response layout,
  logging, metrics, filters, animation: functions of one request or one render.
* The database itself: a statement is atomic and a transaction is one action; a failed
  statement ends the handler. Isolation anomalies inside a transaction do not arise,
  since the three transactions only insert fresh rows.
* What the query library restores after a kill: rows are (`MobileAccount`), paused
  mutations are not; one that is restored has lost its function and its rollback.
* Command-line tools (migrations, seeds) run while the service is down; two instances
  that start together are listed as a hazard.
* The transaction of registration and who owns an organization: the clients see their
  outcome only; the missing protection of the last owner is listed as a hazard.
* `Money`: sequential arithmetic without state. The map of rate limiters and its
  cleanup: `WebClient` has the one bucket that its requests share.
* The mobile form that edits a transaction, which the backend makes unreachable; the
  web's calls that never carry a token, beyond the fact that they fail; the deletion of
  an organization, a cascade in the database.
* The query library, the persisters, axios and SvelteKit themselves: modelled as far as
  the code uses them, from that use.

The map covers about a third of the implementation's lines. The rest is layout and
styling of the pages and screens, data transfer types, wiring, and the parts named here.

## 7. What is left to do

1. `Accounts`: registration, e-mail uniqueness across two statements, organization
   roles, the last owner; composed with `RefreshSessions` by the user.
2. A composition of `RefreshInterceptor` with `RefreshSessions`: the lost answer of a
   rotation seen from both sides; the client's pairs refine the server's lineage.
3. `Finance` with `Money`: amounts of 64 bits that wrap, the summary over currencies.
4. The map of rate limiters with its cleanup.
