# A TLA+ model of the molizhishu API demo backends and their frontend

The repository holds eight interchangeable backends (Go, Java, PHP, Python,
Rust, .NET, and Node twice as `react/` and `vue/`) and one React frontend.
Each backend submits monitoring tasks to the remote molizhishu service and
keeps a local copy of their state and answers in MySQL, fed by three writers
that know nothing of each other: the submission, callback pushes, and
synchronisation (by hand or by a background pass). The frontend shows that copy
through polling queries, behind a login. What can go wrong is almost all in how
the writers interleave, fail half-way and repeat, and in what the browser does
with answers that come late or show less than the last one did.

## Inventory

| Part | State | Operations | Hard part |
|---|---|---|---|
| Remote service (external) | its tasks, subtasks, undelivered pushes | submit, status, result, stop, push | answers get lost, pushes repeat |
| Local store (`database/schema.sql`, the same in all languages) | `geo_tasks`, `geo_subtasks`, `geo_callback_events`, `geo_compensation_events`, `geo_admin_users` | row upserts, the scan for unfinished tasks | which columns an upsert overwrites; what the scan overlooks |
| Backend x 8: HTTP handlers | requests in progress | `POST /api/tasks`, `PUT …/stop`, `POST …/sync`, `POST /webhooks/molizhishu`, list and detail | snapshot read, then saved later; several commits per request |
| Backend x 8: background pass | the batch under way | scan, then `syncOne` per task | stale batch, starvation, crashes between two saves |
| Several backends on one database | – | all of the above | every `.env.example` names the database `molizhishu`: event rows and rows of one language are read by another |
| Admin sessions | one token hash and expiry per user; `localStorage`; two places that remember a page | login, logout, authenticate, 401 interceptor, `RequireAuth` | check-then-clear by user id; late 401s; the service's own 401s; tabs that share a token |
| Runtime settings | API key in memory (in PHP also `.env`), callback URL per account at the service | read, update | two calls behind one button; other administrators; restarts |
| Dashboard | one query, two selections | figures computed from sums per task | rounding, days and hours, what a capped page leaves out |
| Task list, task detail, new task | queries, filters, pages, expansion, mutations | refetch, filter, turn, expand, sync, stop, submit | data that changes under a selection; effects in render order; answers after the page was left |
| PHP container start | two `mkdir` locks on a shared volume | composer install, schema install | a killed holder |
| HTTP client | none | request, unpack envelope | timeouts after the remote effect |

How the parts interact: a handler or the pass calls the service, holds the
returned snapshot, and saves it in one or more database commits. The service
pushes results of terminal tasks to the webhook until it gets a 2xx. Nothing
locks a task; MySQL transactions (where a backend uses them) are the only
synchronisation. The frontend only ever reads what the backend's list and
detail return, every 15 seconds and after a mutation.

What makes it correct: a submission that was answered with success keeps its
columns; the rows of a task together show one state the service was really in;
progress counters match the rows; an acknowledged push is stored; a finished
task whose copy is incomplete is found by the scan, and the copy converges; a
401 of the backend's middleware means that the session has ended; a figure counts every subtask once; what
the reader selected stays meaningful over whatever the next refetch brings.

The hazards behind these properties are listed one by one, at their lines, in
`PROJECT.json`.

## Modules

```
MonitorApi            remote service: statuses, payloads, its own steps     (external)
  LocalStore          tables, the scan, saving a snapshot
    BackendProcesses  requests and the loop; steps that touch no table; shared properties
      Replica         (INSTANCE) abstract: the copy is replaced as a whole by a state the service was in
      ProcessProofs   lemmas about the shared part and about the refinement of Replica
      GoBackend       Go: saves and how they are put together       <- MCGoBackend
        GoBackendProofs
      CallbackEvents  geo_callback_events as the set of processed payloads
        NodeBackend   react/ (and vue/)                             <- MCNodeBackend
          NodeBackendProofs
        PhpBackend    php/
        RustBackend   rust/, statement by statement                 <- MCRustBackend
          RustBackendProofs
        Backends      (INSTANCE Go, Node, Php) alone or on one database <- MCBackends
          BackendsProofs
AdminSessions         login, logout, tokens, tabs, redirects        <- MCAdminSessions
  AdminSessionsProofs
Dashboard             the dashboard's figures over the table        <- MCDashboard
  DashboardProofs     with a theory of finite sums
TaskDetailPage, TaskListPage, NewTaskPage, SettingsPage   one page each
  Console             the routes that mount them one at a time      <- MCConsole
    ConsoleProofs
```

**MonitorApi** is not code of the repository; it is the service as the
backends use it. `remote[t]` is the service's record of a task; a subtask goes
pending, processing, then completed or one of `FinalFailures`; stopping takes
pending subtasks only, so a running one may still complete after its task is
`stopped`. `StatusView` carries no answers, `ResultView` those of completed
subtasks. `pushes` holds payloads until their acknowledgement arrives.

**LocalStore** keeps per task row its status, `completed_items` (`done`), which
of the columns only a submission fills in hold the submitted values (`kept`) and
the time of insertion (`born`, unique); per subtask row a status and whether it
has an answer. `Unfinished` is the WHERE clause of the scan, `Batches` its ORDER
BY and LIMIT.

**BackendProcesses** gives every process a next call `pc`, the task it works
for (`job`) and the snapshot it holds (`msg`). One action is everything between
two remote calls or commits. `GiveUp` is a call or transaction that fails;
`Crash` stops every process and keeps the tables. Definitions that all backends
share are mapped to `vue/src`.

**Replica** is the abstract specification of the copy: the service's record of a
task moves forward, and the copied statuses are replaced *as a whole* by the
current state or an earlier one. `RowsFollowService` is its `Spec` under the
refinement mapping `real <- Real, copy <- Copy` (`Copy` puts the master status
and the subtask statuses of the tables together). It says what no row-wise
invariant says: no interleaving of saves leaves the master status of one
snapshot beside a subtask status of another.

**GoBackend**: `SaveSubmitted` is an upsert of *all* columns, `SaveRemoteResult`
of status and progress only; `StoreEvent` and `StoreCallback` are the two commits
of `SaveCallback`, whose event insert answers "duplicate" to any error.

**NodeBackend** looks a push up first (`ReceiveCallback`), and its repeated
submission keeps `completed_items`. **PhpBackend** keeps an answer a payload
leaves out, applies a push in one transaction (the lookup being a snapshot read
before it) and synchronises after a stop; `ExplicitNulls` chooses whether a
result lists unfinished subtasks with null answers, which clear stored ones.
**RustBackend** has no transactions: `left` is the set of subtask rows a save has
still to write.

**Backends** runs them on one database. `language` assigns a backend to every
process for good; each process takes the steps of its language's module over the
shared tables, and a crash takes one backend's processes with it (in PHP one
process). Go hashes a push after
re-marshalling it with sorted keys, so no other backend finds its event rows;
Node and PHP hash compact JSON to the same value and share them.

**AdminSessions** is the token row on the server, `localStorage` of each browser
(shared by its tabs), and per tab the route, `location.state.from`,
`redirectAfterLogin` and the requests under way. A request carries the token of
the moment it was sent; a logout is a check followed by an UPDATE by user id;
answers arrive in any order or not at all. A call that the backend forwards to
the monitoring service is a check followed by the service's answer, whose HTTP
status the error handler passes on (`server.js:139`): its 401 ("unauthorized")
looks to the browser like the middleware's ("refused").

**Dashboard** changes the table as the backends write it (`Insert`, `Sync`,
`SubmitLate`), moves the clock, and defines each figure of the page as a function
of the rows: overview, model table, hourly chart, the two 7-day charts, the two
lists. Times are hours, percentages hundredths; a row first stored by a callback
lacks its prompts and platforms.

**TaskDetailPage** models a React page closely: what a render computes, the four
effects of a render in their order on the values of that render, the query and
the sync mutation. Because older snapshots may be saved at any moment, an answer
may show any statuses; it lists the subtasks that have a row by then. A sync of a
task the reader has left for another one ends with a refetch of what is shown
then ("elsewhere", "settling", or "detached" when the refetch is still that of
the old task). **TaskListPage** reads COUNT and SELECT in two steps while
tasks are inserted; a row has the second of its `created_local_at`, which is
taken before the commit, so a row may come in behind others; the order of rows
of one second is chosen anew by every SELECT, for the query has no tie-breaker
(`repository.js:62`). `owed` and `seen` follow a reader who walks through the
pages of all tasks.
**NewTaskPage** is the form with its platform menu. **SettingsPage** is the form
of two fields whose button makes one or two calls, over the key in the backend's
memory and the callback URL the service keeps *per account*
(`docs/api/callback-config.md:15`). The form trims what it sends and compares it
with what was read untrimmed; `Trim` is a constant. **Console** composes the four: leaving a page
discards its state, and the answer of a submission navigates wherever the reader
is by then, also to another task's page on the same, still mounted component.

Abstractions: data the properties do not tell apart is dropped (texts, other
answer columns, failed_items, most timestamps); "assigned" is "processing"; status
and result payloads list every subtask; ids are unique; equal payloads have
equal hashes. Rows are unordered where a page only filters and counts them. The
search box, copy buttons and messages change nothing else and are left out.

## Runs

The backend runs use one task unless the starvation run, whose subject is two.
One task is enough for the safety properties because no action reads the rows of
one task to write those of another; tasks compete only for places in the batch.
Two subtasks give partial results and missing rows; two handlers plus the loop
give three concurrent writers.

| Run | Bounds | Distinct states | Shows |
|---|---|---|---|
| `backends` | 1 subtask, 2 requests, loop, pushes; Go alone, PHP alone, and a Node and a PHP request (results with explicit nulls) racing the Go loop | 697 000 | `BackendInv`, `SubmissionsKept`, `GapRescanned`, `RowsFollowService` of all; `CountersMatch`, `AckedPushesRecorded`, `ProcessedMeansStored`, `AnswersSurvive` of those that promise it |
| `go_liveness` | 2 subtasks, 1 request, fair loop, no pushes | 58 000 | the same invariants with partial results; `FinishedTasksConverge`, `PartialAnswersArrive` |
| `rust_polling` | 2 subtasks, 1 request, loop, no pushes | 822 000 | `AcceptedGapRescanned` |
| `rust_races` | 1 subtask, 2 requests, loop, pushes | 1 776 000 | `RustInv`, `SubmissionsKept`, `AckedAreRecorded` |
| `sessions` | 2 tabs of one browser, 2 pages (one polls), 2 logins, 1 login, logout or forwarded call at a time (`MaxCalls`) | 460 000 | `SessionInv`, `RefusalsFinal`, `LoggedOutIsOut`, `LoginLeadsBack` |
| `sessions_live` | 1 tab, overlapping logins, logouts and forwarded calls, fairness | 36 000 | `DeadSessionsEnd` |
| `dashboard` | 2 tasks of 1x1 or 2x2 subtasks, 2 platforms, a day of 2 hours, the hour before and after midnight | 349 000 | `OverviewMatchesContract`, `PlatformSharesClose`, `HoursMatchOverview`, `DaysMatchWindow`, `BacklogShowsOpenTasks` |
| `console` | a task of 3 subtasks, with one or all of their rows, in pages of 1, 2 prompts, 2 platforms; a list of 3 tasks of 2 `Seconds` in pages of 1; 2 accounts, 2 URLs of which one has spaces at its ends | 834 000 | `ConsoleTypeOK`, `MatchesVisible`, `FilterSatisfiable`, `PagingMoves`, `CollapseSticks`, `SyncedIsShown`; `WalkMissesNothing`; `OnlyTypedUrlsAreSent`, `UrlFollowsKey` |

What the bounds rest on. In the backends a task is submitted once (the service
hands out fresh ids) and the service only moves forward, so the clock, `pushes`,
`queue` and the event set are finite by themselves. Node alone, PHP alone with
explicit nulls, and the other two mixed deployments (Go and Node requests with
PHP's worker, Go and PHP requests with Node's poller) have the same properties
in 1.45 million further states; they are left out of the run for its time, and
`BackendsProofs` is about every assignment of languages to processes. In the
sessions two logins are enough for a token to be superseded and a late answer to
belong to the old one; that a token shared by tabs may be cleared by any of them is
exercised by the safety run, while the liveness run has one tab. In the
console two `Seconds` let a task come in younger than, older than and level with
another, and `Listings` (one subtask or all three) lets an answer be partial and
the next one complete. Three pages of one row, in list and detail, are enough
for a first, a middle and a last page, and for a list that shrinks under the
last one. A page of the dashboard holds all rows (`PageCap` = `MaxRows`); with
less, see below. Deadlock is not checked because a system in which every task is
over and nobody asks for anything may rest. Handlers are a symmetry set in
safety runs only, as are tabs, accounts and, in Rust, subtasks.

Some properties are claimed of a part of the backends, because the others are
known not to have them: `completed_items` matches the rows (`CountersMatch`)
except in Node and Rust, where a late submission resets the rows and not the
counter; stored answers stay (`AnswersSurvive`) in PHP only, since a status save
of Go, Node and Rust clears them until the next result; acknowledged pushes are
recorded (`AckedPushesRecorded`) except in Go, which answers "duplicate" to any
failure of its event insert although `golang/README.md:39` promises to store
first. The same goes for the mixed deployments: where a Go process serves, its
habits are those of the tables.

### Runs that contradict a document

| Run | Promise | What the code does |
|---|---|---|
| `go_stopped_answers` | answers of stopped tasks are saved (`golang/README.md:40`) | the scan does not look for missing answers of stopped tasks |
| `go_starvation` | eventual consistency (`docs/vibecoding-prompt.md:53`) | a subtask in `error` keeps its task in every batch, oldest first |
| `node_ack` | store first, then 2xx (`docs/vibecoding-prompt.md:205`) | the event is "processed" before the save; the retry is a "duplicate" |
| `rust_half_saved` | eventual consistency | a half-applied first push leaves a row missing that neither retry nor scan replaces |

The same scan and, except in PHP, the same overwriting upsert are in every
language; these runs use the backend whose document makes the promise, or the
one where the shortest behaviour shows it. `PollingSpec` and `PushingSpec` only
drop alternatives of the next-state relation; the behaviours they refute with
are behaviours of the full fair specification. No backend keeps two syncs of one
task apart (`docs/vibecoding-prompt.md:256` asks for it); that they interleave is
part of every run.

### Seen while modelling

Small things no run is about, visible in a step or two of the code:

- Dashboard: it asks for 1000 rows (`DashboardPage.tsx:269`), the backends return
  at most 100 (`server.js:66`), so with more tasks `OverviewMatchesContract` fails
  (run it with `PageCap = 1`; up to the cap it is proved). `dateKey` has no year (112-116), so a point of the
  trend would also count tasks of the same day a year ago. The columns "pending"
  and "running" of the model table count all prompts of a task, those of the
  overview only what remains.
- Detail: a filter chosen while a page beyond the new total is selected lands on
  the last page, not the first, because the clamping effect runs after the
  resetting one (468-482).
- Sessions: the service's HTTP 401 (its documents promise HTTP 200 for a bad key,
  `docs/api/error-handling.md:34-46`) reaches the browser as a 401 of the backend,
  and the interceptor ends a live session (`server.js:139`, `client.js:46`,
  `api.ts:118-123`). A late 401 about an old token clears the token stored since.
- List: tasks of one second may change places between two pages, and a reader who
  pages through can miss one (`repository.js:62`). A page beyond the end of a
  list that has shrunk stays selected; the count and the rows may be of different tables (`repository.js:61-62`). The stop
  mutation does not wait for its refetch (83-86), and stopping a second task
  enables the first one's button again (222).
- New task: the answer navigates also after the form was left
  (`NewTaskPage.tsx:43`), and a detail page that was open keeps its filters.
- Settings: the message "saved" disappears at once whenever a key was saved,
  because clearing the field triggers the effect that clears the message (18-20,
  42-43). When the second call fails the first has taken effect and the page does
  not read anything again (29-34, 41). What the reader is typing into the URL
  field, or has typed before the first answer, is overwritten when a new URL
  arrives (14-16). Until the page has read a URL again that it has just saved, or
  if that fails, saving a key alone sends the URL once more, over what another
  administrator has set since (26, 32, 45). A URL stored with spaces at its ends
  counts as changed (25-26), so saving a key sends it trimmed.

## Fairness

Safety runs assume none. `go_liveness` runs `PollingOnlySpec`, which is `FairSpec`
where no task has a callback URL (the callback handlers of Go are exercised in
`backends`). It assumes that the loop starts a pass
whenever it can (a ticker drives it), that a started request ends (HTTP client
and database have timeouts), and, per task, that a call the loop repeats for ever
also succeeds for ever (strong fairness, because `GiveUp` and `Crash` can disable
the call each time). Requests, stops, pushes, crashes and progress of the service
need never happen.

`sessions_live` assumes what the browser schedules by itself: a page with a
`refetchInterval` polls (weak), and an answer that stays there is received (weak);
a query repeated for ever is sometimes authenticated rather than lost, and a
refusal sometimes delivered before the page is left (strong). Logins, logouts,
expiry and navigation need never happen.

## Proofs

Every safety property that a passing run checks is also a theorem, for any sets of
tasks, subtasks, requests, languages, tabs, browsers, pages, platforms, rows and
any bounds:

| Module | Theorems |
|---|---|
| `GoBackendProofs` | `[]TypeOK`, `[]IndInv`, `[]GapRescanned`, `[]SubmissionsKept`, `[]CountersAgree`, and `RowsFollowService`: Go implements `Replica` |
| `NodeBackendProofs` | `[]IndInv`, `[]GapRescanned`, `AckedAreRecorded`, and `RowsFollowService`: Node implements `Replica` |
| `BackendsProofs` | for every mixture of Go, Node and PHP on one database: `[]BackendInv`, `[]GapRescanned`, `[]SubmissionsKept`, `[]CountersMatch`, `RowsFollowService`, `AnswersSurvive`, `[]ProcessedMeansStored`, `AckedPushesRecorded` |
| `RustBackendProofs` | `[]RustInv`, `[]AcceptedGapRescanned`, `[]SubmissionsKept`, `AckedAreRecorded` |
| `AdminSessionsProofs` | `[]SessionInv`, `[]RefusalsFinal`, `[]LoggedOutIsOut`, `LoginLeadsBack` |
| `DashboardProofs` | `[]BacklogShowsOpenTasks`, `[]HoursMatchOverview`, `[]PlatformSharesClose`; `OverviewMatchesContract` while the table fits on the page; `DaysMatchWindow` while no task on the page was last touched a year away |
| `ConsoleProofs` | `[]ConsoleTypeOK`, `[]MatchesVisible`, `[]FilterSatisfiable`, `PagingMoves`, `CollapseSticks`, `SyncedIsShown`, `[]WalkMissesNothing`, `OnlyTypedUrlsAreSent`, `UrlFollowsKey` |

*Assumptions* (named ASSUMEs, evaluated by the runs): finitely many subtasks per
task; tasks with a callback are tasks; `FinalFailures` within `failed` and
`error`; a positive batch limit; the loop is not a handler; `None` is no task and
no payload; in Rust a task has a subtask; every process has one of the languages;
every tab has a browser; the login page is not a page behind `RequireAuth`;
positive page sizes; "all" is no status, prompt or platform; a blank field is no
key and no URL; trimming twice is trimming once; seconds are numbers; a
listing is a set of subtasks; numbers of prompts are numbers, platforms finitely
many; the week of the charts begins after day 0 and is shorter than a year.

*The backends' invariant.* `GapRescanned` is about a state of two parties: when
every selected column looks final, the rows must equal what the service says.
That follows if each row shows a status the service has had (`RowsObserved`) and
no row is missing (`RowsWhole`), because a terminal observation is the current
state. Neither is inductive alone. Rows are written from snapshots that may be
old, so every payload under way, in a process or on its way as a push, must be an
observation too (`SnapshotsObserved`); a status a snapshot shows stays *behind*
the service because the service only moves forward, for which a master task must
not be over while a subtask runs (`RemoteConsistent`); and a process about to
save must hold a snapshot of its own task (`ProcsConsistent`, `QueueKnown`).
Their conjunction is `IndInv`. `SubmissionsKept` is inductive on its own given the
types; `CountersAgree` needs `SubmissionsFresh`: the submission's counter of 0 is
right because the snapshot it saves shows nothing completed.

*Several backends on one database.* `BackendsProofs` first translates the actions
of the three instances into the shared operators and sorts every step into one of
a few kinds (`StepKind`); the invariants then need one argument per kind, not one
per language. Where PHP takes part `RowsObserved` is false: PHP keeps an answer
that a payload leaves out, so an answer may stand beside an older status. What
holds everywhere, and is enough for the scan, is `AnswersObserved`: the statuses
are observations, and a stored answer belongs to a subtask the service has
completed. `ProcessedMeansStored` lives on `AnswersSurvive`, a property of PHP
alone; `AckedPushesRecorded` on the fact that a process about to acknowledge
without saving has seen an event row, and event rows are never removed
(`EventsKnown`).

*Rust.* Its saves are single statements, so `RowsWhole` is false and `RustInv`
does not preserve itself: a step that ends a save must know what the save has
already written. `RustIInv` adds, for each save under way, that the rows outside
`left` exist (`UnderWay`), that a subtask row is never without its task row, and
that an answered submission has written all rows (`AcceptedWhole`). That a gap is
rescanned follows for answered submissions only; for the others `rust_half_saved`
shows that it is false.

*The refinement.* A step of the service maps to `Advance` or a stutter: every step
of a subtask leaves the record `Coherent` and no status goes back. A save maps to
`Refresh`: it writes all statuses of one snapshot, the snapshot is coherent, and
it is behind the service by an invariant like `SnapshotsObserved` for statuses as
a whole. All other steps leave both variables alone. The lemmas are in
`ProcessProofs`, in terms of what a save does to the tables, so each backend only
shows which of its steps save what. `ProcessProofs` also holds what fetching,
receiving, giving up, crashing, queueing and the service preserve.

*The sessions' invariant.* That a 401 is final needs `TokensIssued`: no token in
use, stored or on its way has a number that is still to be issued; so a token
that is not live now can only become live by being issued, which no longer
happens to it. The same carries `LoggedOutIsOut`. Of the service's 401 nothing of the kind is
true, which is why `RefusalsFinal` speaks of "refused" only. `LoginLeadsBack` needs
`LeftIsTarget`: of the two places that remember a page, the one that the login
page reads first holds the page that was lost, through every detour.

*The pages.* The four pages share no variable but the route, so `ConsoleInv` is a
conjunction of one invariant per page, each preserved by the page's own actions
and by entering and leaving. In the detail, `effects` says which effects of the
last render have still to run; once there are none, the selected page exists and
the selected prompt is offered (`DetailInv`). The list's argument is about a
moving list. A task that is alone in its second has a rank that no tie can
change: the number of younger rows (`NewerIn`). Rows are only added, so the rank
never falls, and what was on page *p* is later on page *p* or beyond; a reader on
page *p* has been shown everything owed that any answer so far could have placed
on the pages up to *p* (`Covered`, up to the `Frontier` of the answer under way).
The settings form orders its calls (`CallOrder`): a URL goes out after the key's
answer, and only if it was typed since the query last brought another one, or is
what the query brought, trimmed (`TypedOrTrimmed`).

*The dashboard's sums.* The figures are sums over finite sets. The induction they
need is not one of the library's (those take an operator as a parameter) but is
derived for sets from `WFMin`: the least number outside a set of numbers
(`NatInduct`), hence all subsets of a finite set by cardinality (`SetInduct`).
From these follow the usual laws: any addend can be split off (`SigmaRemove`),
sums add and compare addend by addend, addends of 0 do not count, a table has the
same sum by rows and by columns (`SigmaSwap`), and pairs are counted by their first
component (`CountPairs`). The invariant of the rows is small (`DashboardInv`): done
and failed subtasks fit in the task, and a task that is neither pending nor
processing nor stopped has no other subtasks. Then the overview is a count of
pairs, the hourly chart the same table by columns, and the shares of a counter
among *n* platforms miss it by at most *n* halves (`RoundClose`), summed up over
tasks and platforms (`SharesClose`). The two hypotheses are those under which the
code is right: rows beyond the page are not counted, and days are compared without
their year. They hold by themselves where `MaxRows <= PageCap`, or where the time
span and the window together fit in a year, as in the run (`OverviewOfShortTables`,
`DaysOfOneYear`).

*Only model-checked*: liveness (`FinishedTasksConverge`, `PartialAnswersArrive`,
`DeadSessionsEnd`), because fairness and ENABLED are out of the prover's reach, and
of course the counterexamples.

One assumption of `TaskDetailPage` is React's: the effects of a render have run
before the reader's next click. React promises it for renders that a click has
caused; for one caused by an answer it is what happens in practice, but not
promised.

## Not modelled

- The Java, Python and .NET backends: variants of the steps modelled for the
  other five. What sets them apart is listed under the hazards (an event insert
  without `received_at`, `callback_url` and `poll_url` overwritten by results, one
  session per pass, the event committed apart from the save).
- PHP's read-modify-write of `.env` and the worker's stale copy of the key; the
  `mkdir` locks of the PHP containers.
- Unpacking of envelopes and error codes, `geo_compensation_events` (PHP writes
  it, nobody reads it), JSON normalisation of list and detail.
- Rendering and styles, markdown, labels, static configuration, the reference
  documentation.

Next in line would be `PhpEntrypoint` (locks and kills), a module of the `.env`
file, and the Java backend in `Backends`, whose proofs would again be one argument
per kind of step.
