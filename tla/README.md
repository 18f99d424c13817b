# Verification of sysgrid

sysgrid is a FastAPI/SQLAlchemy backend over one SQLite file per tenant, with a
React client. It keeps an inventory of devices, services, monitoring items and
architecture, plans projects (PV1), and lets operators run *operational actions*
on devices inside *maintenance windows*. This directory models the parts of the
backend and of its client whose correctness depends on the order in which
concurrent requests, users, crashes and retries meet: TLA+ modules, TLC
configurations, and TLAPS proofs.

All paths below are relative to `src/backend/app/` unless they start with `src/`
or `client/`, which stands for `src/frontend/src/`.

## 1. The system

### 1.1 Components

| Component | State it keeps | Operations | Correct when |
|---|---|---|---|
| **Operational action service** (`operational_actions/`, `api/operational_actions.py`) | `operational_actions`, `operational_action_targets`, `_attempts`, `_events` | create, preview, authorize, confirm, execute, verify, rollback, reconcile, recover; history and evidence views | the adapter runs once; execution only on confirmed, unchanged facts; status follows `ALLOWED_TRANSITIONS`; every attempt gets an outcome or can be reconciled |
| **Maintenance windows** (`maintenance_windows.py`, `api/maintenance.py`) | `maintenance_windows` with an idempotency key | create, update, cancel, delete, list | a window with work open or in doubt is neither cancelled nor deleted; creation is idempotent |
| **Tenant database sessions** (`database.py`) | engine and session factory per tenant | `get_db`, tenant resolution, migration at start | one session per request, rolled back on error |
| **PV1 command processing** (`pv1/domain.py`, `api/pv1.py`) | projects, work items, dependencies, `pv1_events`, idempotency records, schedule preview cache | `execute_command`, `create_project`, previews, timeline | a command takes effect once per key; expected revisions are enforced; the event sequence is dense |
| **PV1 schedule engine** (`pv1/schedule.py`) | none (pure) | calendars, forward/backward pass, float, critical path | results satisfy every dependency and constraint |
| **PV1 communication, outcomes, focus, migration** (`pv1/…`) | communication drafts, outcomes, migration ledger | publish, evaluate, migrate | published snapshots are immutable; migration can be restarted |
| **Architecture graph** (`architecture/`) | nodes, relations, drafts, idempotency records | command, traceability queries | revisions enforced, commands idempotent |
| **Assets and bulk commands** (`api/devices.py`, `api/asset_*.py`) | `devices`, bulk preview and undo records | CRUD, bulk preview/execute/undo, import | undo restores what the bulk changed and nothing newer |
| **Logical services and bulk** (`api/logical_services.py`, `api/service_bulk.py`, `api/operational_bulk.py`) | services, bulk previews | the same pattern | the same |
| **Monitoring** (`api/monitoring.py`, `api/monitoring_purge.py`) | monitoring items, versions, purge requests | CRUD, history, purge | optimistic versions are respected |
| **Settings and reference data** (`api/settings.py`, `reference_data.py`) | options, references | CRUD; renaming an option rewrites its uses | no dangling reference |
| **Import engine** (`api/import_engine.py`) | staged rows | parse, validate, apply | apply is all or nothing |
| **Authorization and tenancy** (`api/authorization.py`, `api/module_policy.py`, `api/tenants.py`) | roles, tenant registry | checks in front of every handler | — |
| **Records CRUD, read models** (`api/far.py`, `api/rca.py`, … `api/dashboard.py`) | one table each | single-transaction CRUD | — |
| **Runtime and observability** (`main.py`, `observability.py`) | rate limiter, metrics | middleware | a key is never admitted more often than its limit |
| **Client workflows** (`client/components/maintenance/`, `shared/useOperationalBulkWorkflow.ts`, `shared/CollaborativeWorkspaceViews.ts`, `ProjectsTimeline.tsx`, `client/api/serviceBulk.ts`) | idempotency keys, reviewed previews, receipts, local views and a migration marker in the browser's storage | submit, retry, recover, confirm, undo, hydrate, migrate | what the screen says was saved was saved; nothing unseen is overwritten; nothing is done twice |
| **Client transport** (`client/api/apiClient.ts`, `bootstrapCache.ts`, `tenantContext.ts`) | write counters, the tab's tenant, bootstrap cache | fetch, begin and end writes, switch | a write reaches the tenant it was meant for |
| **Operations scripts** (`src/scripts/production_data_guard.py`) | backups of the data directory | guard, restore | an interrupted run never loses the live data |

### 1.2 How they interact

* Every HTTP request runs as a coroutine of one event loop and owns one
  `AsyncSession`. It gives up control at every database call and at the call of
  the action adapter, so **handlers interleave between their own statements**.
* Action service and windows share rows: an action may be linked to a window
  (`maintenance_window_id`); `preview`, `authorize`, `confirm` and `execute`
  lock and read the window (`locked_window`), and `cancel_maintenance_window`
  reads actions and attempts under the same lock.
* An action's targets are devices that the asset handlers edit at any time, and
  a settings change may rewrite the status of every window.
* PV1, architecture, windows and actions each have their own idempotency scheme,
  on the same database.
* The client chooses command ids and idempotency keys, repeats them on a retry,
  and decides from an answer, or from its absence, what the user is told. An
  answer may be lost **after** the handler committed.
* The tabs of a browser share its storage (local views, the migration marker);
  each has its own tenant, which a switch changes before the page is reloaded.
* Identical schedule previews share one calculation inside a worker, through a
  dict of locks and a cache of sixteen entries.

### 1.3 What is hard

1. **Decisions on a copy.** Sessions are made with `expire_on_commit=False,
   autoflush=False` (`database.py`). A handler reads the action once and decides
   on that copy, while other requests commit. Flushes carry no version check.
2. **Lost claims and retries.** Execution and rollback are claimed with
   conditional `UPDATE`s, and a request that loses one re-reads and may go on.
3. **Death in the middle.** The claim is committed before the adapter is called
   and the outcome after it: a process that stops in between leaves a claimed
   attempt that somebody must be able to reconcile.
4. **Cancellation against execution** of a linked action.
5. **Idempotency records** that are visible before the work they stand for.
6. **Reads before the write lock** (revisions, the graph, `max(sequence)`) and
   writes after it: every check has to hold again when the lock is there.
7. **Lost answers**: a retry of what was done must not do it again, and must
   not tell the user that what failed was done.
8. **Old screens**: a command on rows that somebody edited since they were
   loaded, an answer that arrives after a newer one, a tenant switched meanwhile.
9. **Cancelled owners**: a coroutine that is cancelled while others wait for
   its result.

`PROJECT.json` lists each such place with its line under `hazards`.

## 2. Modules

| Module | Models | State and actions |
|---|---|---|
| `ActionStatuses` | `operational_actions/domain.py` and the status sets the handlers branch on | constants only: `ALLOWED_TRANSITIONS`, `Previewable`, `RetrySource`, `CancelBlocking`, … |
| `OperationalActions` | one action, its attempts, its window and its device, with any number of requests in flight (`service.py`, `cancel_maintenance_window`) | see 2.1 |
| `ActionLifecycle` | abstract: the status follows the transition table | one variable, `status` |
| `AttemptLedger` | abstract: attempt identities are used once, attempts move forward, one execution, a window closes only when nothing is open | `ledger`, `open` |
| `AtomicCommands` | abstract: a command id is begun once, then carried out in one step, checks and all, or dropped for good | `outcome`, `log`, `tasks`, `edges`, `plan` |
| `ReviewedStore` | abstract: an operation is reviewed, carried out once on rows still as reviewed, taken back once from rows still as it left them; others edit beside it | `saved`, `operation` |
| `MCOperationalActions` | symmetry of requests and attempts for TLC | |
| `PV1Commands` | commands on one PV1 project and the Timeline that sends them | see 2.2 |
| `SchedulePreview` | extends `PV1Commands` by the previews, their cache and their coordination | see 2.2 |
| `MCSchedulePreview` | the workloads of its runs | |
| `ActionCreation` | the two planning forms, the handlers that create windows and actions, other users | see 2.3 |
| `BulkWorkflow` | one tab's bulk commands, its tenant, the guarded handler, other users' edits | see 2.4 |
| `SavedViews` | tabs that list, save and migrate views | see 2.5 |
| `Screens`, `MCScreens` | the last three side by side | `screen`: the one that is open |
| `AttemptLedger_proofs`, `OperationalActions_proofs`, `PV1Commands_proofs`, `SchedulePreview_proofs`, `ActionCreation_proofs`, `BulkWorkflow_proofs`, `SavedViews_proofs`, `Screens_proofs` | theorems (section 4) | |

`OperationalActions` implements `AttemptLedger` under `ledger <- attempts`,
`open <- window.state = "active"`, and `ActionLifecycle` under
`status <- row.status`. `PV1Commands` implements `AtomicCommands`: `log` is the ids in
the event log, and the outcome of an id is read off its record and the requests
that carry it (`Outcome`). `BulkWorkflow` implements `ReviewedStore`: an operation is the
preview (or row check) that was answered, its receipt, and the mark of its undo
(`OperationOf`). `Screens` implements the specifications of its three
parts with the identity mapping.

### 2.1 `OperationalActions` and the code

*Database.* `row` is the committed `operational_actions` row, `attempts` the
attempt rows, `window` and `target` the linked window and the device, `issued`
and `lapsed` the preview tokens handed out and those past
`preview_expires_at`. *Requests.* `req[r]` is a slot for a request: its operation,
where it stands, its session's copy `row`, and what it has read of the target.
`calls` and `confirmedFacts` only observe: adapter invocations for each attempt,
and the facts that a confirmation has covered.

Atomicity follows SQLite under the driver's legacy transaction control. A
`SELECT` outside a write transaction sees the latest commit and holds nothing.
The first `INSERT`/`UPDATE` takes the single write lock, kept until the commit,
so everything from there to the commit is one step. Hence:

* `Load*` is `_get_action` and the checks on the copy that follow without a
  write; a request that fails them returns an error and changes nothing, so
  only those that pass are admitted.
* With a window (`Linked`), `locked_window` issues an `UPDATE` first: the checks
  of window and target and the commit are **one step** (`Preview`, `Authorize`,
  `Confirm`, `Execute`). Without one, reading the targets is a step of its own
  (`Snapshot`) and everything may change before the write.
* `Execute` is the conditional `UPDATE … WHERE status='CONFIRMED' AND
  execution_attempt_id IS NULL` with the attempt row and event of the same
  transaction; `Invoke` the refresh and the adapter call; `RecordExecution` the
  commit of its outcome.
* `request_or_execute_rollback` is a chain of three conditional blocks and the
  adapter call: `RequestRetry` (lines 1099–1174), `ClaimFirst` (1179–1268),
  `ClaimRequested` (1270–1341), `InvokeRollback` (1343–1366),
  `RecordRollback`. Between them a `db.refresh` (`Refresh`, `Reread`) copies the
  row again. `held` says that the identity map still holds the attempt this
  session wrote, whose status it does not read again.
* `FlushFacts` is the ORM's flush: it writes the columns that differ **from what
  this session loaded**, and leaves the others as they are committed now. The
  facts columns are JSON documents the code only tests for emptiness: they
  are booleans, and `refilled` names those that stay filled but with other
  contents, which are written as well.
* `MarkStale` is `_mark_stale`, committed before the error is raised.
* `Abort` is every way a request may die between two steps: cancellation by a
  disconnect, `database is locked`, a unique violation of the event sequence
  (`_append_event` reads `max(sequence)+1` and inserts it later), the end of the
  process. `Return` and `Reject` model `get_db`'s rollback and close.
* `CancelWindow`, `RenameWindowStatus`, `EditTarget`, `Lapse` are the rest of the
  system and the clock.

Abstractions: one target and at most one window; `bound` stands for
`precondition_snapshot`, `target_set_hash` and the target rows, as one column
(a preview computes them together); revisions of window and target only grow (their `updated_at` has a
resolution of one second: two edits within a second are not told apart by the
code, and are one edit here). The token a client presents is the one its
session has loaded — one that differs is an early 409. The progress commits of an
adapter touch no modelled column. A renamed window status is never a cancelled one.
Purging a device row, and deleting a window (refused while an action links to it),
are outside this module. `CREATED` is where a behaviour starts; `create_action`
and the deletion of windows are in `ActionCreation`.

### 2.2 `PV1Commands`, `SchedulePreview` and the code

`project` is the `pv1_projects` row with the two revisions that commands compare,
`tasks`, `edges` and `plan` the tasks, the active dependencies and the records
that the stored dates were last calculated from, `records` the idempotency keys,
`events` the event log in commit order. `req[r]` is the coroutine of a request,
`client[k]` the screen's side of a command id, `offers` the previews a user can
apply. A request goes through the stages of the code:

* `Lookup`, `Reserve` — `_idempotency_start`. The `INSERT` of the pending record is
  in a savepoint that opens the transaction, so its release **commits** it, before
  anything the command does. A second request finds it and is answered from
  it (`Replay`), whatever its status.
* `Load` — the project and the expected revisions of the body (`Expected`); `Inspect`
  and `InspectEdges` — the `SELECT`s before the write lock: the tasks of a link,
  the cycle check, the preview an apply calculates again; for `focus.pin` also
  `max(sequence)`.
* `Write` — from the conditional `UPDATE` to the `COMMIT`, under the lock: `Matches` is
  its `WHERE`, `MustMatch` whether the code looks at the number of rows
  (an import does not), `EventSequence` the number of the event, and a collision on
  the unique index rolls everything back but the record.
* `Crash` — the worker stops or the request is cancelled.
* `Send`, `Retry`, `Receive`, `LoseResponse`, `Recheck` — `sendCommand` and `applyPreview` of
  `client/components/ProjectsTimeline.tsx`.

Five kinds of command are there because they differ in what they compare and
read: `project.update_details`, `dependency.create`, `task.import`, `schedule.apply`,
`focus.pin`. The others follow one of these with other fields. The calculation
is a function of the records it reads, so the records stand for its result and for
the hash in the signed token.

`SchedulePreview` adds `preview[p]`, the coroutine of a preview; `cache`, the
`OrderedDict` with its keys in order of use; `coordination`, the dict of objects in
use; and `lock[p]`, the object that preview `p` made: its lock's holder, the line of
waiters (`asyncio.Lock` wakes them in order) and `users`. The steps end at the
awaits: `LoadProject`, `TryCache` (the first look at the cache, joining the
coordination), `Wake` (second look), `ReadTasks`, `Calculate`, and `Cancel` anywhere. `Leave`
is the `finally` clause.

### 2.3 `ActionCreation` and the code

`form` is the state of `MaintenanceWindowForm.tsx` and `MaintenancePlan.tsx`: editing,
busy, uncertain (after a 5xx or a failed connection, when only "Recover using
the same request" is offered) or saved. `Submit` makes a key, `Recover` repeats key
and body, `Answered` and `Disconnected` end the wait. `call[c]` is a request in the
handler: `LookupKey` (replay), `CheckAsset`, `InsertPlan`/`InsertWindow` — from the first
write to the commit, with the window's preconditions and the unique index — and
`LookupAgain` after an `IntegrityError`. `Breaks` is a death. Other users archive the
asset, cancel windows (`Cancelled`) and delete them (`Deleted`, refused while a plan
links to one; the foreign key would set the link to NULL). Row ids are the
largest plus one, so that a deleted window's id comes back: `PlanKeepsWindow` speaks
of ids, as the foreign key does, and a plan's window cannot be deleted while the
plan is there. One body per key:
the comparison of request hashes always agrees and is left out.

### 2.4 `BulkWorkflow` and the code

`post[p]` is a POST of the tab: a preview, a command, the check that a row command
makes first, or an undo; a preview's number is the operation id the client draws
for it. `dialog` has the preview generation, the accepted preview and the shown
one; `revert` the undo that is offered; `grid` the revisions on screen. `tab` is the
tenant and the switch (`SwitchAllowed` reads the write counters of
`tenantContext.ts`, `CanPost` is `beginScopedWrite`). On the server `saved` are the edit
revisions and `receipts` the `ServiceBulkReceipt` rows; `ServePreview`, `ServeExecute` and
`ServeUndo` each take the write lock first (`_reserve_writer`) and are one step.
`Disconnect` and `Reload` forget a request that the handler may still serve. `seen`,
`reviewed` and `before` only observe.
A revision is the number of the write that made it, because the code draws
a fresh token for each. Commands that find rows changed already are left out.

### 2.5 `SavedViews` and the code

`marker` and `stored` are the browser's storage, `rows` the server's views, `list[t]` a
tab's local views with its newest hydration. A hydration is asked for when a
tab is loaded (`Load`) and when the preferences arrive (`PreferencesArrive`); its listing
is served and arrives in any order (`ServeList`, `ListArrives`); the newest one of its
tab may find the marker empty, write "pending" and create the local views one
after another (`PostNext`, `ServeCreate`, `CreateArrives`). Every request may be lost
before or after it is served. `AskSave` to `SaveFails` are views saved by hand: a new
view joins the list, while an update of a local view, perhaps under another name,
replaces that view (`from`) if it is still there; when the connection fails the same
happens with a local view. A request that is over is forgotten, except for the views a
hydration sent (`sent` observes). `DropLocal` and `RowDeleted` are what other tabs and
browsers do.

`Starts` reads the marker and writes it in one step. In one tab this is so: nothing is
awaited in between (`CollaborativeWorkspaceViews.ts:308-319`). That no other tab writes in
that moment is an assumption about browsers, whose storage offers no lock; what
`MovedAtMostOnce` says about two tabs rests on it.

`Screens` composes 2.3 to 2.5, as the routes of `App.tsx` do (the views stand on the
services page and three others). They share no record, so a behaviour is that of one
screen while the others keep still; nothing is lost, since an interleaving of
independent parts shows each of them the same states.

## 3. Runs

Every run uses TLC's breadth-first search to the end. `CHECK_DEADLOCK FALSE`
everywhere: clients may stop calling, and tokens, edits and identities run out
at the bounds.

| Run | Instance | Question, and answer |
|---|---|---|
| `concurrent` | 2 requests, 2 attempts, linked, every operation but verify, deaths | Do two requests of any kind, a cancellation and deaths anywhere keep `OneExecution`, `CancelledIsQuiescent`, the inductive invariant `AttemptsOwned`, and `AttemptLedger`? **Yes** (1.2 million states). `verify` only moves SUCCEEDED to statuses the rollback treats alike; it is in `settle` and `sequential` (and in the violation runs `stranded` and `window_held`). |
| `planning` | 2 requests, 1 attempt, linked, high risk, 2 previews, 1 edit each of window and device | Is a claim always taken on what its own preview was bound to (`ClaimsOnBoundFacts`), while edits and re-previews race? **Yes**, because the window's lock spans check and claim. |
| `settle` | 1 request, no window, high risk, no deaths, fairness | Does every claimed attempt get an outcome (`ClaimsSettle`); is nothing high-risk executed without its facts (`ExecutesApproved`)? **Yes.** |
| `sequential` | 1 request at a time, 3 attempts, deaths, 2 previews, edits | With requests one after another, each of which may die halfway: rollback adapter once per attempt, abandoned attempts reconcilable, status by the table, only confirmed facts executed; and the inductive invariant of the serial theorems, `SerialSound`. **Yes.** |
| `rollback_twice` | 2 requests, 3 attempts | Is the rollback adapter called once per attempt when requests overlap? **No**: a retry and a second request both call it. |
| `unconfirmed_facts` | 2 requests, 1 attempt, 2 previews, 1 edit | Does an action execute only on facts somebody confirmed? **No**: a preview that overlaps a confirmation replaces the binding and leaves `CONFIRMED`. |
| `stranded` | 2 requests, 2 attempts, no deaths | Can every abandoned attempt be reconciled? **No**: a late authorization overwrites `EXECUTING`. |
| `commands` | 8 workloads (below) | Does every PV1 command keep its promises among racing, retried and abandoned ones, beside previews that share a calculation? **Yes** (255 046 states): they implement `AtomicCommands`; one effect per id, events numbered without gaps, no cycle, an apply writes what was reviewed, one calculation per key, a bounded cache, no object left behind, every waiting preview answered. |
| `command_replay` | an apply and its retry | Is what the Timeline reports as applied applied? **No**: a record left pending is answered 200 with `{}`. |
| `stale_preview` | an import, an edit, a preview | Is a cached preview calculated from the current tasks? **No**: an import whose `UPDATE` matched nothing commits its tasks under unchanged revisions. |
| `screens` | 2 tenants, 2 rows, 3 POSTs, 1 edit; 3 calls, 2 windows; 2 tabs, 2 views, 2 hydrations, 1 save | Do the three screens keep what they tell their users, over a connection that fails, and do bulk commands implement `ReviewedStore`? **Yes** (2.4 million states). |
| `window_held` | 1 request, 2 attempts, deaths | Can the window be cancelled after recovery was recorded? **No**: nothing moves an attempt out of `OUTCOME_UNKNOWN`. |

*Bounds.* `Requests`: two, because each conflict in this code is between the
request that loaded a row and one that has committed since; a third only repeats
the second's part. `AttemptIds`: one execution and one rollback (`concurrent`),
plus a retry (`sequential`, `rollback_twice`). `MaxPreviews = 2`: a binding and
its replacement. `MaxEdits = 1`: bound facts and changed facts; in `concurrent`
it is 0, since `planning` covers edits and `TypeOK`, ownership and the ledger do not
depend on them — the theorems hold for every value of all these constants.
Symmetry permutes requests and attempt identities, which no definition tells
apart; the run with a liveness property does not use it.

`commands` explores every order of a list of *workloads*, since all kinds at once
would be mostly unrelated interleavings. Each workload has the requests that can
meet: two links that close a cycle together; a pin against an edit and against
another pin (the two ways to collide on a sequence); one command with two
retries; an apply against a link, and an apply with two retries; an import, an
edit and an apply; three previews with an edit between them, so that there are
two cache keys, an owner, a waiter, a late arrival, and with `MaxCached = 1` an
eviction; `PreviewCacheBounded` is proved for every limit. Responses get lost and
workers stop, except in the workload with three kinds, whose interest is the
order of writes.

`screens`: three POSTs are a preview, its command and a repetition, an undo, or a
second preview; one edit is enough to make a review stale; two hydrations are two
tabs or two loads of one; three calls are a form's request, its retry and
the other form; two windows let an id come back. The theorems hold for all
values. Symmetry permutes tenants, tabs and names, which nothing tells apart (not
the rows: the selections treat them differently).

*Fairness.* `FairSpec` adds `WF_vars(Proceed(r))`: the event loop resumes a
coroutine whose awaited call has returned, and `settle` has `Faults = FALSE`,
so no request is killed. No fairness is assumed of clients, edits or the clock.
`ClaimsSettle` needs exactly this: with deaths, an attempt waits for an operator
to reconcile it, which no scheduler enforces.
`SchedulePreview!Fairness` is weak fairness of the server's side of each request
(`Serve(r)`) and of each preview (`Step(p)`), for the same reason; nothing makes a user
send, retry or leave, or a worker fail. `PreviewAnswered` then says that a waiter is
not forgotten when the owner of its calculation is cancelled: the lock passes to
the first in line, which looks at the cache and calculates itself. The other
modules state no fairness, for the client has no timers of its own.

*Further observations* made on the way; the first three show up when the named
constant of the run that checks the property is changed:

* With two requests, `ImplementsLifecycle` fails: `_transition` checks the copy
  and the flush does not compare the committed status, so `CONFIRMED ->
  AUTHORIZED` or `EXECUTING -> AUTHORIZED` can be committed (this is what strands
  an attempt in `stranded`).
* With two requests and `HighRisk`, `ExecutesApproved` fails: an authorization
  that repeats the facts it loaded does not write these columns again after a
  concurrent `_mark_stale` has emptied them.
* Without a window, `ClaimsOnBoundFacts` fails: the device may change between
  `_target_snapshots` and the claim, whose `WHERE` does not mention it.
* A rollback request with `execute=false` on an action in `ROLLBACK_REQUESTED`
  performs the rollback: the third block (`service.py:1270`) does not look at
  the flag.

*Findings of the client and PV1 runs.* `command_replay`: `_idempotency_start`
(`pv1/domain.py:1287`) answers a known key without a look at its status, so a retry
of a command that failed after its record was committed succeeds with an empty
body, and `ProjectsTimeline.tsx:129` reports "Schedule applied atomically."
`StrandedForGood`, which holds, is the other side: that id can never be carried out
again. `stale_preview`: `import_tasks` does not look at the row count of its `UPDATE`
(`pv1/domain.py:3061`), against the comment at line 38 that the revisions in the key
make any task change a cache miss.

## 4. Proofs

`OperationalActions_proofs` proves, for every set of requests and identities and
every value of the other constants (under `ConstantsAssumption`: the flags are
Booleans, the bounds naturals, `None` is neither an identity nor a phase):

| Theorem | Statement |
|---|---|
| `TypeCorrect` | `Spec => []TypeOK` |
| `Ownership` | `Spec => []AttemptsOwned` |
| `ExecutedOnce` | `Spec => []OneExecution` |
| `CancelledStaysQuiescent` | `Spec => []CancelledIsQuiescent` |
| `LedgerImplemented` | `Spec => ImplementsLedger` (the refinement) |
| `ClaimsAreBound` | `Linked => (Spec => ClaimsOnBoundFacts)` |

and `AttemptLedger_proofs!LedgerIsSafe` derives at-most-one execution and
quiescence of closed windows from the ledger's rules alone.

*The argument.* `OneExecution` is not inductive: that the claim finds no earlier
execution needs that **the row's `execution_attempt_id` names every execution
attempt there is**, in spite of all the flushes of stale copies. `AttemptsOwned`
says so, part by part: an attempt row is absent and never called, or a
rollback, or *the* execution the row points at (`AttemptRowsSound`); the row and
every session's stale copy point at rollback attempts that exist
(`RowPointersSound`); at most one request is between claim and outcome of an
execution, it owns the attempt, and has not called the adapter before `Invoke`
(`ExecutorsOwn`); a rollback request that will record an outcome names a rollback
attempt (`RollbackRequestsSound`); a cancelled window has only completed
executions (`ClosedWindowSound`).

Most steps leave the attempts alone: lemma `QuietKeeps` treats them at once,
using that a flush writes neither pointer (`FlushKeeps`) and never a status
that makes a claim about the rollback pointer (`Rollbackish`). `RollbackKeeps`
treats the insertion and the claim of rollback attempts, `SettleKeeps` the
recording of outcomes, `ExecuteOwned` and `InvokeOwned` the execution itself.
`EnvironmentOwned` has the cancellation: every attempt it sees is settled, and
the invariant makes a settled execution `COMPLETED`. The refinement then maps
`Execute` to `ClaimExecution`, which is enabled because the claim requires a NULL
pointer and an active window, and every other step to its counterpart or a
stutter.

**Requests one at a time.** Five promises of the action service are broken when
two requests overlap, and the violation runs and observations of section 3 show
how. What they need is proved instead as a hypothesis: `OneInFlight` says that
at most one request slot is busy. It admits any number of slots and requests, one
after another, each of which may die between any two of its steps and leave
its half-done work to the next, beside edits, expiry and cancellations at any
time. For all values of the constants:

| Theorem | Statement |
|---|---|
| `SerialStaysSound` | `Spec /\ []OneInFlight => []SerialSound` |
| `RolledBackOnce` | … `=> []OneRollbackPerAttempt` |
| `AbandonedIsReconcilable` | … `=> []AbandonedCanBeReconciled` |
| `LifecycleImplemented` | … `=> ImplementsLifecycle` (the refinement) |
| `ConfirmedIsExecuted` | … `=> ExecutesConfirmedFacts` |
| `ApprovedIsExecuted` | … `=> ExecutesApproved` |

The inductive invariant is `SerialSound` with `AttemptsOwned` and `TypeOK`. It says what the
code takes for granted: a request decides on a copy equal to the committed row, whose
status is one its operation was admitted in (`Fits`); a row that claims an attempt
names it and its attempt row is claimed (`ClaimedIsCurrent`), so that whoever comes
after a death can reconcile it; an attempt that was requested and not claimed was
never called (`RequestedIsUncalled`), which makes a retry safe; and a confirmed row
was confirmed as it is (`ConfirmedIsCovered`). The last three are not inductive
without the first, since a flush of an older copy breaks each of them: this is
exactly what the overlapping runs do.

### 4.1 PV1 commands and previews

`SchedulePreview_proofs` proves of `SchedulePreview`'s `Spec` (so of `PV1Commands` beside
previews), for all sets of keys, tasks, workloads and bounds under `PV1Assumption`
(the workloads have their shape, the imported tasks are finitely many, `None` is no
record) and `PreviewAssumption` (the cache holds at least one entry):

| Theorem | Property |
|---|---|
| `PreviewTypes` | `PreviewTypeOK` |
| `CommandsTakeEffectOnce` | `OneEffectPerCommand` |
| `LogIsNumbered` | `EventsNumbered` |
| `GraphStaysAcyclic` | `GraphAcyclic` |
| `AppliesAreReviewed` | `ReviewedIsApplied` |
| `StrandedCommandsStay` | `StrandedForGood` |
| `CommandsAreAtomic` | `ImplementsAtomicCommands` (the refinement) |
| `OneCalculates` | `PreviewSingleFlight` |
| `CacheStaysBounded` | `PreviewCacheBounded` |
| `ObjectsAreFreed` | `CoordinationFreed` |

*The argument for commands* (`PV1Commands_proofs`, `CommandsInv`). One effect per id
needs more than the unique record: **a request between its record and its write
carries a record that is pending and that no other request carries**
(`CarriersOK`, `RequestsOK`), so its commit is the first with this id. The graph
stays acyclic although the check reads it before the lock, because a revision that
was loaded is never ahead of the project's, every change of the graph raises it, and
**a check that was passed speaks of the current graph as long as the revisions
still match**; the `UPDATE` under the lock tests just that. `LogOK` says the log is
numbered and that an apply wrote what its token holds.

*The refinement of `AtomicCommands`* maps the record's `INSERT` to `Begin`, a failed check,
a collision or the death of the last carrier to `Drop`, the write to `CarryOut`, and
everything else to a stutter. `CarryOut` repeats the checks on the project of that moment,
so the write needs that they still hold: `RequestOK` keeps, for a request that loaded
the current revisions, that the tasks it read still exist, that its dependency is
still absent and closes no cycle, and that an apply read the present
dependencies. That a dropped id stays dropped, and that two requests never carry
one id, is `CarriersOK` again.

*The argument for previews* (`PreviewsInv`, `CacheInv`). `UsersOK` ties the counter `users`
of an object to the number (`Cardinality`) of previews that wait or calculate on it,
its line to the waiters and its holder to the one that calculates. So an object
with a holder has a user and is not removed when another leaves, a dict entry
always has a user, and two previews that calculate for one key have the same object
and hence are the same. Without the equality of counter and users none of these is
inductive: a counter one too low removes an object that is still held.

### 4.2 The screens

Each part has an inductive invariant and theorems of its own specification, under
the assumption named in its module: `CreationAssumption` (some window id),
`BulkAssumption` (selections are sets of rows; "none" is no tenant), `ViewsAssumption`
("none" is neither a tab nor a view).

| Theorem | Property | Invariant and why it is needed |
|---|---|---|
| `ActionCreation_proofs!KeysMakeOneRow` | `OneRowPerKey` | `CreationInv`: a call's key is inherited from the call that drew it, of the same form and window (`KeyIsInherited`), and a key with a row collides |
| `PlansKeepWindows` | `PlanKeepsWindow` | a plan is what its request asked for (`PlanOfItsRequest`), and its window exists, so that the foreign key never acts |
| `SavedFormsAreRecorded` | `SavedIsRecorded` | a call answered "created" has its plan (`CreatedIsRecorded`), and a form follows its call (`FormFollowsItsCall`) |
| `BulkWorkflow_proofs!EditsAreKept` | `NoEditLost` | `BulkInv`: a command in flight carries the revisions its user has seen (`PostsOK`), and a receipt was written from such a command (`ReceiptsOK`) |
| `WritesStay` | `WritesStayInTenant` | a POST in flight forbids the switch; a command has the scope of its preview |
| `DialogIsCurrent` | `LatestPreviewShown` | `DialogOK`: the generation is a preview of this tab, and the older one is shown only until its answer is handled |
| `UndoIsOwn` | `UndoTakesBackItsOwn` | a receipt is written once per operation, and only an undo that finds its rows untouched marks it |
| `RefusalsAreTrue` | `RefusalIsTrue` | `RefusalInv`: a revision that was replaced never comes back (`RevisionsAreSpent`), so that what is refused as stale stays stale |
| `RowsAreReviewed` | `ImplementsReviewedStore` (the refinement) | `OperationsInv`: the receipt and the undo of an operation are for the rows of its own request, and its writer is spent (`OperationsOK`) |
| `SavedViews_proofs!ViewsMoveOnce` | `MovedAtMostOnce` | `ViewsInv`: one hydration at most has sent anything, and then the marker is set (`OneMover`) |
| `ListingsGoForward` | `ListingsInOrder` | what a tab shows is not newer than what it asked for last (`InOrder`) |

In the refinement of `ReviewedStore` the answer to a preview is `Review`, a command that
changes rows `CarryOut`, an undo that changes rows `TakeBack`, another user's write
`Edit`; a repetition, a refusal and everything the tab does are stutters.
`RefusalInv` gives the fresh revision each write needs (`RevisionsAreSpent`) and that a
command repeats its review (`CommandsAreReviewed`); how a request can change at all
is one lemma, `StepAdvances`.

`Screens_proofs!ScreensImplementTheirParts` shows that a behaviour of `Screens` is one
of `CreationSpec`, `BulkSpec` and `ViewsSpec`; `ScreensTypes`, `ScreensPlanMaintenance`,
`ScreensRunBulkCommands` and `ScreensKeepViews` draw the component theorems down to
the composition, which is what the run `screens` checks.

### 4.3 Only model-checked

`ClaimsSettle` and `PreviewAnswered` are liveness properties, beyond this prover: they
need ENABLED and a scheduler's fairness. Every other property of a passing run is
stated by a theorem; the violated ones are, of course, only refuted.

## 5. What each mutant shows

Each checked property is paired with a plausible fault in a definition of the
model (operators marked "Seeded fault"): a claim that matches on the status alone
breaks `OneExecution` and `AttemptsOwned`; a cancellation that takes an unknown
outcome for a resolved one breaks `CancelledIsQuiescent`; a rollback claim that
ignores the status breaks the ledger; a freshness check that forgets the window
breaks `ClaimsOnBoundFacts`, and one that forgets the target
`ExecutesConfirmedFacts`. An `UPDATE` that names only the project lets two links
close a cycle; a lock that is not released by a cancelled owner leaves a preview
waiting; a marker written after the creates moves views twice; a switch that waits
for no raw write sends a command to the other tenant; an `UPDATE` without the
revisions when an apply is written (`MatchesUnlessApply`) lets its dates come from
dependencies of the past; an undo that puts the old revisions back
(`WrittenWithRevisions`) makes a revision return; an adapter call on an attempt the
session has not read again (`InvokeUnrefreshed`) breaks `SerialSound`; and so on. `PROJECT.json` has the list.

## 6. Plan

Done: the action lifecycle (2.1), PV1 commands and previews (2.2), the creation of
windows and plans (2.3), bulk commands (2.4), saved views (2.5), their composition;
the refinements of the four abstract specifications, checked and proved; a theorem
for every safety property of a passing run.

Still to prove: of overlapping requests, that a rollback attempt that is only
requested was never called (the part of `SerialSound` that needs no serial
requests), and which lifecycle steps remain legal without `OneInFlight`.

Next to model, in this order:

1. **`ScheduleEngine`**: the forward and backward pass of `pv1/schedule.py` as functions
   on bounded graphs, checked against the defining inequalities. Recursive, hence
   only for TLC.
2. **`DataGuard`** (`src/scripts/production_data_guard.py`): backup, swap and restore with a
   crash between any two of them.
3. **`ArchitectureCommands`**: the drafts and relations of `architecture/`. Its
   idempotency record opens the transaction in a savepoint like that of PV1, but
   `_command_start` does look at the status: a retry of what failed is told that the
   command is still being processed.
4. **Asset import and bulk** (`api/asset_import.py`, `api/asset_commands.py`): the same
   guarded protocol as 2.4 over rows with references.
5. **Composition** of `ActionCreation` with `OperationalActions` around one window.

## 7. Not modelled

* **Grids, forms, charts and canvases of the client** (`client/components/Racks.tsx`,
  `NetworkReal.tsx`, `AssetReal.tsx`, `External.tsx`, `Settings.tsx`, `MonitoringGrid.tsx`,
  `Knowledge.tsx` and their like, most of the TypeScript). They render rows, hold form
  fields and filters, and send one request per save: there is no state that two
  actors race for, and a model would transcribe layout. That is why only a small
  share of the client's lines stands behind a definition; the parts that hold a
  protocol (retries, previews, receipts, migration, tenant switch) are the ones
  modelled. `apiClient.ts`' caching of `GET`s and `bootstrapCache.ts` are not.
* **CRUD and read models** (`api/far.py`, `api/rca.py`, `api/vendors.py`, `api/dashboard.py`,
  `api/intelligence.py`, most of `api/devices.py`, `api/settings.py`, `api/monitoring.py`): one
  transaction per request over one table.
* **PV1 communication, outcomes and migration**: the publishing of snapshots and a
  start-up migration; the other PV1 command types go through the protocol of 2.2.
* **Schedule calculation**: a pure function, taken as one (see the plan).
* **Rate limiter** (`observability.py`): one counter in a single thread with no await.
* **Authorization**: stateless checks in front of each handler.
* **Adapters' simulated outcomes**, logging, formatting, parsing of imports.

`PROJECT.json` names each component with its status and reason.
