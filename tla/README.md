# PatchWatch: a TLA+ model of the refresh pipeline

PatchWatch scrapes Microsoft's release pages, stores what it finds in PostgreSQL,
shows it on a dashboard and notifies about what is new. This directory holds TLA+
modules that model its core, TLC configurations that check them on small instances,
and proofs, checked by TLAPS, that some of the properties hold for every instance.

Paths like `refresh_service.py:381` are relative to `src/app` unless they start with
`src/`, `app/` or `README`. "The README" in quotes is the repository's own.

## 1. Inventory

### 1.1 Components

**Refresh pipeline** (`refresh_service.py`, `fetchers/base.py`, `fetchers/registry.py`).
State: the tables `products`, `patches`, `fetch_runs`, `fetch_run_sources`; the globals
`_refresh_lock` and `_last_run_started_at`; the locals of a run. One coroutine,
`run_all_fetchers`, walks the fetchers in order. For each: fetch, upsert the products,
upsert each patch with one to three SQL statements, commit. After the last: apply the KB
hints, commit, write the run's outcome, send the notifications. Correct when no release
is stored or announced twice, a human's corrections survive, rows follow their source,
notifications match what was stored, and no failure of one source spoils the others.

**Admin editing** (`routers/admin.py`). State: rows of `patches`, with `manually_edited`.
Operations: create, edit (a SELECT, then an UPDATE of the changed columns), delete, and
"refresh now". They run on the same event loop and interleave with a refresh at every
`await`. Correct when what the operator decided is not undone.

**Notifier** (`notifier.py`). No state of its own. Called at the end of a run, with the
notices the run collected or with its errors.

**Refresh triggers** (`maybe_trigger_refresh`, `scheduler.py`, `main.py`, `POST /refresh`).
State: the asyncio lock with its waiters, the time of the last start, the tasks and
the loop's ready queue. Correct when refreshes never overlap, an accepted one runs, and page
views do not start one each.

**HTTP transport** (`fetchers/http_transport.py`). State: for each throttled host a lock
and the time of the last start; for each request an attempt counter. Correct when the
throttled host is hit by one request at a time, with a gap, and each request is sent a
bounded number of times and ends.

**Fetchers** (`fetchers/windows_release_health.py`, `msrc.py`, `dotnet.py`, `sql_server.py`,
in the order of `registry.py`). State: the `FetchResult` under construction and the locals of
the page being read. Two walk pages element by element; `msrc.py` (`_discover_os_bundles`)
and `dotnet.py` (`_handle_channel`) also run tasks concurrently that share the result.
Correct when every row is credited to its product, nothing that was read is lost or
doubled, and what could not be read is reported as an error while the rest is kept.

**Dashboard** (`routers/web.py`, `static/js/app.js`, templates, htmx). Server: read-only
queries. Browser: the hidden products in localStorage, the filter, open history panels,
requests in flight. The page polls the status every 20 seconds and reloads its tables,
replacing every row, when a response says that no refresh is running. Correct when new rows show up
and what the user did to the rows survives.

**Reads** (`_load_dashboard_data`, `product_history`, `_build_export_data`, `routers/api.py`).
Several SELECTs in one session, while others commit. Correct when the parts of one answer
agree, a panel has what its page displays, and a download leaves out what its exclusions say
and nothing else.

**Presentation helpers** (`product_sort.py`, `i18n.py`, `static_version.py`): pure functions.

**Database set-up, configuration** (`database.py`, `config.py`): settings and `create_all`.

### 1.2 Interactions

    page / operator / scheduler / startup --(task)--> run_all_fetchers --(calls)--> fetchers
      RefreshTriggers                                  RefreshPipeline              SourceLoop
                                                            |                           |
                          operator --(rows)--> patches <----+           RetryingTransport (HttpTransport)
                                                |  |        +--> notifier
                          page <--(polls)-------+  +--(SELECTs)--> page, history, download
                        Dashboard                                    DashboardReader

The pipeline gets fetch results by return value; the operator and the pipeline share the
`patches` table; the triggers and the pipeline share the lock; the page sees the pipeline
through the last `fetch_runs` row, the lock and the tables.

### 1.3 What is hard here

* *Interleaving with the operator*: a refresh's transaction and the operator's requests
  alternate statement by statement under READ COMMITTED.
* *Commit granularity*: each source commits alone, the notices are kept in memory until
  the end, and an exception out of an upsert is not caught.
* *asyncio.Lock*: between a release and the resumption of the woken waiter the lock is free.
* *Shared results*: the tasks of `msrc.py` and `dotnet.py` finish in any order and fail one by one.
* *State carried along a page*: the heading, label and end-of-support dates that a table
  is read with come from elements before it.
* *Several statements per answer*: under READ COMMITTED each sees another state.
* *Pacing under failure*: the host lock is held across retries and back-off sleeps.
* *A swap in the background* replaces rows whose state the browser and htmx hold.

`PROJECT.json` lists every hazard at its line, with the properties that cover it.

## 2. Modules

| module | models | composed with |
|---|---|---|
| `PatchTable` | the `patches` rows, their key, what each upsert and hint statement does to a row | |
| `ProductTable` | the `products` rows: the end of support, and `_upsert_product` | extends `PatchTable` |
| `PatchHistory` | what the table promises over time, abstractly: a refresh only extends and refreshes it, anything else is one human correction at a time | refined by `RefreshPipeline` |
| `RefreshPipeline` | `run_all_fetchers`, the notifications, and the operator's requests | extends `ProductTable`, instantiates `PatchHistory` |
| `DashboardReader` | the SELECTs behind a page, a history and a download | extends `RefreshPipeline`: they interleave with all of it |
| `RefreshTriggers` | the four triggers, the debounce, the event loop and the lock | assumes of a run that it ends (`EveryRunEnds`) |
| `HttpTransport` | concurrent requests, the host's lock, pacing, retries | |
| `FetchResults` | the result under construction and the walk over a page | used by the next three |
| `ReleaseHealthFetcher` | `fetch()` of `windows_release_health.py` | |
| `SqlServerFetcher` | `fetch()` of `sql_server.py` | |
| `DotNetFetcher` | `fetch()` of `dotnet.py` | |
| `MsrcFetcher` | `fetch()` of `msrc.py` | |
| `SourceLoop` | the four sources one after another, as `run_all_fetchers` awaits them | extends the four; assumes that requests end (`EveryRequestEnds`); results are what `RefreshPipeline`'s `Offers` stand for |
| `Dashboard` | one open page, htmx's request queues, and the refreshes as the page sees them | abstracts a run to its lock, its row and its commits |
| `MC*` | small instances for TLC | |
| `*Proofs` | theorems and their proofs (section 4) | |

### 2.1 RefreshPipeline, PatchTable and ProductTable

`pc` is the point `run_all_fetchers` has reached; `run` holds its locals; `patches`,
`products`, `runs`, `sources` are the committed tables, and `work`, `newProducts` what its
open transaction has written. An action is one SQL statement or commit:

| code | actions |
|---|---|
| the run's row, `is_first_run` | `StartRun` |
| `await fetcher.fetch()` | `FetchRaises`, `FetchReturns` (with the product upserts) |
| a patch whose product is unknown | `SkipUnknownProduct` |
| `_upsert_patch`, without a KB number | `SelectByBuild`, `InsertByBuild`, `RefreshByBuild` |
| `_upsert_patch`, with one | `InsertOnConflict`, `RefreshByKey` |
| `session.commit()` per source | `CommitSource` |
| `_apply_patch_kb_hints` | `SelectHintRows`, `ApplyHint`, `CommitHints` |
| outcome, notifications | `FinishRun`, `NotifyNewPatches`, `NotifyFetchErrors` |
| an exception, a kill | a step to `"aborted"` and `Unwind`; `Crash` |
| `admin_create_patch`, `admin_update_patch`, `admin_delete_patch` | `AdminCreate`, `AdminOpen` + `AdminStore`, `AdminDelete` |
| an edit and the refresh wait for each other, and PostgreSQL ends one of them | `DeadlockAborts`, `EditAborts` |

The database is PostgreSQL at READ COMMITTED: a statement sees the committed rows under the
transaction's own (`View`); a writer waits for the transaction that wrote the same row or the same
unique key (`KeyLocked`); a unique violation raises. An edit that gives its row a key which the
refresh holds has locked the row while it waits (`WaitsForTheRefresh`): if the refresh's next
statement needs that row (`NextRows`), neither can go on (`Deadlocked`), and either may be the one
that is aborted. A release's texts are one value (`info`), whose month is what a hint matches by. A
NULL key field is `Blank`, which is equal to itself because the code stores `""`. Fetch results are
elements of `Offers`, which follow what the four fetchers can return. A source's listing of a
product has a date of its end of support or not, and whether it has ended; `Upserted` keeps a known
date when a listing has none.

`CrashAt` names the points at which a process may be killed: a run needs no kill at every
point in every instance, and some properties are about runs that are not killed at one.

### 2.2 RefreshTriggers

`ready` is the loop's queue of callbacks. `Request` enqueues a handler, `MaybeTriggerRefresh`
runs it (the debounce test and `create_task`), `SchedulerDue` is the job, `StartTask` and
`WakeTask` are a task's first step and its resumption at `async with _refresh_lock`, `EndRun`
is the release, `WindowPasses` the end of the debounce window, `Restart` a new process. The
lock is CPython's: `acquire` takes the fast path only if the lock is free and every waiter is
cancelled, `release` wakes the first waiter, which stays in the queue until it resumes.

### 2.3 HttpTransport

Each request passes `HandleRequest`, and to the throttled host `AcquireLock`, `WaitTurn`;
then `Send`, and one of `Answered`, `PushedBack`, `TimedOut`, `Broken`, `Retry`, `ReadBody`.
Time is discrete: sleeps count down in `Tick`. The lock is released with the response's
headers, so a body may be read while the next request is out (`ReadBody`): the model follows
the code there, and `HostIsHitByOne` speaks of the time up to the headers.

### 2.4 The fetchers

`SourceLoop` runs the four in order; `NextSource` hands the result over and forgets the locals
(`Forgotten`), and records a `fetch()` that raised, which those of `dotnet.py` and `msrc.py` can
(`Malformed`, `ListRaises`). Documents, pages and articles are what the parsers and regular
expressions find in them; what may be found at each place is a set of the instance, chosen by `\E`
when the page is read. The lists of a `FetchResult` are sets: its entries differ by what they say,
and no property speaks of their order.

*ReleaseHealthFetcher.* A page is its `h2` headings, labels and tables in document order.
`OpenPage` or `PageFails`, then one step per element: `OpenSection` (an `h2`), `MeetLabel`
(kept for the next table), `SummaryTable` (the ends of support), `HistoryTable` (the product
and its rows), `OtherTable`; then `ClosePage`. What a summary table does to `eol_by_code` is
said at once: of each code it speaks of (`Speaking`), the last row's word (`Said`, `TableSays`)
replaces what was known (`KeepLast`). `scan` holds the locals of `_fetch_page`; `walked`, what
was met, is history for the properties.

*SqlServerFetcher.* A page per version; a heading names the track of the tables below it, a
malformed link breaks the page off in the middle (`BreaksOff`): `OpenVersion` or
`VersionFails`, then `MeetTrack`, `BuildTable`, `SkipTable`, and `CloseVersion`.

*DotNetFetcher.* The index (`ReadIndex`, `IndexFails`), then a task per channel behind a
semaphore (`AskChannel`, then `ChannelAnswers` or `ChannelFails`), named by its place in the index;
`waiting` and `asking` are the tasks that are not over, `answered` is the history of what the
others were answered. JSON of another shape raises out of `fetch()` (`Malformed`).

*MsrcFetcher.* `ListUpdates`, or `ListRaises` when the list has another shape (it is sorted outside the
`try`), then per update `ProcessMonth` or `MonthFails`, then the tasks of
`_discover_os_bundles`: `Request` (the semaphore), `ArticleRead` or `ArticleFails`; `met` is where
each KB number was met first, the order in which the semaphore serves the tasks in `queued`. A task
only awaits its response, so what it does with it is one step. A document is `broken` when an
entry makes `_process_month` raise; a listing is `broken` when its link cannot be joined to the URL.

### 2.5 DashboardReader

A visitor's request is a session of statements, each of which sees what is committed when it
starts: `OpenPage` (the products), `ReadLatest` (the newest row of each), `DeliverPage` (the
search words, and the answer); `OpenHistory`, `SendHistory` from a page he has; `OpenExport`,
`SendExport` with each scope and exclusion. Between any two of them the pipeline and the operator
take steps. One visitor comes at a time: requests only read, so two of them tell nothing that
one does not. `list_patches` of the JSON API sends what `SendHistory` does.

### 2.6 Dashboard

htmx 1.9.12 keeps, per element, one request out and the last one issued meanwhile (`Queue`). `net`
holds these for `#status-bar` (the polls), `#tables` (the reloads) and the body (everything
`htmx.ajax` issues: the status after "refresh now" and the histories of reopened panels). `dropped`
holds the panels whose request htmx threw away for a later one. `StatusReadsRun` and `StatusAnswers`
are the two reads of `status_partial`, the database and then the lock. `TablesArrive` is the swap
with the whole of `htmx:afterSwap`: visibility first, then `patchwatchReopenHistory`. The user
hides, shows, filters, opens panels and clicks "refresh now"; another tab of the browser hides or
shows a product (`OtherTab`), of which this page's rows and its list of hidden products (`listed`)
learn with their next refresh only.

## 3. Runs

`PROJECT.json` lists them with their properties. Every property of a passing run has a
mutant of the model that breaks it; the mutated forms stand before the definitions they
would replace, marked "Mutant".

| run | instance | what it asks |
|---|---|---|
| `builds` | a source that knows builds (fails, corrects a release, grows), one that knows KB numbers, ends of support and gives hints; 3 runs, killed anywhere; 1 request of an operator who leaves the sources' releases to them | no duplicate rows or announcements, no statement raises, pushes are durable, rows heal, ends of support stay known, the table implements `PatchHistory` |
| `admin` | 2 runs, 2 requests of the operator with 3 forms, one of which re-keys a row the refresh is about to need (a deadlock), a source that reports errors, hints | protected information survives, every run ends, one push per completed run with finds, alerts exactly on change |
| `readers` | 2 runs killed while they upsert, 2 requests of the operator, a page with its panels or a download between any statements | what a page shows can be searched for and is in its history, a download is complete, `PatchHistory` with a human correcting at any point |
| `triggers` | 3 requests, 1 job, 1 restart | exclusion, order, and that accepted refreshes run |
| `transport` | 3 requests, 2 throttled, 2 retries, interval 2, Retry-After past, near and too far | exclusion, gap, bounds, termination |
| `fetchers` | the four sources in order: 2 release health pages of up to 7 elements, 3 updates with 3 granular and 2 bundle KBs, 5 channels, lists and indexes that raise, 2 SQL Server versions of up to 4 elements | nothing read is lost, doubled or credited to another product; every source is reached, whichever raises |
| `page` | 2 products, 1 commit, 3 gestures of the user | reloads arrive, panels and hides survive |
| `hint_race`, `manual_entry`, `lost_push`, `debounce`, `reopen` | | the disagreements of section 5 |

*Bounds.* `MaxRuns`: most properties compare a run with the one before it, so two runs show every
step and three let a row be inserted, changed by a hint, and seen again. `MaxAdmin`: two requests
suffice for create-then-edit of the row a refresh is about to touch, and for the deletion of a row a
visitor was shown. Two builds, KB numbers and texts are enough for a collision and a non-collision.
`CrashAt`: `builds` lets a run be killed anywhere; `admin` anywhere before its outcome is committed,
since a kill between that commit and the notifications loses them (which is so, and which the
properties do not deny); `readers` while rows are uncommitted, which is where a kill changes what
others see. `readers` gives no hints: with them and an operator `PatchHistory` is false
(`hint_race`). `builds` restricts its operator as the theorems of section 4.1 do (`CarefulSpec`):
one request of his, that enters a release, or completes, corrects or protects a row while the
sources are at it, shows that he meets their conditions and still does something. `admin` and
`readers` do not restrict him. `triggers`: with three requests, a job and a startup task there are
always a holder, a woken waiter and a newcomer. `transport`: the third request is the one that is
not throttled. `fetchers`: a page has room for two summary tables that contradict each other, a
label, a table that is none, and a second section; two products share a version code; a channel each
is answered, empty, nameless, without a list and without a version, and two requests may be out, so
that the others wait. `page`: three gestures let a panel be opened, hidden and shown, or two be
opened and one filtered out, around any step of a run; two rows are one more than the body's queue
needs to be used. `reopen` has three rows, since the first and the last request of a burst are kept.

*Deadlock* is not checked where the bounded counters bring the system to a stop
(`CHECK_DEADLOCK FALSE`: the pipeline with its readers, triggers, transport and the loop
over the sources, which ends). The page polls for ever, so there it is checked.

*Fairness.* `RefreshPipeline`: weak fairness of the refresh's own steps, and of an edit
request's second statement; the event loop runs what is ready, requests time out (that is
`EveryRequestEnds`), and row locks are held by transactions that end. No fairness of the
operator or of crashes. `RefreshTriggers`: the loop's step, and that a run ends.
`HttpTransport`: time passes and each task that can run does; httpx's timeouts end each
attempt. `SourceLoop`: requests end, whatever their answer. `DashboardReader`: none, it makes no
promise of progress. `Dashboard`: runs end, the browser polls, and the status and tables requests are
answered; nothing is assumed of the user, of `htmx.ajax`'s requests or of the start of a run.

## 4. Theorems

TLC checks the instances above; the following hold for every value of the constants that
meets the modules' named assumptions (types of the sources' results, forms and settings).
Every safety property of the passing runs is among them.

### 4.1 The pipeline and its readers

* `PipelineInvariant`, `TypeInvariant`, `ManualInfoIsKept`, `SupportEndsStay`
  (`RefreshPipelineProofs`). That a refresh never changes what a protected row says is not
  inductive: the refresh commits rows it wrote some steps ago. `PipelineInv` adds what makes
  it so: a row in `work` whose committed version is protected agrees with it
  (`WorkKeepsManual`), which holds because the UPDATE tests the flag and the row stays locked
  after it; ids are fresh (`IdsAreFresh`), so an inserted row is no committed one; and the
  locals point at an item (`Positions`). One lemma per action; the sharp ones are
  `InsertKeeps`, `AdvanceKeeps` and `StoreKeeps`.
* *What the operator may do.* Nothing is asked of him in the theorems above. The next ones each name
  what they need, as an action that constrains his steps only (`RefreshPipeline`, before the
  properties), and are of the form `Spec /\ [][condition]_vars => ...`: `Considerate`
  (`HintsUndisturbed`): while hints are applied, each row that waits for one stays as it was
  selected, or is deleted. `Patient` (`FoundUndisturbed`): the row that a SELECT or a conflict has
  found stays the row of its release until it is updated. `KeepsReleases` (`ReleasesUndisturbed`):
  so does every row, at any time, and none is deleted. `KeepsBuilds` (`BuildsUndisturbed`): so does
  every row with a build, and he enters none, but may delete it. Under each he may still enter other
  rows, correct texts and links, and, but for the rows that wait for a hint, protect rows and fill
  in KB numbers that are missing. The fifth, `EditsKeepReleases` (`FormsKeepReleases`), is about the
  forms he opens: what each would write to its row is still about the row's release. `hint_race` and
  `manual_entry` show what happens without two of them. An instance without an operator meets all
  five, one without hints the first (`QuietInstances`).
* `HistoryIsKept` (`HistoryProofs`): the pipeline implements `PatchHistory`. Between two commits
  the rows are in `work`, so `HistoryInv` says that each is a refreshed version of its
  committed row or new (`WorkRefreshes`), and that keys are unique in the table and in
  the transaction's view (`KeysAreUnique`; an insert by the operator keeps the latter only
  because it waits for the transaction that holds the key). Refreshing is transitive
  (`RefreshedTransitive`), so several statements are one step of the history. *Assumes*
  `HintsUndisturbed`, which is what `HintsFit` needs to be kept: a hint is applied to a row
  selected before, and `hint_race` shows an operator who protects the row meanwhile, and so loses
  a correction.
* `ManualEditsAreKept` (`HistoryProofs`): under the same condition a refresh changes nothing of a
  protected row. So that race is the only way to break the promise that `hint_race` refutes.
* `SourcesAreReflected` (`HistoryProofs`): at its commit each release a source reported has a row
  that says what was reported, unless a human protects it or a later item of the same result is of
  that row, too. `Reflected` says it of the items walked so far, in the transaction's view. A writer
  of a row that the transaction has written waits for its commit, so the only gap is the one between
  the SELECT, or the conflict, that finds a row and its UPDATE. *Assumes* `FoundUndisturbed`.
* `BuildsHaveOneRow`, `RunsNeverAbort` (`HistoryProofs`): a release known by its build keeps one row
  when a hint gives it a KB number. `BuildsKnown` adds that a row with a build has the KB number
  reported with that build, or was found without one. So the SELECT by build finds one row at most,
  and a hint finds its key free (`NothingRaises`): no statement raises. `EditsInv` says of every
  open form that its row, if it is still there, still has the build it was opened with and would
  keep it. No other row has that build, so the UPDATE waits for no key that the refresh holds
  (`NoDeadlock`). *Assume* `HintsUndisturbed`, `BuildsUndisturbed` (what `manual_entry` breaks), the
  second `FormsKeepReleases`, and `BuildsHaveOneKB`: no source reports one build of a product with
  two KB numbers, which would be two keys.
* `PushesAreDurable`, `ReleasesAreAnnouncedOnce` (`NotificationProofs`): every notice, sent or
  only written down, has a row in the view (`Held`), and what a SELECT found missing is in no notice
  (`IsNews`: not "has no row", since the operator may enter one before the INSERT, which then
  conflicts), so no two notices are of one release (`NoticeInv`). A hint, or the operator, gives the
  row another key in between, which is why a notice is held by its build, too (`SameRelease`). *Assume*
  `HintsUndisturbed` and `ReleasesUndisturbed`: a row the operator deletes is found and announced
  again, and one he re-keys is no longer there.
* `FindsArePushed` (`NotificationProofs`): what a source found is announced. A source's count
  goes into the run's notices and from there into its outcome (`Counted`), so of a run that comes to
  its end the push follows by `CompletedRunsPush`; that it comes to its end is `RunNeverAborts`.
  *Assumes* what that does, and `NeverKilled`: `lost_push` is a run that does not.
* `AlertsAreExact`, `CompletedRunsArePushed` (`NotificationProofs`): each speaks of all runs once
  none is in progress; `OutcomeInv` says how far the last one is, and that nothing was sent of a
  run that has not started. *Assume* `NotKilledAtTheEnd`: no kill between the commit of the
  outcome and the notifications, which would lose them. Nothing is assumed of the operator.
* `SearchCoversThePage`, `PanelsHaveTheirRow`, `DownloadsAreComplete` (`DashboardReaderProofs`): a
  row that was read is in the table and still says what it said as long as the operator wrote
  nothing since (`Sightings`), because a commit of a refresh is a step of the history. The
  download selects its rows by products it has read before, so it needs that a row is never
  committed before its product (`ProductsAreStored`: `Known` is tested by one statement and
  used by a later one), and that of finitely many dated rows one is the newest
  (`OneIsNewest`). *Assume* `HintsUndisturbed`.

### 4.2 Triggers, transport and the page

* `LoopInvariant`, `OneRunAtATime` (`RefreshTriggersProofs`). The lock's flag alone does not
  imply exclusion: `LoopConsistent` says that a free lock with waiters has its first one
  woken, nobody else, and that tasks, waiters and ready callbacks name each other uniquely.
* `OrderInvariant`, `NobodyOvertakes` (`RefreshTriggersProofs`): tasks are numbered as they
  were asked for. `FirstInFirstOut` adds to `LoopConsistent` that of two tasks the older is
  at least as far (`Rank`), and that the loop's start callbacks and the lock's waiters
  stand in the order of their tasks; so everyone older than the task that takes the lock is over.
* `TransportInvariant`, `HostIsHitByOneAtATime`, `AttemptsStayBounded`, `TheGapIsKept`
  (`HttpTransportProofs`). `TransportInv`: whoever is at work on the host holds the lock, what is
  left of a sleep covers what is left of the gap, no sleep is longer than what grants it
  (`SleepsAreBounded`: the interval, the back-off, or a Retry-After, cut to 60 seconds), and the
  attempt counter is one behind the number of times the request went out from the moment it does.
* `PageInvariant`, `PanelsAreNeverStuck`, `SwapsKeepPanels`, `HidesStay` (`DashboardProofs`).
  `PageInv`: an open panel is remembered, so a swap puts it back; a button that has spent its
  "click once" has its history or a request for it, and a swap gives every row a fresh button; and an
  open panel has its history, or a request for it, or htmx has dropped that request. The code decides
  the first two; the last is the loss that `reopen` shows, and `NoPanelIsStuck` that there is no other.
  `HidesStay`: however two tabs change the set in turn, each step is of one product.
* `PageTypeInvariant`, `BurstKeepsItsEnds` (`DashboardProofs`): no element ever has more than one
  request out and one behind it. For the body that is a statement about a loop of the page's rows,
  a fold, which would take an induction over the rows. Instead `Asked` is written as a recursive
  function of the rows asked for so far, and the proofs take the first row at which the
  statement fails (`WellFoundedInduction`): its predecessor satisfies it, and one step more is
  what `Queue` does. The same argument shows that of a burst the first and the last request
  are sent and the others dropped, for any number of panels: `reopen` shows three.

### 4.3 The sources

All in `SourceLoopProofs`, for any documents, articles, pages, answers and failures, wherever
the loop over the sources is: what a source returns is proved of `result` while the source
is at it, and the loop's step to the next one forgets it.

* `RowsHaveProducts`, `LoopRowsHaveProducts`: a row of a fetch of `msrc.py` has
  its product in the result, so the caller's `product_ids.get(...) is None` drops none. The fixes
  of a document name only versions of its own tree (`SourcesAssumption`: `products_by_id` is
  built from it), and the products are appended before the rows.
* `MsrcTypes`, `FixesAreReported`, `ArticlesOwnTheirRows`, `BundlesAreReportedOnce`. `MsrcInv`: each
  KB number is queued, in flight, read or none of them (`TasksOnce`), the rows of a granular KB
  are as the catalog gave them until its own article is read, and as that one says afterwards
  (`OwnRows`); no two bundle rows are of one KB, and their KBs are in `seen` (`BundleRows`); a KB in
  `seen` has its row unless an article broke on it (`BundlesReported`), and whatever a whole
  article lists is in `seen` (`BundlesSeen`).
* `ChannelsAreAllReported`: `DotNetTasks` says that the channels of the index are waiting, being
  asked or answered, each one of these; `DotNetRows` that those answered have their rows and
  nobody else has any, and that exactly those that failed are in the errors.
* `VersionsAllAccountedFor`: of the SQL Server pages those finished have their track's rows, or
  what was above the break and an error; the open one has what was walked so far; the later
  ones are not mentioned (`SqlInv`).
* `HeadingsNameTheirRows`, `SupportEndsAreTheLastSaid`. The locals that a table is read with
  are a function of the elements above it, however the walk got there: `ReleaseInv` says that
  the section and the label in `scan` are those that stand above, that `eol_by_code` holds what
  was last said of each code (`EolIs`), and that the result is what all tables walked tell
  (`AllTold`, `AllEnds`). The proof goes element by element, so no induction over pages
  is needed.

### 4.4 Model-checked only

Every liveness property (`EveryRunEnds`, `AcceptedRefreshRuns`, `EveryRequestEnds`,
`EverySourceIsReached`, `NewPatchesShowUp`): they are out of the prover's reach. The same is true of
`PageRefreshIsDebounced` and `PanelsAreRefetched`, which the code does not keep (section 5).

## 5. Where the code and its documents disagree

* `hint_race`: "no longer overwritten by future automatic refreshes" (README:156-159), but
  a hint writes by id to rows selected before; an operator who protects the row in between
  loses the KB number. `ManualInfoSurvives`, about the release's texts, holds, and nothing else
  breaks the promise (`ManualEditsAreKept`).
* `manual_entry`: admin.py:246-250 says that a colliding manual entry is skipped by the
  upsert; a second row of the same build makes `scalar_one_or_none` raise and aborts this
  run and all later ones. `RunsNeverAbort` says when none is aborted.
* `lost_push`: "every refresh that finds new patches sends exactly one push"
  (README:174-176), but an abort after a source's commit loses the push of its rows for good.
  `CompletedRunsPush` says what does hold, `FindsArePushed` when the promise is kept.
* `debounce`: "ten visitors in a row don't start ten scrapes" (config.py:15-17), but the time
  of the last start is set by the task, not by the request that creates it.
* `reopen`: "re-fetches ... every history panel" (app.js:232-234), but htmx drops all but the
  first and the last request of the loop.

Met while modelling and followed by the model, without a run of their own:

* windows_release_health.py:23-26 promises an error for a page with an unexpected layout, but a
  history table is counted as found by the words its header mentions and then left unread if
  it lacks one of the exact columns (line 352): such a page is empty without an error.
* "must never raise" (base.py:63), but an answer of another shape raises out of `fetch()` in
  `dotnet.py` (from line 92) and in `msrc.py` (lines 154 and 173, outside its `try`s); the caller's
  `try` catches it, and the source's rows are lost.
* Of a product, `support_ended` is what the source that was upserted last says, and a date
  that was once told is never taken back (`_upsert_product`), even if the source takes it back.

## 6. Not modelled

Data whose values no property tells apart: the names of products, links, titles, severities,
the order of the products on the page (`product_sort.py`: a pure function of strings), what
regular expressions match. `last_seen_at`, which decides between rows of one newest date: the
model allows any of them. `list_products` (one SELECT). Highlighting, themes, translations
and layout; the log pages and authentication of the admin area; requests of the page that
fail; the wording and encoding of notifications; `create_all` and the settings, which appear
as constants. Clock errors are outside the model: `_last_run_started_at` is only ever inside
or outside the debounce window.

## 7. Plan

Done: the pipeline with its operator, triggers, transport, the four sources and the loop over
them, the readers and the page; the refinement of `PatchHistory` and the theorems of section 4.
Left, most useful first:

1. A composition of `RefreshTriggers` with the run of `RefreshPipeline`, so that a restart hits
   both, in place of the assumption that runs end.
2. `version_sort_key` against a reference order over bounded versions.
