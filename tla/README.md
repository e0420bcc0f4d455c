# Omniswim Suite: specifications, model checking and proofs

TLA+ modules that model how the Omniswim Suite keeps a coach's work: from an edit
in a browser tab, over the save queue, the server's save sequencer and the
stores, and from a page of the meet site, over the extension's crawls, to the
captures it is filed in; with the backups, the opening of the database file, the
optimizer step and the scoring rules beside them. TLC checks them on small
instances, TLAPS proves the theorems named below for every value of the constants.
Paths are relative to the repository root.

## 1. The system

### Components, their state and their operations

| Component | Source | State | Operations |
|---|---|---|---|
| Client workspace store | `packages/core/src/store/SuiteWorkspaceProvider.tsx`, `packages/core/src/api/{workspaces,saveSequence}.ts` | per tab: query cache, known version, pending patch, debounce timer, save in flight, conflict, waiting callers | edit, debounce, send, ok / stale / conflict / failure, reload, refetch, delete and undo, unmount |
| Workspace routes | `apps/shell/lib/routes/workspaceRoutes.ts` | none of their own | list, create, update, delete, snapshots, backups |
| Save sequencer | `apps/shell/lib/saveSequencer.ts` | per workspace: tail of a promise chain, last applied save number (bounded map) | run, record, evict, forget |
| SQLite store | `packages/db/src/WorkspaceService.ts` | workspaces with a version, snapshots | synchronous create, update, delete, restore |
| PostgreSQL store | `packages/db/src/PgWorkspaceService.ts` | the same in a row and child tables | the same as transactions of several queries |
| JSON store | `apps/shell/lib/jsonStore.ts`, `JsonRepo` in `workspaceRepo.ts` | one file, a queue of mutations | create, update, delete, replace, restore |
| Schema guard, migrations | `packages/db/src/{schemaGuard,childKeyMigration}.ts` | stamp, tables, copies of the file | check, copy, rebuild, stamp |
| Backups, data-loss guard | `apps/shell/lib/{workspaceRepo,dataLossGuard}.ts` | backup files in pools | back up, prune, restore, compare before shrinking |
| Meet crawl | `extensions/swimcloud-companion/src/crawler-content.ts` and the rules it asks | plan, pages fetched, streaks, the app's page count | discover, fetch in five passes, relay, pause, cancel, retry, resume |
| Multi-team crawl | `extensions/swimcloud-companion/src/multiTeam*.ts`, `rateLimitBackoff.ts`, `crawlErrorPolicy.ts`, `crawlLock.ts` | queue of rosters and swimmers, streaks, saved progress, completeness marks | start, choose, fetch, retry, relay, settle, persist, mark, pause, cancel, forget |
| Fetch pool | `extensions/swimcloud-companion/src/boundedFetchPool.ts` | lanes, the chain of start slots | take, wait, run, settle |
| Background worker | `extensions/swimcloud-companion/src/background.ts` | downloads list in `chrome.storage` | relay, append, flush |
| Capture store | `packages/swimcloud/src/captureStore.ts`, `apps/shell/lib/swimcloudCaptureRoutes.ts` | capture records, page files by URL, archive, index | open, put page, label, delete, rebuild index |
| Optimizer step | `packages/core/src/lib/optimizeClient.ts`, `RosterOptimizeStep.tsx` and its hooks in `packages/manager` | one run, its result, one Undo | run, abort, apply, undo |
| Scoring rules | `packages/core/src/lib/*Scoring.ts`, `meetPool.ts` | the scorer pool an event leaves to the next | places, ties, caps, relays |
| Sign-in, attempt limiter | `packages/db/src/AuthService.ts`, `apps/shell/lib/middleware/attemptLimiter.ts` | users, attempt windows | check, fail, reset |
| Parsers, Python backend, user interface | `packages/swimcloud`, `backend/`, `packages/ui` | none that others rely on | parse, optimise, draw |

### How they interact

A tab changes its cached copy at once, merges the change into a pending patch and,
300 ms later, sends one PUT with the version it knows and a save number of its own.
The route takes the workspace's turn in the sequencer, refuses a number that is not
above the client's last one, and updates the store, which refuses a version that is
not the stored one. A save that shrinks the workspace sharply, a delete and a restore
write a backup first. The reply moves the known version, or pauses the tab on a
conflict. Lists come from the same route file and replace the cache, except for a
workspace that has unsent edits ("held"). A result of the optimizer is one more edit.

The crawls run in a content script. They send each page to the extension's worker,
which posts it to the app, or lists it for the user's downloads when the app does not
answer. The app files it in a capture. What the multi-team crawl filed is remembered
in `chrome.storage.local`, apart from the captures it speaks of; the meet crawl asks the
app what it has.

### What is hard

* **Interleaving.** Two tabs edit one array; each save replaces the whole array.
  PostgreSQL sessions interleave between the queries of their transactions, capture
  requests between file accesses, starts of a server between statements.
* **Reply order.** A save's reply and a list cross; a cancelled fetch still runs
  the code that moves versions; a PUT can be late, lost, or delivered twice.
* **State across an await.** The sequencer checks a number before `await apply()`
  and records it after; a delete reads what other captures list and removes it later;
  the guard compares, backs up, and only then updates; the step paints later than it caches.
* **Life cycle.** Unmount, delete and undo with saves queued and in flight; the
  server restarts and forgets every save number, or dies in a write; the browser
  shuts the worker down between two storage writes; the crawl's tab closes.
* **Half-done work.** One reply is filed under two teams and only one takes it; an
  app that answers too late has the page; a table is copied and not yet renamed.
* **Waiting.** Every caller of `saveWorkspace` must hear an outcome; every crawl must
  let go of the lock that keeps all tabs from crawling; keyed locks nest.

### What makes each component correct

* Sequencer: one save of a workspace at a time, in arrival order, each one settled;
  a client's numbers only rise; eviction forgets the oldest record.
* Client store: no save removes an edit that its tab has not seen; what a caller is
  told is true; unsent edits stay on screen; a paused tab is silent; all are served.
* Stores: the copy a session returns as current is one that existed as a whole; a
  checked save removes nothing it has not read; new contents mean a new version. The
  JSON file behaves as one list that changes in one moment.
* SQLite start: a start loses no row and leaves no table half rekeyed, wherever it ends.
* Backups: what an operation takes away is in a backup; one kind never displaces another.
* Crawls: what is remembered as filed is filed; what is called complete is whole;
  a site that refuses is asked only so often; a run ends.
* Pool and fallback: nothing starts too early or after Cancel; a page the user was told
  of is kept.
* Capture store: no page listed without its bytes, no version lost, no deadlock.
* Optimizer step: what it does to a lineup, the coach asked for and can undo.
* Scoring: places, ties and caps agree with their definition by counting better results.

## 2. Modules

| Module | Models | Checked by | Proofs |
|---|---|---|---|
| `SaveSequencer` | the sequencer, call by call, over several keys | `MCServer`, run `server_calls` | `Server_proofs` |
| `WorkspaceSave` | tabs, network, routes, sequencer and SQLite store for one workspace | `MCWorkspaceSave`, runs `save_*` | `WorkspaceSave_proofs` |
| `EditLedger` | abstract: what `saveWorkspace` promises its callers | refined by `WorkspaceSave` (`LedgerSpec`) | `WorkspaceSave_proofs` |
| `PgStore` | PostgreSQL transactions, query by query | `MCPgStore`, run `pg_sessions` | `PgStore_proofs` |
| `JsonStore` | the JSON file, await by await | `MCServer`, run `server_calls` | `Server_proofs` |
| `WorkspaceList` | abstract: one list that changes in one moment | refined by `JsonStore` (`ListSpec`) | `Server_proofs` |
| `SqliteStart` | the opening of the SQLite file, statement by statement | `MCServer`, run `server_calls` | `Server_proofs` |
| `Backups` | guard, backups, retention, restore | `MCMachines`, run `machines_safety` | `Machines_proofs` |
| `CaptureStore` | the capture store, file access by file access | `MCCaptureStore`, runs `captures*`; `MCMachines`, run `machines_ends` | `CaptureStore_proofs` |
| `PageLedger` | abstract: what the app promises a crawl | refined by `CaptureStore` (`LedgerSpec`) | `CaptureStore_proofs` |
| `MeetCrawl` | the five passes of the meet crawl | `MCMachines`, runs `machines_*` | `MeetCrawl_proofs` |
| `MultiTeamCrawl` | a run of that crawl, the app's captures, saved progress | `MCMultiTeamCrawl`, run `crawl_runs`; `MCMachines`, run `machines_ends` | `MultiTeamCrawl_proofs` |
| `FetchPool` | lanes, slots, Pause, Cancel | `MCMachines`, runs `machines_*` | `Machines_proofs` |
| `FallbackStore` | the worker's downloads list | `MCMachines`, run `machines_safety` | `Machines_proofs` |
| `OptimizeStep` | a run of the optimizer, its apply and its Undo | `MCMachines`, run `machines_safety` | `Machines_proofs` |
| `MeetScoring` | points of a meet, event by event | `MCMachines`, runs `machines_safety`, `scoring_roster` | `MeetScoring_proofs` |

The operators whose comment begins "A plausible bug" are wrong variants of the
definition that follows them. Each property has one that breaks it, so that it is
known to depend on the code.

`MCServer` and `MCMachines` put machines that share no state side by side: a behaviour
belongs to the one that `part` names, chosen at the start, and the others rest. The
state counts of their runs are therefore sums.

### SaveSequencer

`Run` is the synchronous part of `run` and `exclusive`: the call takes the stored
tail as predecessor and becomes the tail. `TurnCame` is the `await` on it.
`RefuseStale` and `StartApply` are the two sides of the number check, `ApplyWrote`
and `ApplyWroteNothing` the end of `apply()` with `record`, `DropTail` the deferred
removal of the tail, which is a step of its own because it runs in a later
microtask. `lastApplied` carries an insertion stamp for the order of the `Map`.

### WorkspaceSave

An edit is a *mark*, a field is the set of marks of the copy it was made from, and a
save replaces a field as a whole: a stored field that lacks a mark it had is a lost
edit. Per tab, `shown`, `known`, `pending`, `timer`, `conflict`, `save` and `queued`
are the query cache and the refs of the provider. A PUT is a record in `requests`
until `Serve` applies it; `Serve` is atomic because the sequencer's lock is held
around a synchronous store call (this is what `SaveSequencer` establishes). A reply
that is not heard leaves its request in `requests`, so a save that failed for the tab
may still be applied later. `fetch` is the tab's current list request and `orphan` the
last one that a newer fetch cancelled: query-core drops its data but its `queryFn`
still runs, and moves known versions (`OrphanArrives`). `Restart` empties the save
numbers. Query-core is external and modelled from how it is used (version 5.101.0:
silent cancel, a reload that follows the newer fetch). There is no polling and no
refetch on focus (`main.tsx`). Tabs start with the workspace loaded.

The constants `Overtaking`, `ListsOverlap`, `EditInReload`, `MayUnmount`, `Repeats`
and the bound `MaxDeletes` say what the environment may do. `Repeats` is a PUT
delivered twice, which browsers and proxies may do on a broken connection as PUT is
idempotent (RFC 9110, 9.2.2).

### PgStore

Sessions run calls as sequences of queries at READ COMMITTED: `SELECT ... FOR UPDATE`
waits for the row's lock, each exit commits or rolls back and so releases it, and any
query may fail. A workspace is a row and child tables (`Part`); a reader without a
transaction reads them one after the other. A session that waits for a row that a
restore of the whole store replaced finds no row. A patch carries one part, a snapshot
restore all of them. Two sessions are two users of a team, as the sequencer's key
holds the user and so does not order them. Every property speaks of one life of the
row, up to a save that found no row to lock (the history variables `life`, `blind`).
Scope and tenant filters, row mapping and `init` are left out.

### JsonStore and WorkspaceList

`Ask` queues a change in the promise chain of `mutate`; `Read`, `Write`, `Rename` are
its three awaits on the file, `Refuse` the mutator that throws (a missing workspace, a
version that is not the stored one), `Fail` a write or rename that fails, `Tell` the
answer. `Die` is a death of the server: the queue and the callers are gone, the file and
perhaps a temporary file stay.

A read that fails is no error: it gives `cache`, what the server last had of the file, and
the change goes on from there (`Got`). A server fills the cache by the read of its startup
backup (`Started`), which gives the seed where it fails; a change fills it when it reads
and when it has written; a list request or a backup when it reads (`Look`), or, reading
before a change and ending after it, with an older list (`LookEnds`). `Troubles` says which
of these a behaviour has: failing reads, a failing first read, late lists.

`WorkspaceList` holds the operations of `JsonRepo` as
one-step changes of a list of versions; `ListSpec` says that the file only changes so,
between the request and the answer of a call whose result it is.

### SqliteStart

`Init` is every file a build may have left: stamped by none, an older, this or a newer
build, or with something that is no number; each child table absent, keyed by `id` or by
the pair. `Open` is the guard, `CreateTables` the `CREATE TABLE IF NOT EXISTS`, `Check`
the test for an `id` key, `NameCopy` the choice of a name that no file has, `BeginCopy`
and `CopyWritten` the `VACUUM INTO`, `CopyFails` its failure, after which the file of that
name is removed, whosever it is. `copies` maps each name to a whole copy or to the start
that is writing it. Names are seconds: `SameSecond` says whether two starts may choose theirs
at once. `BeginMigration`, `Fill`, `Drop`, `Rename` and `Commit` the transaction of `childKeyMigration.ts`,
`StampFile` its last statement before serving. `Stop` may follow any of them, a failed
statement or a kill. `OlderSaves` is a server of the build before, which still runs.

### Backups

A request is a save, a delete, a restore or the user's own backup, and runs from one
await to the next. `Full` contents hold many results, `Trimmed` ones sharply fewer,
which is all the guard tells apart. Files are named by kind and millisecond; the
quota of each pool is pruned after each write (`pruneGeneratedBackups`). Saves pass the
sequencer; nothing orders the rest, as in the code. The server may die in a write. `born`
counts how often the workspace was created, to tell it from one of the same id.

### CaptureStore and PageLedger

A capture is a record that lists pages, the bytes of a page are one file per URL that
all captures share, older bytes are archived by content. Locks per capture and per URL
are queues; the lock around a record access is held for that access only. A write
truncates first (`fs.writeFile`), so a server that dies leaves the file `Torn`, and a
reader of a `Torn` record throws. `spoilt` remembers the page and the contents the server
died over, until a delete removes the file. `PageLedger` is what a crawl relies on: an open
capture takes pages one by one and keeps them until it is deleted, or its file is lost
with the server.

### MeetCrawl

`ReadStored`, `Discover` and the questions come first; then the passes in their order: first
swims pages, the further swims pages these announce, event pages (which may name more
events), rosters, times pages. The three sequential passes end the crawl on an error,
the pooled ones only themselves. A reply and its relay are one step, as nothing reads in
between what either changes. What the app holds when a crawl begins is an input
(`Stored`). `planned` are the counts the app may have, as a count may be lost.

### MultiTeamCrawl

`run` is the run's context, its queue and the two buttons. `ReadSeasons` ..
`OpenSeason` are the steps up to the queue, `NextRoster`, `NextSwimmer` and `Drain`
are `nextWork` in its loop, `Request` .. `AnswerStops` are `fetchPaced` and
`screenPage`, `Landed` and `NotLanded` are `relayTo` with the app's answer, `Settle*`
are what the item's handler does with it, and `MarkCaptures` is the end of every run.
`NotLanded` may have stored the page, `CloseTab` may come at any step, storage may
refuse to read or write, the app may refuse to open, correct or mark a capture.
`held` are pages with a clean reply in the app, `listed` what the rosters listed since
the capture was last opened. Left out: the pacing gap, page contents, the files of the
Downloads fallback, the capture of the season-list page, several lanes (the driver
uses one).

### FetchPool and FallbackStore

The pool's time is discrete and relative: how long each lane still waits for its slot,
how far off the next slot is, how long ago the last start was, the last two up to the
stagger. A lane that can go on does so before the clock ticks; a run takes any time. Both
stop checks of a lane, before and after its waits, are there, and Pause between them.

The fallback store appends a page by two writes to `chrome.storage.local`, the page and
then the list's length; the worker may be terminated after either, and its memory is then
gone. A flush downloads what is listed and removes it. The content script relays one page
at a time.

### OptimizeStep

The cache of each workspace and what is painted of it are two things: a change goes to the
cache, a later task paints it, and handlers and effects read what is painted. A run
starts from what is painted, its result arrives, is applied if the view that asked still
stands, and leaves one summary with an Undo. Saves succeed, or a failed one brings the
server's copy back. Moving to another workspace drops the run and the summary.

### MeetScoring

Rows are what a meet printed: round, rank, whether the swim counts. `Scored` gives an
event's points and the pool it leaves, for finals, finals overall, dives, timed finals
and relays, under place caps that hold or hand on places, caps per team, a scorer roster and a
meet pool. Points are whole because the table holds multiples of sixty, so that ties of
up to five split evenly; pool weights (a diver is a third) are counted in thirds. Ranks are
those of a competition: 1, 2, 2, 4. A table may hold zeros, as those of dual meets do: `InTable` says
which places there are, and whoever takes one worth 0 is counted by the caps, as whoever finishes
past the table's end is not (`placePointAt`). The properties compare with definitions by counting.

## 3. Runs

| Run | Instance | States | Shows |
|---|---|---|---|
| `server_calls` | 3 calls of 2 clients on one key with failures and deletes, or 4 saves of 1 client over 3 keys with 2 records; 3 changes of the JSON file by 2 callers; 2 starts on every SQLite file | 305,093 | `ArrivalOrder`, `RecordRises`, `EvictsLeastRecent`, `StoredDataStands` (with the refinement of `WorkspaceList`), `EveryCallSettles` |
| `save_safety` | 2 tabs, 1 field, 3 edits, versions to 4, replies in order | 678,783 | `KnownVersionIsSeen`, `PausedTabIsSilent`, `NoUnseenOverwrite`, `AppliedInSendOrder`, refinement of `EditLedger` |
| `save_unordered` | 2 tabs, 2 edits, versions to 2, all disorder switched on | 639,078 | `SavedMeansStored`, `HeldEditsStayOnScreen`, `ConflictKeepsEdits` |
| `save_lifecycle` | 1 tab, 2 edits, a delete with undo, unmount, fairness | 700,452 | `EditsSettle` |
| `pg_sessions` | 2 sessions, row and one child table, versions to 2, 1 delete or whole restore, 1 snapshot | 4,741,656 | `LockedRowStands`, `CurrentCopyIsWhole`, `CheckedSaveKeepsOthers`, `NewContentsNewVersion` |
| `crawl_runs` | 1 run over 2 teams and 2 swimmers, or 2 runs over 1 swimmer; 1 removal | 584,179 | `FinishedIsFiled`, `CompleteIsWhole`, `RefusalsAreBounded`, `ForgetsWhenWhole` |
| `captures` | 3 requests in flight, 5 in all, 2 captures sharing a page, 1 crash | 770,559 | `ListedPageHasBytes`, `VersionSurvives`, `ReadersSeeTheRecords`, refinement of `PageLedger` |
| `machines_safety` | meet crawl of 2 teams; pool of 2 lanes; fallback store; backups of 3 requests; Optimize step; events under eight sets of scoring rules, for 2 teams with up to 3 rows an event or 1 team with up to 5, a table that ends in a 0, and a pool that 2 events share | 712,002 | `CompleteIsTheWholePlan`, `RequestsAreDue`, `StopsInTime` (meet crawl); `StartsAreDue` (pool); `AnsweredIsKept` (fallback); `LossIsBackedUp`, `BackupsStand` (backups); `LineupIsTheCoachs` (optimizer); `OthersAreUndisturbed`, `PlacesPayTheTable`, `CapsAreKept` (scoring); `TypesOK` |
| `machines_ends` | both crawls, pool and captures, with fairness | 109,131 | `CrawlsEnd`, `RequestsEnd` |

Three runs show a statement of the repository that the code does not keep:

| Run | Statement | What happens |
|---|---|---|
| `save_overtaken_list` | unsent and newer data is held back from older lists (`SuiteWorkspaceProvider.tsx:180`) | a list read before the tab's save and answered after it replaces the screen under the newer version; the next save drops the stored edit |
| `captures_delete` | "the page's HTML is always on disk before any reader can see the ref" (`captureStore.ts:404`) | a delete has read which pages other captures list (`:482`) when one of those it removes is stored for another capture; that one then lists a page without bytes |
| `scoring_roster` | non-roster swimmers do not consume ladder slots (`individualScoring.ts:181`) | the timed-final scorer (`:189`) asks exhibition and pool but never the roster: a swimmer off it scores |

Type invariants: every module's is a theorem. `TypesOK` joins those of the six machines of
`machines_safety`; the others, which no run repeats, are theorems of their own, those of the JSON
file and the SQLite start as parts of the invariants that `Server_proofs` proves.

### Bounds and why they are enough

* *WorkspaceSave.* A lost edit needs two writers, or one writer and a stale list. Three
  edits let one tab save, the other conflict, and either save again; four versions
  let all of these be stored. The counterexamples take 7 to 15 steps, well inside.
  One field is enough since fields never mix. Two edits suffice where a property
  speaks of a save and what is queued behind it.
* *SaveSequencer.* Three calls are a running one, a waiting one, and one that comes
  while the first one's tail is removed. Evicting the wrong record needs three keys,
  two records and a rewrite: four calls. Calls and keys are used in their order, since
  neither is told from another of its kind; this keeps fairness checkable.
* *JsonStore.* Two callers, one in the file and one queued, the first being the first to come; a third change follows a
  failed one or comes after a death. Either reads fail, or a first read fails and lists are
  late, with two changes (`MaxBesideLists`), one for the list to miss. The store begins with workspace `w1` at version 2
  and the backup holds both, so that a restore both adds and takes back.
* *SqliteStart.* Two processes for two starts, as a third meets nothing new: writers
  exclude each other. Two child tables, so that one can be moved and the other not; one
  row the new key can carry and one it cannot, over every stamp and every key.
* *PgStore.* Two sessions, one of them waiting for the other's lock, with one child
  table for a torn read; one delete, whole restore or snapshot to change lives.
* *CaptureStore.* A delete, a page of another capture and a third request that waits for
  either; five requests in all leave two to build the state they meet. Three around a
  crash: two before, or one before and two after. `machines_ends` has two in flight, as
  liveness needs a waiter and the holder.
* *MeetCrawl.* Two teams with two events and one swimmer let a page of one pass announce
  work for a later pass, for the team before and after it. `StopAfterLost` is 2 so that
  the shared streak spans passes, 1 where only the end is asked for.
* *MultiTeamCrawl.* Two teams share a swimmer. Streaks of two stand for the code's
  three, one retry for its three: a streak that goes on past a retry and past a page is
  still seen. One roster page per team, as the two differ in nothing. The second run is
  the one that resumes; a second swimmer matters within a run, for the bound on refusals.
* *FetchPool.* Two lanes, four items, a stagger of two ticks: a lane overtakes another's
  wait and comes back. *FallbackStore.* Two pages, three listings (one page listed
  again after a death), two deaths.
* *MeetScoring.* Two teams, one of up to five athletes, a bracket of three and a table that
  ends at five, the fifth place being worth 0: ties across the bracket's edge, and in timed finals
  and relays results down to that place, with a pool that turns an athlete away before it and one that
  does not. Each meet of the instance switches on one rule or a pair that meet in a preset.
* *Backups.* Three requests: an operation, one that overlaps with its backup, one that
  prunes. Quotas of 1 and 2 for the code's larger ones. *OptimizeStep.* Two workspaces to
  move between, one mark, two applied results: an Undo, and one that came too late.
* Symmetry is used over tabs, edits, sessions, teams, captures, bodies and requests in runs
  without liveness.

### Fairness

* `server_calls`: each call's own next step. Promise callbacks run, and `apply()`, a store
  write or file access, settles. Deaths of the server are not fair and end its calls.
* `save_lifecycle`: the debounce timer fires and a request ends, with an answer or an
  error. Lists, users and restarts are not fair.
* `machines_ends`: each crawl's driver as a whole goes on; its timers fire, its calls to
  worker and app have deadlines (`backgroundRoundTrip.ts`) and the browser ends a request.
  The clock ticks, a pool's run settles, a capture request's next file access ends. Users
  are not fair: a paused run and a question may stand for ever, and so `CrawlsEnd`
  excepts them; Cancel ends both.
* `PgStore` states no liveness: `LockedRowStands` says that the holder of a lock is
  always at its write, so its next query needs no other lock.

`CHECK_DEADLOCK FALSE` is set throughout because every model may come to rest: all
edits made, all calls settled, all runs used. `EveryCallSettles`, `EditsSettle`,
`CrawlsEnd` and `RequestsEnd` say that it does not rest too early.

### Where properties hold, and where they do not

Each line is a freedom the models can be given by a constant, or a definition that stands
in its module without a run of its own, and what TLC finds with it.

*Saves.* `NoUnseenOverwrite` and the refinement are checked where replies and lists stay
in order.

* `Overtaking` or `EditInReload`: `NoUnseenOverwrite` fails. An edit during Reload's
  await leaves the tab unpaused with no known version; its next save is unchecked.
* `ListsOverlap`: it fails through the `queryFn` of a cancelled fetch, which moves the
  known version while its data is dropped (`SuiteWorkspaceProvider.tsx:159-177`).
* `MaxDeletes = 1`: it fails because versions restart at 1 after Undo
  (`WorkspaceService.ts:193`), so versions of two lives are compared; and
  `HeldEditsStayOnScreen` and `SavedMeansStored` fail because `loadWorkspaces` maps over
  the server's list only (`SuiteWorkspaceProvider.tsx:180`).
* `Repeats` or `MayUnmount`: `RefusedMeansNotStored` fails. An edit can be refused by the
  answer to the repetition of the PUT that stored it; an edit behind a save in flight is
  told "discarded" at unmount and sent when that save ends.
* The sequencer's second rule, as its header words it, fails across clients: one record per
  workspace means another client's save erases what is known of the first one's numbers.
  `RecordRises` states what does hold; the version check stops such a late save.
* `RestoreMovesForward` of `PgStore`, see section 5.

*Crawls.*

* `NeverCalledCompleteWithAPageMissing` fails once a capture may be removed: saved
  progress outlives it, the next crawl skips its swimmers and marks the new capture
  complete (`multiTeamDriver.ts:344`).
* `NoRequestAfterChallenge` fails with two teams: "Stop the entire crawl immediately"
  (`plans/2026-09-08/03-extension-crawler.md:75`), but a 403 in a pooled pass stops only
  that pass.
* `StartsAreSpaced` of the pool ("Minimum delay between the *start* of one item and the
  start of the next", `boundedFetchPool.ts:57`) fails: lanes that Pause held start together,
  and with one lane the item after a pause starts early. `StartsAreDue` excepts this.
* Behaviours worth knowing, which no property forbids: in pooled passes a network error
  or a lost relay counts the page as attempted, so a crawl can end as
  `every-planned-page-fetched` without it (the counts of `CompleteIsTheWholePlan` are
  of attempts); Cancel while paused still lets a sequential pass fetch one page; Cancel
  during discovery waits for the next pass; Retry after Cancel starts out cancelled; a
  later, narrower crawl leaves the planned count below the pages filed; `crawlScope` is
  dropped by `background.ts:473-482`, although `crawler-content.ts` says it is posted. The
  downloads are flushed only by a crawl that used them, so what a closed tab left stays.

*Captures.*

* `DeletesOverlap`: the run `captures_delete`.
* `OmittedFieldIsKept` ("an omitted field keeps whatever the stored record holds",
  `swimcloudCaptureRoutes.ts:1109`) fails at `:1295`: the route reads the record before the
  store's lock, so an open that overlaps another writes back the older value of a field
  it does not state.
* After a crash, a torn record makes list, rebuild and delete throw, and no route repairs
  it; a torn page file makes every later store of that URL throw in `archiveIfSuperseded`.
* A server that dies while it writes a page that is listed already leaves the ref without
  HTML for good, against `captureStore.ts:403-404`; if the contents were the listed ones, as when a
  crawl is repeated, they are gone, since `:453` archives only contents that differ.
  `ListedPageHasBytes` and `VersionSurvives` except just this page and these contents (`CutShort`);
  without the exception TLC refutes both in the run `captures`.
* `captureStore.ts:266-272` says that writes to different captures "can interleave their
  `rebuildIndex` calls and leave the index missing a capture". `ReadersSeeTheRecords` says they
  cannot, and holds: `rebuildIndex` reads the records and writes the index under `fileLock`
  (`:513-529`). The comment is older than that lock; it promises less than the code does, so that no run
  can refute it.
* `readPage` takes no lock. Two deletes that overlap can leave bytes nobody lists.

*Stores and backups.*

* `SameName = TRUE` refutes `LossIsBackedUp`: two backups of one kind in one millisecond
  have one file name, the later rename replaces the earlier, and contents of a delete are
  lost. Saves without a version, and saves that land while a delete or restore runs, are
  in no backup; the property excepts both. With a quota below the number of overlapping
  backups of a pool, one prunes the backup another relies on.
* The JSON store's read falls back to its cache or seed when it fails
  (`jsonStore.ts:44-49`) and `mutate` writes what it makes of that over the file, although
  `:52-55` says "The mutator receives the freshest on-disk value". `server_calls` shows that a
  failing read alone does no harm, since the cache is the file's list when a change reads. With
  `Troubles = {{"read fails", "first read fails"}}` TLC refutes `ListSpec` in 4 states: the
  startup backup could not read the file, the server holds the seed, and the first change that
  cannot read it either replaces every stored workspace by it. With
  `{{"read fails", "list is late"}}` it does in 11: a list read before a change is kept after it, and
  the next change whose read fails takes the change back. `MutatorGetsTheFile` states the
  quoted line and fails in the same behaviours.
* `SameSecond = TRUE` refutes `StartsKeepTheRows` in 17 states: two starts that choose one
  copy name in the same second, the first finishes its copy, the second's `VACUUM INTO` fails on
  the existing file and removes it (`childKeyMigration.ts:163-165`), and the first migrates with
  nothing to go back to ("a migration with no way back is not run", `:129`).
* `SqliteRepo.init` imports `meets.json` again whenever the store is empty
  (`workspaceRepo.ts:600-612`): deleting the last workspace and restarting brings old data
  back. A newer build
  that starts between an older one's guard and its stamp gets its stamp lowered. The
  migrations of versions 2 to 8 catch every error, `SQLITE_BUSY` included, so a column may
  be missing from a stamped file until the next start.

*Optimizer step.* An edit that is in the cache and not yet painted can be overwritten by
a result that arrives then, since the live ref is published with the paint;
`optimizeRunView.ts` promises otherwise. "Undo anyway" after a relay fill never settles, as
`optimizerUndoTargetReached` compares `relayOverrides`. Undo's branch for another workspace
is never reached, because the view drops the summary first. `EditsOutliveRuns` names this
window: an edit of the shown workspace that is not painted yet may go by a result that the
live view still lets pass, or by an Undo; no other edit may, by either. TLC refutes it when either
of the two is left out, so the window is real and is no wider.

*Scoring.* Exhibition entries of relays do not move later entries up (the tests agree).
In timed finals a member of a half-admitted tie whom the pool blocks still uses a place of
the ladder. With the NSISC preset (roster mode and a pool of 18) a 1650 swimmer off the
roster scores and takes a slot: run `scoring_roster`. A place worth 0 fills a slot of the pool and
one of an event's cap, so that a later scorer may be turned away for it; but it does not move the ladder of a
timed final on where a cap is set, as that asks for points above 0. Where a stored table rises past
a 0 (`storedPlaceTableSchema` lets it, `pointsTableSchema` of the editor does not), whoever
finishes there or later is paid for a place that stands still, and less than without the cap, though no cap turned
anyone away. `RivalsKeepTheirPoints` therefore leaves timed finals out, whose places depend
on who was paid; `PoolHolds` and `SlotsGoToTheFirst` speak of them too.

## 4. Proofs

Checked by TLAPS with Z3, Zenon and LS4; nothing is assumed beyond the named
assumptions on the constants (`ValuesAssumption`, `BoundsAssumption` and their like,
next to the constants).

**SaveSequencer** (in `Server_proofs`). `TypeCorrect`, `MutualExclusion`, `StartsInArrivalOrder`,
`RecordsRise`, `EvictionsTakeTheOldest`, for any number of calls, keys, clients and records. Mutual exclusion is
not inductive: nothing in it ties a running call to the tail. `ChainInv` adds that the
calls of a key form one chain: a call's predecessor is the call of its key that arrived
last before it, and a call without one found all earlier calls settled (`PredOK`); the
stored tail is the latest call of its key, and without a tail all are settled (`TailsOK`); a
started call has every earlier call of its key settled behind it (`StartedOK`). `AheadOK` carries the check of the
number over the await: while a call applies, the record, if its client's, is still below it.
For evictions `AgesOK` adds that each record carries the number of the insertion that made it, that no two
records share one, and that there are never more than `MaxKeys`; that a full map has an
oldest record is argued over subsets of its keys, with no recursion over its size.

**WorkspaceSave.** `TypeCorrect`, in every environment; its inductive part is that an Undo
always has a copy to post (`RemovalHasCopy`). `PausedIsSilent`: a tab with a conflict has no
save in flight. `WaitersServed`: no caller is left with nobody to answer it. The invariant
`QueueInv` adds that a paused tab has answered all queued callers, and that queued callers
have a patch to be sent; without the second, a save's `finally` could find nothing to send.

The module goes on to prove what the runs `save_safety` and `save_unordered` check, in
three layers, each with the environment it needs as its assumption.

* Nobody deletes the workspace: `HeldEditsAlwaysStay`, `ConflictsKeepEdits`,
  `SavedMeansStoredAlways`. The invariant `OnScreen` says of each field that a pending value
  is the one on screen, and a value on its way was it until further edits; the properties
  alone, which speak of marks, do not survive a conflict that puts a patch back.
  `Numbered` and `WaitersCarried` follow the save numbers: a request carries what its tab has in
  flight, the sequencer's record is never ahead of the tab, and so "stale" is only said of
  a save that was applied.
* Replies come in order besides, lists do not overlap, no edits during a Reload
  (`InOrder`): `KnownVersionIsAlwaysSeen`, `NothingUnseenIsOverwritten`,
  `SavesApplyInSendOrder`. `Ordered` orders the numbers: what a tab asks with is at most
  what it knows, what it knows at most what it fetched or was given, and a copy with the
  stored version has the stored content. A write that the tabs have not heard of makes each
  premise false at once, which is why the version check is enough.
* No repeated PUT, unmount or edit during a Reload, lists and replies in any order (`Plain`):
  `SavesKeepTheLedger`, the refinement of `EditLedger`. For each edit, `Kept` says that it has one
  owner while it waits, is in nobody else's hands unless stored, and is on screen in
  paused tabs only once refused. Section 3 shows what goes wrong in the other environments.

**PgStore.** `TypeCorrect` and `LockedRowIsSafe`: a row that a session has locked
stands, its holder is at its write, and for a save the version it compared under the lock
is still the stored one. It holds for any number of sessions and parts because every
writer waits for the lock and every exit releases it.

The other three properties of `pg_sessions` are proved as well:
`CurrentCopyIsAlwaysWhole`, `CheckedSavesKeepOthers`, `NewContentsHaveNewVersion`. None is
inductive: a torn copy becomes wrong only later. The invariant says of each copy in a
session's hands (`CopyOK`), of the stored workspace and its history (`LivesOK`) and of
each save under way (`SaveOK`) what a version pins down within a life: whatever was read
while the version was the copy's has the contents of that version, and versions of a life
only rise. `Moves` collects what a step may do to the stored row, so that sessions other
than the acting one need one argument instead of one per action.

**MultiTeamCrawl.** `TypeCorrect` and `RefusalsAlwaysBounded`, from
`CrawlInv`: `Streaks` and `Refusals` tie the number of refusals in a row to the
streak and the retries of the page in hand.
`FinishedIsAlwaysFiled`, `CompleteIsAlwaysWhole` and
`ForgetsOnlyWhenWhole` follow from `IInv`, whose second part `Filed` follows a page through the run: what the
queue still holds, what is in flight, what a relay took (`Queue`, `InFlight`, `Relayed`), that
done means filed for every team that lists the swimmer (`DoneIsFiled`), that the capture
is the one the run opened (`Open`), and that what storage remembers is filed (`SavedIsFiled`).
The code marks a capture complete by comparing counts; that equal counts mean equal sets
follows from there.

**CaptureStore.** `TypeCorrect`, `ReadersAlwaysSeeTheRecords`, and, where no delete overlaps a
page of another capture (`~DeletesOverlap`), `ListedPagesHaveBytes`, `VersionsSurvive` and
`CapturesKeepTheLedger`, the refinement of `PageLedger`. The assumption is the one the run
`captures_delete` shows to be needed. Crashes at any point are included in all of them;
what `ListedPagesHaveBytes` and `VersionsSurvive` except is the page and the contents that
were being written when the server died.

* `LocksOK`: a request that is past its turn is at the head of that queue, and a
  request with a record open is the writer. With that, `PlansOK`: what a request is about to write is
  the record as it stands, changed in the one page or the fields it was asked to.
* `TornOK`: a file is unreadable only while it is written or after a crash, and a
  record only until the index is rebuilt.
* `Pages`: `BytesOK` says that contents listed in a record, *or in one about to be written*, are
  in the cache, archived, being written or cut short, which the properties say of the record alone;
  `SpoiltOK` that a file the server died over is torn and nobody writes it; `ReplacedOK`
  that bytes about to be replaced are archived if anybody lists them; `SweepOK` that nobody
  else lists what a delete is about to remove. `SweepOK` is where an overlapping page breaks the proof.

**MeetCrawl.** `TypeCorrect`, `CompleteIsAlwaysTheWholePlan`, `AlwaysStopsInTime`,
`RequestsAreAlwaysDue`, for any teams, events and swimmers. None is
inductive, as the plan grows while it is read. `CrawlInv` has:

* `Sorted` and `Found`, the pages that each pass may have fetched and may still fetch, which keeps the
  passes from asking for a page twice; `Spared`, that pages the app held are left out;
* `Covered`: each page of the plan was got or is still pending in its pass, with the event pages
  bound to the rounds that planned them; `EventCount` and `Counted` tie the count the app was
  told to the size of that plan, which needs the five kinds of page to be disjoint;
* `Streak`, `AfterCancel`, `Challenges`: how far the losses in a row can have come by each pass,
  and that only the page in flight is still asked for after Cancel.

**Backups, pool, downloads list, optimizer step** (`Machines_proofs`), each as `MCMachines` runs it.

* `BackupsAlwaysStand`, for any quotas that are numbers, as long as no two backups are given the same
  name (`~SameName`; section 3 has what happens otherwise). `StaleIsOverQuota`: what a
  request listed as stale stays over its pool's quota while others place and remove files. The
  step has to show that a quota's worth of newer files is left after a removal, although
  several requests remove from one pool; it looks at the newest of those removed.
* `LossIsAlwaysBackedUp`, with quotas that are no smaller than the number of requests under way at
  once (`QuotasOutnumber`; the code's are 10 and 20, and section 3 has what happens below). A backup is
  named after its contents were read, so a request that read earlier may place a newer file with
  older contents. `Secured` counts these: as long as the workspace is as a backup has it,
  the newer files of its pool with other contents and the requests that may still place one
  are fewer than the requests there are, so that the newest file with its contents is never over its quota.
  `RowsArePast` says that a life or version of the workspace does not come back, and
  `OutcomesAreTrue` that a request which acts without a backup was told, or found no sharp drop.
* `TypesAreAlwaysOK`: all six machines stay in their types. For the pool that is a bound on every
  wait, a stagger for each lane, for any finite number of lanes. `SlotsAreFew` carries it: the next slot is
  as many staggers after a waiting lane's as there are lanes that wait from there on, and no
  two lanes wait for one slot; so a tick that lets one lane through takes a stagger off the whole chain.
* `StartsAreAlwaysDue`, for any lanes, items and stagger, from `SlotsAreSpaced`: the slots that
  lanes still wait for are a stagger apart, from each other, from the next slot and from the
  last start.
* `AnsweredIsAlwaysKept`, from `WorkerIsCurrent`: what the worker has in memory agrees with the
  storage at each of its steps.
* `LineupIsAlwaysTheCoachs`, for any workspaces, edits and number of runs. `InputsAreCurrent` says that a
  run which has not noticed an edit would replace just what it was started from, so that what
  it takes is an edit of the shown workspace between its change and its paint, and nothing on screen;
  `UndosAreGenuine` that an Undo on offer takes back one run, in this workspace; `ClaimIsWatched`
  follows an Undo that was announced through the failure of its save.

**Server** (`Server_proofs`), as `MCServer` runs it.

* `FileIsOneList`, the refinement of `WorkspaceList` by `JsonStore`, assuming a workspace to exist and
  `ReadsAreSafe`: where the reads of changes fail, first reads do not and lists are not late; section 3
  has what happens otherwise. `CacheIsCurrent`: where reads fail, the cache is the file's list whenever
  a change may fall back on it.
  `TurnsAreTaken`: a change is under way only at the head of the queue, what it read is still the file, and
  the temporary file is that change applied to it. The rename is then the one moment.
* `StartsAlwaysKeepTheRows`, for any number of servers that start, fail and are killed on
  one SQLite file (`None` being no server and no name), where no two choose a copy's name in one
  second (`~SameSecond`). `Relies` says of each place in the start what
  the file and the copy of its name still have; `NamesDiffer` that this name is its own, so that what
  another start removes is not its copy; `Carries` that an open transaction has
  every row in its table or in the one that replaces it. What other
  servers do meanwhile only makes the file grow (`Grows`), so that each place needs one argument for all of them.
* `StoredDataAlwaysStands`: both.

**MeetScoring.** `ScoringTypeCorrect`, `TablesArePaid`, `CapsKept` and `OthersUndisturbed`, for any teams,
table, bracket and rules, and any fields of the size the rules allow. Two assumptions on the constants stand
next to them: `MeetSizes` (finitely many athletes, whole points; a place may be worth 0 and the table may rise) and
`TableIsShared` (every tie a meet has rows for divides every place; the code has fractions, the
model multiples). The program folds over the groups of an event; a fold is a function
over subsets in the library, so its value is argued by induction over *sets of numbers* (`LeastNumber`,
`NumberInduction`) in place of the library's induction theorems, which the provers cannot instantiate.
`Sums` characterises such a fold, and from it follows that a sum does not depend on
the order it is taken in.

* `AlwaysReading`, its invariant (`MeetInv`): what the program has read and what it has scored. Rows keep the printed ranks of
  a competition while a meet is read (`Fair`), the weights of the pool are nothing, a
  third or a whole swimmer, and points and pool are those of the rows (`Settled`). The
  other theorems speak of one scored event from there.
* `TablesArePaid`. The groups of an event are its ties in order (`Nth`), a tie starts at one place
  more than finished ahead of it (`Seat`), also after an exhibition swim or a removed contestant is taken
  out and the ranks behind it move up (`Printed`, `PrintAs`); so the shares of a group add up to what
  stands at its places. That an event pays no more than its table follows as places of different
  groups do not meet (`Ladder`), twice the table for relays.
* `CapsKept`. Who the pool has taken forfeits nothing, and who takes a place, be it worth 0, and is turned
  away by the pool found no room. What an event's own cap decided has to be read off the points, which tell it where a
  place is worth something, as do those behind it where the table falls (`Falls`). `Load`, `Unit` and `Cap` put the cap of an event and that of a pool in one form. A
  load only grows along the groups and never passes its cap, and whoever is turned away with
  room for a share left finds the team full at the end (`Overfull`). `Pooling` carries the pool over events.
* `OthersUndisturbed`. Two fields are `Matched` when the same athletes can earn points in them, in the
  same order and at the same places. Groups do not correspond one to one, as a group of
  exhibition swims alone has no partner: the proof goes over the athletes scored so far and shows that
  the standings after them agree (`StandingsAlike`).

**Only model-checked**: `EveryCallSettles`, `EditsSettle`, `CrawlsEnd`, `RequestsEnd`. Liveness and
ENABLED are out of reach of the installed provers. Every other property of the passing runs is a theorem.

## 5. Not modelled

* **What a restore in PostgreSQL promises.** `replaceAll`'s comment
  (`PgWorkspaceService.ts:223-225`) says that a workspace's revision counter moves
  forward. It counts from versions read before the locks, so after a save in between the
  restored row may carry the very version that save was given: `RestoreMovesForward` of `PgStore` states it and TLC refutes it. The path is
  modelled; the properties of `pg_sessions` hold within a life that no save wrote into
  blindly.
* **The tab over PostgreSQL.** A save's answer is read back after COMMIT and may carry a
  later version, by another user (`PgWorkspaceService.ts:211`). `WorkspaceSave` composes the
  tab with SQLite, where this cannot happen; the product with `PgStore` is too large for TLC.
* **In modelled components**: `PROJECT.json` says for each what its model leaves out. The
  larger parts are the creation and import of workspaces in the client, payload checks
  and tenant scopes of the routes, the mirror directory and the start-up backup, the
  writing of the first JSON file, the columns of migrations 2 to 8, the PostgreSQL
  migration, the import of the JSON file, the read routes of captures, the parsing and panel of the meet
  crawl, the All-teams dialog and the search of the optimizer, and in scoring: preliminary
  dives, time trials, the tables `relayPoints` and `divingPoints` of their own that dual meets have for relays and
  dives, the `relayEligibleFromScorerPool` rule, place points printed on
  the sheet, recruits (`prepareRecruitsForScoring`) and the derivation of the roster.
* **Sign-in and attempt limiter.** The limiter is a counter changed in one synchronous call;
  a model would restate it. Tokens, passwords and cookies are library calls.
* **Parsers, presets, Python backend, user interface.** Pure functions over text, numeric
  optimisation and drawing: no state others rely on, no interleaving, and properties that
  unit tests state as well.

These last parts are most of the repository. Of its 135,000 lines of implementation the
larger share is React components, HTML and PDF parsing, string classification, seed
data and numeric code; the protocols and state machines are a few thousand lines,
and the modules model most of those. Covering a third of all lines would mean transcribing parsers.

## 6. Plan

Done: saves, both SQL stores, the JSON file, the opening of the SQLite file, captures, both
crawls with pool and fallback, backups, optimizer step, scoring. Next, in this order:

1. The tab against an abstraction of `PgStore` whose answers may carry a later version.
2. `Backups` over the JSON and PostgreSQL stores, with the mirror directory.
3. The meet crawl over `CaptureStore`, in place of its input of stored pages.
