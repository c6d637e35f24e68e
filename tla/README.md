# Rill Developer: a verification project in TLA+

TLA+ models of the stateful core of this repository (its schedulers, the two
stores the runtime keeps in step, the state of the node server and what follows
it), the TLC configurations that check them, and proofs, for all values of the
constants, of every safety property that holds of them.
Paths are relative to `src/`.

1. [The system](#1-the-system)
2. [What is hard, and what must be right](#2-what-is-hard-and-what-must-be-right)
3. [The modules](#3-the-modules)
4. [The runs](#4-the-runs)
5. [Fairness](#5-fairness)
6. [What is proved](#6-what-is-proved)
7. [Where the code and what it says of itself differ](#7-where-the-code-and-what-it-says-of-itself-differ)
8. [Plan](#8-plan)
9. [What is not modelled, and why](#9-what-is-not-modelled-and-why)

`PROJECT.json` is the machine-readable companion: components, runs, theorems,
hazards at their lines, and for every definition the lines it models.

## 1. The system

Rill Developer imports files as tables, lets the user write SQL models on them,
profiles both, and shows dashboards. It is made of a Go **runtime** (gRPC/REST
over an embedded DuckDB), a Node **server** (`web-local`, the state of the
application and the actions on it) and a Svelte **user interface** that holds a
copy of the server's state.

    browser copy of the state  <-- patches, initial state --  SocketServer
          |  actions (socket, REST)                              ^
          v                                                      | patches
    DataModelerService --> *Actions (model, table, ...) --> DataModelerStateService
          |                        |                        (BatchedStateUpdate)
          |          ActionQueueOrchestrator                     |
          |          (PriorityActionQueue, Heap)        EntityStateSyncService
          |                        |                             |
          |                  DatabaseService                state and model files
          |                        | HTTP
          v                        v
    Go runtime: server.go -- connectionCache -- DuckDB driver -- priorityworker -- DuckDB
                   |                                 |
                catalog (rill.catalog)        one pooled connection

### Go runtime (`runtime/`)

| Component | State | Operations | Interacts with |
|---|---|---|---|
| **priorityworker** `pkg/priorityworker` | heap of jobs, the current job's `doneCh`, `paused`, `stopped`; per job `err`, `doneCh`, heap index | `Process`, `Pause`, `Unpause`, `Stop`; the event loop and a `handle` goroutine per job | channels with its callers; the DuckDB driver runs every OLAP statement through it |
| **catalog and migrations** `server/migrations.go`, `server/catalog.go`, `drivers/duckdb/catalog.go` | rows of `rill.catalog`, tables, `catalogCache` | `MigrateSingle`, `MigrateDelete`, `TriggerRefresh`, `TriggerSync`, lookups | several statements per request, each its own trip to DuckDB, no transaction around them |
| **instances, repos, queries** `server/{instances,repos,queries,metrics_views}.go` | registry (SQLite), LRU `connectionCache` | CRUD, one driver call each | registry, connection cache |
| **DuckDB driver** `drivers/duckdb` | one pooled connection, the worker, migration version | `Execute`, `Ingest`, `Migrate`, `Close` | priorityworker |
| **other drivers and connectors** | none of their own | SQL, files, downloads | |
| **graceful shutdown** `pkg/graceful` | server goroutine, `serveErr` | `ServeGRPC`, `ServeHTTP` | parent context |
| **SQL parsing and native library** `sql` | GraalVM isolate | parse, transpile | |

### Node server (`web-local/src/common`, `web-local/src/server`)

| Component | State | Operations | Interacts with |
|---|---|---|---|
| **priority action queue** `priority-action-queue` | heap of entries (one per entity id), actions of each, `running`, timers, promises | `enqueue`, `clearQueue`, `updatePriority`, `run` | every database action of the server |
| **priority heap** `Heap.ts` | array and index map | `push`, `pop`, `peek`, `delete`, `updateItem` | the queue |
| **model editing** `ModelActions.ts`, `ProfileColumnActions.ts` | a model's query, name, status, error, profile, preview; DuckDB's views | `updateModelQuery`, `collectModelInfo`, `updateModelName`, `deleteModel` | queue, state service |
| **batched state updates and client copy** `BatchedStateUpdate.ts`, `Debounce.ts`, `DataModelerStateService.ts`, `SocketServer.ts` | callbacks per service, debounce timers, waiters, the store; messages and the browser's copy | `dispatch`, `waitForAllUpdates`, patches | every state change |
| **sources** `TableActions.ts`, `DuckDbConnection.ts` | persistent and derived tables, polling timer | import, drop, profile, sync with the runtime's catalog | queue, runtime |
| **active asset and profile priorities** `ApplicationActions.ts` | active entity, priorities of queue entries | `setActiveAsset`, `updateFocusProfilePriority`, ... | queue |
| **action dispatch, application status** `DataModelerService.ts` | running actions, application status | `dispatch` | all actions |
| **persistence** `sync-service` | state file, model files, `lastUpdated` | periodic sync, shutdown | file system, state service |
| **entity state services** | a list of entities each | add, delete, move, update: one synchronous update each | batched state |
| **database actions** `database-service` | none | SQL texts over HTTP | runtime |
| **metrics definitions, streamed responses** `rill-developer-service`, `RillActionsChannel.ts` | measures, dimensions; a channel per request | CRUD with validation, streaming | runtime |
| **product metrics, notifications** | none | fire and forget | |
| **set-up and command lines** | none | construction in a fixed order | |

The **user interface**, the **cloud server** (`server-cloud`: independent CRUD
requests over Postgres), generated code, documentation and build tools complete
the repository.

## 2. What is hard, and what must be right

Everything here is a scheduler, or code that is suspended inside one. The Go
worker has four kinds of goroutines around unbuffered channels and a lock. The
Node server runs one callback at a time, but each action is suspended at every
`await` of a database action, for as long as the queue and DuckDB like, and then
goes on with what it read before. What is kept in two places (objects and
tables, sources and entities, models and files) is written in two steps with
something else in between.

* **Worker**: one job at a time by priority (DuckDB has one connection); no lost
  wake-up when jobs end, arrive and are cancelled around a pause; no send on or
  close of a closed channel; `Stop` returns and leaves nothing running; `Process`
  returns, with an error that says what happened to the job.
* **Queue**: each enqueue on an idle queue sets a timer, so several timers run one
  loop; clearing leaves empty entries in the heap which later enqueues revive;
  priorities change in place. Every promise is settled once, one action is in
  flight, the best entry goes first, cancelled means never run.
* **Model editing**: an edit abandoned by a newer one cannot be interrupted while
  DuckDB has its statement and goes on afterwards. The last edit must win, the
  model must come to rest, every call must return.
* **Batched state**: throttled and direct updates race a timer and callers that
  wait for them; a throwing callback discards its whole batch; clients connect
  between patches. Updates are applied in order and once, and a client's copy is
  the store.
* **Catalog**: a request of the runtime is a row of statements with no transaction
  around them. Another request comes between any two, and each may fail, or be
  cancelled after its effect. What succeeds undisturbed has to do what it says,
  whatever was left half done before it, and a failure must not lose data.
* **Sources**: a timer polls the runtime every 500 ms and does not wait for the poll
  before it; a poll goes over a list of entities that others change under it, and
  each profile cancels the jobs of the one before. In the end the entities have to
  follow the runtime, in pairs, and none may be shown as busy for ever.
* **Persistence**: models, state file and folder are each changed by somebody else
  between a read and the write that follows from it; time stamps decide who wins,
  and the server may be killed anywhere. The three have to agree in the end, and
  the server's own writes must not come back as edits.
* **Runtime as a process**: requests that find the cache empty race to open the
  connection; rows of one query keep the only connection; a signal, a server that
  cannot listen and one that fails come in any order. Every request and `Serve`
  have to end, and no request may be in progress after `Serve`.

`PROJECT.json` has each of these hazards at the line where it bites, with the
properties that would catch it, or a note where none does.

## 3. The modules

    PriorityWorker --INSTANCE--> SerialExecutor <--INSTANCE-- RuntimeServer
                              (abstract specification)

    ActionQueue --INSTANCE--> PromiseQueue
         |                    (abstract specification)
         '--EXTENDS--> Heap

    component            theorems                  constants for TLC
    PriorityWorker       PriorityWorkerProofs      MCPriorityWorker
    ActionQueue          ActionQueueProofs         MCActionQueue
    Heap                 (in ActionQueueProofs)    MCHeap
    ModelEditing         ModelEditingProofs        MCModelEditing
    BatchedState         BatchedStateProofs        MCBatchedState
    CatalogMigration     CatalogMigrationProofs    MCCatalogMigration
    Sources              SourcesProofs             MCSources
    EntitySync           EntitySyncProofs          MCEntitySync
    RuntimeServer        RuntimeServerProofs       MCRuntimeServer

A module of theorems and a module of constants each EXTEND their component's module.
Definitions named `X_mut...` beside a definition `X` are plausible bugs of the
code `X` models; no specification uses them. Each property is shown to be broken
by one of them (`mutants` in `PROJECT.json`).

### PriorityWorker (priorityworker.go)

| Variable | In the code |
|---|---|
| `caller[j]` | where the goroutine inside `Process` for job `j` is: before the read lock, `sending` on `enqueueJobCh` (with the lock held), `waiting` in the select, `cancelling` (sending on `cancelJobCh`), between the write and the read of `job.err` |
| `handler[j]` | the `handle` goroutine: spawned, running the user's handler, about to close `doneCh`, ended or bailed out |
| `err`, `closed`, `cancelled`, `ret` | `job.err`, whether `doneCh` and `ctx.Done()` are closed, what the call returned |
| `loop`, `pq`, `current`, `paused` | the event loop, the heap, whose `doneCh` is `currentDoneCh`, `paused` |
| `stopper`, `toggle` | the call of `Stop`; a `Pause`/`Unpause` blocked on its channel |

The channels are unbuffered, so a send and its receive are one step of the loop
with a blocked sender: `Enqueue`, `ReceiveCancel`, `TogglePaused`. The read lock
is held from `Process` to `Enqueue`; `Stop` waits for it (`LockFree`), and a
waiting writer keeps new readers out. Go's `select` takes any ready case, which
is why `SeeCancelled` is possible when `doneCh` is closed too. Writes to `job.err`
are steps of their own, because nothing synchronises them.

`SerialExecutor` is what the callers are promised: a job is submitted, started
when nothing runs and nothing queued outranks it, finished, or dropped for good.
`ImplementsExecutor` is the refinement under the mapping `jobStatus`.

### ActionQueue (ActionQueueOrchestrator.ts, PriorityActionQueue.ts)

Actions are numbered as they are enqueued. The heap is the one of module `Heap`:
`array`, `idxOf` and `prio` are its variables, and `entries`, the ids in the map of
entries, are its contents. `queue[id]` has an entry's actions, `timers` counts the
pending `setTimeout(() => this.run())`, `inflight` is the dispatch that `run()`
awaits (a set, so that two loops can be seen), `outcome[a]` how the promise was
settled. Steps are what JavaScript runs without a break: a timer's `run()` up to
its first dispatch (`Run`), the rest of the loop after an answer (`Complete`,
which settles the promise and takes the next action), `Enqueue`, `ClearQueue`,
`UpdatePriority`. `Dropped` is the heap after `dequeue`'s while loop has popped the
emptied entries on top; the action is then taken from the entry on top.

`PromiseQueue` is what the callers are promised, without heap, entries, timers and
loop: an action asked for waits under its id until it is served or cancelled, once;
one action is served at a time, the oldest of an id that no other waiting id outranks.
Two facts of the implementation show through: when an id has nothing waiting, a new
request may or may not change its priority (it does unless its emptied entry is still
in the heap), and a call of `run()` that finds nothing is a turn in which nothing
happens. `ImplementsPromises` is the refinement: `waiting[id]` is the set of the actions
in the id's entry (`Waiting`), `current` is `inflight`.

### Heap (Heap.ts)

The array and the index map, with `push`, `pop`, `delete` and `updateItem`. The items
are the queue's ids, one entry each. Operations are operators on the heap as one
value, since the queue does several of them in one step. A while loop is its body
(`UpOnce`, `DownOnce`) iterated as often as there are items: a recursive function on
the number of rounds, with `m` once more when the code breaks.

### ModelEditing (ModelActions.ts, ProfileColumnActions.ts, ModelStateActions.ts)

One model, its views in DuckDB, and up to `MaxCalls` requests. `model` is the
server's record of the model, where `error`, `profile` and `preview` name the
query they come from. A job is a database action in the queue with the call that
awaits it; `queue` has the jobs of the model's id, `columnJobs` those of its
columns' keys, `running` the one DuckDB has. `settled` holds jobs whose promise
is settled and whose call has not gone on; `Calm` says that microtasks run before
the next timer, answer or request. Each action named after a continuation
(`QueryError`, `EmptyQuery`, `CollectModelInfo`, `ViewCreated`, `ColumnsKnown`,
`CopyPreview`, `Part`, `Renamed`, `ModelGone`) is what one call does from one
`await` to the next. The queries stand for what DuckDB can answer: the empty
query, one that does not bind, one that binds and fails when run, one that copies
a source (`Copies`), one that copies a relation that is no source, such as another
model (`ModelCopies`), and good ones. `ColumnsKnown` has the three ways the query's
text can lead: `CopyProfile`, `Profile`, and `NoTable`, where `table.id` throws
(section 7).

Each column is a job. Its result joins the batch of throttled updates, which every
other update applies first. A result for a column that the profile no longer has
makes the batch throw, and with it the update that applies it: `late` says that such
a result waits in the batch. The update may be the next one of any call of the model
(`BrokenOff`, `Part`, `UpdateModelQuery`, `DeleteModel`), or one of another model or
the batch's own timer, since all models share the batch (`OtherBatch`, which may add a
late result, too). A model is two entities; a deletion that a late result breaks off
leaves the derived one (`exists` without `listed`). `current` remembers the newest edit,
until a late result breaks it off; no guard reads it.

Simplifications: the queries about one column are one job, what they find is left out
(the profile is its list of columns), `getDestinationSize` stands under
`getCardinalityOfTable`, which has the same awaits, and which relations are sources does
not change.

### BatchedState (BatchedStateUpdate.ts, Debounce.ts, DataModelerStateService.ts, SocketServer.ts)

Updates of one entity state service are numbered as they are dispatched; `store`
is the sequence of updates that produced the state, `pending` the collected
callbacks, `timer` the debounce timer, `lost` the updates a throwing callback
discarded, `immediates` and `wait` the calls of `waitForAllUpdates`. `channel` is
the connection to a browser and `client` its copy: the first message is the
initial state, the others the patches of a batch; a disconnection loses what is
under way.

### CatalogMigration (server/migrations.go, server/catalog.go, drivers/duckdb/catalog.go, duckdb/ingest and tables)

`catalog` is `rill.catalog` and `tables` the schema `main`, each by lower-case name,
which is what the catalog's unique index and DuckDB compare; a row and a table keep
the spelling they were made with, which is what `UPDATE`, `DELETE` and the lookup of a
schema compare. A handler (`phase`, `todo`) makes its lookups, one step each, decides
(`CreatePlan`, `ReplacePlan`, `RenamePlan`, the sync's comparison), and then runs its
statements one step each. `Fail` ends it before a statement has any effect, the second
disjunct of `GoOn` after: the answer is lost when a context is cancelled. Another
client of the database changes tables that are not sources (`ForeignChange`).

A property about one request has to know whether others overlapped it. `clashed` has
the handlers whose request did, `troubled` the names which a clash or an interrupted
delete or rename has touched; a request that succeeds on its own repairs its names. A
sync and a refresh that overlap do not disturb each other (the sync leaves sources
alone), unless one of them has been disturbed already. Both are history variables: no
guard reads them. A refused request and a dry run change
nothing and are not steps.

### Sources (DuckDbConnection.ts, TableActions.ts, ActionStatesMap's ResetStateToIdle)

`sources` and `data` are the runtime's catalog and tables as the server sees them;
`tables` and `derived` the persistent and derived entities; `call[c]` a poll or the
call of the user interface: where it is suspended (`at`), the state of its job in the
action queue, the names and entities a poll has still to go over. As in
`ModelEditing`, each action is what one call does between two suspensions, and `Calm`
says that microtasks run before the next event. `Named(n)` is the first entity of a name,
as `getByField` finds it. `misfired` remembers that a removal missed one of the two
entities of a source: it was gone (`findIndex` gives -1, and `splice(-1, 1)` removes the
last entity, of another source) or had another name by then (section 7); the properties
that this breaks except it.

Simplifications: a deleted source is not the active asset, the jobs of one profile are
three, and updates are applied at once.

### EntitySync (sync-service)

`store` is the state in memory, `file` the state file, `files` the folder; `known` and
`previous` the maps of files of `EntityRepository`, `sync[s]` where a sync is,
`timers` and `throttled` the calls a sync puts off by 5 ms and the throttle on them.
`clock` is the time of the last change. A sync is suspended while it reads (`Read`) or
writes (`EndFirstSave`, `EndUpdate`, `EndSync`) the state file; the folder is read and
written synchronously. `Crash` may leave the state file half written, or written
without the files of its models; `Restart` is `init`. `sources` are the names of the
sources, which `checkDuplicateModel` refuses (`Free`): a file of such a name stays a file
(`Refused`), and every sync puts the call for it off again. A rename is two steps: the
name is looked for before `renameView` is awaited (`UpdateModelName`) and given after it
(`Renamed`), when the model may be gone or the name taken. `torn` remembers that memory,
state file and folder have come apart, in one of three ways: the server was killed
before everything was saved; `unlinkSync` threw and left files to remove; or two models
have got one name (by such a rename, or as section 7 says). It is a history variable, and what each of them leads to is in
section 7.

Simplifications: one sync at a time (`Syncs` has one member in the run: a sync of some
models takes a few of its 500 ms), every event has a time of its own, the sources
survive a kill (they have a state file of their own), and whether DuckDB renames a view
or refuses is left open (it mostly refuses a name that another view has).

### RuntimeServer (server/server.go, pkg/graceful, server/cache.go, drivers/duckdb/{duckdb,olap}.go)

The composition of the runtime's process: `grpc`, `http`, `ctx`, `err` and `gateway`
are `Serve` with its two servers, its errgroup and the gateway's connection; `pc[r]`
is the handler of a request, `done` the requests whose context is done; `lock` and
`cached` the connection cache; `conn` who has the pooled connection. The worker is
`SerialExecutor`, the specification that `PriorityWorker` is proved to implement:
`status` is its variable, and `Worker!Submit`, `Start`, `Finish`, `Drop` are its
actions. Rows keep the connection until they are closed (`CloseRows`) or their context
is done (`CloseAbandoned`, which database/sql does).

Simplifications: one instance, which exists and stays in the cache, and one statement
per request; statements of `CatalogMigration` are not repeated here.

## 4. The runs

| Run | Bounds | What it shows |
|---|---|---|
| `pw_safety` | three jobs of two priorities (`MCPriority`), one cancellable; one `Stop`; any number of pauses | `ChannelsSafe`, `StopQuiesces`, `ErrorsHonest`, `StartOnlyAwaited`, `ImplementsExecutor` |
| `pw_live` | two jobs, one cancellable, with `Stop` | `StopTerminates`; `ProcessReturns`; `CancelReturnsRunning`: a cancelled call returns as long as nobody stops the worker |
| `pw_cancel_stop` | the same | violation, section 7 |
| `heap` | six items, three priorities | `IndexExact`; `PopsBest` until `delete()` is called |
| `action_queue` | three ids, two priorities, four actions, any number of clears and priority changes | `PromisesKept`, `BestFirst`, `CancelledForGood`, `ImplementsPromises`, `EverySettled` |
| `model_editing` | seven queries of six kinds, two columns, two names, three calls: edits, renames, deletes | `IdleAtRest`, `ProfileAtRest`, `NewestKept`, `CallsEnd` |
| `batched_state` | three updates, two waiters, two connections, throwing callbacks | `AppliedInOrder`, `WaitSeesUpdates`, `ClientFollows`, `BatchesEnd` |
| `catalog` | three requests of all kinds, two at a time, over two names (one of them in two spellings) and two properties; one foreign change | `SourceHasTable`, `TakesEffect`, `NothingLost` |
| `catalog_case` | one request at a time | violation, section 7 |
| `sources` | two overlapping polls without end, one call of the user interface, two changes, two names | `NeverStuck`, `Paired`, `SourcesFollow`, `ProfilesFollow` |
| `entity_sync` | three edits of models, files and sources, one kill, two names (one of them a source's), two queries; syncs without end | `OwnFilesIgnored`, `Converges` |
| `runtime_server` | a query over gRPC, one over REST, a lookup in the catalog | `Quiesces`, `ConnectionKept`, `ConnectionReturns`, `EverythingEnds` |

`pw_safety`, `action_queue`, `catalog` and `entity_sync` check `TypeOK` too; that of
`ModelEditing`, `BatchedState`, `Sources` and `RuntimeServer` is proved (`TypeCorrect`).
`OneInFlight`, `NoLostWakeup`, `StartHighest` and `ConnectionOwned` are stated without a
run: they are proved (section 6).

**Why the bounds are enough.** Three jobs are one that runs, one that is queued
and one that is about to be: two priorities let a queued job be outranked, tie and
outrank, and one cancellable job meets every state of the other two. The worker's
proofs remove the bound. In the queue four actions on three ids are enough for an
entry to be emptied, revived and tie with another one while a dispatch is awaited,
and for the root of the heap to have two children; here, too, the proofs remove the
bound. Six items fill a heap of three
levels with a node that has one child, and `delete()` can put an item of one branch
into another. Three calls on a model are two abandoned edits, or one and a rename or
delete, and the one that must win; late results of other models need no call. The proofs
remove this bound. Three updates are a throttled one, a direct one
that calls through, and one after it. Two requests on the catalog overlap in every
way, and the third one meets what they left; a third name would only be one that
nobody touches. Two polls are one that runs and one that begins under it: while both
run, the change between their answers makes one of them stale, and one further change
comes under the awaits of either. Three edits of models, files and sources with a kill are an edit of each
side and one between read and write; a source beside a file, or dropped from beside it,
takes two of them. Three requests on the runtime are one that
opens, one that waits for the lock and one that comes after, and one that holds the
connection while the worker and a lookup wait for it.

`delete()` moves the item it puts into the hole down, never up, so the order of the
heap is lost when that item comes from another branch. Nothing calls `delete()` yet:
`Heap` has it, and `PopsBest` is about the steps of the other operations from a heap
that is in order.

Runs switch the deadlock check off where the system may come to rest: the
environment owes no further job, edit, update or request, every bound on their number
stops them, and a runtime that has shut down is done. `Heap`, `Sources` and `EntitySync`
have no such state (their timers go on) and check it. Where progress matters it is a
temporal property.

`ProfileAtRest` has three exceptions, each of which the run needs: an edit that a late
result broke off (`current = 0`), where nothing is claimed but that the call returns and
the model is idle; a copy of a relation without a Table entity, which has its view and no
error but neither profile nor preview; and models that were renamed, since a rename
between `collectModelInfo`'s start and its later awaits loses the profile (all in section
7). `NewestKept` excepts renames, too: one that waits behind an edit is cancelled by the
edit's `clearQueue`; nothing in the repository says whether that is intended. `IdleAtRest`
and `CallsEnd` hold without exception.

A waiter whose batch throws stays until the next batch of the service, and whether
there is one is up to the user: `BatchesEnd` excepts waiters that have lost updates
made before their call.

`Converges` and `OwnFilesIgnored` except states that have come apart (`torn`),
`SourceHasTable` names that a clash or an interrupted rename has touched,
and `ProfilesFollow` polls that cancel each other for ever: what happens in these
cases is described in section 7. `Converges` also lets a file without a model be, as long
as a user has written it and a source has its name; once the source is dropped the file
has to become a model.

## 5. Fairness

* **Worker** (`FairSpec`): weak fairness of every step of the loop, of the handler
  goroutines, of a caller inside `Process` and of `Stop` once it is called. Go
  schedules runnable goroutines, and `select` picks at random among the ready
  cases, so a case that stays ready is taken; the handler is assumed to return.
  `Process`, `Stop`, `Pause`, `Unpause` and the cancellation of contexts are the
  environment's and have no fairness; `ProcessReturns` is therefore stated for a
  worker that does not stay paused.
* **Queue**: timers fire (`TimerFires`, the part of `Run` that decides whether it is
  enabled) and DuckDB answers (`Answered`, the same part of `Complete`).
* **Model editing**: `StartRun`, `Complete`, and continuations of settled promises.
* **Batched state**: timers and immediates run, messages of a live connection arrive.
  Nothing is assumed of `Connect`, `Disconnect` or the dispatch of updates.
* **Catalog**: none; every property is a safety or action property.
* **Sources**: strong fairness of each call. Its steps are disabled again and again
  while others run (`Calm`, one job at a time), and Node's event loop takes timers and
  answers in turn: no call is passed over for ever. Nothing is assumed of the user
  interface or the runtime's sources.
* **EntitySync**: weak fairness of each sync (the timer of 500 ms, reads and writes of
  the state file), of the timers of 5 ms, and of `Restart`, since a property about
  what a restart repairs needs one. Not of edits and crashes.
* **RuntimeServer**: weak fairness of the servers' goroutines, of each handler, of the
  worker and of database/sql, which closes the rows of a context that is done. A
  statement is assumed to end. One fairness condition for all steps of the servers or of
  the worker is enough because each such step is taken finitely often. That a request
  waiting for the connection gets it follows from there being finitely many requests.
  Nothing is assumed of signals, failures, arrivals and callers that leave.

## 6. What is proved

TLAPS checks the theorems of eight modules, for every set of jobs, ids, names, queries
or requests and any number of updates, calls, edits, kills and polls: the bounds of the
runs are gone. Each module has one inductive invariant (`IInv`; in `EntitySyncProofs`
`TypeInv` and `OwnInv`), lemmas which show of each action that it keeps it, and the
theorems that follow from it. A theorem about an action
property shows of each step from a state of the invariant what the property claims.

The assumptions on the constants are the named ASSUMEs of the component's module: the
numbers are natural numbers, priorities are integers, and values that stand for "none"
are not values of the code. Where more is assumed it is said below.

**PriorityWorker.** `IInv == TypeOK /\ LoopInv /\ \A j \in Jobs : JobInv(j)`.
`OneAtATime` is not inductive: nothing in it says that a job the loop may start
now is not already running. `JobInv` ties a job's caller, goroutine and membership
of the heap to each other (a job in the heap has no goroutine; while the loop is
in its select its `doneCh` is open and its caller still awaits it; a started job is
the loop's current one; who has not been answered is queued, started or closed) and
says where each error can come from. `LoopInv` adds what the loop knows (the
current job has been started; an idle loop has an empty heap; a loop that has left
its select saw `stopped`; a loop that has exited left every queued job closed) and
that nobody holds the read lock after `stopped`. From `IInv`:
`TypeCorrect`, `MutualExclusion`, `NeverIdleWithWork`, `NoChannelPanic`,
`StopIsQuiescent`, `ErrorsAreHonest`, the action property `StartsAreSound`, and
`Implementation`: every behaviour of the worker is one of `SerialExecutor`. The last
is what entitles `RuntimeServer` to use `SerialExecutor` in the worker's place.
Assumptions: `NoJob \notin Jobs`, priorities are integers, `Cancellable \subseteq
Jobs`, `MayStop \in BOOLEAN`.

**Heap** (in `ActionQueueProofs`). `HeapInv`, that the map has the items of the array
and each at its index, is inductive as it stands; the work is in the loops. `LoopEnds`
says of any loop whose body keeps a set of states, and lowers a number unless it changes
nothing, that it stays in the set and has broken after that many rounds. `UpsLoop`,
`DownsLoop` and `DroppedIs` apply it: an index that halves, one that approaches the end
of the array, a heap that shrinks. The states of a move are heaps of the same items in
which at most the item that moves is out of order (`Slack`: its children do not rank
before its parent); `SwapUp` and `SwapDown` say that one round moves the disorder on, and
`TidyFrom` that it is gone when the loop breaks. `RootFirst` takes the order from
neighbours to the whole heap. Theorems: `IndexIsExact` (with `delete()`),
`PopTakesBest`, and `HeapStaysInOrder` for the operations that the queue uses. That
the recursive functions exist at all is `LoopExists`. Assumption: priorities are integers.

**ActionQueue.** `IInv == TypeOK /\ InOrder(prio, array) /\ QueueInv /\ LoopInv`, where
`TypeOK` includes `HeapInv`. `Dequeues` is what the heap is used for: after the emptied
entries on top are popped, the entry on top is a best one among all that have actions. `PromisesKept` needs that
an entry's actions are in the order of their numbers and that no action is in two
entries or both waiting and in flight, else settling one could settle another;
`OneInFlight` needs `running = (inflight # {})`, which is what the guard of `run()`
is for; `TypeOK` bounds the timers by the enqueued actions. From `IInv`:
`Invariance`, `TypeCorrect`, `PromisesAreKept`, `OneAtATime`, `NeverIdleWithWork`,
`DispatchIsBest`, `CancelIsFinal`, and `Implementation`: `Init` and every step map to
`PromiseQueue` (a `run()` that finds the loop running is a stutter, `DispatchServes`
is the turn of the loop, `EnqueueAsks` needs that an id without entry has nothing
waiting). Assumptions: priorities are integers,
`MaxActions` a natural number.

**RuntimeServer.** `IInv == TypeOK /\ ServerInv /\ \A r : CacheInv(r) /\ ConnInv(r)`.
`ConnectionKept` needs to know that the lock of the cache is held by exactly the handler
that opens the connection, and that nothing is cached meanwhile; `ConnectionOwned`, which
stage of which handler goes with each owner of the connection, and that a job is with the
worker only while its handler is in `Execute`; `Quiesces`, that a server which has not
begun or has drained has no handlers. Theorems: `TypeCorrect`, `NothingAfterServe`
(`Quiesces`), `OpenedOnce` (`ConnectionKept`), `NoLeakedRows` (`ConnectionOwned`: the
rows of a job that has ended do not outlive their handler and context), and `WorkerUsed`:
the composition's part of the worker is a behaviour of `SerialExecutor`, so that nothing
is asked of the worker that `PriorityWorker` does not promise. Assumptions: REST requests
and queries are requests.

**BatchedState.** `IInv == TypeOK /\ AppliedInOrder /\ ClientFollows /\ \A w : WaitInv(w)`.
Store and batch together are in the order of dispatch, and an update is in one of them or
was discarded; a waiter that goes on has the updates before its call in the store. The
client's copy with the patches under way, in their order, is the store: `Follows` is
shown to be kept when a patch is sent, received or lost with its connection. Theorems:
`TypeCorrect`, `UpdatesInOrder`, `WaitersSeeUpdates`, `ClientIsReplica`.

**ModelEditing.** `IInv == CallsInv /\ EditInv`. `CallsInv` says that no job is pending
twice, that a busy call waits for a pending job for each of its parts, and that a status
other than Idle has an edit that will reset it; `ReturnsToIdle` follows. `EditInv` follows
the newest edit from its validation over its view and columns to its profile (`Stage`),
and bounds at each stage what the older calls, which cannot be stopped, may still do:
whatever they have in DuckDB ends before the newest view is made, and what a validated
call cancels is older. That there is a newest edit to follow holds of every model that was
not renamed; that it is the current one, and at one of its stages, is claimed while it is
`Going`: the model is listed and no late result has broken the edit off. What an older
call does with a bad batch costs that call alone; only when the newest edit itself applies
one is `current` set to 0. `NewestNeverCancelled` and
`LastQueryShown` (`ProfileAtRest`) are its ends. Assumptions: the kinds of queries overlap
only as they can (an invalid query does not fail when run, nothing copies both a source and
something else), and no column is named like a kind of job.

**CatalogMigration.** A handler that nobody disturbs knows, for each of its names, what
its earlier statements left there (`Known`, by request and number of statements left),
and a sync knows that wherever catalog and tables disagree it has a statement for it
(`SyncKnows`); `Pairs` says that two handlers which work for one name know of it. What a
handler knows of a name depends on that name's object and table only, so a step of
another handler keeps it. `SourceHasTable` is part of the invariant; `Effective`
(`TakesEffect`) reads it at the last statement and `RenameLosesNothing` (`NothingLost`)
at a failure. Assumptions: spelling is a function to lower case, there are finitely many
names, and foreign data is not a source's.

**Sources.** `IInv == TypeOK /\ CallsOk(call) /\ Attended(call, derived) /\
RollsBack(call, tables, derived)`. `NeverStuck` is not inductive, for a cancelled import
counts as attending to its source and will not reset it: `Attended` says that a busy
source has another one that will, and `RollsBack` that an import over a known table finds
the persistent entity if the derived one is there. `Paired` is inductive with the types,
among them that no id is given twice. Theorems: `TypeCorrect`, `NoneLeftSpinning`
(`NeverStuck`), `EntitiesPaired` (`Paired`). Assumptions: there are finitely many polls.

**EntitySync.** `TypeCorrect` holds however many syncs overlap. Its invariant `TypeInv`
adds to `TypeOK` that syncs run, and calls are put off, only while the server is up.
What the user has asked for (`RequestsOK`) is kept on its own. `OwnIgnored`
(`OwnFilesIgnored`) assumes `OneSync`, that syncs do not overlap, and is
false without it (section 7). `OwnInv` says, of states that have not come apart, that the
models of the state file have the queries the server has written last (`SameQuery`),
that every file which the server has written last has its model in the state that is or
will be saved, or is known to have had one (`HasModel`, by where the sync is), and which
state is where meanwhile (`Places`). The step that makes it necessary is the end of
`getAll`: a file that the server has written and whose model is gone is removed in the
same step in which the map of files forgets it. A kill needs `Agreed`, where a refused
file is one that a user has written.

Induction over the indices of a sequence, the levels of a heap or the rounds of a loop,
and the largest of a set of time stamps, are reduced to a least element of a set of
natural numbers, which the library gives without an operator parameter (`WFMin` with
`NatLessThanWellFounded`).

**Only model-checked.** Liveness (`StopTerminates`, `ProcessReturns`,
`CancelReturnsRunning`, `EverySettled`, `CallsEnd`, `BatchesEnd`, `SourcesFollow`,
`ProfilesFollow`, `Converges`, `ConnectionReturns`, `EverythingEnds`: fairness and
`ENABLED` are beyond the prover). The two runs of section 7 that find a violation stay
with TLC as well.

## 7. Where the code and what it says of itself differ

Two runs show a disagreement between the code and its comments:

| Run | What happens |
|---|---|
| `pw_cancel_stop` | After `Stop` the event loop has returned and nobody receives from `cancelJobCh`; a `Process` call whose `select` takes `ctx.Done()` blocks for ever. The comment promises an early return "if ctx is cancelled or the worker is stopped". |
| `catalog_case` | A source replaced under another spelling of its name is found, its table is replaced, and no row is updated: the object keeps the old SQL. The comment says that checks are case-insensitive. |

The following were met while modelling. The models have this behaviour, and the
properties say what they except because of it.

*Worker and queue.*
* `handle` closes the `doneCh` of a cancelled job without setting `err`
  (`priorityworker.go:165`); `Process` may see `doneCh` first and return nil for a job
  that never ran. `ErrorsHonest` allows nil there; the comment (`:49`) promises a
  return "when the item has been dequeued and processed".
* `setActiveAsset` ("upgrade profile priority of newly selected asset",
  `ApplicationActions.ts:62`) names the queue entries after the asset that was active.

*Model editing.*
* An abandoned edit that DuckDB had already taken clears the model's error after the
  newer, invalid edit has set its own (`ModelActions.ts:242`). `ProfileAtRest` is about
  good queries.
* `collectModelInfo` reads the table's name once (`:187`); a rename that DuckDB runs
  before its later statements makes them fail on a good query. A rename that waits
  while an edit is validated is cancelled by the edit's `clearQueue` (`:199`).
* `updateColumnSummary` and `updateNullCount` guard against a model that is gone, but not
  against a profile that an empty query has cleared or another query replaced
  (`ProfileColumnStateActions.ts:52`, `:73`). They throw inside the batch, which is
  discarded, and the direct update that applied it throws in its caller
  (`DataModelerStateService.ts:257`): the newest call, perhaps, which then ends with its
  query stored and without view, profile or preview, or before it has stored its query; or
  a deletion, which leaves the derived entity. `ProfileAtRest` excepts edits that were
  broken off so.
* `select * from m`, where `m` is a model or any other relation without a Table entity, is
  a good query that takes the branch for copied sources; `getByField` finds nothing and
  `table.id` throws (`ModelActions.ts:274`). The view is there and the error cleared, and
  there is no profile or preview, nor a message. `ProfileAtRest` excepts it.

*Catalog.*
* A creation or replacement reads its object first, ingests, and writes the object
  last: two that overlap leave the SQL of one and the table of the other, and one of
  them may fail on the unique index.
* A refresh that overlaps a deletion ingests the table of the deleted source again; its
  update then finds no row, and a sync adds the table as one that is not managed. From
  then on migrations of the name are refused.
* A sync compares a catalog and a schema read at two moments with whatever is there
  when its statements run.
* A delete drops the table without `IF EXISTS` (`migrations.go:58`): a source whose
  table is gone cannot be deleted. It can be created again with `create_or_replace`.
* A pure rename writes its object without a schema.
* After a replacement spelt differently, a sync fails on `lower(name)`.
* `catalogCache` is reset but never read.

*Sources.*
* The roll-back of a failed import ("Delete the table entirely.",
  `TableActions.ts:491`), and `dropTable`, delete by an id that a poll may have removed
  meanwhile; `findIndex` gives -1 and `splice` removes the state of another source
  (`misfired`).
* The roll-back of a new table looks its persistent entity up by name after it has
  deleted the derived one. If the entity has another name by then, `existingTable` is
  undefined (`TableActions.ts:508`): the persistent entity stays without a derived one
  (`misfired`, too). The proof of `EntitiesPaired` fails without this exception.
* Two overlapping polls that profile the same source can cancel each other's jobs for
  ever: each cancellation sets the entity idle, which is what the next poll waits for.
  It is the premise of `ProfilesFollow`.
* `syncTable` profiles again only if both row count and columns differ.

*Persistence.*
* With two syncs at a time (a sync that takes longer than 500 ms) the second finds the
  map of files emptied by the first and takes every file for one nobody knows.
* A kill between the state file and the files of the models leaves old files that are
  older than the state: they are neither taken nor written again until their model
  changes (`torn`). A half written state file is read as an empty state: the models are
  gone until the next edit, and then come back from their files with new ids.
* A model that is deleted, and whose file the user edits before a sync has read the state
  file, comes back from the older state with its edit; if the user has meanwhile made a
  new model of the same name, there are two (`torn`).
* A file that has the name of a source is refused as a model at every sync, with a
  notification each time the throttle lets the call through (`ModelActions.ts:610`), and
  never becomes one unless the source is dropped (`Refused`). Nothing removes it.
* `updateModelName` looks for the name before it awaits `renameView` and gives it after
  (`ModelActions.ts:421`, `:459`): a model that is added under the name meanwhile has the
  same name then (`torn`). Two renames to one name are possible if DuckDB does not refuse
  the second.
* A source that is found in DuckDB is added whether or not a model has its name
  (`TableActions.ts:152`); only an import checks that (`:135`).
* `unlinkSync` throws if a file is gone by then (`PersistentModelRepository.ts:131`). The
  files after it in the list are not removed, and as the map has forgotten their models
  they come back as new models (`torn`).

*Runtime.*
* The gateway's connection to the gRPC server ends with the context of `main`
  (`server.go:92`), not after the graceful shutdown of the HTTP server: REST requests
  in progress fail at once.
* `serveErr` is written by two goroutines (`graceful/http.go:28`): a clean shutdown may
  return an error.
* A gRPC server that fails by itself leaves its handlers behind (`Quiesces` excepts it).
* Nothing closes a connection whose migration fails (`cache.go:42`), that is evicted,
  or whose instance is deleted (`instances.go:50`).

## 8. Plan

Done: every module of section 3 is checked; the safety and action properties of all
are proved, and the refinements of the worker and of the action queue.

To prove next:

1. An abstract specification of a replicated store (the client has a prefix of the
   store's history), which `BatchedState` implements.
2. `EntitySync` with overlapping syncs: what remains of `OwnFilesIgnored` (an edit of the
   user is never lost to a file the server wrote before it).

To model, if anything: the measures of a metrics definition with the validation of their
expressions (`MeasuresActions.ts:141`), eviction of connections from the cache, and the
active asset.

## 9. What is not modelled, and why

The definitions cover a few percent of the lines of the repository. That is not for want
of modules: most of the lines render (`web-local/src/lib`, `web-common`, `web-cloud`:
Svelte components, stores and queries), are generated (protobuf, API clients), are texts
sent to a database (`database-service`, the queries of the drivers), translate SQL, or
are CRUD of one row or one call each (instances, repos, organisations, projects, metrics
definitions). They hold no state that two actors share and no protocol. The lines that do
are those of the modules above.

* **Left out of the modelled components**: adding and loading models, exports, moving
  models in the list, and the statistics inside one column's summary (their SQL has no
  influence on the protocol); the routing of an action to its class; telemetry; LRU
  eviction, several instances and several statements of one request in `RuntimeServer`;
  objects other than sources in the catalog (models and metrics views are refused by
  `MigrateSingle`); the order of models and the letter case of their names in
  `EntitySync`.
* **Active asset and profile priorities, action dispatch**: they reorder waiting jobs,
  which `ActionQueue` lets happen at any time, and count running actions.
* **Metrics definitions and streamed responses**: CRUD with one validation, listed as a
  hazard.
* **Entity state services** beyond what `BatchedState` says (single synchronous updates
  of a list), **database actions and other drivers** (texts sent to a database), **SQL
  parsing and the native library** (pure functions of another language), **product
  metrics and notifications** (fire and forget), the **user interface** (rendering of the
  client's copy), the **cloud server** (independent CRUD requests), **set-up, generated
  code, documentation and build tools**.
* **Abstracted everywhere**: texts, SQL, schemas, numbers of rows, log messages. A
  query is what DuckDB would answer to it; an error is the kind a caller can tell.
