# Registry-sync: verification development

registry-sync copies container images from a source registry to a target
registry.  It is a server (REST handlers, a SQLite store, a cron
scheduler, a websocket hub for the pages) and a command line tool that shares
the registry client.  This directory holds TLA+ modules for its core logic, the
configurations that check them with TLC, and theorems checked by TLAPS.

Line numbers refer to the files under `src/`.

## 1. Inventory

| Component | State it keeps | Operations | Correct when |
|---|---|---|---|
| Scheduler, `internal/scheduler/scheduler.go` | `running` (task id -> cancel function), the cron table, one goroutine per run | ExecuteTask, CancelTask, Start, Stop, ScheduleTask, runTask, sendNotification | a task can be stopped while it runs and is not blocked when it does not; every execution row gets one verdict; runs of a task do not overlap |
| Sync run, `runTask` 347-684 | three nested loop positions, `tagFailed`, `subPlatformFailed`, four counters | list and filter tags, fetch manifests, check and copy blobs, put manifests | the target is never left with a manifest whose content is missing; the counters say what happened |
| Execution and task records, `internal/db/models` | rows: status, counters, task settings | plain data | the status column moves absent -> running -> success or failed |
| Store, `internal/db/store/store.go` | the database | one statement per call | each statement is atomic; there is no transaction over several |
| HTTP handlers, `internal/api/handlers`, `cmd/server/main.go` | none | create, update, delete of registries, tasks, channels; run and stop | a row deleted or saved in part breaks no run in the middle; a password is not lost; the schedule is what the user asked for |
| Websocket hub, `internal/websocket/hub.go` | map of clients, a broadcast channel, a send channel per client | Run, Register, BroadcastProgress, BroadcastLog, ReadPump, WritePump | a page sees a gapless prefix of the messages; no channel is closed twice; a slow page blocks nobody |
| Worker pool, `pkg/sync/worker.go` | a task channel, `errors`, three atomic counters | Submit, Wait, Stop, worker, progress snapshots | Wait returns; nothing is published that was not copied |
| Sync engine (CLI), `pkg/sync/engine.go` | none beyond a run | SyncAll, SyncRule, SyncTag, SyncManifestList, SyncSingleManifest | manifests after blobs; selected platforms only |
| Blob transfer, `pkg/registry/blob.go` | upload sessions at the target | CopyBlob: check, mount, download, three-step upload | a copy that is there already is a success |
| Manifests, `pkg/registry/manifest.go` | none | GetManifest, PutManifest, IsManifestList, GetAllBlobs, FilterManifestsByArch | every blob an image names is listed |
| Registry client requests, `pkg/registry/client.go` | none; the limiter is shared | doRequest with one retry after a 401, getBearerToken; ListRepositories, ListProjects, ProjectExists, CreateProject | who may do it gets through every challenge; a listing misses nothing that was there; a project is there before it is filled |
| Retry, `pkg/sync/retry.go` | attempt number | RetryWithBackoff | transient errors are retried, others are not, a cancelled context ends it |
| Rate limiter, `pkg/ratelimit` | a bucket of permits | Wait | the requests sent keep to the rate |
| Tag filter, `pkg/filter` | none | Match, FilterTags | an exclusion wins; the limit counts what is left; each tag once |
| Configuration, `pkg/config` | none | load, validate, GetEnabledRules | bad values are refused; the enabled rules in their order |
| Notifier, `pkg/notification` | none | one request per channel | one channel's failure neither stops the others nor changes the run |
| Web pages, `web/src` | React state | reconnecting websocket | one socket at a time |

How they meet.  A *run* request or a cron trigger calls ExecuteTask, which starts
a goroutine; a *stop* request calls CancelTask; both, and the goroutine's deferred
cleanup, share the plain map `running` and the executions table.  The goroutine
runs runTask, which talks to two registries over HTTP, saves its counters in its
row, and broadcasts through the hub.  The hub serves the pages.  The command line
tool goes through the engine and the worker pool to the same registry client.
`main` defers `Stop` and the closing of the database.

What is hard here:

* *concurrency*: ExecuteTask and CancelTask read and write one map without a lock
  and with database statements in between; several runs write to one target;
  pool workers leave on a cancellation in any order;
* *failure*: each of the many requests of a run may fail, or succeed while its
  answer is lost; a failure in the innermost of three loops has to suppress two
  later uploads;
* *crash and restart*: the map, the goroutines and the contexts are lost, the rows
  and the target registry stay;
* *stale state*: runs read rows step by step while requests change and delete
  them; cron entries are made once, at the start; pages of a listing shift while
  they are read; a token is asked for what a challenge seems to say;
* *ordering and boundedness*: messages through bounded channels to clients that
  may be slow, gone, or both at once; goroutines that share one bucket of permits.

The lines at which each of these bites are listed as `hazards` in `PROJECT.json`.

## 2. Modules

| Module | Role |
|---|---|
| `Scheduler` | ExecuteTask, CancelTask, the goroutine of a run, the rows, the process |
| `ExecutionLedger` | what the executions table promises |
| `SchedulerProofs` | theorems about `Scheduler` |
| `SyncRun` | analysis and transfer loop of several runs on one target |
| `ClosedRegistry` | what a mirror promises of its target |
| `MCSyncRun`, `SyncRunProofs` | its registry content for TLC; its theorems |
| `BlobCopy` | CopyBlob request by request, under Execute and its retry |
| `AtomicCopy` | what a copy promises its caller |
| `MCBlobCopy`, `BlobCopyProofs` | its constants for TLC; its theorems |
| `WorkerPool` | the pool and SyncSingleManifest, its caller |
| `WorkerPoolProofs` | theorems about one pool |
| `TagFilter` | Match and FilterTags |
| `Engine` | SyncAll down to SyncManifestList, over `WorkerPool` and `TagFilter` |
| `MCEngine`, `EngineProofs` | its configuration for TLC; its theorems |
| `Hub` | the hub, the broadcasting runs, the pumps, the connections |
| `Feed` | what a page sees |
| `HubProofs` | theorems about `Hub` |
| `Request` | doRequest, getBearerToken and the limiter |
| `Listing` | listings and target projects, over `Request` |
| `MCListing`, `RequestProofs` | its registries and contents for TLC; theorems about both |
| `TaskCatalog` | rows of tasks, registries and channels; handlers, cron entries, what a run reads, its messages |
| `MCTaskCatalog`, `TaskCatalogProofs` | its rows for TLC; its theorems |

How they fit.  `Scheduler` has the transfer of a run as one phase, "sync", and
the steps before it as "ping" and "prepare".  `SyncRun` opens the first,
`Listing` what "prepare" does at a registry, and `TaskCatalog` what a run reads
of the database and tells its channels.  `SyncRun` and `WorkerPool` have the copy
of a blob as one step; `BlobCopy` opens it, and `AtomicCopy` is what they may
assume of it.  `Engine` composes `WorkerPool` (one pool after the other) and
`TagFilter`; it and `SyncRun` both implement `ClosedRegistry`, the server's runs
alone and the command line tool up to the partial lists described below.
`Listing` composes with `Request`: one of its callers is the listing's goroutine.
The definitions that start with a `Mutant:` comment are wrong on purpose: each
shows that a property notices a plausible mistake, and none is part of a
specification.

### Scheduler

| In the model | In the code |
|---|---|
| `Check(c, t)` | the test of `s.running` at line 101, passed |
| `ExecuteFails` | GetTask or CreateExecution returns an error (105-120) |
| `CreateExecution(c, e)` | the row is inserted as running (111-122) |
| `Register(c)` | new context, `s.running[taskID] = cancel`, `go func` (124-132) |
| `CancelTask`, `DeleteEntry` | read and cancel (689-694); delete (695) |
| `PingOk`, `PrepareOk`, `RunFails`, `SyncEnds` | the ways through runTask |
| `Save`, `SaveRefused` | UpdateExecution with the verdict, done or ignored (134-157) |
| `Exit` | notification, then `delete(s.running, taskID)` (131) |
| `Stop`, `Die`, `Restart` | Stop; the end of the process for any reason; the next start |

An entry of `running` is modelled as the run whose cancel function it holds.  A
concurrent access to the map that Go detects aborts the process, and is thus one
of the ways to `Die`.  `Stop` walks over the map in one step.  A request of a
cancelled run fails; a request that was already answered does not, so
`PingOk` is the instant of the last answer.  ProjectExists is only logged when it
fails (line 264), so a stopped run of a task with a fixed repository goes on.

`lost` and `tainted` are history variables: no guard reads them.  `lost` are the
rows no goroutine will write to again.  A task is `tainted` when two of its calls
overlapped between check and registration, or when a stop removed the entry of
a run that was still alive; `SerialisedRuns` is about the others.

### SyncRun

The three loops are three indices that start at 1.  A request is one step, taken
when the registry answers.  It may fail at any time and must fail when the run is
cancelled; a write that fails may have taken effect (`BlobFails`, `PutSubFails`,
`PutTagFails`).  CopyBlob is one step.  Two runs interleave between any two
requests, so a blob that was missing at the check may be there at the copy.
`AnalyseFails` stands for a failing ListTags, filter or GetManifest: the tag is
not in the plan.  The source does not change, every manifest has a media type, and
nobody deletes content from the target.  The target's initial blobs are any set;
its manifests start empty.  Upload of the manifest to its tag also makes it
available by digest (`Publish`).

### BlobCopy

| In the model | In the code |
|---|---|
| `Look`, `LookFails` | the first BlobExists, in Execute (320) or runTask (515, 600) |
| `Check`, `CheckFails` | BlobExists in CopyBlob (229) |
| `Mounted`, `MountRefused`, `MountFails` | MountBlob answered with 201, with 202, or not (239; an error is ignored) |
| `Get`, `GetFails` | GetBlob (245) |
| `Begin`, `BeginMounted`, `BeginFails` | initiateUpload: 202, 201 as an error, another error |
| `Send`, `SendFails`, `Close`, `CloseFails` | uploadContent, completeUpload |
| `AfterError`, `IsRetryableError`, `Backoff`, `BackoffCancelled` | RetryWithBackoff after an error |

A copy of the command line has the attempts of `retry.max_attempts`; a copy of the
server, which does not retry, is one with a single attempt.  All copies write to one
repository: repositories do not share what a check sees, and the mount is asked for
from the target repository itself.  The target registry is external: it mounts what
it has when `Mounts` is TRUE, keeps a session for each 202, and may complete an upload
whose request has failed, then or later (`late`, `LateClose`).  isRetryableError
tells three kinds of errors apart (`Errors`): the end of the context; what is transient, by its type or its text; and all others.
Every request may end with any of them, one whose context is cancelled with the
first.  `lastError` is a history variable, which no guard reads.

`AtomicCopy` lets a blob land at any time, also after its copy has failed.  In
`SyncRun` a failed copy lands at once or never: a blob that lands later is for the
other runs what the copy of another run is, a blob that appears between two of their
requests.

### WorkerPool

One action for each point at which another goroutine may see a difference: the
count in Submit, the send (blocking while the channel holds 2 x workers tasks), the
close in Wait, the end of `wg.Wait`, and for a worker the choice of its select, the
outcome of its task and the two counters.  RetryWithBackoff is in `ExecuteOk` and
`ExecuteFails`: the result of all attempts.  The module is checked as part of
`Engine`, which starts a new pool for each image.

### TagFilter and Engine

| In the model | In the code |
|---|---|
| `Match`, `FilterTags` | filter.go 43-65, 67-94 |
| `Stamps` | every tag gets time.Now() in a loop (engine.go 141-148) |
| `SomeEnabled`, `RuleSkipped` | GetEnabledRules; an error when there is none (66-69) |
| `RuleStart`, `RuleDone`, `AllDone` | SyncRule to its filter, its end; SyncAll's end |
| `RuleFails`, `TagFails`, `ImageFails`, `Fail` | an error before a pool, returned by SyncAll |
| `TagStart` | GetManifest of the tag (187) |
| `EntrySkipped`, `Chosen` | FilterManifestsByArch (202) |
| `ImageStart`, `CallerMoves`, `ImageReturns` | SyncSingleManifest, with a pool of its own |
| `ListPut`, `ListPutFails` | PutManifest of the list (226-230) |
| `Interrupt` | SIGINT |

`pending` is what is left of the loop over the entries of a tag, or the image
itself.  FilterTags sorts by a time stamp that says when the loop of its caller
reached the tag; two may be equal, and sort.Slice may then swap them: the
operator gives every result that is possible.  A regular expression is the set of
tags it matches.  The target registry is external and either refuses a list
that names an image it does not hold (`strict`) or takes it; both are initial
states, as are a dry run and a real one.

### Hub

One action for each case of the select in Run.  A handler that waits in Register
and a ReadPump that waits at `unregister` are places of the `reader`; the hub's step
takes them on.  A round over the map is one step, because only the hub writes to
send channels and a WritePump meanwhile can only make room: the same round after
that WritePump's step has the same result.  Messages are numbers in the order of
the broadcast channel.  The wire format is left out.

### Request and Listing

| In the model | In the code |
|---|---|
| `Begin`, `Permit`, `WaitCancelled` | doRequest up to Limiter.Wait (71-76), Basic credentials when they are complete |
| `SendFirst`, `FirstScheme` | the first request, with Basic credentials when they are complete (89), and its answer (78-103) |
| `NoRealm`, `TryBasic`, `GetToken` | the three ways on from a 401 (104-120, 134-217) |
| `SendSecond` | the second answer (122-129), which reuses the body's reader |
| `Answered`, `SendRest` | PutBlob after its first POST: the PATCH and the PUT of an upload (blob.go 62-200), without a permit and with no answer to a challenge |
| `Fails`, `Cancel`, `Refill` | any other answer or none; the context; time |
| `ReadPage`, `PagesFail` | listHarborRepositories; its failure drops what was read and asks the catalog |
| `ReadCatalog`, `CatalogAnswer` | the catalog's request, through `Request`, and its answer of bounded size |
| `Known`, `Create`, `CreateFails` | ProjectExists and CreateProject as runTask uses them (255-317) |
| `Inserted`, `Deleted` | other users of the registry, another run among them |

The registry is one of five kinds, by what it asks of a request and how it
challenges.  A request is told apart by the rights it needs: `get` stands for
every GET and HEAD of content, `post` for a mount, `upload` for the POST of an upload
with the PATCH and PUT after it, `put` for a manifest, `catalog` for the catalog.
`sends` counts everything that goes to the registry through doRequest or after it in
an upload, `direct` what a listing and CreateProject send to the Harbor API, past
doRequest and its limiter.  The one other request past it is PingCheck's (client.go:59),
once for each client of a run, a phase of `Scheduler`, or for a test of a registry.  parseAuthHeader cuts a header at every comma;
as the order of the actions in a scope is the registry's, `GetToken` asks for any one of
them.  A Basic challenge has the key `Basic realm`, so doRequest finds no realm and
fails.  ListProjects and ListRepositories have the same shape and are one listing
with two jobs.

### TaskCatalog

| In the model | In the code |
|---|---|
| `CreateTask`, `CreateTaskTarget`, `CreateTaskInsert` | CreateTask: both registries are looked for, then the insert (task.go 23-49) |
| `EditTask`, `ToggleTask`, `Switch` | UpdateTask, as the form and as the switch of the list send it (Tasks.tsx 206-212) |
| `DeleteTask`, `DeleteRegistry`, `DeleteChannel` | soft deletes |
| `UpdateRegistry` | the update with a password: the save alone (115) |
| `ReadPassword`, `SavePassword` | the update with a blank one: the read of the stored password (107), then the save (115) |
| `CreateRegistry`, `SaveChannel` | the other two |
| `Save`, `Insert`, `Inserted` | what gorm does: the whole row, an insert when the id is not there or deleted, the default of `enabled` |
| `Start` | the end of the process, and Start with ScheduleTask (39-96) |
| `ExecuteTask`, `LoadSource`, `LoadTarget`, `Transferred` | what a run reads, when (98-216), and its end |
| `Tells`, `Tell`, `AllTold` | sendNotification, one step a channel (701-760) |

`asked` and `atStart` are history variables: what the users asked for, and what was
there at the last start.  `sent` and `overtaken` are, too: the passwords sent for a
registry, in their order, and the registries that were sent one between the read and the
save of a blank update.  Of a run, `alive` is one: the registries that were there at some
time since it began.  A request with more than one statement has a step for each and is
carried by one of `Handlers`, of which any number may be under way; requests of one
statement need none, and come in between any two steps of the others.  A test or a ping of a registry or channel changes no row.

## 3. What is checked

| Run | Instance | Distinct states |
|---|---|---|
| `scheduler` | 2 tasks (one of a whole project), 2 executions, 2 callers | 217,553 |
| `sync_run` | 2 runs, 1 repository, 2 tags, 2 blobs, 2 images, 1 list | 481,416 |
| `hub` | 2 clients, 4 messages, buffers of 2 | 46,220 |
| `blob_copy` | 2 copies of one blob, 3 and 2 attempts | 155,043 |
| `engine` | 3 rules (1 disabled), 3 tags, 2 images of 5 blobs, 1 list of 2, 2 workers | 176,722 |
| `client` | 2 goroutines, 7 registries, 3 names, pages of 1, 2 changes, 1 permit, 2 requests each | 901,701 |
| `catalog` | 2 task ids, 2 registries, 2 channels, 1 run, 3 requests, 2 handlers | 1,066,898 |

**scheduler.**  `EntryIsLive`: an entry never outlives its run.
`SerialisedRuns`: only the two overlaps named above give a task a run the map does
not know.  `RunningIsLiveOrLost`: a row says running only while somebody works on
it, or when its writer is gone for good.  `KeepsLedger`: `Scheduler` implements
`ExecutionLedger`, with `status` as its record and `lost` as its orphans: one
verdict per row, once, none after it was orphaned.  `ClosesLedger`: every row gets its
verdict or is orphaned.  `EntryRemoved`: no task stays blocked.  `EarlyStopFails`: a
stop before the pings are answered ends in "failed", and so does a stop before a whole
project is listed.

**sync_run.**  `KeepsClosed`: the target grows as `ClosedRegistry` says, blobs
before images before lists.  `NoFailureMeansBlobs`: a run that counts no failure has
left no blob of its plan behind.  `CountersAddUp`: without manifest lists
synced + failed = total.  `RunsEnd`: a run ends.

**hub.**  `ClosedOnce`: no send channel is closed twice, in whatever order a slow
client is dropped and its reader leaves.  `InOrder`, `KeepsFeed`: what a page gets is
a gapless sequence from the moment it registered to the moment it is cut off.
`NeverStuck`, `DeadClientLeaves`: a page that does not read stops neither the
hub nor the runs, and a dead one is removed.

**blob_copy.**  `EndedMeansThere`: a copy that succeeds, and one that fails although
every request was answered, leaves its blob in the target.  `LeakBounded`: at most
two upload sessions an attempt stay open in the registry; an upload that succeeds
closes its own, the one that a refused mount has opened stays.  `CopiesAtomically`:
`BlobCopy` implements `AtomicCopy`.  `CopyEnds`: a copy ends.  `StopEndsRetries`: a
stopped copy begins at most the one attempt whose backoff was over, because a select
prefers neither case, and never waits again.

**engine.**  `MirroredSoFar`: the run goes on, and in the end returns nil, only over
tags that are in the target with the images their rule selects; of rules that write
one tag the last wins; a dry run writes nothing.  `PlansFiltered`: the
filter against a reference definition, whatever the clock does.  `PublishedMeansCopied`:
a manifest goes up only when every blob was copied, although a cancelled pool drops
tasks and Wait then returns nil.  `CountersTell`: at the end of each pool the counters
agree with what happened.  `KeepsClosed`: the target grows as `ClosedRegistry` says,
but for a list that a lenient registry takes with only the selected images.
`EngineReturns`, `NoLeak`: neither the tool nor a worker hangs.

**client.**  `ReadsGetThrough`: a read is denied only to a client that may not read,
through every kind of challenge.  `RateKept`: what doRequest and an upload send past the
limiter is bounded: four requests and one token a permit (the POST of an upload, its
repetition after a 401, the PATCH and the PUT), and the permits keep to the bucket.
`DirectBounded`: what a listing and CreateProject send past it is bounded by what there
was to list: a full page each, one for each page that insertions push back into view, one
that ends the pages, one for the project.
`ListingSound`: how much a listing may be wrong while names come and go, and that it is
exact otherwise, also when pages fail half way.  `ProjectEnsured`: a run that has found or
made its target project goes on with one that is there, however many runs race for it.
A run whose ProjectExists is not answered logs that and goes on too (scheduler.go:264,
verdict "unknown"); of it the property says nothing.

**catalog.**  `TransferHasRegistries`: a run transfers only between registries that
were each there at some time since it began.  `EveryChannelTold`: one channel's
absence or failure keeps no message from another.  `PasswordWasSent`: a stored password
was sent for its registry, and it is the last one that was, unless that one came between
the read and the save of a blank update.  `RunReported`: a run ends and tells, unless the
server dies.

The bounds.  Two callers are needed for the race between the check and the
registration, two executions for a run and the one after its stop, two tasks to see
that one does not touch the other; a third execution, which the deferred delete of the
first lets in, is covered by the theorems, which hold for any number.  One execution
row is used once; process restarts are not bounded.  In `MCSyncRun` a list of two
platforms and one image twice under one tag reach each loop's boundaries, and the image
names a blob twice and shares it with the other run.  Buffers of two instead of
256 make both channels of the hub fill with four messages.  Two copies of one blob are
enough for a race, and three attempts, the default of config.go, for an upload that is
completed before, during or after the next attempt.  In `MCEngine` five blobs go through
two workers and a channel of four; the rules have a limit that cuts, a pattern that
excludes what another includes, a list with one of two architectures, a rule that is
disabled, and a tag that two rules write.  In `MCListing` pages of one name make every
page full, two changes move names across a page boundary in both directions, and one
permit of the limiter makes the goroutines wait for each other; a caller makes two
requests, so that one is behind a permit that an upload of the other has used four times;
the lister's is the catalog's.
In `MCTaskCatalog` two requests of several statements may be under way at once; one
password besides the blank is enough to see one of them put over the other, and the
theorem holds for any number.  There three requests are enough to create, switch and delete, or to change a
row between any two reads of a run; one task has an expression, the other one that cron
refuses.  `MaxEdits`, `MaxRequests`, `MaxChanges` and `MaxMessages` are the bounds of the
modules.  Deadlock is checked in `scheduler` and not elsewhere, where everything really
ends, or waits for a request or a message.

Fairness.  Weak fairness is assumed of each goroutine that the Go scheduler runs
and whose current operation ends: registry requests have a client timeout of
300 s, messages one of 10 s, RetryWithBackoff has a number of attempts.  In `Hub` each
ready case of the select is taken some day, which Go's random choice gives with
probability one.  Nothing is
assumed of a WritePump, which a page may block, of an HTTP request of a user, of the
content's other users, of an interrupt, of the end of the process, or of its restart.

### Findings

Five runs have `expect` = violation: each checks one statement of a comment or
manual that the code does not keep.

* `one_run_per_task`: two requests pass the check "already running" (scheduler.go:101)
  before either registers.  The task has two runs, and the one that registered first
  can no longer be stopped.
* `no_failure_means_tags`: a failing PutManifest is logged and not counted; the run
  is a success with 0 failures and without its tag.
* `already_there_is_skipped`: a copy fails with "blob already exists" (blob.go:100),
  which is not retried, when another task or run has copied the same blob since its
  check (PROJECT_STRUCTURE.md:126 says that existing layers are skipped).  A digest
  that a manifest lists twice is enough.
* `challenged_put`: parseAuthHeader cuts `scope="repository:x:pull,push"` at its comma
  (client.go:204), and the request is repeated with a body that has been read
  (client.go:123); a push to a registry that asks for a token is denied to an account
  that may push.
* `schedule_as_asked`: the switch of the task list sends only `enabled`
  (Tasks.tsx:208), which UpdateTask saves as the whole row (task.go:96), so a task that
  is switched off and on again has lost its schedule and its registries; a task that
  is created switched off is stored as switched on (models/task.go:52).

Other disagreements that the models contain and no run of their own shows: the row of a
run that was cut off by a crash stays "running" and the dashboard counts it
(USER_MANUAL.md:1028; `lost` in `Scheduler`); a run stopped while it transfers ends as
success, where USER_MANUAL.md:491 says failed (`SyncEnds`); Wait of a cancelled pool
returns nil with tasks that were never executed, where worker.go:88 says "waits for all
tasks to complete" (`WaitReturn`); a refused or reset connection is a net.Error
that is neither a timeout nor temporary, so retry.go:93 gives up on it and the branch
that says "Connection errors are retryable" (retry.go:96) is not reached (`Errors` in
`BlobCopy`); CreateProject says at client.go:458 that it returns
nil for other registries than Harbor, and the run fails (`CreateFails`); a password field
left empty is said to keep the password (README.md:248, USER_MANUAL.md:260), but UpdateRegistry
reads it and saves it in a second statement, and puts an older one, or the blank of the
registry's creation, over one that was saved in between (`SavePassword`, `overtaken`);
target projects are said never to be created (USER_MANUAL.md:308, 834-836, 1087-1098), and a
run creates the one that is missing (`Create`); a task's architectures are said to select the
images (USER_MANUAL.md:352-353), and the server copies all of a list (`Entries` in `SyncRun`;
only the command line selects); the newest tags are said to be found by the creation of
their images (USER_MANUAL.md:681), and the limit takes the last of the listing (engine.go:146,
scheduler.go:396, `Stamps`); an enabled task is said to be scheduled (USER_MANUAL.md:280, 402),
and a task created, switched or deleted later is so only from the next start on (`entries`).
The five runs are those of them that take an interleaving or several steps to see.

## 4. What is proved

The theorems hold for every value of the constants, where TLC has the instances
above.  Each module proves an inductive invariant (`Invariance`, or
`EngineInvariance`), with a step for each action, and takes the properties from it.
The assumptions are the named `ASSUME`s of the modules, which TLC evaluates in the runs.

**SchedulerProofs** needs only that `None` is no task and no execution.  The
invariants of `scheduler` are not inductive alone: an arbitrary state with
them could hold a registered call without a row, or a goroutine about to give a
closed row a second verdict.  `CallersOK` (a call between CreateExecution and
Register alone knows its row, which is open and has no goroutine) and `RunsOK` (a
goroutine without a verdict owns an open row that is not orphaned) exclude that.
From it follow `TypeCorrect`, `EntriesAreLive`, `RunsAreSerialised`,
`RunningRowsExplained`, and with `StepSimulation` that the scheduler implements
`ExecutionLedger` (`LedgerKept`).

**SyncRunProofs** needs that images name blobs, lists name images, nothing is both,
and the source yields items (`ContentAssumption`, `SourceAssumption`).  In the code
nothing looks at the target before a manifest is put: two failure flags guard it.
`RunOK` says what they stand for: what is behind a loop's index is in the target, or
the flag is set.  It mentions one run, and the target only as something that grows
(`StepOf`), so the steps of other runs preserve it (`OthersKeep`): this is why
uncoordinated runs do no harm.  `RegistryClosed` is the refinement `KeepsClosed`;
`AlwaysPullable` adds that a registry filled that way resolves every tag and digest
completely at every moment.  `CleanRunsCopiedAll` is `NoFailureMeansBlobs`: here the flags
do not tell, because a PutManifest that fails sets one and counts nothing.  Its invariant
`CleanOK` says of a run that has counted no failure so far that every blob behind its
loops is in the target: whatever the loops skip, they skip only after it was counted.
`CountersCorrect` is `CountersAddUp`.  A sum over the plan has no closed form that could be
computed step by step, so the invariant says that partial sums exist: a function that each
analysed item extends by what the analysis counted for it.  `Counted` says how far into
them the transfer is, at each place of its loops.  `RunsMoveOn` is what `RunsEnd` rests on:
the position of a run (phase, tag, part of the tag, platform, part of the platform, blob,
check or copy) grows with every step in the lexicographic order, the loops are bounded by
the finite plan, and no step of another run sets it back.
The types of its variables are proved only (`TypeCorrect`), and part of the invariant.

**BlobCopyProofs** needs that a copy has a blob and at least one attempt.
`LeakBounded` is not inductive: `SessionsOK` says how many of its two sessions the
current attempt has opened at each request, and that every upload under way, late
ones included, has a session of its own; `WaitOK`, that a copy in the backoff has an
attempt left, makes the bound in `TypeOK` inductive.  From the invariant follow
`TypeCorrect`, `EndedThere`, `LeaksBounded` and, with `StepSimulation`, the refinement
`CopyRefines`: for any number of copies, blobs and attempts.
`StopsRetrying` is `StopEndsRetries`.  `StepsRunOut` is what `CopyEnds` rests on: a copy has at
most ten steps an attempt, and nobody gives it new ones.

**WorkerPoolProofs** needs a finite set of workers that is not empty.  Every task that
was submitted is in the channel, held by one worker, or executed, and in one of these
places only; the counters lag behind the outcomes by what the workers are about to count
(`CountersOK`).  A caller that publishes has seen all workers leave: either they drained
the channel, or they saw a cancellation, which then fails the upload as well.  Hence
`PublishedAreCopied` and `FinalCounters`.  What `NoLeak` rests on is proved without fairness.
`NobodyWaitsInVain`: a caller at a full channel finds all workers able to go on (none leaves
an open channel uncancelled), Wait and a return leave only workers with a step, or with a
ready case of their select.  `StepsRunOut`: a weighted count of the tasks not yet submitted,
of the queue and of the places of the workers falls with every step.

**EngineProofs** rests on it: a step of the caller or of a worker is a step of the pool,
and a new pool starts from its invariant, so `PoolOK` (no pool is at work, or the pool has its
invariant) holds of one pool after the other (`PoolsKeepPromises`).  `TurnOK` carries a tag
through its loop: an entry that the rule wants and that has left `pending` is in the target.
`OnlyOverMirrored` is `MirroredSoFar`; the case that needs care is a tag that is written
again: by the same rule it gets the same item, by a later rule that rule has begun the
tag.  `EngineKeepsClosed` maps each step to one of `ClosedRegistry`, a partial list or a
stutter: a copied blob becomes known, and only an image whose blobs are all known is
published.  It needs `EngineAssumption`: rules, listings and lists are sequences over images
and lists.  `PlansAreFiltered` is `PlansFiltered`, and has one hypothesis more, `ListedOnce`: a
registry lists a tag once.  The code sorts and cuts what it is given, so that a
listing with a repetition would leave a plan with one; a registry keeps tags as names of
manifests and lists each name once.
`FilterKeepsLastListed` says what the limit then keeps: as the stamps are the clock's, where
the clock ticks between two tags, the tags at the end of the listing, whatever their age.

**HubProofs** needs capacities of at least one.  The two ways out of the map may come in
either order; that the second finds the channel closed rests on the map, which holds a
registered client exactly until its channel is closed, and on `FreshOK`, that a connection
before its registration has nothing.  `NoPanic`, `Ordered`, and `FeedKept`, the refinement
of `Feed`.

**TaskCatalogProofs** needs bodies of the type `Body` and that `None` is no id, name or
password.  Each property rests on what a step has established before it lets go of the row it
has read: `Loaded` (the registries a run has looked up were there since it began), `SaveOK`
(the password that a blank update carries from its read to its save was sent for that
registry, and is the last one that was unless the registry is `overtaken`) and `ToldRight`.
As any number of blank updates may be under way and one may save between the read and the
save of another, `PasswordsWereSent` needs `SaveOK` of all of them at once.

**RequestProofs** needs a finite set of callers.  `RateBounded` is a budget: a permit buys
four requests and one token, and a request under way still holds what it has not used, by
its place: four before the first answer, three from the 401 to the second, two before the
PATCH, one before the PUT.  What was sent and what is still held is at most four times
what was granted; asks + first + challenged <= granted, where a name is the number of
callers at that place.  `ReadsSucceed` rests on
`SecondOK`: what is sent again carries the credentials, or a token with an action that the
request needs and the client is entitled to; a read needs only one.
`ListingRequests` carries both over to `Listing`, whose steps are steps of `Request` or none
of its own.  `DirectRequestsBounded` is `DirectBounded`: `DirectInv` says that a page is turned
only when it was full, so that the pages behind the listing are full of names that were
there at some time, each once and once more for an insertion that pushed it back.  `ProjectsEnsured` is `ProjectEnsured`: `ListingInv` says that only names that
have been in the content are listed, and that those are still there unless one was deleted;
it needs `ListingAssumption`.  `ListingsSound` is `ListingSound`, and rests on a count of the
names that cross the border between the pages read and the others (`SoundInv`): a name that
was passed over came down across it, and each deletion moves one; a name that will be read
twice went up across it, and each insertion moves one.

All safety properties of the runs that pass are stated by a theorem.
Only model-checked: everything under fairness (`ClosesLedger`, `EntryRemoved`,
`EarlyStopFails`, `RunsEnd`, `CopyEnds`, `EngineReturns`, `NoLeak`, `NeverStuck`,
`DeadClientLeaves`, `RunReported`), which the prover does not handle;
for three of them what they rest on is proved, see `RunsMoveOn`, `StepsRunOut` and
`NobodyWaitsInVain` above.

## 5. Not modelled

* Manifests without a media type, and tags that move at the source during a run: the
  source of the models does not change and names the type of everything.
* The words and numbers that isRetryableError looks for in the text of an error: an answer
  that has one is transient.
* RetryableHTTPClient, IsHTTPError, RetryableError, Allow, Reserve, SetQPS, GetQPS,
  MultiLimiter, SleepLimiter, GetProgressStats, WaitWithProgress, DeleteExecution: nothing
  calls them.
* Loading and validating the configuration; the wording of notifications and the test
  message: sequential, without state.
* Execution logs, sizes and times, statistics: displayed only.
* The pages of `web/src`, but for the switch of the task list: they run in a browser, keep
  nothing on the server, and the server's side of their websocket is `Hub`.
* Garbage collection at the target registry: no call of the program deletes content.
* A repository whose tags cannot be listed is left out of a run's plan
  (`AnalyseFails`); no document says what the verdict of the run should be then.

## 6. What remains

* The other liveness properties, argued for in the same way: a measure that every step
  of a request, of the hub or of a scheduled run decreases.
* The reconnecting client of the pages as an environment of `Hub`.
