# A TLA+ model of CAuth's transfers

CAuth is a C++ library for Steam login, depot downloads and cloud save sync, with
a C ABI (`src/src/ffi`), JNI bridges and Kotlin controllers for Android
(`src/android`). This directory holds TLA+ specifications of its transfer core,
TLC configurations that check them on small instances, and TLAPS proofs of the
properties that matter most. Paths below are relative to the repository root
`src/` (so `src/core/platform/file_write.cpp` is the file of that name in the
repository).

## 1. Inventory

| Component | State it keeps | Operations | Correct when |
|---|---|---|---|
| Prepared file write (`core/platform/file_write`) | destination, `.cauth.partial` beside it, session flags | prepare, open, write, save checkpoint, close, commit, preserve, discard, destructor | resuming never yields a mixed file; the destination changes atomically; every exit keeps partial and checkpoint together or removes both |
| Transfer checkpoints (`core/transfer`) | one small text file per partial | save (rewritten in place), load, clear | a torn file is never taken for another checkpoint |
| Depot downloads (`steam/depot/steam_depot_application`) | chunk index, server index, prepared output, batch resume state | single file, all files, manifest, chunk, verify | success means the whole file; pause keeps, cancel removes; every loop over servers ends |
| Depot tasks, C ABI and Android bridge (`ffi/steam_depot.cpp`, depot JNI) | per task: flags, progress, verdict under a mutex; a registry of handles | start, poll, pause, cancel, dispose | the verdict is what happened and what was asked; a task always finishes |
| Android depot controller (Kotlin) | `moduleStatus`, `busy`, `moduleTask`, `downloadTask`, jobs | start, poll, pause, cancel, queries, selections, idle reset | what is on display follows the last task; terminal states go back to idle |
| HTTP client | none between calls (thread-local cancel hooks) | get, post, ranged streaming to a sink | an error body never counts as content; resume appends only to what it resumed from |
| Route cache and selection | health counters with timestamps under a mutex | record, rank, load, save | fresh failures sort last, stale ones are forgotten |
| Cloud sync | plan of pulls, pushes, deletions; resume states | pull, push, conflict policy, orphan deletion | no newer save is overwritten or deleted unasked |
| Cloud upload over CM | batch id, next file, next block | begin batch, upload blocks, commit files, complete batch | a resumed push uploads every file exactly as listed; a batch is completed once |
| CM connections | socket, session, job ids | connect, log on, call, retry on another server | an answer goes to its own call; retries end |
| Login, sessions | session record, cancel flag | begin, guard code, poll, refresh, save | cancel takes effect at every stage; a saved session is loadable |

Calls go down this table's rows in layers: Compose pane, Kotlin controller, JNI
bridge (or a host, C ABI), application function, HTTP or CM client, prepared file
write, checkpoint file. Upward go progress and the verdict, through a task object
shared by the worker thread and the polling threads; sideways go pause and
cancel, as two atomic flags that the worker reads through thread-local hooks.

What is hard here: two threads of a task against a worker that reads two flags one
after the other, twice; a process that dies between a buffered write and a
checkpoint; partials left by other versions; servers that fail one by one;
coroutines that suspend in a native call and act on what they read before; and a
destructor that decides, for all exits alike, what stays on disk. The
`hazards` list of `PROJECT.json` names each at its line.

### Not modelled

* Byte-level formats, crypto and hashing: sequential data code with test vectors.
  CM framing, job matching and the websocket client belong here too.
* The command line and the Compose panes (parsing and drawing around the modelled
  functions), JNI marshalling.
* The route cache and route selection. They decide in which order endpoints are
  tried; every module numbers the endpoints as ranking left them and quantifies over
  what each answers, so no result depends on the order.
* Vendored code below `.deps`, by far the largest part of the tree.
* Of the cloud: the loop of a pull over its files (each file is a `StreamDownload`),
  dry runs, web uploads, listings. Of the login: the web API, guard code entry,
  token refresh. Of depots: chunks that are decoded and written in one go, local
  verification. The cloud tasks of the C ABI and the bridge repeat the pattern of the
  depot tasks and are not modelled a second time.
* The session repositories: one record per provider, read and written whole.

## 2. Modules

| Module | What it is |
|---|---|
| `PreparedFile` | vocabulary: blocks, prefixes, checkpoints, write options, `ResumeAccepted` |
| `FileWrite` | one prepared write after another on a disk that survives crashes |
| `AtomicReplacement` | abstract: what the destination path may show |
| `PreparedFileProofs` | lemmas about prefixes, checkpoints and torn saves, used by the next three proof modules |
| `FileWriteProofs`, `DepotTaskProofs`, `StreamDownloadProofs` | theorems about `FileWrite`, `DepotTask`, `StreamDownload` |
| `DepotControllerProofs`, `DepotBatchProofs`, `CloudPushProofs` | theorems about `DepotController`, `DepotBatch`, `CloudPush` |
| `DepotTask` | worker, task object and pausing/cancelling threads of a file download |
| `DepotController` | the Kotlin state holder over native tasks |
| `StreamDownload` | HTTP bodies streamed into a prepared output: attempt after attempt, session after session |
| `DepotBatch` | all files of a manifest, with the batch resume state |
| `CmConnector` | one CM server after another until an operation has ended; extended by the next two |
| `CloudPush` | a push over CM: listing, scan, plan, upload batch, resume state |
| `LoginSession` | a credentials login over CM against a thread that cancels it |

`FileWrite`, `DepotTask` and `StreamDownload` extend `PreparedFile`, so that the
test that accepts a resume is the same definition in all three. `FileWrite` and
`DepotTask` implement `AtomicReplacement` through their instances `Promise`. Every module
with theorems ends with its inductive invariant `IInv`. Each module also carries,
directly before an operation, the mutated forms of it that serve to show that a
property is not vacuous (their comments begin with "A mutant"); they are not part
of `Next`.

### PreparedFile

A file is a sequence of blocks `<<version, index>>`. Two versions share no block,
so a mixed file is visible as such. The resume token of
a checkpoint identifies the version (it is derived from manifest and file
identity); a checkpoint is a token and a byte count, counted in blocks. An empty
file and a checkpoint of zero bytes exist, because the code treats zero
separately. `TornLoads` is what `load_transfer_checkpoint` makes of a state
file that a crash or a full disk cut off: rejected, or accepted with a token that
is missing or a byte count that lost trailing digits. A cut token is
taken to equal no other token.

### FileWrite

`pc` names the place in the session; every file system call of
`prepare_file_write`, `commit`, `clear_resume_state`, `discard_partial` and the
destructor's `cleanup` is an action of its own, with a failing alternative where
the code returns an error for it. `Prepare` looks at the paths and reads the checkpoint:
a checkpoint or size that cannot be read counts as stale, a path that cannot be inspected
ends the session. Where `prepare_file_write` returns before it has set its paths (no
directory, no look at the destination: lines 312-333), the destructor has nothing to clean,
so that nothing at all happens to the disk; there is no action for that. `buf` counts blocks still in the
`ofstream`; `FlushBlock` may happen any time, and `Crash` loses the rest and
keeps the disk. `ExternalCreate` is another program that puts a file at the
destination. `committed` stands also for `skipped_`, which is only ever set
together with it.

The caller is left open: it streams the blocks of the requested version in order,
saves a checkpoint after each, and closes, commits, preserves, discards or gives
up whenever the code's types allow. That is the pattern of both the depot and the
cloud downloads. Assumed of it: one session per destination at a time,
and either all or none of the sessions on a path use `atomic_write`. Mixing them breaks
`ResumeSound` (a leftover in-place checkpoint vouches for a file that an
atomic session has since replaced); no caller in the repository does that, and it
is listed as a hazard. `discard_partial` on a stream that is still open cannot
remove the file on Windows; the destructor then removes it after the stream is
gone, which is the model's failing alternative followed by cleanup.

### DepotTask

`Prepare` to `Return` are `download_file_from_manifest_impl`; `StartTask`,
`Publish` and `Finish` the task's runner in either front end; `BeginRequest`,
`StoreFlag`, `SetStatus` the pause and cancel entry points, whose two stores are
separate steps in the order of the code (the C ABI's pause lowers the cancel
flag first, the other three raise their own flag first). An interrupt check is up
to four reads: `fail_if_download_interrupted` reads cancel, then pause; the caller
reads both again to decide about the partial. The check after a chunk was
processed does not read again. The checks stand before a chunk, before a
server, after a response, and after processing, as in the code. A prepared output
is used here through whole operations, because their steps on the disk are
`FileWrite`'s subject; sessions are atomic and resumable, as both front ends
request by default. `Commit` replaces the destination only as the write mode allows,
which is `RenameReplaces = FALSE` of `FileWrite`. Tasks follow one another on the same path, and the first finds whatever
earlier runs may have left. `PrepareRefused`, here and in `StreamDownload`, is the early
return of `prepare_file_write` that leaves an older partial as it was. Exceptions thrown inside the
worker are not modelled, nor are the failing branches of `steam_depot_application.cpp:702-720`:
they answer a resume offset that is no chunk boundary, discard the partial and start over. Counts
of whole chunks, the model's unit, have no such offset; what is left on the disk then is what
any refused partial leaves.
Status "downloading" also stands for "verifying".

### DepotController

One state variable per property of the controller that anything else depends on,
one action per suspension-free stretch of a coroutine: what runs between two
suspension points runs without interruption on the main dispatcher, so it is one
step; native calls run on another thread, so their effect and the coroutine's
resumption are two. `starter`, `job` and `click` are the three kinds of coroutine.
The Compose pane offers the pause and cancel buttons while the displayed snapshot is
active, the controller's public functions do not ask: `PaneOnly` says which callers there are.
It is FALSE in `depot_controller`, where a click may come at any time a task is shown, and TRUE in
the run that ends in a counterexample, so that the pane alone suffices for that. `query` is any other module action;
its status "reading" also stands for "probing".

### StreamDownload

`Start` to `Return` are `download_manifest_to_path` (and the download of a raw
chunk, which has the same loop) around `stream_http_download_to_prepared_output`,
or, for clients "cm" and "web", `download_remote_file_to_prepared_output`. One attempt is
open, request, body, close and a decision; which answers a request may get is
the HTTP client's matter and differs between the two backends:

* Windows streams block by block, writes an error body before it looks at the
  status, and takes any status but 206 for a refused range;
* Android hands over whole bodies of successful requests only, and its bridge reports
  status 200 for all of them, so every range counts as refused.

`offset` is `resume_offset_`: a session that could not save a checkpoint keeps the old
one, and a later attempt appends without comparing it with the file.
The buffered stream is `flushed`: what a crash or a failed close may cut off. `spoiled`, `fault`
and `trouble` are history variables for the properties; they guard nothing.
The interrupt check at the head of the server loop (`StopBetweenServers`) reports paused or
canceled like the one after a response, but neither preserves nor discards: the destructor goes
by what earlier servers of the session made of `preserve_partial_`. `between`, another
history variable, marks a session that ended there. `PausedIsResumable` and
`CanceledLeavesNothing` say what holds of all sessions, those included; `CancelForgetsPartial`
what the documentation leads one to expect of a cancel, and that fails.

### DepotBatch

`download_all_files_from_manifest`, one action per file outcome: what a file's
download leaves on the disk is the subject of the modules above, so `FileDone`,
`FileSkipped` and `FileFails` take every outcome they give it. Kept in full: the
batch state, when it is loaded, refused, saved, left and removed, and the hooks that
are asked a second time after a file failed: `FileFails` records what the file noticed,
which decides the verdict through its message, and `LeaveState` asks again to decide what
becomes of the state. A pause that hits an HTTP request under way may be worded as a cancel.
`Load` takes over a state of this manifest (`TakeOver`) or starts at the first file
(`StartOver`): so does a run whose `exists()` or load failed for a state of its own, and whether
the removal of a refused state worked is not looked at. `blind` records that a
state of this manifest stayed on the disk although the run starts over; its first save sets
place and bytes back, which `PlaceIsKept` excepts and nothing else has to. `OtherWriter` replaces or removes files between runs. `skipped`
and `touched` record what the resume token does not know: it names neither the write
mode nor what others did to the files since. `lost` records that the save of a pause failed,
or that the request replaced the one in the message before the second question
(`Overtaken`); `PausedKeepsPlace` excepts both.

In this module, `StreamDownload` and `CloudPush` a pause or cancel is one step, and a later
request replaces an earlier one; the two stores it consists of are the subject of `DepotTask`.

### CmConnector, CloudPush, LoginSession

`CmConnector` has no `Next` of its own: `link` is the place in
`with_logged_on_session` (or `with_service_client`, `LogOn = FALSE`), and a module
that extends it supplies the operation and calls `OperationEnds` with the
`SteamCmAttemptResult`. An error message is "", an ordinary one, or one that contains
"operation canceled", because that is all the code tells apart.

`CloudPush` is `push_cloud_save` with `upload_cloud_files_via_cm` as the operation.
The planning (`Scan`) is one step between interrupts, which a push with nothing to do does not
look at any more; `Order` is the order in which the
directory iterator yields a set of files, arbitrary but the same each time for the same
files; the upload has one step per
call to the cloud or save of the resume state. The cloud is external: batches, what
arrived of each block, and the files other clients see; it may or may not keep what it
has of a file, may lose an answer, and may show a committed file before
or after its batch completes. It is assumed not to commit a file of which a block is
missing. The resume state lies in `local_root`, so the scan of the next push finds it
as one more file, as in the code. A batch that neither the push nor a resume state can name is
forgotten. Left out: dry runs, unreadable files, iterators that fail half-way, and
an old resume state that resists removal before an upload.

`LoginSession` is `cauth_auth_login_password` for a SteamClient login, down to each remote
call. Account and password are given; a session that was saved is a Boolean.

## 3. Runs

| Run | Instance | What it shows |
|---|---|---|
| `file_write_atomic` | 2 versions, 3 blocks, atomic | `ResumeSound`, `PreservedIsResumable`, `NoLitter`, `IInv`, and the refinement of `AtomicReplacement` |
| `file_write_in_place` | the same, in place | `ResumeSound`, `NoStaleState`, `InPlaceInv` |
| `depot_task` | 2 versions, 2 chunks, 2 servers, 1 calling thread, both front ends | `SucceededIsWhole`, `OutcomeWasAsked`, `StopsAtNextCheck`, `IInv`, `TaskFinishes`, and the refinement of `AtomicReplacement` |
| `depot_task_pause` | 1 version, 1 server | counterexample to `PausedKeepsPartial` |
| `depot_controller` | 2 downloads, 1 click at a time, 1 query | `OutcomeIsArmed`, `BusyIsBacked`, `IInv` |
| `depot_controller_settles` | 1 download, 1 click at a time | counterexample to `TerminalReturnsToIdle` |
| `stream_download` | 2 versions, 2 blocks, 2 servers, 3 clients, 2 backends | `SucceededIsWhole`, `UndisturbedSucceeds`, `PausedIsResumable`, `CanceledLeavesNothing`, `IInv`, `DownloadEnds` |
| `stream_download_cancel` | 1 version, depot client, Windows | counterexample to `CancelForgetsPartial` |
| `depot_batch` | 2 manifests over 2 files and a directory between them, 3 write modes | `StateVouches`, `SucceededIsWhole`, `PausedKeepsPlace`, `ProgressWithinFiles`, `IInv`, `PlaceIsKept` |
| `cloud_push` | 2 CM servers, 2 files and the resume state, 1 block of 2 units, 4 policies | `StateVouches`, `SucceededIsMirrored`, `IInv`, `ChangesArePlanned`, `PushEnds` |
| `cloud_push_orphans` | the same | counterexample to `DeletesOnlyOrphans` |
| `login_cancel` | 2 CM servers, 2 polls | counterexample to `CancelIsReported` |

Every passing run checks `TypeOK` too, on its own or as the first conjunct of `IInv`
or `InPlaceInv`.

Bounds. Two versions are the least that can be mixed; three blocks the least with
a proper prefix of a proper prefix, so that a byte count can be lower than the
file, equal and higher; sessions are unbounded in number. Two servers distinguish the next from the
last, two chunks the first from a later one. One calling thread may make any
number of requests one after another, and its stores interleave with the worker's
reads; two threads at once were not needed for the counterexamples and multiply
the states. Two downloads and one query are the least in which a job is replaced
while another's coroutine is suspended. Nothing else is bounded.

In `stream_download` two blocks give a partial that is empty, proper and whole. In
`depot_batch` the directory between the files makes the index and the count of files
differ. In `cloud_push` one block of two units can be whole, entered in the middle or bad;
two ordinary files and the resume state give plans of up to three uploads; two batch
ids are enough because at any time at most two can be named, that of the resume state and that of
the running attempt; `Page = 2` of three names makes the listing incomplete. There
is one content per ordinary file, so contents differ only by being absent; conflicts
that are not about a file's absence arise through the resume state's name. Sessions,
runs and pushes follow one another without a bound in all of them.

`RenameReplaces` is FALSE in the runs: the destination's rename then honours a
non-overwriting mode, as `MoveFileEx` does. With TRUE, as with POSIX `rename`, a file
that appears between the check and the rename is replaced; `AtomicReplacement`
has the same parameter and allows it. The theorem of section 4 holds for both.

Counterexamples, each about a sentence of the documentation:

* A pause that is noticed just after a chunk was processed discards the partial
  (`steam_depot_application.cpp:821` returns without `preserve_partial`), and the
  task still reports "paused".
* A cancel noticed between two servers of a manifest download
  (`steam_depot_application.cpp:1571-1573`), after the first server broke off in the body,
  reports "canceled" and leaves partial and checkpoint: `preserve_partial_` is set by then.
* A pause or cancel whose native call returns after the task finished cancels the
  idle reset and leaves the controller busy in "pausing" or "canceling" for good.
* A local root that cannot be enumerated (`steam_cloud_application.cpp:1955`) yields an
  empty scan: the error is looked at inside a loop body that never runs. A push with
  `--delete-remote-orphans` then deletes every listed remote file.
* A login that failed on one CM server and is canceled while it connects to the
  next reports the earlier failure (`platform_auth_runtime.cpp:103`).

Also met while modelling, without a run of their own; where a property would fail, it names the
exception:

* `StreamDownload!SucceededIsWhole` excepts a partial that took the body of an error
  answer, and an attempt that follows a failed local write of the same session; without
  the exceptions it fails. `UndisturbedSucceeds` is about the Windows client: on Android
  a complete partial left by a crash is answered with 416, which is not
  taken for a refused range, until the download is canceled.
* `DepotBatch!SucceededIsWhole` excepts files that an earlier run was told to skip, and
  files changed since by others; `PausedKeepsPlace` a pause that a cancel overtook while
  the file was failing: the run reports "paused" and its state is gone.
* The check between two servers (lines 1571-1573) fails a pause as it fails a cancel: a session that
  resumed and is paused before its first request reports "paused", and its destructor removes
  what it was to continue. `PausedIsResumable` and `CanceledLeavesNothing` except sessions
  that ended there, and say that they leave a sound pair or nothing.
* A cancel noticed between two files of a batch (line 1908) reports "canceled" and leaves the
  batch state, so that the next run goes on where the canceled one stopped; a cancel noticed
  within a file clears it. `StateVouches` says that the files passed over then are in place.
* The first poll of a fresh task copies the native status "idle" next to a non-null `moduleTask`
  (`CAuthSteamDepotController.kt:876`), although an idle controller is to have none.
* `DepotBatch!PlaceIsKept` excepts a run that could neither load the state of its own manifest
  nor remove it (lines 1881-1891): it starts over, and its first save sets the place back.
* A push takes every remote file behind the first page of the listing for absent
  (`steam_cloud_application.cpp:1925`) and overwrites it without asking the conflict policy.
  `SucceededIsMirrored` speaks of the plan and does not see that.
* A push interrupted by a pause seldom resumes: its own resume state has become a file
  of the next scan, so the batch token differs, unless the conflict policy leaves it
  out. What does resume is sound (`CloudPush!StateVouches`).

Fairness. `FileWrite` and `DepotBatch` have none: their properties are safety, and a session
or a run may stop anywhere. `DepotTask` assumes weak fairness of the worker's steps: it is a
thread of its own whose network calls have timeouts; callers owe nothing.
`DepotController` assumes weak fairness of each coroutine's steps, of elapsing
delays and of the native task's end; nobody has to click. `StreamDownload`
and `CloudPush` assume weak fairness of the session and the worker:
one thread whose requests and calls have time limits or poll the hooks; nobody has to
start, interrupt or edit anything. In `StreamDownload` some outcome of every request is
enough: a body may come to its end, break, or be refused. `StopsAtNextCheck`
counts from the last store to a flag: a host that keeps switching between pause and
cancel can slip past both reads of a check any number of times.

## 4. What is proved

Every safety property of the passing runs is also a theorem, for every value of the
constants that the assumptions below admit.

| Module | Theorems `Spec => []...` |
|---|---|
| `FileWriteProofs` | `TypeCorrect`, `Invariant` (`IInv`), `PreservedStaysResumable` for atomic, in-place and mixed sessions; `ResumeIsSound`, `SettledLeavesNoLitter` and the refinement `AtomicWritesAreAtomic` where all are atomic; `InPlaceInvariant` (`InPlaceInv`), `InPlaceResumeIsSound`, `SettledLeavesNoState` where all are in place |
| `DepotTaskProofs` | `TypeCorrect`, `Invariant`, `SuccessIsWhole`, `VerdictWasAsked`, `RequestStops`, and the refinement `TasksReplaceAtomically` |
| `DepotControllerProofs` | `TypeCorrect`, `Invariant`, `OutcomeStaysArmed`, `BusyStaysBacked` |
| `StreamDownloadProofs` | `TypeCorrect`, `Invariant`, `SuccessIsWhole`, `UndisturbedSuccess`, `PauseIsResumable`, `CancelLeavesNothing` |
| `DepotBatchProofs` | `TypeCorrect`, `Invariant`, `ResumeIsSound`, `SuccessIsWhole`, `PauseKeepsPlace`, `ProgressIsBounded`, and the action property `PlaceStays` |
| `CloudPushProofs` | `TypeCorrect`, `Invariant`, `ResumeIsSound`, `SuccessIsMirrored`, and the action property `OnlyThePlanChanges` |

Each component has one inductive invariant, checked by TLC in the component's passing
run and proved with one lemma per action, under it one step per conjunct the action can
disturb. The other theorems follow from the invariant.

### Assumptions

* The sentinels differ from the data they stand beside (`SentinelsAssumption`,
  `VersionsAssumption`, `NoRequestAssumption`, `NoneAssumption`, the last lines of
  `BatchAssumption`, the first of `PushAssumption`). In the code they are a missing
  file, an empty string, a null pointer.
* `FileLenAssumption`: a file has at least one block; an empty one is the zero-length
  partial. `StreamAssumption` and `DepotAssumption`: the list of servers is not empty, since
  `fetch_cdn_servers_for_download` fails otherwise. `ConnectorAssumption` allows an empty
  list of CM servers.
* `BatchAssumption`: any number of files, none included. `PushAssumption`: a directory
  holds finitely many names, at least one block of at least one byte per file, and what is on
  the disk is among the contents there are.
* `ControllerAssumption`: any number of downloads, and of queries.

What the modules assume of their surroundings (section 2) is assumed here too.

### Arguments

`FileWrite`, atomic. `ResumeSound` alone is not inductive: that an accepted partial is a
prefix of the requested version rests on what the previous sessions left, at every
place they may have stopped. `IInv` adds

* `CheckpointVouchesForPart`: a loadable checkpoint with a token always sits beside
  a prefix of that very version, or beside nothing. It says nothing about the length:
  a crash may lose buffered blocks the checkpoint counts, and the comparison
  with the file's size is what rejects such a pair;
* `PreparedAgrees` and `StreamAgrees`: between prepare and close the partial is
  what the stream has flushed, and the state file speaks of this version or of
  none (a torn save);
* `EndAgrees`: how the last steps leave the pair, for `PreservedIsResumable` and `NoLitter`;
* `OutputExists`: the file a session appends to is there.

The refinement follows: only the rename step changes the destination, and `StreamAgrees`
says that the partial is then the whole version.

`FileWrite`, in place. The partial is the destination, which other programs may create.
They do so only where nothing is, so `CheckpointVouchesForFinal` has to say more than its
atomic counterpart: a checkpoint with a token never stands beside a missing file, else a
foreign file would come to be vouched for. `InPlaceAgrees` carries that through the session, and
`NoStaleState` through its end. Where atomic and in-place sessions mix, `ResumeSound` is
false (section 2), so there is no such theorem.

`DepotTask`. The worker's step between two reads of the flags, and a caller's step between
two stores, each keep `IInv`. `PartAgrees` says at each place what the partial holds and which
checkpoint may lie beside it; `CheckpointVouches` is what survives into the next task;
`LateAgrees` that a chunk written under a standing request is met by a flag at the next
check. `Delivered` follows from `PartAgrees` at the commit, and so does the refinement.

`DepotController`. The two properties speak of the moment when all coroutines have ended.
What each step keeps is stronger: an outcome on display has its idle reset pending
and is not busy at any time (`OutcomeArmed`), and a busy module always has a coroutine that is
bound to report (`WillReport`) or shows a late request (`BusyBacked`). They need to know that a
handle is used in order (`JobsAgree`) and that a snapshot of a finished task has an
outcome, also a stale one (`SnapshotsAgree`).

`StreamDownload`. `CheckpointVouches`, `OwnFiles` and `DiskAgrees` are the counterparts of
the above for an offset that the session keeps by itself; `RangeAgrees` says where an
attempt starts, and that without a range this is the beginning, except after an
error body and a refreshed URL; `CountsAgree` relates what was received, written and
saved; `UndisturbedAgrees` follows the only path a session without trouble can take,
with a refused range on it. `PauseIsResumable` and `CancelLeavesNothing` carry the exception of
`between`: a pause noticed between two servers may leave nothing, a cancel noticed there what
earlier servers preserved, but never one file without the other.

`DepotBatch`. A batch state is rewritten after a file, so that what a save may claim rests
on what the run did since it loaded the previous state: `RunVouches` says that the run
has dealt with every file before `Dealt`, which runs ahead of the saved index by the file that
is done and not yet saved, and that its bytes count no more files than those. The action
property `PlaceIsKept` needs the opposite relation, that the state of this manifest is not
ahead of a run that is not `blind`; `StateBehind` says so. The first part, `CoreInv`, is inductive
by itself, and `IInv` is both.

`CloudPush`. `Covers(id, uploads, i)`: a batch holds files of this plan only, and all before
the i-th. It holds of the batch the resume state names and of the one the run uploads to,
which may be two. A retry on another CM server starts from the first file with a new
batch id, and completion then shows exactly what this batch holds. The argument needs
that names of a plan are distinct and not among its deletions (`PlanAgrees`), and that
during an upload the resume state is of this plan (`ResumeAgrees`): the scan removed any other.
Lemmas on `\div` and `%` place a byte offset in its block. `ChangesArePlanned` follows from the
same invariant: whatever a commit or a completion shows is in `Covers`.
The counterpart of `PlaceIsKept` is false here: a push that resumed, then lost its connection
at the completion, goes on from the position it had loaded and saves that one again.

### What the proofs showed about the models

* Twice the file's length is no bound of the byte counts in `StreamDownload`: every attempt
  after one with a failed save may append once more, and there are as many as servers. Only the
  small instance obeyed that bound; `TypeOK` now says a natural number.
* In `CloudPush` the invariant was first not inductive: nothing kept a resume state of another
  plan apart from the running batch. The clause of `ResumeAgrees` that does so is true
  because `LoadResume` removes such a state.
* In place, the flags `committed` and `preservePartial` have to be clear between sessions, or
  the next session's cleanup would spare a file it must remove; `InPlaceAgrees` says so.

## 5. What is only model-checked

* Liveness: `TaskFinishes`, `DownloadEnds`, `PushEnds`. The proof system used
  does not prove liveness under fairness.
* The runs that end in a counterexample, and with them `LoginSession`.
* `CmConnector` has no specification of its own; it is proved about as part of `CloudPush`.

## 6. Plan

Done, in this order: `FileWrite` with its abstract specification and proofs,
`DepotTask`, `DepotController`, `StreamDownload`, `DepotBatch`, `CmConnector` with
`CloudPush` and `LoginSession`; the inductive invariants of all passing runs and their
proofs; the refinement of `AtomicReplacement` by tasks; two action properties. What remains of the code is named
under "Not modelled".

Theorems to follow, most important first:

1. An abstract specification of a resumable transfer (what survives between runs and
   what a run may pass over), implemented by `DepotBatch` and `CloudPush`.
2. An inductive invariant of `LoginSession`: no session is saved after a cancel that was
   noticed.
3. Which mixed atomic and in-place histories keep `ResumeSound`.
