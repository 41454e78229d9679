--------------------------- MODULE DepotController ---------------------------
(***************************************************************************)
(* CAuthSteamDepotController, the Android state holder over the native     *)
(* download tasks (CAuthSteamCloudController is built the same way).  Its  *)
(* coroutines share one main thread: between two suspension points a       *)
(* coroutine runs alone.  The suspending calls into the bridge run on      *)
(* another thread, so each is two steps: the native call and, later, the   *)
(* coroutine that resumes with its result.                                 *)
(***************************************************************************)
EXTENDS Naturals, FiniteSets

CONSTANTS
    MaxTasks,           \* bound: download actions the user starts
    Clicks,             \* bound: the pause and cancel coroutines in flight
    MaxQueries,         \* bound: other module actions the user starts
    PaneOnly,           \* whether the Compose pane is the only caller
    None

ASSUME ControllerAssumption ==
    /\ MaxTasks \in Nat \ {0}
    /\ MaxQueries \in Nat
    /\ PaneOnly \in BOOLEAN

(* One download action, its native handle and its polling job share a name.*)
Handles == 1..MaxTasks

ASSUME NoneAssumption == None \notin Handles

VARIABLES
    moduleStatus, busy, \* two fields of CAuthSteamDepotState
    moduleTask,         \* whether moduleTask is non-null
    downloadTask,       \* [handle, active] of the last snapshot, or None
    idleReset,          \* whether an idle reset job is pending
    pollingJob,         \* downloadPollingJob
    starter,            \* the coroutine of each startDownloadAction
    job,                \* each polling job
    canceledJob,        \* polling jobs that were canceled
    snap,               \* the snapshot each polling job has received
    native,             \* each native task: status, outcome, finished, disposed
    click,              \* each pause or cancel coroutine
    query,              \* whether another module action is running
    started, queries    \* counters behind the bounds

ui == <<moduleStatus, busy, moduleTask, downloadTask, idleReset>>
jobs == <<pollingJob, starter, job, canceledJob, snap>>
counters == <<started, queries>>
vars == <<ui, jobs, native, click, query, counters>>

Terminal == {"succeeded", "paused", "canceled", "failed"}
Active == {"idle", "downloading", "pausing", "canceling"}

(* A task just registered, and one no longer in the bridge's registry. *)
Fresh == [status |-> "idle", outcome |-> "none", finished |-> FALSE, disposed |-> FALSE]
Erased == [Fresh EXCEPT !.finished = TRUE, !.disposed = TRUE]
Quiet == [kind |-> "pause", handle |-> None, phase |-> "none"]

Snapshots == [status : Terminal \cup Active, outcome : Terminal \cup {"none"},
              finished : BOOLEAN, disposed : BOOLEAN]

TypeOK ==
    /\ moduleStatus \in Terminal \cup Active \cup {"queued", "reading"}
    /\ busy \in BOOLEAN /\ moduleTask \in BOOLEAN /\ idleReset \in BOOLEAN
    /\ downloadTask \in [handle : Handles, active : BOOLEAN] \cup {None}
    /\ pollingJob \in Handles \cup {None}
    /\ starter \in [Handles -> {"none", "starting", "joining", "ended"}]
    /\ job \in [Handles -> {"none", "waiting", "polled", "disposing", "ended"}]
    /\ canceledJob \subseteq Handles
    /\ native \in [Handles -> Snapshots]
    /\ snap \in [Handles -> Snapshots]
    /\ click \in [Clicks -> [kind : {"pause", "cancel"}, handle : Handles \cup {None},
                             phase : {"none", "calling", "called"}]]
    /\ query \in BOOLEAN
    /\ started \in 0..MaxTasks /\ queries \in 0..MaxQueries

Init ==
    /\ moduleStatus = "idle" /\ busy = FALSE /\ moduleTask = FALSE
    /\ downloadTask = None /\ idleReset = FALSE
    /\ pollingJob = None
    /\ starter = [h \in Handles |-> "none"]
    /\ job = [h \in Handles |-> "none"]
    /\ canceledJob = {}
    /\ snap = [h \in Handles |-> Fresh]
    /\ native = [h \in Handles |-> Fresh]
    /\ click = [c \in Clicks |-> Quiet]
    /\ query = FALSE
    /\ started = 0 /\ queries = 0

(***************************************************************************)
(* beginModuleTask, finishModuleTask, the idle reset                       *)
(***************************************************************************)

BeginModuleTask(s) ==
    /\ moduleStatus' = s /\ busy' = TRUE
    /\ moduleTask' = TRUE /\ downloadTask' = None
    /\ idleReset' = FALSE

(* A mutant: a paused task stays on display. *)
AutoResetsUnlessPaused(s) ==
    s \notin {"idle", "queued", "downloading", "reading", "canceling", "paused"}

AutoResets(s) == s \notin {"idle", "queued", "downloading", "reading", "canceling"}

FinishModuleTask(s, task) ==
    /\ moduleStatus' = s /\ busy' = FALSE
    /\ moduleTask' = TRUE /\ downloadTask' = task
    /\ idleReset' = AutoResets(s)

IdleResetFires ==
    /\ idleReset
    /\ moduleStatus' = "idle" /\ busy' = FALSE
    /\ moduleTask' = FALSE /\ downloadTask' = None
    /\ idleReset' = FALSE
    /\ UNCHANGED <<jobs, native, click, query, counters>>

(* useRoute, useManifestFile, useManifestSelection, prepareKeyAndCode...   *)
Select ==
    /\ moduleStatus' = "idle" /\ busy' = FALSE
    /\ moduleTask' = FALSE /\ downloadTask' = None
    /\ idleReset' = FALSE
    /\ UNCHANGED <<jobs, native, click, query, counters>>

(* probeDownloadRoutes and the actions behind runAction. *)
BeginQuery ==
    /\ ~query /\ queries < MaxQueries
    /\ query' = TRUE /\ queries' = queries + 1
    /\ BeginModuleTask("reading")
    /\ UNCHANGED <<jobs, native, click, started>>

EndQuery ==
    /\ query
    /\ query' = FALSE
    /\ \E s \in {"succeeded", "failed"} : FinishModuleTask(s, downloadTask)
    /\ UNCHANGED <<jobs, native, click, counters>>

(***************************************************************************)
(* startDownloadAction and the coroutine it launches                       *)
(***************************************************************************)

(* Canceling a job that has ended does nothing. *)
CancelPolling == canceledJob' = canceledJob \cup {h \in Handles : h = pollingJob /\ job[h] # "ended"}

StartDownload ==
    /\ started < MaxTasks
    /\ started' = started + 1
    /\ starter' = [starter EXCEPT ![started + 1] = "starting"]
    /\ CancelPolling
    /\ BeginModuleTask("queued")
    /\ UNCHANGED <<pollingJob, job, snap, native, click, query, queries>>

(* The bridge has registered a task whose status is still "idle" and       *)
(* started its thread; pollDownloadTask replaces the polling job and joins *)
(* the new one.                                                            *)
LaunchPolling(h) ==
    /\ starter[h] = "starting"
    /\ starter' = [starter EXCEPT ![h] = "joining"]
    /\ CancelPolling
    /\ job' = [job EXCEPT ![h] = "waiting"]
    /\ pollingJob' = h
    /\ UNCHANGED <<ui, snap, native, click, query, counters>>

(* A mutant: the failure of the start is only traced. *)
StartFailedSilently(h) ==
    /\ starter[h] = "starting"
    /\ starter' = [starter EXCEPT ![h] = "ended"]
    /\ UNCHANGED <<ui, pollingJob, job, canceledJob, snap, native, click, query, counters>>

(* The bridge threw instead. *)
StartFailed(h) ==
    /\ starter[h] = "starting"
    /\ starter' = [starter EXCEPT ![h] = "ended"]
    /\ FinishModuleTask("failed", None)
    /\ UNCHANGED <<pollingJob, job, canceledJob, snap, native, click, query, counters>>

(* The join returns for a canceled job too, and then clears the field,     *)
(* whichever job it holds by now.                                          *)
JoinReturns(h) ==
    /\ starter[h] = "joining" /\ job[h] = "ended"
    /\ starter' = [starter EXCEPT ![h] = "ended"]
    /\ pollingJob' = None
    /\ UNCHANGED <<ui, job, canceledJob, snap, native, click, query, counters>>

(***************************************************************************)
(* The polling job                                                         *)
(***************************************************************************)

JobTo(h, s) == job' = [job EXCEPT ![h] = s]

(* Cancellation is seen at the suspension points; a dispose that has not   *)
(* begun on its own thread is canceled with the job.                       *)
JobCanceled(h) ==
    /\ h \in canceledJob /\ job[h] \in {"waiting", "polled", "disposing"}
    /\ JobTo(h, "ended")
    /\ canceledJob' = canceledJob \ {h}
    /\ snap' = [snap EXCEPT ![h] = Fresh]
    /\ UNCHANGED <<ui, pollingJob, starter, native, click, query, counters>>

(* The bridge takes the snapshot under the task's lock. *)
NativePoll(h) ==
    /\ h \notin canceledJob /\ job[h] = "waiting"
    /\ snap' = [snap EXCEPT ![h] = native[h]]
    /\ JobTo(h, "polled")
    /\ UNCHANGED <<ui, pollingJob, starter, canceledJob, native, click, query, counters>>

(* The status finishModuleTask is given for a finished snapshot; a local   *)
(* verify that ran to its end carries a status of its own.                 *)
Reported(s) ==
    CASE s.outcome \in {"paused", "canceled"} -> {s.outcome}
      [] s.outcome = "succeeded" -> {s.status, "succeeded", "failed"}
      [] s.outcome = "failed" -> {s.status}

ShowSnapshot(h) ==
    /\ h \notin canceledJob /\ job[h] = "polled"
    /\ LET s == snap[h]
           task == [handle |-> h, active |-> ~s.finished]
       IN  IF s.finished
           THEN /\ \E r \in Reported(s) : FinishModuleTask(r, task)
                /\ JobTo(h, "disposing")
           ELSE /\ moduleStatus' = s.status /\ busy' = TRUE
                /\ moduleTask' = TRUE /\ downloadTask' = task
                /\ JobTo(h, "waiting")
                /\ UNCHANGED idleReset
    /\ snap' = [snap EXCEPT ![h] = Fresh]
    /\ UNCHANGED <<pollingJob, starter, canceledJob, native, click, query, counters>>

NativeDispose(h) ==
    /\ job[h] = "disposing"
    /\ native' = [native EXCEPT ![h] = Erased]
    /\ JobTo(h, "ended")
    /\ canceledJob' = canceledJob \ {h}
    /\ UNCHANGED <<ui, pollingJob, starter, snap, click, query, counters>>

(***************************************************************************)
(* pauseActiveDownload, cancelActiveDownload                               *)
(***************************************************************************)

(* On whatever task the state shows; the Compose pane offers the buttons   *)
(* only while it is active, the public functions do not ask.               *)
ClickRequest(c, kind) ==
    /\ click[c].phase = "none"
    /\ downloadTask # None
    /\ PaneOnly => downloadTask.active
    /\ click' = [click EXCEPT ![c] = [kind |-> kind, handle |-> downloadTask.handle,
                                      phase |-> "calling"]]
    /\ UNCHANGED <<ui, jobs, native, query, counters>>

Verb(kind) == IF kind = "pause" THEN "pausing" ELSE "canceling"

(* The bridge ignores a disposed handle; it does not ask whether the task  *)
(* has finished.                                                           *)
NativeRequest(c) ==
    /\ click[c].phase = "calling"
    /\ click' = [click EXCEPT ![c].phase = "called"]
    /\ native' = IF native[click[c].handle].disposed THEN native
                 ELSE [native EXCEPT ![click[c].handle].status = Verb(click[c].kind)]
    /\ UNCHANGED <<ui, jobs, query, counters>>

ShowRequest(c) ==
    /\ click[c].phase = "called"
    /\ click' = [click EXCEPT ![c] = Quiet]
    /\ moduleStatus' = Verb(click[c].kind) /\ busy' = TRUE
    /\ moduleTask' = TRUE
    /\ idleReset' = FALSE
    /\ UNCHANGED <<downloadTask, jobs, native, query, counters>>

(***************************************************************************)
(* The native task                                                         *)
(***************************************************************************)

NativeRuns(h) == job[h] # "none" /\ ~native[h].finished

NativeProgress(h) ==
    /\ NativeRuns(h)
    /\ native' = [native EXCEPT ![h].status = "downloading"]
    /\ UNCHANGED <<ui, jobs, click, query, counters>>

NativeFinish(h) ==
    /\ NativeRuns(h)
    /\ \E o \in Terminal :
          native' = [native EXCEPT ![h].status = o, ![h].outcome = o, ![h].finished = TRUE]
    /\ UNCHANGED <<ui, jobs, click, query, counters>>

StarterStep(h) == LaunchPolling(h) \/ StartFailed(h) \/ JoinReturns(h)

JobStep(h) ==
    \/ JobCanceled(h) \/ NativePoll(h) \/ ShowSnapshot(h) \/ NativeDispose(h)

ClickStep(c) == NativeRequest(c) \/ ShowRequest(c)

Next ==
    \/ IdleResetFires \/ Select \/ BeginQuery \/ EndQuery \/ StartDownload
    \/ \E h \in Handles : StarterStep(h) \/ JobStep(h) \/ NativeProgress(h) \/ NativeFinish(h)
    \/ \E c \in Clicks : ClickStep(c) \/ \E kind \in {"pause", "cancel"} : ClickRequest(c, kind)

(* Coroutines that can run do, delays elapse, native tasks finish; the     *)
(* user owes nothing.                                                      *)
Fairness ==
    /\ WF_vars(IdleResetFires) /\ WF_vars(EndQuery)
    /\ \A h \in Handles : WF_vars(StarterStep(h)) /\ WF_vars(JobStep(h)) /\ WF_vars(NativeFinish(h))
    /\ \A c \in Clicks : WF_vars(ClickStep(c))

Spec == Init /\ [][Next]_vars /\ Fairness

(***************************************************************************)
(* Properties                                                              *)
(***************************************************************************)

(* No coroutine is left that could still change the state. *)
Settled ==
    /\ \A h \in Handles : starter[h] \in {"none", "ended"} /\ job[h] \in {"none", "ended"}
    /\ \A c \in Clicks : click[c].phase = "none"
    /\ ~query

(* Whenever nothing is left to run, an outcome on display has its idle     *)
(* reset pending: no interleaving of downloads, queries and selections     *)
(* cancels the reset of the last word.  (The two statuses a late pause or  *)
(* cancel request leaves behind are the exception TerminalReturnsToIdle    *)
(* is about.)                                                              *)
OutcomeIsArmed ==
    Settled /\ moduleStatus \in Terminal => idleReset /\ ~busy

(* While the module shows busy, a coroutine is at work that will say       *)
(* otherwise; only a late request leaves it busy for good.                 *)
BusyIsBacked ==
    Settled /\ busy => moduleStatus \in {"pausing", "canceling"}

(* docs/android-compose.md: controllers return to idle automatically after *)
(* a terminal state.                                                       *)
TerminalReturnsToIdle ==
    (moduleStatus \in Terminal /\ ~busy) ~> (moduleStatus = "idle")

(***************************************************************************)
(* The inductive invariant                                                 *)
(***************************************************************************)

(* A handle is used in order: its starter, then its job; only a job that   *)
(* exists is the polling job or canceled.                                  *)
JobsAgree ==
    \A h \in Handles :
        /\ h > started => starter[h] = "none"
        /\ starter[h] \in {"none", "starting"} => job[h] = "none"
        /\ job[h] = "none" => h \notin canceledJob /\ pollingJob # h

(* An unfinished task shows no outcome; a finished one has an outcome until *)
(* it is erased, and no job polls an erased task.                           *)
Truthful(s) ==
    /\ ~s.finished => s.status \in Active
    /\ s.finished /\ ~s.disposed => s.outcome # "none"

SnapshotsAgree ==
    \A h \in Handles :
        /\ Truthful(native[h]) /\ Truthful(snap[h])
        /\ ~snap[h].disposed
        /\ native[h].disposed => job[h] = "ended"

ClicksAgree == \A c \in Clicks : click[c].phase # "none" => click[c].handle \in Handles

(* Whoever is bound to clear busy, told apart from coroutines that end     *)
(* without a word.                                                         *)
WillReport ==
    \/ query
    \/ \E h \in Handles : starter[h] = "starting"
    \/ \E h \in Handles \ canceledJob : job[h] \in {"waiting", "polled"}

(* The two settled properties, as every step keeps them. *)
OutcomeArmed == moduleStatus \in Terminal => idleReset /\ ~busy
BusyBacked == busy => moduleStatus \in {"pausing", "canceling"} \/ WillReport

IInv ==
    /\ TypeOK /\ JobsAgree /\ SnapshotsAgree /\ ClicksAgree
    /\ OutcomeArmed /\ BusyBacked

=============================================================================
