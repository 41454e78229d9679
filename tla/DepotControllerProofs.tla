------------------------- MODULE DepotControllerProofs -------------------------
(***************************************************************************)
(* Proofs about DepotController for any number of downloads, of module     *)
(* actions, and of pause and cancel coroutines in flight.                  *)
(***************************************************************************)
EXTENDS DepotController, TLAPS

LEMMA FreshSnapshots == Fresh \in Snapshots /\ Erased \in Snapshots
  BY DEF Fresh, Erased, Snapshots, Active

(* A task that shows another status is still a snapshot. *)
LEMMA StatusOfSnapshot ==
    ASSUME NEW r \in Snapshots, NEW s \in Terminal \cup Active
    PROVE  [r EXCEPT !.status = s] \in Snapshots
  BY DEF Snapshots

(***************************************************************************)
(* Steps                                                                   *)
(***************************************************************************)

LEMMA IdleResetFiresStep ==
    ASSUME IInv, IdleResetFires
    PROVE  IInv'
<1>1. TypeOK'
  BY DEF IInv, TypeOK, Active, IdleResetFires, jobs, counters
<1>2. JobsAgree'
  BY DEF IInv, JobsAgree, IdleResetFires, jobs, counters
<1>3. SnapshotsAgree'
  BY DEF IInv, SnapshotsAgree, IdleResetFires, jobs
<1>4. ClicksAgree'
  BY DEF IInv, ClicksAgree, IdleResetFires
<1>5. OutcomeArmed'
  BY DEF OutcomeArmed, Terminal, IdleResetFires
<1>6. BusyBacked'
  BY DEF BusyBacked, IdleResetFires
<1> QED
  BY <1>1, <1>2, <1>3, <1>4, <1>5, <1>6 DEF IInv

LEMMA SelectStep ==
    ASSUME IInv, Select
    PROVE  IInv'
<1>1. TypeOK'
  BY DEF IInv, TypeOK, Active, Select, jobs, counters
<1>2. JobsAgree'
  BY DEF IInv, JobsAgree, Select, jobs, counters
<1>3. SnapshotsAgree'
  BY DEF IInv, SnapshotsAgree, Select, jobs
<1>4. ClicksAgree'
  BY DEF IInv, ClicksAgree, Select
<1>5. OutcomeArmed'
  BY DEF OutcomeArmed, Terminal, Select
<1>6. BusyBacked'
  BY DEF BusyBacked, Select
<1> QED
  BY <1>1, <1>2, <1>3, <1>4, <1>5, <1>6 DEF IInv

LEMMA BeginQueryStep ==
    ASSUME IInv, BeginQuery
    PROVE  IInv'
<1>1. TypeOK'
  <2>1. busy' \in BOOLEAN /\ moduleTask' \in BOOLEAN /\ idleReset' \in BOOLEAN /\ query' \in BOOLEAN
    BY DEF BeginQuery, BeginModuleTask
  <2> QED
    BY <2>1, ControllerAssumption
    DEF IInv, TypeOK, BeginQuery, BeginModuleTask, jobs
<1>2. JobsAgree'
  BY DEF IInv, JobsAgree, BeginQuery, jobs
<1>3. SnapshotsAgree'
  BY DEF IInv, SnapshotsAgree, BeginQuery, jobs
<1>4. ClicksAgree'
  BY DEF IInv, ClicksAgree, BeginQuery
<1>5. OutcomeArmed'
  BY DEF OutcomeArmed, Terminal, BeginQuery, BeginModuleTask
<1>6. BusyBacked'
  BY DEF BusyBacked, WillReport, BeginQuery
<1> QED
  BY <1>1, <1>2, <1>3, <1>4, <1>5, <1>6 DEF IInv

LEMMA EndQueryStep ==
    ASSUME IInv, EndQuery
    PROVE  IInv'
<1>1. TypeOK'
  <2>1. /\ moduleStatus' \in Terminal /\ busy' = FALSE /\ moduleTask' = TRUE
        /\ downloadTask' = downloadTask /\ idleReset' \in BOOLEAN /\ query' = FALSE
    BY DEF EndQuery, FinishModuleTask, AutoResets, Terminal
  <2> QED
    BY <2>1 DEF IInv, TypeOK, EndQuery, jobs, counters
<1>2. JobsAgree'
  BY DEF IInv, JobsAgree, EndQuery, jobs, counters
<1>3. SnapshotsAgree'
  BY DEF IInv, SnapshotsAgree, EndQuery, jobs
<1>4. ClicksAgree'
  BY DEF IInv, ClicksAgree, EndQuery
<1>5. OutcomeArmed'
  BY DEF OutcomeArmed, EndQuery, FinishModuleTask, AutoResets
<1>6. BusyBacked'
  BY DEF BusyBacked, EndQuery, FinishModuleTask
<1> QED
  BY <1>1, <1>2, <1>3, <1>4, <1>5, <1>6 DEF IInv

LEMMA StartDownloadStep ==
    ASSUME IInv, StartDownload
    PROVE  IInv'
<1>0. started + 1 \in Handles /\ starter[started + 1] = "none"
  BY ControllerAssumption DEF IInv, TypeOK, JobsAgree, Handles, StartDownload
<1>1. TypeOK'
  <2>1. busy' \in BOOLEAN /\ moduleTask' \in BOOLEAN /\ idleReset' \in BOOLEAN
    BY DEF StartDownload, BeginModuleTask
  <2>2. starter' \in [Handles -> {"none", "starting", "joining", "ended"}]
    BY DEF IInv, TypeOK, StartDownload
  <2>3. canceledJob' \subseteq Handles /\ started' \in 0..MaxTasks
    BY ControllerAssumption DEF IInv, TypeOK, StartDownload, CancelPolling
  <2> QED
    BY <2>1, <2>2, <2>3 DEF IInv, TypeOK, StartDownload, BeginModuleTask
<1>2. JobsAgree'
  BY DEF IInv, TypeOK, JobsAgree, Handles, StartDownload, CancelPolling
<1>3. SnapshotsAgree'
  BY DEF IInv, SnapshotsAgree, StartDownload
<1>4. ClicksAgree'
  BY DEF IInv, ClicksAgree, StartDownload
<1>5. OutcomeArmed'
  BY DEF OutcomeArmed, Terminal, StartDownload, BeginModuleTask
<1>6. BusyBacked'
  <2>1. starter'[started + 1] = "starting"
    BY <1>0 DEF IInv, TypeOK, StartDownload
  <2> QED
    BY <1>0, <2>1 DEF BusyBacked, WillReport
<1> QED
  BY <1>1, <1>2, <1>3, <1>4, <1>5, <1>6 DEF IInv

LEMMA LaunchPollingStep ==
    ASSUME IInv, NEW h \in Handles, LaunchPolling(h)
    PROVE  IInv'
<1>1. TypeOK'
  <2>1. /\ starter' \in [Handles -> {"none", "starting", "joining", "ended"}]
        /\ job' \in [Handles -> {"none", "waiting", "polled", "disposing", "ended"}]
        /\ canceledJob' \subseteq Handles
    BY DEF IInv, TypeOK, LaunchPolling, CancelPolling
  <2> QED
    BY <2>1 DEF IInv, TypeOK, LaunchPolling, ui, counters
<1>2. JobsAgree'
  BY DEF IInv, TypeOK, JobsAgree, LaunchPolling, CancelPolling, counters
<1>3. SnapshotsAgree'
  BY DEF IInv, JobsAgree, SnapshotsAgree, LaunchPolling
<1>4. ClicksAgree'
  BY DEF IInv, ClicksAgree, LaunchPolling
<1>5. OutcomeArmed'
  BY DEF IInv, OutcomeArmed, LaunchPolling, ui
<1>6. BusyBacked'
  BY DEF IInv, TypeOK, BusyBacked, WillReport, JobsAgree, LaunchPolling,
      CancelPolling
<1> QED
  BY <1>1, <1>2, <1>3, <1>4, <1>5, <1>6 DEF IInv

LEMMA StartFailedStep ==
    ASSUME IInv, NEW h \in Handles, StartFailed(h)
    PROVE  IInv'
<1>1. TypeOK'
  BY DEF IInv, TypeOK, Terminal, StartFailed, FinishModuleTask, AutoResets, counters
<1>2. JobsAgree'
  BY DEF IInv, JobsAgree, StartFailed, counters
<1>3. SnapshotsAgree'
  BY DEF IInv, SnapshotsAgree, StartFailed
<1>4. ClicksAgree'
  BY DEF IInv, ClicksAgree, StartFailed
<1>5. OutcomeArmed'
  BY DEF OutcomeArmed, StartFailed, FinishModuleTask, AutoResets
<1>6. BusyBacked'
  BY DEF BusyBacked, StartFailed, FinishModuleTask
<1> QED
  BY <1>1, <1>2, <1>3, <1>4, <1>5, <1>6 DEF IInv

LEMMA JoinReturnsStep ==
    ASSUME IInv, NEW h \in Handles, JoinReturns(h)
    PROVE  IInv'
<1>1. TypeOK'
  BY DEF IInv, TypeOK, JoinReturns, ui, counters
<1>2. JobsAgree'
  BY NoneAssumption DEF IInv, JobsAgree, JoinReturns, counters
<1>3. SnapshotsAgree'
  BY DEF IInv, SnapshotsAgree, JoinReturns
<1>4. ClicksAgree'
  BY DEF IInv, ClicksAgree, JoinReturns
<1>5. OutcomeArmed'
  BY DEF IInv, OutcomeArmed, JoinReturns, ui
<1>6. BusyBacked'
  BY DEF IInv, BusyBacked, WillReport, JoinReturns, ui
<1> QED
  BY <1>1, <1>2, <1>3, <1>4, <1>5, <1>6 DEF IInv

LEMMA JobCanceledStep ==
    ASSUME IInv, NEW h \in Handles, JobCanceled(h)
    PROVE  IInv'
<1>1. TypeOK'
  <2>1. job' \in [Handles -> {"none", "waiting", "polled", "disposing", "ended"}]
    BY DEF IInv, TypeOK, JobCanceled, JobTo
  <2>2. snap' \in [Handles -> Snapshots] /\ canceledJob' \subseteq Handles
    BY FreshSnapshots DEF IInv, TypeOK, JobCanceled
  <2> QED
    BY <2>1, <2>2 DEF IInv, TypeOK, JobCanceled, ui, counters
<1>2. JobsAgree'
  BY DEF IInv, JobsAgree, JobCanceled, JobTo, counters
<1>3. SnapshotsAgree'
  BY DEF IInv, SnapshotsAgree, Truthful, Active, JobCanceled, JobTo, Fresh
<1>4. ClicksAgree'
  BY DEF IInv, ClicksAgree, JobCanceled
<1>5. OutcomeArmed'
  BY DEF IInv, OutcomeArmed, JobCanceled, ui
<1>6. BusyBacked'
  BY DEF IInv, BusyBacked, WillReport, JobCanceled, JobTo, ui
<1> QED
  BY <1>1, <1>2, <1>3, <1>4, <1>5, <1>6 DEF IInv

LEMMA NativePollStep ==
    ASSUME IInv, NEW h \in Handles, NativePoll(h)
    PROVE  IInv'
<1>1. TypeOK'
  BY DEF IInv, TypeOK, NativePoll, JobTo, ui, counters
<1>2. JobsAgree'
  BY DEF IInv, JobsAgree, NativePoll, JobTo, counters
<1>3. SnapshotsAgree'
  BY DEF IInv, SnapshotsAgree, NativePoll, JobTo
<1>4. ClicksAgree'
  BY DEF IInv, ClicksAgree, NativePoll
<1>5. OutcomeArmed'
  BY DEF IInv, OutcomeArmed, NativePoll, ui
<1>6. BusyBacked'
  BY DEF BusyBacked, WillReport, NativePoll, JobTo
<1> QED
  BY <1>1, <1>2, <1>3, <1>4, <1>5, <1>6 DEF IInv

LEMMA ShowSnapshotStep ==
    ASSUME IInv, NEW h \in Handles, ShowSnapshot(h)
    PROVE  IInv'
<1>0. /\ snap[h] \in Snapshots
      /\ Truthful(snap[h]) /\ ~snap[h].disposed
  BY DEF IInv, TypeOK, SnapshotsAgree
<1>1. TypeOK'
  <2>1. /\ job' \in [Handles -> {"none", "waiting", "polled", "disposing", "ended"}]
        /\ snap' \in [Handles -> Snapshots]
    BY FreshSnapshots DEF IInv, TypeOK, ShowSnapshot, JobTo
  <2>2. downloadTask' \in [handle : Handles, active : BOOLEAN]
    <3>1. (~snap[h].finished) \in BOOLEAN
      OBVIOUS
    <3>2. downloadTask' = [handle |-> h, active |-> ~snap[h].finished]
      BY DEF ShowSnapshot, FinishModuleTask
    <3> QED
      BY <3>1, <3>2
  <2>3. moduleStatus' \in Terminal \cup Active \cup {"queued", "reading"}
    <3>1. snap[h].finished => Reported(snap[h]) \subseteq Terminal \cup Active
      BY <1>0 DEF Snapshots, Truthful, Reported, Terminal
    <3> QED
      BY <1>0, <3>1 DEF Snapshots, ShowSnapshot, FinishModuleTask
  <2>4. busy' \in BOOLEAN /\ moduleTask' \in BOOLEAN /\ idleReset' \in BOOLEAN
    <3>1. CASE snap[h].finished
      <4>1. PICK r \in Reported(snap[h]) :
                busy' = FALSE /\ moduleTask' = TRUE /\ idleReset' = AutoResets(r)
        BY <3>1 DEF ShowSnapshot, FinishModuleTask
      <4>2. AutoResets(r) \in BOOLEAN
        BY DEF AutoResets
      <4> QED
        BY <4>1, <4>2
    <3>2. CASE ~snap[h].finished
      BY <3>2 DEF IInv, TypeOK, ShowSnapshot
    <3> QED
      BY <3>1, <3>2
  <2> QED
    BY <2>1, <2>2, <2>3, <2>4 DEF IInv, TypeOK, ShowSnapshot, counters
<1>2. JobsAgree'
  BY DEF IInv, TypeOK, JobsAgree, ShowSnapshot, JobTo, counters
<1>3. SnapshotsAgree'
  BY DEF IInv, TypeOK, SnapshotsAgree, Truthful, Active, ShowSnapshot, JobTo, Fresh
<1>4. ClicksAgree'
  BY DEF IInv, ClicksAgree, ShowSnapshot
<1>5. OutcomeArmed'
  BY DEF IInv, OutcomeArmed, SnapshotsAgree, Truthful, Terminal, Active,
      ShowSnapshot, FinishModuleTask, AutoResets
<1>6. BusyBacked'
  BY DEF IInv, TypeOK, BusyBacked, WillReport, ShowSnapshot, FinishModuleTask, JobTo
<1> QED
  BY <1>1, <1>2, <1>3, <1>4, <1>5, <1>6 DEF IInv

LEMMA NativeDisposeStep ==
    ASSUME IInv, NEW h \in Handles, NativeDispose(h)
    PROVE  IInv'
<1>1. TypeOK'
  <2>1. /\ job' \in [Handles -> {"none", "waiting", "polled", "disposing", "ended"}]
        /\ native' \in [Handles -> Snapshots]
    BY FreshSnapshots DEF IInv, TypeOK, NativeDispose, JobTo
  <2> QED
    BY <2>1 DEF IInv, TypeOK, NativeDispose, ui, counters
<1>2. JobsAgree'
  BY DEF IInv, JobsAgree, NativeDispose, JobTo, counters
<1>3. SnapshotsAgree'
  BY DEF IInv, TypeOK, SnapshotsAgree, Truthful, NativeDispose, JobTo, Erased
<1>4. ClicksAgree'
  BY DEF IInv, ClicksAgree, NativeDispose
<1>5. OutcomeArmed'
  BY DEF IInv, OutcomeArmed, NativeDispose, ui
<1>6. BusyBacked'
  BY DEF IInv, BusyBacked, WillReport, NativeDispose, JobTo, ui
<1> QED
  BY <1>1, <1>2, <1>3, <1>4, <1>5, <1>6 DEF IInv

LEMMA ClickRequestStep ==
    ASSUME IInv, NEW c \in Clicks, NEW kind \in {"pause", "cancel"}, ClickRequest(c, kind)
    PROVE  IInv'
<1>1. TypeOK'
  BY DEF IInv, TypeOK, ClickRequest, ui, jobs, counters
<1>2. JobsAgree'
  BY DEF IInv, JobsAgree, ClickRequest, jobs, counters
<1>3. SnapshotsAgree'
  BY DEF IInv, SnapshotsAgree, ClickRequest, jobs
<1>4. ClicksAgree'
  BY DEF IInv, TypeOK, ClicksAgree, ClickRequest
<1>5. OutcomeArmed'
  BY DEF IInv, OutcomeArmed, ClickRequest, ui
<1>6. BusyBacked'
  BY DEF IInv, BusyBacked, WillReport, ClickRequest, ui, jobs
<1> QED
  BY <1>1, <1>2, <1>3, <1>4, <1>5, <1>6 DEF IInv

LEMMA NativeRequestStep ==
    ASSUME IInv, NEW c \in Clicks, NativeRequest(c)
    PROVE  IInv'
<1>1. TypeOK'
  <2>1. click[c].handle \in Handles /\ Verb(click[c].kind) \in Active
    BY DEF IInv, ClicksAgree, NativeRequest, Verb, Active
  <2>2. native' \in [Handles -> Snapshots]
    BY <2>1, StatusOfSnapshot DEF IInv, TypeOK, NativeRequest
  <2>3. click' \in [Clicks -> [kind : {"pause", "cancel"}, handle : Handles \cup {None},
                              phase : {"none", "calling", "called"}]]
    BY DEF IInv, TypeOK, NativeRequest
  <2> QED
    BY <2>2, <2>3 DEF IInv, TypeOK, NativeRequest, ui, jobs, counters
<1>2. JobsAgree'
  BY DEF IInv, JobsAgree, NativeRequest, jobs, counters
<1>3. SnapshotsAgree'
  BY DEF IInv, TypeOK, SnapshotsAgree, Truthful, Terminal, Active, NativeRequest,
      Verb, jobs
<1>4. ClicksAgree'
  BY DEF IInv, ClicksAgree, NativeRequest
<1>5. OutcomeArmed'
  BY DEF IInv, OutcomeArmed, NativeRequest, ui
<1>6. BusyBacked'
  BY DEF IInv, BusyBacked, WillReport, NativeRequest, ui, jobs
<1> QED
  BY <1>1, <1>2, <1>3, <1>4, <1>5, <1>6 DEF IInv

LEMMA ShowRequestStep ==
    ASSUME IInv, NEW c \in Clicks, ShowRequest(c)
    PROVE  IInv'
<1>1. TypeOK'
  BY DEF IInv, TypeOK, Active, ShowRequest, Verb, Quiet, jobs, counters
<1>2. JobsAgree'
  BY DEF IInv, JobsAgree, ShowRequest, jobs, counters
<1>3. SnapshotsAgree'
  BY DEF IInv, SnapshotsAgree, ShowRequest, jobs
<1>4. ClicksAgree'
  BY DEF IInv, ClicksAgree, ShowRequest, Quiet
<1>5. OutcomeArmed'
  BY DEF OutcomeArmed, Terminal, ShowRequest, Verb
<1>6. BusyBacked'
  BY DEF BusyBacked, ShowRequest, Verb
<1> QED
  BY <1>1, <1>2, <1>3, <1>4, <1>5, <1>6 DEF IInv

LEMMA NativeProgressStep ==
    ASSUME IInv, NEW h \in Handles, NativeProgress(h)
    PROVE  IInv'
<1>1. TypeOK'
  <2>1. native' \in [Handles -> Snapshots]
    BY StatusOfSnapshot DEF IInv, TypeOK, NativeProgress, Active
  <2> QED
    BY <2>1 DEF IInv, TypeOK, NativeProgress, ui, jobs, counters
<1>2. JobsAgree'
  BY DEF IInv, JobsAgree, NativeProgress, jobs, counters
<1>3. SnapshotsAgree'
  BY DEF IInv, SnapshotsAgree, Truthful, Active, NativeProgress, jobs
<1>4. ClicksAgree'
  BY DEF IInv, ClicksAgree, NativeProgress
<1>5. OutcomeArmed'
  BY DEF IInv, OutcomeArmed, NativeProgress, ui
<1>6. BusyBacked'
  BY DEF IInv, BusyBacked, WillReport, NativeProgress, ui, jobs
<1> QED
  BY <1>1, <1>2, <1>3, <1>4, <1>5, <1>6 DEF IInv

LEMMA NativeFinishStep ==
    ASSUME IInv, NEW h \in Handles, NativeFinish(h)
    PROVE  IInv'
<1>1. TypeOK'
  BY DEF IInv, TypeOK, Snapshots, NativeFinish, NativeRuns
<1>2. JobsAgree'
  BY DEF IInv, JobsAgree, NativeFinish, jobs, counters
<1>3. SnapshotsAgree'
  BY DEF IInv, TypeOK, Terminal, Snapshots, NativeFinish, NativeRuns
<1>4. ClicksAgree'
  BY DEF IInv, ClicksAgree, NativeFinish
<1>5. OutcomeArmed'
  BY DEF IInv, TypeOK, Snapshots, NativeFinish, NativeRuns
<1>6. BusyBacked'
  BY DEF IInv, BusyBacked, WillReport, NativeFinish, ui, jobs
<1> QED
  BY <1>1, <1>2, <1>3, <1>4, <1>5, <1>6 DEF IInv

(***************************************************************************)
(* The invariant                                                           *)
(***************************************************************************)

LEMMA InitEstablishes == Init => IInv
<1> SUFFICES ASSUME Init PROVE IInv
  OBVIOUS
<1>1. TypeOK
  <2>1. busy \in BOOLEAN /\ moduleTask \in BOOLEAN /\ idleReset \in BOOLEAN /\ query \in BOOLEAN
    BY DEF Init
  <2>2. click \in [Clicks -> [kind : {"pause", "cancel"}, handle : Handles \cup {None},
                             phase : {"none", "calling", "called"}]]
    BY DEF Init, Quiet
  <2> QED
    BY <2>1, <2>2, FreshSnapshots, ControllerAssumption DEF Init, TypeOK, Active
<1>2. JobsAgree /\ SnapshotsAgree /\ ClicksAgree /\ OutcomeArmed /\ BusyBacked
  BY NoneAssumption
  DEF Init, JobsAgree, SnapshotsAgree, Truthful, ClicksAgree, OutcomeArmed,
      BusyBacked, Quiet, Fresh, Terminal, Active
<1> QED
  BY <1>1, <1>2 DEF IInv

LEMMA StutterKeeps == IInv /\ UNCHANGED vars => IInv'
<1> SUFFICES ASSUME IInv, UNCHANGED vars PROVE IInv'
  OBVIOUS
<1> QED
  BY DEF IInv, TypeOK, JobsAgree, SnapshotsAgree, ClicksAgree, OutcomeArmed,
      BusyBacked, WillReport, vars, ui, jobs, counters

LEMMA StepKeeps == IInv /\ [Next]_vars => IInv'
<1> SUFFICES ASSUME IInv, Next PROVE IInv'
  BY StutterKeeps
<1>1. CASE IdleResetFires \/ Select \/ BeginQuery \/ EndQuery \/ StartDownload
  BY <1>1, IdleResetFiresStep, SelectStep, BeginQueryStep, EndQueryStep,
     StartDownloadStep
<1>2. ASSUME NEW h \in Handles, StarterStep(h) PROVE IInv'
  BY <1>2, LaunchPollingStep, StartFailedStep, JoinReturnsStep DEF StarterStep
<1>3. ASSUME NEW h \in Handles, JobStep(h) PROVE IInv'
  BY <1>3, JobCanceledStep, NativePollStep, ShowSnapshotStep, NativeDisposeStep
  DEF JobStep
<1>4. ASSUME NEW h \in Handles, NativeProgress(h) \/ NativeFinish(h) PROVE IInv'
  BY <1>4, NativeProgressStep, NativeFinishStep
<1>5. ASSUME NEW c \in Clicks, ClickStep(c) PROVE IInv'
  BY <1>5, NativeRequestStep, ShowRequestStep DEF ClickStep
<1>6. ASSUME NEW c \in Clicks, NEW kind \in {"pause", "cancel"}, ClickRequest(c, kind)
      PROVE  IInv'
  BY <1>6, ClickRequestStep
<1> QED
  BY <1>1, <1>2, <1>3, <1>4, <1>5, <1>6 DEF Next

(* The inductive invariant: jobs, snapshots and what is on display agree at *)
(* every suspension point of every coroutine.                               *)
THEOREM Invariant == Spec => []IInv
<1>1. Init => IInv
  BY InitEstablishes
<1>2. IInv /\ [Next]_vars => IInv'
  BY StepKeeps
<1> QED
  BY <1>1, <1>2, PTL DEF Spec

(* The controller's state keeps its types; in particular a poll never shows *)
(* a finished task that has no outcome.                                     *)
THEOREM TypeCorrect == Spec => []TypeOK
<1>1. IInv => TypeOK
  BY DEF IInv
<1> QED
  BY <1>1, Invariant, PTL

(* When no coroutine is left, an outcome on display has its idle reset     *)
(* pending, whichever downloads, queries and requests came between.        *)
THEOREM OutcomeStaysArmed == Spec => []OutcomeIsArmed
<1>1. IInv => OutcomeIsArmed
  BY DEF IInv, OutcomeArmed, OutcomeIsArmed
<1> QED
  BY <1>1, Invariant, PTL

(* When no coroutine is left, only a late pause or cancel request can have *)
(* left the module busy.                                                   *)
THEOREM BusyStaysBacked == Spec => []BusyIsBacked
<1>1. IInv => BusyIsBacked
  BY DEF IInv, BusyBacked, WillReport, BusyIsBacked, Settled
<1> QED
  BY <1>1, Invariant, PTL

===============================================================================
