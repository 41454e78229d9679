----------------------------- MODULE DepotBatch -----------------------------
(***************************************************************************)
(* download_all_files_from_manifest: the files of a manifest in order, and *)
(* a batch resume state beside them that says how far an earlier run came. *)
(* A resumed run trusts that state: it neither looks at the files before   *)
(* next_file_index nor counts them again.  The download of one file, the   *)
(* subject of DepotTask and FileWrite, is one step here with every outcome *)
(* those modules give it.                                                  *)
(*                                                                         *)
(* The manifests share one list of paths; a file has size one.  The batch  *)
(* writes atomically, as all callers of the repository ask it to.          *)
(***************************************************************************)
EXTENDS Naturals, FiniteSets

CONSTANTS
    Versions,           \* manifests of the depot; a file's content names its manifest
    NFiles, Directories,\* entries of a manifest, and those that are directories
    NoFile, Foreign,    \* nothing at a path; content of some other program
    NoState, Corrupt,   \* no batch state; one that load refuses
    NoJob

ASSUME BatchAssumption ==
    /\ NFiles \in Nat
    /\ Directories \subseteq 1..NFiles
    /\ NoFile \notin Versions /\ Foreign \notin Versions
    /\ NoState \notin [token : Versions, next : 1..NFiles + 1, bytes : 0..NFiles]
    /\ Corrupt \notin [token : Versions, next : 1..NFiles + 1, bytes : 0..NFiles]

VARIABLES
    disk, partial,      \* per entry: the file, and the version its partial belongs to
    state,              \* .cauthdownload.depot.batch.resume
    job, pc,
    index,              \* file_index
    resume,             \* resume_file_index
    bytes,              \* completed_bytes
    wanted,             \* what the interrupt hooks say
    noticed,            \* what the file that failed wrote to err
    verdict,
    skipped,            \* history: files a run passed over as existing
    touched,            \* history: files changed behind the back of a batch state
    lost,               \* history: a run that says paused or canceled did not do so to the
                        \* batch state: the save or removal failed, or another request decided
    blind               \* history: a batch state of the run's own token is on the disk and
                        \* the run did not take it over

disks == <<disk, partial, state>>
run == <<job, pc, index, resume, bytes, noticed, blind>>
history == <<skipped, touched, lost>>
vars == <<disks, run, wanted, verdict, history>>

Files == (1..NFiles) \ Directories
States == [token : Versions, next : 1..NFiles + 1, bytes : 0..NFiles]
Requests == {"pause", "cancel"}
Jobs == [version : Versions, mode : {"Overwrite", "SkipExisting", "FailIfExists"}]

TypeOK ==
    /\ disk \in [Files -> Versions \cup {NoFile, Foreign}]
    /\ partial \in [Files -> Versions \cup {NoFile}]
    /\ state \in States \cup {NoState, Corrupt}
    /\ job \in Jobs \cup {NoJob}
    /\ pc \in {"idle", "load", "next", "file", "leave", "save"}
    /\ index \in 1..NFiles + 1 /\ resume \in 1..NFiles + 1 /\ bytes \in 0..NFiles
    /\ wanted \in Requests \cup {"none"} /\ noticed \in Requests \cup {"none"}
    /\ verdict \in {"none", "succeeded", "canceled", "paused", "failed", "crashed"}
    /\ skipped \subseteq Files /\ touched \subseteq Files
    /\ lost \in BOOLEAN /\ blind \in BOOLEAN

Init ==
    /\ disk \in [Files -> {NoFile, Foreign}]
    /\ partial = [f \in Files |-> NoFile]
    /\ state = NoState
    /\ job = NoJob /\ pc = "idle"
    /\ index = 1 /\ resume = 1 /\ bytes = 0
    /\ wanted = "none" /\ noticed = "none" /\ verdict = "none"
    /\ skipped = {} /\ touched = {} /\ lost = FALSE /\ blind = FALSE

(* The locals of a run as the next one finds them, but for those the       *)
(* properties look at afterwards.                                          *)
End(v) ==
    /\ pc' = "idle" /\ verdict' = v
    /\ index' = (IF v = "paused" THEN index ELSE 1)
    /\ job' = (IF v \in {"paused", "succeeded"} THEN job ELSE NoJob)
    /\ resume' = 1 /\ bytes' = 0 /\ noticed' = "none" /\ wanted' = "none"
    /\ blind' = FALSE

(* What the messages of a run make of it. *)
Said(request) == CASE request = "pause" -> "paused"
                   [] request = "cancel" -> "canceled"
                   [] request = "none" -> "failed"

(* f changes while a state of another manifest claims it. *)
Claimed(f, v) == state \in States /\ state.token # v /\ f < state.next

(***************************************************************************)
(* Outside: a new run, pause and cancel, other writers, a crash            *)
(***************************************************************************)

Start(j) ==
    /\ pc = "idle"
    /\ job' = j /\ pc' = "load"
    /\ index' = 1 /\ verdict' = "none" /\ lost' = FALSE
    /\ UNCHANGED <<disks, resume, bytes, blind, noticed, wanted, skipped, touched>>

(* A later request replaces an earlier one. *)
Interrupt(kind) ==
    /\ pc # "idle" /\ wanted # kind
    /\ wanted' = kind
    /\ UNCHANGED <<disks, run, verdict, history>>

(* Between two runs a download of a single file, or the user, replaces or  *)
(* removes a file; the batch state is not theirs to know.                  *)
OtherWriter(f, content) ==
    /\ pc = "idle" /\ disk[f] # content
    /\ disk' = [disk EXCEPT ![f] = content]
    /\ touched' = touched \cup {f}
    /\ UNCHANGED <<partial, state, run, wanted, verdict, skipped, lost>>

(* The state file is rewritten in place: cut short it is refused, because  *)
(* the token is its last line.                                             *)
Crash ==
    /\ pc # "idle"
    /\ End("crashed")
    /\ state' \in {state} \cup IF pc = "save" \/ (pc = "leave" /\ wanted = "pause")
                               THEN {Corrupt} ELSE {}
    /\ IF pc = "file"
       THEN \E left \in {NoFile, job.version, partial[index]} :
                partial' = [partial EXCEPT ![index] = left]
       ELSE UNCHANGED partial
    /\ UNCHANGED <<disk, history>>

(***************************************************************************)
(* One run                                                                 *)
(***************************************************************************)

(* A state of this manifest under this output root. *)
Own(s) == s \in States /\ s.token = job.version

TakeOver ==
    /\ Own(state)
    /\ resume' = state.next /\ bytes' = state.bytes
    /\ UNCHANGED <<state, blind>>

(* exists() or the load fails, or the token is another's: the run starts   *)
(* at the first file.  The state is removed, but for a failing exists();   *)
(* whether that worked is not looked at.                                   *)
StartOver ==
    /\ state' \in {NoState, state}
    /\ blind' = Own(state')
    /\ UNCHANGED resume

(* A mutant: the bytes are taken over before the token is compared. *)
LoadKeepsBytes ==
    /\ pc = "load"
    /\ pc' = "next"
    /\ \/ TakeOver
       \/ StartOver /\ bytes' = IF state \in States THEN state.bytes ELSE bytes
    /\ UNCHANGED <<disk, partial, job, index, noticed, wanted, verdict, history>>

(* A mutant: a resumed run counts its bytes from zero. *)
LoadForgetsBytes ==
    /\ pc = "load"
    /\ pc' = "next"
    /\ \/ Own(state) /\ resume' = state.next /\ UNCHANGED <<state, blind>>
       \/ StartOver
    /\ UNCHANGED <<disk, partial, job, index, bytes, noticed, wanted, verdict, history>>

(* A mutant: the token is not compared. *)
LoadAnyToken ==
    /\ pc = "load"
    /\ pc' = "next"
    /\ IF state \in States THEN resume' = state.next /\ bytes' = state.bytes
                          ELSE UNCHANGED <<resume, bytes>>
    /\ UNCHANGED <<disks, job, index, blind, noticed, wanted, verdict, history>>

Load ==
    /\ pc = "load"
    /\ pc' = "next"
    /\ TakeOver \/ (StartOver /\ UNCHANGED bytes)
    /\ UNCHANGED <<disk, partial, job, index, noticed, wanted, verdict, history>>

(* The root cannot be created, a directory cannot, a path leaves the root. *)
PathFails ==
    /\ \/ pc = "load"
       \/ pc = "next" /\ wanted = "none" /\ index <= NFiles
          /\ (index \in Directories \/ index >= resume)
    /\ End("failed")
    /\ UNCHANGED <<disks, history>>

(* An interrupt between two files ends the run and leaves the batch state  *)
(* as the last file left it, a cancel included.                            *)
StopBetweenFiles ==
    /\ pc = "next" /\ wanted # "none" /\ index <= NFiles
    /\ End(Said(wanted))
    /\ UNCHANGED <<disks, history>>

(* Directories are always created, files of an earlier run passed over. *)
PassOver ==
    /\ pc = "next" /\ wanted = "none" /\ index <= NFiles
    /\ index \in Directories \/ index < resume
    /\ index' = index + 1
    /\ UNCHANGED <<disks, job, pc, resume, bytes, blind, noticed, wanted, verdict, history>>

BeginFile ==
    /\ pc = "next" /\ wanted = "none" /\ index <= NFiles
    /\ index \notin Directories /\ index >= resume
    /\ pc' = "file"
    /\ UNCHANGED <<disks, job, index, resume, bytes, blind, noticed, wanted, verdict, history>>

MayReplace == disk[index] = NoFile \/ job.mode = "Overwrite"

InPlace ==
    /\ MayReplace
    /\ disk' = [disk EXCEPT ![index] = job.version]
    /\ partial' = [partial EXCEPT ![index] = NoFile]
    /\ skipped' = skipped \ {index}
    /\ touched' = IF Claimed(index, job.version) THEN touched \cup {index}
                                                 ELSE touched \ {index}
    /\ UNCHANGED lost

FileDone ==
    /\ pc = "file"
    /\ InPlace
    /\ bytes' = bytes + 1
    /\ pc' = "save"
    /\ UNCHANGED <<state, job, index, resume, blind, noticed, wanted, verdict>>

(* A partial of this very file is continued whatever the mode says. *)
FileSkipped ==
    /\ pc = "file"
    /\ job.mode = "SkipExisting" /\ disk[index] # NoFile /\ partial[index] # job.version
    /\ partial' = [partial EXCEPT ![index] = NoFile]
    /\ skipped' = skipped \cup {index}
    /\ pc' = "save"
    /\ UNCHANGED <<disk, state, job, index, resume, bytes, blind, noticed, wanted, verdict,
                   touched, lost>>

(* The partial is kept or not; or the file is in place and its checkpoint  *)
(* could not be removed.  The file failed because it noticed a request, or *)
(* for a reason of its own; a pause that hits an HTTP request under way is *)
(* worded as a cancel.                                                     *)
FileFails ==
    /\ pc = "file"
    /\ \/ /\ \E left \in {NoFile, job.version, partial[index]} :
                 partial' = [partial EXCEPT ![index] = left]
          /\ UNCHANGED <<disk, history>>
       \/ InPlace
    /\ \/ noticed' \in {"none", wanted}
       \/ wanted = "pause" /\ noticed' = "cancel"
    /\ pc' = "leave"
    /\ UNCHANGED <<state, job, index, resume, bytes, blind, wanted, verdict>>

(* The message of the file says one request, the second look another. *)
Overtaken == noticed \in Requests /\ noticed # wanted

(* A mutant: a pause saves the file after the one it interrupted. *)
LeaveStateNextFile ==
    /\ pc = "leave"
    /\ state' = CASE wanted = "pause" -> [token |-> job.version, next |-> index + 1, bytes |-> bytes]
                  [] wanted = "cancel" -> NoState
                  [] wanted = "none" -> state
    /\ lost' = Overtaken
    /\ End(Said(noticed))
    /\ UNCHANGED <<disk, partial, skipped, touched>>

(* A mutant: a pause is taken for a cancel. *)
LeaveStateClears ==
    /\ pc = "leave"
    /\ state' = IF wanted = "none" THEN state ELSE NoState
    /\ lost' = Overtaken
    /\ End(Said(noticed))
    /\ UNCHANGED <<disk, partial, skipped, touched>>

(* The hooks are asked again after a file has failed; the verdict follows  *)
(* the messages, though.  Errors of the save and of the removal are only   *)
(* printed.                                                                *)
LeaveState ==
    /\ pc = "leave"
    /\ \/ /\ wanted = "pause"
          /\ state' = [token |-> job.version, next |-> index, bytes |-> bytes]
          /\ lost' = Overtaken
       \/ /\ wanted = "pause"
          /\ state' \in {state, Corrupt} /\ lost' = (noticed # "none")
       \/ /\ wanted = "cancel"
          /\ state' = NoState /\ lost' = Overtaken
       \/ /\ wanted = "cancel" /\ state # NoState
          /\ lost' = (noticed # "none") /\ UNCHANGED state
       \/ wanted = "none" /\ UNCHANGED <<state, lost>>
    /\ End(Said(noticed))
    /\ UNCHANGED <<disk, partial, skipped, touched>>

SaveState ==
    /\ pc = "save"
    /\ state' = [token |-> job.version, next |-> index + 1, bytes |-> bytes]
    /\ index' = index + 1 /\ pc' = "next"
    /\ blind' = FALSE
    /\ UNCHANGED <<disk, partial, job, resume, bytes, noticed, wanted, verdict, history>>

SaveFails ==
    /\ pc = "save"
    /\ state' \in {state, Corrupt}
    /\ End("failed")
    /\ UNCHANGED <<disk, partial, history>>

Finish ==
    /\ pc = "next" /\ index > NFiles
    /\ \/ state' = NoState /\ End("succeeded")
       \/ state # NoState /\ End("failed") /\ UNCHANGED state
    /\ UNCHANGED <<disk, partial, history>>

Run ==
    \/ Load \/ PathFails \/ StopBetweenFiles \/ PassOver \/ BeginFile
    \/ FileDone \/ FileSkipped \/ FileFails \/ LeaveState
    \/ SaveState \/ SaveFails \/ Finish

Next ==
    \/ \E j \in Jobs : Start(j)
    \/ \E kind \in Requests : Interrupt(kind)
    \/ \E f \in Files, content \in Versions \cup {NoFile} : OtherWriter(f, content)
    \/ Crash
    \/ Run

Spec == Init /\ [][Next]_vars

(***************************************************************************)
(* Properties                                                              *)
(***************************************************************************)

(* The files before entry n hold the content of v, but for those a run was *)
(* told to skip and those changed behind the back of a batch state.        *)
Vouched(v, n) == \A f \in Files : f < n => disk[f] = v \/ f \in skipped \cup touched

(* The batch state has the files before entry n for done. *)
HasDone(n) ==
    \A f \in Files : f < n => state \in States /\ state.token = job.version /\ f < state.next

Before(n) == {f \in Files : f < n}

(* What makes the blind trust of a resumed run sound: whenever a batch     *)
(* state lies on the disk, every file before its next_file_index holds the *)
(* content of its manifest, unless a run was told to skip what exists, or  *)
(* the file was replaced while the state of another manifest stood beside  *)
(* it.  Holds across crashes between a file and its save, torn saves,      *)
(* pauses, cancels and runs for other manifests.                           *)
StateVouches == state \in States => Vouched(state.token, state.next)

(* "All files downloaded" is said only when every file is the manifest's,  *)
(* however many runs, crashes and interrupts it took.  The exceptions are  *)
(* what the resume token leaves out: it names neither the write mode, so   *)
(* an Overwrite run resumes after files an earlier run skipped, nor what   *)
(* others did to the files since.                                          *)
SucceededIsWhole == pc = "idle" /\ verdict = "succeeded" => Vouched(job.version, NFiles + 1)

(* A run that ends as paused finds its place again: no file it got through *)
(* is downloaded again, unless the save of the state failed, or a cancel   *)
(* came between the pause and the decision about the state.                *)
PausedKeepsPlace == pc = "idle" /\ verdict = "paused" /\ ~lost => HasDone(index)

(* The bytes that progress reports and the state carries from run to run   *)
(* never exceed those of the files passed so far.                          *)
ProgressWithinFiles ==
    /\ state \in States => state.bytes <= Cardinality(Before(state.next))
    /\ pc = "next" /\ index >= resume => bytes <= Cardinality(Before(index))

(* As long as a batch state of one manifest lies there, no run sets its    *)
(* place or its bytes back: saves go on from what the run loaded, and a    *)
(* pause does not save less than the file before it did.  Excepted is a    *)
(* run that could neither load that state nor remove it: it starts at the  *)
(* first file, and its first save sets both back.                          *)
PlaceIsKept ==
    [][{state, state'} \subseteq States /\ state'.token = state.token /\ ~blind =>
           state'.next >= state.next /\ state'.bytes >= state.bytes]_vars

(***************************************************************************)
(* The inductive invariant                                                 *)
(***************************************************************************)

(* The locals of a run fit the place it has come to. *)
LocalsAgree ==
    /\ pc # "idle" => job \in Jobs
    /\ pc \in {"idle", "load"} => resume = 1 /\ bytes = 0
    /\ pc = "load" => index = 1
    /\ pc \in {"file", "leave", "save"} => index \in Files /\ resume <= index

(* The entry before which a run has dealt with every file, and the one     *)
(* before which the batch state says so: a file that is done and not yet   *)
(* saved lies between them.                                                *)
Known == IF index < resume THEN resume ELSE index
Dealt == IF pc = "save" THEN index + 1 ELSE Known

(* While a run is under way it has dealt with files as a batch state       *)
(* claims, counted no more than them, and lost no place it had.            *)
RunVouches ==
    pc \in {"next", "file", "leave", "save"} =>
        /\ Vouched(job.version, Dealt)
        /\ bytes <= Cardinality(Before(Dealt))
        /\ HasDone(Known)

(* The batch state of this manifest is never ahead of the run under way,   *)
(* unless that run could not load it.                                      *)
StateBehind ==
    /\ pc \in {"next", "file", "leave", "save"} /\ ~blind /\ Own(state) =>
           state.next <= Known /\ state.bytes <= bytes
    /\ pc \in {"idle", "load"} => ~blind

(* What every step keeps.  The properties alone are not kept: what a save  *)
(* may claim rests on what the run has done since it loaded the state.     *)
CoreInv ==
    /\ TypeOK /\ LocalsAgree /\ RunVouches
    /\ StateVouches /\ SucceededIsWhole /\ PausedKeepsPlace /\ ProgressWithinFiles

(* With what PlaceIsKept rests on. *)
IInv == CoreInv /\ StateBehind

=============================================================================
