------------------------------ MODULE DepotTask ------------------------------
(***************************************************************************)
(* A background file download: the worker thread that runs                 *)
(* download_file_from_manifest_impl, the task object it reports to, and    *)
(* the threads of the host that pause or cancel it.  Two front ends wrap   *)
(* the same worker: the C ABI (src/ffi/steam_depot.cpp) and the Android    *)
(* bridge (cauth_android_steam_depot_jni.cpp).                             *)
(*                                                                         *)
(* A file has FileLen chunks, each one block of PreparedFile; a prepared   *)
(* output is used through its operations, whose steps on the disk are the  *)
(* subject of FileWrite.  Tasks follow one another on the same output path,*)
(* so that what one leaves behind is what the next one finds.              *)
(***************************************************************************)
EXTENDS PreparedFile

CONSTANTS
    NServers,           \* CDN servers the directory returns
    Callers,            \* host threads that pause or cancel
    Frontends,          \* subset of {"ffi", "jni"}
    NoRequest

ASSUME DepotAssumption ==
    /\ NServers \in Nat \ {0}
    /\ Frontends \subseteq {"ffi", "jni"}

ASSUME NoRequestAssumption ==
    NoRequest \notin Options({TRUE}) \cup [version : Versions, mode : Modes]

VARIABLES
    part, saved, final, \* disk: temp file, its resume state, the destination
    frontend,           \* which wrapper the host uses
    cancelRequested,    \* task->cancel_requested
    pauseRequested,     \* task->pause_requested
    finished,           \* task->finished
    outcome,            \* which of succeeded, paused, canceled is set, or none
    status,             \* task->module_status
    pc,                 \* where the worker stands
    look,               \* which hook it reads next in an interrupt check
    opt,                \* what this task was asked to download
    offset,             \* resume_offset_ when resume_available_, else 0
    chunk,              \* current_chunk_index: chunks before it are written
    server,             \* index of the CDN server being tried
    preserve,           \* preserve_partial_
    committed,          \* committed_ or skipped_
    err,                \* which of the two operation messages err holds
    call,               \* per caller: the request it is making and how far it is
    asked,              \* history: kinds of request made to this task
    late                \* history: chunks written since the flags stand as they do

disk == <<part, saved, final>>
flags == <<cancelRequested, pauseRequested>>
verdict == <<finished, outcome, status>>
progress == <<offset, chunk, server>>
prepared == <<preserve, committed>>
vars == <<disk, frontend, flags, verdict, pc, look, opt, progress, prepared,
          err, call, asked, late>>

Kinds == {"pause", "cancel"}
Outcomes == {"none", "succeeded", "paused", "canceled", "failed"}
Idle == [kind |-> "pause", step |-> 0]
Checks == {"chunk", "server", "response", "processed"}

Requests == {o \in Options({TRUE}) : o.resume}

TypeOK ==
    /\ part \in Seq(Block) \cup {NoFile}
    /\ saved \in Checkpoint \cup {NoFile, Corrupt}
    /\ final \in Seq(Block) \cup {NoFile}
    /\ frontend \in Frontends
    /\ cancelRequested \in BOOLEAN /\ pauseRequested \in BOOLEAN
    /\ finished \in BOOLEAN
    /\ outcome \in Outcomes
    /\ status \in Outcomes \cup {"idle", "downloading", "pausing", "canceling"}
    /\ pc \in Checks \cup {"none", "prepare", "fetch", "open", "request", "process",
                           "write", "save", "close", "commit", "return", "publish",
                           "finish", "done"}
    /\ look \in {"cancel", "pause", "cancelAgain", "pauseAgain"}
    /\ opt \in Requests \cup {NoRequest}
    /\ offset \in 0..FileLen
    /\ chunk \in 0..FileLen
    /\ server \in 1..NServers
    /\ preserve \in BOOLEAN /\ committed \in BOOLEAN
    /\ err \subseteq {"paused", "canceled"}
    /\ call \in [Callers -> [kind : Kinds, step : 0..3]]
    /\ asked \subseteq Kinds
    /\ late \in 0..FileLen

(* The disk is whatever earlier sessions, crashed ones included, may have  *)
(* left: a resume state with a token beside a prefix of that version.      *)
Init ==
    /\ part \in {NoFile} \cup {Prefix(v, n) : v \in Versions, n \in 0..FileLen}
    /\ saved \in {NoFile, Corrupt} \cup Checkpoint
    /\ part # NoFile /\ saved \in Checkpoint /\ saved.token # NoToken =>
           part = Prefix(saved.token, Len(part))
    /\ final \in {NoFile, ForeignFile}
    /\ frontend \in Frontends
    /\ cancelRequested = FALSE /\ pauseRequested = FALSE
    /\ finished = FALSE /\ outcome = "none" /\ status = "idle"
    /\ pc = "none" /\ look = "cancel"
    /\ opt = NoRequest
    /\ offset = 0 /\ chunk = 0 /\ server = 1
    /\ preserve = FALSE /\ committed = FALSE
    /\ err = {}
    /\ call = [c \in Callers |-> Idle]
    /\ asked = {} /\ late = 0

(***************************************************************************)
(* start_depot_task, start_download_task: a fresh task object              *)
(***************************************************************************)

(* A mutant: the request flags belong to the process, not to the task. *)
StartTaskKeepsFlags(o) ==
    /\ pc \in {"none", "done"}
    /\ \A c \in Callers : call[c].step = 0
    /\ opt' = o
    /\ finished' = FALSE /\ outcome' = "none" /\ status' = "idle"
    /\ pc' = "prepare" /\ look' = "cancel"
    /\ offset' = 0 /\ chunk' = 0 /\ server' = 1
    /\ preserve' = FALSE /\ committed' = FALSE
    /\ err' = {} /\ asked' = {} /\ late' = 0
    /\ UNCHANGED <<disk, frontend, flags, call>>

(* The previous task is over and nobody holds a request on it. *)
StartTask(o) ==
    /\ pc \in {"none", "done"}
    /\ \A c \in Callers : call[c].step = 0
    /\ opt' = o
    /\ cancelRequested' = FALSE /\ pauseRequested' = FALSE
    /\ finished' = FALSE /\ outcome' = "none" /\ status' = "idle"
    /\ pc' = "prepare" /\ look' = "cancel"
    /\ offset' = 0 /\ chunk' = 0 /\ server' = 1
    /\ preserve' = FALSE /\ committed' = FALSE
    /\ err' = {} /\ asked' = {} /\ late' = 0
    /\ UNCHANGED <<disk, frontend, call>>

(***************************************************************************)
(* download_file_from_manifest_impl up to the first chunk                  *)
(***************************************************************************)

(* An accepted pair is continued; any other, and a pair whose checkpoint   *)
(* or size cannot be read, is cleared and the mode decides.  A file that   *)
(* cannot be inspected or removed ends the task, and the destructor still  *)
(* clears the pair.                                                        *)
Prepare ==
    /\ pc = "prepare"
    /\ \/ /\ ResumeAccepted(opt, part, saved)
          /\ offset' = saved.bytes
          /\ pc' = "fetch"
          /\ UNCHANGED <<part, saved, committed>>
       \/ /\ part' = NoFile /\ saved' = NoFile
          /\ committed' = (final # NoFile /\ opt.mode = "SkipExisting")
          /\ pc' = IF final # NoFile /\ opt.mode # "Overwrite" THEN "return" ELSE "fetch"
          /\ UNCHANGED offset
       \/ /\ saved' \in {saved, NoFile}
          /\ pc' = "return"
          /\ UNCHANGED <<part, committed, offset>>
    /\ UNCHANGED <<final, frontend, flags, verdict, look, opt, chunk, server,
                   preserve, err, call, asked, late>>

(* No directory for the output, or no look at it: prepare_file_write       *)
(* returns before it has set the paths that the destructor cleans up.      *)
PrepareRefused ==
    /\ pc = "prepare"
    /\ pc' = "publish"
    /\ UNCHANGED <<disk, frontend, flags, verdict, look, opt, progress, prepared,
                   err, call, asked, late>>

(* fetch_cdn_servers_for_download; an early return without preserve. *)
FetchServers ==
    /\ pc = "fetch"
    /\ pc' \in {"open", "return"}
    /\ UNCHANGED <<disk, frontend, flags, verdict, look, opt, progress, prepared,
                   err, call, asked, late>>

(* A mutant: a resumed output is truncated when it is opened. *)
OpenOutputTruncates ==
    /\ pc = "open"
    /\ part' = <<>>
    /\ chunk' = offset
    /\ status' = "downloading"
    /\ pc' = "chunk"
    /\ UNCHANGED <<saved, final, frontend, flags, finished, outcome, look, opt, offset,
                   server, prepared, err, call, asked, late>>

(* open_binary_output; the resume offset is a chunk boundary here, because *)
(* ResumeAccepted counts in chunks: what the code does about an offset off *)
(* the boundaries (lines 702-720) is left out.                             *)
OpenOutput ==
    /\ pc = "open"
    /\ \/ /\ part' = IF offset > 0 THEN part ELSE <<>>
          /\ chunk' = offset
          /\ status' = "downloading"
          /\ pc' = "chunk"
       \/ /\ pc' = "return"
          /\ UNCHANGED <<part, chunk, status>>
    /\ UNCHANGED <<saved, final, frontend, flags, finished, outcome, look, opt, offset,
                   server, prepared, err, call, asked, late>>

(***************************************************************************)
(* Interrupt checks: fail_if_download_interrupted reads the cancel hook,   *)
(* then the pause hook; if either is up it writes its message and the      *)
(* caller reads both hooks again to decide what to do with the partial     *)
(***************************************************************************)

(* Where an uninterrupted check continues. *)
Onward == CASE pc = "chunk" -> "server"
            [] pc = "server" -> "request"
            [] pc = "response" -> "process"
            [] pc = "processed" -> "write"

(* What follows the message: the check after a chunk was processed returns *)
(* at once, the other three read the hooks again.                          *)
Interrupted(message) ==
    /\ err' = err \cup {message}
    /\ IF pc = "processed"
       THEN pc' = "return" /\ look' = "cancel"
       ELSE pc' = pc /\ look' = "cancelAgain"

NotInterrupted ==
    /\ pc' = Onward
    /\ look' = "cancel"
    /\ server' = IF pc = "chunk" THEN 1 ELSE server
    /\ status' = IF pc = "server" THEN "downloading" ELSE status

LastChunkWritten ==
    /\ pc = "chunk" /\ look = "cancel"
    /\ chunk = FileLen
    /\ pc' = "close"
    /\ UNCHANGED <<disk, frontend, flags, verdict, look, opt, progress, prepared,
                   err, call, asked, late>>

ReadCancelHook ==
    /\ pc \in Checks /\ look = "cancel"
    /\ pc = "chunk" => chunk < FileLen
    /\ \/ cancelRequested /\ Interrupted("canceled")
       \/ ~cancelRequested /\ look' = "pause" /\ UNCHANGED <<pc, err>>
    /\ UNCHANGED <<disk, frontend, flags, verdict, opt, progress, prepared,
                   call, asked, late>>

(* A mutant: the pause hook is never installed. *)
PauseHookMissing ==
    /\ pc \in Checks /\ look = "pause"
    /\ NotInterrupted
    /\ UNCHANGED <<disk, frontend, flags, finished, outcome, opt, offset, chunk,
                   prepared, err, call, asked, late>>

ReadPauseHook ==
    /\ pc \in Checks /\ look = "pause"
    /\ \/ pauseRequested /\ Interrupted("paused") /\ UNCHANGED <<server, status>>
       \/ ~pauseRequested /\ NotInterrupted /\ UNCHANGED err
    /\ UNCHANGED <<disk, frontend, flags, finished, outcome, opt, offset, chunk,
                   prepared, call, asked, late>>

(* The second look: discard for cancel, preserve for pause, neither if the *)
(* request has been replaced in between and is not up yet.                 *)
ReadCancelAgain ==
    /\ pc \in Checks /\ look = "cancelAgain"
    /\ \/ /\ cancelRequested
          /\ part' = NoFile /\ saved' = NoFile
          /\ pc' = "return" /\ look' = "cancel"
       \/ /\ ~cancelRequested
          /\ look' = "pauseAgain"
          /\ UNCHANGED <<part, saved, pc>>
    /\ UNCHANGED <<final, frontend, flags, verdict, opt, progress, prepared,
                   err, call, asked, late>>

ReadPauseAgain ==
    /\ pc \in Checks /\ look = "pauseAgain"
    /\ preserve' = pauseRequested
    /\ pc' = "return" /\ look' = "cancel"
    /\ UNCHANGED <<disk, frontend, flags, verdict, opt, progress, committed,
                   err, call, asked, late>>

(***************************************************************************)
(* One chunk: download_raw_chunk, process_depot_chunk, write, checkpoint   *)
(***************************************************************************)

(* Two mutants: no end to the servers, and starting over after the last.   *)
NextServerUnbounded ==
    server' = server + 1 /\ pc' = "server" /\ UNCHANGED preserve

NextServerWraps ==
    server' = (server % NServers) + 1 /\ pc' = "server" /\ UNCHANGED preserve

(* The next server, or preserve and give up after the last one. *)
NextServer ==
    IF server < NServers
    THEN server' = server + 1 /\ pc' = "server" /\ UNCHANGED preserve
    ELSE preserve' = TRUE /\ pc' = "return" /\ UNCHANGED server

(* The HTTP client polls the same hooks and calls either request           *)
(* "operation canceled"; any request may fail for reasons of its own.      *)
RequestChunk ==
    /\ pc = "request"
    /\ \/ /\ pc' = "response"
          /\ UNCHANGED <<err, server, preserve>>
       \/ /\ NextServer
          /\ UNCHANGED err
       \/ /\ cancelRequested \/ pauseRequested
          /\ err' = err \cup {"canceled"}
          /\ NextServer
    /\ status' \in {status, "downloading"}      \* progress reports bytes received
    /\ UNCHANGED <<disk, frontend, flags, finished, outcome, look, opt, offset, chunk,
                   committed, call, asked, late>>

ProcessChunk ==
    /\ pc = "process"
    /\ \/ pc' = "processed" /\ UNCHANGED <<server, preserve>>
       \/ NextServer
    /\ UNCHANGED <<disk, frontend, flags, verdict, look, opt, offset, chunk,
                   committed, err, call, asked, late>>

WriteChunk ==
    /\ pc = "write"
    /\ \/ /\ part' = Append(part, <<opt.version, chunk + 1>>)
          /\ pc' = "save"
          /\ late' = IF cancelRequested \/ pauseRequested THEN late + 1 ELSE late
       \/ /\ pc' = "return"
          /\ UNCHANGED <<part, late>>
    /\ UNCHANGED <<saved, final, frontend, flags, verdict, look, opt, progress,
                   prepared, err, call, asked>>

SaveState ==
    /\ pc = "save"
    /\ \/ /\ saved' = [token |-> opt.version, bytes |-> chunk + 1]
          /\ status' = "downloading"
          /\ pc' = "chunk"
       \/ /\ pc' = "return"
          /\ UNCHANGED <<saved, status>>
    /\ chunk' = chunk + 1
    /\ UNCHANGED <<part, final, frontend, flags, finished, outcome, look, opt, offset,
                   server, prepared, err, call, asked, late>>

(***************************************************************************)
(* close, commit, the destructor                                           *)
(***************************************************************************)

CloseOutput ==
    /\ pc = "close"
    /\ pc' \in {"commit", "return"}
    /\ UNCHANGED <<disk, frontend, flags, verdict, look, opt, progress, prepared,
                   err, call, asked, late>>

(* The destination is replaced unless the mode forbids it or the rename    *)
(* fails; committed_ also needs the state file to go.                      *)
Commit ==
    /\ pc = "commit"
    /\ \/ /\ opt.mode = "Overwrite" \/ final = NoFile
          /\ final' = part /\ part' = NoFile
          /\ \/ saved' = NoFile /\ committed' = TRUE /\ status' = "downloading"
             \/ UNCHANGED <<saved, committed, status>>
       \/ UNCHANGED <<part, saved, final, committed, status>>
    /\ pc' = "return"
    /\ UNCHANGED <<frontend, flags, finished, outcome, look, opt, progress, preserve,
                   err, call, asked, late>>

(* ~PreparedFileWrite, then back in the task's runner. *)
Return ==
    /\ pc = "return"
    /\ IF committed \/ preserve
       THEN UNCHANGED <<part, saved>>
       ELSE part' = NoFile /\ saved' = NoFile
    /\ pc' = "publish"
    /\ UNCHANGED <<final, frontend, flags, verdict, look, opt, progress, prepared,
                   err, call, asked, late>>

(***************************************************************************)
(* The task's result                                                       *)
(***************************************************************************)

(* The C ABI decides by the messages in err, pause first. *)
FfiOutcome ==
    IF committed THEN "succeeded"
    ELSE IF "paused" \in err THEN "paused"
    ELSE IF "canceled" \in err THEN "canceled"
    ELSE "failed"

(* The Android bridge also looks at the flags. *)
JniOutcome ==
    IF committed THEN "succeeded"
    ELSE IF "paused" \in err \/ pauseRequested THEN "paused"
    ELSE IF "canceled" \in err \/ cancelRequested THEN "canceled"
    ELSE "failed"

(* Under the task's lock; the bridge stores finished under it as well.     *)
Publish ==
    /\ pc = "publish"
    /\ outcome' = IF frontend = "ffi" THEN FfiOutcome ELSE JniOutcome
    /\ status' = outcome'
    /\ \/ frontend = "ffi" /\ pc' = "finish" /\ UNCHANGED finished
       \/ frontend = "jni" /\ pc' = "done" /\ finished' = TRUE
    /\ UNCHANGED <<disk, frontend, flags, look, opt, progress, prepared,
                   err, call, asked, late>>

Finish ==
    /\ pc = "finish"
    /\ finished' = TRUE
    /\ pc' = "done"
    /\ UNCHANGED <<disk, frontend, flags, outcome, status, look, opt, progress,
                   prepared, err, call, asked, late>>

Worker ==
    \/ Prepare \/ PrepareRefused \/ FetchServers \/ OpenOutput
    \/ LastChunkWritten \/ ReadCancelHook \/ ReadPauseHook
    \/ ReadCancelAgain \/ ReadPauseAgain
    \/ RequestChunk \/ ProcessChunk \/ WriteChunk \/ SaveState
    \/ CloseOutput \/ Commit \/ Return \/ Publish \/ Finish

(***************************************************************************)
(* cauth_depot_pause_task, cauth_depot_cancel_task and the bridge's pair:  *)
(* two stores without the lock, then the status under it                   *)
(***************************************************************************)

(* The C ABI's pause lowers the cancel flag before it raises its own; the  *)
(* other three raise their own flag first.                                 *)
CancelFirst(kind) == kind = "cancel" \/ frontend = "ffi"

StoreCancel(kind) == cancelRequested' = (kind = "cancel") /\ UNCHANGED pauseRequested
StorePause(kind) == pauseRequested' = (kind = "pause") /\ UNCHANGED cancelRequested

BeginRequest(c, kind) ==
    /\ pc # "none"
    /\ call[c].step = 0
    /\ call' = [call EXCEPT ![c] = [kind |-> kind, step |-> 1]]
    /\ asked' = asked \cup {kind}
    /\ UNCHANGED <<disk, frontend, flags, verdict, pc, look, opt, progress, prepared,
                   err, late>>

StoreFlag(c) ==
    LET kind == call[c].kind
    IN  /\ call[c].step \in {1, 2}
        /\ IF CancelFirst(kind) <=> call[c].step = 1 THEN StoreCancel(kind) ELSE StorePause(kind)
        /\ late' = 0
        /\ call' = [call EXCEPT ![c].step = @ + 1]
        /\ UNCHANGED <<disk, frontend, verdict, pc, look, opt, progress, prepared,
                       err, asked>>

SetStatus(c) ==
    LET kind == call[c].kind
    IN  /\ call[c].step = 3
        /\ status' = CASE kind = "pause" -> "pausing"
                       [] kind = "cancel" /\ frontend = "ffi" -> "canceled"
                       [] kind = "cancel" /\ frontend = "jni" -> "canceling"
        /\ call' = [call EXCEPT ![c] = Idle]
        /\ UNCHANGED <<disk, frontend, flags, finished, outcome, pc, look, opt, progress,
                       prepared, err, asked, late>>

Next ==
    \/ \E o \in Requests : StartTask(o)
    \/ Worker
    \/ \E c \in Callers : \/ \E kind \in Kinds : BeginRequest(c, kind)
                          \/ StoreFlag(c)
                          \/ SetStatus(c)

(* The worker's thread runs; nobody has to pause or cancel. *)
Spec == Init /\ [][Next]_vars /\ WF_vars(Worker)

(***************************************************************************)
(* Properties                                                              *)
(***************************************************************************)

(* A task that reports success without having skipped an existing file has *)
(* put the whole requested version at the destination and left nothing     *)
(* beside it, whatever it resumed from, whichever servers failed and       *)
(* however often it was paused before.                                     *)
SucceededIsWhole ==
    finished /\ outcome = "succeeded" =>
        /\ \/ final = Whole(opt.version)
           \/ opt.mode = "SkipExisting" /\ chunk = 0 /\ final # NoFile
        /\ part = NoFile /\ saved = NoFile

(* A task never reports paused or canceled of its own accord: somebody     *)
(* asked for a pause, or for a pause or a cancel (the HTTP client calls    *)
(* both canceled).                                                         *)
OutcomeWasAsked ==
    /\ outcome = "paused" => "pause" \in asked
    /\ outcome = "canceled" => asked # {}

(* While a request stands, the worker writes at most the chunk it had      *)
(* already checked.  (A host that keeps switching between pause and cancel *)
(* can slip past the two reads of every check, so only requests that stand *)
(* are counted.)                                                           *)
StopsAtNextCheck == late <= 1

(* Every task finishes: the servers are tried once each per chunk and no   *)
(* interrupt, failure or race between requests makes the worker spin.      *)
TaskFinishes == pc = "prepare" ~> finished

(* memory.md promises pause as opposed to cancel: a download that was only *)
(* ever asked to pause, and paused, keeps the chunks it had written.       *)
PausedKeepsPartial ==
    finished /\ outcome = "paused" /\ asked = {"pause"} /\ chunk > 0 =>
        part = Prefix(opt.version, chunk) /\ saved = [token |-> opt.version, bytes |-> chunk]

(* Seen from the destination path, tasks implement atomic replacement. *)
Promise == INSTANCE AtomicReplacement WITH
    Requests <- [version : Versions, mode : Modes],
    ForeignContent <- ForeignFile,
    RenameReplaces <- FALSE,
    WholeOf <- Whole,
    request <- IF pc \in {"none", "done"} THEN NoRequest
               ELSE [version |-> opt.version, mode |-> opt.mode]

(* Whoever pauses and cancels a download and whichever servers fail, the   *)
(* destination keeps what it has until it becomes the whole version this   *)
(* task was asked for, in one step, and only as the write mode allows.     *)
ImplementsAtomicReplacement == Promise!ASpec

(***************************************************************************)
(* The inductive invariant                                                 *)
(***************************************************************************)

Ending == {"return", "publish", "finish", "done"}

(* A chunk is on its way: the test for the last one is behind it. *)
OnChunk ==
    \/ pc \in {"server", "request", "response", "process", "processed", "write", "save"}
    \/ pc = "chunk" /\ look # "cancel"

(* Where the worker stands says what it has done. *)
PlaceAgrees ==
    /\ pc # "none" => opt \in Requests
    /\ pc \notin Checks => look = "cancel"
    /\ pc \in {"none", "prepare", "fetch", "open"} => chunk = 0
    /\ pc \in {"none", "prepare"} => offset = 0
    /\ OnChunk => chunk < FileLen
    /\ pc \in {"close", "commit"} => chunk = FileLen
    /\ committed \/ preserve => pc \in Ending
    /\ outcome # "none" => pc \in {"finish", "done"}
    /\ outcome = "succeeded" => committed

(* Flags, messages and requests under way go back to requests made. *)
RequestsAgree ==
    /\ pauseRequested \/ "paused" \in err => "pause" \in asked
    /\ cancelRequested \/ err # {} => asked # {}
    /\ \A c \in Callers : call[c].step # 0 => call[c].kind \in asked

(* A flag that stood while a chunk was written is met at the next check. *)
LateAgrees ==
    late # 0 =>
        /\ late = 1 /\ (cancelRequested \/ pauseRequested)
        /\ pc \in {"save", "chunk", "close", "commit"} \cup Ending
        /\ look = "pause" => pauseRequested

(* A checkpoint with a token stands beside a beginning of its version,     *)
(* between tasks too: this is what the next task's resume rests on.        *)
CheckpointVouches ==
    \A v \in Versions : part # NoFile /\ saved \in Checkpoint /\ saved.token = v =>
        \E n \in 0..FileLen : part = Prefix(v, n)

(* The partial holds the first n chunks, and no checkpoint counts others. *)
Holds(n) ==
    /\ part = Prefix(opt.version, n)
    /\ saved \in {NoFile, [token |-> opt.version, bytes |-> n]}

PartAgrees ==
    /\ pc \in {"fetch", "open"} =>
            Holds(offset) \/ (part = NoFile /\ saved = NoFile /\ offset = 0)
    /\ pc \in Checks \cup {"request", "process", "write", "close", "commit"} => Holds(chunk)
    /\ pc = "save" => /\ part = Prefix(opt.version, chunk + 1)
                      /\ saved \in {NoFile, [token |-> opt.version, bytes |-> chunk]}
    /\ pc = "return" /\ preserve => Holds(chunk)

Delivered ==
    committed =>
        /\ \/ final = Whole(opt.version)
           \/ opt.mode = "SkipExisting" /\ chunk = 0 /\ final # NoFile
        /\ part = NoFile /\ saved = NoFile

(* What every step of the worker and of the callers keeps. *)
IInv ==
    /\ TypeOK /\ PlaceAgrees /\ RequestsAgree /\ LateAgrees
    /\ CheckpointVouches /\ PartAgrees /\ Delivered /\ OutcomeWasAsked

=============================================================================
