------------------------------ MODULE FileWrite ------------------------------
(***************************************************************************)
(* PreparedFileWrite and prepare_file_write of core/platform/file_write,   *)
(* with the checkpoint files of core/transfer, on a disk that outlives the *)
(* process.  One session is the life of one PreparedFileWrite; the process *)
(* may die between any two file system calls, and another program may put  *)
(* a file at the destination.                                              *)
(*                                                                         *)
(* The caller is any caller that streams the requested version in order    *)
(* and saves a checkpoint after each block, as the depot and cloud         *)
(* downloads do; when to close, commit, preserve, discard or give up is    *)
(* left open.                                                              *)
(***************************************************************************)
EXTENDS PreparedFile

CONSTANTS
    AtomicOptions,      \* the atomic_write values sessions may ask for
    RenameReplaces,     \* rename replaces whatever the mode (POSIX)
    NoRequest

ASSUME AtomicOptionsAssumption ==
    /\ AtomicOptions \subseteq BOOLEAN
    /\ RenameReplaces \in BOOLEAN

ASSUME NoRequestAssumption ==
    NoRequest \notin Options(AtomicOptions) \cup [version : Versions, mode : Modes]

VARIABLES
    file,               \* disk: content at the destination and at the temp path
    state,              \* disk: resume state file beside each of the two
    pc,                 \* where the session stands
    opt,                \* options_, NoRequest between sessions
    finalExists,        \* what prepare saw at the destination
    committed,          \* committed_; also stands for skipped_, which implies it
    resumeAvailable,    \* resume_available_
    resumeOffset,       \* resume_offset_
    preservePartial,    \* preserve_partial_
    pos,                \* the caller's count of blocks written
    buf,                \* of these, blocks still in the ofstream buffer
    kept,               \* history: checkpoint the last session preserved
    last                \* history: how the last session ended

disk == <<file, state>>
flags == <<finalExists, committed, resumeAvailable, resumeOffset, preservePartial>>
stream == <<pos, buf>>
history == <<kept, last>>
vars == <<disk, pc, opt, flags, stream, history>>

path == WritePath(opt)

Labels == {"idle", "clearState", "clearPart", "decide", "ready", "open", "save",
           "saving", "broken", "closed", "rename", "clearResume", "discardPart",
           "end", "endState"}

Ends == {"none", "crashed", "preserved", "settled", "faulted"}

TypeOK ==
    /\ file \in [Paths -> Seq(Block) \cup {NoFile}]
    /\ state \in [Paths -> Checkpoint \cup {NoFile, Corrupt}]
    /\ pc \in Labels
    /\ opt \in Options(AtomicOptions) \cup {NoRequest}
    /\ opt = NoRequest <=> pc = "idle"
    /\ finalExists \in BOOLEAN
    /\ committed \in BOOLEAN
    /\ resumeAvailable \in BOOLEAN
    /\ resumeOffset \in 0..FileLen
    /\ preservePartial \in BOOLEAN
    /\ pos \in 0..FileLen
    /\ buf \in 0..pos
    /\ kept \in Checkpoint \cup {NoFile}
    /\ last \in Ends

Init ==
    /\ file \in [Paths -> {NoFile, ForeignFile}] /\ file["part"] = NoFile
    /\ state = [p \in Paths |-> NoFile]
    /\ pc = "idle"
    /\ opt = NoRequest
    /\ finalExists = FALSE
    /\ committed = FALSE
    /\ resumeAvailable = FALSE
    /\ resumeOffset = 0
    /\ preservePartial = FALSE
    /\ pos = 0
    /\ buf = 0
    /\ kept = NoFile
    /\ last = "none"

(***************************************************************************)
(* prepare_file_write                                                      *)
(***************************************************************************)

(* Looks at the three paths and decides whether the partial is resumable.  *)
(* It is given up when its checkpoint or size cannot be read, and prepare  *)
(* fails when the two paths cannot be inspected.  A prepare that fails     *)
(* earlier, at the directory or the destination, has no paths yet and      *)
(* leaves all files alone: a stuttering step between two sessions.         *)
Prepare(o) ==
    /\ pc = "idle"
    /\ opt' = o
    /\ finalExists' = (file["final"] # NoFile)
    /\ \/ /\ ResumeAccepted(o, file[WritePath(o)], state[WritePath(o)])
          /\ resumeAvailable' = TRUE
          /\ resumeOffset' = state[WritePath(o)].bytes
          /\ pc' = "ready"
       \/ /\ resumeAvailable' = FALSE
          /\ resumeOffset' = 0
          /\ pc' \in {"clearState", "end"}
    /\ kept' = NoFile
    /\ last' = "none"
    /\ UNCHANGED <<disk, committed, preservePartial, stream>>

(* The stale state file goes first; a failed removal fails the prepare. *)
ClearStaleState ==
    /\ pc = "clearState"
    /\ \/ /\ state' = [state EXCEPT ![path] = NoFile]
          /\ pc' = "clearPart"
       \/ /\ state[path] # NoFile
          /\ pc' = "end"
          /\ UNCHANGED state
    /\ UNCHANGED <<file, opt, flags, stream, history>>

(* A mutant: only the state file is cleared. *)
ClearStalePartForgotten ==
    /\ pc = "clearPart"
    /\ pc' = "decide"
    /\ UNCHANGED <<disk, opt, flags, stream, history>>

(* Then the stale partial, unless the write path is the destination. *)
ClearStalePart ==
    /\ pc = "clearPart"
    /\ \/ /\ file' = IF opt.atomic THEN [file EXCEPT !["part"] = NoFile] ELSE file
          /\ pc' = "decide"
       \/ /\ opt.atomic /\ file["part"] # NoFile
          /\ pc' = "end"
          /\ UNCHANGED file
    /\ UNCHANGED <<state, opt, flags, stream, history>>

(* What the mode says about the destination that prepare saw. *)
DecideMode ==
    /\ pc = "decide"
    /\ pc' = IF finalExists /\ opt.mode # "Overwrite" THEN "end" ELSE "ready"
    /\ committed' = (finalExists /\ opt.mode = "SkipExisting")
    /\ UNCHANGED <<disk, opt, finalExists, resumeAvailable, resumeOffset,
                   preservePartial, stream, history>>

(***************************************************************************)
(* Streaming: open_binary_output, ofstream writes, save_resume_state       *)
(***************************************************************************)

(* Append to an accepted partial, truncate otherwise.  A retry opens the   *)
(* same prepared output again after the previous attempt closed it.        *)
OpenOutput ==
    /\ pc \in {"ready", "closed"}
    /\ file' = IF resumeAvailable /\ resumeOffset > 0
               THEN file
               ELSE [file EXCEPT ![path] = <<>>]
    /\ pos' = IF resumeAvailable THEN resumeOffset ELSE 0
    /\ buf' = 0
    /\ pc' = "open"
    /\ UNCHANGED <<state, opt, flags, history>>

WriteBlock ==
    /\ pc = "open"
    /\ pos < FileLen
    /\ pos' = pos + 1
    /\ buf' = buf + 1
    /\ pc' = IF opt.resume THEN "save" ELSE "open"
    /\ UNCHANGED <<disk, opt, flags, history>>

(* The stream hands its oldest buffered block to the file. *)
FlushBlock ==
    /\ pc \in {"open", "save", "saving", "broken"}
    /\ buf > 0
    /\ file' = [file EXCEPT ![path] = Append(@, <<opt.version, pos - buf + 1>>)]
    /\ buf' = buf - 1
    /\ UNCHANGED <<state, pc, opt, flags, pos, history>>

(* save_resume_state truncates and rewrites the state file in place. *)
BeginSaveState ==
    /\ pc = "save"
    /\ \E torn \in TornLoads([token |-> opt.version, bytes |-> pos]) :
          state' = [state EXCEPT ![path] = torn]
    /\ pc' = "saving"
    /\ UNCHANGED <<file, opt, flags, stream, history>>

EndSaveState ==
    /\ pc = "saving"
    /\ state' = [state EXCEPT ![path] = [token |-> opt.version, bytes |-> pos]]
    /\ resumeAvailable' = TRUE
    /\ resumeOffset' = pos
    /\ pc' = "open"
    /\ UNCHANGED <<file, opt, finalExists, committed, preservePartial, stream, history>>

(* The disk refuses the checkpoint; the caller stops writing. *)
FailSaveState ==
    /\ pc = "saving"
    /\ pc' = "broken"
    /\ UNCHANGED <<disk, opt, flags, stream, history>>

(* close flushes first; it fails when the disk refuses a buffered block. *)
CloseOutput ==
    /\ pc = "open"
    /\ \/ buf = 0 /\ pc' = "closed"
       \/ buf > 0 /\ pc' = "broken"
    /\ UNCHANGED <<disk, opt, flags, stream, history>>

(***************************************************************************)
(* commit                                                                  *)
(***************************************************************************)

(* Only a non-overwriting mode looks at the destination again. *)
BeginCommit ==
    /\ pc = "closed"
    /\ pos = FileLen
    /\ pc' = CASE ~opt.atomic -> "clearResume"
               [] opt.atomic /\ opt.mode # "Overwrite" /\ file["final"] # NoFile -> "end"
               [] OTHER -> "rename"
    /\ UNCHANGED <<disk, opt, flags, stream, history>>

(* A mutant: the rename replaces what has appeared, whatever the mode. *)
RenameAlwaysReplaces ==
    /\ pc = "rename"
    /\ file' = [final |-> file["part"], part |-> NoFile]
    /\ pc' = "clearResume"
    /\ UNCHANGED <<state, opt, flags, stream, history>>

(* MoveFileEx without REPLACE_EXISTING refuses an existing destination,    *)
(* rename does not; either may fail for reasons of its own.                *)
RenameOver ==
    /\ pc = "rename"
    /\ \/ /\ RenameReplaces \/ opt.mode = "Overwrite" \/ file["final"] = NoFile
          /\ file' = [final |-> file["part"], part |-> NoFile]
          /\ pc' = "clearResume"
       \/ /\ pc' = "end"
          /\ UNCHANGED file
    /\ UNCHANGED <<state, opt, flags, stream, history>>

(* A mutant: the result of clear_resume_state is ignored. *)
ClearAfterCommitIgnored ==
    /\ pc = "clearResume"
    /\ state' \in {state, [state EXCEPT ![path] = NoFile]}
    /\ committed' = TRUE /\ resumeAvailable' = FALSE /\ resumeOffset' = 0
    /\ pc' = "end"
    /\ UNCHANGED <<file, opt, finalExists, preservePartial, stream, history>>

(* committed_ is set only if the state file could be removed. *)
ClearAfterCommit ==
    /\ pc = "clearResume"
    /\ \/ /\ state' = [state EXCEPT ![path] = NoFile]
          /\ committed' = TRUE
          /\ resumeAvailable' = FALSE
          /\ resumeOffset' = 0
       \/ /\ state[path] # NoFile
          /\ UNCHANGED <<state, committed, resumeAvailable, resumeOffset>>
    /\ pc' = "end"
    /\ UNCHANGED <<file, opt, finalExists, preservePartial, stream, history>>

(***************************************************************************)
(* preserve_partial, discard_partial, returning early, the destructor      *)
(***************************************************************************)

(* Once preserved the partial belongs to the next session; only after a    *)
(* clean close, or with nothing left to flush, is it known to be whole.    *)
Preserve ==
    /\ pc \in {"open", "closed", "broken"}
    /\ pc = "broken" \/ buf = 0
    /\ preservePartial' = TRUE
    /\ kept' = IF pc # "broken" /\ opt.atomic /\ opt.resume /\ pos > 0
               THEN [token |-> opt.version, bytes |-> pos]
               ELSE NoFile
    /\ pc' = "end"
    /\ UNCHANGED <<disk, opt, finalExists, committed, resumeAvailable,
                   resumeOffset, stream, last>>

(* State file first, write path second; a failed removal stops there.  The *)
(* depot download does this with its stream still open: what the stream    *)
(* holds then goes nowhere.                                                *)
DiscardState ==
    /\ pc \in {"open", "closed"}
    /\ \/ /\ state' = [state EXCEPT ![path] = NoFile]
          /\ resumeAvailable' = FALSE
          /\ resumeOffset' = 0
          /\ pc' = "discardPart"
       \/ /\ state[path] # NoFile
          /\ pc' = "end"
          /\ UNCHANGED <<state, resumeAvailable, resumeOffset>>
    /\ UNCHANGED <<file, opt, finalExists, committed, preservePartial, stream, history>>

DiscardPart ==
    /\ pc = "discardPart"
    /\ \/ file' = [file EXCEPT ![path] = NoFile]
       \/ UNCHANGED file
    /\ pc' = "end"
    /\ UNCHANGED <<state, opt, flags, stream, history>>

(* The caller returns without a word; the destructor follows. *)
Abandon ==
    /\ pc \in {"ready", "open", "closed", "broken"}
    /\ pc' = "end"
    /\ UNCHANGED <<disk, opt, flags, stream, history>>

(* The process-local part of the session is gone. *)
Forget ==
    /\ pc' = "idle"
    /\ opt' = NoRequest
    /\ finalExists' = FALSE
    /\ committed' = FALSE
    /\ resumeAvailable' = FALSE
    /\ resumeOffset' = 0
    /\ preservePartial' = FALSE
    /\ pos' = 0
    /\ buf' = 0

(* cleanup(): nothing to do, or remove the partial and go on to the state. *)
CleanupDone ==
    /\ pc = "end"
    /\ committed \/ preservePartial
    /\ Forget
    /\ last' = IF preservePartial THEN "preserved" ELSE "settled"
    /\ UNCHANGED <<disk, kept>>

(* A mutant: the destructor overlooks preserve_partial_. *)
CleanupPreservedToo ==
    /\ pc = "end" /\ ~committed
    /\ file' = IF opt.atomic THEN [file EXCEPT !["part"] = NoFile] ELSE file
    /\ pc' = "endState"
    /\ UNCHANGED <<state, opt, flags, stream, history>>

CleanupPart ==
    /\ pc = "end"
    /\ ~committed /\ ~preservePartial
    /\ \/ /\ file' = IF opt.atomic THEN [file EXCEPT !["part"] = NoFile] ELSE file
          /\ UNCHANGED last
       \/ /\ opt.atomic /\ file["part"] # NoFile
          /\ last' = "faulted"
          /\ UNCHANGED file
    /\ pc' = "endState"
    /\ UNCHANGED <<state, opt, flags, stream, kept>>

(* A mutant: the destructor removes the partial alone. *)
CleanupWithoutState ==
    /\ pc = "endState"
    /\ last' = IF last = "faulted" THEN last ELSE "settled"
    /\ Forget
    /\ UNCHANGED <<disk, kept>>

CleanupState ==
    /\ pc = "endState"
    /\ \/ /\ state' = [state EXCEPT ![path] = NoFile]
          /\ last' = IF last = "faulted" THEN last ELSE "settled"
       \/ /\ state[path] # NoFile
          /\ last' = "faulted"
          /\ UNCHANGED state
    /\ Forget
    /\ UNCHANGED <<file, kept>>

(***************************************************************************)
(* The environment                                                         *)
(***************************************************************************)

(* The process dies: buffered blocks are lost, the disk stays. *)
Crash ==
    /\ pc # "idle"
    /\ Forget
    /\ last' = "crashed"
    /\ UNCHANGED <<disk, kept>>

ExternalCreate ==
    /\ file["final"] = NoFile
    /\ file' = [file EXCEPT !["final"] = ForeignFile]
    /\ UNCHANGED <<state, pc, opt, flags, stream, history>>

Next ==
    \/ \E o \in Options(AtomicOptions) : Prepare(o)
    \/ ClearStaleState \/ ClearStalePart \/ DecideMode
    \/ OpenOutput \/ WriteBlock \/ FlushBlock
    \/ BeginSaveState \/ EndSaveState \/ FailSaveState \/ CloseOutput
    \/ BeginCommit \/ RenameOver \/ ClearAfterCommit
    \/ Preserve \/ DiscardState \/ DiscardPart \/ Abandon
    \/ CleanupDone \/ CleanupPart \/ CleanupState
    \/ Crash \/ ExternalCreate

Spec == Init /\ [][Next]_vars

(***************************************************************************)
(* Properties                                                              *)
(***************************************************************************)

(* A resume that prepare accepts continues a true prefix of the requested  *)
(* version: whatever crashes, lost buffers, torn checkpoints and other     *)
(* versions went before, the next block lands where it belongs.            *)
ResumeSound ==
    pc = "ready" /\ resumeAvailable =>
        file[path] = Prefix(opt.version, resumeOffset)

(* A session that preserved its partial after a clean close leaves exactly *)
(* the pair of files from which the next session for that version resumes  *)
(* at the same block (the promise behind pausing a transfer).              *)
PreservedIsResumable ==
    pc = "idle" /\ kept # NoFile =>
        /\ state["part"] = kept
        /\ file["part"] = Prefix(kept.token, kept.bytes)

(* An atomic session that ended in any other orderly way - committed,      *)
(* skipped, refused, discarded, abandoned - leaves neither a partial nor a *)
(* state file beside the destination, unless the destructor's own removal  *)
(* failed.                                                                 *)
NoLitter ==
    pc = "idle" /\ last = "settled" /\ AtomicOptions = {TRUE} =>
        file["part"] = NoFile /\ state["part"] = NoFile

(* After an in-place session ended in an orderly way other than preserve,  *)
(* no state file is left that would vouch for the destination.             *)
NoStaleState ==
    pc = "idle" /\ last = "settled" /\ AtomicOptions = {FALSE} =>
        state["final"] = NoFile

(***************************************************************************)
(* The inductive invariant behind these properties, about the temp path    *)
(***************************************************************************)

Part == file["part"]
PartState == state["part"]

AtomicSession == pc # "idle" /\ opt.atomic

(* The file a session appends to exists. *)
OutputExists ==
    /\ pc \in {"open", "save", "saving", "broken", "closed"} => file[path] # NoFile
    /\ pc = "ready" /\ resumeAvailable => file[path] # NoFile
    /\ pc \in {"clearState", "clearPart", "decide"} => ~resumeAvailable

(* A loadable checkpoint with a token sits beside a prefix of that very    *)
(* version, or beside nothing.                                             *)
CheckpointVouchesForPart ==
    PartState \in Checkpoint /\ PartState.token \in Versions /\ Part # NoFile =>
        \E n \in 0..FileLen : Part = Prefix(PartState.token, n)

(* Between prepare and open the two files agree with resumeAvailable.      *)
PreparedAgrees ==
    AtomicSession =>
        /\ pc \in {"clearPart", "decide"} => PartState = NoFile
        /\ pc = "decide" => Part = NoFile
        /\ pc = "ready" /\ resumeAvailable =>
               /\ Part = Prefix(opt.version, resumeOffset)
               /\ PartState = [token |-> opt.version, bytes |-> resumeOffset]
        /\ pc = "ready" /\ ~resumeAvailable => Part = NoFile /\ PartState = NoFile

(* While the session streams, the partial is what the stream has flushed   *)
(* and the state file speaks of this version or of none.                   *)
StreamAgrees ==
    AtomicSession =>
        /\ pc \in {"open", "save", "saving", "broken", "closed", "rename", "discardPart"} =>
               /\ Part = Prefix(opt.version, pos - buf)
               /\ PartState \in Checkpoint => PartState.token \in {opt.version, NoToken}
        /\ pc \in {"closed", "rename"} => buf = 0
        /\ pc = "rename" => pos = FileLen
        /\ pc \in {"open", "closed"} /\ resumeAvailable => resumeOffset = pos
        /\ pc \in {"open", "closed"} /\ opt.resume /\ pos > 0 =>
               resumeAvailable /\ PartState = [token |-> opt.version, bytes |-> pos]
        /\ resumeAvailable \/ pc \in {"save", "saving"} => opt.resume
        /\ pc = "discardPart" => PartState = NoFile
        /\ pc = "clearResume" => Part = NoFile

(* How the session's last steps leave the two files. *)
EndAgrees ==
    /\ preservePartial => pc = "end"
    /\ kept # NoFile =>
           /\ pc \in {"idle", "end"} /\ (pc = "end" => preservePartial)
           /\ PartState = kept
           /\ kept.token \in Versions
           /\ Part = Prefix(kept.token, kept.bytes)
    /\ committed => pc = "end" /\ ~preservePartial
    /\ AtomicSession /\ committed => Part = NoFile /\ PartState = NoFile
    /\ AtomicSession /\ pc = "endState" /\ last # "faulted" => Part = NoFile

IInv ==
    /\ TypeOK
    /\ OutputExists
    /\ CheckpointVouchesForPart
    /\ PreparedAgrees
    /\ StreamAgrees
    /\ EndAgrees
    /\ NoLitter

(***************************************************************************)
(* The same about the destination itself, when every session writes there  *)
(***************************************************************************)

Final == file["final"]
FinalState == state["final"]

(* A loadable checkpoint with a token sits beside a prefix of that version. *)
CheckpointVouchesForFinal ==
    FinalState \in Checkpoint /\ FinalState.token \in Versions =>
        \E n \in 0..FileLen : Final = Prefix(FinalState.token, n)

(* From prepare to the end of the stream the destination and its state     *)
(* file are what the session believes them to be.                          *)
InPlaceAgrees ==
    /\ committed \/ preservePartial => pc = "end"
    /\ pc # "idle" =>
           /\ pc \in {"clearPart", "decide"} => FinalState = NoFile
           /\ pc = "ready" /\ resumeAvailable =>
                  /\ Final = Prefix(opt.version, resumeOffset)
                  /\ FinalState = [token |-> opt.version, bytes |-> resumeOffset]
           /\ pc = "ready" /\ ~resumeAvailable => FinalState = NoFile
           /\ pc \in {"open", "save", "saving", "broken", "closed", "discardPart"} =>
                  /\ Final = Prefix(opt.version, pos - buf)
                  /\ FinalState \in Checkpoint => FinalState.token \in {opt.version, NoToken}
           /\ pc = "closed" => buf = 0
           /\ pc \in {"open", "closed"} /\ resumeAvailable => resumeOffset = pos
           /\ pc = "discardPart" \/ committed => FinalState = NoFile
           /\ resumeAvailable \/ pc \in {"save", "saving"} => opt.resume
           /\ pc # "rename"

InPlaceInv ==
    AtomicOptions = {FALSE} =>
        /\ TypeOK
        /\ OutputExists
        /\ CheckpointVouchesForFinal
        /\ InPlaceAgrees
        /\ NoStaleState

(* Seen from the destination path, sessions implement atomic replacement.  *)
Promise == INSTANCE AtomicReplacement WITH
    Requests <- [version : Versions, mode : Modes],
    ForeignContent <- ForeignFile,
    WholeOf <- Whole,
    final <- file["final"],
    request <- IF pc = "idle" THEN NoRequest
               ELSE [version |-> opt.version, mode |-> opt.mode]

(* The destination never shows a partial, mixed or unrequested content:    *)
(* it changes only in one step, to the whole requested version, and in a   *)
(* non-overwriting mode only if nothing is there (where rename honours     *)
(* that).  This is what atomic_write is for.                               *)
ImplementsAtomicReplacement == Promise!ASpec

=============================================================================
