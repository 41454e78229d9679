------------------------------ MODULE CloudPush ------------------------------
(***************************************************************************)
(* push_cloud_save over CM: list what the cloud holds, scan local_root,    *)
(* plan uploads and deletions, and run upload_cloud_files_via_cm under the *)
(* connector that tries one CM server after the other.  The upload keeps a *)
(* resume state in local_root, where the next scan finds it as one more    *)
(* file to push.                                                           *)
(*                                                                         *)
(* Left out: dry runs, files that cannot be read, requests refused before  *)
(* anything is done, and an old resume state that resists its removal      *)
(* before an upload.  External: the cloud and its upload batches           *)
(* (AppUploadBatch, ClientFileUpload, block PUTs), of which it is assumed  *)
(* that a file is committed only when every block of it arrived.           *)
(***************************************************************************)
EXTENDS CmConnector, Sequences, FiniteSets, SequencesExt, FiniteSetsExt

CONSTANTS
    Names, StateName,   \* remote names: ordinary files, and .cauthupload.resume
    Contents, Local,    \* of ordinary files; those the player's own may have
    Stale,              \* content of a resume state that was scanned
    NBlocks, BlockLen,  \* blocks of a file, units of a block
    Page,               \* files a listing returns at most (count = 500)
    Policies,           \* conflict policies in use
    NoFile, NoState, Corrupt, NoBatch

ASSUME PushAssumption ==
    /\ StateName \notin Names /\ Stale \notin Contents /\ NoFile \notin Contents \cup {Stale}
    /\ IsFiniteSet(Names) /\ Local \subseteq Contents
    /\ NBlocks \in Nat \ {0} /\ BlockLen \in Nat \ {0} /\ Page \in Nat

VARIABLES
    local,              \* local_root, but for the resume state
    state,              \* the resume state
    cloud,              \* external: the files other clients see
    batches,            \* external: per batch id what was committed, and if it is open
    got, gotFor,        \* external: what arrived of the file being uploaded
    pc,
    listed,             \* remote files the listing returned
    plan,               \* [uploads, deletes]: all that the batch token names
    resumed,            \* the resume state when resume_state_loaded
    op,                 \* where in the operation, while link = "operation"
    batch, index, bytes,\* batch_id, file_index, uploaded_file_bytes
    wanted,             \* what the interrupt hooks say
    verdict

disk == <<local, state>>
external == <<cloud, batches, got, gotFor>>
locals == <<batch, index, bytes>>
vars == <<cmVars, disk, external, pc, listed, plan, resumed, op, locals, wanted, verdict>>

Remote == Names \cup {StateName}
Items == Remote \X (Contents \cup {Stale})
Order(names) == SetToSeq(names)     \* in which the scan meets them: that of the directory
Ids == 1..2
FileLen == NBlocks * BlockLen
Bad == BlockLen + 1     \* a block whose bytes are not the file's
NoPlan == [uploads |-> <<>>, deletes |-> {}]
Nothing == [b \in 1..NBlocks |-> 0]

IsPlan(p) ==
    /\ p.uploads \in Seq(Items)
    /\ p.deletes \subseteq Remote

IsState(s) ==
    /\ IsPlan(s.token) /\ s.index \in 1..Len(s.token.uploads) /\ s.bytes \in 0..FileLen
    /\ s.batch \in Ids

Readable(s) == s \notin {NoState, Corrupt}

TypeOK ==
    /\ CmTypeOK
    /\ local \in [Names -> Local \cup {NoFile}]
    /\ Readable(state) => IsState(state)
    /\ cloud \in [Remote -> Contents \cup {Stale, NoFile}]
    /\ batches \in [Ids -> [files : SUBSET Items, open : BOOLEAN] \cup {NoBatch}]
    /\ got \in [1..NBlocks -> 0..Bad]
    /\ pc \in {"idle", "list", "scan", "upload"}
    /\ listed \subseteq Remote /\ IsPlan(plan)
    /\ resumed # NoState => IsState(resumed)
    /\ op \in {"begin", "file", "block", "retry", "commit", "complete", "cancel"}
    /\ batch \in Ids /\ index \in 1..Len(plan.uploads) + 1 /\ bytes \in 0..FileLen
    /\ wanted \in {"none", "pause", "cancel"}
    /\ verdict \in {"none", "succeeded", "paused", "canceled", "failed", "crashed"}

Init ==
    /\ CmOff
    /\ local \in [Names -> Local \cup {NoFile}]
    /\ state = NoState
    /\ \E c \in [Names -> Contents \cup {NoFile}], s \in {Stale, NoFile} :
           cloud = [n \in Remote |-> IF n = StateName THEN s ELSE c[n]]
    /\ batches = [id \in Ids |-> NoBatch]
    /\ got = Nothing /\ gotFor = NoBatch
    /\ pc = "idle" /\ listed = {} /\ plan = NoPlan
    /\ resumed = NoState /\ op = "begin" /\ batch = 1 /\ index = 1 /\ bytes = 0
    /\ wanted = "none" /\ verdict = "none"

(***************************************************************************)
(* Outside: a new push, pause and cancel, edits between pushes, a crash    *)
(***************************************************************************)

(* Batches that nobody can name any more are forgotten.                    *)
KeepBatches(ids) ==
    /\ batches' = [id \in Ids |-> IF id \in ids THEN batches[id] ELSE NoBatch]
    /\ IF gotFor # NoBatch /\ gotFor[1] \in ids
       THEN UNCHANGED <<got, gotFor>> ELSE got' = Nothing /\ gotFor' = NoBatch

Named(s) == IF Readable(s) THEN {s.batch} ELSE {}

(* The locals of a push as the next one finds them. *)
End(v) ==
    /\ pc' = "idle" /\ verdict' = v
    /\ KeepBatches(Named(state))
    /\ listed' = {} /\ plan' = NoPlan /\ resumed' = NoState
    /\ op' = "begin" /\ batch' = 1 /\ index' = 1 /\ bytes' = 0
    /\ wanted' = "none"
    /\ CmEnd

Start ==
    /\ pc = "idle"
    /\ pc' = "list" /\ verdict' = "none"
    /\ UNCHANGED <<cmVars, disk, external, listed, plan, resumed, op, locals, wanted>>

Interrupt(kind) ==
    /\ pc # "idle" /\ wanted # kind
    /\ wanted' = kind
    /\ UNCHANGED <<cmVars, disk, external, pc, listed, plan, resumed, op, locals, verdict>>

(* The player changes a file, another device one of the cloud. *)
Edit ==
    /\ pc = "idle"
    /\ \/ /\ \E n \in Names, c \in Local \cup {NoFile} : local' = [local EXCEPT ![n] = c]
          /\ UNCHANGED cloud
       \/ /\ \E n \in Names, c \in Contents \cup {NoFile} : cloud' = [cloud EXCEPT ![n] = c]
          /\ UNCHANGED local
    /\ UNCHANGED <<cmVars, state, batches, got, gotFor, pc, listed, plan, resumed, op,
                   locals, wanted, verdict>>

Crash ==
    /\ pc # "idle"
    /\ End("crashed")
    /\ UNCHANGED <<disk, cloud>>

(***************************************************************************)
(* List, scan and plan                                                     *)
(***************************************************************************)

(* Every check of the hooks before the upload. *)
StopEarly ==
    /\ pc \in {"list", "scan"} /\ wanted # "none"
    /\ End(IF wanted = "pause" THEN "paused" ELSE "canceled")
    /\ UNCHANGED <<disk, cloud>>

Fail ==
    /\ pc \in {"list", "scan"}
    /\ End("failed")
    /\ UNCHANGED <<disk, cloud>>

(* Only the first page of the listing is asked for. *)
ListRemote ==
    /\ pc = "list" /\ wanted = "none"
    /\ LET present == {n \in Remote : cloud[n] # NoFile}
       IN  listed' \in {s \in SUBSET present :
                            Cardinality(s) = Min({Page, Cardinality(present)})}
    /\ pc' = "scan"
    /\ UNCHANGED <<cmVars, disk, external, plan, resumed, op, locals, wanted, verdict>>

(* What the scan reads at a name: a resume state counts as a file.         *)
Found(n) == IF n # StateName THEN local[n] ELSE IF state = NoState THEN NoFile ELSE Stale

(* should_transfer_push_conflict; LocalWins is the default. *)
Transfers(policy, newer, n) ==
    \/ policy = "LocalWins"
    \/ policy = "NewerWins" /\ n \in newer

Conflicts(seen) == {n \in seen \cap listed : n = StateName \/ Found(n) # cloud[n]}

MakePlan(seen, policy, newer, orphans) ==
    LET uploads == {n \in seen : \/ n \notin listed
                                 \/ n \in Conflicts(seen) /\ Transfers(policy, newer, n)}
    IN  [uploads |-> [i \in 1..Cardinality(uploads) |->
                            <<Order(uploads)[i], Found(Order(uploads)[i])>>],
         deletes |-> IF orphans THEN listed \ seen ELSE {}]

(* A mutant: the batch token is not compared. *)
LoadResumeAnyToken(p) ==
    /\ resumed' = IF Readable(state) THEN state ELSE NoState
    /\ UNCHANGED <<state, batches, got, gotFor>>

(* A state with another token is removed.  A token that names the content  *)
(* of a resume state is never the token inside that state, since its hash  *)
(* would have to contain itself.                                           *)
LoadResume(p) ==
    LET matches == /\ Readable(state) /\ state.token = p
                   /\ \A i \in 1..Len(p.uploads) : p.uploads[i][1] # StateName
    IN  /\ resumed' = IF matches THEN state ELSE NoState
        /\ state' = IF Readable(state) /\ ~matches THEN NoState ELSE state
        /\ KeepBatches(Named(state'))

(* An iterator that cannot be constructed reports through ec and is empty: *)
(* the error check stands in a loop body that never runs.  The hooks are   *)
(* read for each entry and before an upload, not before "Nothing to upload"*)
Scan ==
    /\ pc = "scan"
    /\ \E seen \in {{n \in Remote : Found(n) # NoFile}, {}}, policy \in Policies, orphans \in BOOLEAN :
           IF policy = "FailOnConflict" /\ Conflicts(seen) # {}
           THEN End("failed") /\ UNCHANGED state
           ELSE \E newer \in SUBSET Conflicts(seen) :
                    LET p == MakePlan(seen, policy, newer, orphans)
                    IN  IF p = NoPlan
                        THEN End("succeeded") /\ UNCHANGED state
                        ELSE /\ wanted = "none"
                             /\ LoadResume(p)
                             /\ plan' = p /\ pc' = "upload" /\ listed' = {} /\ CmBegin
                             /\ UNCHANGED <<op, locals, wanted, verdict>>
    /\ UNCHANGED <<local, cloud>>

(***************************************************************************)
(* The operation, on one CM server after the other                         *)
(***************************************************************************)

Unchanged == UNCHANGED <<local, pc, listed, plan, resumed, wanted, verdict>>

ConnectorStep ==
    /\ pc = "upload" /\ CmStep(FALSE)
    /\ UNCHANGED <<state, external, op, locals>> /\ Unchanged

AttemptEnds(continuation, ok, error) ==
    /\ OperationEnds(continuation, ok, error)
    /\ op' = "begin" /\ batch' = 1 /\ index' = 1 /\ bytes' = 0

(* The resume state for file i of the plan. *)
Saved(id, i, n) == [token |-> plan, index |-> i, bytes |-> n, batch |-> id]

(* Rewritten in place: cut in its last line, the item token, it still      *)
(* loads but the file starts anew; cut earlier it is refused.              *)
Torn(s) == {state, Corrupt, [s EXCEPT !.bytes = 0]}

StateSaved(s, next) ==
    /\ state' = s /\ batch' = s.batch /\ index' = s.index /\ bytes' = s.bytes
    /\ op' = next /\ UNCHANGED cmVars

SaveState(s, next) ==
    \/ StateSaved(s, next)
    \/ state' \in Torn(s) /\ AttemptEnds("Stop", FALSE, "failure")

At(o) == pc = "upload" /\ link = "operation" /\ op = o

(* A batch that only deletes saves an empty item token, which load refuses. *)
BeginBatch ==
    /\ At("begin") /\ resumed = NoState
    /\ \/ LET id == IF Named(state) = {1} THEN 2 ELSE 1
          IN  /\ IF plan.uploads = <<>>
                 THEN \/ /\ state' = Corrupt /\ op' = "file" /\ batch' = id
                         /\ UNCHANGED <<cmVars, index, bytes>>
                      \/ state' \in {state, Corrupt} /\ AttemptEnds("Stop", FALSE, "failure")
                 ELSE SaveState(Saved(id, 1, 0), "file")
              /\ batches' = [i \in Ids |-> IF i = id THEN [files |-> {}, open |-> TRUE]
                                          ELSE IF i \in Named(state') THEN batches[i]
                                          ELSE NoBatch]
       \/ /\ \E continuation \in {"Continue", "Stop"} :
                 AttemptEnds(continuation, FALSE, "failure")
          /\ UNCHANGED <<batches, state>>
    /\ UNCHANGED <<cloud, got, gotFor>> /\ Unchanged

ResumeBatch ==
    /\ At("begin") /\ resumed # NoState
    /\ batch' = resumed.batch /\ index' = resumed.index
    /\ op' = "file"
    /\ UNCHANGED <<cmVars, state, external, bytes>> /\ Unchanged

FilesDone ==
    /\ At("file") /\ index > Len(plan.uploads)
    /\ op' = "complete"
    /\ UNCHANGED <<cmVars, state, external, locals>> /\ Unchanged

(* ClientBeginFileUpload: the server may or may not keep what it has of    *)
(* this very file; it refuses a batch that is closed.                      *)
BeginFile ==
    /\ At("file") /\ index <= Len(plan.uploads)
    /\ LET s == Saved(batch, index, IF resumed # NoState /\ resumed.index = index
                                    THEN resumed.bytes ELSE 0)
       IN  \/ /\ batches[batch].open
              /\ StateSaved(s, "block")
              /\ gotFor' = <<batch, index>>
              /\ got' \in {Nothing} \cup IF gotFor = gotFor' THEN {got} ELSE {}
           \/ /\ state' \in {s} \cup Torn(s) \cup IF resumed # NoState THEN {NoState} ELSE {}
              /\ AttemptEnds("Stop", FALSE, "failure")
              /\ UNCHANGED <<got, gotFor>>
    /\ UNCHANGED <<cloud, batches>> /\ Unchanged

Block == bytes \div BlockLen + 1
InBlock == bytes % BlockLen

(* A whole block arrives, or its rest; a rest is good only where the       *)
(* server has what comes before it.                                        *)
UploadBlock ==
    /\ At("block") /\ bytes < FileLen
    /\ got' = [got EXCEPT ![Block] = IF InBlock \in {0, @} THEN BlockLen ELSE Bad]
    /\ SaveState(Saved(batch, index, Block * BlockLen), "block")
    /\ UNCHANGED <<cloud, batches, gotFor>> /\ Unchanged

(* The bytes the HTTP client took count as uploaded, whatever became of    *)
(* them.  A pause saves and stops, a cancel goes on to close the batch, a  *)
(* block that was entered in the middle is tried once more as a whole.     *)
BlockFails ==
    /\ At("block") /\ bytes < FileLen
    /\ \E n \in 0..BlockLen - InBlock :
           /\ \E arrived \in {got[Block], Bad} \cup
                     IF InBlock = got[Block] THEN InBlock..InBlock + n ELSE {} :
                  got' = [got EXCEPT ![Block] = arrived]
           /\ LET s == Saved(batch, index, bytes + n)
              IN  \/ /\ wanted = "cancel"
                     /\ op' = "cancel" /\ UNCHANGED <<cmVars, state, locals>>
                  \/ wanted = "none" /\ InBlock > 0 /\ SaveState(s, "retry")
                  \/ /\ wanted = "pause" \/ (wanted = "none" /\ InBlock = 0)
                     /\ state' \in {s} \cup Torn(s)
                     /\ AttemptEnds("Stop", FALSE, "failure")
    /\ UNCHANGED <<cloud, batches, gotFor>> /\ Unchanged

(* block_offset of the block that failed in the middle: bytes may by now   *)
(* stand at its end.                                                       *)
RetryBlock ==
    /\ At("retry")
    /\ LET failed == (bytes - 1) \div BlockLen + 1
       IN  \/ /\ got' = [got EXCEPT ![failed] = BlockLen]
              /\ SaveState(Saved(batch, index, failed * BlockLen), "block")
           \/ /\ got' \in {got, [got EXCEPT ![failed] = Bad]}
              /\ AttemptEnds("Stop", FALSE, "failure")
              /\ UNCHANGED state
    /\ UNCHANGED <<cloud, batches, gotFor>> /\ Unchanged

BlocksDone ==
    /\ At("block") /\ bytes = FileLen
    /\ op' = "commit"
    /\ UNCHANGED <<cmVars, state, external, locals>> /\ Unchanged

Arrived == \A b \in 1..NBlocks : got[b] = BlockLen

(* The server commits a file that has arrived; others see it now or when   *)
(* the batch is complete.                                                  *)
ServerCommits ==
    LET f == plan.uploads[index]
    IN  /\ Arrived /\ batches[batch].open
        /\ batches' = [batches EXCEPT ![batch].files = @ \cup {f}]
        /\ cloud' \in {cloud, [cloud EXCEPT ![f[1]] = f[2]]}

NextFile ==
    /\ IF index < Len(plan.uploads)
       THEN SaveState(Saved(batch, index + 1, 0), "file")
       ELSE /\ op' = "file" /\ index' = index + 1 /\ bytes' = 0
            /\ UNCHANGED <<cmVars, state, batch>>
    /\ got' = Nothing /\ gotFor' = NoBatch

(* A mutant: the state names the next file before the answer is in. *)
CommitFileTrusting ==
    /\ At("commit")
    /\ ServerCommits \/ UNCHANGED <<cloud, batches>>
    /\ NextFile
    /\ Unchanged

CommitFile ==
    /\ At("commit")
    /\ \/ /\ ServerCommits
          /\ NextFile
       \/ /\ ServerCommits \/ UNCHANGED <<cloud, batches>>
          /\ AttemptEnds("Stop", FALSE, "failure")
          /\ UNCHANGED <<state, got, gotFor>>
    /\ Unchanged

(* The file is withdrawn, the batch completed as failed; neither answer    *)
(* matters, nor whether the state could be removed.                        *)
CancelBatch ==
    /\ At("cancel")
    /\ batches' \in {batches, [batches EXCEPT ![batch].open = FALSE]}
    /\ state' \in {NoState, state}
    /\ AttemptEnds("Stop", FALSE, "canceled")
    /\ UNCHANGED <<cloud, got, gotFor>> /\ Unchanged

ServerCompletes ==
    /\ batches[batch].open
    /\ batches' = [batches EXCEPT ![batch].open = FALSE]
    /\ cloud' = [n \in Remote |->
                    IF n \in plan.deletes THEN NoFile
                    ELSE IF \E f \in batches[batch].files : f[1] = n
                    THEN (CHOOSE f \in batches[batch].files : f[1] = n)[2]
                    ELSE cloud[n]]

(* A lost connection, before or after the server took the call, moves on   *)
(* to the next CM server, with a new batch unless the push resumed one.    *)
CompleteBatch ==
    /\ At("complete")
    /\ \/ /\ ServerCompletes
          /\ \/ state' = NoState /\ AttemptEnds("Stop", TRUE, "")
             \/ UNCHANGED state /\ AttemptEnds("Stop", FALSE, "failure")
       \/ /\ ServerCompletes \/ UNCHANGED <<cloud, batches>>
          /\ \E continuation \in {"Continue", "Stop"} :
                 AttemptEnds(continuation, FALSE, "failure")
          /\ UNCHANGED state
    /\ UNCHANGED <<got, gotFor>> /\ Unchanged

(* A push whose upload failed asks the hooks once more. *)
Report ==
    /\ pc = "upload" /\ link = "done"
    /\ End(CASE answer.ok -> "succeeded"
             [] ~answer.ok /\ wanted = "pause" -> "paused"
             [] ~answer.ok /\ wanted = "cancel" -> "canceled"
             [] ~answer.ok /\ wanted = "none" -> "failed")
    /\ UNCHANGED <<disk, cloud>>

Worker ==
    \/ StopEarly \/ Fail \/ ListRemote \/ Scan
    \/ ConnectorStep \/ BeginBatch \/ ResumeBatch \/ FilesDone \/ BeginFile
    \/ UploadBlock \/ BlockFails \/ RetryBlock \/ BlocksDone \/ CommitFile
    \/ CancelBatch \/ CompleteBatch \/ Report

Next ==
    \/ Start
    \/ \E kind \in {"pause", "cancel"} : Interrupt(kind)
    \/ Edit \/ Crash
    \/ Worker

(* The worker thread keeps running; calls and requests have time limits. *)
Spec == Init /\ [][Next]_vars /\ WF_vars(Worker)

(***************************************************************************)
(* Properties                                                              *)
(***************************************************************************)

(* A resume state names a file of a batch only when every file before it   *)
(* was committed in that batch: the files a resumed push skips are on the  *)
(* server.  Holds across retries on other servers with new batches, torn   *)
(* saves, lost answers and crashes.                                        *)
StateVouches ==
    Readable(state) =>
        \A i \in 1..state.index - 1 :
            state.token.uploads[i] \in batches[state.batch].files

(* When a push reports success the cloud holds every file it planned to    *)
(* upload and none it planned to delete, however many servers, batches and *)
(* earlier pushes it took.                                                 *)
SucceededIsMirrored ==
    link = "done" /\ answer.ok =>
        /\ \A i \in 1..Len(plan.uploads) : cloud[plan.uploads[i][1]] = plan.uploads[i][2]
        /\ \A n \in plan.deletes : cloud[n] = NoFile

(* What the plan makes of a name. *)
Planned(n, content) ==
    \/ n \in plan.deletes /\ content = NoFile
    \/ \E i \in 1..Len(plan.uploads) : plan.uploads[i] = <<n, content>>

(* A push, failed and resumed ones included, changes only the remote files *)
(* its plan names, and to what the plan has for them: no batch it goes on  *)
(* with brings in a file of another plan.                                  *)
ChangesArePlanned ==
    [][pc # "idle" =>
           \A n \in Remote : cloud'[n] # cloud[n] => Planned(n, cloud'[n])]_vars

(* Every push ends. *)
PushEnds == pc # "idle" ~> pc = "idle"

(* docs/steam-cloud.md:29: "--delete-remote-orphans allows push to remove  *)
(* remote files that do not exist locally".                                *)
DeletesOnlyOrphans ==
    link = "done" /\ answer.ok => \A n \in plan.deletes \cap Names : local[n] = NoFile

(***************************************************************************)
(* The inductive invariant                                                 *)
(***************************************************************************)

Batches == [files : SUBSET Items, open : BOOLEAN]

(* The batch holds files of this plan only, and all before the index-th.   *)
Covers(id, uploads, i) ==
    /\ batches[id] \in Batches
    /\ batches[id].files \subseteq {uploads[j] : j \in 1..Len(uploads)}
    /\ \A j \in 1..i - 1 : uploads[j] \in batches[id].files

(* Where the connector stands says what the push has begun. *)
LinkAgrees ==
    /\ pc = "upload" <=> link # "off"
    /\ link \in {"connect", "greet", "heartbeat", "operation"} => server <= NServers
    /\ link # "done" => ~answer.ok
    /\ link # "operation" => op = "begin"
    /\ op = "begin" => batch = 1 /\ index = 1 /\ bytes = 0

(* No two uploads of a plan have one name, and none of them is deleted. *)
PlanAgrees ==
    /\ \A i, j \in 1..Len(plan.uploads) : plan.uploads[i][1] = plan.uploads[j][1] => i = j
    /\ \A i \in 1..Len(plan.uploads) : plan.uploads[i][1] \notin plan.deletes

(* While a push uploads, the resume state and what it resumed are of this  *)
(* plan: that of another one was removed before.                           *)
ResumeAgrees ==
    /\ Readable(state) =>
            /\ Covers(state.batch, state.token.uploads, state.index)
            /\ pc = "upload" => state.token = plan
    /\ resumed # NoState =>
            /\ pc = "upload" /\ resumed.token = plan
            /\ Covers(resumed.batch, plan.uploads, resumed.index)

(* The running batch holds what the upload has passed. *)
RunAgrees ==
    op # "begin" =>
        /\ Covers(batch, plan.uploads, index)
        /\ op \in {"block", "retry", "commit"} => index <= Len(plan.uploads)
        /\ op = "retry" => bytes > 0
        /\ op = "complete" => index > Len(plan.uploads)

IInv ==
    /\ TypeOK /\ LinkAgrees /\ PlanAgrees /\ ResumeAgrees /\ RunAgrees
    /\ SucceededIsMirrored

==============================================================================
