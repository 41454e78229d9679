--------------------------- MODULE StreamDownload ---------------------------
(***************************************************************************)
(* Downloads that stream an HTTP body into a prepared output: depot        *)
(* manifests and chunks (stream_http_download_to_prepared_output under the *)
(* loop over CDN servers) and cloud files                                  *)
(* (download_remote_file_to_prepared_output, over CM or the web).  What a  *)
(* failed attempt leaves in the partial is what the next attempt appends   *)
(* to, without comparing sizes again; what a session leaves is what the    *)
(* next one finds.                                                         *)
(*                                                                         *)
(* A server honours a range exactly or not at all, and a body that breaks  *)
(* off is a read error.  Both attempt loops end before their counters do   *)
(* (a range is given up once, a URL refreshed once), so the counters are   *)
(* left out.                                                               *)
(***************************************************************************)
EXTENDS PreparedFile

CONSTANTS
    NServers,           \* CDN servers the directory returns
    Clients,            \* subset of {"depot", "cm", "web"}
    Backends,           \* HTTP clients: subset of {"winhttp", "android"}
    NoRequest

ASSUME StreamAssumption ==
    /\ NServers \in Nat \ {0}
    /\ Clients \subseteq {"depot", "cm", "web"}
    /\ Backends \subseteq {"winhttp", "android"}

VARIABLES
    part, saved, final, \* disk: temp file, its resume state, the destination
    client, backend,    \* who downloads, through which HTTP client
    opt,                \* version and mode asked for
    pc,
    server,             \* index of the CDN server being tried
    mayRange,           \* attempt == 0, allow_range_request
    refreshed,          \* refreshed_url_retry_used
    offset,             \* resume_offset_ when resume_available_, else 0
    start, ranged,      \* offset when the output was opened, use_range
    written,            \* committed_bytes of the write context
    flushed,            \* blocks of the partial that are surely on the disk
    answer,             \* what the HTTP client returned
    preserve, committed,
    wanted,             \* what the interrupt hooks say
    verdict,            \* what the session reported
    spoiled,            \* history: the partial got the body of an error answer, or was
                        \* appended to after a local failure of the same session
    fault,              \* history: a local file operation failed in this session
    trouble,            \* history: this session met any failure or interrupt
    between             \* history: the interrupt was noticed between two servers

disk == <<part, saved, final>>
asked == <<client, backend, opt>>
loop == <<server, mayRange, refreshed>>
stream == <<start, ranged, written, flushed, answer>>
prepared == <<offset, preserve, committed>>
history == <<spoiled, fault, trouble, between>>
vars == <<disk, asked, pc, loop, stream, prepared, wanted, verdict, history>>

Requests == {o \in Options({TRUE}) : o.resume}
Answers == {"ok", "canceled", "notHonoured", "http", "network", "write", "save"}

(* A count of bytes may exceed the file by the one body of an error answer *)
(* that a refreshed URL without a range is appended to.                    *)
Bytes == 0..FileLen + 1
Counts == [token : Versions \cup {NoToken}, bytes : Bytes]

TypeOK ==
    /\ part \in Seq(Block) \cup {NoFile}
    /\ saved \in Counts \cup {NoFile, Corrupt}
    /\ final \in Seq(Block) \cup {NoFile}
    /\ client \in Clients /\ backend \in Backends
    /\ opt \in Requests \cup {NoRequest}
    /\ pc \in {"idle", "prepare", "fetch", "server", "open", "request", "body",
               "errorBody", "close", "decide", "commit", "return"}
    /\ server \in 1..NServers + 1
    /\ mayRange \in BOOLEAN /\ refreshed \in BOOLEAN /\ ranged \in BOOLEAN
    /\ offset \in Bytes /\ start \in Bytes /\ written \in Bytes
    /\ flushed \in Nat
    /\ answer \in Answers
    /\ preserve \in BOOLEAN /\ committed \in BOOLEAN
    /\ wanted \in {"none", "pause", "cancel"}
    /\ verdict \in {"none", "succeeded", "skipped", "paused", "canceled", "failed", "crashed"}
    /\ spoiled \in BOOLEAN /\ fault \in BOOLEAN /\ trouble \in BOOLEAN /\ between \in BOOLEAN

Init ==
    /\ part = NoFile /\ saved = NoFile
    /\ final \in {NoFile, ForeignFile}
    /\ client \in Clients /\ backend \in Backends
    /\ opt = NoRequest
    /\ pc = "idle"
    /\ server = 1 /\ mayRange = TRUE /\ refreshed = FALSE
    /\ offset = 0 /\ start = 0 /\ ranged = FALSE /\ written = 0 /\ flushed = 0
    /\ answer = "ok"
    /\ preserve = FALSE /\ committed = FALSE
    /\ wanted = "none" /\ verdict = "none"
    /\ spoiled = FALSE /\ fault = FALSE /\ trouble = FALSE /\ between = FALSE

(* What may be left of the partial when its stream does not reach the disk. *)
Losses ==
    IF pc \notin {"request", "body", "errorBody", "close"} THEN {part}
    ELSE {SubSeq(part, 1, n) : n \in flushed..Len(part)}

(* The write context and the stream of an attempt that is over. *)
DropStream ==
    start' = 0 /\ ranged' = FALSE /\ written' = 0 /\ flushed' = 0 /\ answer' = "ok"

(* The variables of a session as every session finds them. *)
Forget ==
    /\ server' = 1 /\ mayRange' = TRUE /\ refreshed' = FALSE
    /\ DropStream
    /\ offset' = 0 /\ preserve' = FALSE /\ committed' = FALSE
    /\ wanted' = "none"

(***************************************************************************)
(* Outside: a new download, pause and cancel, the death of the process     *)
(***************************************************************************)

Start(o) ==
    /\ pc = "idle"
    /\ opt' = o
    /\ pc' = "prepare"
    /\ verdict' = "none"
    /\ fault' = FALSE /\ trouble' = FALSE /\ between' = FALSE
    /\ UNCHANGED <<disk, client, backend, loop, stream, prepared, wanted, spoiled>>

Interrupt(kind) ==
    /\ pc # "idle" /\ wanted # kind
    /\ wanted' = kind
    /\ trouble' = TRUE
    /\ UNCHANGED <<disk, asked, between, pc, loop, stream, prepared, verdict, spoiled, fault>>

Crash ==
    /\ pc # "idle"
    /\ pc' = "idle" /\ verdict' = "crashed"
    /\ part' \in Losses
    /\ saved' \in {saved} \cup IF pc = "body" THEN TornLoads([token |-> opt.version,
                                                            bytes |-> written])
                               ELSE {}
    /\ Forget
    /\ UNCHANGED <<final, asked, history>>

(***************************************************************************)
(* Before the first request                                                *)
(***************************************************************************)

(* The mode test of prepare_file_write for an output that is not resumed.  *)
Exists == final # NoFile /\ opt.mode # "Overwrite"

(* A mutant: an output that is not resumed keeps the state file beside it. *)
PrepareKeepsState ==
    /\ pc = "prepare"
    /\ IF ResumeAccepted(opt, part, saved)
       THEN offset' = saved.bytes /\ UNCHANGED <<part, spoiled>>
       ELSE part' = NoFile /\ spoiled' = FALSE /\ UNCHANGED offset
    /\ pc' = "fetch"
    /\ UNCHANGED <<saved, final, asked, between, loop, stream, preserve, committed, wanted,
                   verdict, fault, trouble>>

(* The partial is accepted; or both files go, a pair whose checkpoint or   *)
(* size cannot be read included; or the paths cannot be inspected, or a    *)
(* stale file stays.                                                       *)
Prepare ==
    /\ pc = "prepare"
    /\ \/ /\ ResumeAccepted(opt, part, saved)
          /\ offset' = saved.bytes
          /\ pc' = "fetch"
          /\ UNCHANGED <<part, saved, verdict, spoiled, fault, trouble>>
       \/ /\ part' = NoFile /\ saved' = NoFile
          /\ pc' = IF Exists THEN "return" ELSE "fetch"
          /\ verdict' = IF ~Exists THEN "none"
                        ELSE IF opt.mode = "SkipExisting" THEN "skipped" ELSE "failed"
          /\ spoiled' = FALSE
          /\ UNCHANGED <<offset, fault, trouble>>
       \/ /\ saved' \in {saved, NoFile}
          /\ pc' = "return" /\ verdict' = "failed"
          /\ fault' = TRUE /\ trouble' = TRUE
          /\ UNCHANGED <<part, offset, spoiled>>
    /\ UNCHANGED <<final, asked, between, loop, stream, preserve, committed, wanted>>

(* No directory for the output, or no look at it: prepare_file_write       *)
(* returns before it has set the paths that the destructor cleans up.      *)
PrepareRefused ==
    /\ pc = "prepare"
    /\ pc' = "idle" /\ verdict' = "failed"
    /\ fault' = TRUE /\ trouble' = TRUE
    /\ Forget
    /\ UNCHANGED <<disk, asked, between, spoiled>>

(* Only depot downloads ask the directory for servers. *)
FetchServers ==
    /\ pc = "fetch"
    /\ \/ /\ pc' = IF client = "depot" THEN "server" ELSE "open"
          /\ UNCHANGED <<verdict, trouble>>
       \/ /\ client = "depot"
          /\ pc' = "return" /\ verdict' = "failed" /\ trouble' = TRUE
    /\ UNCHANGED <<disk, asked, between, loop, stream, prepared, wanted, spoiled, fault>>

(* fail_if_download_interrupted at the top of the loop over servers: the   *)
(* message decides the verdict.  The partial is neither preserved nor      *)
(* discarded here, so that the destructor goes by what earlier servers of  *)
(* the session made of preserve_partial_.                                  *)
StopBetweenServers ==
    /\ wanted # "none"
    /\ pc' = "return"
    /\ verdict' = IF wanted = "pause" THEN "paused" ELSE "canceled"
    /\ between' = TRUE
    /\ UNCHANGED mayRange

TryServer ==
    /\ wanted = "none"
    /\ pc' = "open" /\ mayRange' = TRUE
    /\ UNCHANGED <<verdict, between>>

(* A mutant: the loop does not end behind the last server. *)
NextServerUnbounded ==
    /\ pc = "server"
    /\ TryServer \/ StopBetweenServers
    /\ UNCHANGED <<disk, asked, server, refreshed, stream, prepared, wanted, spoiled, fault,
                   trouble>>

(* The top of the loop over servers. *)
NextServer ==
    /\ pc = "server"
    /\ \/ server <= NServers /\ (TryServer \/ StopBetweenServers)
       \/ /\ server > NServers
          /\ pc' = "return" /\ verdict' = "failed"
          /\ UNCHANGED <<mayRange, between>>
    /\ UNCHANGED <<disk, asked, server, refreshed, stream, prepared, wanted, spoiled, fault,
                   trouble>>

(* A mutant: the server that failed is tried again. *)
AttemptFailedSameServer ==
    IF client = "depot"
    THEN pc' = "server" /\ UNCHANGED <<server, verdict>>
    ELSE pc' = "return" /\ verdict' = "failed" /\ UNCHANGED server

(* An attempt that is over: the next server, or the end of a cloud download. *)
AttemptFailed ==
    IF client = "depot"
    THEN pc' = "server" /\ server' = server + 1 /\ UNCHANGED verdict
    ELSE pc' = "return" /\ verdict' = "failed" /\ UNCHANGED server

(***************************************************************************)
(* One attempt                                                             *)
(***************************************************************************)

(* A mutant: the output is truncated although a range is asked for. *)
OpenOutputTruncates ==
    /\ pc = "open" /\ ~committed
    /\ part' = <<>> /\ flushed' = 0
    /\ start' = offset /\ written' = offset
    /\ ranged' = (mayRange /\ offset > 0)
    /\ spoiled' = ((spoiled \/ fault) /\ offset > 0)
    /\ pc' = "request"
    /\ UNCHANGED <<saved, final, asked, between, loop, answer, prepared, wanted, verdict, fault,
                   trouble>>

(* open_binary_output appends exactly when there is something to resume;   *)
(* it refuses a skipped output.                                            *)
OpenOutput ==
    /\ pc = "open" /\ ~committed
    /\ part' = IF offset > 0 /\ part # NoFile THEN part ELSE <<>>
    /\ flushed' = Len(part')
    /\ start' = offset /\ written' = offset
    /\ ranged' = (mayRange /\ offset > 0)
    /\ spoiled' = ((spoiled \/ fault) /\ offset > 0)
    /\ pc' = "request"
    /\ UNCHANGED <<saved, final, asked, between, loop, answer, prepared, wanted, verdict, fault,
                   trouble>>

OpenFails ==
    /\ pc = "open"
    /\ AttemptFailed
    /\ fault' = (fault \/ ~committed) /\ trouble' = TRUE
    /\ UNCHANGED <<disk, asked, between, mayRange, refreshed, stream, prepared, wanted, spoiled>>

Answered(a) ==
    /\ answer' = a /\ pc' = "close"
    /\ UNCHANGED <<disk, asked, between, loop, start, ranged, written, flushed, prepared, wanted,
                   verdict, spoiled, fault>>

(* The hook is polled before the request is sent and while it runs. *)
RequestCanceled ==
    /\ pc \in {"request", "body", "errorBody"} /\ wanted # "none"
    /\ Answered("canceled")
    /\ UNCHANGED trouble

(* No connection, or a body that breaks off.  Android hands a body over    *)
(* only when it is complete, so there nothing has been written by then.    *)
RequestBreaks ==
    /\ \/ pc \in {"request", "errorBody"}
       \/ pc = "body" /\ backend = "winhttp"
    /\ Answered("network")
    /\ trouble' = TRUE

(* An answer that is not the range asked for.  The Windows client refuses  *)
(* any status but 206.  The Android bridge reports 200 for every success,  *)
(* so that client refuses every range, and an error status, the 416 for a  *)
(* range that starts at the end included, is an error of its own.          *)
RangeRefused ==
    /\ pc = "request" /\ ranged
    /\ \/ backend = "winhttp"
       \/ backend = "android" /\ offset < FileLen
    /\ Answered("notHonoured")
    /\ UNCHANGED trouble

HttpError ==
    /\ pc = "request"
    /\ \/ backend = "android"
       \/ backend = "winhttp" /\ ~ranged
    /\ Answered("http")
    /\ trouble' = TRUE

(* The Windows client reads on whatever the status says. *)
BodyBegins ==
    /\ pc = "request"
    /\ \/ /\ ranged => backend = "winhttp" /\ offset < FileLen
          /\ pc' = "body"
          /\ UNCHANGED trouble
       \/ /\ backend = "winhttp" /\ ~ranged
          /\ pc' = "errorBody"
          /\ trouble' = TRUE
    /\ UNCHANGED <<disk, asked, between, loop, stream, prepared, wanted, verdict, spoiled, fault>>

(***************************************************************************)
(* write_streamed_depot_bytes, write_streamed_cloud_bytes                  *)
(***************************************************************************)

(* Where the server stands in the file: from the start of the range on. *)
Sent == (IF ranged THEN start ELSE 0) + (written - start)

(* Windows delivers block by block, Android the whole body at once. *)
Piece == IF pc = "errorBody" THEN ForeignFile
         ELSE [i \in 1..(IF backend = "winhttp" THEN 1 ELSE FileLen - Sent) |->
                  <<opt.version, Sent + i>>]

Receiving ==
    \/ pc = "body" /\ Sent < FileLen
    \/ pc = "errorBody" /\ written = start

WritePiece ==
    /\ Receiving /\ (backend = "winhttp" => wanted = "none")
    /\ part' = part \o Piece
    /\ written' = written + Len(Piece)
    /\ saved' = [token |-> opt.version, bytes |-> written']
    /\ offset' = written'
    /\ spoiled' = (spoiled \/ pc = "errorBody")
    /\ UNCHANGED <<final, asked, between, pc, loop, start, ranged, flushed, answer, preserve,
                   committed, wanted, verdict, fault, trouble>>

(* The stream goes bad, now or with what it had buffered before. *)
WriteFails ==
    /\ Receiving
    /\ part' \in Losses
    /\ answer' = "write" /\ pc' = "close"
    /\ fault' = TRUE /\ trouble' = TRUE
    /\ UNCHANGED <<saved, final, asked, between, loop, start, ranged, written, flushed, prepared,
                   wanted, verdict, spoiled>>

(* The piece is written and counted, the checkpoint is not: the session    *)
(* keeps its old resume_offset_.                                           *)
SaveFails ==
    /\ Receiving
    /\ part' = part \o Piece
    /\ written' = written + Len(Piece)
    /\ saved' \in {saved} \cup TornLoads([token |-> opt.version, bytes |-> written'])
    /\ answer' = "save" /\ pc' = "close"
    /\ spoiled' = (spoiled \/ pc = "errorBody")
    /\ fault' = TRUE /\ trouble' = TRUE
    /\ UNCHANGED <<final, asked, between, loop, start, ranged, flushed, prepared, wanted,
                   verdict>>

(* The status is looked at only now. *)
BodyEnds ==
    /\ pc \in {"body", "errorBody"} /\ ~Receiving
    /\ Answered(IF pc = "body" THEN "ok" ELSE "http")
    /\ UNCHANGED trouble

(***************************************************************************)
(* After the response                                                      *)
(***************************************************************************)

CloseOutput ==
    /\ pc = "close" /\ answer # "write"
    /\ IF answer = "ok" THEN pc' = "commit" /\ DropStream
                        ELSE pc' = "decide" /\ UNCHANGED stream
    /\ UNCHANGED <<disk, asked, loop, prepared, wanted, verdict, history>>

CloseFails ==
    /\ pc = "close"
    /\ part' \in Losses
    /\ preserve' = TRUE
    /\ AttemptFailed
    /\ fault' = TRUE /\ trouble' = TRUE
    /\ DropStream
    /\ UNCHANGED <<saved, final, asked, between, mayRange, refreshed, offset, committed, wanted,
                   spoiled>>

(* A mutant: a paused download is not preserved. *)
PauseKeepsNothing ==
    /\ pc = "decide" /\ wanted = "pause"
    /\ verdict' = "paused" /\ pc' = "return"
    /\ DropStream
    /\ UNCHANGED <<disk, asked, loop, prepared, wanted, history>>

PauseKeeps ==
    /\ pc = "decide" /\ wanted = "pause"
    /\ preserve' = TRUE
    /\ verdict' = "paused" /\ pc' = "return"
    /\ DropStream
    /\ UNCHANGED <<disk, asked, loop, offset, committed, wanted, history>>

(* discard_partial removes the state file first; either removal may fail.  *)
DiscardPartial ==
    /\ part' = NoFile /\ saved' = NoFile
    /\ offset' = 0 /\ preserve' = FALSE
    /\ spoiled' = FALSE
    /\ UNCHANGED <<fault, trouble>>

DiscardFails ==
    /\ \/ saved' = saved /\ UNCHANGED offset
       \/ saved' = NoFile /\ offset' = 0
    /\ fault' = TRUE /\ trouble' = TRUE
    /\ UNCHANGED <<part, preserve, spoiled>>

(* A mutant: the stream is closed, the files are left to the destructor. *)
CancelLeavesFiles ==
    /\ pc = "decide" /\ wanted = "cancel"
    /\ verdict' = "canceled" /\ pc' = "return"
    /\ DropStream
    /\ UNCHANGED <<disk, asked, loop, prepared, wanted, history>>

CancelDiscards ==
    /\ pc = "decide" /\ wanted = "cancel"
    /\ (DiscardPartial \/ DiscardFails)
    /\ verdict' = "canceled" /\ pc' = "return"
    /\ DropStream
    /\ UNCHANGED <<final, asked, between, loop, committed, wanted>>

(* A mutant: a refused range counts as a failed server. *)
NoRestart ==
    /\ pc = "decide" /\ wanted = "none" /\ answer = "notHonoured"
    /\ preserve' = TRUE
    /\ AttemptFailed
    /\ DropStream
    /\ UNCHANGED <<disk, asked, mayRange, refreshed, offset, committed, wanted, history>>

(* A refused range: remove the partial, prepare again, go on without one.  *)
(* Preparing again applies the mode, which a resumed output had escaped.   *)
RestartWithoutRange ==
    /\ pc = "decide" /\ wanted = "none" /\ answer = "notHonoured"
    /\ mayRange' = FALSE
    /\ \/ /\ DiscardPartial
          /\ committed' = (Exists /\ opt.mode = "SkipExisting")
          /\ IF Exists /\ opt.mode = "FailIfExists"
             THEN AttemptFailed
             ELSE pc' = "open" /\ UNCHANGED <<server, verdict>>
       \/ /\ DiscardFails
          /\ AttemptFailed
          /\ UNCHANGED committed
    /\ DropStream
    /\ UNCHANGED <<final, asked, between, refreshed, wanted>>

(* The web backend asks once for a new URL and goes on with the same       *)
(* output; allow_range_request keeps its value.                            *)
RefreshUrl ==
    /\ pc = "decide" /\ wanted = "none" /\ answer = "http"
    /\ client = "web" /\ ~refreshed
    /\ refreshed' = TRUE
    /\ preserve' = (preserve \/ written > 0)
    /\ pc' = "open"
    /\ DropStream
    /\ UNCHANGED <<disk, asked, server, mayRange, offset, committed, wanted, verdict, history>>

GiveUpAttempt ==
    /\ pc = "decide" /\ wanted = "none" /\ answer # "notHonoured"
    /\ preserve' = (preserve \/ written > 0)
    /\ AttemptFailed
    /\ DropStream
    /\ UNCHANGED <<disk, asked, mayRange, refreshed, offset, committed, wanted, history>>

(* A rename that the mode forbids or that fails leaves both files; a state *)
(* file that cannot be removed fails the commit after the rename.          *)
Commit ==
    /\ pc = "commit"
    /\ \/ /\ ~Exists
          /\ final' = part /\ part' = NoFile /\ saved' = NoFile
          /\ committed' = TRUE /\ offset' = 0
          /\ verdict' = "succeeded" /\ pc' = "return"
          /\ UNCHANGED <<server, fault, trouble>>
       \/ /\ \/ ~Exists /\ final' = part /\ part' = NoFile
             \/ UNCHANGED <<final, part>>
          /\ AttemptFailed
          /\ fault' = (fault \/ ~Exists) /\ trouble' = TRUE
          /\ UNCHANGED <<saved, committed, offset>>
    /\ UNCHANGED <<asked, between, mayRange, refreshed, stream, preserve, wanted, spoiled>>

(* The destructor, which does not look whether its removals worked. *)
Return ==
    /\ pc = "return"
    /\ pc' = "idle"
    /\ IF committed \/ preserve
       THEN UNCHANGED <<part, saved, fault>>
       ELSE /\ part' \in {NoFile, part} /\ saved' \in {NoFile, saved}
            /\ fault' = (fault \/ part' # NoFile \/ saved' # NoFile)
    /\ Forget
    /\ UNCHANGED <<final, asked, verdict, spoiled, trouble, between>>

Session ==
    \/ Prepare \/ PrepareRefused \/ FetchServers \/ NextServer
    \/ OpenOutput \/ OpenFails
    \/ RequestCanceled \/ RequestBreaks \/ RangeRefused \/ HttpError \/ BodyBegins
    \/ WritePiece \/ WriteFails \/ SaveFails \/ BodyEnds
    \/ CloseOutput \/ CloseFails
    \/ PauseKeeps \/ CancelDiscards \/ RestartWithoutRange \/ RefreshUrl \/ GiveUpAttempt
    \/ Commit \/ Return

Next ==
    \/ \E o \in Requests : Start(o)
    \/ \E kind \in {"pause", "cancel"} : Interrupt(kind)
    \/ Session
    \/ Crash

(* The worker thread keeps running; requests have time limits. *)
Fairness == WF_vars(Session)

Spec == Init /\ [][Next]_vars /\ Fairness

(***************************************************************************)
(* Properties                                                              *)
(***************************************************************************)

(* What a download reports as succeeded is the file asked for, whatever    *)
(* attempts, servers, sessions and crashes went before.  Two things break  *)
(* that in the code and are excepted: the body of an error answer in the   *)
(* partial (http_client.cpp writes it before it looks at the status), and  *)
(* an attempt that follows a failed local write within one session (it     *)
(* appends at resume_offset_ without comparing the size of the partial).   *)
SucceededIsWhole ==
    pc = "return" /\ verdict = "succeeded" /\ ~spoiled =>
        final = Whole(opt.version)

(* A download that nothing disturbs succeeds, whatever partial, checkpoint *)
(* or torn checkpoint it found.  On Android this does not hold: a complete *)
(* partial left by a crash makes every request a 416, which is not taken   *)
(* for a refused range, and the partial is preserved again.                *)
UndisturbedSucceeds ==
    pc = "return" /\ ~trouble /\ backend = "winhttp" /\ opt.mode = "Overwrite" =>
        verdict = "succeeded"

(* The two files as the next session of the same version resumes from      *)
(* them, or nothing of value.                                              *)
Resumable == ResumeAccepted(opt, part, saved) \/ (part = <<>> /\ saved = NoFile)
NothingLeft == part = NoFile /\ saved = NoFile

(* A download that reports "paused" leaves a partial the next one accepts, *)
(* or nothing of value.  Not so when the pause was noticed between two     *)
(* servers: then the partial may be gone, but never one file without the   *)
(* other.                                                                  *)
PausedIsResumable ==
    pc = "idle" /\ verdict = "paused" /\ ~fault => Resumable \/ (between /\ NothingLeft)

(* A download that reports "canceled" leaves neither partial nor           *)
(* checkpoint.  Not so when the cancel was noticed between two servers:    *)
(* what an earlier server of the session had left may stay, and then it is *)
(* a pair that the next session resumes from.                              *)
CanceledLeavesNothing ==
    pc = "idle" /\ verdict = "canceled" /\ ~fault => NothingLeft \/ (between /\ Resumable)

(* What "pause-vs-cancel semantics through the transfer/checkpoint layer"  *)
(* (memory.md) asks of a cancel: a session that reports "canceled" leaves  *)
(* nothing of its version to resume from.  The code does at the check      *)
(* between two servers.                                                    *)
CancelForgetsPartial ==
    pc = "idle" /\ verdict = "canceled" /\ ~fault /\ ~spoiled => ~ResumeAccepted(opt, part, saved)

(* Every download ends: servers and attempts run out. *)
DownloadEnds == pc # "idle" ~> pc = "idle"

(***************************************************************************)
(* The inductive invariant                                                 *)
(***************************************************************************)

Streaming == pc \in {"request", "body", "errorBody", "close", "decide"}
Prepared == pc \notin {"idle", "prepare"}

(* A beginning of v, or nothing. *)
IsPart(content, v) == content = NoFile \/ \E n \in 0..FileLen : content = Prefix(v, n)

(* What a session finds and what it may have reported. *)
SessionAgrees ==
    /\ pc # "idle" => opt \in Requests
    /\ pc \notin {"idle", "return"} => verdict = "none"
    /\ ~Prepared => server = 1 /\ mayRange /\ ~refreshed /\ offset = 0 /\ ~preserve /\ ~committed
    /\ pc = "idle" => wanted = "none"
    /\ pc = "fetch" => server = 1 /\ mayRange
    /\ Streaming \/ pc \in {"open", "commit"} => server <= NServers

(* Without a range an attempt starts from nothing, unless a refreshed URL  *)
(* follows the body of an error answer.                                    *)
FromNothing(n) == n = 0 \/ (n = 1 /\ ~mayRange /\ refreshed /\ spoiled)

RangeAgrees ==
    /\ pc = "open" /\ ~mayRange => FromNothing(offset)
    /\ Streaming => IF ranged THEN mayRange ELSE FromNothing(start)
    /\ pc = "body" /\ ranged => start < FileLen
    /\ pc = "errorBody" => ~ranged
    /\ pc \in {"close", "decide"} /\ answer = "http" =>
            offset = start \/ (offset = start + 1 /\ ~ranged /\ spoiled)

(* What has been received, saved and offered to the next attempt. *)
CountsAgree ==
    /\ pc = "request" => written = start /\ offset = start
    /\ pc = "body" => offset = written /\ start <= written /\ Sent <= FileLen
    /\ pc = "errorBody" => offset = written
                           /\ (written = start \/ (written = start + 1 /\ spoiled))

(* A checkpoint on the disk belongs to the partial beside it; that of the  *)
(* session's own version once the session is prepared.                     *)
CheckpointVouches ==
    ~spoiled => \A v \in Versions : saved \in Counts /\ saved.token = v => IsPart(part, v)

OwnFiles ==
    Prepared /\ pc # "return" =>
        /\ saved \in Counts => saved.token \in {opt.version, NoToken}
        /\ ~spoiled => IsPart(part, opt.version)

(* Until a local operation fails, checkpoint, partial and offset agree. *)
DiskAgrees ==
    /\ Streaming => part # NoFile
    /\ Prepared /\ ~fault =>
            \/ saved = NoFile /\ offset = 0 /\ part \in {NoFile, <<>>}
            \/ /\ saved = [token |-> opt.version, bytes |-> offset]
               /\ part # NoFile /\ Len(part) = offset

(* An unspoiled stream is the version asked for, as far as it goes. *)
StreamAgrees ==
    ~spoiled =>
        /\ pc \in {"request", "body", "errorBody"} =>
                written <= FileLen /\ part = Prefix(opt.version, written)
        /\ pc = "close" /\ answer = "ok" => part = Whole(opt.version)
        /\ pc = "commit" => part = Whole(opt.version)

VerdictAgrees ==
    pc = "return" =>
        /\ verdict = "paused" /\ ~between => preserve /\ part # NoFile
        /\ verdict = "canceled" /\ ~fault /\ ~between => NothingLeft

(* The only way of an undisturbed session, a refused range included. *)
UndisturbedAgrees ==
    pc # "idle" /\ ~trouble /\ opt.mode = "Overwrite" =>
        /\ wanted = "none" /\ server = 1
        /\ pc # "return" => ~committed
        /\ pc # "errorBody"
        /\ pc = "close" => answer \in {"ok", "notHonoured"}
        /\ pc = "decide" => answer = "notHonoured"
        /\ pc = "return" => verdict = "succeeded"

(* What every step keeps: an accepted partial is the beginning of its      *)
(* version only because every place at which a session may stop leaves the *)
(* two files so.                                                           *)
IInv ==
    /\ TypeOK /\ SessionAgrees /\ RangeAgrees /\ CountsAgree
    /\ CheckpointVouches /\ OwnFiles /\ DiskAgrees /\ StreamAgrees
    /\ VerdictAgrees /\ UndisturbedAgrees
    /\ SucceededIsWhole /\ PausedIsResumable /\ CanceledLeavesNothing

=============================================================================
