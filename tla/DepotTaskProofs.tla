---------------------------- MODULE DepotTaskProofs ----------------------------
(***************************************************************************)
(* Proofs about DepotTask for any set of versions, any number of chunks,   *)
(* servers and calling threads, and either front end.                      *)
(***************************************************************************)
EXTENDS DepotTask, PreparedFileProofs

LEMMA RequestFields ==
    ASSUME NEW o \in Requests
    PROVE  o.version \in Versions /\ o.resume /\ o.mode \in Modes
  BY DEF Requests, Options

(* The checkpoint after n chunks. *)
LEMMA CheckpointOf ==
    ASSUME NEW v \in Versions, NEW n \in 0..FileLen
    PROVE  /\ [token |-> v, bytes |-> n] \in Checkpoint
           /\ [token |-> v, bytes |-> n] # NoFile
<1>1. [token |-> v, bytes |-> n] \in Checkpoint
  BY DEF Checkpoint
<1> QED
  BY <1>1, Sentinels

(* A partial of the requested version beside a checkpoint of it, or none.  *)
LEMMA OwnFilesVouch ==
    ASSUME NEW v \in Versions, NEW n \in 0..FileLen, part' = Prefix(v, n),
           NEW m \in Nat, saved' \in {NoFile, [token |-> v, bytes |-> m]}
    PROVE  CheckpointVouches'
  BY Sentinels DEF CheckpointVouches

(* What an accepted resume rests on. *)
LEMMA AcceptedPartial ==
    ASSUME IInv, opt \in Requests, ResumeAccepted(opt, part, saved)
    PROVE  /\ saved \in Checkpoint /\ saved.bytes \in 0..FileLen
           /\ saved = [token |-> opt.version, bytes |-> saved.bytes]
           /\ part = Prefix(opt.version, saved.bytes)
<1>1. saved \in Checkpoint /\ part # NoFile
      /\ saved.token = opt.version /\ Len(part) = saved.bytes
  BY DEF IInv, TypeOK, ResumeAccepted
<1>2. saved.bytes \in 0..FileLen /\ saved = [token |-> opt.version, bytes |-> saved.bytes]
  BY <1>1 DEF Checkpoint
<1>3. PICK n \in 0..FileLen : part = Prefix(opt.version, n)
  BY <1>1, RequestFields DEF IInv, CheckpointVouches
<1>4. Len(part) = n
  BY <1>3, RequestFields, PrefixContent
<1> QED
  BY <1>1, <1>2, <1>3, <1>4

(***************************************************************************)
(* Steps                                                                   *)
(***************************************************************************)

LEMMA StartTaskStep ==
    ASSUME IInv, NEW o \in Requests, StartTask(o)
    PROVE  IInv'
<1> USE FileLenAssumption, DepotAssumption
<1>1. TypeOK'
  <2>1. cancelRequested' \in BOOLEAN /\ pauseRequested' \in BOOLEAN /\ finished' \in BOOLEAN /\ preserve' \in BOOLEAN /\ committed' \in BOOLEAN
    BY DEF StartTask
  <2> QED
    BY <2>1 DEF IInv, TypeOK, Outcomes, StartTask, disk
<1>2. PlaceAgrees'
  BY DEF PlaceAgrees, StartTask
<1>3. RequestsAgree'
  BY DEF RequestsAgree, StartTask
<1>4. LateAgrees'
  BY DEF LateAgrees, StartTask
<1>5. CheckpointVouches'
  BY DEF IInv, CheckpointVouches, StartTask, disk
<1>6. PartAgrees'
  BY DEF PartAgrees, Checks, StartTask
<1>7. Delivered' /\ OutcomeWasAsked'
  BY DEF Delivered, OutcomeWasAsked, StartTask
<1> QED
  BY <1>1, <1>2, <1>3, <1>4, <1>5, <1>6, <1>7 DEF IInv

LEMMA PrepareStep ==
    ASSUME IInv, Prepare
    PROVE  IInv'
<1> USE FileLenAssumption, DepotAssumption
<1>0. pc = "prepare" /\ opt \in Requests
  BY DEF IInv, PlaceAgrees, Prepare
<1>1. TypeOK'
  <2>1. committed' \in BOOLEAN /\ offset' \in 0..FileLen
    BY <1>0, AcceptedPartial DEF IInv, TypeOK, Prepare
  <2> QED
    BY <1>0, <2>1 DEF IInv, TypeOK, Prepare, flags, verdict
<1>2. PlaceAgrees'
  BY DEF IInv, TypeOK, PlaceAgrees, Checks, Ending, Prepare, verdict
<1>3. RequestsAgree'
  BY DEF IInv, RequestsAgree, Prepare, flags
<1>4. LateAgrees'
  BY DEF IInv, LateAgrees, Ending, Prepare
<1>5. CheckpointVouches'
  BY Sentinels DEF IInv, CheckpointVouches, Prepare
<1>6. PartAgrees'
  <2>1. CASE ResumeAccepted(opt, part, saved) /\ pc' = "fetch" /\ offset' = saved.bytes
             /\ UNCHANGED <<part, saved>>
    BY <1>0, <2>1, AcceptedPartial DEF PartAgrees, Holds, Checks, Prepare
  <2>2. CASE part' = NoFile /\ saved' = NoFile /\ offset' = offset
             /\ pc' \in {"return", "fetch"}
    BY <1>0, <2>2 DEF IInv, PartAgrees, PlaceAgrees, Checks, Ending, Prepare
  <2>3. CASE pc' = "return"
    BY <1>0, <2>3 DEF IInv, PartAgrees, PlaceAgrees, Checks, Ending, Prepare
  <2> QED
    BY <2>1, <2>2, <2>3 DEF Prepare
<1>7. Delivered' /\ OutcomeWasAsked'
  BY DEF IInv, TypeOK, Delivered, OutcomeWasAsked, PlaceAgrees, Prepare, verdict
<1> QED
  BY <1>1, <1>2, <1>3, <1>4, <1>5, <1>6, <1>7 DEF IInv

LEMMA PrepareRefusedStep ==
    ASSUME IInv, PrepareRefused
    PROVE  IInv'
<1> USE FileLenAssumption, DepotAssumption
<1>1. TypeOK'
  BY DEF IInv, TypeOK, PrepareRefused, disk, flags, verdict, progress, prepared
<1>2. PlaceAgrees'
  BY DEF IInv, PlaceAgrees, Checks, Ending, PrepareRefused, verdict, progress,
      prepared
<1>3. RequestsAgree'
  BY DEF IInv, RequestsAgree, PrepareRefused, flags
<1>4. LateAgrees'
  BY DEF IInv, LateAgrees, Ending, PrepareRefused
<1>5. CheckpointVouches'
  BY DEF IInv, CheckpointVouches, PrepareRefused, disk
<1>6. PartAgrees'
  BY DEF PartAgrees, Checks, PrepareRefused
<1>7. Delivered' /\ OutcomeWasAsked'
  BY DEF IInv, Delivered, OutcomeWasAsked, PlaceAgrees, Ending, PrepareRefused,
      verdict, prepared, disk
<1> QED
  BY <1>1, <1>2, <1>3, <1>4, <1>5, <1>6, <1>7 DEF IInv

LEMMA FetchServersStep ==
    ASSUME IInv, FetchServers
    PROVE  IInv'
<1> USE FileLenAssumption, DepotAssumption
<1>1. TypeOK'
  BY DEF IInv, TypeOK, FetchServers, disk, flags, verdict, progress, prepared
<1>2. PlaceAgrees'
  BY DEF IInv, PlaceAgrees, Checks, Ending, FetchServers, verdict, progress,
      prepared
<1>3. RequestsAgree'
  BY DEF IInv, RequestsAgree, FetchServers, flags
<1>4. LateAgrees'
  BY DEF IInv, LateAgrees, Ending, FetchServers
<1>5. CheckpointVouches'
  BY DEF IInv, CheckpointVouches, FetchServers, disk
<1>6. PartAgrees'
  BY DEF IInv, PartAgrees, PlaceAgrees, Holds, Checks, Ending, FetchServers, disk,
      progress, prepared
<1>7. Delivered' /\ OutcomeWasAsked'
  BY DEF IInv, Delivered, OutcomeWasAsked, PlaceAgrees, Ending, FetchServers,
      verdict, prepared
<1> QED
  BY <1>1, <1>2, <1>3, <1>4, <1>5, <1>6, <1>7 DEF IInv

LEMMA OpenOutputStep ==
    ASSUME IInv, OpenOutput
    PROVE  IInv'
<1> USE FileLenAssumption, DepotAssumption
<1>0. /\ pc = "open" /\ opt \in Requests /\ opt' = opt /\ opt.version \in Versions
      /\ saved' = saved /\ offset \in 0..FileLen /\ offset' = offset /\ 0 \in 0..FileLen
  BY RequestFields DEF IInv, TypeOK, PlaceAgrees, OpenOutput
<1>a. ASSUME /\ part' = (IF offset > 0 THEN part ELSE <<>>)
             /\ chunk' = offset /\ status' = "downloading" /\ pc' = "chunk"
      PROVE  TypeOK' /\ CheckpointVouches' /\ PartAgrees'
  <2>1. /\ part' = Prefix(opt.version, offset)
        /\ saved \in {NoFile, [token |-> opt.version, bytes |-> offset]}
    BY <1>0, <1>a, PrefixEmpty DEF IInv, PartAgrees, Holds
  <2>2. part' \in Seq(Block)
    BY <1>0, <2>1, PrefixContent
  <2>3. TypeOK'
    BY <1>0, <1>a, <2>2 DEF IInv, TypeOK, Checks, OpenOutput, flags, prepared
  <2>4. CheckpointVouches'
    BY <1>0, <2>1, OwnFilesVouch
  <2>5. PartAgrees'
    BY <1>0, <1>a, <2>1 DEF PartAgrees, Holds
  <2> QED
    BY <2>3, <2>4, <2>5
<1>b. ASSUME pc' = "return" /\ UNCHANGED <<part, chunk, status>>
      PROVE  TypeOK' /\ CheckpointVouches' /\ PartAgrees'
  <2>1. TypeOK' /\ CheckpointVouches'
    BY <1>0, <1>b DEF IInv, TypeOK, CheckpointVouches, OpenOutput, flags, prepared
  <2>2. PartAgrees'
    BY <1>0, <1>b
    DEF IInv, PlaceAgrees, PartAgrees, Checks, Ending, OpenOutput, prepared
  <2> QED
    BY <2>1, <2>2
<1>1. TypeOK' /\ CheckpointVouches' /\ PartAgrees'
  BY <1>a, <1>b DEF OpenOutput
<1>2. PlaceAgrees'
  BY DEF IInv, PlaceAgrees, OnChunk, Checks, Ending, OpenOutput, prepared
<1>3. RequestsAgree'
  BY DEF IInv, RequestsAgree, OpenOutput, flags
<1>4. LateAgrees'
  BY DEF IInv, LateAgrees, Ending, OpenOutput
<1>7. Delivered' /\ OutcomeWasAsked'
  BY DEF IInv, Delivered, OutcomeWasAsked, PlaceAgrees, Ending, OpenOutput, prepared
<1> QED
  BY <1>1, <1>2, <1>3, <1>4, <1>7 DEF IInv

LEMMA LastChunkWrittenStep ==
    ASSUME IInv, LastChunkWritten
    PROVE  IInv'
<1> USE FileLenAssumption, DepotAssumption
<1>1. TypeOK'
  BY DEF IInv, TypeOK, LastChunkWritten, disk, flags, verdict, progress, prepared
<1>2. PlaceAgrees'
  BY DEF IInv, PlaceAgrees, OnChunk, Ending, LastChunkWritten, verdict, progress,
      prepared
<1>3. RequestsAgree'
  BY DEF IInv, RequestsAgree, LastChunkWritten, flags
<1>4. LateAgrees'
  BY DEF IInv, LateAgrees, LastChunkWritten, flags
<1>5. CheckpointVouches'
  BY DEF IInv, CheckpointVouches, LastChunkWritten, disk
<1>6. PartAgrees'
  BY DEF IInv, TypeOK, PartAgrees, Holds, LastChunkWritten, disk, progress
<1>7. Delivered' /\ OutcomeWasAsked'
  BY DEF IInv, Delivered, OutcomeWasAsked, PlaceAgrees, Ending, LastChunkWritten,
      verdict, prepared
<1> QED
  BY <1>1, <1>2, <1>3, <1>4, <1>5, <1>6, <1>7 DEF IInv

LEMMA ReadCancelHookStep ==
    ASSUME IInv, ReadCancelHook
    PROVE  IInv'
<1> USE FileLenAssumption, DepotAssumption
<1>1. TypeOK'
  <2>1. err' \subseteq {"paused", "canceled"} /\ pc' \in {pc, "return"}
        /\ look' \in {"cancel", "pause", "cancelAgain"}
    BY DEF IInv, TypeOK, ReadCancelHook, Interrupted
  <2> QED
    BY <2>1
    DEF IInv, TypeOK, ReadCancelHook, disk, flags, verdict, progress, prepared
<1>2. PlaceAgrees'
  BY DEF IInv, PlaceAgrees, OnChunk, Ending, ReadCancelHook, Interrupted, verdict,
      progress, prepared
<1>3. RequestsAgree'
  BY DEF IInv, RequestsAgree, ReadCancelHook, Interrupted, flags
<1>4. LateAgrees'
  BY DEF IInv, LateAgrees, Ending, ReadCancelHook, Interrupted, flags
<1>5. CheckpointVouches'
  BY DEF IInv, CheckpointVouches, ReadCancelHook, disk
<1>6. PartAgrees'
  BY DEF IInv, PartAgrees, Holds, ReadCancelHook, Interrupted, disk, progress
<1>7. Delivered' /\ OutcomeWasAsked'
  BY DEF IInv, Delivered, OutcomeWasAsked, ReadCancelHook, disk, verdict, progress,
      prepared
<1> QED
  BY <1>1, <1>2, <1>3, <1>4, <1>5, <1>6, <1>7 DEF IInv

LEMMA ReadPauseHookStep ==
    ASSUME IInv, ReadPauseHook
    PROVE  IInv'
<1> USE FileLenAssumption, DepotAssumption
<1>1. TypeOK'
  BY DEF IInv, TypeOK, Checks, ReadPauseHook, Interrupted, NotInterrupted, Onward,
      disk, flags, prepared
<1>2. PlaceAgrees'
  BY DEF IInv, PlaceAgrees, OnChunk, Checks, Ending, ReadPauseHook, Interrupted,
      NotInterrupted, Onward, prepared
<1>3. RequestsAgree'
  BY DEF IInv, RequestsAgree, ReadPauseHook, flags
<1>4. LateAgrees'
  BY DEF IInv, LateAgrees, Ending, ReadPauseHook, Interrupted, flags
<1>5. CheckpointVouches'
  BY DEF IInv, CheckpointVouches, ReadPauseHook, disk
<1>6. PartAgrees'
  BY DEF IInv, PartAgrees, Holds, Checks, ReadPauseHook, Interrupted,
      NotInterrupted, Onward, disk
<1>7. Delivered' /\ OutcomeWasAsked'
  BY DEF IInv, Delivered, OutcomeWasAsked, ReadPauseHook, disk, prepared
<1> QED
  BY <1>1, <1>2, <1>3, <1>4, <1>5, <1>6, <1>7 DEF IInv

LEMMA ReadCancelAgainStep ==
    ASSUME IInv, ReadCancelAgain
    PROVE  IInv'
<1> USE FileLenAssumption, DepotAssumption
<1>1. TypeOK'
  BY DEF IInv, TypeOK, ReadCancelAgain, flags, verdict, progress, prepared
<1>2. PlaceAgrees'
  BY DEF IInv, PlaceAgrees, OnChunk, Checks, Ending, ReadCancelAgain, verdict,
      progress, prepared
<1>3. RequestsAgree'
  BY DEF IInv, RequestsAgree, ReadCancelAgain, flags
<1>4. LateAgrees'
  BY DEF IInv, LateAgrees, Ending, ReadCancelAgain, flags
<1>5. CheckpointVouches'
  BY DEF IInv, CheckpointVouches, ReadCancelAgain
<1>6. PartAgrees'
  BY DEF IInv, PartAgrees, PlaceAgrees, Holds, Checks, Ending, ReadCancelAgain,
      progress, prepared
<1>7. Delivered' /\ OutcomeWasAsked'
  BY DEF IInv, Delivered, OutcomeWasAsked, ReadCancelAgain, verdict, progress,
      prepared
<1> QED
  BY <1>1, <1>2, <1>3, <1>4, <1>5, <1>6, <1>7 DEF IInv

LEMMA ReadPauseAgainStep ==
    ASSUME IInv, ReadPauseAgain
    PROVE  IInv'
<1> USE FileLenAssumption, DepotAssumption
<1>1. TypeOK'
  BY DEF IInv, TypeOK, ReadPauseAgain, disk, flags, verdict, progress
<1>2. PlaceAgrees'
  BY DEF IInv, PlaceAgrees, OnChunk, Checks, Ending, ReadPauseAgain, verdict
<1>3. RequestsAgree'
  BY DEF IInv, RequestsAgree, ReadPauseAgain, flags
<1>4. LateAgrees'
  BY DEF IInv, LateAgrees, Ending, ReadPauseAgain, flags
<1>5. CheckpointVouches'
  BY DEF IInv, CheckpointVouches, ReadPauseAgain, disk
<1>6. PartAgrees'
  BY DEF IInv, PartAgrees, Holds, ReadPauseAgain, disk, progress
<1>7. Delivered' /\ OutcomeWasAsked'
  BY DEF IInv, Delivered, OutcomeWasAsked, ReadPauseAgain, disk, verdict, progress
<1> QED
  BY <1>1, <1>2, <1>3, <1>4, <1>5, <1>6, <1>7 DEF IInv

LEMMA RequestChunkStep ==
    ASSUME IInv, RequestChunk
    PROVE  IInv'
<1> USE FileLenAssumption, DepotAssumption
<1>1. TypeOK'
  <2>0. NextServer => preserve' \in BOOLEAN
    BY DEF IInv, TypeOK, NextServer
  <2>1. NextServer => server' \in 1..NServers /\ pc' \in {"server", "return"}
    BY DEF IInv, TypeOK, NextServer
  <2>a. /\ preserve' \in BOOLEAN /\ server' \in 1..NServers
        /\ pc' \in {"response", "server", "return"}
    BY <2>0, <2>1 DEF IInv, TypeOK, RequestChunk
  <2>2. err' \subseteq {"paused", "canceled"}
    BY DEF IInv, TypeOK, RequestChunk
  <2>3. status' \in Outcomes \cup {"idle", "downloading", "pausing", "canceling"}
    BY DEF IInv, TypeOK, RequestChunk
  <2> QED
    BY <2>a, <2>2, <2>3 DEF IInv, TypeOK, Checks, RequestChunk, disk, flags
<1>2. PlaceAgrees'
  BY DEF IInv, PlaceAgrees, OnChunk, Checks, Ending, RequestChunk, NextServer
<1>3. RequestsAgree'
  BY DEF IInv, RequestsAgree, RequestChunk, flags
<1>4. LateAgrees'
  BY DEF IInv, LateAgrees, Ending, RequestChunk
<1>5. CheckpointVouches'
  BY DEF IInv, CheckpointVouches, RequestChunk, disk
<1>6. PartAgrees'
  BY DEF IInv, PartAgrees, Holds, RequestChunk, NextServer, disk
<1>7. Delivered' /\ OutcomeWasAsked'
  BY DEF IInv, Delivered, OutcomeWasAsked, PlaceAgrees, Ending, RequestChunk
<1> QED
  BY <1>1, <1>2, <1>3, <1>4, <1>5, <1>6, <1>7 DEF IInv

LEMMA ProcessChunkStep ==
    ASSUME IInv, ProcessChunk
    PROVE  IInv'
<1> USE FileLenAssumption, DepotAssumption
<1>1. TypeOK'
  <2>1. preserve' \in BOOLEAN
    BY DEF IInv, TypeOK, ProcessChunk, NextServer
  <2> QED
    BY <2>1 DEF IInv, TypeOK, Checks, ProcessChunk, NextServer, disk, flags, verdict
<1>2. PlaceAgrees'
  BY DEF IInv, PlaceAgrees, OnChunk, Checks, Ending, ProcessChunk, NextServer,
      verdict
<1>3. RequestsAgree'
  BY DEF IInv, RequestsAgree, ProcessChunk, flags
<1>4. LateAgrees'
  BY DEF IInv, LateAgrees, Ending, ProcessChunk
<1>5. CheckpointVouches'
  BY DEF IInv, CheckpointVouches, ProcessChunk, disk
<1>6. PartAgrees'
  BY DEF IInv, PartAgrees, Holds, ProcessChunk, NextServer, disk
<1>7. Delivered' /\ OutcomeWasAsked'
  BY DEF IInv, Delivered, OutcomeWasAsked, PlaceAgrees, Ending, ProcessChunk,
      verdict
<1> QED
  BY <1>1, <1>2, <1>3, <1>4, <1>5, <1>6, <1>7 DEF IInv

LEMMA WriteChunkStep ==
    ASSUME IInv, WriteChunk
    PROVE  IInv'
<1> USE FileLenAssumption, DepotAssumption
<1>0. /\ pc = "write" /\ opt \in Requests /\ opt' = opt /\ opt.version \in Versions
      /\ chunk \in Nat /\ chunk < FileLen /\ chunk' = chunk /\ saved' = saved
      /\ chunk \in 0..FileLen /\ chunk + 1 \in 0..FileLen /\ late = 0
      /\ part = Prefix(opt.version, chunk)
      /\ saved \in {NoFile, [token |-> opt.version, bytes |-> chunk]}
  BY RequestFields
  DEF IInv, TypeOK, PlaceAgrees, OnChunk, LateAgrees, PartAgrees, Holds, Ending,
      WriteChunk, progress
<1>a. ASSUME part' = Append(part, <<opt.version, chunk + 1>>) /\ pc' = "save"
      PROVE  TypeOK' /\ CheckpointVouches' /\ PartAgrees'
  <2>1. part' = Prefix(opt.version, chunk + 1)
    BY <1>0, <1>a, PrefixAppend
  <2>2. part' \in Seq(Block)
    BY <1>0, <2>1, PrefixContent
  <2>3. late' \in {0, 1}
    BY <1>0, <1>a DEF WriteChunk
  <2>4. TypeOK'
    BY <1>0, <1>a, <2>2, <2>3
    DEF IInv, TypeOK, WriteChunk, flags, verdict, progress, prepared
  <2>5. CheckpointVouches'
    BY <1>0, <2>1, OwnFilesVouch
  <2>6. PartAgrees'
    BY <1>0, <1>a, <2>1 DEF PartAgrees, Checks
  <2> QED
    BY <2>4, <2>5, <2>6
<1>b. ASSUME pc' = "return" /\ UNCHANGED <<part, late>>
      PROVE  TypeOK' /\ CheckpointVouches' /\ PartAgrees'
  <2>1. TypeOK' /\ CheckpointVouches'
    BY <1>0, <1>b
    DEF IInv, TypeOK, CheckpointVouches, WriteChunk, flags, verdict, progress,
        prepared
  <2>2. PartAgrees'
    BY <1>0, <1>b
    DEF IInv, PlaceAgrees, PartAgrees, Checks, Ending, WriteChunk, prepared
  <2> QED
    BY <2>1, <2>2
<1>1. TypeOK' /\ CheckpointVouches' /\ PartAgrees'
  BY <1>0, <1>a, <1>b DEF WriteChunk
<1>2. PlaceAgrees'
  BY DEF IInv, PlaceAgrees, OnChunk, Checks, Ending, WriteChunk, verdict, progress,
      prepared
<1>3. RequestsAgree'
  BY DEF IInv, RequestsAgree, WriteChunk, flags
<1>4. LateAgrees'
  BY DEF IInv, LateAgrees, PlaceAgrees, Checks, Ending, WriteChunk, flags
<1>7. Delivered' /\ OutcomeWasAsked'
  BY DEF IInv, Delivered, OutcomeWasAsked, PlaceAgrees, Ending, WriteChunk, verdict,
      prepared
<1> QED
  BY <1>1, <1>2, <1>3, <1>4, <1>7 DEF IInv

LEMMA SaveStateStep ==
    ASSUME IInv, SaveState
    PROVE  IInv'
<1> USE FileLenAssumption, DepotAssumption
<1>0. /\ pc = "save" /\ opt \in Requests /\ opt' = opt /\ opt.version \in Versions
      /\ chunk \in Nat /\ chunk + 1 \in 0..FileLen /\ chunk' = chunk + 1
      /\ part' = Prefix(opt.version, chunk + 1)
      /\ saved \in {NoFile, [token |-> opt.version, bytes |-> chunk]}
  BY RequestFields DEF IInv, TypeOK, PlaceAgrees, OnChunk, PartAgrees, SaveState
<1>a. saved' \in {saved, [token |-> opt.version, bytes |-> chunk + 1]}
      /\ pc' \in {"chunk", "return"} /\ status' \in {status, "downloading"}
  BY DEF SaveState
<1>1. TypeOK'
  <2>1. saved' \in Checkpoint \cup {NoFile, Corrupt}
    BY <1>0, <1>a, CheckpointOf
  <2> QED
    BY <1>0, <1>a, <2>1 DEF IInv, TypeOK, Checks, SaveState, flags, prepared
<1>2. PlaceAgrees'
  BY DEF IInv, PlaceAgrees, OnChunk, Checks, Ending, SaveState, prepared
<1>3. RequestsAgree'
  BY DEF IInv, RequestsAgree, SaveState, flags
<1>4. LateAgrees'
  BY DEF IInv, LateAgrees, Ending, SaveState, flags
<1>5. CheckpointVouches'
  BY <1>0, <1>a, OwnFilesVouch
<1>6. PartAgrees'
  BY DEF IInv, PartAgrees, PlaceAgrees, Holds, Checks, Ending, SaveState, prepared
<1>7. Delivered' /\ OutcomeWasAsked'
  BY DEF IInv, Delivered, OutcomeWasAsked, PlaceAgrees, Ending, SaveState, prepared
<1> QED
  BY <1>1, <1>2, <1>3, <1>4, <1>5, <1>6, <1>7 DEF IInv

LEMMA CloseOutputStep ==
    ASSUME IInv, CloseOutput
    PROVE  IInv'
<1> USE FileLenAssumption, DepotAssumption
<1>1. TypeOK'
  BY DEF IInv, TypeOK, CloseOutput, disk, flags, verdict, progress, prepared
<1>2. PlaceAgrees'
  BY DEF IInv, PlaceAgrees, OnChunk, Checks, Ending, CloseOutput, verdict, progress,
      prepared
<1>3. RequestsAgree'
  BY DEF IInv, RequestsAgree, CloseOutput, flags
<1>4. LateAgrees'
  BY DEF IInv, LateAgrees, Ending, CloseOutput, flags
<1>5. CheckpointVouches'
  BY DEF IInv, CheckpointVouches, CloseOutput, disk
<1>6. PartAgrees'
  BY DEF IInv, PartAgrees, Holds, CloseOutput, disk, progress
<1>7. Delivered' /\ OutcomeWasAsked'
  BY DEF IInv, Delivered, OutcomeWasAsked, PlaceAgrees, Ending, CloseOutput,
      verdict, prepared
<1> QED
  BY <1>1, <1>2, <1>3, <1>4, <1>5, <1>6, <1>7 DEF IInv

LEMMA CommitStep ==
    ASSUME IInv, Commit
    PROVE  IInv'
<1> USE FileLenAssumption, DepotAssumption
<1>1. TypeOK'
  <2>1. committed' \in BOOLEAN
    BY DEF IInv, TypeOK, Commit
  <2> QED
    BY <2>1 DEF IInv, TypeOK, Commit, flags, progress
<1>2. PlaceAgrees'
  BY DEF IInv, PlaceAgrees, OnChunk, Checks, Ending, Commit
<1>3. RequestsAgree'
  BY DEF IInv, RequestsAgree, Commit, flags
<1>4. LateAgrees'
  BY DEF IInv, LateAgrees, Ending, Commit, flags
<1>5. CheckpointVouches'
  BY DEF IInv, CheckpointVouches, Commit
<1>6. PartAgrees'
  BY DEF IInv, PartAgrees, PlaceAgrees, Checks, Ending, Commit
<1>7. Delivered' /\ OutcomeWasAsked'
  <2>1. pc = "commit" /\ ~committed /\ opt' = opt /\ chunk = FileLen /\ part = Prefix(opt.version, FileLen)
    BY DEF IInv, PlaceAgrees, PartAgrees, Holds, Ending, Commit
  <2>2. Delivered'
    BY <2>1 DEF Delivered, Commit, Whole
  <2>3. OutcomeWasAsked'
    BY DEF IInv, OutcomeWasAsked, Commit
  <2> QED
    BY <2>2, <2>3
<1> QED
  BY <1>1, <1>2, <1>3, <1>4, <1>5, <1>6, <1>7 DEF IInv

LEMMA ReturnStep ==
    ASSUME IInv, Return
    PROVE  IInv'
<1> USE FileLenAssumption, DepotAssumption
<1>1. TypeOK'
  BY DEF IInv, TypeOK, Return, flags, verdict, progress, prepared
<1>2. PlaceAgrees'
  BY DEF IInv, PlaceAgrees, OnChunk, Checks, Ending, Return, verdict
<1>3. RequestsAgree'
  BY DEF IInv, RequestsAgree, Return, flags
<1>4. LateAgrees'
  BY DEF IInv, LateAgrees, Ending, Return, flags
<1>5. CheckpointVouches'
  BY DEF IInv, CheckpointVouches, Return
<1>6. PartAgrees'
  BY DEF PartAgrees, Checks, Return
<1>7. Delivered' /\ OutcomeWasAsked'
  BY DEF IInv, Delivered, OutcomeWasAsked, Return, verdict, progress, prepared
<1> QED
  BY <1>1, <1>2, <1>3, <1>4, <1>5, <1>6, <1>7 DEF IInv

LEMMA PublishStep ==
    ASSUME IInv, Publish
    PROVE  IInv'
<1> USE FileLenAssumption, DepotAssumption
<1>1. TypeOK'
  <2>1. outcome' \in Outcomes /\ status' = outcome'
    BY DEF Publish, FfiOutcome, JniOutcome, Outcomes
  <2>2. pc' \in {"finish", "done"} /\ finished' \in BOOLEAN
    BY DEF IInv, TypeOK, Publish
  <2> QED
    BY <2>1, <2>2 DEF IInv, TypeOK, Publish, disk, flags, progress, prepared
<1>2. PlaceAgrees'
  BY DEF IInv, PlaceAgrees, OnChunk, Checks, Ending, Publish, FfiOutcome,
      JniOutcome, prepared
<1>3. RequestsAgree'
  BY DEF IInv, RequestsAgree, Publish, flags
<1>4. LateAgrees'
  BY DEF IInv, LateAgrees, Ending, Publish, flags
<1>5. CheckpointVouches'
  BY DEF IInv, CheckpointVouches, Publish, disk
<1>6. PartAgrees'
  BY DEF PartAgrees, Checks, Publish
<1>7. Delivered' /\ OutcomeWasAsked'
  BY DEF IInv, Delivered, OutcomeWasAsked, RequestsAgree, Publish, FfiOutcome,
      JniOutcome, disk, progress, prepared
<1> QED
  BY <1>1, <1>2, <1>3, <1>4, <1>5, <1>6, <1>7 DEF IInv

LEMMA FinishStep ==
    ASSUME IInv, Finish
    PROVE  IInv'
<1> USE FileLenAssumption, DepotAssumption
<1>1. TypeOK'
  BY DEF IInv, TypeOK, Finish, disk, flags, progress, prepared
<1>2. PlaceAgrees'
  BY DEF IInv, PlaceAgrees, OnChunk, Checks, Ending, Finish, prepared
<1>3. RequestsAgree'
  BY DEF IInv, RequestsAgree, Finish, flags
<1>4. LateAgrees'
  BY DEF IInv, LateAgrees, Ending, Finish, flags
<1>5. CheckpointVouches'
  BY DEF IInv, CheckpointVouches, Finish, disk
<1>6. PartAgrees'
  BY DEF PartAgrees, Checks, Finish
<1>7. Delivered' /\ OutcomeWasAsked'
  BY DEF IInv, Delivered, OutcomeWasAsked, Finish, disk, progress, prepared
<1> QED
  BY <1>1, <1>2, <1>3, <1>4, <1>5, <1>6, <1>7 DEF IInv

LEMMA BeginRequestStep ==
    ASSUME IInv, NEW c \in Callers, NEW kind \in Kinds, BeginRequest(c, kind)
    PROVE  IInv'
<1> USE FileLenAssumption, DepotAssumption
<1>1. TypeOK'
  BY DEF IInv, TypeOK, BeginRequest, disk, flags, verdict, progress, prepared
<1>2. PlaceAgrees'
  BY DEF IInv, PlaceAgrees, OnChunk, BeginRequest, verdict, progress, prepared
<1>3. RequestsAgree'
  BY DEF IInv, RequestsAgree, BeginRequest, flags
<1>4. LateAgrees'
  BY DEF IInv, LateAgrees, BeginRequest, flags
<1>5. CheckpointVouches'
  BY DEF IInv, CheckpointVouches, BeginRequest, disk
<1>6. PartAgrees'
  BY DEF IInv, PartAgrees, Holds, BeginRequest, disk, progress, prepared
<1>7. Delivered' /\ OutcomeWasAsked'
  BY DEF IInv, Delivered, OutcomeWasAsked, BeginRequest, disk, verdict, progress,
      prepared
<1> QED
  BY <1>1, <1>2, <1>3, <1>4, <1>5, <1>6, <1>7 DEF IInv

LEMMA StoreFlagStep ==
    ASSUME IInv, NEW c \in Callers, StoreFlag(c)
    PROVE  IInv'
<1> USE FileLenAssumption, DepotAssumption
<1>1. TypeOK'
  <2>1. cancelRequested' \in BOOLEAN /\ pauseRequested' \in BOOLEAN
    BY DEF IInv, TypeOK, StoreFlag, StoreCancel, StorePause
  <2> QED
    BY <2>1 DEF IInv, TypeOK, Kinds, StoreFlag, disk, verdict, progress, prepared
<1>2. PlaceAgrees'
  BY DEF IInv, PlaceAgrees, OnChunk, StoreFlag, verdict, progress, prepared
<1>3. RequestsAgree'
  BY DEF IInv, TypeOK, RequestsAgree, StoreFlag, StoreCancel, StorePause
<1>4. LateAgrees'
  BY DEF LateAgrees, StoreFlag
<1>5. CheckpointVouches'
  BY DEF IInv, CheckpointVouches, StoreFlag, disk
<1>6. PartAgrees'
  BY DEF IInv, PartAgrees, Holds, StoreFlag, disk, progress, prepared
<1>7. Delivered' /\ OutcomeWasAsked'
  BY DEF IInv, Delivered, OutcomeWasAsked, StoreFlag, disk, verdict, progress,
      prepared
<1> QED
  BY <1>1, <1>2, <1>3, <1>4, <1>5, <1>6, <1>7 DEF IInv

LEMMA SetStatusStep ==
    ASSUME IInv, NEW c \in Callers, SetStatus(c)
    PROVE  IInv'
<1> USE FileLenAssumption, DepotAssumption
<1>1. TypeOK'
  BY DEF IInv, TypeOK, Kinds, Outcomes, SetStatus, Idle, disk, flags, progress,
      prepared
<1>2. PlaceAgrees'
  BY DEF IInv, PlaceAgrees, OnChunk, SetStatus, progress, prepared
<1>3. RequestsAgree'
  BY DEF IInv, RequestsAgree, SetStatus, Idle, flags
<1>4. LateAgrees'
  BY DEF IInv, LateAgrees, SetStatus, flags
<1>5. CheckpointVouches'
  BY DEF IInv, CheckpointVouches, SetStatus, disk
<1>6. PartAgrees'
  BY DEF IInv, PartAgrees, Holds, SetStatus, disk, progress, prepared
<1>7. Delivered' /\ OutcomeWasAsked'
  BY DEF IInv, Delivered, OutcomeWasAsked, SetStatus, disk, progress, prepared
<1> QED
  BY <1>1, <1>2, <1>3, <1>4, <1>5, <1>6, <1>7 DEF IInv

(***************************************************************************)
(* The invariant                                                           *)
(***************************************************************************)

LEMMA InitEstablishes == Init => IInv
<1> SUFFICES ASSUME Init PROVE IInv
  OBVIOUS
<1>1. TypeOK
  <2>1. part \in Seq(Block) \cup {NoFile}
    BY PrefixContent DEF Init
  <2>2. final \in Seq(Block) \cup {NoFile}
    BY ForeignContent DEF Init
  <2>3. call \in [Callers -> [kind : Kinds, step : 0..3]]
    BY DEF Init, Idle, Kinds
  <2>4. /\ cancelRequested \in BOOLEAN /\ pauseRequested \in BOOLEAN /\ finished \in BOOLEAN
        /\ preserve \in BOOLEAN /\ committed \in BOOLEAN
    BY DEF Init
  <2> QED
    BY <2>1, <2>2, <2>3, <2>4, FileLenAssumption, DepotAssumption
    DEF Init, TypeOK, Outcomes
<1>2. PlaceAgrees /\ RequestsAgree /\ LateAgrees /\ PartAgrees /\ Delivered /\ OutcomeWasAsked
  BY DEF Init, PlaceAgrees, OnChunk, RequestsAgree, LateAgrees, PartAgrees,
      Delivered, OutcomeWasAsked, Checks, Idle
<1>3. CheckpointVouches
  <2> SUFFICES ASSUME NEW v \in Versions, part # NoFile, saved \in Checkpoint, saved.token = v
               PROVE  \E n \in 0..FileLen : part = Prefix(v, n)
    BY DEF CheckpointVouches
  <2>1. part = Prefix(v, Len(part))
    BY VersionsAssumption DEF Init
  <2>2. PICK w \in Versions, n \in 0..FileLen : part = Prefix(w, n)
    BY DEF Init
  <2> QED
    BY <2>1, <2>2, PrefixContent
<1> QED
  BY <1>1, <1>2, <1>3 DEF IInv

LEMMA StutterKeeps == IInv /\ UNCHANGED vars => IInv'
<1> SUFFICES ASSUME IInv, UNCHANGED vars PROVE IInv'
  OBVIOUS
<1>1. UNCHANGED <<disk, frontend, flags, verdict, pc, look, opt, progress, prepared>>
      /\ UNCHANGED <<err, call, asked, late>>
  BY DEF vars
<1>2. TypeOK' /\ PlaceAgrees' /\ RequestsAgree' /\ LateAgrees'
  BY <1>1
  DEF IInv, TypeOK, PlaceAgrees, OnChunk, RequestsAgree, LateAgrees, disk, flags,
      verdict, progress, prepared
<1>3. CheckpointVouches' /\ PartAgrees' /\ Delivered' /\ OutcomeWasAsked'
  BY <1>1
  DEF IInv, CheckpointVouches, PartAgrees, Holds, Delivered, OutcomeWasAsked, disk,
      verdict, progress, prepared
<1> QED
  BY <1>2, <1>3 DEF IInv

LEMMA StepKeeps == IInv /\ [Next]_vars => IInv'
<1> SUFFICES ASSUME IInv, Next PROVE IInv'
  BY StutterKeeps
<1>1. ASSUME NEW o \in Requests, StartTask(o) PROVE IInv'
  BY <1>1, StartTaskStep
<1>2. CASE Worker
  BY <1>2, PrepareStep, PrepareRefusedStep, FetchServersStep, OpenOutputStep, LastChunkWrittenStep,
     ReadCancelHookStep, ReadPauseHookStep, ReadCancelAgainStep, ReadPauseAgainStep,
     RequestChunkStep, ProcessChunkStep, WriteChunkStep, SaveStateStep,
     CloseOutputStep, CommitStep, ReturnStep, PublishStep, FinishStep
  DEF Worker
<1>3. ASSUME NEW c \in Callers, NEW kind \in Kinds, BeginRequest(c, kind) PROVE IInv'
  BY <1>3, BeginRequestStep
<1>4. ASSUME NEW c \in Callers, StoreFlag(c) PROVE IInv'
  BY <1>4, StoreFlagStep
<1>5. ASSUME NEW c \in Callers, SetStatus(c) PROVE IInv'
  BY <1>5, SetStatusStep
<1> QED
  BY <1>1, <1>2, <1>3, <1>4, <1>5 DEF Next

(* The inductive invariant: places, flags, messages, partial and checkpoint *)
(* of a download task agree at every step of the worker and its callers.    *)
THEOREM Invariant == Spec => []IInv
<1>1. Init => IInv
  BY InitEstablishes
<1>2. IInv /\ [Next]_vars => IInv'
  BY StepKeeps
<1> QED
  BY <1>1, <1>2, PTL DEF Spec

(* Every variable of a download task keeps its type: the chunk index stays *)
(* within the file and the server index within the list.                   *)
THEOREM TypeCorrect == Spec => []TypeOK
<1>1. IInv => TypeOK
  BY DEF IInv
<1> QED
  BY <1>1, Invariant, PTL

(* A task that reports success has put the whole requested version at the  *)
(* destination, whatever earlier tasks left and whoever pauses or cancels. *)
THEOREM SuccessIsWhole == Spec => []SucceededIsWhole
<1>1. IInv => SucceededIsWhole
  BY DEF IInv, PlaceAgrees, Delivered, SucceededIsWhole
<1> QED
  BY <1>1, Invariant, PTL

(* A task reports paused or canceled only when somebody asked for it. *)
THEOREM VerdictWasAsked == Spec => []OutcomeWasAsked
<1>1. IInv => OutcomeWasAsked
  BY DEF IInv
<1> QED
  BY <1>1, Invariant, PTL

(* While a request stands at most one more chunk is written. *)
THEOREM RequestStops == Spec => []StopsAtNextCheck
<1>1. IInv => StopsAtNextCheck
  BY DEF IInv, LateAgrees, StopsAtNextCheck
<1> QED
  BY <1>1, Invariant, PTL

(***************************************************************************)
(* Tasks implement atomic replacement of the destination                   *)
(***************************************************************************)

Serving == pc \notin {"none", "done"}
Asked == [version |-> opt.version, mode |-> opt.mode]

LEMMA PromiseInit == Init => Promise!AInit
  BY DEF Init, Promise!AInit

(* What a task asks for is a request of the abstract specification.        *)
LEMMA AskedIsRequest ==
    ASSUME NEW o \in Requests
    PROVE  /\ [version |-> o.version, mode |-> o.mode] \in [version : Versions, mode : Modes]
           /\ [version |-> o.version, mode |-> o.mode] # NoRequest
<1>1. [version |-> o.version, mode |-> o.mode] \in [version : Versions, mode : Modes]
  BY RequestFields
<1> QED
  BY <1>1, NoRequestAssumption

(* The partial a task commits is the whole version.                        *)
LEMMA CommittedIsWhole ==
    ASSUME IInv, pc = "commit"
    PROVE  part = Whole(opt.version)
  BY DEF IInv, PlaceAgrees, PartAgrees, Holds, Whole

(* Where the destination and the request stay, nothing is seen.            *)
LEMMA InvisibleStep ==
    ASSUME IInv, UNCHANGED <<final, opt>>, Serving' <=> Serving
    PROVE  [Promise!ANext]_Promise!avars
  BY DEF Serving, Promise!avars

LEMMA PromiseStep ==
    ASSUME IInv, [Next]_vars
    PROVE  [Promise!ANext]_Promise!avars
<1>0. Serving => opt \in Requests
  BY DEF IInv, PlaceAgrees, Serving
<1>1. ASSUME NEW o \in Requests, StartTask(o) PROVE [Promise!ANext]_Promise!avars
  <2>1. /\ pc \in {"none", "done"} /\ pc' \notin {"none", "done"}
        /\ opt' = o /\ final' = final
    BY <1>1 DEF StartTask, disk
  <2>2. Promise!Begin([version |-> o.version, mode |-> o.mode])
    BY <2>1 DEF Promise!Begin
  <2> QED
    BY <2>2, AskedIsRequest DEF Promise!ANext
<1>2. CASE Commit
  <2>1. /\ pc = "commit" /\ pc' = "return" /\ opt' = opt
    BY <1>2 DEF Commit
  <2>2. CASE final' = final
    BY <2>1, <2>2, InvisibleStep DEF Serving
  <2>3. CASE final' # final
    <3>1. /\ opt.mode = "Overwrite" \/ final = NoFile
          /\ final' = Whole(opt.version)
      BY <1>2, <2>1, <2>3, CommittedIsWhole DEF Commit
    <3>2. Asked # NoRequest
      BY <1>0, <2>1, AskedIsRequest DEF Asked, Serving
    <3>3. Promise!Install
      BY <2>1, <3>1, <3>2 DEF Promise!Install, Asked
    <3> QED
      BY <3>3 DEF Promise!ANext
  <2> QED
    BY <2>2, <2>3
<1>3. CASE (Publish \/ Finish) /\ pc' = "done"
  <2>1. /\ Serving /\ ~Serving' /\ opt' = opt /\ final' = final
    BY <1>3 DEF Publish, Finish, Serving, disk
  <2>2. Asked # NoRequest
    BY <1>0, <2>1, AskedIsRequest DEF Asked
  <2>3. Promise!Finish
    BY <2>1, <2>2 DEF Promise!Finish, Asked, Serving
  <2> QED
    BY <2>3 DEF Promise!ANext
<1>4. CASE (Publish \/ Finish) /\ pc' # "done"
  <2>1. Serving /\ Serving' /\ UNCHANGED <<final, opt>>
    BY <1>4 DEF Publish, Finish, Serving, disk
  <2> QED
    BY <2>1, InvisibleStep
<1>5. CASE Worker /\ ~Commit /\ ~Publish /\ ~Finish
  <2>1. UNCHANGED <<final, opt>> /\ Serving /\ Serving'
    <3>1. CASE Prepare
      BY <3>1 DEF Prepare, Serving
    <3>15. CASE PrepareRefused
      BY <3>15 DEF PrepareRefused, disk, Serving
    <3>2. CASE FetchServers
      BY <3>2 DEF FetchServers, disk, Serving
    <3>3. CASE OpenOutput
      BY <3>3 DEF OpenOutput, Serving
    <3>4. CASE LastChunkWritten
      BY <3>4 DEF LastChunkWritten, disk, Serving
    <3>5. CASE ReadCancelHook
      BY <3>5 DEF ReadCancelHook, disk, Serving, Interrupted, Checks
    <3>6. CASE ReadPauseHook
      BY <3>6
      DEF ReadPauseHook, disk, Serving, Interrupted, NotInterrupted, Onward, Checks
    <3>7. CASE ReadCancelAgain
      BY <3>7 DEF ReadCancelAgain, Serving, Checks
    <3>8. CASE ReadPauseAgain
      BY <3>8 DEF ReadPauseAgain, disk, Serving, Checks
    <3>9. CASE RequestChunk
      BY <3>9 DEF RequestChunk, disk, Serving, NextServer
    <3>10. CASE ProcessChunk
      BY <3>10 DEF ProcessChunk, disk, Serving, NextServer
    <3>11. CASE WriteChunk
      BY <3>11 DEF WriteChunk, Serving
    <3>12. CASE SaveState
      BY <3>12 DEF SaveState, Serving
    <3>13. CASE CloseOutput
      BY <3>13 DEF CloseOutput, disk, Serving
    <3>14. CASE Return
      BY <3>14 DEF Return, Serving
    <3> QED
      BY <1>5, <3>1, <3>2, <3>3, <3>4, <3>5, <3>6, <3>7, <3>8, <3>9, <3>10, <3>11,
         <3>12, <3>13, <3>14, <3>15
      DEF Worker
  <2> QED
    BY <2>1, InvisibleStep
<1>6. ASSUME NEW c \in Callers, NEW kind \in Kinds, BeginRequest(c, kind)
      PROVE  [Promise!ANext]_Promise!avars
  BY <1>6, InvisibleStep DEF BeginRequest, disk, Serving
<1>7. ASSUME NEW c \in Callers, StoreFlag(c) PROVE [Promise!ANext]_Promise!avars
  BY <1>7, InvisibleStep DEF StoreFlag, disk, Serving
<1>8. ASSUME NEW c \in Callers, SetStatus(c) PROVE [Promise!ANext]_Promise!avars
  BY <1>8, InvisibleStep DEF SetStatus, disk, Serving
<1>9. CASE UNCHANGED vars
  BY <1>9, InvisibleStep DEF vars, disk, Serving
<1> QED
  BY <1>1, <1>2, <1>3, <1>4, <1>5, <1>6, <1>7, <1>8, <1>9 DEF Next

(* Download tasks implement AtomicReplacement: pauses, cancels and failing *)
(* servers never let the destination show anything but what it had or the  *)
(* whole version the running task was asked for.                           *)
THEOREM TasksReplaceAtomically == Spec => ImplementsAtomicReplacement
<1>1. IInv /\ [Next]_vars => [Promise!ANext]_Promise!avars
  BY PromiseStep
<1> QED
  BY <1>1, PromiseInit, Invariant, PTL
  DEF Spec, ImplementsAtomicReplacement, Promise!ASpec

===============================================================================
