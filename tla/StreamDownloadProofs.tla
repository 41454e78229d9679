------------------------- MODULE StreamDownloadProofs -------------------------
(***************************************************************************)
(* Proofs about StreamDownload for any set of versions, any length, any    *)
(* number of servers, and every client over every HTTP backend.            *)
(***************************************************************************)
EXTENDS StreamDownload, PreparedFileProofs

(***************************************************************************)
(* Contents and checkpoints                                                *)
(***************************************************************************)

LEMMA CountsAreNoSentinels == NoFile \notin Counts /\ Corrupt \notin Counts /\ NoFile # Corrupt
<1>1. Counts \subseteq [token : Versions \cup {NoToken}, bytes : Nat]
  BY DEF Counts, Bytes
<1> QED
  BY <1>1, SentinelsAssumption

LEMMA RequestFields ==
    ASSUME NEW o \in Requests
    PROVE  o.version \in Versions /\ o.resume /\ o.mode \in Modes
  BY DEF Requests, Options

(* The file with nothing in it is the beginning of every version.          *)
LEMMA EmptyPart ==
    ASSUME NEW v \in Versions
    PROVE  /\ <<>> = Prefix(v, 0) /\ <<>> \in Seq(Block) /\ <<>> # NoFile /\ Len(<<>>) = 0
           /\ IsPart(<<>>, v) /\ IsPart(NoFile, v)
<1>1. <<>> = Prefix(v, 0)
  BY PrefixEmpty
<1>2. <<>> \in Seq(Block)
  OBVIOUS
<1>3. 0 \in 0..FileLen
  BY FileLenAssumption
<1> QED
  BY <1>1, <1>2, <1>3, Sentinels DEF IsPart

(* A beginning of v is known by its length.                                *)
LEMMA PartOfLength ==
    ASSUME NEW v \in Versions, NEW content, IsPart(content, v), content # NoFile
    PROVE  Len(content) \in 0..FileLen /\ content = Prefix(v, Len(content))
<1>1. PICK n \in 0..FileLen : content = Prefix(v, n)
  BY DEF IsPart
<1> QED
  BY <1>1, PrefixContent

(* What a torn checkpoint may load as.                                     *)
LEMMA TornCounts ==
    ASSUME NEW v \in Versions, NEW n \in Bytes,
           NEW t \in TornLoads([token |-> v, bytes |-> n])
    PROVE  /\ t \in Counts \cup {Corrupt}
           /\ t \in Counts => t.token \in {v, NoToken}
<1>1. CASE t = Corrupt
  BY <1>1, CountsAreNoSentinels
<1>2. CASE t = [token |-> NoToken, bytes |-> 0]
  BY <1>2, FileLenAssumption DEF Counts, Bytes
<1>3. CASE \E m \in 0..n : t = [token |-> v, bytes |-> m]
  BY <1>3, FileLenAssumption DEF Counts, Bytes
<1> QED
  BY <1>1, <1>2, <1>3 DEF TornLoads

LEMMA CountIsNoSentinel ==
    ASSUME NEW v \in Versions, NEW n \in Bytes
    PROVE  [token |-> v, bytes |-> n] \in Counts /\ [token |-> v, bytes |-> n] # NoFile
  BY CountsAreNoSentinels DEF Counts

(* A session's own files vouch for each other.                             *)
LEMMA OwnFilesVouch ==
    ASSUME opt' \in Requests,
           saved' \in Counts => saved'.token \in {opt'.version, NoToken},
           ~spoiled' => IsPart(part', opt'.version)
    PROVE  CheckpointVouches'
<1>1. NoToken \notin Versions
  BY VersionsAssumption
<1> QED
  BY <1>1 DEF CheckpointVouches

(* What an accepted resume rests on.                                       *)
LEMMA AcceptedPartial ==
    ASSUME IInv, opt \in Requests, ResumeAccepted(opt, part, saved)
    PROVE  /\ saved \in Counts /\ saved.bytes \in Bytes
           /\ saved = [token |-> opt.version, bytes |-> saved.bytes]
           /\ part \in Seq(Block) /\ part # NoFile /\ Len(part) = saved.bytes
           /\ ~spoiled => IsPart(part, opt.version)
<1>1. part \in Seq(Block) /\ part # NoFile /\ saved \in Counts
  BY DEF IInv, TypeOK, ResumeAccepted
<1>2. saved.token = opt.version /\ Len(part) = saved.bytes
  BY DEF ResumeAccepted
<1>3. saved.bytes \in Bytes /\ saved = [token |-> opt.version, bytes |-> saved.bytes]
  BY <1>1, <1>2 DEF Counts
<1>4. ~spoiled => IsPart(part, opt.version)
  BY <1>1, <1>2, RequestFields DEF IInv, CheckpointVouches
<1> QED
  BY <1>1, <1>2, <1>3, <1>4

(* A stream that does not reach the disk leaves a beginning of the partial.*)
LEMMA LossesAreParts ==
    ASSUME IInv, NEW left \in Losses
    PROVE  /\ left \in Seq(Block) \cup {NoFile}
           /\ part # NoFile => left # NoFile
           /\ \A v \in Versions : IsPart(part, v) => IsPart(left, v)
<1>1. CASE left = part
  BY <1>1 DEF IInv, TypeOK
<1>2. CASE left # part
  <2>1. PICK n \in flushed..Len(part) : left = SubSeq(part, 1, n)
    BY <1>2 DEF Losses
  <2>2. part \in Seq(Block) /\ part # NoFile /\ flushed \in Nat
    BY <1>2 DEF Losses, IInv, TypeOK, DiskAgrees, Streaming
  <2>3. n \in 0..Len(part)
    BY <2>1, <2>2
  <2>4. left \in Seq(Block) /\ left # NoFile
    <3>1. SubSeq(part, 1, n) \in Seq(Block)
      BY <2>2, <2>3
    <3> QED
      BY <2>1, <3>1, Sentinels
  <2>5. ASSUME NEW v \in Versions, IsPart(part, v)
        PROVE  IsPart(left, v)
    <3>1. Len(part) \in 0..FileLen /\ part = Prefix(v, Len(part))
      BY <2>2, <2>5, PartOfLength
    <3>2. n \in 0..FileLen
      BY <2>3, <3>1, FileLenAssumption
    <3>3. SubSeq(Prefix(v, Len(part)), 1, n) = Prefix(v, n)
      BY <2>3, <3>1, PrefixCut, FileLenAssumption
    <3> QED
      BY <2>1, <3>1, <3>2, <3>3 DEF IsPart
  <2> QED
    BY <2>4, <2>5
<1> QED
  BY <1>1, <1>2

(* What one write appends and how far it counts.                           *)
LEMMA PieceAppended ==
    ASSUME IInv, Receiving
    PROVE  /\ Len(Piece) \in Nat /\ Len(Piece) > 0
           /\ written + Len(Piece) \in Bytes
           /\ pc = "body" => Sent + Len(Piece) <= FileLen
           /\ pc = "errorBody" => Len(Piece) = 1 /\ written = start
           /\ part \o Piece \in Seq(Block) /\ part \o Piece # NoFile
           /\ Len(part \o Piece) = Len(part) + Len(Piece)
           /\ pc = "body" /\ ~spoiled =>
                  /\ written + Len(Piece) <= FileLen
                  /\ part \o Piece = Prefix(opt.version, written + Len(Piece))
<1>0. /\ TypeOK /\ RangeAgrees /\ CountsAgree /\ StreamAgrees /\ part \in Seq(Block)
      /\ opt.version \in Versions /\ FileLen \in Nat \ {0}
      /\ start \in Nat /\ written \in Nat /\ start <= FileLen + 1 /\ written <= FileLen + 1
  BY RequestFields, FileLenAssumption
  DEF IInv, TypeOK, SessionAgrees, DiskAgrees, Streaming, Receiving, Bytes
<1>1. CASE pc = "errorBody"
  <2>1. Piece = ForeignFile /\ written = start /\ ~ranged
    BY <1>0, <1>1 DEF Piece, Receiving, RangeAgrees
  <2>2. Piece \in Seq(Block) /\ Len(Piece) = 1
    BY <2>1, ForeignContent DEF ForeignFile
  <2>3. start <= 1
    BY <1>0, <1>1, <2>1 DEF RangeAgrees, FromNothing, Streaming
  <2>4. written + Len(Piece) \in Bytes
    BY <1>0, <2>1, <2>2, <2>3 DEF Bytes
  <2>5. part \o Piece \in Seq(Block) /\ part \o Piece # NoFile
        /\ Len(part \o Piece) = Len(part) + Len(Piece)
    BY <1>0, <2>2, ConcatContent
  <2>6. Len(Piece) \in Nat /\ Len(Piece) > 0
    BY <2>2
  <2> QED
    BY <1>1, <2>1, <2>2, <2>4, <2>5, <2>6
<1>2. CASE pc = "body"
  <2> DEFINE k == IF backend = "winhttp" THEN 1 ELSE FileLen - Sent
  <2>1. /\ start <= written /\ Sent < FileLen
        /\ ~ranged => start = 0 \/ (start = 1 /\ spoiled)
        /\ ranged => start < FileLen
    BY <1>0, <1>2 DEF Receiving, RangeAgrees, CountsAgree, FromNothing, Streaming
  <2>2. Sent \in Nat /\ (ranged \/ start = 0 => Sent = written) /\ (~ranged => Sent = written - start)
    BY <1>0, <2>1 DEF Sent
  <2>3. k \in Nat /\ k > 0 /\ Sent + k <= FileLen
    BY <1>0, <2>1, <2>2
  <2>4. written + k \in Bytes
    <3>1. CASE ranged \/ start = 0
      BY <1>0, <2>2, <2>3, <3>1 DEF Bytes
    <3>2. CASE ~ranged /\ start = 1
      BY <1>0, <2>2, <2>3, <3>2 DEF Bytes
    <3> QED
      BY <2>1, <3>1, <3>2
  <2>5. Piece = [i \in 1..k |-> <<opt.version, Sent + i>>]
    BY <1>2 DEF Piece
  <2> HIDE DEF k
  <2>6. Piece \in Seq(Block) /\ Len(Piece) = k
    <3>1. [i \in 1..k |-> <<opt.version, Sent + i>>] \in [1..k -> Block]
      BY <1>0, <2>2, <2>3 DEF Block
    <3> QED
      BY <2>3, <2>5, <3>1
  <2>7. ASSUME ~spoiled
        PROVE  /\ written + k <= FileLen
               /\ part \o Piece = Prefix(opt.version, written + k)
    <3>1. Sent = written /\ part = Prefix(opt.version, written)
      BY <1>0, <1>2, <2>1, <2>2, <2>7 DEF StreamAgrees
    <3>2. written \in Nat /\ k \in Nat /\ written + k <= FileLen
      BY <1>0, <2>3, <3>1
    <3>3. Prefix(opt.version, written) \o [i \in 1..k |-> <<opt.version, written + i>>]
            = Prefix(opt.version, written + k)
      BY <1>0, <3>2, PrefixConcat
    <3>4. part \o Piece = Prefix(opt.version, written + k)
      BY <2>5, <3>1, <3>3
    <3> QED
      BY <3>2, <3>4
  <2> QED
    BY <1>0, <1>2, <2>3, <2>4, <2>6, <2>7, ConcatContent
<1> QED
  BY <1>1, <1>2 DEF Receiving

(***************************************************************************)
(* Steps                                                                   *)
(***************************************************************************)

(* The three ways out of prepare_file_write: a partial that is accepted is *)
(* the beginning of the version asked for.                                 *)
LEMMA PrepareStep ==
    ASSUME IInv, Prepare
    PROVE  IInv'
<1>a. /\ pc = "prepare" /\ TypeOK /\ opt \in Requests /\ opt.version \in Versions
      /\ verdict = "none" /\ server = 1 /\ mayRange /\ ~refreshed /\ offset = 0
      /\ ~preserve /\ ~committed
  BY RequestFields DEF IInv, SessionAgrees, Prepared, Prepare
<1>b. UNCHANGED <<final, client, backend, opt, server, mayRange, refreshed, start, ranged,
                  written, flushed, answer, preserve, committed, wanted, between>>
  BY DEF Prepare, asked, loop, stream
<1>1. CASE /\ ResumeAccepted(opt, part, saved) /\ offset' = saved.bytes /\ pc' = "fetch"
           /\ UNCHANGED <<part, saved, verdict, spoiled, fault, trouble>>
  <2>1. /\ saved \in Counts /\ saved.bytes \in Bytes
        /\ saved = [token |-> opt.version, bytes |-> saved.bytes]
        /\ part # NoFile /\ Len(part) = saved.bytes
        /\ ~spoiled => IsPart(part, opt.version)
    BY <1>a, <1>1, AcceptedPartial
  <2>2. TypeOK'
    BY <1>a, <1>b, <1>1, <2>1 DEF TypeOK
  <2>3. SessionAgrees' /\ VerdictAgrees' /\ RangeAgrees' /\ CountsAgree' /\ StreamAgrees'
    BY <1>a, <1>b, <1>1
    DEF SessionAgrees, VerdictAgrees, RangeAgrees, CountsAgree, StreamAgrees,
        Streaming, Prepared
  <2>4. CheckpointVouches' /\ OwnFiles'
    BY <1>a, <1>b, <1>1, <2>1, OwnFilesVouch DEF OwnFiles
  <2>5. DiskAgrees'
    BY <1>b, <1>1, <2>1 DEF DiskAgrees
  <2>6. UndisturbedAgrees'
    BY <1>a, <1>b, <1>1 DEF IInv, UndisturbedAgrees
  <2> QED
    BY <1>1, <2>2, <2>3, <2>4, <2>5, <2>6
    DEF IInv, SucceededIsWhole, PausedIsResumable, CanceledLeavesNothing
<1>2. CASE /\ part' = NoFile /\ saved' = NoFile
           /\ pc' = (IF Exists THEN "return" ELSE "fetch")
           /\ verdict' = (IF ~Exists THEN "none"
                          ELSE IF opt.mode = "SkipExisting" THEN "skipped" ELSE "failed")
           /\ spoiled' = FALSE
           /\ UNCHANGED <<offset, fault, trouble>>
  <2>0. /\ verdict' \in {"none", "skipped", "failed"} /\ (~Exists => verdict' = "none")
        /\ opt.mode = "Overwrite" => ~Exists
    BY <1>2 DEF Exists
  <2>1. spoiled' \in BOOLEAN
    BY <1>2
  <2>2. TypeOK'
    BY <1>a, <1>b, <1>2, <2>0, <2>1 DEF TypeOK
  <2>3. SessionAgrees' /\ VerdictAgrees' /\ RangeAgrees' /\ CountsAgree' /\ StreamAgrees'
    BY <1>a, <1>b, <1>2, <2>0
    DEF SessionAgrees, VerdictAgrees, RangeAgrees, CountsAgree, StreamAgrees,
        Streaming
  <2>4. CheckpointVouches' /\ OwnFiles'
    BY <1>a, <1>b, <1>2, EmptyPart, CountsAreNoSentinels, OwnFilesVouch DEF OwnFiles
  <2>5. DiskAgrees'
    BY <1>a, <1>b, <1>2 DEF DiskAgrees, Streaming
  <2>6. UndisturbedAgrees'
    BY <1>a, <1>b, <1>2, <2>0 DEF IInv, UndisturbedAgrees
  <2> QED
    BY <1>2, <2>0, <2>2, <2>3, <2>4, <2>5, <2>6
    DEF IInv, SucceededIsWhole, PausedIsResumable, CanceledLeavesNothing
<1>3. CASE /\ saved' = saved \/ saved' = NoFile
           /\ pc' = "return" /\ verdict' = "failed"
           /\ fault' = TRUE /\ trouble' = TRUE
           /\ UNCHANGED <<part, offset, spoiled>>
  <2>1. fault' \in BOOLEAN /\ trouble' \in BOOLEAN
    BY <1>3
  <2>2. TypeOK'
    BY <1>a, <1>b, <1>3, <2>1 DEF TypeOK
  <2>3. SessionAgrees' /\ VerdictAgrees' /\ RangeAgrees' /\ CountsAgree' /\ StreamAgrees'
    BY <1>a, <1>b, <1>3
    DEF SessionAgrees, VerdictAgrees, RangeAgrees, CountsAgree, StreamAgrees,
        Streaming
  <2>4. CheckpointVouches' /\ OwnFiles'
    BY <1>a, <1>b, <1>3, CountsAreNoSentinels DEF IInv, CheckpointVouches, OwnFiles
  <2>5. DiskAgrees' /\ UndisturbedAgrees'
    BY <1>3 DEF DiskAgrees, UndisturbedAgrees, Streaming
  <2> QED
    BY <1>3, <2>2, <2>3, <2>4, <2>5
    DEF IInv, SucceededIsWhole, PausedIsResumable, CanceledLeavesNothing
<1> QED
  BY <1>1, <1>2, <1>3 DEF Prepare

LEMMA FetchServersStep ==
    ASSUME IInv, FetchServers
    PROVE  IInv'
<1>1. TypeOK'
  <2>1. trouble' \in BOOLEAN
    BY DEF IInv, TypeOK, FetchServers
  <2> QED
    BY <2>1 DEF IInv, TypeOK, FetchServers, disk, asked, loop, stream, prepared
<1>2. SessionAgrees'
  BY StreamAssumption DEF IInv, SessionAgrees, Prepared, FetchServers, asked, loop
<1>3. RangeAgrees'
  BY DEF IInv, SessionAgrees, RangeAgrees, Streaming, FetchServers, loop
<1>4. CountsAgree'
  BY DEF CountsAgree, FetchServers
<1>5. CheckpointVouches'
  BY DEF IInv, CheckpointVouches, FetchServers, disk
<1>6. OwnFiles'
  BY DEF IInv, OwnFiles, Prepared, FetchServers, disk, asked
<1>7. DiskAgrees'
  BY DEF IInv, DiskAgrees, Streaming, Prepared, FetchServers, disk, asked, prepared
<1>8. StreamAgrees'
  BY DEF StreamAgrees, FetchServers
<1>9. VerdictAgrees'
  BY DEF VerdictAgrees, FetchServers
<1>10. UndisturbedAgrees'
  BY DEF IInv, UndisturbedAgrees, FetchServers, asked, loop, prepared
<1>11. SucceededIsWhole' /\ PausedIsResumable' /\ CanceledLeavesNothing'
  BY DEF SucceededIsWhole, PausedIsResumable, CanceledLeavesNothing, FetchServers
<1> QED
  BY <1>1, <1>2, <1>3, <1>4, <1>5, <1>6, <1>7, <1>8, <1>9, <1>10, <1>11 DEF IInv

LEMMA NextServerStep ==
    ASSUME IInv, NextServer
    PROVE  IInv'
<1>a. /\ pc = "server" /\ UNCHANGED <<disk, asked, server, refreshed, stream, prepared, wanted,
                                      spoiled, fault, trouble>>
      /\ \/ /\ pc' = "open" /\ server <= NServers /\ mayRange' = TRUE
            /\ UNCHANGED <<verdict, between>>
         \/ /\ pc' = "return" /\ UNCHANGED mayRange
            /\ \/ verdict' \in {"paused", "canceled"} /\ between' = TRUE /\ wanted # "none"
               \/ verdict' = "failed" /\ UNCHANGED between /\ server > NServers
  BY DEF NextServer, TryServer, StopBetweenServers
<1>1. TypeOK'
  <2>1. mayRange' \in BOOLEAN /\ between' \in BOOLEAN
    BY <1>a DEF IInv, TypeOK
  <2> QED
    BY <1>a, <2>1 DEF IInv, TypeOK, disk, asked, stream, prepared
<1>2. SessionAgrees'
  BY <1>a DEF IInv, SessionAgrees, Streaming, Prepared, asked
<1>3. RangeAgrees'
  BY <1>a DEF RangeAgrees, Streaming
<1>4. CountsAgree'
  BY <1>a DEF CountsAgree
<1>5. CheckpointVouches'
  BY <1>a DEF IInv, CheckpointVouches, disk
<1>6. OwnFiles'
  BY <1>a DEF IInv, OwnFiles, Prepared, disk, asked
<1>7. DiskAgrees'
  BY <1>a DEF IInv, DiskAgrees, Streaming, Prepared, disk, asked, prepared
<1>8. StreamAgrees'
  BY <1>a DEF StreamAgrees
<1>9. VerdictAgrees'
  BY <1>a DEF VerdictAgrees
<1>10. UndisturbedAgrees'
  BY <1>a, StreamAssumption DEF IInv, UndisturbedAgrees, asked, prepared
<1>11. SucceededIsWhole' /\ PausedIsResumable' /\ CanceledLeavesNothing'
  BY <1>a DEF SucceededIsWhole, PausedIsResumable, CanceledLeavesNothing
<1> QED
  BY <1>1, <1>2, <1>3, <1>4, <1>5, <1>6, <1>7, <1>8, <1>9, <1>10, <1>11 DEF IInv

(* A failure before spoils what is appended; otherwise the partial ends    *)
(* where the offset says.                                                  *)
LEMMA OpenOutputStep ==
    ASSUME IInv, OpenOutput
    PROVE  IInv'
<1>a. /\ pc = "open" /\ opt \in Requests /\ opt.version \in Versions /\ opt' = opt
      /\ saved' = saved /\ offset' = offset /\ fault' = fault
  BY RequestFields DEF IInv, SessionAgrees, OpenOutput, asked, prepared
<1>b. (part' = part /\ part \in Seq(Block) /\ part # NoFile) \/ part' = <<>>
  BY DEF IInv, TypeOK, OpenOutput
<1>c. ~spoiled' /\ offset # 0 => ~spoiled /\ ~fault
  BY DEF IInv, TypeOK, OpenOutput, Bytes
<1>d. offset = 0 => part' = <<>>
  BY DEF OpenOutput
<1>e. ~fault => \/ saved = NoFile /\ offset = 0 /\ part \in {NoFile, <<>>}
                \/ /\ saved = [token |-> opt.version, bytes |-> offset]
                   /\ part # NoFile /\ Len(part) = offset
  BY <1>a DEF IInv, DiskAgrees, Prepared
<1>1. TypeOK'
  <2>1. spoiled' \in BOOLEAN /\ ranged' \in BOOLEAN
    BY DEF OpenOutput
  <2> QED
    BY <2>1 DEF IInv, TypeOK, OpenOutput, asked, loop, prepared
<1>2. SessionAgrees'
  BY DEF IInv, SessionAgrees, Prepared, OpenOutput, asked, loop
<1>3. RangeAgrees'
  BY DEF IInv, TypeOK, RangeAgrees, FromNothing, Bytes, OpenOutput, loop
<1>4. CountsAgree'
  BY DEF CountsAgree, OpenOutput, prepared
<1>5. CheckpointVouches'
  BY <1>a, <1>b, <1>c, <1>d, EmptyPart, OwnFilesVouch DEF IInv, OwnFiles, Prepared
<1>6. OwnFiles'
  BY <1>a, <1>b, <1>c, <1>d, EmptyPart DEF IInv, OwnFiles, Prepared
<1>7. DiskAgrees'
  <2>1. part' # NoFile
    BY <1>a, <1>b, EmptyPart
  <2>2. ~fault => Len(part') = offset
    <3>1. CASE offset = 0
      BY <1>a, <1>d, <3>1
    <3>2. CASE offset # 0
      BY <1>e, <3>2 DEF OpenOutput
    <3> QED
      BY <3>1, <3>2
  <2>3. saved = NoFile /\ ~fault => part' = <<>>
    <3>1. offset \in Bytes
      BY DEF IInv, TypeOK
    <3> QED
      BY <1>a, <1>d, <1>e, <3>1, CountIsNoSentinel
  <2> QED
    BY <1>a, <1>e, <2>1, <2>2, <2>3 DEF DiskAgrees
<1>8. StreamAgrees'
  <2>1. written' = offset /\ pc' = "request"
    BY DEF OpenOutput
  <2>2. CASE offset = 0
    BY <1>a, <1>d, <2>1, <2>2, EmptyPart, FileLenAssumption DEF StreamAgrees
  <2>3. CASE offset # 0 /\ ~spoiled'
    <3>1. part # NoFile /\ Len(part) = offset /\ IsPart(part, opt.version)
      BY <1>a, <1>c, <1>e, <2>3 DEF IInv, OwnFiles, Prepared
    <3>2. part' = part
      BY <2>3, <3>1 DEF OpenOutput
    <3>3. Len(part) \in 0..FileLen /\ part = Prefix(opt.version, Len(part))
      BY <1>a, <3>1, PartOfLength
    <3> QED
      BY <1>a, <2>1, <3>1, <3>2, <3>3 DEF StreamAgrees
  <2> QED
    BY <2>2, <2>3 DEF StreamAgrees
<1>9. VerdictAgrees'
  BY DEF VerdictAgrees, OpenOutput
<1>10. UndisturbedAgrees'
  BY DEF IInv, UndisturbedAgrees, OpenOutput, asked, loop, prepared
<1>11. SucceededIsWhole' /\ PausedIsResumable' /\ CanceledLeavesNothing'
  BY DEF SucceededIsWhole, PausedIsResumable, CanceledLeavesNothing, OpenOutput
<1> QED
  BY <1>1, <1>2, <1>3, <1>4, <1>5, <1>6, <1>7, <1>8, <1>9, <1>10, <1>11 DEF IInv

LEMMA OpenFailsStep ==
    ASSUME IInv, OpenFails
    PROVE  IInv'
<1>1. TypeOK'
  <2>1. fault' \in BOOLEAN /\ trouble' \in BOOLEAN
    BY DEF OpenFails
  <2> QED
    BY <2>1, StreamAssumption
    DEF IInv, TypeOK, SessionAgrees, OpenFails, AttemptFailed, disk, asked, stream,
        prepared
<1>2. SessionAgrees'
  BY DEF IInv, SessionAgrees, Streaming, Prepared, OpenFails, AttemptFailed, asked
<1>3. RangeAgrees'
  BY DEF RangeAgrees, Streaming, OpenFails, AttemptFailed
<1>4. CountsAgree'
  BY DEF CountsAgree, OpenFails, AttemptFailed
<1>5. CheckpointVouches'
  BY DEF IInv, CheckpointVouches, OpenFails, disk
<1>6. OwnFiles'
  BY DEF IInv, OwnFiles, Prepared, OpenFails, disk, asked
<1>7. DiskAgrees'
  BY DEF IInv, DiskAgrees, Streaming, Prepared, OpenFails, AttemptFailed, disk,
      asked, prepared
<1>8. StreamAgrees'
  BY DEF StreamAgrees, OpenFails, AttemptFailed
<1>9. VerdictAgrees'
  BY DEF VerdictAgrees, OpenFails, AttemptFailed
<1>10. UndisturbedAgrees'
  BY DEF UndisturbedAgrees, OpenFails
<1>11. SucceededIsWhole' /\ PausedIsResumable' /\ CanceledLeavesNothing'
  BY DEF SucceededIsWhole, PausedIsResumable, CanceledLeavesNothing, OpenFails,
      AttemptFailed
<1> QED
  BY <1>1, <1>2, <1>3, <1>4, <1>5, <1>6, <1>7, <1>8, <1>9, <1>10, <1>11 DEF IInv

LEMMA RequestCanceledStep ==
    ASSUME IInv, RequestCanceled
    PROVE  IInv'
<1>1. TypeOK'
  BY DEF IInv, TypeOK, Answers, RequestCanceled, Answered, disk, asked, loop,
      prepared
<1>2. SessionAgrees'
  BY DEF IInv, SessionAgrees, Streaming, Prepared, RequestCanceled, Answered, asked,
      loop
<1>3. RangeAgrees'
  BY DEF IInv, RangeAgrees, FromNothing, Streaming, RequestCanceled, Answered, loop
<1>4. CountsAgree'
  BY DEF CountsAgree, RequestCanceled, Answered
<1>5. CheckpointVouches'
  BY DEF IInv, CheckpointVouches, RequestCanceled, Answered, disk
<1>6. OwnFiles'
  BY DEF IInv, OwnFiles, Prepared, RequestCanceled, Answered, disk, asked
<1>7. DiskAgrees'
  BY DEF IInv, DiskAgrees, Streaming, Prepared, RequestCanceled, Answered, disk,
      asked, prepared
<1>8. StreamAgrees'
  BY DEF StreamAgrees, RequestCanceled, Answered
<1>9. VerdictAgrees'
  BY DEF VerdictAgrees, RequestCanceled, Answered
<1>10. UndisturbedAgrees'
  BY DEF IInv, UndisturbedAgrees, RequestCanceled, Answered, asked
<1>11. SucceededIsWhole' /\ PausedIsResumable' /\ CanceledLeavesNothing'
  BY DEF SucceededIsWhole, PausedIsResumable, CanceledLeavesNothing,
      RequestCanceled, Answered
<1> QED
  BY <1>1, <1>2, <1>3, <1>4, <1>5, <1>6, <1>7, <1>8, <1>9, <1>10, <1>11 DEF IInv

LEMMA RequestBreaksStep ==
    ASSUME IInv, RequestBreaks
    PROVE  IInv'
<1>1. TypeOK'
  <2>1. trouble' \in BOOLEAN
    BY DEF RequestBreaks
  <2> QED
    BY <2>1
    DEF IInv, TypeOK, Answers, RequestBreaks, Answered, disk, asked, loop, prepared
<1>2. SessionAgrees'
  BY DEF IInv, SessionAgrees, Streaming, Prepared, RequestBreaks, Answered, asked,
      loop
<1>3. RangeAgrees'
  BY DEF IInv, RangeAgrees, FromNothing, Streaming, RequestBreaks, Answered, loop
<1>4. CountsAgree'
  BY DEF CountsAgree, RequestBreaks, Answered
<1>5. CheckpointVouches'
  BY DEF IInv, CheckpointVouches, RequestBreaks, Answered, disk
<1>6. OwnFiles'
  BY DEF IInv, OwnFiles, Prepared, RequestBreaks, Answered, disk, asked
<1>7. DiskAgrees'
  BY DEF IInv, DiskAgrees, Streaming, Prepared, RequestBreaks, Answered, disk,
      asked, prepared
<1>8. StreamAgrees'
  BY DEF StreamAgrees, RequestBreaks, Answered
<1>9. VerdictAgrees'
  BY DEF VerdictAgrees, RequestBreaks, Answered
<1>10. UndisturbedAgrees'
  BY DEF UndisturbedAgrees, RequestBreaks
<1>11. SucceededIsWhole' /\ PausedIsResumable' /\ CanceledLeavesNothing'
  BY DEF SucceededIsWhole, PausedIsResumable, CanceledLeavesNothing, RequestBreaks,
      Answered
<1> QED
  BY <1>1, <1>2, <1>3, <1>4, <1>5, <1>6, <1>7, <1>8, <1>9, <1>10, <1>11 DEF IInv

LEMMA RangeRefusedStep ==
    ASSUME IInv, RangeRefused
    PROVE  IInv'
<1>1. TypeOK'
  BY DEF IInv, TypeOK, Answers, RangeRefused, Answered, disk, asked, loop, prepared
<1>2. SessionAgrees'
  BY DEF IInv, SessionAgrees, Streaming, Prepared, RangeRefused, Answered, asked,
      loop
<1>3. RangeAgrees'
  BY DEF IInv, RangeAgrees, Streaming, RangeRefused, Answered, loop
<1>4. CountsAgree'
  BY DEF CountsAgree, RangeRefused, Answered
<1>5. CheckpointVouches'
  BY DEF IInv, CheckpointVouches, RangeRefused, Answered, disk
<1>6. OwnFiles'
  BY DEF IInv, OwnFiles, Prepared, RangeRefused, Answered, disk, asked
<1>7. DiskAgrees'
  BY DEF IInv, DiskAgrees, Streaming, Prepared, RangeRefused, Answered, disk, asked,
      prepared
<1>8. StreamAgrees'
  BY DEF StreamAgrees, RangeRefused, Answered
<1>9. VerdictAgrees'
  BY DEF VerdictAgrees, RangeRefused, Answered
<1>10. UndisturbedAgrees'
  BY DEF IInv, UndisturbedAgrees, RangeRefused, Answered, asked, loop, prepared
<1>11. SucceededIsWhole' /\ PausedIsResumable' /\ CanceledLeavesNothing'
  BY DEF SucceededIsWhole, PausedIsResumable, CanceledLeavesNothing, RangeRefused,
      Answered
<1> QED
  BY <1>1, <1>2, <1>3, <1>4, <1>5, <1>6, <1>7, <1>8, <1>9, <1>10, <1>11 DEF IInv

LEMMA HttpErrorStep ==
    ASSUME IInv, HttpError
    PROVE  IInv'
<1>1. TypeOK'
  <2>1. trouble' \in BOOLEAN
    BY DEF HttpError
  <2> QED
    BY <2>1
    DEF IInv, TypeOK, Answers, HttpError, Answered, disk, asked, loop, prepared
<1>2. SessionAgrees'
  BY DEF IInv, SessionAgrees, Streaming, Prepared, HttpError, Answered, asked, loop
<1>3. RangeAgrees'
  BY DEF IInv, RangeAgrees, CountsAgree, FromNothing, Streaming, HttpError,
      Answered, loop, prepared
<1>4. CountsAgree'
  BY DEF CountsAgree, HttpError, Answered
<1>5. CheckpointVouches'
  BY DEF IInv, CheckpointVouches, HttpError, Answered, disk
<1>6. OwnFiles'
  BY DEF IInv, OwnFiles, Prepared, HttpError, Answered, disk, asked
<1>7. DiskAgrees'
  BY DEF IInv, DiskAgrees, Streaming, Prepared, HttpError, Answered, disk, asked,
      prepared
<1>8. StreamAgrees'
  BY DEF StreamAgrees, HttpError, Answered
<1>9. VerdictAgrees'
  BY DEF VerdictAgrees, HttpError, Answered
<1>10. UndisturbedAgrees'
  BY DEF UndisturbedAgrees, HttpError
<1>11. SucceededIsWhole' /\ PausedIsResumable' /\ CanceledLeavesNothing'
  BY DEF SucceededIsWhole, PausedIsResumable, CanceledLeavesNothing, HttpError,
      Answered
<1> QED
  BY <1>1, <1>2, <1>3, <1>4, <1>5, <1>6, <1>7, <1>8, <1>9, <1>10, <1>11 DEF IInv

LEMMA BodyBeginsStep ==
    ASSUME IInv, BodyBegins
    PROVE  IInv'
<1>1. TypeOK'
  <2>1. trouble' \in BOOLEAN
    BY DEF IInv, TypeOK, BodyBegins
  <2> QED
    BY <2>1 DEF IInv, TypeOK, BodyBegins, disk, asked, loop, stream, prepared
<1>2. SessionAgrees'
  BY DEF IInv, SessionAgrees, Streaming, Prepared, BodyBegins, asked, loop
<1>3. RangeAgrees'
  BY DEF IInv, RangeAgrees, CountsAgree, FromNothing, Streaming, BodyBegins, loop,
      stream
<1>4. CountsAgree'
  BY FileLenAssumption
  DEF IInv, TypeOK, CountsAgree, Sent, Bytes, BodyBegins, stream, prepared
<1>5. CheckpointVouches'
  BY DEF IInv, CheckpointVouches, BodyBegins, disk
<1>6. OwnFiles'
  BY DEF IInv, OwnFiles, Prepared, BodyBegins, disk, asked
<1>7. DiskAgrees'
  BY DEF IInv, DiskAgrees, Streaming, Prepared, BodyBegins, disk, asked, prepared
<1>8. StreamAgrees'
  BY DEF IInv, StreamAgrees, BodyBegins, disk, asked, stream
<1>9. VerdictAgrees'
  BY DEF VerdictAgrees, BodyBegins
<1>10. UndisturbedAgrees'
  BY DEF IInv, UndisturbedAgrees, BodyBegins, asked, loop, prepared
<1>11. SucceededIsWhole' /\ PausedIsResumable' /\ CanceledLeavesNothing'
  BY DEF SucceededIsWhole, PausedIsResumable, CanceledLeavesNothing, BodyBegins
<1> QED
  BY <1>1, <1>2, <1>3, <1>4, <1>5, <1>6, <1>7, <1>8, <1>9, <1>10, <1>11 DEF IInv

(* A piece that is written and saved extends checkpoint, partial and       *)
(* offset alike.                                                           *)
LEMMA WritePieceStep ==
    ASSUME IInv, WritePiece
    PROVE  IInv'
<1>a. /\ opt \in Requests /\ opt.version \in Versions /\ opt' = opt /\ pc \in {"body", "errorBody"}
      /\ Prepared /\ spoiled' = (spoiled \/ pc = "errorBody")
      /\ part' = part \o Piece /\ written' = written + Len(Piece)
  BY RequestFields DEF IInv, SessionAgrees, WritePiece, asked, Receiving, Prepared
<1>b. /\ Len(Piece) \in Nat /\ Len(Piece) > 0 /\ written' \in Bytes
      /\ pc = "body" => Sent + Len(Piece) <= FileLen
      /\ pc = "errorBody" => Len(Piece) = 1 /\ written = start
      /\ part' \in Seq(Block) /\ part' # NoFile /\ Len(part') = Len(part) + Len(Piece)
      /\ pc = "body" /\ ~spoiled =>
             written' <= FileLen /\ part' = Prefix(opt.version, written')
  BY <1>a, PieceAppended DEF WritePiece
<1>c. ~spoiled' => IsPart(part', opt.version) /\ pc = "body" /\ ~spoiled
  <2>1. ~spoiled' => pc = "body" /\ ~spoiled
    BY <1>a
  <2>2. written' \in Nat
    BY <1>b DEF Bytes
  <2> QED
    BY <1>b, <2>1, <2>2 DEF IsPart
<1>d. /\ saved' = [token |-> opt.version, bytes |-> written'] /\ saved' \in Counts
      /\ saved'.token = opt.version /\ offset' = written'
      /\ UNCHANGED <<pc, start, ranged, mayRange, refreshed, fault, trouble>>
  BY <1>a, <1>b DEF WritePiece, Counts, loop
<1>1. TypeOK'
  <2>1. spoiled' \in BOOLEAN
    BY DEF WritePiece
  <2> QED
    BY <1>b, <1>d, <2>1 DEF IInv, TypeOK, WritePiece, loop, asked
<1>2. SessionAgrees'
  BY DEF IInv, SessionAgrees, Streaming, Prepared, WritePiece, Receiving, asked,
      loop
<1>3. RangeAgrees'
  BY <1>a, <1>d DEF IInv, RangeAgrees, FromNothing, Streaming
<1>4. CountsAgree'
  <2>1. start \in Nat /\ written \in Nat
    BY DEF IInv, TypeOK, Bytes
  <2>2. pc = "body" => start <= written' /\ Sent' <= FileLen
    <3>1. Sent' = (IF ranged THEN start ELSE 0) + (written + Len(Piece) - start)
      BY <1>a, <1>b, <1>d, <2>1 DEF Sent
    <3>2. pc = "body" => start <= written /\ Sent + Len(Piece) <= FileLen
      BY <1>b DEF IInv, CountsAgree
    <3>3. Sent' = Sent + Len(Piece)
      BY <1>b, <2>1, <3>1 DEF Sent
    <3> QED
      BY <1>a, <1>b, <2>1, <3>2, <3>3
  <2> QED
    BY <1>a, <1>b, <1>d, <2>1, <2>2 DEF CountsAgree
<1>5. CheckpointVouches'
  BY <1>a, <1>c, <1>d, OwnFilesVouch
<1>6. OwnFiles'
  BY <1>a, <1>c, <1>d DEF OwnFiles
<1>7. DiskAgrees'
  <2>1. ~fault => Len(part) = written
    BY <1>a DEF IInv, DiskAgrees, CountsAgree, Streaming
  <2> QED
    BY <1>a, <1>b, <1>d, <2>1 DEF DiskAgrees
<1>8. StreamAgrees'
  BY <1>a, <1>b, <1>c, <1>d DEF StreamAgrees
<1>9. VerdictAgrees'
  BY DEF VerdictAgrees, WritePiece, Receiving
<1>10. UndisturbedAgrees'
  BY DEF IInv, UndisturbedAgrees, WritePiece, asked, loop
<1>11. SucceededIsWhole' /\ PausedIsResumable' /\ CanceledLeavesNothing'
  BY DEF SucceededIsWhole, PausedIsResumable, CanceledLeavesNothing, WritePiece,
      Receiving
<1> QED
  BY <1>1, <1>2, <1>3, <1>4, <1>5, <1>6, <1>7, <1>8, <1>9, <1>10, <1>11 DEF IInv

LEMMA WriteFailsStep ==
    ASSUME IInv, WriteFails
    PROVE  IInv'
<1>a. /\ opt \in Requests /\ opt.version \in Versions /\ opt' = opt /\ saved' = saved
      /\ spoiled' = spoiled /\ Prepared /\ pc # "return" /\ Streaming
  BY RequestFields
  DEF IInv, SessionAgrees, WriteFails, asked, Receiving, Prepared, Streaming
<1>b. /\ part' \in Seq(Block) \cup {NoFile} /\ part' # NoFile
      /\ saved \in Counts => saved.token \in {opt.version, NoToken}
      /\ ~spoiled => IsPart(part', opt.version)
  BY <1>a, LossesAreParts DEF IInv, DiskAgrees, OwnFiles, WriteFails
<1>1. TypeOK'
  <2>1. fault' \in BOOLEAN /\ trouble' \in BOOLEAN
    BY DEF WriteFails
  <2> QED
    BY <2>1, <1>b DEF IInv, TypeOK, Answers, WriteFails, asked, loop, prepared
<1>2. SessionAgrees'
  BY <1>b
  DEF IInv, SessionAgrees, Streaming, Prepared, WriteFails, Receiving, asked, loop
<1>3. RangeAgrees'
  BY <1>b DEF IInv, RangeAgrees, FromNothing, Streaming, WriteFails, Receiving, loop
<1>4. CountsAgree'
  BY <1>b DEF CountsAgree, WriteFails
<1>5. CheckpointVouches'
  BY <1>a, <1>b, OwnFilesVouch
<1>6. OwnFiles'
  BY <1>a, <1>b DEF OwnFiles
<1>7. DiskAgrees'
  BY <1>b DEF WriteFails, DiskAgrees
<1>8. StreamAgrees'
  BY <1>b DEF StreamAgrees, WriteFails
<1>9. VerdictAgrees'
  BY <1>b DEF VerdictAgrees, WriteFails
<1>10. UndisturbedAgrees'
  BY <1>b DEF UndisturbedAgrees, WriteFails
<1>11. SucceededIsWhole' /\ PausedIsResumable' /\ CanceledLeavesNothing'
  BY <1>b DEF SucceededIsWhole, PausedIsResumable, CanceledLeavesNothing, WriteFails
<1> QED
  BY <1>1, <1>2, <1>3, <1>4, <1>5, <1>6, <1>7, <1>8, <1>9, <1>10, <1>11 DEF IInv

(* A piece that is written and not saved leaves the offset behind: what    *)
(* spoils the next attempt, and not the files.                             *)
LEMMA SaveFailsStep ==
    ASSUME IInv, SaveFails
    PROVE  IInv'
<1>a. /\ opt \in Requests /\ opt.version \in Versions /\ opt' = opt /\ pc \in {"body", "errorBody"}
      /\ Prepared /\ spoiled' = (spoiled \/ pc = "errorBody")
      /\ part' = part \o Piece /\ written' = written + Len(Piece)
  BY RequestFields DEF IInv, SessionAgrees, SaveFails, asked, Receiving, Prepared
<1>b. /\ Len(Piece) \in Nat /\ Len(Piece) > 0 /\ written' \in Bytes
      /\ pc = "body" => Sent + Len(Piece) <= FileLen
      /\ pc = "errorBody" => Len(Piece) = 1 /\ written = start
      /\ part' \in Seq(Block) /\ part' # NoFile /\ Len(part') = Len(part) + Len(Piece)
      /\ pc = "body" /\ ~spoiled =>
             written' <= FileLen /\ part' = Prefix(opt.version, written')
  BY <1>a, PieceAppended DEF SaveFails
<1>c. ~spoiled' => IsPart(part', opt.version) /\ pc = "body" /\ ~spoiled
  <2>1. ~spoiled' => pc = "body" /\ ~spoiled
    BY <1>a
  <2>2. written' \in Nat
    BY <1>b DEF Bytes
  <2> QED
    BY <1>b, <2>1, <2>2 DEF IsPart
<1>d. /\ saved' \in Counts \cup {NoFile, Corrupt}
      /\ saved' \in Counts => saved'.token \in {opt.version, NoToken}
  <2>1. saved' = saved \/ saved' \in TornLoads([token |-> opt.version, bytes |-> written'])
    BY DEF SaveFails
  <2> QED
    BY <1>a, <1>b, <2>1, TornCounts DEF IInv, TypeOK, OwnFiles
<1>e. pc' = "close" /\ answer' = "save" /\ fault'
  BY DEF SaveFails
<1>1. TypeOK'
  <2>1. spoiled' \in BOOLEAN /\ fault' \in BOOLEAN /\ trouble' \in BOOLEAN
    BY DEF SaveFails
  <2> QED
    BY <1>b, <1>d, <2>1 DEF IInv, TypeOK, SaveFails, loop, asked, prepared, Answers
<1>2. SessionAgrees'
  BY DEF IInv, SessionAgrees, Streaming, Prepared, SaveFails, Receiving, asked, loop
<1>3. RangeAgrees'
  BY DEF IInv, RangeAgrees, FromNothing, Streaming, SaveFails, Receiving, loop
<1>4. CountsAgree'
  BY DEF CountsAgree, SaveFails
<1>5. CheckpointVouches'
  BY <1>a, <1>c, <1>d, OwnFilesVouch
<1>6. OwnFiles'
  BY <1>a, <1>c, <1>d DEF OwnFiles
<1>7. DiskAgrees'
  BY <1>b, <1>e DEF DiskAgrees
<1>8. StreamAgrees'
  BY <1>e DEF StreamAgrees
<1>9. VerdictAgrees'
  BY DEF VerdictAgrees, SaveFails
<1>10. UndisturbedAgrees'
  BY DEF UndisturbedAgrees, SaveFails
<1>11. SucceededIsWhole' /\ PausedIsResumable' /\ CanceledLeavesNothing'
  BY DEF SucceededIsWhole, PausedIsResumable, CanceledLeavesNothing, SaveFails
<1> QED
  BY <1>1, <1>2, <1>3, <1>4, <1>5, <1>6, <1>7, <1>8, <1>9, <1>10, <1>11 DEF IInv

(* A body that is complete makes the partial the whole version.            *)
LEMMA BodyEndsStep ==
    ASSUME IInv, BodyEnds
    PROVE  IInv'
<1>1. TypeOK'
  BY DEF IInv, TypeOK, Answers, BodyEnds, Answered, disk, asked, loop, prepared
<1>2. SessionAgrees'
  BY DEF IInv, SessionAgrees, Streaming, Prepared, BodyEnds, Answered, asked, loop
<1>3. RangeAgrees'
  BY DEF IInv, RangeAgrees, CountsAgree, FromNothing, Streaming, BodyEnds, Answered,
      loop, prepared
<1>4. CountsAgree'
  BY DEF CountsAgree, BodyEnds, Answered
<1>5. CheckpointVouches'
  BY DEF IInv, CheckpointVouches, BodyEnds, Answered, disk
<1>6. OwnFiles'
  BY DEF IInv, OwnFiles, Prepared, BodyEnds, Answered, disk, asked
<1>7. DiskAgrees'
  BY DEF IInv, DiskAgrees, Streaming, Prepared, BodyEnds, Answered, disk, asked,
      prepared
<1>8. StreamAgrees'
  <2>1. CASE pc = "body" /\ ~spoiled
    <3>1. /\ written <= FileLen /\ part = Prefix(opt.version, written) /\ start <= written
          /\ ~(Sent < FileLen) /\ (ranged \/ start = 0)
          /\ start \in Nat /\ written \in Nat
      BY <2>1
      DEF IInv, TypeOK, StreamAgrees, RangeAgrees, FromNothing, CountsAgree,
          Streaming, BodyEnds, Receiving, Bytes
    <3>2. written = FileLen
      BY <3>1, FileLenAssumption DEF Sent
    <3> QED
      BY <2>1, <3>1, <3>2 DEF BodyEnds, Answered, StreamAgrees, Whole, disk, asked
  <2>2. CASE ~(pc = "body" /\ ~spoiled)
    BY <2>2 DEF BodyEnds, Answered, StreamAgrees
  <2> QED
    BY <2>1, <2>2
<1>9. VerdictAgrees'
  BY DEF VerdictAgrees, BodyEnds, Answered
<1>10. UndisturbedAgrees'
  BY DEF IInv, UndisturbedAgrees, BodyEnds, Answered, asked, loop, prepared
<1>11. SucceededIsWhole' /\ PausedIsResumable' /\ CanceledLeavesNothing'
  BY DEF SucceededIsWhole, PausedIsResumable, CanceledLeavesNothing, BodyEnds,
      Answered
<1> QED
  BY <1>1, <1>2, <1>3, <1>4, <1>5, <1>6, <1>7, <1>8, <1>9, <1>10, <1>11 DEF IInv

LEMMA CloseOutputStep ==
    ASSUME IInv, CloseOutput
    PROVE  IInv'
<1>1. TypeOK'
  <2>1. ranged' \in BOOLEAN
    BY DEF IInv, TypeOK, CloseOutput, DropStream, stream
  <2> QED
    BY <2>1, FileLenAssumption
    DEF IInv, TypeOK, Bytes, CloseOutput, DropStream, disk, asked, loop, stream,
        prepared, history
<1>2. SessionAgrees'
  BY DEF IInv, SessionAgrees, Streaming, Prepared, CloseOutput, asked, loop
<1>3. RangeAgrees'
  BY DEF IInv, RangeAgrees, FromNothing, Streaming, CloseOutput, loop, stream,
      prepared, history
<1>4. CountsAgree'
  BY DEF CountsAgree, CloseOutput
<1>5. CheckpointVouches'
  BY DEF IInv, CheckpointVouches, CloseOutput, disk, history
<1>6. OwnFiles'
  BY DEF IInv, OwnFiles, Prepared, CloseOutput, disk, asked, history
<1>7. DiskAgrees'
  BY DEF IInv, DiskAgrees, Streaming, Prepared, CloseOutput, disk, asked, prepared,
      history
<1>8. StreamAgrees'
  BY DEF IInv, StreamAgrees, CloseOutput, disk, asked, history
<1>9. VerdictAgrees'
  BY DEF VerdictAgrees, CloseOutput
<1>10. UndisturbedAgrees'
  BY DEF IInv, UndisturbedAgrees, CloseOutput, asked, loop, stream, prepared,
      history
<1>11. SucceededIsWhole' /\ PausedIsResumable' /\ CanceledLeavesNothing'
  BY DEF SucceededIsWhole, PausedIsResumable, CanceledLeavesNothing, CloseOutput
<1> QED
  BY <1>1, <1>2, <1>3, <1>4, <1>5, <1>6, <1>7, <1>8, <1>9, <1>10, <1>11 DEF IInv

LEMMA CloseFailsStep ==
    ASSUME IInv, CloseFails
    PROVE  IInv'
<1>a. /\ opt \in Requests /\ opt.version \in Versions /\ opt' = opt /\ saved' = saved
      /\ spoiled' = spoiled /\ Prepared /\ pc # "return" /\ Streaming
  BY RequestFields DEF IInv, SessionAgrees, CloseFails, asked, Prepared, Streaming
<1>b. /\ part' \in Seq(Block) \cup {NoFile} /\ part' # NoFile
      /\ saved \in Counts => saved.token \in {opt.version, NoToken}
      /\ ~spoiled => IsPart(part', opt.version)
  BY <1>a, LossesAreParts DEF IInv, DiskAgrees, OwnFiles, CloseFails
<1>1. TypeOK'
  <2>1. ranged' \in BOOLEAN /\ preserve' \in BOOLEAN /\ fault' \in BOOLEAN /\ trouble' \in
        BOOLEAN
    BY DEF CloseFails, DropStream
  <2> QED
    BY <2>1, <1>b, FileLenAssumption, StreamAssumption
    DEF IInv, TypeOK, SessionAgrees, Streaming, Bytes, Answers, CloseFails,
        AttemptFailed, DropStream, asked
<1>2. SessionAgrees'
  BY <1>b
  DEF IInv, SessionAgrees, Streaming, Prepared, CloseFails, AttemptFailed, asked
<1>3. RangeAgrees'
  BY <1>b DEF RangeAgrees, Streaming, CloseFails, AttemptFailed
<1>4. CountsAgree'
  BY <1>b DEF CountsAgree, CloseFails, AttemptFailed
<1>5. CheckpointVouches'
  BY <1>a, <1>b, OwnFilesVouch
<1>6. OwnFiles'
  BY <1>a, <1>b DEF OwnFiles
<1>7. DiskAgrees'
  BY <1>b DEF DiskAgrees, CloseFails
<1>8. StreamAgrees'
  BY <1>b DEF StreamAgrees, CloseFails, AttemptFailed
<1>9. VerdictAgrees'
  BY <1>b DEF VerdictAgrees, CloseFails
<1>10. UndisturbedAgrees'
  BY <1>b DEF UndisturbedAgrees, CloseFails
<1>11. SucceededIsWhole' /\ PausedIsResumable' /\ CanceledLeavesNothing'
  BY <1>b
  DEF SucceededIsWhole, PausedIsResumable, CanceledLeavesNothing, CloseFails,
      AttemptFailed
<1> QED
  BY <1>1, <1>2, <1>3, <1>4, <1>5, <1>6, <1>7, <1>8, <1>9, <1>10, <1>11 DEF IInv

LEMMA PauseKeepsStep ==
    ASSUME IInv, PauseKeeps
    PROVE  IInv'
<1>1. TypeOK'
  <2>1. ranged' \in BOOLEAN /\ preserve' \in BOOLEAN
    BY DEF PauseKeeps, DropStream
  <2> QED
    BY <2>1, FileLenAssumption
    DEF IInv, TypeOK, Bytes, Answers, PauseKeeps, DropStream, disk, asked, loop,
        history
<1>2. SessionAgrees'
  BY DEF IInv, SessionAgrees, Streaming, Prepared, PauseKeeps, asked
<1>3. RangeAgrees'
  BY DEF RangeAgrees, Streaming, PauseKeeps
<1>4. CountsAgree'
  BY DEF CountsAgree, PauseKeeps
<1>5. CheckpointVouches'
  BY DEF IInv, CheckpointVouches, PauseKeeps, disk, history
<1>6. OwnFiles'
  BY DEF OwnFiles, PauseKeeps
<1>7. DiskAgrees'
  BY DEF IInv, DiskAgrees, Streaming, Prepared, PauseKeeps, disk, asked, history
<1>8. StreamAgrees'
  BY DEF StreamAgrees, PauseKeeps
<1>9. VerdictAgrees'
  BY DEF IInv, VerdictAgrees, DiskAgrees, Streaming, PauseKeeps, disk
<1>10. UndisturbedAgrees'
  BY DEF IInv, UndisturbedAgrees, PauseKeeps, asked, history
<1>11. SucceededIsWhole' /\ PausedIsResumable' /\ CanceledLeavesNothing'
  BY DEF SucceededIsWhole, PausedIsResumable, CanceledLeavesNothing, PauseKeeps
<1> QED
  BY <1>1, <1>2, <1>3, <1>4, <1>5, <1>6, <1>7, <1>8, <1>9, <1>10, <1>11 DEF IInv

LEMMA CancelDiscardsStep ==
    ASSUME IInv, CancelDiscards
    PROVE  IInv'
<1>1. TypeOK'
  <2>1. ranged' \in BOOLEAN /\ preserve' \in BOOLEAN /\ spoiled' \in BOOLEAN /\ fault' \in
        BOOLEAN /\ trouble' \in BOOLEAN
    BY DEF IInv, TypeOK, CancelDiscards, DropStream, DiscardPartial, DiscardFails
  <2> QED
    BY <2>1, FileLenAssumption
    DEF IInv, TypeOK, Bytes, Answers, CancelDiscards, DropStream, DiscardPartial,
        DiscardFails, asked, loop
<1>2. SessionAgrees'
  BY DEF IInv, SessionAgrees, Streaming, Prepared, CancelDiscards, asked
<1>3. RangeAgrees'
  BY DEF RangeAgrees, Streaming, CancelDiscards
<1>4. CountsAgree'
  BY DEF CountsAgree, CancelDiscards
<1>5. CheckpointVouches'
  <2>1. opt' = opt /\ opt \in Requests /\ opt.version \in Versions /\ Prepared /\ pc # "return"
    BY RequestFields DEF IInv, SessionAgrees, CancelDiscards, asked, Prepared
  <2>2. CASE DiscardPartial
    BY <2>1, <2>2, EmptyPart, CountsAreNoSentinels, OwnFilesVouch DEF DiscardPartial
  <2>3. CASE DiscardFails
    BY <2>1, <2>3, CountsAreNoSentinels, OwnFilesVouch
    DEF IInv, OwnFiles, DiscardFails
  <2> QED
    BY <2>2, <2>3 DEF CancelDiscards
<1>6. OwnFiles'
  BY DEF OwnFiles, CancelDiscards
<1>7. DiskAgrees'
  BY DEF DiskAgrees, Streaming, CancelDiscards, DiscardPartial, DiscardFails
<1>8. StreamAgrees'
  BY DEF StreamAgrees, CancelDiscards
<1>9. VerdictAgrees'
  BY DEF VerdictAgrees, NothingLeft, CancelDiscards, DiscardPartial, DiscardFails
<1>10. UndisturbedAgrees'
  BY DEF IInv, UndisturbedAgrees, CancelDiscards, DiscardPartial, DiscardFails,
      asked
<1>11. SucceededIsWhole' /\ PausedIsResumable' /\ CanceledLeavesNothing'
  BY DEF SucceededIsWhole, PausedIsResumable, CanceledLeavesNothing, CancelDiscards
<1> QED
  BY <1>1, <1>2, <1>3, <1>4, <1>5, <1>6, <1>7, <1>8, <1>9, <1>10, <1>11 DEF IInv

LEMMA RestartWithoutRangeStep ==
    ASSUME IInv, RestartWithoutRange
    PROVE  IInv'
<1>1. TypeOK'
  <2>1. mayRange' \in BOOLEAN /\ committed' \in BOOLEAN /\ ranged' \in BOOLEAN /\ preserve'
        \in BOOLEAN /\ spoiled' \in BOOLEAN /\ fault' \in BOOLEAN /\ trouble' \in BOOLEAN
    BY DEF IInv, TypeOK, RestartWithoutRange, DropStream, DiscardPartial,
        DiscardFails
  <2> QED
    BY <2>1, FileLenAssumption, StreamAssumption
    DEF IInv, TypeOK, SessionAgrees, Streaming, Bytes, Answers, RestartWithoutRange,
        AttemptFailed, DropStream, DiscardPartial, DiscardFails, asked
<1>2. SessionAgrees'
  BY DEF IInv, SessionAgrees, Streaming, Prepared, RestartWithoutRange,
      AttemptFailed, asked
<1>3. RangeAgrees'
  BY DEF RangeAgrees, FromNothing, Streaming, RestartWithoutRange, AttemptFailed,
      DiscardPartial
<1>4. CountsAgree'
  BY DEF CountsAgree, RestartWithoutRange, AttemptFailed
<1>5. CheckpointVouches'
  <2>1. opt' = opt /\ opt \in Requests /\ opt.version \in Versions /\ Prepared /\ pc # "return"
    BY RequestFields DEF IInv, SessionAgrees, RestartWithoutRange, asked, Prepared
  <2>2. CASE DiscardPartial
    BY <2>1, <2>2, EmptyPart, CountsAreNoSentinels, OwnFilesVouch DEF DiscardPartial
  <2>3. CASE DiscardFails
    BY <2>1, <2>3, CountsAreNoSentinels, OwnFilesVouch
    DEF IInv, OwnFiles, DiscardFails
  <2> QED
    BY <2>2, <2>3 DEF RestartWithoutRange
<1>6. OwnFiles'
  <2>1. opt' = opt /\ opt \in Requests /\ opt.version \in Versions /\ Prepared /\ pc # "return"
    BY RequestFields DEF IInv, SessionAgrees, RestartWithoutRange, asked, Prepared
  <2>2. CASE DiscardPartial
    BY <2>1, <2>2, EmptyPart, CountsAreNoSentinels DEF DiscardPartial, OwnFiles
  <2>3. CASE DiscardFails
    BY <2>1, <2>3, CountsAreNoSentinels DEF IInv, OwnFiles, DiscardFails
  <2> QED
    BY <2>2, <2>3 DEF RestartWithoutRange
<1>7. DiskAgrees'
  BY DEF DiskAgrees, Streaming, RestartWithoutRange, AttemptFailed, DiscardPartial,
      DiscardFails
<1>8. StreamAgrees'
  BY DEF StreamAgrees, RestartWithoutRange, AttemptFailed
<1>9. VerdictAgrees'
  BY DEF VerdictAgrees, RestartWithoutRange, AttemptFailed
<1>10. UndisturbedAgrees'
  BY DEF IInv, TypeOK, UndisturbedAgrees, RestartWithoutRange, DiscardPartial,
      DiscardFails, asked
<1>11. SucceededIsWhole' /\ PausedIsResumable' /\ CanceledLeavesNothing'
  BY DEF SucceededIsWhole, PausedIsResumable, CanceledLeavesNothing,
      RestartWithoutRange, AttemptFailed
<1> QED
  BY <1>1, <1>2, <1>3, <1>4, <1>5, <1>6, <1>7, <1>8, <1>9, <1>10, <1>11 DEF IInv

LEMMA RefreshUrlStep ==
    ASSUME IInv, RefreshUrl
    PROVE  IInv'
<1>1. TypeOK'
  <2>1. refreshed' \in BOOLEAN /\ preserve' \in BOOLEAN /\ ranged' \in BOOLEAN
    BY DEF RefreshUrl, DropStream
  <2> QED
    BY <2>1, FileLenAssumption
    DEF IInv, TypeOK, Bytes, Answers, RefreshUrl, DropStream, disk, asked, history
<1>2. SessionAgrees'
  BY DEF IInv, SessionAgrees, Streaming, Prepared, RefreshUrl, asked
<1>3. RangeAgrees'
  BY DEF IInv, RangeAgrees, FromNothing, Streaming, RefreshUrl, history
<1>4. CountsAgree'
  BY DEF CountsAgree, RefreshUrl
<1>5. CheckpointVouches'
  BY DEF IInv, CheckpointVouches, RefreshUrl, disk, history
<1>6. OwnFiles'
  BY DEF IInv, OwnFiles, Prepared, RefreshUrl, disk, asked, history
<1>7. DiskAgrees'
  BY DEF IInv, DiskAgrees, Streaming, Prepared, RefreshUrl, disk, asked, history
<1>8. StreamAgrees'
  BY DEF StreamAgrees, RefreshUrl
<1>9. VerdictAgrees'
  BY DEF VerdictAgrees, RefreshUrl
<1>10. UndisturbedAgrees'
  BY DEF IInv, UndisturbedAgrees, RefreshUrl, asked, history
<1>11. SucceededIsWhole' /\ PausedIsResumable' /\ CanceledLeavesNothing'
  BY DEF SucceededIsWhole, PausedIsResumable, CanceledLeavesNothing, RefreshUrl
<1> QED
  BY <1>1, <1>2, <1>3, <1>4, <1>5, <1>6, <1>7, <1>8, <1>9, <1>10, <1>11 DEF IInv

LEMMA GiveUpAttemptStep ==
    ASSUME IInv, GiveUpAttempt
    PROVE  IInv'
<1>1. TypeOK'
  <2>1. preserve' \in BOOLEAN /\ ranged' \in BOOLEAN
    BY DEF GiveUpAttempt, DropStream
  <2> QED
    BY <2>1, FileLenAssumption, StreamAssumption
    DEF IInv, TypeOK, SessionAgrees, Streaming, Bytes, Answers, GiveUpAttempt,
        AttemptFailed, DropStream, disk, asked, history
<1>2. SessionAgrees'
  BY DEF IInv, SessionAgrees, Streaming, Prepared, GiveUpAttempt, AttemptFailed,
      asked
<1>3. RangeAgrees'
  BY DEF RangeAgrees, Streaming, GiveUpAttempt, AttemptFailed
<1>4. CountsAgree'
  BY DEF CountsAgree, GiveUpAttempt, AttemptFailed
<1>5. CheckpointVouches'
  BY DEF IInv, CheckpointVouches, GiveUpAttempt, disk, history
<1>6. OwnFiles'
  BY DEF IInv, OwnFiles, Prepared, GiveUpAttempt, disk, asked, history
<1>7. DiskAgrees'
  BY DEF IInv, DiskAgrees, Streaming, Prepared, GiveUpAttempt, disk, asked, history
<1>8. StreamAgrees'
  BY DEF StreamAgrees, GiveUpAttempt, AttemptFailed
<1>9. VerdictAgrees'
  BY DEF VerdictAgrees, GiveUpAttempt, AttemptFailed
<1>10. UndisturbedAgrees'
  BY DEF IInv, UndisturbedAgrees, GiveUpAttempt, asked, history
<1>11. SucceededIsWhole' /\ PausedIsResumable' /\ CanceledLeavesNothing'
  BY DEF SucceededIsWhole, PausedIsResumable, CanceledLeavesNothing, GiveUpAttempt,
      AttemptFailed
<1> QED
  BY <1>1, <1>2, <1>3, <1>4, <1>5, <1>6, <1>7, <1>8, <1>9, <1>10, <1>11 DEF IInv

LEMMA CommitStep ==
    ASSUME IInv, Commit
    PROVE  IInv'
<1>1. TypeOK'
  <2>1. committed' \in BOOLEAN /\ fault' \in BOOLEAN /\ trouble' \in BOOLEAN
    BY DEF IInv, TypeOK, Commit
  <2> QED
    BY <2>1, FileLenAssumption, StreamAssumption
    DEF IInv, TypeOK, SessionAgrees, Bytes, Commit, AttemptFailed, asked, stream
<1>2. SessionAgrees'
  BY DEF IInv, SessionAgrees, Streaming, Prepared, Commit, AttemptFailed, asked
<1>3. RangeAgrees'
  BY DEF RangeAgrees, Streaming, Commit, AttemptFailed
<1>4. CountsAgree'
  BY DEF CountsAgree, Commit, AttemptFailed
<1>5. CheckpointVouches'
  <2>1. opt' = opt /\ opt \in Requests /\ opt.version \in Versions /\ Prepared /\ pc # "return"
    BY RequestFields DEF IInv, SessionAgrees, Commit, asked, Prepared
  <2>2. part' \in {part, NoFile} /\ saved' \in {saved, NoFile} /\ spoiled' = spoiled
    BY DEF Commit
  <2> QED
    BY <2>1, <2>2, EmptyPart, CountsAreNoSentinels, OwnFilesVouch DEF IInv, OwnFiles
<1>6. OwnFiles'
  <2>1. opt' = opt /\ opt \in Requests /\ opt.version \in Versions /\ Prepared /\ pc # "return"
    BY RequestFields DEF IInv, SessionAgrees, Commit, asked, Prepared
  <2>2. part' \in {part, NoFile} /\ saved' \in {saved, NoFile} /\ spoiled' = spoiled
    BY DEF Commit
  <2> QED
    BY <2>1, <2>2, EmptyPart, CountsAreNoSentinels DEF IInv, OwnFiles
<1>7. DiskAgrees'
  BY DEF IInv, DiskAgrees, Streaming, Prepared, Commit, AttemptFailed, asked
<1>8. StreamAgrees'
  BY DEF StreamAgrees, Commit, AttemptFailed
<1>9. VerdictAgrees'
  BY DEF VerdictAgrees, Commit, AttemptFailed
<1>10. UndisturbedAgrees'
  BY DEF IInv, UndisturbedAgrees, Commit, asked
<1>11. SucceededIsWhole' /\ PausedIsResumable' /\ CanceledLeavesNothing'
  BY DEF IInv, StreamAgrees, SucceededIsWhole, PausedIsResumable,
      CanceledLeavesNothing, Commit, AttemptFailed, asked
<1> QED
  BY <1>1, <1>2, <1>3, <1>4, <1>5, <1>6, <1>7, <1>8, <1>9, <1>10, <1>11 DEF IInv

(* Until a local operation fails, a prepared session has a pair to resume  *)
(* from, or nothing.                                                       *)
LEMMA PairOrNothing ==
    ASSUME IInv, Prepared, ~fault
    PROVE  Resumable \/ NothingLeft
<1>1. /\ opt \in Requests /\ opt.version \in Versions /\ opt.resume /\ offset \in Bytes
  BY RequestFields DEF IInv, TypeOK, SessionAgrees, Prepared
<1>2. CASE saved = NoFile
  BY <1>2, CountIsNoSentinel, <1>1
  DEF IInv, DiskAgrees, Resumable, NothingLeft
<1>3. CASE saved # NoFile
  <2>1. /\ saved = [token |-> opt.version, bytes |-> offset]
        /\ part # NoFile /\ Len(part) = offset
    BY <1>3 DEF IInv, DiskAgrees
  <2>2. saved \notin {NoFile, Corrupt}
    BY <1>1, <2>1, CountIsNoSentinel, CountsAreNoSentinels
  <2>3. ResumeAccepted(opt, part, saved)
    BY <1>1, <2>1, <2>2 DEF ResumeAccepted
  <2> QED
    BY <2>3 DEF Resumable
<1> QED
  BY <1>2, <1>3

(* The destructor keeps a preserved partial and its checkpoint together.   *)
LEMMA ReturnStep ==
    ASSUME IInv, Return
    PROVE  IInv'
<1>1. TypeOK'
  <2>1. mayRange' \in BOOLEAN /\ refreshed' \in BOOLEAN /\ ranged' \in BOOLEAN /\ preserve'
        \in BOOLEAN /\ committed' \in BOOLEAN
    BY DEF Return, Forget, DropStream
  <2>2. fault' \in BOOLEAN
    BY DEF IInv, TypeOK, Return
  <2> QED
    BY <2>1, <2>2, FileLenAssumption, StreamAssumption
    DEF IInv, TypeOK, Bytes, Answers, Return, Forget, DropStream, asked
<1>2. SessionAgrees'
  BY StreamAssumption DEF SessionAgrees, Return, Forget
<1>3. RangeAgrees'
  BY DEF RangeAgrees, Streaming, Return
<1>4. CountsAgree'
  BY DEF CountsAgree, Return
<1>5. CheckpointVouches'
  <2>1. part' \in {part, NoFile} /\ saved' \in {saved, NoFile} /\ spoiled' = spoiled
    BY DEF Return
  <2> QED
    BY <2>1, EmptyPart, CountsAreNoSentinels DEF IInv, CheckpointVouches
<1>6. OwnFiles'
  BY DEF OwnFiles, Prepared, Return
<1>7. DiskAgrees'
  BY DEF DiskAgrees, Streaming, Prepared, Return
<1>8. StreamAgrees'
  BY DEF StreamAgrees, Return
<1>9. VerdictAgrees'
  BY DEF VerdictAgrees, Return
<1>10. UndisturbedAgrees'
  BY DEF UndisturbedAgrees, Return
<1>11. SucceededIsWhole' /\ PausedIsResumable' /\ CanceledLeavesNothing'
  <2>a. /\ pc = "return" /\ Prepared /\ pc' = "idle" /\ UNCHANGED <<opt, verdict, between>>
        /\ ~fault' => ~fault
    BY DEF Return, Prepared, asked
  <2>b. SucceededIsWhole'
    BY <2>a DEF SucceededIsWhole
  <2>1. ASSUME ~fault'
        PROVE  \/ UNCHANGED <<part, saved>> /\ (preserve \/ committed)
               \/ NothingLeft' /\ ~preserve
    BY <2>1 DEF Return, NothingLeft
  <2>2. ASSUME ~fault', verdict = "paused"
        PROVE  Resumable' \/ (between' /\ NothingLeft')
    <3>1. CASE between
      <4>1. CASE NothingLeft'
        BY <2>a, <3>1, <4>1
      <4>2. CASE UNCHANGED <<part, saved>>
        BY <2>a, <2>2, <3>1, <4>2, PairOrNothing DEF Resumable, NothingLeft
      <4> QED
        BY <2>1, <2>2, <4>1, <4>2
    <3>2. CASE ~between
      <4>1. preserve /\ part # NoFile
        BY <2>a, <2>2, <3>2 DEF IInv, VerdictAgrees
      <4>2. UNCHANGED <<part, saved>>
        BY <2>1, <2>2, <4>1
      <4> QED
        BY <2>a, <2>2, <4>1, <4>2, PairOrNothing DEF Resumable, NothingLeft
    <3> QED
      BY <3>1, <3>2
  <2>3. ASSUME ~fault', verdict = "canceled"
        PROVE  NothingLeft' \/ (between' /\ Resumable')
    <3>1. CASE NothingLeft'
      BY <3>1
    <3>2. CASE UNCHANGED <<part, saved>>
      <4>1. between \/ NothingLeft
        BY <2>a, <2>3 DEF IInv, VerdictAgrees
      <4> QED
        BY <2>a, <2>3, <3>2, <4>1, PairOrNothing DEF Resumable, NothingLeft
    <3> QED
      BY <2>1, <2>3, <3>1, <3>2
  <2> QED
    BY <2>a, <2>b, <2>2, <2>3 DEF PausedIsResumable, CanceledLeavesNothing
<1> QED
  BY <1>1, <1>2, <1>3, <1>4, <1>5, <1>6, <1>7, <1>8, <1>9, <1>10, <1>11 DEF IInv

(* A session that was refused before it had its paths touches nothing.     *)
LEMMA PrepareRefusedStep ==
    ASSUME IInv, PrepareRefused
    PROVE  IInv'
<1>1. TypeOK'
  <2>1. mayRange' \in BOOLEAN /\ refreshed' \in BOOLEAN /\ ranged' \in BOOLEAN /\ preserve'
        \in BOOLEAN /\ committed' \in BOOLEAN /\ fault' \in BOOLEAN /\ trouble' \in BOOLEAN
    BY DEF PrepareRefused, Forget, DropStream
  <2> QED
    BY <2>1, FileLenAssumption, StreamAssumption
    DEF IInv, TypeOK, Bytes, Answers, PrepareRefused, Forget, DropStream, disk, asked
<1>2. SessionAgrees'
  BY StreamAssumption DEF SessionAgrees, PrepareRefused, Forget
<1>3. CheckpointVouches'
  BY DEF IInv, CheckpointVouches, PrepareRefused, disk
<1> QED
  BY <1>1, <1>2, <1>3
  DEF PrepareRefused, IInv, RangeAgrees, CountsAgree, OwnFiles, DiskAgrees, StreamAgrees,
      VerdictAgrees, UndisturbedAgrees, SucceededIsWhole, PausedIsResumable,
      CanceledLeavesNothing, Streaming, Prepared

(* Death at any place leaves a pair that the next session may trust.       *)
LEMMA CrashStep ==
    ASSUME IInv, Crash
    PROVE  IInv'
<1>a. /\ part' \in Seq(Block) \cup {NoFile} /\ opt' = opt /\ spoiled' = spoiled
      /\ \A v \in Versions : IsPart(part, v) => IsPart(part', v)
  BY LossesAreParts DEF Crash, asked, history
<1>b. \/ saved' = saved
      \/ /\ pc = "body" /\ saved' \in Counts \cup {Corrupt}
         /\ saved' \in Counts => saved'.token \in {opt.version, NoToken}
  <2>1. saved' = saved \/ (pc = "body" /\ saved' \in TornLoads([token |-> opt.version,
                                                               bytes |-> written]))
    BY DEF Crash
  <2> QED
    BY <2>1, TornCounts, RequestFields DEF IInv, TypeOK, SessionAgrees
<1>1. TypeOK'
  <2>1. mayRange' \in BOOLEAN /\ refreshed' \in BOOLEAN /\ ranged' \in BOOLEAN /\ preserve'
        \in BOOLEAN /\ committed' \in BOOLEAN
    BY DEF Crash, Forget, DropStream
  <2> QED
    BY <2>1, <1>a, <1>b, FileLenAssumption, StreamAssumption
    DEF IInv, TypeOK, Bytes, Answers, Crash, Forget, DropStream, asked, history
<1>2. SessionAgrees'
  BY <1>a, <1>b, StreamAssumption DEF SessionAgrees, Crash, Forget
<1>3. RangeAgrees'
  BY <1>a, <1>b DEF RangeAgrees, Streaming, Crash
<1>4. CountsAgree'
  BY <1>a, <1>b DEF CountsAgree, Crash
<1>5. CheckpointVouches'
  <2>1. CASE saved' = saved
    BY <1>a, <2>1 DEF IInv, CheckpointVouches
  <2>2. CASE saved' # saved
    <3>1. opt \in Requests /\ opt.version \in Versions /\ Prepared /\ pc # "return"
      BY <1>b, <2>2, RequestFields DEF IInv, SessionAgrees, Prepared
    <3> QED
      BY <1>a, <1>b, <2>2, <3>1, OwnFilesVouch DEF IInv, OwnFiles
  <2> QED
    BY <2>1, <2>2
<1>6. OwnFiles'
  BY <1>a, <1>b DEF OwnFiles, Prepared, Crash
<1>7. DiskAgrees'
  BY <1>a, <1>b DEF DiskAgrees, Streaming, Prepared, Crash
<1>8. StreamAgrees'
  BY <1>a, <1>b DEF StreamAgrees, Crash
<1>9. VerdictAgrees'
  BY <1>a, <1>b DEF VerdictAgrees, Crash
<1>10. UndisturbedAgrees'
  BY <1>a, <1>b DEF UndisturbedAgrees, Crash
<1>11. SucceededIsWhole' /\ PausedIsResumable' /\ CanceledLeavesNothing'
  BY <1>a, <1>b
  DEF SucceededIsWhole, PausedIsResumable, CanceledLeavesNothing, Crash
<1> QED
  BY <1>1, <1>2, <1>3, <1>4, <1>5, <1>6, <1>7, <1>8, <1>9, <1>10, <1>11 DEF IInv

LEMMA StartStep ==
    ASSUME IInv, NEW o \in Requests, Start(o)
    PROVE  IInv'
<1>1. TypeOK'
  <2>1. fault' \in BOOLEAN /\ trouble' \in BOOLEAN
    BY DEF Start
  <2> QED
    BY <2>1 DEF IInv, TypeOK, Start, disk, loop, stream, prepared
<1>2. SessionAgrees'
  BY StreamAssumption DEF IInv, SessionAgrees, Start, Prepared, loop, prepared
<1>3. CheckpointVouches'
  BY DEF IInv, CheckpointVouches, Start, disk
<1>4. UndisturbedAgrees'
  BY DEF IInv, SessionAgrees, UndisturbedAgrees, Start, Prepared, loop, prepared
<1> QED
  BY <1>1, <1>2, <1>3, <1>4
  DEF Start, IInv, RangeAgrees, CountsAgree, OwnFiles, DiskAgrees, StreamAgrees,
      VerdictAgrees, SucceededIsWhole, PausedIsResumable, CanceledLeavesNothing,
      Streaming, Prepared

LEMMA InterruptStep ==
    ASSUME IInv, NEW kind \in {"pause", "cancel"}, Interrupt(kind)
    PROVE  IInv'
<1>1. TypeOK'
  <2>1. trouble' \in BOOLEAN
    BY DEF Interrupt
  <2> QED
    BY <2>1 DEF IInv, TypeOK, Interrupt, disk, asked, loop, stream, prepared
<1>2. SessionAgrees' /\ RangeAgrees' /\ CountsAgree' /\ OwnFiles' /\ CheckpointVouches'
  BY DEF IInv, SessionAgrees, RangeAgrees, FromNothing, CountsAgree, Sent, OwnFiles,
      CheckpointVouches, Streaming, Prepared, Interrupt, disk, asked, loop, stream,
      prepared
<1>3. DiskAgrees' /\ StreamAgrees' /\ VerdictAgrees' /\ UndisturbedAgrees'
  BY DEF IInv, DiskAgrees, StreamAgrees, VerdictAgrees, NothingLeft, UndisturbedAgrees,
      Streaming, Prepared, Interrupt, disk, asked, stream, prepared
<1> QED
  BY <1>1, <1>2, <1>3
  DEF IInv, SucceededIsWhole, PausedIsResumable, CanceledLeavesNothing, Interrupt,
      disk, asked

LEMMA InitInvariant == Init => IInv
<1> SUFFICES ASSUME Init PROVE IInv
  OBVIOUS
<1>1. /\ mayRange \in BOOLEAN /\ refreshed \in BOOLEAN /\ ranged \in BOOLEAN
      /\ preserve \in BOOLEAN /\ committed \in BOOLEAN
      /\ spoiled \in BOOLEAN /\ fault \in BOOLEAN /\ trouble \in BOOLEAN /\ between \in BOOLEAN
  BY DEF Init
<1>2. TypeOK
  BY <1>1, ForeignContent, FileLenAssumption, StreamAssumption
  DEF Init, TypeOK, Bytes, Answers
<1>3. CheckpointVouches
  BY CountsAreNoSentinels DEF Init, CheckpointVouches
<1> QED
  BY <1>2, <1>3
  DEF Init, IInv, SessionAgrees, RangeAgrees, CountsAgree, OwnFiles, DiskAgrees,
      StreamAgrees, VerdictAgrees, UndisturbedAgrees, SucceededIsWhole,
      PausedIsResumable, CanceledLeavesNothing, Streaming, Prepared

LEMMA InductiveStep == IInv /\ [Next]_vars => IInv'
<1> SUFFICES ASSUME IInv, [Next]_vars PROVE IInv'
  OBVIOUS
<1>1. ASSUME NEW o \in Requests, Start(o) PROVE IInv'
  BY <1>1, StartStep
<1>2. ASSUME NEW kind \in {"pause", "cancel"}, Interrupt(kind) PROVE IInv'
  BY <1>2, InterruptStep
<1>3. CASE Session
  BY <1>3, PrepareStep, PrepareRefusedStep, FetchServersStep, NextServerStep, OpenOutputStep,
     OpenFailsStep, RequestCanceledStep, RequestBreaksStep, RangeRefusedStep,
     HttpErrorStep, BodyBeginsStep, WritePieceStep, WriteFailsStep, SaveFailsStep,
     BodyEndsStep, CloseOutputStep, CloseFailsStep, PauseKeepsStep,
     CancelDiscardsStep, RestartWithoutRangeStep, RefreshUrlStep, GiveUpAttemptStep,
     CommitStep, ReturnStep
  DEF Session
<1>4. CASE Crash
  BY <1>4, CrashStep
<1>5. CASE UNCHANGED vars
  <2>1. TypeOK'
    BY <1>5 DEF IInv, TypeOK, vars, disk, asked, loop, stream, prepared, history
  <2>2. SessionAgrees' /\ RangeAgrees' /\ CountsAgree' /\ OwnFiles' /\ CheckpointVouches'
    BY <1>5
    DEF IInv, SessionAgrees, RangeAgrees, FromNothing, CountsAgree, Sent, OwnFiles,
        CheckpointVouches, Streaming, Prepared, vars, disk, asked, loop, stream,
        prepared, history
  <2>3. DiskAgrees' /\ StreamAgrees' /\ VerdictAgrees' /\ UndisturbedAgrees'
    BY <1>5
    DEF IInv, DiskAgrees, StreamAgrees, VerdictAgrees, NothingLeft, UndisturbedAgrees,
        Streaming, Prepared, vars, disk, asked, loop, stream, prepared, history
  <2> QED
    BY <1>5, <2>1, <2>2, <2>3
    DEF IInv, SucceededIsWhole, PausedIsResumable, CanceledLeavesNothing, Resumable,
        NothingLeft, vars, disk, asked, history
<1> QED
  BY <1>1, <1>2, <1>3, <1>4, <1>5 DEF Next

(***************************************************************************)
(* Theorems                                                                *)
(***************************************************************************)

(* IInv holds throughout, whatever the servers answer and wherever         *)
(* sessions stop.                                                          *)
THEOREM Invariant == Spec => []IInv
<1>1. Init => IInv
  BY InitInvariant
<1>2. IInv /\ [Next]_vars => IInv'
  BY InductiveStep
<1> QED
  BY <1>1, <1>2, PTL DEF Spec

(* Offsets and counts never exceed the file by more than an error's body.  *)
THEOREM TypeCorrect == Spec => []TypeOK
<1>1. IInv => TypeOK
  BY DEF IInv
<1> QED
  BY <1>1, Invariant, PTL

(* What is committed is the version asked for, except after the body of an *)
(* error answer or a local failure.                                        *)
THEOREM SuccessIsWhole == Spec => []SucceededIsWhole
<1>1. IInv => SucceededIsWhole
  BY DEF IInv
<1> QED
  BY <1>1, Invariant, PTL

(* A download nothing disturbs is not misled by what it finds on the disk. *)
THEOREM UndisturbedSuccess == Spec => []UndisturbedSucceeds
<1>1. IInv => UndisturbedSucceeds
  BY DEF IInv, UndisturbedAgrees, UndisturbedSucceeds
<1> QED
  BY <1>1, Invariant, PTL

(* A pause leaves what the next session accepts; one noticed between two   *)
(* servers may leave nothing at all, but never one file without the other. *)
THEOREM PauseIsResumable == Spec => []PausedIsResumable
<1>1. IInv => PausedIsResumable
  BY DEF IInv
<1> QED
  BY <1>1, Invariant, PTL

(* A cancel leaves neither partial nor checkpoint; one noticed between two *)
(* servers may leave both, and then they are a pair to resume from.        *)
THEOREM CancelLeavesNothing == Spec => []CanceledLeavesNothing
<1>1. IInv => CanceledLeavesNothing
  BY DEF IInv
<1> QED
  BY <1>1, Invariant, PTL

===============================================================================
