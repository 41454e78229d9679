--------------------------- MODULE FileWriteProofs ---------------------------
(***************************************************************************)
(* Proofs about FileWrite for any set of versions, any length and any mix  *)
(* of atomic and in-place sessions.                                        *)
(***************************************************************************)
EXTENDS FileWrite, PreparedFileProofs

(***************************************************************************)
(* Type correctness                                                        *)
(***************************************************************************)

LEMMA OptionFields ==
    ASSUME NEW o \in Options(AtomicOptions)
    PROVE  /\ o.version \in Versions
           /\ o.atomic \in BOOLEAN
           /\ o.resume \in BOOLEAN
           /\ WritePath(o) \in Paths
  BY AtomicOptionsAssumption DEF Options, WritePath, Paths

(* Between sessions the process-local variables have their initial values. *)
LEMMA ForgetType ==
    ASSUME Forget
    PROVE  /\ pc' \in Labels
           /\ opt' = NoRequest /\ pc' = "idle"
           /\ finalExists' \in BOOLEAN /\ committed' \in BOOLEAN
           /\ resumeAvailable' \in BOOLEAN /\ preservePartial' \in BOOLEAN
           /\ resumeOffset' \in 0..FileLen
           /\ pos' \in 0..FileLen /\ buf' \in 0..pos'
<1>1. /\ finalExists' \in BOOLEAN /\ committed' \in BOOLEAN
      /\ resumeAvailable' \in BOOLEAN /\ preservePartial' \in BOOLEAN
  BY Zenon DEF Forget
<1>2. resumeOffset' = 0 /\ pos' = 0 /\ buf' = 0 /\ opt' = NoRequest /\ pc' = "idle"
  BY DEF Forget
<1> QED
  BY <1>1, <1>2, FileLenAssumption DEF Labels

(* Every step keeps the variables within their types and the file being    *)
(* written in existence.                                                   *)
LEMMA TypeStep ==
    TypeOK /\ OutputExists /\ [Next]_vars => TypeOK' /\ OutputExists'
<1> SUFFICES ASSUME TypeOK, OutputExists, [Next]_vars
             PROVE  TypeOK' /\ OutputExists'
  OBVIOUS
<1> USE FileLenAssumption
<1>0. /\ pc # "idle" => opt \in Options(AtomicOptions) /\ opt # NoRequest
      /\ pc # "idle" => path \in Paths
  BY OptionFields DEF TypeOK, path
<1>1. ASSUME NEW o \in Options(AtomicOptions), Prepare(o) PROVE TypeOK' /\ OutputExists'
  <2>1. WritePath(o) \in Paths /\ o # NoRequest
    BY <1>1, OptionFields, NoRequestAssumption
  <2>2. resumeAvailable' \in BOOLEAN
    BY <1>1 DEF Prepare, ResumeAccepted
  <2>3. resumeOffset' \in 0..FileLen
    BY <1>1, <2>1 DEF Prepare, ResumeAccepted, TypeOK, Checkpoint
  <2>4. TypeOK'
    BY <1>1, <2>1, <2>2, <2>3 DEF Prepare, TypeOK, disk, stream, Labels, Ends
  <2>5. resumeAvailable' => file[WritePath(o)] # NoFile
    BY <1>1 DEF Prepare, ResumeAccepted
  <2> QED
    BY <1>1, <2>4, <2>5 DEF Prepare, OutputExists, disk, path
<1>2. ASSUME ClearStaleState PROVE TypeOK' /\ OutputExists'
  <2>1. TypeOK'
    BY <1>0, <1>2 DEF ClearStaleState, TypeOK, flags, stream, history, Labels
  <2> QED
    BY <1>2, <2>1 DEF ClearStaleState, OutputExists, flags
<1>3. ASSUME ClearStalePart PROVE TypeOK' /\ OutputExists'
  <2>1. TypeOK'
    BY <1>0, <1>3 DEF ClearStalePart, TypeOK, flags, stream, history, Labels
  <2> QED
    BY <1>3, <2>1 DEF ClearStalePart, OutputExists, flags
<1>4. ASSUME DecideMode PROVE TypeOK' /\ OutputExists'
  <2>1. committed' \in BOOLEAN
    BY <1>4 DEF DecideMode
  <2>2. TypeOK'
    BY <1>0, <1>4, <2>1 DEF DecideMode, TypeOK, disk, stream, history, Labels
  <2> QED
    BY <1>4, <2>2 DEF DecideMode, OutputExists
<1>5. ASSUME OpenOutput PROVE TypeOK' /\ OutputExists'
  <2>1. path \in Paths /\ <<>> \in Seq(Block) /\ <<>> # NoFile
    <3>1. pc # "idle"
      BY <1>5 DEF OpenOutput
    <3>2. <<>> \in Seq(Block)
      OBVIOUS
    <3> QED
      BY <1>0, <3>1, <3>2, Sentinels
  <2>2. TypeOK'
    BY <1>0, <1>5, <2>1 DEF OpenOutput, TypeOK, flags, history, Labels
  <2>3. path' = path
    BY <1>5 DEF OpenOutput, path
  <2>4. file'[path] # NoFile
    BY <1>5, <2>1 DEF OpenOutput, OutputExists, TypeOK
  <2> QED
    BY <1>5, <2>2, <2>3, <2>4 DEF OpenOutput, OutputExists
<1>6. ASSUME WriteBlock PROVE TypeOK' /\ OutputExists'
  <2>1. TypeOK'
    BY <1>0, <1>6 DEF WriteBlock, TypeOK, disk, flags, history, Labels
  <2> QED
    BY <1>6, <2>1 DEF WriteBlock, OutputExists, disk, path
<1>7. ASSUME FlushBlock PROVE TypeOK' /\ OutputExists'
  <2>1. path \in Paths /\ opt.version \in Versions /\ path' = path
    BY <1>0, <1>7, OptionFields DEF FlushBlock, path
  <2>2. <<opt.version, pos - buf + 1>> \in Block
    BY <1>7, <2>1 DEF FlushBlock, TypeOK, Block
  <2>3. file[path] \in Seq(Block)
    BY <1>7, <2>1 DEF FlushBlock, TypeOK, OutputExists
  <2>4. file'[path] \in Seq(Block) /\ file'[path] # NoFile
    <3>1. file'[path] = Append(file[path], <<opt.version, pos - buf + 1>>)
      BY <1>7, <2>1 DEF FlushBlock, TypeOK
    <3>2. Append(file[path], <<opt.version, pos - buf + 1>>) \in Seq(Block)
      BY <2>2, <2>3
    <3> QED
      BY <3>1, <3>2, Sentinels
  <2>5. TypeOK'
    BY <1>0, <1>7, <2>1, <2>4 DEF FlushBlock, TypeOK, flags, history
  <2> QED
    BY <1>7, <2>1, <2>4, <2>5 DEF FlushBlock, OutputExists
<1>8. ASSUME BeginSaveState PROVE TypeOK' /\ OutputExists'
  <2>1. path \in Paths /\ opt.version \in Versions /\ path' = path
    BY <1>0, <1>8, OptionFields DEF BeginSaveState, path
  <2>2. PICK torn \in TornLoads([token |-> opt.version, bytes |-> pos]) :
            state' = [state EXCEPT ![path] = torn]
    BY <1>8 DEF BeginSaveState
  <2>3. torn \in Checkpoint \cup {Corrupt}
    BY <2>1, TornLoadsOf DEF TypeOK
  <2>4. TypeOK'
    BY <1>0, <1>8, <2>1, <2>2, <2>3
    DEF BeginSaveState, TypeOK, flags, stream, history, Labels
  <2> QED
    BY <1>8, <2>1, <2>4 DEF BeginSaveState, OutputExists
<1>9. ASSUME EndSaveState PROVE TypeOK' /\ OutputExists'
  <2>1. path \in Paths /\ opt.version \in Versions /\ path' = path
    BY <1>0, <1>9, OptionFields DEF EndSaveState, path
  <2>2. [token |-> opt.version, bytes |-> pos] \in Checkpoint
    BY <2>1 DEF TypeOK, Checkpoint
  <2>3. TypeOK'
    BY <1>0, <1>9, <2>1, <2>2 DEF EndSaveState, TypeOK, stream, history, Labels
  <2> QED
    BY <1>9, <2>1, <2>3 DEF EndSaveState, OutputExists
<1>10. ASSUME FailSaveState PROVE TypeOK' /\ OutputExists'
  <2>1. TypeOK'
    BY <1>0, <1>10 DEF FailSaveState, TypeOK, disk, flags, stream, history, Labels
  <2> QED
    BY <1>10, <2>1 DEF FailSaveState, OutputExists, disk, path
<1>11. ASSUME CloseOutput PROVE TypeOK' /\ OutputExists'
  <2>1. TypeOK'
    BY <1>0, <1>11 DEF CloseOutput, TypeOK, disk, flags, stream, history, Labels
  <2> QED
    BY <1>11, <2>1 DEF CloseOutput, OutputExists, disk, path
<1>12. ASSUME BeginCommit PROVE TypeOK' /\ OutputExists'
  <2>1. pc' \in {"clearResume", "end", "rename"} /\ pc # "idle"
    BY <1>12 DEF BeginCommit
  <2>2. TypeOK'
    BY <1>0, <1>12, <2>1
    DEF BeginCommit, TypeOK, disk, flags, stream, history, Labels
  <2> QED
    BY <2>1, <2>2 DEF OutputExists
<1>13. ASSUME RenameOver PROVE TypeOK' /\ OutputExists'
  <2>1. TypeOK'
    BY <1>0, <1>13 DEF RenameOver, TypeOK, flags, stream, history, Labels, Paths
  <2> QED
    BY <1>13, <2>1 DEF RenameOver, OutputExists
<1>14. ASSUME ClearAfterCommit PROVE TypeOK' /\ OutputExists'
  <2>0. committed' \in BOOLEAN /\ resumeAvailable' \in BOOLEAN
    BY <1>14, Zenon DEF ClearAfterCommit, TypeOK
  <2>1. TypeOK'
    BY <1>0, <1>14, <2>0 DEF ClearAfterCommit, TypeOK, stream, history, Labels
  <2> QED
    BY <1>14, <2>1 DEF ClearAfterCommit, OutputExists
<1>15. ASSUME Preserve PROVE TypeOK' /\ OutputExists'
  <2>1. kept' \in Checkpoint \cup {NoFile}
    BY <1>0, <1>15, OptionFields DEF Preserve, TypeOK, Checkpoint
  <2>2. TypeOK'
    BY <1>0, <1>15, <2>1 DEF Preserve, TypeOK, disk, stream, Labels
  <2> QED
    BY <1>15, <2>2 DEF Preserve, OutputExists
<1>16. ASSUME DiscardState PROVE TypeOK' /\ OutputExists'
  <2>0. resumeAvailable' \in BOOLEAN
    BY <1>16, Zenon DEF DiscardState, TypeOK
  <2>1. TypeOK'
    BY <1>0, <1>16, <2>0 DEF DiscardState, TypeOK, stream, history, Labels
  <2> QED
    BY <1>16, <2>1 DEF DiscardState, OutputExists
<1>17. ASSUME DiscardPart PROVE TypeOK' /\ OutputExists'
  <2>1. TypeOK'
    BY <1>0, <1>17 DEF DiscardPart, TypeOK, flags, stream, history, Labels
  <2> QED
    BY <1>17, <2>1 DEF DiscardPart, OutputExists
<1>18. ASSUME Abandon PROVE TypeOK' /\ OutputExists'
  <2>1. TypeOK'
    BY <1>0, <1>18 DEF Abandon, TypeOK, disk, flags, stream, history, Labels
  <2> QED
    BY <1>18, <2>1 DEF Abandon, OutputExists
<1>19. ASSUME CleanupDone PROVE TypeOK' /\ OutputExists'
  <2>0. Forget
    BY <1>19 DEF CleanupDone
  <2>1. TypeOK'
    BY <1>19, <2>0, ForgetType DEF CleanupDone, TypeOK, disk, Ends
  <2> QED
    BY <1>19, <2>1 DEF CleanupDone, Forget, OutputExists
<1>20. ASSUME CleanupPart PROVE TypeOK' /\ OutputExists'
  <2>1. TypeOK'
    BY <1>0, <1>20 DEF CleanupPart, TypeOK, flags, stream, Labels, Ends
  <2> QED
    BY <1>20, <2>1 DEF CleanupPart, OutputExists
<1>21. ASSUME CleanupState PROVE TypeOK' /\ OutputExists'
  <2>0. Forget
    BY <1>21 DEF CleanupState
  <2>1. TypeOK'
    BY <1>0, <1>21, <2>0, ForgetType DEF CleanupState, TypeOK, Ends
  <2> QED
    BY <1>21, <2>1 DEF CleanupState, Forget, OutputExists
<1>22. ASSUME Crash PROVE TypeOK' /\ OutputExists'
  <2>0. Forget
    BY <1>22 DEF Crash
  <2>1. TypeOK'
    BY <1>22, <2>0, ForgetType DEF Crash, TypeOK, disk, Ends
  <2> QED
    BY <1>22, <2>1 DEF Crash, Forget, OutputExists
<1>23. ASSUME ExternalCreate PROVE TypeOK' /\ OutputExists'
  <2>1. ForeignFile \in Seq(Block) /\ ForeignFile # NoFile
    BY ForeignContent
  <2>2. TypeOK'
    BY <1>23, <2>1 DEF ExternalCreate, TypeOK, flags, stream, history
  <2> QED
    BY <1>0, <1>23, <2>1, <2>2 DEF ExternalCreate, OutputExists, flags, path
<1>24. CASE UNCHANGED vars
  <2>1. TypeOK'
    BY <1>24 DEF vars, disk, flags, stream, history, TypeOK
  <2> QED
    BY <1>24, <2>1 DEF vars, disk, flags, OutputExists, path
<1> QED
  BY <1>1, <1>2, <1>3, <1>4, <1>5, <1>6, <1>7, <1>8, <1>9, <1>10, <1>11, <1>12,
     <1>13, <1>14, <1>15, <1>16, <1>17, <1>18, <1>19, <1>20, <1>21, <1>22, <1>23,
     <1>24
  DEF Next

LEMMA TypeInit == Init => TypeOK /\ OutputExists
<1> SUFFICES ASSUME Init PROVE TypeOK /\ OutputExists
  OBVIOUS
<1>1. file \in [Paths -> Seq(Block) \cup {NoFile}]
  BY ForeignContent DEF Init
<1>2. state \in [Paths -> Checkpoint \cup {NoFile, Corrupt}]
  BY DEF Init
<1>3. /\ finalExists \in BOOLEAN /\ committed \in BOOLEAN
      /\ resumeAvailable \in BOOLEAN /\ preservePartial \in BOOLEAN
      /\ ~resumeAvailable
  BY Zenon DEF Init
<1> QED
  BY <1>1, <1>2, <1>3, FileLenAssumption
  DEF Init, TypeOK, OutputExists, Labels, Ends

(* Type correctness: every variable keeps its type in every behaviour, and *)
(* no step of a session (a flush, an append) meets a missing output file.  *)
THEOREM TypeCorrect == Spec => [](TypeOK /\ OutputExists)
  BY TypeInit, TypeStep, PTL DEF Spec

(***************************************************************************)
(* The inductive invariant                                                 *)
(***************************************************************************)

(* The conjuncts of IInv other than the typing ones. *)
Agree ==
    /\ CheckpointVouchesForPart
    /\ PreparedAgrees
    /\ StreamAgrees
    /\ EndAgrees
    /\ NoLitter

(* Every step keeps the partial, its state file and the session in         *)
(* agreement.                                                              *)
LEMMA InvStep == IInv /\ [Next]_vars => IInv'
<1> SUFFICES ASSUME IInv, [Next]_vars PROVE IInv'
  OBVIOUS
<1> USE DEF AtomicSession, Part, PartState
<1>a. TypeOK /\ OutputExists /\ Agree
  BY DEF IInv, Agree
<1>b. TypeOK' /\ OutputExists'
  BY <1>a, TypeStep
<1>0. pc # "idle" => /\ opt \in Options(AtomicOptions) /\ opt.atomic \in BOOLEAN
                     /\ opt.version \in Versions
                     /\ path = IF opt.atomic THEN "part" ELSE "final"
  BY <1>a, OptionFields DEF TypeOK, path, WritePath
<1>c. AtomicOptions = {TRUE} /\ pc # "idle" => opt.atomic
  BY <1>0 DEF Options
<1>1. ASSUME NEW o \in Options(AtomicOptions), Prepare(o) PROVE Agree'
  <2>a. /\ o # NoRequest /\ opt' = o /\ o.version \in Versions /\ o.atomic \in BOOLEAN
        /\ pc = "idle" /\ pc' # "idle" /\ pc' \in {"ready", "clearState", "end"}
        /\ file' = file /\ state' = state /\ kept' = NoFile
        /\ resumeAvailable' <=> pc' = "ready"
    BY <1>1, OptionFields, NoRequestAssumption DEF Prepare, disk
  <2>c. resumeAvailable' => o.resume
    BY <1>1 DEF Prepare, ResumeAccepted
  <2>b. ASSUME o.atomic, pc' = "ready"
        PROVE  /\ Part = Prefix(o.version, resumeOffset')
               /\ PartState = [token |-> o.version, bytes |-> resumeOffset']
    <3>1. /\ Part # NoFile /\ PartState \in Checkpoint /\ PartState.token = o.version
          /\ Len(Part) = PartState.bytes /\ resumeOffset' = PartState.bytes
      BY <1>a, <1>1, <2>b DEF Prepare, ResumeAccepted, WritePath, TypeOK, Paths
    <3>2. PICK n \in 0..FileLen : Part = Prefix(o.version, n)
      BY <1>a, <2>a, <3>1 DEF Agree, CheckpointVouchesForPart
    <3>3. n = PartState.bytes
      BY <2>a, <3>1, <3>2, PrefixContent
    <3>4. PartState = [token |-> o.version, bytes |-> resumeOffset']
      BY <3>1 DEF Checkpoint
    <3> QED
      BY <3>1, <3>2, <3>3, <3>4
  <2>1. CheckpointVouchesForPart'
    BY <1>a, <1>b, <1>0, <1>c, <1>1, <2>a, <2>c, <2>b
    DEF Agree, CheckpointVouchesForPart
  <2>2. PreparedAgrees'
    BY <1>a, <1>b, <1>0, <1>c, <1>1, <2>a, <2>c, <2>b DEF PreparedAgrees
  <2>3. StreamAgrees'
    BY <1>a, <1>b, <1>0, <1>c, <1>1, <2>a, <2>c, <2>b DEF StreamAgrees
  <2>4. EndAgrees'
    BY <1>a, <1>b, <1>0, <1>c, <1>1, <2>a, <2>c, <2>b DEF Agree, Prepare, EndAgrees
  <2>5. NoLitter'
    BY <1>a, <1>b, <1>0, <1>c, <1>1, <2>a, <2>c, <2>b DEF NoLitter
  <2> QED
    BY <2>1, <2>2, <2>3, <2>4, <2>5 DEF Agree
<1>2. ASSUME ClearStaleState PROVE Agree'
  BY <1>a, <1>b, <1>0, <1>2, Sentinels
  DEF Agree, ClearStaleState, TypeOK, Paths, flags, history,
      CheckpointVouchesForPart, PreparedAgrees, StreamAgrees, EndAgrees, NoLitter
<1>3. ASSUME ClearStalePart PROVE Agree'
  BY <1>a, <1>b, <1>0, <1>3
  DEF Agree, ClearStalePart, TypeOK, Paths, flags, history,
      CheckpointVouchesForPart, PreparedAgrees, StreamAgrees, EndAgrees, NoLitter
<1>4. ASSUME DecideMode PROVE Agree'
  <2>a. pc = "decide" /\ opt' = opt /\ file' = file /\ state' = state /\ kept' = kept
    BY <1>4 DEF DecideMode, disk, history
  <2>b. committed' => pc' = "end"
    BY <1>4 DEF DecideMode
  <2>c. pc' \in {"end", "ready"} /\ preservePartial' = preservePartial
        /\ resumeAvailable' = resumeAvailable
    BY <1>4 DEF DecideMode
  <2>1. CheckpointVouchesForPart'
    BY <1>a, <1>b, <1>0, <1>c, <1>4, <2>a, <2>b, <2>c
    DEF Agree, CheckpointVouchesForPart
  <2>2. PreparedAgrees'
    BY <1>a, <1>b, <1>0, <1>c, <1>4, <2>a, <2>b, <2>c
    DEF Agree, OutputExists, PreparedAgrees
  <2>3. StreamAgrees'
    BY <1>a, <1>b, <1>0, <1>c, <1>4, <2>a, <2>b, <2>c DEF Agree, StreamAgrees
  <2>4. EndAgrees'
    BY <1>a, <1>b, <1>0, <1>c, <1>4, <2>a, <2>b, <2>c
    DEF Agree, PreparedAgrees, EndAgrees
  <2>5. NoLitter'
    BY <1>a, <1>b, <1>0, <1>c, <1>4, <2>a, <2>b, <2>c DEF NoLitter
  <2> QED
    BY <2>1, <2>2, <2>3, <2>4, <2>5 DEF Agree
<1>5. ASSUME OpenOutput PROVE Agree'
  <2>a. pc # "idle" /\ pc \in {"ready", "closed"}
    BY <1>5 DEF OpenOutput
  <2>b. opt.version \in Versions /\ <<>> = Prefix(opt.version, 0)
    BY <1>0, <2>a, PrefixEmpty
  <2>1. CheckpointVouchesForPart'
    BY <1>a, <1>b, <1>0, <1>c, <1>5, <2>a, <2>b, Sentinels, FileLenAssumption,
       VersionsAssumption
    DEF Agree, OpenOutput, CheckpointVouchesForPart, PreparedAgrees, StreamAgrees
  <2>2. PreparedAgrees'
    BY <1>a, <1>b, <1>0, <1>c, <1>5, <2>a, <2>b DEF OpenOutput, PreparedAgrees
  <2>3. StreamAgrees'
    BY <1>a, <1>b, <1>0, <1>c, <1>5, <2>a, <2>b, Sentinels
    DEF Agree, OpenOutput, TypeOK, flags, PreparedAgrees, StreamAgrees
  <2>4. EndAgrees'
    BY <1>a, <1>b, <1>0, <1>c, <1>5, <2>a, <2>b
    DEF Agree, OpenOutput, flags, history, EndAgrees
  <2>5. NoLitter'
    BY <1>a, <1>b, <1>0, <1>c, <1>5, <2>a, <2>b DEF OpenOutput, NoLitter
  <2> QED
    BY <2>1, <2>2, <2>3, <2>4, <2>5 DEF Agree
<1>6. ASSUME WriteBlock PROVE Agree'
  <2>a. /\ pc = "open" /\ pc' \in {"open", "save"} /\ opt' = opt
        /\ (pc' = "save" <=> opt.resume)
        /\ file' = file /\ state' = state /\ resumeAvailable' = resumeAvailable
    BY <1>0, <1>6 DEF WriteBlock, disk, flags
  <2>b. /\ pos' = pos + 1 /\ pos' - buf' = pos - buf
    BY <1>a, <1>6 DEF WriteBlock, TypeOK
  <2>1. CheckpointVouchesForPart'
    BY <1>a, <1>b, <1>0, <1>c, <1>6, <2>a, <2>b DEF Agree, CheckpointVouchesForPart
  <2>2. PreparedAgrees'
    BY <1>a, <1>b, <1>0, <1>c, <1>6, <2>a, <2>b DEF PreparedAgrees
  <2>3. StreamAgrees'
    BY <1>a, <1>b, <1>0, <1>c, <1>6, <2>a, <2>b DEF Agree, StreamAgrees
  <2>4. EndAgrees'
    BY <1>a, <1>b, <1>0, <1>c, <1>6, <2>a, <2>b
    DEF Agree, WriteBlock, flags, history, EndAgrees
  <2>5. NoLitter'
    BY <1>a, <1>b, <1>0, <1>c, <1>6, <2>a, <2>b DEF NoLitter
  <2> QED
    BY <2>1, <2>2, <2>3, <2>4, <2>5 DEF Agree
<1>7. ASSUME FlushBlock PROVE Agree'
  <2>a. pc # "idle" /\ opt.version \in Versions /\ pc' = pc /\ buf' = buf - 1
    BY <1>0, <1>7 DEF FlushBlock
  <2>b. opt.atomic => file'["part"] = Prefix(opt.version, pos - buf') /\ pos - buf' \in 0..FileLen
    <3>1. SUFFICES ASSUME opt.atomic
                   PROVE  file'["part"] = Prefix(opt.version, pos - buf') /\ pos - buf' \in 0..FileLen
      OBVIOUS
    <3>2. Part = Prefix(opt.version, pos - buf)
      BY <1>a, <1>7, <2>a, <3>1 DEF FlushBlock, Agree, StreamAgrees
    <3>3. file'["part"] = Append(Part, <<opt.version, pos - buf + 1>>)
      BY <1>a, <1>0, <1>7, <2>a, <3>1 DEF FlushBlock, TypeOK, Paths
    <3>4. pos - buf \in Nat /\ pos - buf < FileLen /\ pos - buf' = pos - buf + 1
      BY <1>a, <1>7, <2>a, FileLenAssumption DEF FlushBlock, TypeOK
    <3> QED
      BY <2>a, <3>2, <3>3, <3>4, PrefixAppend, FileLenAssumption
  <2>c. ~opt.atomic => file'["part"] = file["part"]
    BY <1>a, <1>0, <1>7, <2>a DEF FlushBlock
  <2>d. state' = state /\ opt' = opt /\ pos' = pos
    BY <1>7 DEF FlushBlock
  <2>1. CheckpointVouchesForPart'
    BY <1>a, <1>b, <1>0, <1>c, <1>7, <2>a, <2>b, <2>c, <2>d, VersionsAssumption
    DEF Agree, FlushBlock, CheckpointVouchesForPart, StreamAgrees
  <2>2. PreparedAgrees'
    BY <1>a, <1>b, <1>0, <1>c, <1>7, <2>a, <2>b, <2>c, <2>d
    DEF FlushBlock, PreparedAgrees
  <2>3. StreamAgrees'
    BY <1>a, <1>b, <1>0, <1>c, <1>7, <2>a, <2>b, <2>c, <2>d
    DEF Agree, FlushBlock, flags, StreamAgrees
  <2>4. EndAgrees'
    BY <1>a, <1>b, <1>0, <1>c, <1>7, <2>a, <2>b, <2>c, <2>d
    DEF Agree, FlushBlock, flags, history, EndAgrees
  <2>5. NoLitter'
    BY <1>a, <1>b, <1>0, <1>c, <1>7, <2>a, <2>b, <2>c, <2>d DEF NoLitter
  <2> QED
    BY <2>1, <2>2, <2>3, <2>4, <2>5 DEF Agree
<1>8. ASSUME BeginSaveState PROVE Agree'
  <2>a. pc = "save" /\ opt.version \in Versions
    BY <1>0, <1>8 DEF BeginSaveState
  <2>b. PICK torn \in TornLoads([token |-> opt.version, bytes |-> pos]) :
            state' = [state EXCEPT ![path] = torn]
    BY <1>8 DEF BeginSaveState
  <2>c. /\ torn \in Checkpoint \cup {Corrupt}
        /\ torn \in Checkpoint => torn.token \in {opt.version, NoToken}
    BY <1>a, <2>a, TornLoadsOf DEF TypeOK
  <2>d. IF opt.atomic THEN state'["part"] = torn ELSE state'["part"] = state["part"]
    BY <1>a, <1>0, <2>a, <2>b DEF TypeOK, Paths
  <2>e. pos - buf \in 0..FileLen /\ Corrupt \notin Checkpoint
    BY <1>a, Sentinels, FileLenAssumption DEF TypeOK
  <2>1. CheckpointVouchesForPart'
    BY <1>a, <1>b, <1>0, <1>c, <1>8, <2>a, <2>b, <2>c, <2>d, <2>e,
       VersionsAssumption
    DEF Agree, BeginSaveState, CheckpointVouchesForPart, StreamAgrees
  <2>2. PreparedAgrees'
    BY <1>a, <1>b, <1>0, <1>c, <1>8, <2>a, <2>b, <2>c, <2>d, <2>e
    DEF BeginSaveState, PreparedAgrees
  <2>3. StreamAgrees'
    BY <1>a, <1>b, <1>0, <1>c, <1>8, <2>a, <2>b, <2>c, <2>d, <2>e
    DEF Agree, BeginSaveState, stream, StreamAgrees
  <2>4. EndAgrees'
    BY <1>a, <1>b, <1>0, <1>c, <1>8, <2>a, <2>b, <2>c, <2>d, <2>e
    DEF Agree, BeginSaveState, flags, history, EndAgrees
  <2>5. NoLitter'
    BY <1>a, <1>b, <1>0, <1>c, <1>8, <2>a, <2>b, <2>c, <2>d, <2>e
    DEF BeginSaveState, NoLitter
  <2> QED
    BY <2>1, <2>2, <2>3, <2>4, <2>5 DEF Agree
<1>9. ASSUME EndSaveState PROVE Agree'
  <2>a. pc = "saving" /\ opt.version \in Versions
    BY <1>0, <1>9 DEF EndSaveState
  <2>b. IF opt.atomic THEN state'["part"] = [token |-> opt.version, bytes |-> pos]
                      ELSE state'["part"] = state["part"]
    BY <1>a, <1>0, <1>9, <2>a DEF EndSaveState, TypeOK, Paths
  <2>c. pos - buf \in 0..FileLen
    BY <1>a, FileLenAssumption DEF TypeOK
  <2>1. CheckpointVouchesForPart'
    BY <1>a, <1>b, <1>0, <1>c, <1>9, <2>a, <2>b, <2>c
    DEF Agree, EndSaveState, CheckpointVouchesForPart, StreamAgrees
  <2>2. PreparedAgrees'
    BY <1>a, <1>b, <1>0, <1>c, <1>9, <2>a, <2>b, <2>c
    DEF EndSaveState, PreparedAgrees
  <2>3. StreamAgrees'
    BY <1>a, <1>b, <1>0, <1>c, <1>9, <2>a, <2>b, <2>c
    DEF Agree, EndSaveState, stream, StreamAgrees
  <2>4. EndAgrees'
    BY <1>a, <1>b, <1>0, <1>c, <1>9, <2>a, <2>b, <2>c
    DEF Agree, EndSaveState, history, EndAgrees
  <2>5. NoLitter'
    BY <1>a, <1>b, <1>0, <1>c, <1>9, <2>a, <2>b, <2>c DEF EndSaveState, NoLitter
  <2> QED
    BY <2>1, <2>2, <2>3, <2>4, <2>5 DEF Agree
<1>10. ASSUME FailSaveState PROVE Agree'
  BY <1>a, <1>b, <1>0, <1>10
  DEF Agree, FailSaveState, disk, flags, stream, history, CheckpointVouchesForPart,
      PreparedAgrees, StreamAgrees, EndAgrees, NoLitter
<1>11. ASSUME CloseOutput PROVE Agree'
  BY <1>a, <1>b, <1>0, <1>11
  DEF Agree, CloseOutput, disk, flags, stream, history, CheckpointVouchesForPart,
      PreparedAgrees, StreamAgrees, EndAgrees, NoLitter
<1>12. ASSUME BeginCommit PROVE Agree'
  BY <1>a, <1>b, <1>0, <1>12
  DEF Agree, BeginCommit, disk, flags, stream, history, CheckpointVouchesForPart,
      PreparedAgrees, StreamAgrees, EndAgrees, NoLitter
<1>13. ASSUME RenameOver PROVE Agree'
  <2>1. CheckpointVouchesForPart'
    BY <1>a, <1>b, <1>0, <1>c, <1>13 DEF Agree, RenameOver, CheckpointVouchesForPart
  <2>2. PreparedAgrees'
    BY <1>a, <1>b, <1>0, <1>c, <1>13 DEF RenameOver, PreparedAgrees
  <2>3. StreamAgrees'
    BY <1>a, <1>b, <1>0, <1>c, <1>13 DEF Agree, RenameOver, flags, StreamAgrees
  <2>4. EndAgrees'
    BY <1>a, <1>b, <1>0, <1>c, <1>13
    DEF Agree, RenameOver, flags, history, EndAgrees
  <2>5. NoLitter'
    BY <1>a, <1>b, <1>0, <1>c, <1>13 DEF RenameOver, NoLitter
  <2> QED
    BY <2>1, <2>2, <2>3, <2>4, <2>5 DEF Agree
<1>14. ASSUME ClearAfterCommit PROVE Agree'
  BY <1>a, <1>b, <1>0, <1>14
  DEF Agree, ClearAfterCommit, TypeOK, Paths, history, CheckpointVouchesForPart,
      PreparedAgrees, StreamAgrees, EndAgrees, NoLitter
<1>15. ASSUME Preserve PROVE Agree'
  BY <1>a, <1>b, <1>0, <1>15
  DEF Agree, Preserve, TypeOK, disk, CheckpointVouchesForPart, PreparedAgrees,
      StreamAgrees, EndAgrees, NoLitter
<1>16. ASSUME DiscardState PROVE Agree'
  <2>1. CheckpointVouchesForPart'
    BY <1>a, <1>b, <1>0, <1>c, <1>16, Sentinels
    DEF Agree, DiscardState, TypeOK, Paths, CheckpointVouchesForPart
  <2>2. PreparedAgrees'
    BY <1>a, <1>b, <1>0, <1>c, <1>16 DEF DiscardState, PreparedAgrees
  <2>3. StreamAgrees'
    BY <1>a, <1>b, <1>0, <1>c, <1>16, Sentinels
    DEF Agree, DiscardState, TypeOK, Paths, stream, StreamAgrees
  <2>4. EndAgrees'
    BY <1>a, <1>b, <1>0, <1>c, <1>16 DEF Agree, DiscardState, history, EndAgrees
  <2>5. NoLitter'
    BY <1>a, <1>b, <1>0, <1>c, <1>16 DEF DiscardState, NoLitter
  <2> QED
    BY <2>1, <2>2, <2>3, <2>4, <2>5 DEF Agree
<1>17. ASSUME DiscardPart PROVE Agree'
  BY <1>a, <1>b, <1>0, <1>17
  DEF Agree, DiscardPart, TypeOK, Paths, flags, history, CheckpointVouchesForPart,
      PreparedAgrees, StreamAgrees, EndAgrees, NoLitter
<1>18. ASSUME Abandon PROVE Agree'
  BY <1>a, <1>b, <1>0, <1>18
  DEF Agree, Abandon, disk, flags, history, CheckpointVouchesForPart,
      PreparedAgrees, StreamAgrees, EndAgrees, NoLitter
<1>19. ASSUME CleanupDone PROVE Agree'
  <2>1. CheckpointVouchesForPart'
    BY <1>a, <1>b, <1>0, <1>c, <1>19
    DEF Agree, CleanupDone, disk, CheckpointVouchesForPart
  <2>2. PreparedAgrees'
    BY <1>a, <1>b, <1>0, <1>c, <1>19 DEF CleanupDone, PreparedAgrees, Forget
  <2>3. StreamAgrees'
    BY <1>a, <1>b, <1>0, <1>c, <1>19 DEF CleanupDone, StreamAgrees, Forget
  <2>4. EndAgrees'
    BY <1>a, <1>b, <1>0, <1>c, <1>19 DEF Agree, CleanupDone, disk, EndAgrees, Forget
  <2>5. NoLitter'
    BY <1>a, <1>b, <1>0, <1>c, <1>19
    DEF Agree, CleanupDone, disk, EndAgrees, NoLitter
  <2> QED
    BY <2>1, <2>2, <2>3, <2>4, <2>5 DEF Agree
<1>20. ASSUME CleanupPart PROVE Agree'
  BY <1>a, <1>b, <1>0, <1>20
  DEF Agree, CleanupPart, TypeOK, Paths, flags, CheckpointVouchesForPart,
      PreparedAgrees, StreamAgrees, EndAgrees, NoLitter
<1>21. ASSUME CleanupState PROVE Agree'
  <2>1. CheckpointVouchesForPart'
    BY <1>a, <1>b, <1>0, <1>c, <1>21, Sentinels
    DEF Agree, CleanupState, TypeOK, Paths, CheckpointVouchesForPart
  <2>2. PreparedAgrees'
    BY <1>a, <1>b, <1>0, <1>c, <1>21 DEF CleanupState, PreparedAgrees, Forget
  <2>3. StreamAgrees'
    BY <1>a, <1>b, <1>0, <1>c, <1>21 DEF CleanupState, StreamAgrees, Forget
  <2>4. EndAgrees'
    BY <1>a, <1>b, <1>0, <1>c, <1>21 DEF Agree, CleanupState, EndAgrees, Forget
  <2>5. NoLitter'
    BY <1>a, <1>b, <1>0, <1>c, <1>21
    DEF Agree, CleanupState, TypeOK, Paths, EndAgrees, NoLitter
  <2> QED
    BY <2>1, <2>2, <2>3, <2>4, <2>5 DEF Agree
<1>22. ASSUME Crash PROVE Agree'
  BY <1>a, <1>b, <1>0, <1>22
  DEF Agree, Crash, disk, CheckpointVouchesForPart, PreparedAgrees, StreamAgrees,
      EndAgrees, NoLitter, Forget
<1>23. ASSUME ExternalCreate PROVE Agree'
  <2>1. CheckpointVouchesForPart'
    BY <1>a, <1>b, <1>0, <1>c, <1>23
    DEF Agree, ExternalCreate, CheckpointVouchesForPart
  <2>2. PreparedAgrees'
    BY <1>a, <1>b, <1>0, <1>c, <1>23
    DEF Agree, ExternalCreate, flags, PreparedAgrees
  <2>3. StreamAgrees'
    BY <1>a, <1>b, <1>0, <1>c, <1>23
    DEF Agree, ExternalCreate, flags, stream, StreamAgrees
  <2>4. EndAgrees'
    BY <1>a, <1>b, <1>0, <1>c, <1>23
    DEF Agree, ExternalCreate, flags, history, EndAgrees
  <2>5. NoLitter'
    BY <1>a, <1>b, <1>0, <1>c, <1>23 DEF Agree, ExternalCreate, history, NoLitter
  <2> QED
    BY <2>1, <2>2, <2>3, <2>4, <2>5 DEF Agree
<1>24. ASSUME UNCHANGED vars PROVE Agree'
  <2>1. CheckpointVouchesForPart'
    BY <1>a, <1>24 DEF Agree, vars, disk, CheckpointVouchesForPart
  <2>2. PreparedAgrees'
    BY <1>a, <1>24 DEF Agree, vars, disk, flags, PreparedAgrees
  <2>3. StreamAgrees'
    BY <1>a, <1>24 DEF Agree, vars, disk, flags, stream, StreamAgrees
  <2>4. EndAgrees'
    BY <1>a, <1>24 DEF Agree, vars, disk, flags, history, EndAgrees
  <2>5. NoLitter'
    BY <1>a, <1>24 DEF Agree, vars, disk, history, NoLitter
  <2> QED
    BY <2>1, <2>2, <2>3, <2>4, <2>5 DEF Agree
<1>25. Agree'
  BY <1>1, <1>2, <1>3, <1>4, <1>5, <1>6, <1>7, <1>8, <1>9, <1>10, <1>11, <1>12,
     <1>13, <1>14, <1>15, <1>16, <1>17, <1>18, <1>19, <1>20, <1>21, <1>22, <1>23,
     <1>24
  DEF Next
<1> QED
  BY <1>b, <1>25 DEF IInv, Agree

LEMMA InvInit == Init => IInv
<1> SUFFICES ASSUME Init PROVE IInv
  OBVIOUS
<1>1. TypeOK /\ OutputExists
  BY TypeInit
<1>2. /\ ~committed /\ ~preservePartial /\ kept = NoFile /\ last = "none" /\ pc = "idle"
      /\ file["part"] = NoFile /\ state["part"] = NoFile
  BY Zenon DEF Init, Paths
<1>3. CheckpointVouchesForPart /\ PreparedAgrees /\ StreamAgrees /\ EndAgrees /\ NoLitter
  BY <1>2
  DEF CheckpointVouchesForPart, PreparedAgrees, StreamAgrees, EndAgrees, NoLitter,
      AtomicSession, Part
<1> QED
  BY <1>1, <1>3 DEF IInv

(* Every reachable disk and session agree, for any mix of options.  *)
THEOREM Invariant == Spec => []IInv
  BY InvInit, InvStep, PTL DEF Spec

(* When every session is atomic (the default of all callers), a resume     *)
(* that prepare_file_write accepts always continues a true prefix of the   *)
(* requested version.                                                      *)
THEOREM ResumeIsSound ==
    ASSUME AtomicOptions = {TRUE}
    PROVE  Spec => []ResumeSound
<1>1. IInv => ResumeSound
  <2>1. SUFFICES ASSUME IInv, pc = "ready", resumeAvailable
                 PROVE  file[path] = Prefix(opt.version, resumeOffset)
    BY DEF ResumeSound
  <2>2. opt \in Options(AtomicOptions)
    BY <2>1 DEF IInv, TypeOK
  <2>3. opt.atomic /\ path = "part"
    BY <2>2 DEF Options, path, WritePath
  <2> QED
    BY <2>1, <2>3 DEF IInv, PreparedAgrees, AtomicSession, Part
<1> QED
  BY <1>1, Invariant, PTL

(* A pause that closed its stream keeps exactly what the next session      *)
(* resumes from, whatever else happens at the destination meanwhile.       *)
THEOREM PreservedStaysResumable == Spec => []PreservedIsResumable
<1>1. IInv => PreservedIsResumable
  BY DEF IInv, EndAgrees, PreservedIsResumable, Part, PartState
<1> QED
  BY <1>1, Invariant, PTL

(* An atomic session that settles leaves nothing beside the destination.   *)
THEOREM SettledLeavesNoLitter == Spec => []NoLitter
<1>1. IInv => NoLitter
  BY DEF IInv
<1> QED
  BY <1>1, Invariant, PTL

(***************************************************************************)
(* Refinement                                                              *)
(***************************************************************************)

LEMMA PromiseInit == Init => Promise!AInit
  BY DEF Init, Promise!AInit, Paths

(* The partial that rename moves is the whole requested version.           *)
LEMMA RenamedIsWhole ==
    ASSUME IInv, pc = "rename", opt.atomic
    PROVE  file["part"] = Whole(opt.version)
<1>1. Part = Prefix(opt.version, pos - buf) /\ buf = 0 /\ pos = FileLen
  BY DEF IInv, StreamAgrees, AtomicSession
<1>2. pos - buf = FileLen
  BY <1>1, FileLenAssumption
<1> QED
  BY <1>1, <1>2 DEF Whole, Part

(* Each step begins or ends a request, installs the whole version, lets    *)
(* another program's file appear, or is invisible at the destination.      *)
LEMMA PromiseStep ==
    ASSUME AtomicOptions = {TRUE}, IInv, [Next]_vars
    PROVE  [Promise!ANext]_Promise!avars
<1> DEFINE req == IF pc = "idle" THEN NoRequest
                  ELSE [version |-> opt.version, mode |-> opt.mode]
           Invisible == file'["final"] = file["final"] /\ req' = req
<1>0. TypeOK
  BY DEF IInv
<1>a. pc # "idle" => /\ opt \in Options({TRUE}) /\ opt.atomic /\ path = "part"
  BY <1>0 DEF TypeOK, Options, path, WritePath
<1>b. \A o \in Options({TRUE}) : /\ [version |-> o.version, mode |-> o.mode] # NoRequest
                                 /\ [version |-> o.version, mode |-> o.mode] \in
                                        [version : Versions, mode : Modes]
  <2>1. SUFFICES ASSUME NEW o \in Options({TRUE})
                 PROVE  /\ [version |-> o.version, mode |-> o.mode] # NoRequest
                        /\ [version |-> o.version, mode |-> o.mode] \in
                               [version : Versions, mode : Modes]
    OBVIOUS
  <2>2. o.version \in Versions /\ o.mode \in Modes
    BY DEF Options
  <2>3. [version |-> o.version, mode |-> o.mode] \in [version : Versions, mode : Modes]
    BY <2>2
  <2> QED
    BY <2>3, NoRequestAssumption
<1> SUFFICES \/ pc = "idle" /\ pc' # "idle" /\ opt' \in Options({TRUE}) /\ file'["final"] = file["final"]
             \/ pc = "rename" /\ opt.atomic /\ RenameOver
             \/ pc # "idle" /\ pc' = "idle" /\ file'["final"] = file["final"]
             \/ ExternalCreate
             \/ Invisible
  <2>1. CASE pc = "idle" /\ pc' # "idle" /\ opt' \in Options({TRUE}) /\ file'["final"] = file["final"]
    <3>1. \E r \in [version : Versions, mode : Modes] : Promise!Begin(r)
      BY <1>b, <2>1 DEF Promise!Begin
    <3> QED
      BY <3>1 DEF Promise!ANext
  <2>2. CASE pc = "rename" /\ opt.atomic /\ RenameOver
    <3>1. req # NoRequest /\ req.version = opt.version /\ req.mode = opt.mode
      BY <1>a, <1>b, <2>2
    <3>2. req' = req
      BY <2>2 DEF RenameOver
    <3>3. CASE file' = file
      BY <3>2, <3>3 DEF Promise!avars
    <3>4. CASE /\ RenameReplaces \/ opt.mode = "Overwrite" \/ file["final"] = NoFile
               /\ file' = [final |-> file["part"], part |-> NoFile]
      <4>1. file'["final"] = Whole(opt.version)
        BY <2>2, <3>4, RenamedIsWhole
      <4> QED
        BY <3>1, <3>2, <3>4, <4>1 DEF Promise!Install, Promise!ANext
    <3> QED
      BY <2>2, <3>3, <3>4 DEF RenameOver
  <2>3. CASE pc # "idle" /\ pc' = "idle" /\ file'["final"] = file["final"]
    BY <1>a, <1>b, <2>3 DEF Promise!Finish, Promise!ANext
  <2>4. CASE ExternalCreate
    <3>1. file["final"] = NoFile /\ file'["final"] = ForeignFile /\ req' = req
      BY <1>0, <2>4 DEF ExternalCreate, TypeOK, Paths
    <3> QED
      BY <3>1 DEF Promise!Appear, Promise!ANext
  <2>5. CASE Invisible
    BY <2>5 DEF Promise!avars
  <2> QED
    BY <2>1, <2>2, <2>3, <2>4, <2>5
<1>1. ASSUME NEW o \in Options(AtomicOptions), Prepare(o)
      PROVE  pc = "idle" /\ pc' # "idle" /\ opt' \in Options({TRUE}) /\ file'["final"] = file["final"]
  BY <1>1 DEF Prepare, disk
<1>2. ASSUME ClearStaleState PROVE Invisible
  BY <1>a, <1>0, <1>2 DEF ClearStaleState
<1>3. ASSUME ClearStalePart PROVE Invisible
  BY <1>a, <1>0, <1>3 DEF ClearStalePart, TypeOK, Paths
<1>4. ASSUME DecideMode PROVE Invisible
  BY <1>a, <1>0, <1>4 DEF DecideMode, disk
<1>5. ASSUME OpenOutput PROVE Invisible
  BY <1>a, <1>0, <1>5 DEF OpenOutput
<1>6. ASSUME WriteBlock PROVE Invisible
  BY <1>a, <1>0, <1>6 DEF WriteBlock, disk
<1>7. ASSUME FlushBlock PROVE Invisible
  BY <1>a, <1>0, <1>7 DEF FlushBlock
<1>8. ASSUME BeginSaveState PROVE Invisible
  BY <1>a, <1>0, <1>8 DEF BeginSaveState
<1>9. ASSUME EndSaveState PROVE Invisible
  BY <1>a, <1>0, <1>9 DEF EndSaveState
<1>10. ASSUME FailSaveState PROVE Invisible
  BY <1>a, <1>0, <1>10 DEF FailSaveState, disk
<1>11. ASSUME CloseOutput PROVE Invisible
  BY <1>a, <1>0, <1>11 DEF CloseOutput, disk
<1>12. ASSUME BeginCommit PROVE Invisible
  BY <1>a, <1>0, <1>12 DEF BeginCommit, disk
<1>13. ASSUME ClearAfterCommit PROVE Invisible
  BY <1>a, <1>0, <1>13 DEF ClearAfterCommit
<1>14. ASSUME Preserve PROVE Invisible
  BY <1>a, <1>0, <1>14 DEF Preserve, disk
<1>15. ASSUME DiscardState PROVE Invisible
  BY <1>a, <1>0, <1>15 DEF DiscardState
<1>16. ASSUME DiscardPart PROVE Invisible
  BY <1>a, <1>0, <1>16 DEF DiscardPart, TypeOK, Paths
<1>17. ASSUME Abandon PROVE Invisible
  BY <1>a, <1>0, <1>17 DEF Abandon, disk
<1>18. ASSUME CleanupPart PROVE Invisible
  BY <1>a, <1>0, <1>18 DEF CleanupPart, TypeOK, Paths
<1>19. ASSUME RenameOver PROVE pc = "rename" /\ opt.atomic
  BY <1>a, <1>19 DEF RenameOver
<1>20. ASSUME CleanupDone PROVE pc # "idle" /\ pc' = "idle" /\ file'["final"] = file["final"]
  BY <1>20 DEF CleanupDone, Forget, disk
<1>21. ASSUME CleanupState PROVE pc # "idle" /\ pc' = "idle" /\ file'["final"] = file["final"]
  BY <1>21 DEF CleanupState, Forget
<1>22. ASSUME Crash PROVE pc # "idle" /\ pc' = "idle" /\ file'["final"] = file["final"]
  BY <1>22 DEF Crash, Forget, disk
<1>23. ASSUME UNCHANGED vars PROVE Invisible
  BY <1>23 DEF vars, disk
<1> QED
  BY <1>1, <1>2, <1>3, <1>4, <1>5, <1>6, <1>7, <1>8, <1>9, <1>10, <1>11, <1>12,
     <1>13, <1>14, <1>15, <1>16, <1>17, <1>18, <1>19, <1>20, <1>21, <1>22, <1>23
  DEF Next

(* When every session is atomic, the sequence of file system steps that    *)
(* prepare, stream, commit and clean up a session implements one atomic    *)
(* replacement of the destination, through crashes and other programs.     *)
THEOREM AtomicWritesAreAtomic ==
    ASSUME AtomicOptions = {TRUE}
    PROVE  Spec => ImplementsAtomicReplacement
<1>1. IInv /\ [Next]_vars => [Promise!ANext]_Promise!avars
  BY PromiseStep
<1> QED
  BY <1>1, PromiseInit, Invariant, PTL
  DEF Spec, ImplementsAtomicReplacement, Promise!ASpec

(***************************************************************************)
(* Sessions that write the destination in place                            *)
(***************************************************************************)

InPlaceParts == CheckpointVouchesForFinal /\ InPlaceAgrees /\ NoStaleState

(* What the session prepared from two files is what they hold.             *)
LEMMA InPlaceAccepted ==
    ASSUME TypeOK, CheckpointVouchesForFinal, NEW o \in Options({FALSE}),
           ResumeAccepted(o, Final, FinalState)
    PROVE  /\ Final = Prefix(o.version, FinalState.bytes)
           /\ FinalState = [token |-> o.version, bytes |-> FinalState.bytes]
<1>1. o.version \in Versions
  BY DEF Options
<1>2. /\ FinalState \in Checkpoint /\ FinalState.token = o.version
      /\ Len(Final) = FinalState.bytes
  BY DEF TypeOK, ResumeAccepted, Paths, FinalState
<1>3. PICK n \in 0..FileLen : Final = Prefix(o.version, n)
  BY <1>1, <1>2 DEF CheckpointVouchesForFinal
<1>4. n = FinalState.bytes
  BY <1>1, <1>2, <1>3, PrefixContent
<1> QED
  BY <1>2, <1>3, <1>4 DEF Checkpoint

LEMMA InPlaceStep ==
    ASSUME AtomicOptions = {FALSE}, TypeOK, OutputExists, InPlaceParts, [Next]_vars
    PROVE  InPlaceParts'
<1> USE FileLenAssumption DEF Final, FinalState
<1>a. CheckpointVouchesForFinal /\ InPlaceAgrees /\ NoStaleState
  BY DEF InPlaceParts
<1>0. pc # "idle" => /\ opt \in Options({FALSE}) /\ ~opt.atomic /\ opt.version \in Versions
                     /\ path = "final" /\ opt # NoRequest
  BY DEF TypeOK, path, WritePath, Options
<1>b. \A n \in 0..FileLen, v \in Versions : Prefix(v, n) # NoFile
  BY PrefixContent
<1>1. ASSUME NEW o \in Options(AtomicOptions), Prepare(o) PROVE InPlaceParts'
  <2>a. /\ pc = "idle" /\ pc' # "idle" /\ pc' \in {"ready", "clearState", "end"}
        /\ opt' = o /\ file' = file /\ state' = state
        /\ resumeAvailable' <=> pc' = "ready"
        /\ UNCHANGED <<committed, preservePartial>> /\ WritePath(o) = "final"
    BY <1>1 DEF Prepare, disk, WritePath, Options
  <2>b. ASSUME pc' = "ready"
        PROVE  /\ Final = Prefix(o.version, resumeOffset') /\ o.resume
               /\ FinalState = [token |-> o.version, bytes |-> resumeOffset']
    <3>1. ResumeAccepted(o, Final, FinalState) /\ resumeOffset' = FinalState.bytes
      BY <1>1, <2>a, <2>b DEF Prepare
    <3> QED
      BY <1>a, <3>1, InPlaceAccepted DEF ResumeAccepted
  <2>1. CheckpointVouchesForFinal'
    BY <1>a, <1>0, <1>b, <1>1, <2>a, <2>b DEF CheckpointVouchesForFinal
  <2>2. InPlaceAgrees'
    BY <1>a, <1>0, <1>b, <1>1, <2>a, <2>b DEF InPlaceAgrees
  <2>3. NoStaleState'
    BY <1>a, <1>0, <1>b, <1>1, <2>a, <2>b DEF NoStaleState
  <2> QED
    BY <2>1, <2>2, <2>3 DEF InPlaceParts
<1>2. ASSUME ClearStaleState PROVE InPlaceParts'
  <2>1. CheckpointVouchesForFinal'
    BY <1>a, <1>0, <1>b, <1>2, Sentinels
    DEF ClearStaleState, TypeOK, CheckpointVouchesForFinal
  <2>2. InPlaceAgrees'
    BY <1>a, <1>0, <1>b, <1>2
    DEF ClearStaleState, TypeOK, Paths, flags, InPlaceAgrees
  <2>3. NoStaleState'
    BY <1>a, <1>0, <1>b, <1>2 DEF ClearStaleState, NoStaleState
  <2> QED
    BY <2>1, <2>2, <2>3 DEF InPlaceParts
<1>3. ASSUME ClearStalePart PROVE InPlaceParts'
  <2>1. CheckpointVouchesForFinal'
    BY <1>a, <1>0, <1>b, <1>3 DEF ClearStalePart, CheckpointVouchesForFinal
  <2>2. InPlaceAgrees'
    BY <1>a, <1>0, <1>b, <1>3 DEF ClearStalePart, flags, InPlaceAgrees
  <2>3. NoStaleState'
    BY <1>a, <1>0, <1>b, <1>3 DEF ClearStalePart, NoStaleState
  <2> QED
    BY <2>1, <2>2, <2>3 DEF InPlaceParts
<1>4. ASSUME DecideMode PROVE InPlaceParts'
  <2>1. CheckpointVouchesForFinal'
    BY <1>a, <1>0, <1>b, <1>4 DEF DecideMode, disk, CheckpointVouchesForFinal
  <2>2. InPlaceAgrees'
    BY <1>a, <1>0, <1>b, <1>4 DEF DecideMode, OutputExists, disk, InPlaceAgrees
  <2>3. NoStaleState'
    BY <1>a, <1>0, <1>b, <1>4 DEF DecideMode, NoStaleState
  <2> QED
    BY <2>1, <2>2, <2>3 DEF InPlaceParts
<1>5. ASSUME OpenOutput PROVE InPlaceParts'
  <2>a. /\ pc \in {"ready", "closed"} /\ pc' = "open" /\ buf' = 0
        /\ state' = state /\ opt' = opt
        /\ UNCHANGED <<resumeAvailable, resumeOffset, committed, preservePartial>>
    BY <1>5 DEF OpenOutput, flags
  <2>b. /\ file'["final"] = Prefix(opt.version, pos')
        /\ resumeAvailable' => resumeOffset' = pos'
    <3>1. CASE resumeAvailable /\ resumeOffset > 0
      BY <1>a, <1>0, <1>5, <2>a, <3>1 DEF OpenOutput, InPlaceAgrees, TypeOK
    <3>2. CASE ~(resumeAvailable /\ resumeOffset > 0)
      <4>1. pos' = 0 /\ file'["final"] = <<>>
        BY <1>0, <1>5, <2>a, <3>2 DEF OpenOutput, TypeOK, Paths
      <4>2. resumeAvailable => resumeOffset = 0
        BY <3>2 DEF TypeOK
      <4> QED
        BY <1>0, <2>a, <4>1, <4>2, PrefixEmpty
    <3> QED
      BY <3>1, <3>2
  <2>c. state["final"] \in Checkpoint => state["final"].token \in {opt.version, NoToken}
    BY <1>a, <2>a, Sentinels DEF InPlaceAgrees
  <2>d. pos' - buf' = pos' /\ pos' \in 0..FileLen
    BY <1>5, <2>a DEF OpenOutput, TypeOK
  <2>1. CheckpointVouchesForFinal'
    BY <1>a, <1>0, <1>b, <1>5, <2>a, <2>b, <2>c, <2>d, VersionsAssumption
    DEF CheckpointVouchesForFinal
  <2>2. InPlaceAgrees'
    BY <1>a, <1>0, <1>b, <1>5, <2>a, <2>b, <2>c, <2>d DEF InPlaceAgrees
  <2>3. NoStaleState'
    BY <1>a, <1>0, <1>b, <1>5, <2>a, <2>b, <2>c, <2>d DEF NoStaleState
  <2> QED
    BY <2>1, <2>2, <2>3 DEF InPlaceParts
<1>6. ASSUME WriteBlock PROVE InPlaceParts'
  <2>a. /\ pc = "open" /\ pc' \in {"open", "save"} /\ opt' = opt
        /\ (pc' = "save" <=> opt.resume) /\ file' = file /\ state' = state
        /\ UNCHANGED <<resumeAvailable, resumeOffset, committed, preservePartial>>
        /\ pos' - buf' = pos - buf
    BY <1>0, <1>6 DEF WriteBlock, disk, flags, TypeOK
  <2>1. CheckpointVouchesForFinal'
    BY <1>a, <1>0, <1>b, <1>6, <2>a DEF CheckpointVouchesForFinal
  <2>2. InPlaceAgrees'
    BY <1>a, <1>0, <1>b, <1>6, <2>a DEF InPlaceAgrees
  <2>3. NoStaleState'
    BY <1>a, <1>0, <1>b, <1>6, <2>a DEF NoStaleState
  <2> QED
    BY <2>1, <2>2, <2>3 DEF InPlaceParts
<1>7. ASSUME FlushBlock PROVE InPlaceParts'
  <2>a. /\ pc \in {"open", "save", "saving", "broken"} /\ pc' = pc /\ buf' = buf - 1 /\ buf > 0
        /\ UNCHANGED <<state, opt, pos, resumeAvailable, resumeOffset, committed, preservePartial>>
    BY <1>7 DEF FlushBlock, flags
  <2>b. file'["final"] = Prefix(opt.version, pos' - buf') /\ pos' - buf' \in 0..FileLen
    <3>1. file["final"] = Prefix(opt.version, pos - buf)
      BY <1>a, <2>a DEF InPlaceAgrees
    <3>2. file'["final"] = Append(file["final"], <<opt.version, pos - buf + 1>>)
      BY <1>0, <1>7, <2>a DEF FlushBlock, TypeOK, Paths
    <3>3. pos - buf \in Nat /\ pos - buf < FileLen /\ pos' - buf' = pos - buf + 1
      BY <2>a DEF TypeOK
    <3>4. Append(Prefix(opt.version, pos - buf), <<opt.version, pos - buf + 1>>)
              = Prefix(opt.version, pos - buf + 1)
      BY <1>0, <2>a, <3>3, PrefixAppend
    <3> QED
      BY <3>1, <3>2, <3>3, <3>4
  <2>1. CheckpointVouchesForFinal'
    BY <1>a, <1>0, <1>b, <1>7, <2>a, <2>b, VersionsAssumption
    DEF CheckpointVouchesForFinal, InPlaceAgrees
  <2>2. InPlaceAgrees'
    BY <1>a, <1>0, <1>b, <1>7, <2>a, <2>b DEF InPlaceAgrees
  <2>3. NoStaleState'
    BY <1>a, <1>0, <1>b, <1>7, <2>a, <2>b DEF NoStaleState
  <2> QED
    BY <2>1, <2>2, <2>3 DEF InPlaceParts
<1>8. ASSUME BeginSaveState PROVE InPlaceParts'
  <2>a. /\ pc = "save" /\ pc' = "saving" /\ file' = file /\ opt' = opt
        /\ UNCHANGED <<resumeAvailable, resumeOffset, committed, preservePartial, pos, buf>>
    BY <1>8 DEF BeginSaveState, flags, stream
  <2>b. /\ state'["final"] \in Checkpoint \cup {Corrupt}
        /\ state'["final"] \in Checkpoint => state'["final"].token \in {opt.version, NoToken}
    <3>1. PICK torn \in TornLoads([token |-> opt.version, bytes |-> pos]) :
              state' = [state EXCEPT ![path] = torn]
      BY <1>8 DEF BeginSaveState
    <3>2. state'["final"] = torn
      BY <1>0, <2>a, <3>1 DEF TypeOK, Paths
    <3> QED
      BY <1>0, <2>a, <3>2, TornLoadsOf DEF TypeOK
  <2>c. pos - buf \in 0..FileLen
    BY DEF TypeOK
  <2>1. CheckpointVouchesForFinal'
    BY <1>a, <1>0, <1>b, <1>8, <2>a, <2>b, <2>c, VersionsAssumption
    DEF CheckpointVouchesForFinal, InPlaceAgrees
  <2>2. InPlaceAgrees'
    BY <1>a, <1>0, <1>b, <1>8, <2>a, <2>b, <2>c DEF InPlaceAgrees
  <2>3. NoStaleState'
    BY <1>a, <1>0, <1>b, <1>8, <2>a, <2>b, <2>c DEF NoStaleState
  <2> QED
    BY <2>1, <2>2, <2>3 DEF InPlaceParts
<1>9. ASSUME EndSaveState PROVE InPlaceParts'
  <2>a. /\ pc = "saving" /\ pc' = "open" /\ file' = file /\ opt' = opt
        /\ resumeOffset' = pos /\ pos' = pos /\ buf' = buf
        /\ UNCHANGED <<committed, preservePartial>>
        /\ state'["final"] = [token |-> opt.version, bytes |-> pos]
    BY <1>0, <1>9 DEF EndSaveState, stream, TypeOK, Paths
  <2>b. pos - buf \in 0..FileLen
    BY DEF TypeOK
  <2>1. CheckpointVouchesForFinal'
    BY <1>a, <1>0, <1>b, <1>9, <2>a, <2>b
    DEF CheckpointVouchesForFinal, InPlaceAgrees
  <2>2. InPlaceAgrees'
    BY <1>a, <1>0, <1>b, <1>9, <2>a, <2>b DEF InPlaceAgrees
  <2>3. NoStaleState'
    BY <1>a, <1>0, <1>b, <1>9, <2>a, <2>b DEF NoStaleState
  <2> QED
    BY <2>1, <2>2, <2>3 DEF InPlaceParts
<1>10. ASSUME FailSaveState PROVE InPlaceParts'
  <2>1. CheckpointVouchesForFinal'
    BY <1>a, <1>0, <1>b, <1>10 DEF FailSaveState, disk, CheckpointVouchesForFinal
  <2>2. InPlaceAgrees'
    BY <1>a, <1>0, <1>b, <1>10 DEF FailSaveState, disk, flags, stream, InPlaceAgrees
  <2>3. NoStaleState'
    BY <1>a, <1>0, <1>b, <1>10 DEF FailSaveState, NoStaleState
  <2> QED
    BY <2>1, <2>2, <2>3 DEF InPlaceParts
<1>11. ASSUME CloseOutput PROVE InPlaceParts'
  <2>1. CheckpointVouchesForFinal'
    BY <1>a, <1>0, <1>b, <1>11 DEF CloseOutput, disk, CheckpointVouchesForFinal
  <2>2. InPlaceAgrees'
    BY <1>a, <1>0, <1>b, <1>11 DEF CloseOutput, disk, flags, stream, InPlaceAgrees
  <2>3. NoStaleState'
    BY <1>a, <1>0, <1>b, <1>11 DEF CloseOutput, NoStaleState
  <2> QED
    BY <2>1, <2>2, <2>3 DEF InPlaceParts
<1>12. ASSUME BeginCommit PROVE InPlaceParts'
  <2>1. CheckpointVouchesForFinal'
    BY <1>a, <1>0, <1>b, <1>12 DEF BeginCommit, disk, CheckpointVouchesForFinal
  <2>2. InPlaceAgrees'
    BY <1>a, <1>0, <1>b, <1>12 DEF BeginCommit, flags, InPlaceAgrees
  <2>3. NoStaleState'
    BY <1>a, <1>0, <1>b, <1>12 DEF BeginCommit, NoStaleState
  <2> QED
    BY <2>1, <2>2, <2>3 DEF InPlaceParts
<1>13. ASSUME RenameOver PROVE InPlaceParts'
  <2>1. CheckpointVouchesForFinal'
    BY <1>a, <1>0, <1>b, <1>13 DEF RenameOver, InPlaceAgrees
  <2>2. InPlaceAgrees'
    BY <1>a, <1>0, <1>b, <1>13 DEF RenameOver, InPlaceAgrees
  <2>3. NoStaleState'
    BY <1>a, <1>0, <1>b, <1>13 DEF RenameOver, InPlaceAgrees
  <2> QED
    BY <2>1, <2>2, <2>3 DEF InPlaceParts
<1>14. ASSUME ClearAfterCommit PROVE InPlaceParts'
  <2>1. CheckpointVouchesForFinal'
    BY <1>a, <1>0, <1>b, <1>14, Sentinels
    DEF ClearAfterCommit, TypeOK, CheckpointVouchesForFinal
  <2>2. InPlaceAgrees'
    BY <1>a, <1>0, <1>b, <1>14 DEF ClearAfterCommit, TypeOK, Paths, InPlaceAgrees
  <2>3. NoStaleState'
    BY <1>a, <1>0, <1>b, <1>14 DEF ClearAfterCommit, NoStaleState
  <2> QED
    BY <2>1, <2>2, <2>3 DEF InPlaceParts
<1>15. ASSUME Preserve PROVE InPlaceParts'
  <2>1. CheckpointVouchesForFinal'
    BY <1>a, <1>0, <1>b, <1>15 DEF Preserve, disk, CheckpointVouchesForFinal
  <2>2. InPlaceAgrees'
    BY <1>a, <1>0, <1>b, <1>15 DEF Preserve, InPlaceAgrees
  <2>3. NoStaleState'
    BY <1>a, <1>0, <1>b, <1>15 DEF Preserve, NoStaleState
  <2> QED
    BY <2>1, <2>2, <2>3 DEF InPlaceParts
<1>16. ASSUME DiscardState PROVE InPlaceParts'
  <2>1. CheckpointVouchesForFinal'
    BY <1>a, <1>0, <1>b, <1>16, Sentinels
    DEF DiscardState, TypeOK, CheckpointVouchesForFinal
  <2>2. InPlaceAgrees'
    BY <1>a, <1>0, <1>b, <1>16, Sentinels
    DEF DiscardState, TypeOK, Paths, stream, InPlaceAgrees
  <2>3. NoStaleState'
    BY <1>a, <1>0, <1>b, <1>16 DEF DiscardState, NoStaleState
  <2> QED
    BY <2>1, <2>2, <2>3 DEF InPlaceParts
<1>17. ASSUME DiscardPart PROVE InPlaceParts'
  <2>1. CheckpointVouchesForFinal'
    BY <1>a, <1>0, <1>b, <1>17, Sentinels
    DEF DiscardPart, CheckpointVouchesForFinal, InPlaceAgrees
  <2>2. InPlaceAgrees'
    BY <1>a, <1>0, <1>b, <1>17 DEF DiscardPart, flags, InPlaceAgrees
  <2>3. NoStaleState'
    BY <1>a, <1>0, <1>b, <1>17 DEF DiscardPart, NoStaleState
  <2> QED
    BY <2>1, <2>2, <2>3 DEF InPlaceParts
<1>18. ASSUME Abandon PROVE InPlaceParts'
  <2>1. CheckpointVouchesForFinal'
    BY <1>a, <1>0, <1>b, <1>18 DEF Abandon, disk, CheckpointVouchesForFinal
  <2>2. InPlaceAgrees'
    BY <1>a, <1>0, <1>b, <1>18 DEF Abandon, flags, InPlaceAgrees
  <2>3. NoStaleState'
    BY <1>a, <1>0, <1>b, <1>18 DEF Abandon, NoStaleState
  <2> QED
    BY <2>1, <2>2, <2>3 DEF InPlaceParts
<1>19. ASSUME CleanupDone PROVE InPlaceParts'
  <2>a. pc' = "idle" /\ file' = file
    BY <1>19 DEF CleanupDone, Forget, disk
  <2>1. CheckpointVouchesForFinal'
    BY <1>a, <1>0, <1>b, <1>19, <2>a
    DEF CleanupDone, disk, CheckpointVouchesForFinal
  <2>2. InPlaceAgrees'
    BY <1>a, <1>0, <1>b, <1>19, <2>a DEF CleanupDone, Forget, InPlaceAgrees
  <2>3. NoStaleState'
    BY <1>a, <1>0, <1>b, <1>19, <2>a
    DEF CleanupDone, disk, InPlaceAgrees, NoStaleState
  <2> QED
    BY <2>1, <2>2, <2>3 DEF InPlaceParts
<1>20. ASSUME CleanupPart PROVE InPlaceParts'
  <2>1. CheckpointVouchesForFinal'
    BY <1>a, <1>0, <1>b, <1>20 DEF CleanupPart, CheckpointVouchesForFinal
  <2>2. InPlaceAgrees'
    BY <1>a, <1>0, <1>b, <1>20 DEF CleanupPart, flags, InPlaceAgrees
  <2>3. NoStaleState'
    BY <1>a, <1>0, <1>b, <1>20 DEF CleanupPart, NoStaleState
  <2> QED
    BY <2>1, <2>2, <2>3 DEF InPlaceParts
<1>21. ASSUME CleanupState PROVE InPlaceParts'
  <2>a. pc' = "idle" /\ file' = file
    BY <1>21 DEF CleanupState, Forget
  <2>1. CheckpointVouchesForFinal'
    BY <1>a, <1>0, <1>b, <1>21, <2>a, Sentinels
    DEF CleanupState, TypeOK, CheckpointVouchesForFinal
  <2>2. InPlaceAgrees'
    BY <1>a, <1>0, <1>b, <1>21, <2>a DEF CleanupState, Forget, InPlaceAgrees
  <2>3. NoStaleState'
    BY <1>a, <1>0, <1>b, <1>21, <2>a DEF CleanupState, TypeOK, Paths, NoStaleState
  <2> QED
    BY <2>1, <2>2, <2>3 DEF InPlaceParts
<1>22. ASSUME Crash PROVE InPlaceParts'
  <2>a. pc' = "idle" /\ file' = file
    BY <1>22 DEF Crash, Forget, disk
  <2>1. CheckpointVouchesForFinal'
    BY <1>a, <1>0, <1>b, <1>22, <2>a DEF Crash, disk, CheckpointVouchesForFinal
  <2>2. InPlaceAgrees'
    BY <1>a, <1>0, <1>b, <1>22, <2>a DEF Crash, Forget, InPlaceAgrees
  <2>3. NoStaleState'
    BY <1>a, <1>0, <1>b, <1>22, <2>a DEF Crash, NoStaleState
  <2> QED
    BY <2>1, <2>2, <2>3 DEF InPlaceParts
<1>23. ASSUME ExternalCreate PROVE InPlaceParts'
  <2>1. CheckpointVouchesForFinal'
    BY <1>a, <1>0, <1>b, <1>23 DEF ExternalCreate, CheckpointVouchesForFinal
  <2>2. InPlaceAgrees'
    BY <1>a, <1>0, <1>b, <1>23 DEF ExternalCreate, TypeOK, flags, InPlaceAgrees
  <2>3. NoStaleState'
    BY <1>a, <1>0, <1>b, <1>23 DEF ExternalCreate, history, NoStaleState
  <2> QED
    BY <2>1, <2>2, <2>3 DEF InPlaceParts
<1>24. ASSUME UNCHANGED vars PROVE InPlaceParts'
  BY <1>a, <1>24
  DEF InPlaceParts, CheckpointVouchesForFinal, InPlaceAgrees, NoStaleState, vars,
      disk, flags, stream, history
<1> QED
  BY <1>1, <1>2, <1>3, <1>4, <1>5, <1>6, <1>7, <1>8, <1>9, <1>10, <1>11, <1>12,
     <1>13, <1>14, <1>15, <1>16, <1>17, <1>18, <1>19, <1>20, <1>21, <1>22, <1>23,
     <1>24
  DEF Next

(* Init leaves no state file anywhere. *)
LEMMA InPlaceInit == Init => InPlaceInv
<1> SUFFICES ASSUME Init PROVE InPlaceInv
  OBVIOUS
<1>1. FinalState = NoFile
  BY DEF Init, FinalState, Paths
<1> QED
  BY <1>1, TypeInit, Sentinels
  DEF Init, InPlaceInv, CheckpointVouchesForFinal, InPlaceAgrees, NoStaleState

(* When every session writes in place, the destination and its state file  *)
(* stay in agreement with the session.                                     *)
THEOREM InPlaceInvariant == Spec => []InPlaceInv
<1>1. InPlaceInv /\ [Next]_vars => InPlaceInv'
  <2> SUFFICES ASSUME AtomicOptions = {FALSE}, InPlaceInv, [Next]_vars
               PROVE  (TypeOK /\ OutputExists)' /\ InPlaceParts'
    BY DEF InPlaceInv, InPlaceParts
  <2>1. TypeOK /\ OutputExists /\ InPlaceParts
    BY DEF InPlaceInv, InPlaceParts
  <2>2. (TypeOK /\ OutputExists)'
    BY <2>1, TypeStep
  <2>3. InPlaceParts'
    BY <2>1, InPlaceStep
  <2> QED
    BY <2>2, <2>3
<1> QED
  BY InPlaceInit, <1>1, PTL DEF Spec

(* What a resume in place continues is a prefix of the requested version.  *)
THEOREM InPlaceResumeIsSound ==
    ASSUME AtomicOptions = {FALSE}
    PROVE  Spec => []ResumeSound
<1>1. InPlaceInv => ResumeSound
  <2> SUFFICES ASSUME InPlaceInv, pc = "ready", resumeAvailable
               PROVE  file[path] = Prefix(opt.version, resumeOffset)
    BY DEF ResumeSound
  <2>1. opt \in Options({FALSE})
    BY DEF InPlaceInv, TypeOK
  <2>2. path = "final"
    BY <2>1 DEF path, WritePath, Options
  <2> QED
    BY <2>2 DEF InPlaceInv, InPlaceAgrees, Final
<1> QED
  BY <1>1, InPlaceInvariant, PTL

(* An in-place session that ends in order leaves no state file behind.     *)
THEOREM SettledLeavesNoState == Spec => []NoStaleState
<1>1. InPlaceInv => NoStaleState
  BY DEF InPlaceInv, NoStaleState
<1> QED
  BY <1>1, InPlaceInvariant, PTL

=============================================================================
