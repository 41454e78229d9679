--------------------------- MODULE DepotBatchProofs ---------------------------
(***************************************************************************)
(* Proofs about DepotBatch for any set of manifests, any number of entries *)
(* and any choice of directories among them.                               *)
(***************************************************************************)
EXTENDS DepotBatch, FiniteSetTheorems, TLAPS

(***************************************************************************)
(* Counting the files before an entry                                      *)
(***************************************************************************)

LEMMA FilesFinite == IsFiniteSet(Files) /\ Cardinality(Files) <= NFiles
<1>1. NFiles \in Nat
  BY BatchAssumption
<1>2. IsFiniteSet(1..NFiles) /\ Cardinality(1..NFiles) = NFiles
  BY <1>1, FS_Interval
<1>3. Files \in SUBSET (1..NFiles)
  BY DEF Files
<1> QED
  BY <1>2, <1>3, FS_Subset

LEMMA BeforeFinite ==
    ASSUME NEW n
    PROVE  /\ IsFiniteSet(Before(n))
           /\ Cardinality(Before(n)) \in 0..NFiles
<1>1. Before(n) \in SUBSET Files
  BY DEF Before
<1>2. IsFiniteSet(Before(n)) /\ Cardinality(Before(n)) <= Cardinality(Files)
  BY <1>1, FilesFinite, FS_Subset
<1>3. Cardinality(Before(n)) \in Nat /\ Cardinality(Files) \in Nat
  BY <1>2, FilesFinite, FS_CardinalityType
<1> QED
  BY <1>2, <1>3, FilesFinite, BatchAssumption

(* A file more lies before the entry after a file, none more before the    *)
(* entry after a directory: why bytes and file_index part.                 *)
LEMMA BeforeStep ==
    ASSUME NEW n \in 1..NFiles
    PROVE  Cardinality(Before(n + 1)) =
               Cardinality(Before(n)) + (IF n \in Files THEN 1 ELSE 0)
<1>0. NFiles \in Nat /\ Files \subseteq 1..NFiles
  BY BatchAssumption DEF Files
<1>1. CASE n \in Files
  <2>0. \A f \in Files : f \in Int /\ (f < n + 1 <=> f < n \/ f = n)
    BY <1>0
  <2>1. n \notin Before(n) /\ n \in Before(n + 1)
    BY <1>0, <1>1 DEF Before
  <2>2. ASSUME NEW f
        PROVE  f \in Before(n + 1) <=> f \in Before(n) \/ f = n
    BY <1>1, <2>0, <2>1 DEF Before
  <2>3. Before(n + 1) = Before(n) \cup {n}
    BY <2>2
  <2>4. Cardinality(Before(n) \cup {n}) = Cardinality(Before(n)) + 1
    BY <2>1, BeforeFinite, FS_AddElement
  <2> QED
    BY <1>1, <2>3, <2>4
<1>2. CASE n \notin Files
  <2>0. \A f \in Files : f \in Int /\ (f < n + 1 <=> f < n)
    BY <1>0, <1>2
  <2>1. Before(n + 1) = Before(n)
    BY <2>0 DEF Before
  <2> QED
    BY <1>2, <2>1, BeforeFinite
<1> QED
  BY <1>1, <1>2

LEMMA FilesAreEntries == NFiles \in Nat /\ Files \subseteq 1..NFiles
  BY BatchAssumption DEF Files

(***************************************************************************)
(* Steps                                                                   *)
(***************************************************************************)

LEMMA InitInvariant == Init => CoreInv
<1> SUFFICES ASSUME Init PROVE CoreInv
  OBVIOUS
<1>1. NFiles \in Nat /\ state \notin States
  BY BatchAssumption DEF Init, States
<1>2. lost \in BOOLEAN /\ blind \in BOOLEAN
  BY DEF Init
<1>3. TypeOK
  BY <1>1, <1>2 DEF Init, TypeOK
<1> QED
  BY <1>1, <1>3
  DEF Init, CoreInv, LocalsAgree, RunVouches, StateVouches, SucceededIsWhole,
      PausedKeepsPlace, ProgressWithinFiles

(* A run that ends leaves nothing in its locals that the invariant is      *)
(* about, but the verdict.                                                 *)
LEMMA EndLocals ==
    ASSUME TypeOK, NEW v \in {"succeeded", "canceled", "paused", "failed", "crashed"}, End(v)
    PROVE  /\ pc' = "idle" /\ verdict' = v
           /\ job' \in Jobs \cup {NoJob} /\ index' \in 1..NFiles + 1
           /\ resume' = 1 /\ bytes' = 0 /\ noticed' = "none" /\ wanted' = "none"
           /\ resume' \in 1..NFiles + 1 /\ bytes' \in 0..NFiles /\ blind' \in BOOLEAN
           /\ v \in {"succeeded", "paused"} => job' = job
           /\ v = "paused" => index' = index
           /\ LocalsAgree' /\ RunVouches'
<1>1. NFiles \in Nat
  BY BatchAssumption
<1>2. blind' \in BOOLEAN
  BY DEF End
<1> QED
  BY <1>1, <1>2 DEF End, TypeOK, LocalsAgree, RunVouches

(* What is vouched for stays so while nobody writes.                       *)
LEMMA StartStep ==
    ASSUME CoreInv, NEW j \in Jobs, Start(j)
    PROVE  CoreInv'
<1>0. lost' \in BOOLEAN
  BY Zenon DEF Start
<1>1. TypeOK'
  BY <1>0, BatchAssumption DEF CoreInv, TypeOK, Start, disks
<1>2. LocalsAgree' /\ RunVouches'
  BY DEF CoreInv, LocalsAgree, RunVouches, Start
<1>3. StateVouches' /\ ProgressWithinFiles'
  BY DEF CoreInv, StateVouches, ProgressWithinFiles, Vouched, Start, disks
<1> QED
  BY <1>1, <1>2, <1>3 DEF CoreInv, SucceededIsWhole, PausedKeepsPlace, Start

LEMMA InterruptStep ==
    ASSUME CoreInv, NEW kind \in Requests, Interrupt(kind)
    PROVE  CoreInv'
<1>1. TypeOK'
  BY DEF CoreInv, TypeOK, Interrupt, disks, run, history
<1> QED
  BY <1>1
  DEF CoreInv, Interrupt, disks, run, history, LocalsAgree, RunVouches, Dealt, Known,
      HasDone, StateVouches, SucceededIsWhole, PausedKeepsPlace,
      ProgressWithinFiles, Vouched

LEMMA OtherWriterStep ==
    ASSUME CoreInv, NEW f \in Files, NEW content \in Versions \cup {NoFile},
           OtherWriter(f, content)
    PROVE  CoreInv'
<1>1. TypeOK'
  BY DEF CoreInv, TypeOK, OtherWriter, run
<1>2. LocalsAgree' /\ RunVouches'
  BY DEF CoreInv, LocalsAgree, RunVouches, OtherWriter, run
<1>3. \A g \in Files : disk'[g] = disk[g] \/ g \in touched'
  BY DEF OtherWriter
<1>4. StateVouches' /\ SucceededIsWhole'
  BY <1>3 DEF CoreInv, StateVouches, SucceededIsWhole, Vouched, OtherWriter, run
<1> QED
  BY <1>1, <1>2, <1>4
  DEF CoreInv, PausedKeepsPlace, HasDone, ProgressWithinFiles, OtherWriter, run

(* A run that ends as anything but succeeded or paused, and leaves a state *)
(* that was there before or none that loads.                               *)
LEMMA EndedStep ==
    ASSUME CoreInv, NEW v \in {"canceled", "failed", "crashed"}, End(v),
           state' = state \/ state' \in {NoState, Corrupt},
           partial' \in [Files -> Versions \cup {NoFile}],
           UNCHANGED <<disk, skipped, touched>>, lost' \in BOOLEAN
    PROVE  CoreInv'
<1>1. TypeOK /\ NoState \notin States /\ Corrupt \notin States
  BY BatchAssumption DEF CoreInv, States
<1>2. TypeOK'
  BY <1>1, EndLocals DEF TypeOK
<1>3. StateVouches'
  BY <1>1 DEF CoreInv, StateVouches, Vouched
<1>4. ProgressWithinFiles'
  BY <1>1, EndLocals DEF CoreInv, ProgressWithinFiles
<1> QED
  BY <1>1, <1>2, <1>3, <1>4, EndLocals DEF CoreInv, SucceededIsWhole, PausedKeepsPlace

LEMMA CrashStep ==
    ASSUME CoreInv, Crash
    PROVE  CoreInv'
<1>1. partial' \in [Files -> Versions \cup {NoFile}]
  BY DEF CoreInv, Crash, TypeOK, LocalsAgree, Jobs
<1>2. state' = state \/ state' = Corrupt
  BY DEF Crash
<1>3. UNCHANGED <<disk, skipped, touched, lost>> /\ End("crashed")
  BY DEF Crash, history
<1>4. lost' \in BOOLEAN
  BY <1>3 DEF CoreInv, TypeOK
<1> QED
  BY <1>1, <1>2, <1>3, <1>4, EndedStep

(* The state that is taken over has next_file_index files vouched for.     *)
LEMMA LoadStep ==
    ASSUME CoreInv, Load
    PROVE  CoreInv'
<1>0. /\ TypeOK /\ LocalsAgree /\ StateVouches /\ SucceededIsWhole /\ PausedKeepsPlace
      /\ ProgressWithinFiles /\ pc = "load" /\ index = 1 /\ resume = 1 /\ bytes = 0
      /\ pc' = "next" /\ index' = 1 /\ job' = job /\ job \in Jobs
      /\ UNCHANGED <<disk, partial, noticed, wanted, verdict, skipped, touched, lost>>
      /\ NFiles \in Nat /\ NoState \notin States
  BY BatchAssumption DEF CoreInv, Load, LocalsAgree, history, States
<1>1. CASE TakeOver
  <2>1. /\ state \in States /\ state.token = job.version
        /\ resume' = state.next /\ bytes' = state.bytes /\ state' = state /\ blind' = blind
    BY <1>1 DEF TakeOver, Own
  <2>2. state.next \in 1..NFiles + 1 /\ state.bytes \in 0..NFiles
    BY <2>1 DEF States
  <2>3. TypeOK'
    BY <1>0, <2>1, <2>2 DEF TypeOK
  <2>4. Dealt' = state.next /\ Known' = state.next
    BY <1>0, <2>1, <2>2 DEF Dealt, Known
  <2>5. Vouched(job.version, state.next)'
    BY <1>0, <2>1 DEF StateVouches, Vouched
  <2>6. bytes' <= Cardinality(Before(state.next))
    BY <1>0, <2>1 DEF ProgressWithinFiles
  <2>7. RunVouches'
    BY <1>0, <2>1, <2>4, <2>5, <2>6 DEF RunVouches, HasDone
  <2>8. ProgressWithinFiles'
    <3>1. state.next = 1 \/ ~ (index' >= resume')
      BY <1>0, <2>1, <2>2
    <3> QED
      BY <1>0, <2>1, <2>6, <3>1 DEF ProgressWithinFiles
  <2> QED
    BY <1>0, <2>1, <2>3, <2>7, <2>8
    DEF CoreInv, LocalsAgree, StateVouches, SucceededIsWhole, PausedKeepsPlace, Vouched
<1>2. CASE StartOver /\ UNCHANGED bytes
  <2>1. resume' = 1 /\ bytes' = 0 /\ state' \in {NoState, state} /\ blind' = Own(state')
    BY <1>0, <1>2 DEF StartOver
  <2>2. TypeOK'
    <3>1. blind' \in BOOLEAN
      BY <2>1 DEF Own
    <3> QED
      BY <1>0, <2>1, <3>1 DEF TypeOK
  <2>3. Dealt' = 1 /\ Known' = 1
    BY <1>0, <2>1 DEF Dealt, Known
  <2>4. \A f \in Files : ~(f < 1)
    BY FilesAreEntries
  <2>5. Cardinality(Before(1)) >= 0
    BY BeforeFinite
  <2>6. RunVouches'
    BY <1>0, <2>1, <2>3, <2>4, <2>5 DEF RunVouches, Vouched, HasDone
  <2>7. StateVouches' /\ ProgressWithinFiles'
    BY <1>0, <2>1, <2>5 DEF StateVouches, ProgressWithinFiles, Vouched
  <2> QED
    BY <1>0, <2>1, <2>2, <2>6, <2>7
    DEF CoreInv, LocalsAgree, SucceededIsWhole, PausedKeepsPlace
<1> QED
  BY <1>1, <1>2 DEF Load

LEMMA PathFailsStep ==
    ASSUME CoreInv, PathFails
    PROVE  CoreInv'
  BY EndedStep DEF CoreInv, TypeOK, PathFails, disks, history

(* A run that is stopped as paused keeps its place in the batch state.     *)
LEMMA PausedStep ==
    ASSUME CoreInv, End("paused"), lost' \in BOOLEAN, UNCHANGED <<disk, skipped, touched>>,
           partial' \in [Files -> Versions \cup {NoFile}],
           state' \in States \cup {NoState, Corrupt},
           StateVouches', ProgressWithinFiles',
           ~lost' => HasDone(index)'
    PROVE  CoreInv'
<1>1. TypeOK /\ TypeOK'
  BY EndLocals DEF CoreInv, TypeOK
<1> QED
  BY <1>1, EndLocals DEF CoreInv, SucceededIsWhole, PausedKeepsPlace

LEMMA StopBetweenFilesStep ==
    ASSUME CoreInv, StopBetweenFiles
    PROVE  CoreInv'
<1>0. /\ TypeOK /\ pc = "next" /\ wanted \in Requests
      /\ UNCHANGED <<disk, partial, state, skipped, touched, lost>> /\ End(Said(wanted))
  BY DEF CoreInv, TypeOK, StopBetweenFiles, disks, history
<1>1. CASE wanted = "pause"
  <2>1. End("paused")
    BY <1>0, <1>1 DEF Said
  <2>2. HasDone(Known) /\ index <= Known
    BY <1>0 DEF CoreInv, RunVouches, TypeOK, Known
  <2>3. HasDone(index)
    <3>1. index \in Nat /\ Known \in Nat
      BY <1>0, FilesAreEntries DEF Known, TypeOK
    <3>2. \A f \in Files : f \in Nat /\ (f < index => f < Known)
      BY <2>2, <3>1, FilesAreEntries
    <3> QED
      BY <2>2, <3>2 DEF HasDone
  <2>4. HasDone(index)'
    BY <1>0, <2>1, <2>3, EndLocals DEF HasDone
  <2>5. StateVouches' /\ ProgressWithinFiles'
    BY <1>0, <2>1, EndLocals DEF CoreInv, StateVouches, ProgressWithinFiles, Vouched
  <2> QED
    BY <1>0, <2>1, <2>4, <2>5, PausedStep DEF TypeOK
<1>2. CASE wanted = "cancel"
  BY <1>0, <1>2, EndedStep DEF Said, TypeOK
<1> QED
  BY <1>0, <1>1, <1>2 DEF Requests

(* A directory is no file; a file before resume is among those the state   *)
(* was loaded with.                                                        *)
LEMMA PassOverStep ==
    ASSUME CoreInv, PassOver
    PROVE  CoreInv'
<1>0. /\ TypeOK /\ LocalsAgree /\ RunVouches /\ pc = "next" /\ pc' = "next"
      /\ index \in 1..NFiles /\ index' = index + 1 /\ NFiles \in Nat
      /\ index \in Directories \/ index < resume
      /\ UNCHANGED <<disk, partial, state, job, resume, bytes, blind, noticed, wanted, verdict,
                     skipped, touched, lost>>
  BY BatchAssumption DEF CoreInv, TypeOK, PassOver, disks, history
<1>1. TypeOK'
  BY <1>0 DEF TypeOK
<1>2. Dealt = Known /\ Dealt' = Known'
  BY <1>0 DEF Dealt
<1>3. Known' = Known \/ (Known = index /\ Known' = index + 1 /\ index \notin Files)
  BY <1>0 DEF Known, TypeOK, Files
<1>4. \A f \in Files : f < Known' <=> f < Known
  BY <1>0, <1>3, FilesAreEntries
<1>5. Before(Known') = Before(Known)
  BY <1>4 DEF Before
<1>6. RunVouches'
  BY <1>0, <1>2, <1>4, <1>5 DEF RunVouches, Vouched, HasDone
<1>7. index' >= resume' => Known' = index'
  BY <1>0 DEF Known, TypeOK
<1>8. ProgressWithinFiles'
  BY <1>0, <1>2, <1>5, <1>7 DEF CoreInv, RunVouches, ProgressWithinFiles
<1> QED
  BY <1>0, <1>1, <1>6, <1>8
  DEF CoreInv, LocalsAgree, StateVouches, SucceededIsWhole, PausedKeepsPlace, Vouched

LEMMA BeginFileStep ==
    ASSUME CoreInv, BeginFile
    PROVE  CoreInv'
<1>0. /\ TypeOK /\ LocalsAgree /\ RunVouches /\ pc = "next" /\ pc' = "file"
      /\ index \in Files /\ resume <= index
      /\ UNCHANGED <<disk, partial, state, job, index, resume, bytes, blind, noticed, wanted,
                     verdict, skipped, touched, lost>>
  BY DEF CoreInv, TypeOK, BeginFile, disks, history, Files
<1>1. TypeOK'
  BY <1>0 DEF TypeOK
<1>2. RunVouches'
  BY <1>0 DEF RunVouches, Dealt, Known, Vouched, HasDone
<1> QED
  BY <1>0, <1>1, <1>2
  DEF CoreInv, LocalsAgree, StateVouches, SucceededIsWhole, PausedKeepsPlace,
      ProgressWithinFiles, Vouched

(* The file of the run is in place: what others claim of it is marked as   *)
(* touched, what this run and a state of its own manifest claim holds.     *)
LEMMA InPlaceVouches ==
    ASSUME TypeOK, LocalsAgree, pc = "file", InPlace, UNCHANGED <<state, job, index>>
    PROVE  /\ disk' \in [Files -> Versions \cup {NoFile, Foreign}]
           /\ partial' \in [Files -> Versions \cup {NoFile}]
           /\ skipped' \subseteq Files /\ touched' \subseteq Files /\ lost' = lost
           /\ disk'[index] = job.version
           /\ \A n : Vouched(job.version, n) => Vouched(job.version, n)'
           /\ StateVouches => StateVouches'
<1>0. index \in Files /\ job.version \in Versions
  BY DEF LocalsAgree, Jobs
<1>1. /\ disk' = [disk EXCEPT ![index] = job.version]
      /\ partial' = [partial EXCEPT ![index] = NoFile]
      /\ skipped' = skipped \ {index} /\ lost' = lost
      /\ touched' = IF Claimed(index, job.version) THEN touched \cup {index}
                                                   ELSE touched \ {index}
  BY DEF InPlace
<1>2. disk'[index] = job.version /\ \A f \in Files \ {index} : disk'[f] = disk[f]
  BY <1>0, <1>1 DEF TypeOK
<1>3. \A f \in Files \ {index} : f \in skipped \cup touched => f \in skipped' \cup touched'
  BY <1>1
<1>4. ASSUME NEW n, Vouched(job.version, n)
      PROVE  Vouched(job.version, n)'
  BY <1>2, <1>3, <1>4 DEF Vouched
<1>5. ASSUME StateVouches, state \in States
      PROVE  Vouched(state.token, state.next)'
  <2>1. index < state.next => state.token = job.version \/ index \in touched'
    BY <1>1, <1>5 DEF Claimed
  <2> QED
    BY <1>2, <1>3, <1>5, <2>1 DEF StateVouches, Vouched
<1>6. StateVouches => StateVouches'
  BY <1>5 DEF StateVouches
<1> QED
  BY <1>0, <1>1, <1>2, <1>4, <1>6 DEF TypeOK

(* A file that is done joins those before Dealt, and the count of bytes.   *)
LEMMA FileDoneStep ==
    ASSUME CoreInv, FileDone
    PROVE  CoreInv'
<1>0. /\ TypeOK /\ LocalsAgree /\ RunVouches /\ pc = "file" /\ pc' = "save" /\ InPlace
      /\ index \in Files /\ index \in 1..NFiles /\ NFiles \in Nat /\ resume <= index
      /\ bytes' = bytes + 1
      /\ UNCHANGED <<state, job, index, resume, blind, noticed, wanted, verdict>>
  BY FilesAreEntries DEF CoreInv, LocalsAgree, FileDone
<1>1. Known = index /\ Known' = index /\ Dealt = index /\ Dealt' = index + 1
  BY <1>0 DEF Known, Dealt, TypeOK
<1>2. /\ disk' \in [Files -> Versions \cup {NoFile, Foreign}]
      /\ partial' \in [Files -> Versions \cup {NoFile}]
      /\ skipped' \subseteq Files /\ touched' \subseteq Files /\ lost' = lost
      /\ disk'[index] = job.version
      /\ Vouched(job.version, index)' /\ StateVouches'
  BY <1>0, <1>1, InPlaceVouches DEF CoreInv, RunVouches
<1>3. Vouched(job.version, index + 1)'
  BY <1>0, <1>2 DEF Vouched
<1>4. /\ bytes <= Cardinality(Before(index))
      /\ Cardinality(Before(index + 1)) = Cardinality(Before(index)) + 1
      /\ Cardinality(Before(index)) \in 0..NFiles
      /\ Cardinality(Before(index + 1)) \in 0..NFiles
  BY <1>0, <1>1, BeforeStep, BeforeFinite DEF RunVouches
<1>5. bytes' <= Cardinality(Before(index + 1)) /\ bytes' \in 0..NFiles
  BY <1>0, <1>4 DEF TypeOK
<1>6. TypeOK'
  BY <1>0, <1>2, <1>5 DEF TypeOK
<1>7. RunVouches'
  BY <1>0, <1>1, <1>3, <1>5 DEF RunVouches, HasDone
<1> QED
  BY <1>0, <1>2, <1>6, <1>7
  DEF CoreInv, LocalsAgree, SucceededIsWhole, PausedKeepsPlace, ProgressWithinFiles

LEMMA FileSkippedStep ==
    ASSUME CoreInv, FileSkipped
    PROVE  CoreInv'
<1>0. /\ TypeOK /\ LocalsAgree /\ RunVouches /\ pc = "file" /\ pc' = "save"
      /\ index \in Files /\ index \in 1..NFiles /\ NFiles \in Nat /\ resume <= index
      /\ partial' = [partial EXCEPT ![index] = NoFile]
      /\ skipped' = skipped \cup {index}
      /\ UNCHANGED <<disk, state, job, index, resume, bytes, blind, noticed, wanted, verdict,
                     touched, lost>>
  BY FilesAreEntries DEF CoreInv, LocalsAgree, FileSkipped
<1>1. Known = index /\ Known' = index /\ Dealt = index /\ Dealt' = index + 1
  BY <1>0 DEF Known, Dealt, TypeOK
<1>2. TypeOK'
  BY <1>0 DEF TypeOK
<1>3. Vouched(job.version, index + 1)'
  <2>1. \A f \in Files : f < index + 1 => f < index \/ f = index
    BY <1>0
  <2>2. Vouched(job.version, index)
    BY <1>0, <1>1 DEF RunVouches
  <2> QED
    BY <1>0, <2>1, <2>2 DEF Vouched
<1>4. bytes <= Cardinality(Before(index + 1))
  <2>1. /\ bytes <= Cardinality(Before(index)) /\ bytes \in Nat
        /\ Cardinality(Before(index + 1)) = Cardinality(Before(index)) + 1
        /\ Cardinality(Before(index)) \in 0..NFiles
    BY <1>0, <1>1, BeforeStep, BeforeFinite DEF RunVouches, TypeOK
  <2> QED
    BY <1>0, <2>1
<1>5. RunVouches'
  BY <1>0, <1>1, <1>3, <1>4 DEF RunVouches, HasDone
<1>6. StateVouches'
  BY <1>0 DEF CoreInv, StateVouches, Vouched
<1> QED
  BY <1>0, <1>2, <1>5, <1>6
  DEF CoreInv, LocalsAgree, SucceededIsWhole, PausedKeepsPlace, ProgressWithinFiles

LEMMA FileFailsStep ==
    ASSUME CoreInv, FileFails
    PROVE  CoreInv'
<1>0. /\ TypeOK /\ LocalsAgree /\ RunVouches /\ pc = "file" /\ pc' = "leave"
      /\ index \in Files /\ resume <= index /\ noticed' \in Requests \cup {"none"}
      /\ UNCHANGED <<state, job, index, resume, bytes, blind, wanted, verdict>>
  BY DEF CoreInv, TypeOK, LocalsAgree, FileFails, Requests
<1>1. Known = index /\ Known' = index /\ Dealt = index /\ Dealt' = index
  BY <1>0 DEF Known, Dealt, TypeOK
<1>2. /\ disk' \in [Files -> Versions \cup {NoFile, Foreign}]
      /\ partial' \in [Files -> Versions \cup {NoFile}]
      /\ skipped' \subseteq Files /\ touched' \subseteq Files /\ lost' = lost
      /\ Vouched(job.version, index)' /\ StateVouches'
  <2>1. CASE InPlace
    BY <1>0, <1>1, <2>1, InPlaceVouches DEF CoreInv, RunVouches
  <2>2. CASE ~InPlace
    <3>1. /\ partial' \in [Files -> Versions \cup {NoFile}]
          /\ UNCHANGED <<disk, skipped, touched, lost>>
      BY <1>0, <2>2 DEF FileFails, history, TypeOK, LocalsAgree, Jobs
    <3> QED
      BY <1>0, <1>1, <3>1 DEF CoreInv, TypeOK, RunVouches, StateVouches, Vouched
  <2> QED
    BY <2>1, <2>2
<1>3. TypeOK'
  BY <1>0, <1>2 DEF TypeOK
<1>4. RunVouches'
  BY <1>0, <1>1, <1>2 DEF RunVouches, HasDone
<1> QED
  BY <1>0, <1>2, <1>3, <1>4
  DEF CoreInv, LocalsAgree, SucceededIsWhole, PausedKeepsPlace, ProgressWithinFiles

(* What a run may save about the entries before n.                         *)
LEMMA SavedState ==
    ASSUME CoreInv, NEW n \in 1..NFiles + 1, pc # "idle",
           state' = [token |-> job.version, next |-> n, bytes |-> bytes],
           Vouched(job.version, n), bytes <= Cardinality(Before(n)),
           UNCHANGED <<disk, skipped, touched>>
    PROVE  /\ state' \in States /\ state'.token = job.version /\ state'.next = n
           /\ StateVouches'
           /\ state' \in States => state'.bytes <= Cardinality(Before(state'.next))
<1>1. job \in Jobs /\ bytes \in 0..NFiles
  BY DEF CoreInv, LocalsAgree, TypeOK
<1>2. /\ state' \in States /\ state'.token = job.version
      /\ state'.next = n /\ state'.bytes = bytes
  BY <1>1 DEF States, Jobs
<1>3. StateVouches'
  BY <1>2 DEF StateVouches, Vouched
<1> QED
  BY <1>2, <1>3

LEMMA LeaveStateStep ==
    ASSUME CoreInv, LeaveState
    PROVE  CoreInv'
<1>0. /\ TypeOK /\ LocalsAgree /\ RunVouches /\ pc = "leave" /\ End(Said(noticed))
      /\ index \in Files /\ index \in 1..NFiles + 1 /\ resume <= index
      /\ UNCHANGED <<disk, partial, skipped, touched>>
      /\ NoState \notin States /\ Corrupt \notin States
  BY BatchAssumption DEF CoreInv, LocalsAgree, LeaveState, TypeOK, States
<1>1. Known = index /\ Dealt = index
  BY <1>0 DEF Known, Dealt, TypeOK
<1>2. /\ state' \in States \cup {NoState, Corrupt}
      /\ StateVouches' /\ (state' \in States => state'.bytes <= Cardinality(Before(state'.next)))
      /\ Said(noticed) = "paused" /\ ~lost' => HasDone(index)'
      /\ lost' \in BOOLEAN
  <2>0. Said(noticed) = "paused" => noticed = "pause" /\ job' = job /\ index' = index
    <3>1. Said(noticed) = "paused" => noticed = "pause"
      BY <1>0 DEF Said, TypeOK, Requests
    <3>2. Said(noticed) = "paused" => job' = job /\ index' = index
      BY <1>0, EndLocals
    <3> QED
      BY <3>1, <3>2
  <2>1. lost' \in BOOLEAN
    BY <1>0 DEF LeaveState, Overtaken, TypeOK
  <2>2. CASE wanted = "pause" /\ state' = [token |-> job.version, next |-> index, bytes |-> bytes]
    <3>1. /\ state' \in States /\ StateVouches'
          /\ state' \in States => state'.bytes <= Cardinality(Before(state'.next))
          /\ state'.token = job.version /\ state'.next = index
      <4>1. Vouched(job.version, index) /\ bytes <= Cardinality(Before(index)) /\ pc # "idle"
        BY <1>0, <1>1 DEF RunVouches
      <4> QED
        BY <1>0, <2>2, <4>1, SavedState
    <3> QED
      BY <2>0, <2>1, <3>1 DEF HasDone
  <2>3. CASE state' \in {state, NoState, Corrupt} /\ (noticed = "pause" => lost')
    BY <1>0, <2>0, <2>1, <2>3 DEF CoreInv, TypeOK, StateVouches, Vouched, ProgressWithinFiles
  <2>4. CASE state' = state
    BY <1>0, <1>1, <2>0, <2>1, <2>4
    DEF CoreInv, TypeOK, StateVouches, Vouched, ProgressWithinFiles, RunVouches, HasDone
  <2>5. CASE wanted = "pause" /\ state' \in {state, Corrupt} /\ lost' = (noticed # "none")
    BY <2>3, <2>5
  <2>6. CASE wanted = "cancel" /\ state' = NoState /\ lost' = Overtaken
    BY <2>3, <2>6 DEF Overtaken, Requests
  <2> QED
    BY <2>2, <2>4, <2>5, <2>6 DEF LeaveState
<1>3. Said(noticed) \in {"paused", "canceled", "failed"}
  BY <1>0 DEF Said, TypeOK, Requests
<1>4. ProgressWithinFiles' /\ partial' \in [Files -> Versions \cup {NoFile}]
  BY <1>0, <1>2, <1>3, EndLocals DEF ProgressWithinFiles, TypeOK
<1>5. CASE Said(noticed) = "paused"
  <2>1. index' = index
    BY <1>0, <1>5, EndLocals
  <2> QED
    BY <1>0, <1>2, <1>4, <1>5, <2>1, PausedStep
<1>6. CASE Said(noticed) # "paused"
  <2>1. PICK v \in {"canceled", "failed"} : End(v)
    BY <1>0, <1>3, <1>6
  <2>2. TypeOK'
    BY <1>0, <1>2, <2>1, EndLocals DEF TypeOK
  <2> QED
    BY <1>0, <1>2, <1>4, <2>1, <2>2, EndLocals
    DEF CoreInv, SucceededIsWhole, PausedKeepsPlace
<1> QED
  BY <1>5, <1>6

LEMMA SaveStateStep ==
    ASSUME CoreInv, SaveState
    PROVE  CoreInv'
<1>0. /\ TypeOK /\ LocalsAgree /\ RunVouches /\ pc = "save" /\ pc' = "next"
      /\ index \in 1..NFiles /\ NFiles \in Nat /\ resume <= index /\ index' = index + 1
      /\ blind' = FALSE
      /\ state' = [token |-> job.version, next |-> index + 1, bytes |-> bytes]
      /\ UNCHANGED <<disk, partial, job, resume, bytes, noticed, wanted, verdict,
                     skipped, touched, lost>>
  BY FilesAreEntries DEF CoreInv, LocalsAgree, SaveState, history
<1>1. Dealt = index + 1 /\ Dealt' = index + 1 /\ Known' = index + 1 /\ index + 1 \in 1..NFiles + 1
  BY <1>0 DEF Known, Dealt, TypeOK
<1>2. Vouched(job.version, index + 1) /\ bytes <= Cardinality(Before(index + 1))
  BY <1>0, <1>1 DEF RunVouches
<1>3. /\ state' \in States /\ state'.token = job.version /\ state'.next = index + 1
      /\ StateVouches' /\ state'.bytes <= Cardinality(Before(state'.next))
  BY <1>0, <1>1, <1>2, SavedState
<1>4. TypeOK'
  BY <1>0, <1>1, <1>3 DEF TypeOK
<1>5. RunVouches'
  BY <1>0, <1>1, <1>2, <1>3 DEF RunVouches, Vouched, HasDone
<1> QED
  BY <1>0, <1>2, <1>3, <1>4, <1>5
  DEF CoreInv, LocalsAgree, SucceededIsWhole, PausedKeepsPlace, ProgressWithinFiles

LEMMA SaveFailsStep ==
    ASSUME CoreInv, SaveFails
    PROVE  CoreInv'
  BY EndedStep DEF CoreInv, TypeOK, SaveFails, history

(* The loop has come to its end: every file is before index.               *)
LEMMA FinishStep ==
    ASSUME CoreInv, Finish
    PROVE  CoreInv'
<1>1. NFiles \in Nat /\ NoState \notin States
  BY BatchAssumption DEF States
<1>2. pc = "next" /\ ~(index <= NFiles)
  BY <1>1 DEF CoreInv, TypeOK, Finish
<1>3. /\ TypeOK /\ RunVouches /\ pc = "next" /\ ~(index <= NFiles)
      /\ UNCHANGED <<disk, partial, skipped, touched, lost>>
      /\ NFiles \in Nat /\ NoState \notin States
  BY <1>1, <1>2 DEF CoreInv, Finish, history
<1>4. CASE state' = NoState /\ End("succeeded")
  <2>1. TypeOK'
    BY <1>3, <1>4, EndLocals DEF TypeOK
  <2>2. Vouched(job.version, NFiles + 1)
    <3>1. \A f \in Files : f < NFiles + 1 => f < Dealt
      BY <1>3 DEF Dealt, Known, TypeOK
    <3> QED
      BY <1>3, <3>1 DEF RunVouches, Vouched
  <2>3. SucceededIsWhole'
    BY <1>3, <1>4, <2>2, EndLocals DEF SucceededIsWhole, Vouched
  <2> QED
    BY <1>3, <1>4, <2>1, <2>3, EndLocals
    DEF CoreInv, StateVouches, PausedKeepsPlace, ProgressWithinFiles
<1>5. CASE End("failed") /\ UNCHANGED state
  BY <1>3, <1>5, EndedStep DEF TypeOK
<1> QED
  BY <1>4, <1>5 DEF Finish

LEMMA InductiveStep == CoreInv /\ [Next]_vars => CoreInv'
<1> SUFFICES ASSUME CoreInv, [Next]_vars PROVE CoreInv'
  OBVIOUS
<1>1. ASSUME NEW j \in Jobs, Start(j) PROVE CoreInv'
  BY <1>1, StartStep
<1>2. ASSUME NEW kind \in Requests, Interrupt(kind) PROVE CoreInv'
  BY <1>2, InterruptStep
<1>3. ASSUME NEW f \in Files, NEW content \in Versions \cup {NoFile}, OtherWriter(f, content)
      PROVE  CoreInv'
  BY <1>3, OtherWriterStep
<1>4. CASE Crash
  BY <1>4, CrashStep
<1>5. CASE Run
  BY <1>5, LoadStep, PathFailsStep, StopBetweenFilesStep, PassOverStep,
     BeginFileStep, FileDoneStep, FileSkippedStep, FileFailsStep, LeaveStateStep,
     SaveStateStep, SaveFailsStep, FinishStep
  DEF Run
<1>6. CASE UNCHANGED vars
  BY <1>6
  DEF vars, disks, run, history, CoreInv, TypeOK, LocalsAgree, RunVouches, Dealt,
      Known, HasDone, StateVouches, SucceededIsWhole, PausedKeepsPlace,
      ProgressWithinFiles, Vouched
<1> QED
  BY <1>1, <1>2, <1>3, <1>4, <1>5, <1>6 DEF Next

(***************************************************************************)
(* The batch state never runs ahead of the run, and is never set back      *)
(***************************************************************************)

(* What a run has in hand when it saves.                                   *)
LEMMA BehindInHand ==
    ASSUME CoreInv, StateBehind, pc \in {"leave", "save"}
    PROVE  /\ index \in 1..NFiles /\ resume <= index /\ Known = index
           /\ ~blind /\ state \in States /\ state.token = job.version =>
                  state.next <= index /\ state.bytes <= bytes
<1>1. index \in 1..NFiles /\ resume <= index /\ resume \in 1..NFiles + 1 /\ NFiles \in Nat
  BY FilesAreEntries DEF CoreInv, TypeOK, LocalsAgree
<1>2. Known = index
  BY <1>1 DEF Known
<1> QED
  BY <1>1, <1>2 DEF StateBehind, Own

(* A step that ends the run has nothing to keep.                           *)
LEMMA EndedBehind ==
    ASSUME NEW v, End(v)
    PROVE  StateBehind'
  BY DEF End, StateBehind, Own

LEMMA BehindInit == Init => StateBehind
  BY DEF Init, StateBehind, Own

LEMMA BehindStep ==
    ASSUME CoreInv, StateBehind, [Next]_vars
    PROVE  StateBehind'
<1>0. /\ index \in 1..NFiles + 1 /\ resume \in 1..NFiles + 1 /\ bytes \in 0..NFiles
      /\ NFiles \in Nat /\ NoState \notin States /\ Corrupt \notin States
  BY BatchAssumption DEF CoreInv, TypeOK, States
<1>1. ASSUME NEW j \in Jobs, Start(j) PROVE StateBehind'
  BY <1>1 DEF Start, StateBehind, Own, disks
<1>2. ASSUME NEW kind \in Requests, Interrupt(kind) PROVE StateBehind'
  BY <1>2 DEF Interrupt, StateBehind, Own, Known, disks, run
<1>3. ASSUME NEW f \in Files, NEW content \in Versions \cup {NoFile}, OtherWriter(f, content)
      PROVE  StateBehind'
  BY <1>3 DEF OtherWriter, StateBehind, Own, run
<1>4. CASE Crash
  BY <1>4, EndedBehind DEF Crash
<1>5. CASE Load
  <2>1. pc = "load" /\ ~blind /\ pc' = "next" /\ index = 1 /\ index' = 1 /\ job' = job
    BY <1>5 DEF Load, CoreInv, LocalsAgree, StateBehind
  <2>2. CASE TakeOver
    <3>1. /\ state \in States /\ state.token = job.version
          /\ state' = state /\ resume' = state.next /\ bytes' = state.bytes
      BY <2>2 DEF TakeOver, Own
    <3>2. state.next \in 1..NFiles + 1 /\ state.bytes \in 0..NFiles
      BY <3>1 DEF States
    <3>3. Known' = state.next
      BY <1>0, <2>1, <3>1, <3>2 DEF Known
    <3> QED
      BY <2>1, <3>1, <3>2, <3>3 DEF StateBehind, Own
  <2>3. CASE StartOver
    <3>1. ~blind' => ~Own(state)'
      BY <2>1, <2>3 DEF StartOver, Own
    <3> QED
      BY <2>1, <3>1 DEF StateBehind
  <2> QED
    BY <1>5, <2>2, <2>3 DEF Load
<1>6. CASE PathFails \/ StopBetweenFiles \/ SaveFails \/ Finish \/ LeaveState
  BY <1>6, EndedBehind
  DEF PathFails, StopBetweenFiles, SaveFails, Finish, LeaveState
<1>7. CASE PassOver
  <2>1. /\ pc = "next" /\ pc' = "next" /\ index' = index + 1 /\ index <= NFiles
        /\ UNCHANGED <<state, job, resume, bytes, blind>>
    BY <1>7 DEF PassOver, disks
  <2>2. Known \in Nat /\ Known' \in Nat /\ Known <= Known'
    BY <1>0, <2>1 DEF Known
  <2>3. state \in States => state.next \in Nat
    BY <1>0 DEF States
  <2> QED
    BY <2>1, <2>2, <2>3 DEF StateBehind, Own
<1>8. CASE BeginFile
  BY <1>8 DEF BeginFile, disks, StateBehind, Own, Known
<1>9. CASE FileDone
  <2>1. /\ pc = "file" /\ pc' = "save" /\ bytes' = bytes + 1
        /\ UNCHANGED <<state, job, index, resume, blind>>
    BY <1>9 DEF FileDone
  <2>2. Known' = Known
    BY <2>1 DEF Known
  <2>3. ASSUME ~blind', Own(state)'
        PROVE  state'.next <= Known' /\ state'.bytes <= bytes'
    <3>1. ~blind /\ Own(state) /\ state.bytes \in Nat
      BY <1>0, <2>1, <2>3 DEF Own, States
    <3>2. state.next <= Known /\ state.bytes <= bytes
      BY <2>1, <3>1 DEF StateBehind
    <3> QED
      BY <1>0, <2>1, <2>2, <3>1, <3>2
  <2> QED
    BY <2>1, <2>3 DEF StateBehind
<1>10. CASE FileSkipped \/ FileFails
  BY <1>10 DEF FileSkipped, FileFails, StateBehind, Own, Known
<1>11. CASE SaveState
  <2>1. /\ state' = [token |-> job.version, next |-> index + 1, bytes |-> bytes]
        /\ index' = index + 1 /\ resume' = resume /\ bytes' = bytes /\ pc = "save"
    BY <1>11 DEF SaveState
  <2>2. Known' = index + 1 /\ index + 1 \in Nat
    BY <1>0, <2>1, BehindInHand DEF Known
  <2>3. state'.next = index + 1 /\ state'.bytes = bytes' /\ bytes' \in Nat /\ pc' = "next"
    BY <1>0, <1>11, <2>1 DEF SaveState
  <2> QED
    BY <2>2, <2>3 DEF StateBehind
<1>12. CASE UNCHANGED vars
  BY <1>12 DEF vars, disks, run, StateBehind, Own, Known
<1> QED
  BY <1>1, <1>2, <1>3, <1>4, <1>5, <1>6, <1>7, <1>8, <1>9, <1>10, <1>11, <1>12
  DEF Next, Run

(* Only a save and a pause write a state of this manifest, and both write  *)
(* what the run has in hand.                                               *)
LEMMA KeptStep ==
    ASSUME CoreInv, StateBehind, [Next]_vars, ~blind,
           {state, state'} \subseteq States, state'.token = state.token
    PROVE  state'.next >= state.next /\ state'.bytes >= state.bytes
<1>0. /\ state.next \in 1..NFiles + 1 /\ state.bytes \in 0..NFiles /\ NFiles \in Nat
      /\ NoState \notin States /\ Corrupt \notin States /\ bytes \in 0..NFiles
  BY BatchAssumption DEF CoreInv, TypeOK, States
<1>1. CASE state' = state
  BY <1>0, <1>1
<1>2. CASE LeaveState /\ state' = [token |-> job.version, next |-> index, bytes |-> bytes]
  <2>1. pc = "leave" /\ state.token = job.version
    BY <1>2 DEF LeaveState
  <2> QED
    BY <1>0, <1>2, <2>1, BehindInHand
<1>3. CASE SaveState
  <2>1. /\ state' = [token |-> job.version, next |-> index + 1, bytes |-> bytes]
        /\ pc = "save" /\ state.token = job.version
    BY <1>3 DEF SaveState
  <2> QED
    BY <1>0, <2>1, BehindInHand
<1>4. CASE Run /\ ~SaveState /\ ~LeaveState
  <2>1. state' \in {state, NoState, Corrupt}
    BY <1>4
    DEF Run, Load, TakeOver, StartOver, PathFails, StopBetweenFiles, PassOver, BeginFile, FileDone,
        FileSkipped, FileFails, SaveFails, Finish, disks
  <2> QED
    BY <1>0, <1>1, <2>1
<1>5. CASE LeaveState /\ state' \in {state, NoState, Corrupt}
  BY <1>0, <1>1, <1>5
<1>6. CASE LeaveState
  BY <1>2, <1>5, <1>6 DEF LeaveState
<1>7. CASE Crash
  <2>1. state' \in {state, Corrupt}
    BY <1>7 DEF Crash
  <2> QED
    BY <1>0, <1>1, <2>1
<1>8. CASE UNCHANGED state
  BY <1>1, <1>8
<1>9. ASSUME NEW j \in Jobs, Start(j) PROVE UNCHANGED state
  BY <1>9 DEF Start, disks
<1>10. ASSUME NEW kind \in Requests, Interrupt(kind) PROVE UNCHANGED state
  BY <1>10 DEF Interrupt, disks
<1>11. ASSUME NEW f \in Files, NEW content \in Versions \cup {NoFile}, OtherWriter(f, content)
       PROVE  UNCHANGED state
  BY <1>11 DEF OtherWriter
<1>12. CASE UNCHANGED vars
  BY <1>8, <1>12 DEF vars, disks
<1> QED
  BY <1>3, <1>4, <1>6, <1>7, <1>8, <1>9, <1>10, <1>11, <1>12 DEF Next

(***************************************************************************)
(* Theorems                                                                *)
(***************************************************************************)

(* IInv holds throughout, whatever the manifests, the write modes, the     *)
(* interrupts, the failures and the crashes.                               *)
THEOREM Invariant == Spec => []IInv
<1>1. Init => IInv
  BY InitInvariant, BehindInit DEF IInv
<1>2. IInv /\ [Next]_vars => IInv'
  BY InductiveStep, BehindStep DEF IInv
<1> QED
  BY <1>1, <1>2, PTL DEF Spec

(* file_index, resume_file_index and completed_bytes stay within a         *)
(* manifest, and a state file only ever holds what save wrote.             *)
THEOREM TypeCorrect == Spec => []TypeOK
<1>1. IInv => TypeOK
  BY DEF IInv, CoreInv
<1> QED
  BY <1>1, Invariant, PTL

(* A resumed run may skip the files before next_file_index unseen.         *)
THEOREM ResumeIsSound == Spec => []StateVouches
<1>1. IInv => StateVouches
  BY DEF IInv, CoreInv
<1> QED
  BY <1>1, Invariant, PTL

(* A batch that reports success has every file of its manifest.            *)
THEOREM SuccessIsWhole == Spec => []SucceededIsWhole
<1>1. IInv => SucceededIsWhole
  BY DEF IInv, CoreInv
<1> QED
  BY <1>1, Invariant, PTL

(* A batch that reports a pause can go on behind the files it has done.    *)
THEOREM PauseKeepsPlace == Spec => []PausedKeepsPlace
<1>1. IInv => PausedKeepsPlace
  BY DEF IInv, CoreInv
<1> QED
  BY <1>1, Invariant, PTL

(* Progress never counts a file twice, however often a run is resumed.     *)
THEOREM ProgressIsBounded == Spec => []ProgressWithinFiles
<1>1. IInv => ProgressWithinFiles
  BY DEF IInv, CoreInv
<1> QED
  BY <1>1, Invariant, PTL

(* While the batch state of one manifest lies there, neither its place nor *)
(* its bytes go back, over any number of runs, pauses and crashes; but for *)
(* a run that could neither load the state nor remove it.                  *)
THEOREM PlaceStays == Spec => PlaceIsKept
<1>1. IInv /\ [Next]_vars =>
          [{state, state'} \subseteq States /\ state'.token = state.token /\ ~blind =>
               state'.next >= state.next /\ state'.bytes >= state.bytes]_vars
  BY KeptStep DEF IInv
<1> QED
  BY <1>1, Invariant, PTL DEF Spec, PlaceIsKept

===============================================================================
