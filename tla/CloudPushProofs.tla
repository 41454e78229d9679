---------------------------- MODULE CloudPushProofs ----------------------------
(***************************************************************************)
(* Proofs about CloudPush for any set of names and contents, any number of *)
(* CM servers, and any number and size of blocks.                          *)
(***************************************************************************)
EXTENDS CloudPush, FiniteSetTheorems, TLAPS

(***************************************************************************)
(* Plans                                                                   *)
(***************************************************************************)

(* Whatever order a scan has, it meets every name of a finite set once.    *)
LEMMA OrderMeetsEachOnce ==
    ASSUME NEW S, IsFiniteSet(S)
    PROVE  /\ Cardinality(S) \in Nat
           /\ Order(S) \in [1..Cardinality(S) -> S]
           /\ \A i, j \in 1..Cardinality(S) : Order(S)[i] = Order(S)[j] => i = j
<1>1. Cardinality(S) \in Nat /\ ExistsBijection(1..Cardinality(S), S)
  BY FS_CardinalityType
<1>2. PICK f \in [1..Cardinality(S) -> S] : IsInjective(f)
  BY <1>1 DEF ExistsBijection, Bijection, Injection
<1>3. /\ Order(S) \in [1..Cardinality(S) -> S]
      /\ IsInjective(Order(S))
  BY <1>2 DEF Order, SetToSeq
<1> QED
  BY <1>1, <1>3 DEF IsInjective

LEMMA RemoteFinite == IsFiniteSet(Remote)
  BY PushAssumption, FS_AddElement DEF Remote

(* What the scan finds is an ordinary content or a stale resume state.     *)
LEMMA FoundType ==
    ASSUME TypeOK, NEW n \in Remote, Found(n) # NoFile
    PROVE  Found(n) \in Contents \cup {Stale}
  BY PushAssumption DEF TypeOK, Remote, Found

LEMMA MadePlan ==
    ASSUME TypeOK, NEW seen \in SUBSET Remote, \A n \in seen : Found(n) # NoFile,
           NEW policy, NEW newer, NEW orphans
    PROVE  LET p == MakePlan(seen, policy, newer, orphans)
           IN  /\ IsPlan(p)
               /\ \A i, j \in 1..Len(p.uploads) : p.uploads[i][1] = p.uploads[j][1] => i = j
               /\ \A i \in 1..Len(p.uploads) : p.uploads[i][1] \notin p.deletes
<1> DEFINE U == {n \in seen : \/ n \notin listed
                              \/ n \in Conflicts(seen) /\ Transfers(policy, newer, n)}
           p == MakePlan(seen, policy, newer, orphans)
<1>1. IsFiniteSet(U)
  BY RemoteFinite, FS_Subset
<1>2. /\ Cardinality(U) \in Nat
      /\ Order(U) \in [1..Cardinality(U) -> U]
      /\ \A i, j \in 1..Cardinality(U) : Order(U)[i] = Order(U)[j] => i = j
  BY <1>1, OrderMeetsEachOnce
<1>3. /\ p.uploads = [i \in 1..Cardinality(U) |-> <<Order(U)[i], Found(Order(U)[i])>>]
      /\ p.deletes \in {listed \ seen, {}}
  BY DEF MakePlan
<1>4. \A n \in U : <<n, Found(n)>> \in Items
  BY FoundType DEF Items
<1>5. p.uploads \in Seq(Items) /\ Len(p.uploads) = Cardinality(U)
  <2> DEFINE k == Cardinality(U)
  <2>1. \A i \in 1..k : Order(U)[i] \in U
    BY <1>2
  <2>2. p.uploads \in [1..k -> Items]
    <3> HIDE DEF k, U
    <3> QED
      BY <1>3, <1>4, <2>1 DEF k
  <2> HIDE DEF k, p, U
  <2>3. k \in Nat
    BY <1>2 DEF k
  <2> QED
    BY <2>2, <2>3 DEF k
<1>6. \A i \in 1..Cardinality(U) : p.uploads[i][1] = Order(U)[i] /\ Order(U)[i] \in seen
  BY <1>2, <1>3
<1>7. p.deletes \subseteq Remote /\ p.deletes \cap seen = {}
  BY <1>3 DEF TypeOK
<1> HIDE DEF p, U
<1>8. IsPlan(p)
  BY <1>5, <1>7 DEF IsPlan
<1> QED
  BY <1>2, <1>5, <1>6, <1>7, <1>8 DEF p

(***************************************************************************)
(* Offsets                                                                 *)
(***************************************************************************)

LEMMA LengthType == FileLen \in Nat /\ NBlocks \in Nat /\ BlockLen \in Nat /\ BlockLen > 0
  BY PushAssumption DEF FileLen

LEMMA BlockEnds ==
    ASSUME NEW q \in Nat, NEW r \in Nat, q * BlockLen + r < FileLen
    PROVE  (q + 1) * BlockLen \in 0..FileLen /\ (q + 1) * BlockLen = q * BlockLen + BlockLen
<1>1. q < NBlocks
  <2>1. SUFFICES ASSUME q >= NBlocks PROVE FALSE
    BY LengthType
  <2>2. q * BlockLen >= NBlocks * BlockLen
    BY <2>1, LengthType
  <2>3. q * BlockLen \in Nat
    BY LengthType
  <2> QED
    BY <2>2, <2>3, LengthType DEF FileLen
<1>2. (q + 1) * BlockLen <= NBlocks * BlockLen
  BY <1>1, LengthType
<1>3. (q + 1) * BlockLen \in Nat /\ (q + 1) * BlockLen = q * BlockLen + BlockLen
  BY LengthType
<1> QED
  BY <1>2, <1>3 DEF FileLen

(* An offset before the end lies in a block, which ends within the file.   *)
LEMMA BlockOfOffset ==
    ASSUME NEW b \in Nat, b < FileLen
    PROVE  \E q \in Nat, r \in 0..BlockLen - 1 :
               /\ q = b \div BlockLen /\ r = b % BlockLen /\ b = q * BlockLen + r
               /\ (q + 1) * BlockLen \in 0..FileLen
               /\ b + (BlockLen - r) = (q + 1) * BlockLen
<1>1. PICK q \in Nat : q = b \div BlockLen
  BY LengthType
<1>2. PICK r \in 0..BlockLen - 1 : r = b % BlockLen
  BY LengthType
<1>3. r = b - BlockLen * q
  BY <1>1, <1>2, LengthType
<1>4. b = q * BlockLen + r /\ q * BlockLen \in Nat /\ r \in Nat
  BY <1>3, LengthType
<1>5. (q + 1) * BlockLen \in 0..FileLen /\ (q + 1) * BlockLen = q * BlockLen + BlockLen
  BY <1>4, BlockEnds
<1>6. b + (BlockLen - r) = (q + 1) * BlockLen
  BY <1>4, <1>5, LengthType
<1> QED
  BY <1>1, <1>2, <1>4, <1>5, <1>6

LEMMA InsideFile ==
    ASSUME TypeOK, bytes < FileLen
    PROVE  /\ Block \in Nat /\ InBlock \in 0..BlockLen - 1
           /\ Block * BlockLen \in 0..FileLen
           /\ \A n \in 0..BlockLen - InBlock : bytes + n \in 0..FileLen
<1>1. bytes \in Nat
  BY DEF TypeOK
<1>2. PICK q \in Nat, r \in 0..BlockLen - 1 :
          /\ q = bytes \div BlockLen /\ r = bytes % BlockLen
          /\ (q + 1) * BlockLen \in 0..FileLen
          /\ bytes + (BlockLen - r) = (q + 1) * BlockLen
  BY <1>1, BlockOfOffset
<1>3. Block = q + 1 /\ InBlock = r
  BY <1>2 DEF Block, InBlock
<1>4. \A n \in 0..BlockLen - r : bytes + n \in 0..FileLen
  BY <1>1, <1>2, LengthType
<1> QED
  BY <1>2, <1>3, <1>4

(***************************************************************************)
(* Ends of a push and of an attempt                                        *)
(***************************************************************************)

LEMMA NothingType == Nothing \in [1..NBlocks -> 0..Bad]
  BY LengthType DEF Nothing, Bad

LEMMA KeptBatches ==
    ASSUME TypeOK, NEW ids, KeepBatches(ids)
    PROVE  /\ batches' \in [Ids -> [files : SUBSET Items, open : BOOLEAN] \cup {NoBatch}]
           /\ got' \in [1..NBlocks -> 0..Bad]
           /\ \A id \in ids \cap Ids : batches'[id] = batches[id]
  BY NothingType DEF TypeOK, KeepBatches

(* What a batch keeps covers goes on being covered by it.                  *)
LEMMA CoversStays ==
    ASSUME NEW id, NEW uploads, NEW i, Covers(id, uploads, i), batches'[id] = batches[id]
    PROVE  Covers(id, uploads, i)'
  BY DEF Covers

LEMMA EndStep ==
    ASSUME IInv, UNCHANGED <<local, state, cloud>>,
           NEW v \in {"none", "succeeded", "paused", "canceled", "failed", "crashed"}, End(v)
    PROVE  IInv'
<1>1. TypeOK'
  <2>1. IsPlan(NoPlan) /\ Len(NoPlan.uploads) = 0
    BY DEF IsPlan, NoPlan
  <2>2. CmTypeOK'
    <3>1. link' = "off" /\ server' = 1 /\ answer' = [ok |-> FALSE, error |-> ""]
      BY DEF End, CmEnd
    <3>2. 1 \in 1..NServers + 1
      BY ConnectorAssumption
    <3> QED
      BY <3>1, <3>2 DEF CmTypeOK, Errors
  <2> QED
    <3>1. TypeOK /\ KeepBatches(Named(state))
      BY DEF IInv, End
    <3>2. /\ batches' \in [Ids -> [files : SUBSET Items, open : BOOLEAN] \cup {NoBatch}]
          /\ got' \in [1..NBlocks -> 0..Bad]
      BY <3>1, KeptBatches
    <3>3. Readable(state') => IsState(state')
      BY DEF IInv, TypeOK
    <3>4. plan' = NoPlan /\ index' = 1 /\ batch' = 1 /\ bytes' = 0 /\ listed' = {} /\ resumed' = NoState
      BY DEF End
    <3>5. index' \in 1..Len(plan'.uploads) + 1 /\ batch' \in Ids /\ bytes' \in 0..FileLen /\ IsPlan(plan')
      BY <2>1, <3>4, LengthType DEF Ids
    <3>6. (Readable(state) => IsState(state))' /\ (resumed # NoState => IsState(resumed))'
      BY <3>3, <3>4
    <3> QED
      BY <2>2, <3>2, <3>4, <3>5, <3>6 DEF IInv, TypeOK, End
<1>2. LinkAgrees'
  BY DEF LinkAgrees, End, CmEnd
<1>3. PlanAgrees'
  BY DEF PlanAgrees, End, NoPlan
<1>4. ResumeAgrees'
  <2>1. KeepBatches(Named(state)) /\ resumed' = NoState /\ pc' = "idle" /\ state' = state
    BY DEF End
  <2>2. ASSUME Readable(state)
        PROVE  Covers(state.batch, state.token.uploads, state.index)'
    <3>1. batches'[state.batch] = batches[state.batch]
      BY <2>1, <2>2, KeptBatches DEF IInv, TypeOK, IsState, Named
    <3>2. Covers(state.batch, state.token.uploads, state.index)
      BY <2>2 DEF IInv, ResumeAgrees
    <3> QED
      BY <2>1, <3>1, <3>2 DEF Covers
  <2> QED
    BY <2>1, <2>2 DEF ResumeAgrees
<1>5. RunAgrees'
  BY DEF RunAgrees, End
<1>6. SucceededIsMirrored'
  BY DEF SucceededIsMirrored, End, CmEnd
<1> QED
  BY <1>1, <1>2, <1>3, <1>4, <1>5, <1>6 DEF IInv

(* An attempt that does not succeed leaves the operation where the next    *)
(* attempt of this push begins.                                            *)
LEMMA AttemptStep ==
    ASSUME IInv, link = "operation", Unchanged,
           NEW c \in {"Continue", "Stop"}, NEW e \in {"failure", "canceled"},
           AttemptEnds(c, FALSE, e)
    PROVE  /\ CmTypeOK' /\ LinkAgrees' /\ RunAgrees' /\ SucceededIsMirrored'
           /\ op' = "begin" /\ batch' = 1 /\ index' = 1 /\ bytes' = 0
<1>1. op' = "begin" /\ batch' = 1 /\ index' = 1 /\ bytes' = 0
  BY DEF AttemptEnds
<1>2. /\ link' \in {"done", "next"} /\ ~answer'.ok
      /\ answer' \in [ok : BOOLEAN, error : Errors] /\ server' \in 1..NServers + 1
  <2>0. NServers \in Nat /\ server \in 1..NServers /\ ~answer.ok
    BY ConnectorAssumption DEF IInv, TypeOK, CmTypeOK, LinkAgrees
  <2>1. \/ CmReturn(FALSE, "canceled")
        \/ CmReturn(FALSE, e)
        \/ TryNext
    BY DEF AttemptEnds, OperationEnds, CmCanceled
  <2>2. CASE TryNext
    BY <2>0, <2>2 DEF IInv, TypeOK, CmTypeOK, TryNext
  <2>3. ASSUME NEW f \in {"failure", "canceled"}, CmReturn(FALSE, f)
        PROVE  /\ link' = "done" /\ ~answer'.ok
               /\ answer' \in [ok : BOOLEAN, error : Errors] /\ server' \in 1..NServers + 1
    <3>1. 1 \in 1..NServers + 1
      BY <2>0
    <3> QED
      BY <2>3, <3>1 DEF CmReturn, Errors
  <2> QED
    BY <2>1, <2>2, <2>3
<1>3. CmTypeOK'
  BY <1>2 DEF CmTypeOK
<1>4. LinkAgrees'
  BY <1>1, <1>2 DEF IInv, LinkAgrees, Unchanged
<1> QED
  BY <1>1, <1>2, <1>3, <1>4 DEF RunAgrees, SucceededIsMirrored

(***************************************************************************)
(* Saves                                                                   *)
(***************************************************************************)

(* What a step leaves of a batch covers what the batch covered before.     *)
Grows(id) ==
    /\ batches'[id] \in Batches
    /\ batches[id].files \subseteq batches'[id].files
    /\ batches'[id].files \subseteq {plan.uploads[j] : j \in 1..Len(plan.uploads)}

LEMMA GrownCovers ==
    ASSUME NEW id, NEW i, plan' = plan, Grows(id), Covers(id, plan.uploads, i)
    PROVE  Covers(id, plan.uploads, i)'
  BY DEF Grows, Covers

(* A save that is whole or torn in its last line is a state of this plan.  *)
OfPlan(s, id, i) == IsState(s) /\ s.token = plan /\ s.batch = id /\ s.index = i

LEMMA SavedStates ==
    ASSUME IInv, NEW id \in Ids, NEW i \in 1..Len(plan.uploads), NEW n \in 0..FileLen
    PROVE  /\ OfPlan(Saved(id, i, n), id, i)
           /\ OfPlan([Saved(id, i, n) EXCEPT !.bytes = 0], id, i)
<1>1. ASSUME NEW s \in {Saved(id, i, n), [Saved(id, i, n) EXCEPT !.bytes = 0]}
      PROVE  OfPlan(s, id, i)
  <2>1. /\ s.token = plan /\ s.index = i /\ s.batch = id
        /\ s.bytes \in {0, n}
    BY DEF Saved
  <2>2. s.bytes \in 0..FileLen
    BY <2>1, LengthType
  <2> QED
    BY <2>1, <2>2 DEF IInv, TypeOK, IsState, OfPlan
<1> QED
  BY <1>1

LEMMA ResumeStep ==
    ASSUME IInv, pc = "upload", Unchanged, resumed # NoState => Grows(resumed.batch),
           \/ ~Readable(state')
           \/ state' = state /\ (Readable(state) => Grows(state.batch))
           \/ /\ IsState(state') /\ state'.token = plan
              /\ Covers(state.batch, plan.uploads, state.index)'
    PROVE  ResumeAgrees' /\ (Readable(state) => IsState(state))'
<1>1. plan' = plan /\ pc' = pc /\ resumed' = resumed
  BY DEF Unchanged
<1>2. (Readable(state) => /\ IsState(state) /\ state.token = plan
                          /\ Covers(state.batch, plan.uploads, state.index))'
  <2>1. CASE ~Readable(state')
    BY <2>1
  <2>2. ASSUME state' = state, Readable(state), Grows(state.batch)
        PROVE  /\ IsState(state') /\ state'.token = plan'
               /\ Covers(state.batch, plan.uploads, state.index)'
    <3>1. IsState(state) /\ state.token = plan /\ Covers(state.batch, plan.uploads, state.index)
      BY <2>2 DEF IInv, TypeOK, ResumeAgrees
    <3> QED
      BY <1>1, <2>2, <3>1 DEF Grows, Covers
  <2>3. CASE /\ IsState(state') /\ state'.token = plan
             /\ Covers(state.batch, plan.uploads, state.index)'
    BY <1>1, <2>3
  <2> QED
    BY <2>1, <2>2, <2>3
<1>3. (resumed # NoState =>
          /\ pc = "upload" /\ resumed.token = plan
          /\ Covers(resumed.batch, plan.uploads, resumed.index))'
  BY <1>1 DEF IInv, ResumeAgrees, Grows, Covers
<1> QED
  BY <1>2, <1>3 DEF ResumeAgrees

(* A step of the operation after which it goes on or the attempt has       *)
(* failed.                                                                 *)
GoesOn ==
    /\ UNCHANGED cmVars
    /\ op' \in {"file", "block", "retry", "commit", "complete", "cancel"}
    /\ batch' \in Ids /\ index' \in 1..Len(plan.uploads) + 1 /\ bytes' \in 0..FileLen
    /\ RunAgrees'

AttemptFails == \E c \in {"Continue", "Stop"}, e \in {"failure", "canceled"} : AttemptEnds(c, FALSE, e)

LEMMA OperationStep ==
    ASSUME IInv, pc = "upload", link = "operation", Unchanged,
           got' \in [1..NBlocks -> 0..Bad],
           cloud' \in [Remote -> Contents \cup {Stale, NoFile}],
           batches' \in [Ids -> Batches \cup {NoBatch}],
           ResumeAgrees' /\ (Readable(state) => IsState(state))',
           GoesOn \/ AttemptFails
    PROVE  IInv'
<1>1. /\ CmTypeOK' /\ LinkAgrees' /\ RunAgrees' /\ SucceededIsMirrored'
      /\ op' \in {"begin", "file", "block", "retry", "commit", "complete", "cancel"}
      /\ batch' \in Ids /\ index' \in 1..Len(plan.uploads) + 1 /\ bytes' \in 0..FileLen
  <2>1. CASE GoesOn
    <3>1. CmTypeOK'
      BY <2>1 DEF IInv, TypeOK, CmTypeOK, cmVars, GoesOn
    <3>2. LinkAgrees'
      BY <2>1 DEF IInv, LinkAgrees, cmVars, Unchanged, GoesOn
    <3>3. SucceededIsMirrored'
      BY <2>1 DEF SucceededIsMirrored, cmVars, GoesOn
    <3> QED
      BY <2>1, <3>1, <3>2, <3>3 DEF GoesOn
  <2>2. CASE AttemptFails
    <3>1. 1 \in 1..Len(plan.uploads) + 1 /\ 1 \in Ids /\ 0 \in 0..FileLen
      BY LengthType DEF Ids
    <3> QED
      BY <2>2, <3>1, AttemptStep DEF AttemptFails
  <2> QED
    BY <2>1, <2>2
<1>2. TypeOK'
  <2>1. (resumed # NoState => IsState(resumed))'
    BY DEF IInv, TypeOK, Unchanged
  <2> QED
    BY <1>1, <2>1 DEF IInv, TypeOK, Unchanged, Batches
<1>3. PlanAgrees'
  BY DEF IInv, PlanAgrees, Unchanged
<1> QED
  BY <1>1, <1>2, <1>3 DEF IInv

LEMMA SavedResume ==
    ASSUME IInv, pc = "upload", Unchanged,
           NEW id \in Ids, NEW i \in 1..Len(plan.uploads), NEW n \in 0..FileLen,
           state' \in {Saved(id, i, n), NoState} \cup Torn(Saved(id, i, n)),
           Covers(id, plan.uploads, i)', resumed # NoState => Grows(resumed.batch),
           state' = state /\ Readable(state) => Grows(state.batch)
    PROVE  ResumeAgrees' /\ (Readable(state) => IsState(state))'
<1> DEFINE s == Saved(id, i, n)
<1>1. CASE state' \in {s, [s EXCEPT !.bytes = 0]}
  <2>0. OfPlan(s, id, i) /\ OfPlan([s EXCEPT !.bytes = 0], id, i)
    BY SavedStates
  <2>1. IsState(state') /\ state'.token = plan /\ state'.batch = id /\ state'.index = i
    BY <1>1, <2>0 DEF OfPlan
  <2>2. Covers(state.batch, plan.uploads, state.index)'
    BY <2>1
  <2> QED
    BY <2>1, <2>2, ResumeStep
<1>2. CASE state' \in {state, Corrupt, NoState}
  BY <1>2, ResumeStep DEF Readable
<1> QED
  BY <1>1, <1>2 DEF Torn

LEMMA SaveStep ==
    ASSUME IInv, pc = "upload", link = "operation", Unchanged,
           NEW id \in Ids, NEW i \in 1..Len(plan.uploads), NEW n \in 0..FileLen,
           NEW next \in {"file", "block", "retry"}, next = "retry" => n > 0,
           SaveState(Saved(id, i, n), next),
           Covers(id, plan.uploads, i)', resumed # NoState => Grows(resumed.batch),
           state' = state /\ Readable(state) => Grows(state.batch)
    PROVE  /\ ResumeAgrees' /\ (Readable(state) => IsState(state))'
           /\ GoesOn \/ AttemptFails
<1>1. ResumeAgrees' /\ (Readable(state) => IsState(state))'
  BY SavedResume DEF SaveState, StateSaved
<1>2. GoesOn \/ AttemptFails
  <2>1. CASE StateSaved(Saved(id, i, n), next)
    <3>1. /\ batch' = id /\ index' = i /\ bytes' = n /\ op' = next /\ UNCHANGED cmVars
          /\ plan' = plan
      BY <2>1 DEF StateSaved, Saved, Unchanged
    <3>2. i \in 1..Len(plan.uploads) + 1 /\ i <= Len(plan.uploads)
      OBVIOUS
    <3>3. RunAgrees'
      BY <3>1, <3>2 DEF RunAgrees
    <3> QED
      BY <3>1, <3>2, <3>3 DEF GoesOn
  <2>2. CASE AttemptEnds("Stop", FALSE, "failure")
    BY <2>2 DEF AttemptFails
  <2> QED
    BY <2>1, <2>2 DEF SaveState
<1> QED
  BY <1>1, <1>2

(* A step that leaves the batches alone keeps what they cover.             *)
LEMMA NothingLost ==
    ASSUME IInv, pc = "upload", UNCHANGED <<batches, plan>>
    PROVE  /\ resumed # NoState => Grows(resumed.batch)
           /\ Readable(state) => Grows(state.batch)
           /\ \A id, i : Covers(id, plan.uploads, i) => Covers(id, plan.uploads, i)'
  BY DEF IInv, ResumeAgrees, Covers, Grows

(* A save of the running file, in a step that loses nothing of a batch.    *)
LEMMA RunCovers ==
    ASSUME IInv, pc = "upload", op # "begin", plan' = plan, Grows(batch)
    PROVE  \A b, i : b = batch /\ i = index => Covers(b, plan.uploads, i)'
  BY DEF IInv, RunAgrees, Grows, Covers

LEMMA RunGrows ==
    ASSUME IInv, pc = "upload", op # "begin", UNCHANGED <<batches, plan>>
    PROVE  Grows(batch)
  BY DEF IInv, RunAgrees, Covers, Grows

(* What RunCovers, NothingLost and the type give a step that saves the     *)
(* state of the running file.                                              *)
LEMMA RunSaves ==
    ASSUME IInv, pc = "upload", link = "operation", op # "begin", index <= Len(plan.uploads),
           Unchanged, UNCHANGED batches, NEW n \in 0..FileLen
    PROVE  /\ state' \in {Saved(batch, index, n), NoState} \cup Torn(Saved(batch, index, n)) =>
                  ResumeAgrees' /\ (Readable(state) => IsState(state))'
           /\ \A next \in {"block", "retry"} :
                  (next = "retry" => n > 0) /\ SaveState(Saved(batch, index, n), next) =>
                      /\ ResumeAgrees' /\ (Readable(state) => IsState(state))'
                      /\ GoesOn \/ AttemptFails
<1>1. /\ batch \in Ids /\ index \in 1..Len(plan.uploads) /\ plan' = plan
      /\ resumed # NoState => Grows(resumed.batch)
      /\ Readable(state) => Grows(state.batch)
  BY NothingLost DEF IInv, TypeOK, Unchanged
<1>2. PICK b \in Ids, i \in 1..Len(plan.uploads) : b = batch /\ i = index
  BY <1>1
<1>3. Covers(b, plan.uploads, i)'
  BY <1>1, <1>2, RunGrows, RunCovers
<1>4. state' \in {Saved(b, i, n), NoState} \cup Torn(Saved(b, i, n)) =>
          ResumeAgrees' /\ (Readable(state) => IsState(state))'
  BY <1>1, <1>3, SavedResume
<1>5. ASSUME NEW next \in {"block", "retry"}, next = "retry" => n > 0, SaveState(Saved(b, i, n), next)
      PROVE  /\ ResumeAgrees' /\ (Readable(state) => IsState(state))'
             /\ GoesOn \/ AttemptFails
  BY <1>1, <1>3, <1>5, SaveStep
<1> QED
  BY <1>2, <1>4, <1>5

(***************************************************************************)
(* The steps                                                               *)
(***************************************************************************)

LEMMA StartStep == IInv /\ Start => IInv'
<1> SUFFICES ASSUME IInv, Start PROVE IInv'
  OBVIOUS
<1>1. TypeOK'
  BY DEF IInv, TypeOK, CmTypeOK, Start, cmVars, disk, external, locals
<1>2. LinkAgrees' /\ PlanAgrees' /\ RunAgrees'
  BY DEF IInv, LinkAgrees, PlanAgrees, RunAgrees, Start, cmVars, locals
<1>3. ResumeAgrees'
  BY DEF IInv, ResumeAgrees, Covers, Start, disk, external
<1>4. SucceededIsMirrored'
  BY DEF IInv, SucceededIsMirrored, Start, cmVars, external
<1> QED
  BY <1>1, <1>2, <1>3, <1>4 DEF IInv

LEMMA InterruptStep ==
    ASSUME IInv, NEW kind \in {"pause", "cancel"}, Interrupt(kind)
    PROVE  IInv'
<1>1. TypeOK'
  BY DEF IInv, TypeOK, CmTypeOK, Interrupt, cmVars, disk, external, locals
<1>2. LinkAgrees' /\ PlanAgrees' /\ RunAgrees'
  BY DEF IInv, LinkAgrees, PlanAgrees, RunAgrees, Covers, Interrupt, cmVars,
      external, locals
<1>3. ResumeAgrees'
  BY DEF IInv, ResumeAgrees, Covers, Interrupt, disk, external
<1>4. SucceededIsMirrored'
  BY DEF IInv, SucceededIsMirrored, Interrupt, cmVars, external
<1> QED
  BY <1>1, <1>2, <1>3, <1>4 DEF IInv

LEMMA EditStep == IInv /\ Edit => IInv'
<1> SUFFICES ASSUME IInv, Edit PROVE IInv'
  OBVIOUS
<1>1. TypeOK'
  <2>1. /\ local' \in [Names -> Local \cup {NoFile}]
        /\ cloud' \in [Remote -> Contents \cup {Stale, NoFile}]
    BY DEF IInv, TypeOK, Edit
  <2> QED
    BY <2>1 DEF IInv, TypeOK, CmTypeOK, Edit, cmVars, locals
<1>2. LinkAgrees' /\ PlanAgrees' /\ RunAgrees'
  BY DEF IInv, LinkAgrees, PlanAgrees, RunAgrees, Edit, cmVars, locals
<1>3. ResumeAgrees'
  BY DEF IInv, ResumeAgrees, Covers, Edit
<1>4. SucceededIsMirrored'
  BY DEF IInv, LinkAgrees, SucceededIsMirrored, Edit, cmVars
<1> QED
  BY <1>1, <1>2, <1>3, <1>4 DEF IInv

LEMMA EndingsStep == IInv /\ (Crash \/ StopEarly \/ Fail \/ Report) => IInv'
<1> SUFFICES ASSUME IInv, Crash \/ StopEarly \/ Fail \/ Report PROVE IInv'
  OBVIOUS
<1>1. CASE Crash
  BY <1>1, EndStep DEF Crash, disk
<1>2. CASE StopEarly
  BY <1>2, EndStep DEF StopEarly, disk
<1>3. CASE Fail
  BY <1>3, EndStep DEF Fail, disk
<1>4. CASE Report
  <2>1. /\ answer.ok \in BOOLEAN /\ wanted \in {"none", "pause", "cancel"}
    BY DEF IInv, TypeOK, CmTypeOK
  <2>2. \E v \in {"succeeded", "paused", "canceled", "failed"} : End(v)
    BY <1>4, <2>1 DEF Report
  <2> QED
    BY <1>4, <2>2, EndStep DEF Report, disk
<1> QED
  BY <1>1, <1>2, <1>3, <1>4

LEMMA ListRemoteStep == IInv /\ ListRemote => IInv'
<1> SUFFICES ASSUME IInv, ListRemote PROVE IInv'
  OBVIOUS
<1>0. listed' \subseteq Remote
  BY DEF ListRemote
<1>1. TypeOK'
  BY <1>0 DEF IInv, TypeOK, CmTypeOK, ListRemote, cmVars, disk, external, locals
<1>2. LinkAgrees' /\ PlanAgrees' /\ RunAgrees'
  BY DEF IInv, LinkAgrees, PlanAgrees, RunAgrees, ListRemote, cmVars, locals
<1>3. ResumeAgrees'
  BY DEF IInv, ResumeAgrees, Covers, ListRemote, disk, external
<1>4. SucceededIsMirrored'
  BY DEF IInv, LinkAgrees, SucceededIsMirrored, ListRemote, cmVars
<1> QED
  BY <1>1, <1>2, <1>3, <1>4 DEF IInv

(* The upload begins with what LoadResume left of the old resume state.    *)
LEMMA UploadBegins ==
    ASSUME IInv, pc = "scan", NEW p, IsPlan(p),
           \A i, j \in 1..Len(p.uploads) : p.uploads[i][1] = p.uploads[j][1] => i = j,
           \A i \in 1..Len(p.uploads) : p.uploads[i][1] \notin p.deletes,
           LoadResume(p), plan' = p, pc' = "upload", listed' = {}, CmBegin,
           UNCHANGED <<op, locals, wanted, verdict, local, cloud>>
    PROVE  IInv'
<1>1. KeepBatches(Named(state'))
  BY DEF LoadResume
<1>2. \/ ~Readable(state') /\ resumed' = NoState
      \/ /\ state' = state /\ resumed' = state /\ Readable(state) /\ state.token = p
         /\ IsState(state) /\ Covers(state.batch, state.token.uploads, state.index)
         /\ batches'[state.batch] = batches[state.batch]
  <2>1. CASE Readable(state) /\ resumed' = state /\ state' = state /\ state.token = p
    <3>1. IsState(state) /\ Covers(state.batch, state.token.uploads, state.index)
      BY <2>1 DEF IInv, TypeOK, ResumeAgrees
    <3>2. batches'[state.batch] = batches[state.batch]
      BY <1>1, <2>1, <3>1, KeptBatches DEF IInv, IsState, Named
    <3> QED
      BY <2>1, <3>1, <3>2
  <2>2. CASE ~Readable(state') /\ resumed' = NoState
    BY <2>2
  <2> QED
    BY <2>1, <2>2 DEF LoadResume, Readable
<1>3. /\ op' = "begin" /\ batch' = 1 /\ index' = 1 /\ bytes' = 0
      /\ link' = "load" /\ ~answer'.ok /\ server' = 1
  BY DEF IInv, LinkAgrees, CmBegin, locals
<1>4. TypeOK'
  <2>1. CmTypeOK'
    <3>1. 1 \in 1..NServers + 1
      BY ConnectorAssumption
    <3> QED
      BY <3>1 DEF CmBegin, CmTypeOK, Errors
  <2>2. (Readable(state) => IsState(state))' /\ (resumed # NoState => IsState(resumed))'
    BY <1>2
  <2>3. /\ batches' \in [Ids -> [files : SUBSET Items, open : BOOLEAN] \cup {NoBatch}]
        /\ got' \in [1..NBlocks -> 0..Bad]
    BY <1>1, KeptBatches DEF IInv
  <2>4. 1 \in 1..Len(p.uploads) + 1 /\ 1 \in Ids /\ 0 \in 0..FileLen
    BY LengthType DEF Ids
  <2>5. IsPlan(plan)'
    OBVIOUS
  <2> QED
    BY <1>3, <2>1, <2>2, <2>3, <2>4, <2>5 DEF IInv, TypeOK
<1>5. LinkAgrees'
  BY <1>3 DEF LinkAgrees
<1>6. PlanAgrees'
  BY DEF PlanAgrees
<1>7. ResumeAgrees'
  <2>1. (Readable(state) => /\ Covers(state.batch, state.token.uploads, state.index)
                            /\ pc = "upload" => state.token = plan)'
    BY <1>2 DEF Covers
  <2>2. (resumed # NoState => /\ pc = "upload" /\ resumed.token = plan
                              /\ Covers(resumed.batch, plan.uploads, resumed.index))'
    BY <1>2 DEF Covers
  <2> QED
    BY <2>1, <2>2 DEF ResumeAgrees
<1>8. RunAgrees' /\ SucceededIsMirrored'
  BY <1>3 DEF RunAgrees, SucceededIsMirrored
<1> QED
  BY <1>4, <1>5, <1>6, <1>7, <1>8 DEF IInv

LEMMA ScanStep == IInv /\ Scan => IInv'
<1> SUFFICES ASSUME IInv, Scan PROVE IInv'
  OBVIOUS
<1>1. PICK seen \in {{n \in Remote : Found(n) # NoFile}, {}}, policy \in Policies, orphans \in BOOLEAN :
          IF policy = "FailOnConflict" /\ Conflicts(seen) # {}
          THEN End("failed") /\ UNCHANGED state
          ELSE \E newer \in SUBSET Conflicts(seen) :
                   LET p == MakePlan(seen, policy, newer, orphans)
                   IN  IF p = NoPlan
                       THEN End("succeeded") /\ UNCHANGED state
                       ELSE /\ wanted = "none"
                            /\ LoadResume(p)
                            /\ plan' = p /\ pc' = "upload" /\ listed' = {} /\ CmBegin
                            /\ UNCHANGED <<op, locals, wanted, verdict>>
  BY DEF Scan
<1>2. pc = "scan" /\ UNCHANGED <<local, cloud>>
  BY DEF Scan
<1>3. CASE \E v \in {"failed", "succeeded"} : End(v) /\ UNCHANGED state
  BY <1>2, <1>3, EndStep
<1>4. ASSUME NEW newer \in SUBSET Conflicts(seen),
             LoadResume(MakePlan(seen, policy, newer, orphans)),
             plan' = MakePlan(seen, policy, newer, orphans),
             pc' = "upload", listed' = {}, CmBegin,
             UNCHANGED <<op, locals, wanted, verdict>>
      PROVE  IInv'
  <2>1. seen \in SUBSET Remote /\ \A n \in seen : Found(n) # NoFile
    OBVIOUS
  <2>2. TypeOK
    BY DEF IInv
  <2> DEFINE p == MakePlan(seen, policy, newer, orphans)
  <2>3. /\ IsPlan(p)
        /\ \A i, j \in 1..Len(p.uploads) : p.uploads[i][1] = p.uploads[j][1] => i = j
        /\ \A i \in 1..Len(p.uploads) : p.uploads[i][1] \notin p.deletes
    BY <2>1, <2>2, MadePlan
  <2>4. LoadResume(p) /\ plan' = p
    BY <1>4
  <2> HIDE DEF p
  <2> QED
    BY <1>2, <1>4, <2>3, <2>4, UploadBegins
<1> QED
  BY <1>1, <1>3, <1>4

LEMMA ConnectorStepStep == IInv /\ ConnectorStep => IInv'
<1> SUFFICES ASSUME IInv, ConnectorStep PROVE IInv'
  OBVIOUS
<1>1. /\ NServers \in Nat /\ server \in 1..NServers + 1 /\ 1 \in 1..NServers + 1
      /\ link # "done" /\ link # "off" /\ ~answer.ok
      /\ link # "operation" /\ op = "begin" /\ pc = "upload"
  <2>1. /\ link \in {"load", "next", "connect", "greet", "heartbeat"} /\ pc = "upload"
    BY DEF ConnectorStep, CmStep, LoadServers, NextServer, Connect, Greet, Heartbeat
  <2>2. NServers \in Nat /\ server \in 1..NServers + 1 /\ 1 \in 1..NServers + 1
    BY ConnectorAssumption DEF IInv, TypeOK, CmTypeOK
  <2> QED
    BY <2>1, <2>2 DEF IInv, LinkAgrees
<1>2. /\ CmTypeOK' /\ link' # "off" /\ ~answer'.ok
      /\ link' \in {"connect", "greet", "heartbeat", "operation"} => server' <= NServers
  <2>1. CASE CmReturn(FALSE, "failure")
    BY <1>1, <2>1 DEF CmTypeOK, CmReturn, Errors
  <2>2. CASE CmReturn(FALSE, "canceled")
    BY <1>1, <2>2 DEF CmTypeOK, CmReturn, Errors
  <2>3. CASE TryNext /\ link \in {"connect", "greet"}
    BY <1>1, <2>3 DEF IInv, TypeOK, CmTypeOK, LinkAgrees, TryNext
  <2>4. CASE /\ link' \in {"next", "connect", "greet", "heartbeat", "operation"}
             /\ UNCHANGED <<server, answer>>
             /\ link' # "next" => server <= NServers
    BY <1>1, <2>4 DEF IInv, TypeOK, CmTypeOK
  <2> QED
    BY <1>1, <2>1, <2>2, <2>3, <2>4
    DEF IInv, LinkAgrees, ConnectorStep, CmStep, LoadServers, NextServer, Connect,
        Greet, Heartbeat
<1>3. TypeOK'
  BY <1>2 DEF IInv, TypeOK, ConnectorStep, Unchanged, external, locals
<1>4. LinkAgrees' /\ PlanAgrees' /\ RunAgrees'
  BY <1>1, <1>2
  DEF IInv, LinkAgrees, PlanAgrees, RunAgrees, ConnectorStep, Unchanged, locals
<1>5. ResumeAgrees'
  BY DEF IInv, ResumeAgrees, Covers, ConnectorStep, Unchanged, external
<1>6. SucceededIsMirrored'
  BY <1>2 DEF SucceededIsMirrored
<1> QED
  BY <1>2, <1>3, <1>4, <1>5, <1>6 DEF IInv

LEMMA BeginBatchStep == IInv /\ BeginBatch => IInv'
<1> SUFFICES ASSUME IInv, BeginBatch PROVE IInv'
  OBVIOUS
<1>1. /\ pc = "upload" /\ link = "operation" /\ Unchanged /\ resumed = NoState
      /\ op = "begin" /\ batch = 1 /\ index = 1 /\ bytes = 0
      /\ UNCHANGED <<cloud, got, gotFor>>
  BY DEF IInv, LinkAgrees, BeginBatch, At
<1>2. /\ got' \in [1..NBlocks -> 0..Bad]
      /\ cloud' \in [Remote -> Contents \cup {Stale, NoFile}]
  BY <1>1 DEF IInv, TypeOK
<1>3. CASE (\E c \in {"Continue", "Stop"} : AttemptEnds(c, FALSE, "failure"))
           /\ UNCHANGED <<batches, state>>
  <2>1. AttemptFails
    BY <1>3 DEF AttemptFails
  <2>2. ResumeAgrees' /\ (Readable(state) => IsState(state))'
    BY <1>1, <1>3, NothingLost, ResumeStep DEF Unchanged
  <2>3. batches' \in [Ids -> Batches \cup {NoBatch}]
    BY <1>3 DEF IInv, TypeOK, Batches
  <2> QED
    BY <1>1, <1>2, <2>1, <2>2, <2>3, OperationStep
<1>4. ASSUME NEW id \in Ids, id = (IF Named(state) = {1} THEN 2 ELSE 1),
             \/ /\ plan.uploads = <<>>
                /\ \/ /\ state' = Corrupt /\ op' = "file" /\ batch' = id
                      /\ UNCHANGED <<cmVars, index, bytes>>
                   \/ state' \in {state, Corrupt} /\ AttemptEnds("Stop", FALSE, "failure")
             \/ plan.uploads # <<>> /\ SaveState(Saved(id, 1, 0), "file"),
             batches' = [i \in Ids |-> IF i = id THEN [files |-> {}, open |-> TRUE]
                                       ELSE IF i \in Named(state') THEN batches[i]
                                       ELSE NoBatch]
      PROVE  IInv'
  <2>1. batches' \in [Ids -> Batches \cup {NoBatch}]
    BY <1>4 DEF IInv, TypeOK, Batches
  <2>2. \A i : i = 1 => Covers(id, plan.uploads, i)'
    BY <1>1, <1>4 DEF Covers, Batches
  <2>3. state' = state /\ Readable(state) => Grows(state.batch)
    <3>1. SUFFICES ASSUME state' = state, Readable(state) PROVE Grows(state.batch)
      OBVIOUS
    <3>2. /\ state.batch \in Ids /\ state.batch # id /\ Named(state') = {state.batch}
          /\ Covers(state.batch, plan.uploads, state.index)
      <4>1. /\ state.batch \in {1, 2} /\ state.token = plan
            /\ Covers(state.batch, state.token.uploads, state.index)
        BY <1>1, <3>1 DEF IInv, TypeOK, IsState, ResumeAgrees, Ids
      <4>2. Named(state) = {state.batch}
        BY <3>1 DEF Named
      <4>3. state.batch # id
        BY <1>4, <4>1, <4>2
      <4> QED
        BY <3>1, <4>1, <4>2, <4>3 DEF Ids
    <3>3. batches'[state.batch] = batches[state.batch]
      BY <1>4, <3>2
    <3> QED
      BY <3>2, <3>3 DEF Grows, Covers
  <2>4. CASE /\ plan.uploads = <<>>
             /\ state' = Corrupt /\ op' = "file" /\ batch' = id
             /\ UNCHANGED <<cmVars, index, bytes>>
    <3>1. ResumeAgrees' /\ (Readable(state) => IsState(state))'
      BY <1>1, <2>4, ResumeStep DEF Readable
    <3>2. RunAgrees'
      BY <1>1, <2>2, <2>4 DEF RunAgrees
    <3>3. GoesOn
      BY <1>1, <2>4, <3>2 DEF IInv, TypeOK, GoesOn
    <3> QED
      BY <1>1, <1>2, <2>1, <3>1, <3>3, OperationStep
  <2>5. CASE plan.uploads # <<>> /\ SaveState(Saved(id, 1, 0), "file")
    <3>1. 1 \in 1..Len(plan.uploads) /\ 0 \in 0..FileLen
      BY <2>5, LengthType
    <3>2. Covers(id, plan.uploads, 1)'
      BY <2>2
    <3>3. /\ ResumeAgrees' /\ (Readable(state) => IsState(state))'
          /\ GoesOn \/ AttemptFails
      BY <1>1, <2>3, <2>5, <3>1, <3>2, SaveStep
    <3> QED
      BY <1>1, <1>2, <2>1, <3>3, OperationStep
  <2>6. CASE state' \in {state, Corrupt} /\ AttemptEnds("Stop", FALSE, "failure")
    <3>1. ResumeAgrees' /\ (Readable(state) => IsState(state))'
      BY <1>1, <2>3, <2>6, ResumeStep DEF Readable
    <3>2. AttemptFails
      BY <2>6 DEF AttemptFails
    <3> QED
      BY <1>1, <1>2, <2>1, <3>1, <3>2, OperationStep
  <2> QED
    BY <1>4, <2>4, <2>5, <2>6
<1> QED
  <2> DEFINE id == IF Named(state) = {1} THEN 2 ELSE 1
  <2>1. id \in Ids
    BY DEF Ids
  <2> QED
    BY <1>3, <1>4, <2>1 DEF BeginBatch

LEMMA ResumeBatchStep == IInv /\ ResumeBatch => IInv'
<1> SUFFICES ASSUME IInv, ResumeBatch PROVE IInv'
  OBVIOUS
<1>1. /\ pc = "upload" /\ link = "operation" /\ Unchanged /\ resumed # NoState
      /\ batch' = resumed.batch /\ index' = resumed.index /\ op' = "file" /\ bytes' = bytes
      /\ UNCHANGED <<cmVars, state, cloud, batches, got, gotFor>>
  BY DEF ResumeBatch, At, external
<1>2. /\ resumed.batch \in Ids /\ resumed.index \in 1..Len(plan.uploads) + 1
      /\ Covers(resumed.batch, plan.uploads, resumed.index)
  BY <1>1 DEF IInv, TypeOK, IsState, ResumeAgrees
<1>3. RunAgrees'
  BY <1>1, <1>2 DEF RunAgrees, Covers, Unchanged
<1>4. GoesOn
  BY <1>1, <1>2, <1>3 DEF IInv, TypeOK, GoesOn
<1>5. ResumeAgrees' /\ (Readable(state) => IsState(state))'
  BY <1>1, NothingLost, ResumeStep DEF Unchanged
<1> QED
  BY <1>1, <1>4, <1>5, OperationStep DEF IInv, TypeOK, Batches

LEMMA QuietSteps == IInv /\ (FilesDone \/ BlocksDone) => IInv'
<1> SUFFICES ASSUME IInv, FilesDone \/ BlocksDone PROVE IInv'
  OBVIOUS
<1>1. /\ pc = "upload" /\ link = "operation" /\ Unchanged
      /\ UNCHANGED <<cmVars, state, cloud, batches, got, gotFor, batch, index, bytes>>
      /\ \/ op = "file" /\ op' = "complete" /\ index > Len(plan.uploads)
         \/ op = "block" /\ op' = "commit"
  BY DEF FilesDone, BlocksDone, At, external, locals
<1>2. RunAgrees'
  BY <1>1 DEF IInv, RunAgrees, Covers, Unchanged
<1>3. GoesOn
  BY <1>1, <1>2 DEF IInv, TypeOK, GoesOn
<1>4. ResumeAgrees' /\ (Readable(state) => IsState(state))'
  BY <1>1, NothingLost, ResumeStep DEF Unchanged
<1> QED
  BY <1>1, <1>3, <1>4, OperationStep DEF IInv, TypeOK, Batches

LEMMA BeginFileStep == IInv /\ BeginFile => IInv'
<1> SUFFICES ASSUME IInv, BeginFile PROVE IInv'
  OBVIOUS
<1> DEFINE n == IF resumed # NoState /\ resumed.index = index THEN resumed.bytes ELSE 0
           s == Saved(batch, index, n)
<1>1. /\ pc = "upload" /\ link = "operation" /\ Unchanged /\ op # "begin"
      /\ index <= Len(plan.uploads) /\ UNCHANGED <<cloud, batches>>
      /\ \/ StateSaved(s, "block") /\ got' \in {Nothing, got}
         \/ /\ state' \in {s, NoState} \cup Torn(s)
            /\ AttemptEnds("Stop", FALSE, "failure")
            /\ got' = got
  BY DEF BeginFile, At
<1>2. n \in 0..FileLen
  BY LengthType DEF IInv, TypeOK, IsState
<1> HIDE DEF n
<1>3. /\ ResumeAgrees' /\ (Readable(state) => IsState(state))'
      /\ GoesOn \/ AttemptFails
  BY <1>1, <1>2, RunSaves DEF SaveState, AttemptFails
<1>4. got' \in [1..NBlocks -> 0..Bad]
  BY <1>1, NothingType DEF IInv, TypeOK
<1> QED
  BY <1>1, <1>3, <1>4, OperationStep DEF IInv, TypeOK, Batches

LEMMA BlockMarks == BlockLen \in 0..Bad /\ Bad \in 0..Bad
  BY LengthType DEF Bad

LEMMA UploadBlockStep == IInv /\ UploadBlock => IInv'
<1> SUFFICES ASSUME IInv, UploadBlock PROVE IInv'
  OBVIOUS
<1>1. /\ pc = "upload" /\ link = "operation" /\ Unchanged /\ op # "begin"
      /\ index <= Len(plan.uploads) /\ UNCHANGED <<cloud, batches>> /\ bytes < FileLen
      /\ SaveState(Saved(batch, index, Block * BlockLen), "block")
  BY DEF IInv, RunAgrees, UploadBlock, At
<1>2. Block * BlockLen \in 0..FileLen
  BY <1>1, InsideFile DEF IInv
<1>3. got' \in [1..NBlocks -> 0..Bad]
  <2>1. PICK v \in {BlockLen, Bad} : got' = [got EXCEPT ![Block] = v]
    BY DEF UploadBlock
  <2> QED
    BY <2>1, BlockMarks DEF IInv, TypeOK
<1>4. PICK n \in 0..FileLen : n = Block * BlockLen
  BY <1>2
<1>5. /\ ResumeAgrees' /\ (Readable(state) => IsState(state))'
      /\ GoesOn \/ AttemptFails
  BY <1>1, <1>4, RunSaves
<1> QED
  BY <1>1, <1>3, <1>5, OperationStep DEF IInv, TypeOK, Batches

LEMMA BlockFailsStep == IInv /\ BlockFails => IInv'
<1> SUFFICES ASSUME IInv, BlockFails PROVE IInv'
  OBVIOUS
<1>1. /\ pc = "upload" /\ link = "operation" /\ Unchanged /\ op = "block"
      /\ index <= Len(plan.uploads) /\ UNCHANGED <<cloud, batches>> /\ bytes < FileLen
  BY DEF IInv, RunAgrees, BlockFails, At
<1>2. /\ InBlock \in 0..BlockLen - 1 /\ bytes \in Nat
      /\ \A n \in 0..BlockLen - InBlock : bytes + n \in 0..FileLen
  BY <1>1, InsideFile DEF IInv, TypeOK
<1>3. PICK n \in 0..BlockLen - InBlock :
          /\ \E arrived \in {got[Block], Bad} \cup
                    IF InBlock = got[Block] THEN InBlock..InBlock + n ELSE {} :
                 got' = [got EXCEPT ![Block] = arrived]
          /\ \/ op' = "cancel" /\ UNCHANGED <<cmVars, state, locals>>
             \/ InBlock > 0 /\ SaveState(Saved(batch, index, bytes + n), "retry")
             \/ /\ state' \in {Saved(batch, index, bytes + n)} \cup Torn(Saved(batch, index, bytes + n))
                /\ AttemptEnds("Stop", FALSE, "failure")
  BY DEF BlockFails
<1>4. got' \in [1..NBlocks -> 0..Bad]
  <2>1. PICK arrived \in {got[Block], Bad} \cup
                    IF InBlock = got[Block] THEN InBlock..InBlock + n ELSE {} :
                 got' = [got EXCEPT ![Block] = arrived]
    BY <1>3
  <2>2. arrived # got[Block] => arrived \in 0..Bad
    BY <1>2, <2>1, LengthType DEF Bad
  <2> QED
    BY <2>1, <2>2 DEF IInv, TypeOK
<1>5. PICK m \in 0..FileLen : m = bytes + n
  BY <1>2
<1>6. CASE op' = "cancel" /\ UNCHANGED <<cmVars, state, locals>>
  <2>1. RunAgrees'
    BY <1>1, <1>6 DEF IInv, RunAgrees, Covers, Unchanged, locals
  <2>2. GoesOn
    BY <1>6, <2>1 DEF IInv, TypeOK, GoesOn, locals
  <2>3. ResumeAgrees' /\ (Readable(state) => IsState(state))'
    BY <1>1, <1>6, NothingLost, ResumeStep DEF Unchanged
  <2> QED
    BY <1>1, <1>4, <2>2, <2>3, OperationStep DEF IInv, TypeOK, Batches
<1>7. CASE InBlock > 0 /\ SaveState(Saved(batch, index, bytes + n), "retry")
  <2>1. bytes > 0
    <3>1. SUFFICES ASSUME bytes = 0 PROVE FALSE
      BY <1>2
    <3>2. InBlock = 0
      BY <3>1, LengthType DEF InBlock
    <3> QED
      BY <1>7, <3>2
  <2>2. m > 0
    BY <1>2, <1>5, <2>1
  <2>3. /\ ResumeAgrees' /\ (Readable(state) => IsState(state))'
        /\ GoesOn \/ AttemptFails
    BY <1>1, <1>5, <1>7, <2>2, RunSaves
  <2> QED
    BY <1>1, <1>4, <2>3, OperationStep DEF IInv, TypeOK, Batches
<1>8. CASE /\ state' \in {Saved(batch, index, bytes + n)} \cup Torn(Saved(batch, index, bytes + n))
           /\ AttemptEnds("Stop", FALSE, "failure")
  <2>1. ResumeAgrees' /\ (Readable(state) => IsState(state))'
    BY <1>1, <1>5, <1>8, RunSaves
  <2>2. AttemptFails
    BY <1>8 DEF AttemptFails
  <2> QED
    BY <1>1, <1>4, <2>1, <2>2, OperationStep DEF IInv, TypeOK, Batches
<1> QED
  BY <1>3, <1>6, <1>7, <1>8

LEMMA RetryBlockStep == IInv /\ RetryBlock => IInv'
<1> SUFFICES ASSUME IInv, RetryBlock PROVE IInv'
  OBVIOUS
<1> DEFINE failed == (bytes - 1) \div BlockLen + 1
<1>1. /\ pc = "upload" /\ link = "operation" /\ Unchanged /\ op = "retry"
      /\ index <= Len(plan.uploads) /\ UNCHANGED <<cloud, batches>>
      /\ \/ SaveState(Saved(batch, index, failed * BlockLen), "block")
         \/ AttemptEnds("Stop", FALSE, "failure") /\ UNCHANGED state
  BY DEF IInv, RunAgrees, RetryBlock, At
<1>2. failed * BlockLen \in 0..FileLen
  <2>1. bytes - 1 \in Nat /\ bytes - 1 < FileLen
    BY <1>1, LengthType DEF IInv, TypeOK, RunAgrees
  <2> QED
    BY <2>1, BlockOfOffset
<1>3. got' \in [1..NBlocks -> 0..Bad]
  <2>1. \/ got' = got
        \/ \E v \in {BlockLen, Bad} : got' = [got EXCEPT ![failed] = v]
    BY DEF RetryBlock
  <2> QED
    BY <2>1, BlockMarks DEF IInv, TypeOK
<1>4. PICK n \in 0..FileLen : n = failed * BlockLen
  BY <1>2
<1> HIDE DEF failed
<1>5. CASE SaveState(Saved(batch, index, failed * BlockLen), "block")
  <2>1. /\ ResumeAgrees' /\ (Readable(state) => IsState(state))'
        /\ GoesOn \/ AttemptFails
    BY <1>1, <1>4, <1>5, RunSaves
  <2> QED
    BY <1>1, <1>3, <2>1, OperationStep DEF IInv, TypeOK, Batches
<1>6. CASE AttemptEnds("Stop", FALSE, "failure") /\ UNCHANGED state
  <2>1. ResumeAgrees' /\ (Readable(state) => IsState(state))'
    BY <1>1, <1>6, NothingLost, ResumeStep DEF Unchanged
  <2>2. AttemptFails
    BY <1>6 DEF AttemptFails
  <2> QED
    BY <1>1, <1>3, <2>1, <2>2, OperationStep DEF IInv, TypeOK, Batches
<1> QED
  BY <1>1, <1>5, <1>6

(* A commit and a completion take nothing from a batch that covers files.  *)
LEMMA ServerKeeps ==
    ASSUME IInv, pc = "upload", link = "operation", plan' = plan,
           op \in {"commit", "complete", "cancel"},
           \/ op = "commit" /\ ServerCommits
           \/ batches' = [batches EXCEPT ![batch].open = FALSE]
           \/ batches' = batches
    PROVE  /\ batches' \in [Ids -> Batches \cup {NoBatch}]
           /\ Grows(batch)
           /\ resumed # NoState => Grows(resumed.batch)
           /\ Readable(state) => Grows(state.batch)
<1>1. Covers(batch, plan.uploads, index) /\ batch \in Ids
  BY DEF IInv, TypeOK, RunAgrees
<1>2. op = "commit" => plan.uploads[index] \in {plan.uploads[j] : j \in 1..Len(plan.uploads)}
  BY DEF IInv, TypeOK, RunAgrees
<1>3. {plan.uploads[j] : j \in 1..Len(plan.uploads)} \subseteq Items
  BY DEF IInv, TypeOK, IsPlan
<1>4. PICK b : /\ b \in Batches /\ batches' = [batches EXCEPT ![batch] = b]
               /\ batches[batch].files \subseteq b.files
               /\ b.files \subseteq {plan.uploads[j] : j \in 1..Len(plan.uploads)}
  <2> DEFINE c == batches[batch]
  <2>0. /\ c \in Batches /\ c.files \subseteq {plan.uploads[j] : j \in 1..Len(plan.uploads)}
        /\ batches \in [Ids -> Batches \cup {NoBatch}]
    BY <1>1 DEF IInv, TypeOK, Covers, Batches
  <2>1. CASE op = "commit" /\ ServerCommits
    <3> DEFINE f == plan.uploads[index]
               b == [c EXCEPT !.files = @ \cup {f}]
    <3>1. batches' = [batches EXCEPT ![batch] = b]
      BY <2>1 DEF ServerCommits
    <3>2. b.files = c.files \cup {f} /\ b \in Batches
      BY <1>2, <1>3, <2>0, <2>1 DEF Batches
    <3> QED
      BY <1>2, <2>0, <2>1, <3>1, <3>2
  <2>2. CASE batches' = [batches EXCEPT ![batch].open = FALSE]
    <3> DEFINE b == [c EXCEPT !.open = FALSE]
    <3>1. batches' = [batches EXCEPT ![batch] = b]
      BY <2>2
    <3>2. b.files = c.files /\ b \in Batches
      BY <2>0 DEF Batches
    <3> QED
      BY <2>0, <3>1, <3>2
  <2>3. CASE batches' = batches
    BY <1>1, <2>0, <2>3
  <2> QED
    BY <2>1, <2>2, <2>3
<1>5. batches' \in [Ids -> Batches \cup {NoBatch}]
  BY <1>1, <1>4 DEF IInv, TypeOK, Batches
<1>6. ASSUME NEW id \in Ids, NEW i, Covers(id, plan.uploads, i)
      PROVE  Grows(id)
  BY <1>1, <1>4, <1>6 DEF Covers, Grows
<1>7. /\ resumed # NoState => /\ resumed.batch \in Ids
                              /\ Covers(resumed.batch, plan.uploads, resumed.index)
      /\ Readable(state) => /\ state.batch \in Ids
                            /\ Covers(state.batch, plan.uploads, state.index)
  BY DEF IInv, TypeOK, ResumeAgrees, IsState
<1> QED
  BY <1>1, <1>5, <1>6, <1>7

LEMMA CommitFileStep == IInv /\ CommitFile => IInv'
<1> SUFFICES ASSUME IInv, CommitFile PROVE IInv'
  OBVIOUS
<1>1. /\ pc = "upload" /\ link = "operation" /\ Unchanged /\ op = "commit" /\ plan' = plan
      /\ index \in 1..Len(plan.uploads) /\ Len(plan.uploads) \in Nat
      /\ Covers(batch, plan.uploads, index) /\ batch \in Ids
  BY DEF IInv, TypeOK, RunAgrees, CommitFile, At, Unchanged
<1>2. ServerCommits \/ UNCHANGED <<cloud, batches>>
  BY DEF CommitFile
<1>3. /\ batches' \in [Ids -> Batches \cup {NoBatch}]
      /\ Grows(batch)
      /\ resumed # NoState => Grows(resumed.batch)
      /\ Readable(state) => Grows(state.batch)
  BY <1>1, <1>2, ServerKeeps
<1>4. cloud' \in [Remote -> Contents \cup {Stale, NoFile}]
  <2>1. plan.uploads[index] \in Items
    BY <1>1 DEF IInv, TypeOK, IsPlan
  <2>2. cloud' \in {cloud, [cloud EXCEPT ![plan.uploads[index][1]] = plan.uploads[index][2]]}
    BY <1>2 DEF ServerCommits
  <2> QED
    BY <2>1, <2>2 DEF IInv, TypeOK, Items
<1>5. got' \in [1..NBlocks -> 0..Bad]
  BY NothingType DEF IInv, TypeOK, CommitFile, NextFile
<1>6. CASE ServerCommits /\ NextFile
  <2>1. \A b, i : b = batch /\ i = index + 1 => Covers(b, plan.uploads, i)'
    <3>1. plan.uploads[index] \in batches'[batch].files
      BY <1>1, <1>6 DEF IInv, TypeOK, ServerCommits
    <3>2. \A j \in 1..(index + 1) - 1 : j = index \/ j \in 1..index - 1
      BY <1>1
    <3> QED
      BY <1>1, <1>3, <3>1, <3>2 DEF Grows, Covers
  <2>2. CASE index < Len(plan.uploads) /\ SaveState(Saved(batch, index + 1, 0), "file")
    <3>1. index + 1 \in 1..Len(plan.uploads) /\ 0 \in 0..FileLen
      BY <1>1, <2>2, LengthType
    <3>2. PICK b \in Ids, i \in 1..Len(plan.uploads) : b = batch /\ i = index + 1
      BY <1>1, <3>1
    <3>3. Covers(b, plan.uploads, i)'
      BY <2>1, <3>2
    <3>4. SaveState(Saved(b, i, 0), "file")
      BY <2>2, <3>2
    <3>5. /\ ResumeAgrees' /\ (Readable(state) => IsState(state))'
          /\ GoesOn \/ AttemptFails
      BY <1>1, <1>3, <3>1, <3>3, <3>4, SaveStep
    <3> QED
      BY <1>1, <1>3, <1>4, <1>5, <3>5, OperationStep
  <2>3. CASE /\ op' = "file" /\ index' = index + 1 /\ bytes' = 0
             /\ UNCHANGED <<cmVars, state, batch>>
    <3>1. ResumeAgrees' /\ (Readable(state) => IsState(state))'
      BY <1>1, <1>3, <2>3, ResumeStep
    <3>2. RunAgrees'
      BY <1>1, <2>1, <2>3 DEF RunAgrees
    <3>3. GoesOn
      BY <1>1, <2>3, <3>2, LengthType DEF GoesOn
    <3> QED
      BY <1>1, <1>3, <1>4, <1>5, <3>1, <3>3, OperationStep
  <2> QED
    BY <1>6, <2>2, <2>3 DEF NextFile
<1>7. CASE AttemptEnds("Stop", FALSE, "failure") /\ UNCHANGED state
  <2>1. ResumeAgrees' /\ (Readable(state) => IsState(state))'
    BY <1>1, <1>3, <1>7, ResumeStep
  <2>2. AttemptFails
    BY <1>7 DEF AttemptFails
  <2> QED
    BY <1>1, <1>3, <1>4, <1>5, <2>1, <2>2, OperationStep
<1> QED
  BY <1>6, <1>7 DEF CommitFile

LEMMA CancelBatchStep == IInv /\ CancelBatch => IInv'
<1> SUFFICES ASSUME IInv, CancelBatch PROVE IInv'
  OBVIOUS
<1>1. /\ pc = "upload" /\ link = "operation" /\ Unchanged /\ op = "cancel" /\ plan' = plan
      /\ batches' \in {batches, [batches EXCEPT ![batch].open = FALSE]}
      /\ state' \in {NoState, state} /\ AttemptEnds("Stop", FALSE, "canceled")
      /\ UNCHANGED <<cloud, got>>
  BY DEF CancelBatch, At, Unchanged
<1>2. /\ batches' \in [Ids -> Batches \cup {NoBatch}]
      /\ resumed # NoState => Grows(resumed.batch)
      /\ Readable(state) => Grows(state.batch)
  BY <1>1, ServerKeeps
<1>3. ResumeAgrees' /\ (Readable(state) => IsState(state))'
  BY <1>1, <1>2, ResumeStep DEF Readable
<1>4. AttemptFails
  BY <1>1 DEF AttemptFails
<1> QED
  BY <1>1, <1>2, <1>3, <1>4, OperationStep DEF IInv, TypeOK

(* What the server made of a batch that held the whole plan is that plan.  *)
LEMMA CompletedMirrors ==
    ASSUME IInv, op = "complete", ServerCompletes
    PROVE  /\ cloud' \in [Remote -> Contents \cup {Stale, NoFile}]
           /\ \A i \in 1..Len(plan.uploads) : cloud'[plan.uploads[i][1]] = plan.uploads[i][2]
           /\ \A n \in plan.deletes : cloud'[n] = NoFile
<1> DEFINE files == batches[batch].files
<1>1. /\ files \subseteq {plan.uploads[j] : j \in 1..Len(plan.uploads)}
      /\ \A j \in 1..Len(plan.uploads) : plan.uploads[j] \in files
      /\ \A j \in 1..Len(plan.uploads) : plan.uploads[j] \in Items
      /\ plan.deletes \subseteq Remote
  BY DEF IInv, TypeOK, IsPlan, RunAgrees, Covers
<1>2. cloud' = [n \in Remote |-> IF n \in plan.deletes THEN NoFile
                                 ELSE IF \E f \in files : f[1] = n
                                 THEN (CHOOSE f \in files : f[1] = n)[2]
                                 ELSE cloud[n]]
  BY DEF ServerCompletes
<1> HIDE DEF files
<1>3. \A n : (\E f \in files : f[1] = n) =>
                 /\ (CHOOSE f \in files : f[1] = n) \in files
                 /\ (CHOOSE f \in files : f[1] = n)[1] = n
  OBVIOUS
<1>4. ASSUME NEW i \in 1..Len(plan.uploads)
      PROVE  cloud'[plan.uploads[i][1]] = plan.uploads[i][2]
  <2> DEFINE n == plan.uploads[i][1]
             g == CHOOSE f \in files : f[1] = n
  <2>1. n \in Remote /\ n \notin plan.deletes /\ plan.uploads[i] \in files
    BY <1>1 DEF Items, IInv, PlanAgrees
  <2>2. g \in files /\ g[1] = n
    BY <1>3, <2>1
  <2>3. cloud'[n] = g[2]
    BY <1>2, <2>1
  <2>4. PICK j \in 1..Len(plan.uploads) : plan.uploads[j] = g
    BY <1>1, <2>2
  <2>5. j = i
    BY <2>2, <2>4 DEF IInv, PlanAgrees
  <2> QED
    BY <2>3, <2>4, <2>5
<1>5. \A n \in plan.deletes : cloud'[n] = NoFile
  BY <1>1, <1>2
<1>6. cloud' \in [Remote -> Contents \cup {Stale, NoFile}]
  <2>1. \A f \in files : f[2] \in Contents \cup {Stale}
    BY <1>1 DEF Items
  <2> QED
    BY <1>2, <1>3, <2>1 DEF IInv, TypeOK
<1> QED
  BY <1>4, <1>5, <1>6

LEMMA CompleteBatchStep == IInv /\ CompleteBatch => IInv'
<1> SUFFICES ASSUME IInv, CompleteBatch PROVE IInv'
  OBVIOUS
<1>1. /\ pc = "upload" /\ link = "operation" /\ Unchanged /\ op = "complete" /\ plan' = plan
      /\ got' = got
  BY DEF CompleteBatch, At, Unchanged
<1>2. ServerCompletes \/ UNCHANGED <<cloud, batches>>
  BY DEF CompleteBatch
<1>3. /\ batches' \in [Ids -> Batches \cup {NoBatch}]
      /\ resumed # NoState => Grows(resumed.batch)
      /\ Readable(state) => Grows(state.batch)
  BY <1>1, <1>2, ServerKeeps DEF ServerCompletes
<1>4. cloud' \in [Remote -> Contents \cup {Stale, NoFile}]
  BY <1>1, <1>2, CompletedMirrors DEF IInv, TypeOK
<1>5. CASE AttemptFails /\ UNCHANGED state
  <2>1. ResumeAgrees' /\ (Readable(state) => IsState(state))'
    BY <1>1, <1>3, <1>5, ResumeStep
  <2> QED
    BY <1>1, <1>3, <1>4, <1>5, <2>1, OperationStep DEF IInv, TypeOK
<1>6. CASE ServerCompletes /\ state' = NoState /\ AttemptEnds("Stop", TRUE, "")
  <2>1. /\ link' = "done" /\ server' = 1 /\ answer' = [ok |-> TRUE, error |-> ""]
        /\ op' = "begin" /\ batch' = 1 /\ index' = 1 /\ bytes' = 0
    BY <1>6 DEF AttemptEnds, OperationEnds, CmReturn
  <2>2. ResumeAgrees' /\ (Readable(state) => IsState(state))'
    BY <1>1, <1>3, <1>6, ResumeStep DEF Readable
  <2>3. TypeOK'
    <3>1. /\ 1 \in 1..NServers + 1 /\ 1 \in Ids /\ 0 \in 0..FileLen
          /\ 1 \in 1..Len(plan.uploads) + 1
      BY ConnectorAssumption, LengthType DEF Ids
    <3>2. CmTypeOK'
      BY <2>1, <3>1 DEF CmTypeOK, Errors
    <3>3. (resumed # NoState => IsState(resumed))'
      BY DEF IInv, TypeOK, CompleteBatch, Unchanged
    <3> QED
      BY <1>1, <1>3, <1>4, <2>1, <2>2, <3>1, <3>2, <3>3
      DEF IInv, TypeOK, Unchanged, Batches
  <2>4. LinkAgrees' /\ RunAgrees'
    BY <1>1, <2>1 DEF LinkAgrees, RunAgrees, Unchanged
  <2>5. PlanAgrees'
    BY <1>1 DEF IInv, PlanAgrees
  <2>6. SucceededIsMirrored'
    BY <1>1, <1>6, CompletedMirrors DEF SucceededIsMirrored
  <2> QED
    BY <2>2, <2>3, <2>4, <2>5, <2>6 DEF IInv
<1> QED
  BY <1>5, <1>6 DEF CompleteBatch, AttemptFails

(***************************************************************************)
(* The theorems                                                            *)
(***************************************************************************)

LEMMA InitInvariant == Init => IInv
<1> SUFFICES ASSUME Init PROVE IInv
  OBVIOUS
<1>1. TypeOK
  <2>1. /\ 1 \in 1..NServers + 1 /\ 1 \in Ids /\ 0 \in 0..FileLen
    BY ConnectorAssumption, LengthType DEF Ids
  <2>2. IsPlan(NoPlan) /\ Len(NoPlan.uploads) = 0
    BY DEF IsPlan, NoPlan
  <2>3. 1 \in 1..Len(plan.uploads) + 1
    BY <2>2
  <2>4. CmTypeOK
    BY <2>1 DEF Init, CmOff, CmTypeOK, Errors
  <2>5. cloud \in [Remote -> Contents \cup {Stale, NoFile}]
    BY DEF Init, Remote
  <2> QED
    BY <2>1, <2>2, <2>3, <2>4, <2>5, NothingType DEF Init, TypeOK, Readable
<1>2. LinkAgrees /\ RunAgrees /\ SucceededIsMirrored
  BY DEF Init, CmOff, LinkAgrees, RunAgrees, SucceededIsMirrored
<1>3. PlanAgrees
  BY DEF Init, NoPlan, PlanAgrees
<1>4. ResumeAgrees
  BY DEF Init, ResumeAgrees, Readable
<1> QED
  BY <1>1, <1>2, <1>3, <1>4 DEF IInv

LEMMA StutterStep == IInv /\ UNCHANGED vars => IInv'
<1> SUFFICES ASSUME IInv, UNCHANGED vars PROVE IInv'
  OBVIOUS
<1> USE DEF vars, cmVars, disk, external, locals
<1>1. TypeOK'
  BY DEF IInv, TypeOK, CmTypeOK
<1>2. LinkAgrees' /\ PlanAgrees' /\ RunAgrees' /\ SucceededIsMirrored'
  BY DEF IInv, LinkAgrees, PlanAgrees, RunAgrees, Covers, SucceededIsMirrored
<1>3. ResumeAgrees'
  BY DEF IInv, ResumeAgrees, Covers
<1> QED
  BY <1>1, <1>2, <1>3 DEF IInv

(* The inductive invariant: where the connector, the plan, the resume      *)
(* state and the running batch stand agree at every step.                  *)
THEOREM Invariant == Spec => []IInv
<1>1. IInv /\ [Next]_vars => IInv'
  <2> SUFFICES ASSUME IInv, [Next]_vars PROVE IInv'
    OBVIOUS
  <2>1. CASE Start
    BY <2>1, StartStep
  <2>2. CASE \E kind \in {"pause", "cancel"} : Interrupt(kind)
    BY <2>2, InterruptStep
  <2>3. CASE Edit
    BY <2>3, EditStep
  <2>4. CASE Crash \/ StopEarly \/ Fail \/ Report
    BY <2>4, EndingsStep
  <2>5. CASE ListRemote \/ Scan
    BY <2>5, ListRemoteStep, ScanStep
  <2>6. CASE ConnectorStep \/ BeginBatch \/ ResumeBatch
    BY <2>6, ConnectorStepStep, BeginBatchStep, ResumeBatchStep
  <2>7. CASE FilesDone \/ BlocksDone \/ BeginFile
    BY <2>7, QuietSteps, BeginFileStep
  <2>8. CASE UploadBlock \/ BlockFails \/ RetryBlock
    BY <2>8, UploadBlockStep, BlockFailsStep, RetryBlockStep
  <2>9. CASE CommitFile \/ CancelBatch \/ CompleteBatch
    BY <2>9, CommitFileStep, CancelBatchStep, CompleteBatchStep
  <2>10. CASE UNCHANGED vars
    BY <2>10, StutterStep
  <2> QED
    BY <2>1, <2>2, <2>3, <2>4, <2>5, <2>6, <2>7, <2>8, <2>9, <2>10 DEF Next, Worker
<1> QED
  BY InitInvariant, <1>1, PTL DEF Spec

(* Every variable keeps its type, the resume state included.               *)
THEOREM TypeCorrect == Spec => []TypeOK
<1>1. IInv => TypeOK
  BY DEF IInv
<1> QED
  BY Invariant, <1>1, PTL

(* A resume state vouches for the files it lets a push skip: each of them  *)
(* was committed in the batch the state names.                             *)
THEOREM ResumeIsSound == Spec => []StateVouches
<1>1. IInv => StateVouches
  BY DEF IInv, ResumeAgrees, Covers, StateVouches
<1> QED
  BY Invariant, <1>1, PTL

(* A push that reports success left in the cloud what it planned.          *)
THEOREM SuccessIsMirrored == Spec => []SucceededIsMirrored
<1>1. IInv => SucceededIsMirrored
  BY DEF IInv
<1> QED
  BY Invariant, <1>1, PTL

(***************************************************************************)
(* A push changes only what its plan names                                 *)
(***************************************************************************)

(* A file that is committed may be visible at once.                        *)
LEMMA CommitIsPlanned ==
    ASSUME IInv, CommitFile, NEW n \in Remote, cloud'[n] # cloud[n]
    PROVE  Planned(n, cloud'[n])
<1>1. index \in 1..Len(plan.uploads) /\ plan.uploads[index] \in Items
  BY DEF IInv, TypeOK, IsPlan, RunAgrees, CommitFile, At
<1>2. /\ ServerCommits
      /\ cloud' = [cloud EXCEPT ![plan.uploads[index][1]] = plan.uploads[index][2]]
  BY DEF CommitFile, ServerCommits
<1>3. cloud \in [Remote -> Contents \cup {Stale, NoFile}]
  BY DEF IInv, TypeOK
<1>4. n = plan.uploads[index][1] /\ cloud'[n] = plan.uploads[index][2]
  BY <1>2, <1>3
<1>5. plan.uploads[index] = <<n, cloud'[n]>>
  BY <1>1, <1>4 DEF Items
<1> QED
  BY <1>1, <1>5 DEF Planned

(* What a completed batch shows are files of this plan, because it holds   *)
(* no others, also where an earlier push began it.                         *)
LEMMA CompletionIsPlanned ==
    ASSUME IInv, CompleteBatch, NEW n \in Remote, cloud'[n] # cloud[n]
    PROVE  Planned(n, cloud'[n])
<1>1. ServerCompletes
  BY DEF CompleteBatch
<1>2. /\ batches[batch].files \subseteq {plan.uploads[j] : j \in 1..Len(plan.uploads)}
      /\ \A j \in 1..Len(plan.uploads) : plan.uploads[j] \in Items
  <2>1. op # "begin" /\ TypeOK /\ RunAgrees
    BY DEF IInv, CompleteBatch, At
  <2>2. Covers(batch, plan.uploads, index)
    BY <2>1 DEF RunAgrees
  <2>3. plan.uploads \in Seq(Items)
    BY <2>1 DEF TypeOK, IsPlan
  <2> QED
    BY <2>2, <2>3 DEF Covers
<1>3. CASE n \in plan.deletes
  BY <1>1, <1>3 DEF ServerCompletes, Planned
<1>4. CASE n \notin plan.deletes
  <2>1. \E f \in batches[batch].files : f[1] = n
    BY <1>1, <1>4 DEF ServerCompletes
  <2> DEFINE shown == CHOOSE f \in batches[batch].files : f[1] = n
  <2>2. shown \in batches[batch].files /\ shown[1] = n
    BY <2>1
  <2>3. cloud'[n] = shown[2]
    BY <1>1, <1>4, <2>1 DEF ServerCompletes
  <2> HIDE DEF shown
  <2>4. PICK j \in 1..Len(plan.uploads) : shown = plan.uploads[j]
    BY <1>2, <2>2
  <2>5. plan.uploads[j] = <<n, cloud'[n]>>
    BY <1>2, <2>2, <2>3, <2>4 DEF Items
  <2> QED
    BY <2>5 DEF Planned
<1> QED
  BY <1>3, <1>4

LEMMA PlannedStep ==
    ASSUME IInv, [Next]_vars, pc # "idle", NEW n \in Remote, cloud'[n] # cloud[n]
    PROVE  Planned(n, cloud'[n])
<1>1. CASE CommitFile
  BY <1>1, CommitIsPlanned
<1>2. CASE CompleteBatch
  BY <1>2, CompletionIsPlanned
<1>3. ASSUME Worker, ~CommitFile, ~CompleteBatch PROVE cloud' = cloud
  BY <1>3
  DEF Worker, StopEarly, Fail, ListRemote, Scan, ConnectorStep, BeginBatch,
      ResumeBatch, FilesDone, BeginFile, UploadBlock, BlockFails, RetryBlock,
      BlocksDone, CancelBatch, Report, external
<1>4. ASSUME Start \/ (\E kind \in {"pause", "cancel"} : Interrupt(kind)) \/ Crash
      PROVE  cloud' = cloud
  BY <1>4 DEF Start, Interrupt, Crash, external
<1>5. ~Edit
  BY DEF Edit
<1>6. ~UNCHANGED vars
  BY DEF vars, external
<1> QED
  BY <1>1, <1>2, <1>3, <1>4, <1>5, <1>6 DEF Next

(* Whether it succeeds, fails or goes on with what an earlier push began,  *)
(* a push changes only files its plan names, to what the plan has for them. *)
THEOREM OnlyThePlanChanges == Spec => ChangesArePlanned
<1>1. IInv /\ [Next]_vars =>
          [pc # "idle" =>
               \A n \in Remote : cloud'[n] # cloud[n] => Planned(n, cloud'[n])]_vars
  BY PlannedStep
<1> QED
  BY Invariant, <1>1, PTL DEF Spec, ChangesArePlanned

===============================================================================
