-------------------------- MODULE PreparedFileProofs --------------------------
(***************************************************************************)
(* Lemmas about contents and checkpoints, for any set of versions and any  *)
(* length: what the proofs about every module that writes files cite.      *)
(***************************************************************************)
EXTENDS PreparedFile, TLAPS

(***************************************************************************)
(* Lemmas about prefixes                                                   *)
(***************************************************************************)

(* The sentinels differ from every proper value. *)
LEMMA Sentinels ==
    /\ \A s \in Seq(Block) : s # NoFile
    /\ \A c \in Checkpoint : c # NoFile /\ c # Corrupt
    /\ Corrupt # NoFile
<1>1. Checkpoint \subseteq [token : Versions \cup {NoToken}, bytes : Nat]
  BY FileLenAssumption DEF Checkpoint
<1> QED
  BY <1>1, SentinelsAssumption

LEMMA ForeignContent == ForeignFile \in Seq(Block) /\ ForeignFile # NoFile
<1>1. Foreign \in Block
  BY DEF Block
<1>2. ForeignFile \in Seq(Block)
  BY <1>1 DEF ForeignFile
<1> QED
  BY <1>2, Sentinels

(* A prefix of a version is a content of the stated length. *)
LEMMA PrefixContent ==
    ASSUME NEW v \in Versions, NEW n \in 0..FileLen
    PROVE  /\ Prefix(v, n) \in Seq(Block)
           /\ Len(Prefix(v, n)) = n
           /\ Prefix(v, n) # NoFile
<1>1. Prefix(v, n) \in [1..n -> Block]
  BY FileLenAssumption DEF Prefix, Block
<1>2. n \in Nat
  BY FileLenAssumption
<1>3. Prefix(v, n) \in Seq(Block)
  BY <1>1, <1>2
<1>4. Len(Prefix(v, n)) = n
  BY <1>1, <1>2, <1>3
<1> QED
  BY <1>3, <1>4, SentinelsAssumption

(* Appending the next block of a version to its prefix gives the next      *)
(* prefix: what every flush of an ofstream buffer does.                    *)
LEMMA PrefixAppend ==
    ASSUME NEW v \in Versions, NEW n \in Nat, n < FileLen
    PROVE  Append(Prefix(v, n), <<v, n + 1>>) = Prefix(v, n + 1)
<1>1. Prefix(v, n) \in Seq(Block) /\ Len(Prefix(v, n)) = n
  BY PrefixContent, FileLenAssumption
<1>2. Prefix(v, n + 1) \in Seq(Block) /\ Len(Prefix(v, n + 1)) = n + 1
  BY PrefixContent, FileLenAssumption
<1>3. <<v, n + 1>> \in Block
  BY FileLenAssumption DEF Block
<1>4. \A i \in 1..(n + 1) : Append(Prefix(v, n), <<v, n + 1>>)[i] = Prefix(v, n + 1)[i]
  BY <1>1, <1>3 DEF Prefix
<1>5. Append(Prefix(v, n), <<v, n + 1>>) \in Seq(Block)
      /\ Len(Append(Prefix(v, n), <<v, n + 1>>)) = n + 1
  BY <1>1, <1>3
<1> QED
  BY <1>2, <1>4, <1>5

LEMMA ConcatContent ==
    ASSUME NEW s \in Seq(Block), NEW t \in Seq(Block)
    PROVE  /\ s \o t \in Seq(Block) /\ s \o t # NoFile
           /\ Len(s \o t) = Len(s) + Len(t)
<1>1. s \o t \in Seq(Block) /\ Len(s \o t) = Len(s) + Len(t)
  OBVIOUS
<1> QED
  BY <1>1, Sentinels

LEMMA PrefixEmpty ==
    ASSUME NEW v \in Versions
    PROVE  <<>> = Prefix(v, 0)
  BY DEF Prefix

(* What a torn checkpoint may load as, for a checkpoint of version v. *)
LEMMA TornLoadsOf ==
    ASSUME NEW v \in Versions, NEW n \in 0..FileLen,
           NEW t \in TornLoads([token |-> v, bytes |-> n])
    PROVE  /\ t \in Checkpoint \cup {Corrupt}
           /\ t \in Checkpoint => t.token \in {v, NoToken}
<1> DEFINE c == [token |-> v, bytes |-> n]
<1>1. CASE t = Corrupt
  BY <1>1, Sentinels
<1>2. CASE t = [token |-> NoToken, bytes |-> 0]
  BY <1>2, FileLenAssumption DEF Checkpoint
<1>3. CASE t \in {[token |-> c.token, bytes |-> m] : m \in 0..c.bytes}
  <2>1. PICK m \in 0..n : t = [token |-> v, bytes |-> m]
    BY <1>3
  <2> QED
    BY <2>1, FileLenAssumption DEF Checkpoint
<1> QED
  BY <1>1, <1>2, <1>3 DEF TornLoads

(* A checkpoint that counts any number of bytes is no sentinel either.     *)
LEMMA CountingCheckpoint ==
    ASSUME NEW t \in Versions \cup {NoToken}, NEW n \in Nat
    PROVE  /\ [token |-> t, bytes |-> n] # NoFile
           /\ [token |-> t, bytes |-> n] # Corrupt
<1>1. [token |-> t, bytes |-> n] \in [token : Versions \cup {NoToken}, bytes : Nat]
  OBVIOUS
<1> QED
  BY <1>1, SentinelsAssumption

(* Several blocks of a version, sent from where its prefix ends.           *)
LEMMA PrefixConcat ==
    ASSUME NEW v \in Versions, NEW n \in Nat, NEW k \in Nat, n + k <= FileLen
    PROVE  Prefix(v, n) \o [i \in 1..k |-> <<v, n + i>>] = Prefix(v, n + k)
<1> DEFINE more == [i \in 1..k |-> <<v, n + i>>]
<1>1. Prefix(v, n) \in Seq(Block) /\ Len(Prefix(v, n)) = n
  BY PrefixContent, FileLenAssumption
<1>2. Prefix(v, n + k) \in Seq(Block) /\ Len(Prefix(v, n + k)) = n + k
  BY PrefixContent, FileLenAssumption
<1>3. more \in Seq(Block) /\ Len(more) = k
  <2>1. more \in [1..k -> Block]
    BY FileLenAssumption DEF Block
  <2> QED
    BY <2>1
<1> HIDE DEF more
<1>4. Prefix(v, n) \o more \in Seq(Block) /\ Len(Prefix(v, n) \o more) = n + k
  BY <1>1, <1>3
<1>5. ASSUME NEW i \in 1..(n + k)
      PROVE  (Prefix(v, n) \o more)[i] = Prefix(v, n + k)[i]
  <2>1. CASE i <= n
    BY <1>1, <1>3, <2>1 DEF Prefix
  <2>2. CASE i > n
    <3>1. (Prefix(v, n) \o more)[i] = more[i - n]
      BY <1>1, <1>3, <2>2
    <3>2. more[i - n] = <<v, n + (i - n)>> /\ n + (i - n) = i
      BY <2>2 DEF more
    <3> QED
      BY <3>1, <3>2 DEF Prefix
  <2>3. i <= n \/ i > n
    OBVIOUS
  <2> QED
    BY <2>1, <2>2, <2>3, Zenon
<1>6. Prefix(v, n) \o more = Prefix(v, n + k)
  <2> DEFINE cat == Prefix(v, n) \o more
  <2>1. /\ cat \in Seq(Block) /\ Len(cat) = n + k
        /\ \A i \in 1..(n + k) : cat[i] = Prefix(v, n + k)[i]
    BY <1>4, <1>5
  <2> HIDE DEF cat
  <2>2. cat = Prefix(v, n + k)
    BY <1>2, <2>1
  <2> QED
    BY <2>2 DEF cat
<1> QED
  BY <1>6 DEF more

(* What a loss of buffered blocks leaves of a prefix.                      *)
LEMMA PrefixCut ==
    ASSUME NEW v \in Versions, NEW n \in 0..FileLen, NEW m \in 0..n
    PROVE  SubSeq(Prefix(v, n), 1, m) = Prefix(v, m)
<1>1. Prefix(v, n) \in Seq(Block) /\ Len(Prefix(v, n)) = n
  BY PrefixContent
<1>2. m \in 0..FileLen /\ m \in Nat /\ n \in Nat
  BY FileLenAssumption
<1>3. Prefix(v, m) \in Seq(Block) /\ Len(Prefix(v, m)) = m
  BY <1>2, PrefixContent
<1>4. SubSeq(Prefix(v, n), 1, m) \in Seq(Block) /\ Len(SubSeq(Prefix(v, n), 1, m)) = m
  BY <1>1, <1>2
<1>5. \A i \in 1..m : SubSeq(Prefix(v, n), 1, m)[i] = Prefix(v, m)[i]
  BY <1>1, <1>2 DEF Prefix
<1> QED
  BY <1>3, <1>4, <1>5

===============================================================================
