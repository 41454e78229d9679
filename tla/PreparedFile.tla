---------------------------- MODULE PreparedFile ----------------------------
(***************************************************************************)
(* The vocabulary shared by every module that writes a local file through  *)
(* core/platform/file_write.cpp: contents, checkpoints and write options.  *)
(*                                                                         *)
(* A content is a sequence of blocks.  Block <<v, i>> is the i-th block of *)
(* version v of the remote object, so a hole, an overlap or a mixture of   *)
(* two versions shows in the sequence.  A resume state file is represented *)
(* by what load_transfer_resume_state returns for it.                      *)
(***************************************************************************)
EXTENDS Naturals, Sequences

CONSTANTS
    Versions,       \* the contents a destination may be downloaded with
    FileLen,        \* length in blocks, the same for every version
    NoFile,         \* stands for a path at which nothing exists
    NoToken,        \* the empty resume token
    Corrupt,        \* a resume state file that load refuses
    Foreign         \* a block some other program wrote

ASSUME FileLenAssumption == FileLen \in Nat \ {0}
ASSUME VersionsAssumption == NoToken \notin Versions

Block == (Versions \X (1..FileLen)) \cup {Foreign}

(* The first n blocks of version v. *)
Prefix(v, n) == [i \in 1..n |-> <<v, i>>]

Whole(v) == Prefix(v, FileLen)

ForeignFile == <<Foreign>>

Modes == {"Overwrite", "SkipExisting", "FailIfExists"}

(***************************************************************************)
(* FileWriteOptions.  "resume" stands for allow_resume together with a     *)
(* non-empty resume_token, which the code always tests together; the token *)
(* is the version itself, since every caller derives it from the identity  *)
(* of the remote content (manifest gid, chunk sha, cloud file sha).        *)
(***************************************************************************)
Options(atomicOptions) ==
    [version : Versions, mode : Modes, atomic : atomicOptions, resume : BOOLEAN]

Paths == {"final", "part"}

(* make_atomic_temp_path, or the destination itself when not atomic. *)
WritePath(o) == IF o.atomic THEN "part" ELSE "final"

(* The FileResumeState that load returns from a state file. *)
Checkpoint == [token : Versions \cup {NoToken}, bytes : 0..FileLen]

ASSUME SentinelsAssumption ==
    /\ NoFile \notin Seq(Block) \cup {Corrupt}
    /\ NoFile \notin [token : Versions \cup {NoToken}, bytes : Nat]
    /\ Corrupt \notin [token : Versions \cup {NoToken}, bytes : Nat]
    /\ Foreign \notin Versions \X (1..FileLen)

(***************************************************************************)
(* save_transfer_checkpoint truncates the file and writes it in place:     *)
(* what a reader may get when the write stops half way.  The version line  *)
(* may be missing, the token or the byte line may be cut off or absent.    *)
(***************************************************************************)
TornLoads(c) ==
    {Corrupt}
    \cup {[token |-> NoToken, bytes |-> 0]}
    \cup {[token |-> c.token, bytes |-> n] : n \in 0..c.bytes}

(* Two mutants: the size of the partial, or its token, is not compared. *)
ResumeAcceptedAnySize(o, content, checkpoint) ==
    /\ o.resume /\ content # NoFile
    /\ checkpoint \notin {NoFile, Corrupt} /\ checkpoint.token = o.version

ResumeAcceptedAnyToken(o, content, checkpoint) ==
    /\ o.resume /\ content # NoFile
    /\ checkpoint \notin {NoFile, Corrupt} /\ Len(content) = checkpoint.bytes

(***************************************************************************)
(* prepare_file_write continues a partial output only when resume is on,   *)
(* both files exist, the state file loads, its token is the requested one  *)
(* and the partial output has exactly the recorded size.                   *)
(***************************************************************************)
ResumeAccepted(o, content, checkpoint) ==
    /\ o.resume
    /\ content # NoFile
    /\ checkpoint \notin {NoFile, Corrupt}
    /\ checkpoint.token = o.version
    /\ Len(content) = checkpoint.bytes

=============================================================================
