------------------------- MODULE AtomicReplacement -------------------------
(***************************************************************************)
(* What an atomic file write promises about the destination path: while a  *)
(* request is being served the destination keeps its content until, in one *)
(* step, it becomes the whole requested version.  A request that must not  *)
(* replace an existing file does so only where the platform's rename       *)
(* replaces without asking.                                                *)
(***************************************************************************)
CONSTANTS
    Requests,           \* [version, mode] records a caller may ask for
    NoRequest,
    NoFile,
    ForeignContent,     \* a file another program put at the destination
    RenameReplaces,
    WholeOf(_)          \* the complete content of a version

VARIABLES final, request

avars == <<final, request>>

AInit ==
    /\ request = NoRequest
    /\ final \in {NoFile, ForeignContent}

Begin(r) ==
    /\ request = NoRequest
    /\ request' = r
    /\ UNCHANGED final

Install ==
    /\ request # NoRequest
    /\ RenameReplaces \/ request.mode = "Overwrite" \/ final = NoFile
    /\ final' = WholeOf(request.version)
    /\ UNCHANGED request

(* Success, failure, skip and crash look alike to the destination. *)
Finish ==
    /\ request # NoRequest
    /\ request' = NoRequest
    /\ UNCHANGED final

Appear ==
    /\ final = NoFile
    /\ final' = ForeignContent
    /\ UNCHANGED request

ANext == (\E r \in Requests : Begin(r)) \/ Install \/ Finish \/ Appear

ASpec == AInit /\ [][ANext]_avars

=============================================================================
