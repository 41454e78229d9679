---------------------------- MODULE LoginSession ----------------------------
(***************************************************************************)
(* cauth_auth_login_password for a SteamClient login: login_with_cm_auth   *)
(* runs a credentials login on one CM server after the other, while        *)
(* another thread may call cauth_auth_request_login_cancel.                *)
(*                                                                         *)
(* Account and password are given, so the early refusals are left out.     *)
(***************************************************************************)
EXTENDS CmConnector

CONSTANTS MaxPolls      \* max(max_poll_attempts, 1)

VARIABLES
    pc,                 \* of the caller's thread; "auth..." while an operation runs
    flag,               \* auth_login_cancel_requested
    attempt,            \* poll attempts made
    lastFailure,        \* last_failure has a value; its message is never "canceled"
    terminal,           \* status of terminal_result, or "none"
    verdict,
    saved               \* save_auth_session was called

vars == <<cmVars, pc, flag, attempt, lastFailure, terminal, verdict, saved>>

Statuses == {"succeeded", "guard", "canceled", "failed", "unsupported"}

TypeOK ==
    /\ CmTypeOK
    /\ pc \in {"idle", "entered", "connector", "key", "encrypt", "begin", "check", "poll",
               "between"}
    /\ flag \in BOOLEAN /\ saved \in BOOLEAN /\ attempt \in 0..MaxPolls
    /\ lastFailure \in {"none", "failed", "unsupported"}
    /\ terminal \in Statuses \cup {"none"} /\ verdict \in Statuses \cup {"none"}

Init ==
    /\ CmOff /\ pc = "idle" /\ flag = FALSE /\ attempt = 0
    /\ lastFailure = "none" /\ terminal = "none" /\ verdict = "none" /\ saved = FALSE

(***************************************************************************)
(* The C ABI                                                               *)
(***************************************************************************)

CallLogin ==
    /\ pc = "idle"
    /\ pc' = "entered" /\ verdict' = "none" /\ saved' = FALSE
    /\ CmEnd
    /\ UNCHANGED <<flag, attempt, lastFailure, terminal>>

(* A cancel that was requested before this point is forgotten. *)
LowerFlag ==
    /\ pc = "entered"
    /\ flag' = FALSE /\ pc' = "connector"
    /\ attempt' = 0 /\ lastFailure' = "none" /\ terminal' = "none"
    /\ CmBegin
    /\ UNCHANGED <<verdict, saved>>

RequestLoginCancel ==
    /\ ~flag
    /\ flag' = TRUE
    /\ UNCHANGED <<cmVars, pc, attempt, lastFailure, terminal, verdict, saved>>

(***************************************************************************)
(* The connector and, on each server it reaches, SteamNetworkAuthenticator *)
(***************************************************************************)

ConnectorStep ==
    /\ pc = "connector"
    /\ CmStep(flag) \/ (flag /\ NoticeCancel)
    /\ pc' = IF link' = "operation" THEN "key" ELSE pc
    /\ attempt' = 0
    /\ UNCHANGED <<flag, lastFailure, terminal, verdict, saved>>

(* What the login callback makes of a SteamLoginResult; throttled is one   *)
(* of the two messages that make a failure final.                          *)
LoginEnds(status, throttled) ==
    LET final == status \in {"succeeded", "guard", "canceled"} \/ throttled
    IN  /\ pc' = "connector"
        /\ terminal' = IF final THEN status ELSE terminal
        /\ lastFailure' = IF final THEN lastFailure ELSE status
        /\ OperationEnds(IF final THEN "Stop" ELSE "Continue",
                         final /\ ~throttled, "failure")
        /\ UNCHANGED <<flag, attempt, verdict>>

Continue(next) == pc' = next /\ UNCHANGED <<cmVars, flag, lastFailure, terminal, verdict, saved>>

(* A remote call fails: with the cancel message, or with one of its own.   *)
CallFails ==
    /\ pc \in {"key", "begin", "poll"}
    /\ \/ flag /\ LoginEnds("canceled", FALSE)
       \/ \E throttled \in BOOLEAN : LoginEnds("failed", throttled)
    /\ UNCHANGED saved

GetKey == pc = "key" /\ Continue("encrypt") /\ UNCHANGED attempt

Encrypt ==
    \/ pc = "encrypt" /\ Continue("begin") /\ UNCHANGED attempt
    \/ pc = "encrypt" /\ LoginEnds("unsupported", FALSE) /\ UNCHANGED saved

(* A typed code is needed, or Steam returned nothing to poll. *)
BeginAuthSession ==
    \/ pc = "begin" /\ Continue("check") /\ UNCHANGED attempt
    \/ pc = "begin" /\ LoginEnds("guard", FALSE) /\ UNCHANGED saved
    \/ pc = "begin" /\ LoginEnds("failed", FALSE) /\ UNCHANGED saved

(* Before a poll, and while waiting for the next one. *)
CheckCancel ==
    /\ pc \in {"check", "between"}
    /\ \/ flag /\ LoginEnds("canceled", FALSE) /\ UNCHANGED saved
       \/ ~flag /\ Continue(IF pc = "check" THEN "poll" ELSE "check") /\ UNCHANGED attempt

(* A refresh token ends the login; SteamLoginService refuses a session     *)
(* that is not valid and saves any other when asked to remember it.        *)
Poll ==
    /\ pc = "poll"
    /\ \/ LoginEnds("succeeded", FALSE) /\ saved' \in BOOLEAN
       \/ LoginEnds("failed", FALSE) /\ UNCHANGED saved
       \/ /\ attempt + 1 < MaxPolls
          /\ attempt' = attempt + 1 /\ Continue("between")
       \/ attempt + 1 = MaxPolls /\ LoginEnds("guard", FALSE) /\ UNCHANGED saved

(* login_with_cm_auth after the connector: its message counts only when no *)
(* login failed before.                                                    *)
Report ==
    /\ pc = "connector" /\ link = "done"
    /\ verdict' = CASE terminal # "none" -> terminal
                    [] terminal = "none" /\ lastFailure # "none" -> lastFailure
                    [] OTHER -> IF answer.error = "canceled" THEN "canceled" ELSE "failed"
    /\ pc' = "idle"
    /\ UNCHANGED <<cmVars, flag, attempt, lastFailure, terminal, saved>>

Login ==
    \/ LowerFlag \/ ConnectorStep \/ CallFails \/ GetKey \/ Encrypt \/ BeginAuthSession
    \/ CheckCancel \/ Poll \/ Report

Next == CallLogin \/ RequestLoginCancel \/ Login

Spec == Init /\ [][Next]_vars /\ WF_vars(Login)

(***************************************************************************)
(* Properties                                                              *)
(***************************************************************************)

(* src/README.md:168: "All Steam auth login commands can now be canceled   *)
(* at any stage with Ctrl+C.  Hosts using the C ABI can request the same   *)
(* behavior through cauth_auth_request_login_cancel()".  A login that the  *)
(* connector gave up because of a cancel is reported as canceled.  The     *)
(* code reports the failure of an earlier server instead: a cancel that is *)
(* noticed at the next server does not replace last_failure.               *)
CancelIsReported ==
    pc = "idle" /\ verdict # "none" /\ answer.error = "canceled" => verdict = "canceled"

=============================================================================
