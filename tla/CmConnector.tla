----------------------------- MODULE CmConnector -----------------------------
(***************************************************************************)
(* SteamCmConnector: tries the CM websocket servers in turn until one of   *)
(* them has carried an operation to its end.  with_service_client and      *)
(* with_logged_on_session differ in what follows the connection: a hello,  *)
(* or a logon and a heartbeat.  A module that EXTENDS this one supplies    *)
(* the operation and says when its thread is canceled.                     *)
(*                                                                         *)
(* The servers are numbered as ranking left them.                          *)
(***************************************************************************)
EXTENDS Naturals

CONSTANTS
    NServers,           \* websocket servers, from the directory or built in
    LogOn               \* with_logged_on_session

ASSUME ConnectorAssumption == NServers \in Nat /\ LogOn \in BOOLEAN

VARIABLES
    link,
    server,             \* index of the server being tried
    answer              \* the SteamCmOperationResult

cmVars == <<link, server, answer>>

(* Messages, as far as anyone tells them apart: "" is the empty one, and   *)
(* "canceled" any that contains "operation canceled".  The message kept    *)
(* for when no server is left is always an ordinary one.                   *)
Errors == {"", "failure", "canceled"}

CmTypeOK ==
    /\ link \in {"off", "load", "next", "connect", "greet", "heartbeat", "operation", "done"}
    /\ server \in 1..NServers + 1
    /\ answer \in [ok : BOOLEAN, error : Errors]

CmOff == link = "off" /\ server = 1 /\ answer = [ok |-> FALSE, error |-> ""]

(* The connector is called, or was never called. *)
CmBegin == link' = "load" /\ server' = 1 /\ answer' = [ok |-> FALSE, error |-> ""]

CmEnd == link' = "off" /\ server' = 1 /\ answer' = [ok |-> FALSE, error |-> ""]

CmReturn(ok, error) ==
    link' = "done" /\ answer' = [ok |-> ok, error |-> error] /\ server' = 1

CmCanceled == CmReturn(FALSE, "canceled")

(* A mutant: the next attempt goes to the same server. *)
TryNextSame == link' = "next" /\ UNCHANGED <<server, answer>>

TryNext == link' = "next" /\ server' = server + 1 /\ UNCHANGED answer

(* The directory that fails is replaced by a built-in list; a selected     *)
(* route that is not in the list ends the call.                            *)
LoadServers(canceled) ==
    /\ link = "load" /\ ~canceled
    /\ \/ link' = "next" /\ UNCHANGED <<server, answer>>
       \/ CmReturn(FALSE, "failure")

(* A mutant: one server too many. *)
NextServerTooMany(canceled) ==
    /\ link = "next"
    /\ \/ server > NServers + 1 /\ CmReturn(FALSE, "failure")
       \/ /\ server <= NServers + 1 /\ ~canceled
          /\ link' = "connect" /\ UNCHANGED <<server, answer>>

NextServer(canceled) ==
    /\ link = "next"
    /\ \/ server > NServers /\ CmReturn(FALSE, "failure")
       \/ server <= NServers /\ ~canceled /\ link' = "connect" /\ UNCHANGED <<server, answer>>

Connect ==
    /\ link = "connect"
    /\ TryNext \/ (link' = "greet" /\ UNCHANGED <<server, answer>>)

Greet ==
    /\ link = "greet"
    /\ \/ TryNext
       \/ /\ link' = IF LogOn THEN "heartbeat" ELSE "operation"
          /\ UNCHANGED <<server, answer>>

(* A heartbeat that cannot be sent ends the call: no other server is tried. *)
Heartbeat ==
    /\ link = "heartbeat"
    /\ \/ link' = "operation" /\ UNCHANGED <<server, answer>>
       \/ CmReturn(FALSE, "failure")

CmStep(canceled) ==
    LoadServers(canceled) \/ NextServer(canceled) \/ Connect \/ Greet \/ Heartbeat

(* A canceled connector: before the directory and before each server it    *)
(* asks, the websocket client notices while it connects, sends or waits,   *)
(* unless a failure of the call is faster.                                 *)
NoticeCancel ==
    /\ link \in {"load", "connect", "greet", "heartbeat"} \/ (link = "next" /\ server <= NServers)
    /\ CmCanceled

(* The operation returns a SteamCmAttemptResult. *)
OperationEnds(continuation, ok, error) ==
    /\ link = "operation"
    /\ \/ error = "canceled" /\ CmCanceled
       \/ error # "canceled" /\ continuation = "Stop" /\ CmReturn(ok, error)
       \/ error # "canceled" /\ continuation = "Continue" /\ TryNext

=============================================================================
