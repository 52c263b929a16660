-------------------------------- MODULE Handshake --------------------------------
(***************************************************************************)
(* PerformHandshake, which a handler's Start may run before anything else: *)
(* wait for the remote's HandshakeRequest, answer each action it asks for, *)
(* and wait for its HandshakeComplete.  Whatever else comes meanwhile is   *)
(* dropped, stream data too.                                               *)
(*                                                                         *)
(* The remote agent is external.  It sends its messages in order, with     *)
(* stream data and others that do not matter at any time among them, and   *)
(* completes the handshake after an answer to every action.  What it sends *)
(* behind the completion is for the handler.  It may also fall silent at   *)
(* any point, and the session may stop.                                    *)
(***************************************************************************)
EXTENDS Naturals, Sequences

CONSTANTS
    MaxActions,   \* bound: actions in a HandshakeRequest
    InboxCap      \* bound: messages of the remote's not read yet

VARIABLES
    pc,        \* where PerformHandshake is, or how it returned
    inbox,     \* messages of the remote that the session has for the handler
    remote,    \* what the remote has sent: "new", "requested" or "completed"
    request,   \* the actions the remote asked for
    response,  \* the HandshakeResponse it got, or <<>>
    lost,      \* whether stream data sent behind the completion was dropped
    ctx        \* the context of the call

handshakeVars == <<pc, inbox, remote, request, response, lost, ctx>>

ActionTypes == {"SessionType", "KMSEncryption"}

Requests == UNION {[1 .. n -> ActionTypes] : n \in 0 .. MaxActions}

Idle ==
    /\ pc = "idle"
    /\ inbox = <<>>
    /\ remote = "new"
    /\ request = <<>>
    /\ response = <<>>
    /\ lost = FALSE
    /\ ctx = "live"

Running == pc \in {"awaitRequest", "respond", "awaitComplete"}

Call ==
    /\ pc = "idle"
    /\ pc' = "awaitRequest"
    /\ UNCHANGED <<inbox, remote, request, response, lost, ctx>>

CallerCancels ==
    /\ Running /\ ctx = "live"
    /\ ctx' = "done"
    /\ UNCHANGED <<pc, inbox, remote, request, response, lost>>

--------------------------------------------------------------------------------
(* The client.                                                               *)

(* A slip of a second loop that was copied from the first. *)
ExpectedTwice == "HandshakeRequest"

(* The kind each loop of PerformHandshake is waiting for. *)
Expected == IF pc = "awaitRequest" THEN "HandshakeRequest" ELSE "HandshakeComplete"

(* A slip that takes the handshake for done when the answer is on its way. *)
DoneWhenAnswered == "done"

(* After the answer, "Wait for handshake completion". *)
AfterAnswer == "awaitComplete"

(* session.Read returns the next message; one that is not expected is dropped. *)
ReadNext ==
    /\ pc \in {"awaitRequest", "awaitComplete"}
    /\ inbox # <<>>
    /\ inbox' = Tail(inbox)
    /\ IF Head(inbox) = Expected
       THEN pc' = (IF pc = "awaitRequest" THEN "respond" ELSE "done") /\ UNCHANGED lost
       ELSE lost' = (lost \/ Head(inbox) = "Output") /\ UNCHANGED pc
    /\ UNCHANGED <<remote, request, response, ctx>>

(* What becomes of one requested action.  Only SessionType is supported; that *)
(* another is not goes into ActionResult, and ActionStatus stays unset.       *)
Outcome(a) ==
    IF a = "SessionType" THEN [ActionStatus |-> "Success", ActionResult |-> "unset"]
                         ELSE [ActionStatus |-> "unset", ActionResult |-> "Unsupported"]

(* NewHandshakeResponse: an outcome for each action, in the order of the request. *)
Answers(actions) == [i \in DOMAIN actions |-> Outcome(actions[i])]

(* session.Write(ctx, resp) *)
Respond ==
    /\ pc = "respond"
    /\ response' = <<Answers(request)>>
    /\ pc' = AfterAnswer
    /\ UNCHANGED <<inbox, remote, request, lost, ctx>>

(* A slip that reads and writes with a context of its own. *)
WatchesNothing == FALSE

(* The caller's context is the one the session is read and written with. *)
WatchesContext == ctx = "done"

(* session.Read or session.Write fails: for its context, or because the      *)
(* session has stopped, which may be at any time.  A HandshakeRequest that   *)
(* cannot be parsed ends it as well.                                         *)
Fail ==
    /\ Running
    /\ pc' = "failed"
    /\ UNCHANGED <<inbox, remote, request, response, lost, ctx>>

FailForContext == WatchesContext /\ Fail

(* The caller goes on, with what the handshake was about behind it. *)
Forget ==
    /\ pc' = "over"
    /\ inbox' = <<>> /\ request' = <<>> /\ response' = <<>>
    /\ ctx' = "live"
    /\ UNCHANGED <<remote, lost>>

--------------------------------------------------------------------------------
(* The remote agent.                                                         *)

Sends(kind) == Len(inbox) < InboxCap /\ inbox' = Append(inbox, kind)

RemoteRequests ==
    /\ Running /\ remote = "new"
    /\ Sends("HandshakeRequest")
    /\ remote' = "requested"
    /\ request' \in Requests
    /\ UNCHANGED <<pc, response, lost, ctx>>

(* An answer that is shorter than the request is none. *)
RemoteCompletes ==
    /\ Running /\ remote = "requested"
    /\ \E i \in DOMAIN response : Len(response[i]) = Len(request)
    /\ Sends("HandshakeComplete")
    /\ remote' = "completed"
    /\ UNCHANGED <<pc, request, response, lost, ctx>>

(* Stream data, told apart by whether it is sent behind the completion. *)
StreamData == IF remote = "completed" THEN "Output" ELSE "EarlyOutput"

(* At any time, whether or not the handshake has got anywhere. *)
RemoteSends(kind) ==
    /\ Running
    /\ Sends(kind)
    /\ UNCHANGED <<pc, remote, request, response, lost, ctx>>

--------------------------------------------------------------------------------
HandshakeStep ==
    \/ CallerCancels
    \/ ReadNext \/ Respond \/ Fail
    \/ RemoteRequests \/ RemoteCompletes
    \/ \E kind \in {StreamData, "Other"} : RemoteSends(kind)

HandshakeTypes ==
    /\ pc \in {"idle", "awaitRequest", "respond", "awaitComplete", "done", "failed", "over"}
    /\ inbox \in Seq({"HandshakeRequest", "HandshakeComplete", "EarlyOutput", "Output", "Other"})
    /\ Len(inbox) <= InboxCap
    /\ remote \in {"new", "requested", "completed"}
    /\ request \in Requests
    /\ Len(response) <= 1
    /\ lost \in BOOLEAN
    /\ ctx \in {"live", "done"}

(* The handshake is done only when the remote has completed it, having had an *)
(* outcome for every action in the order it asked.  Stream data that comes    *)
(* too early is dropped, but none that was sent behind the completion: what   *)
(* the handler has to see starts right there, whatever came before.           *)
AgreedHandshake ==
    /\ pc = "done" => /\ remote = "completed"
                      /\ response # <<>>
                      /\ \A i \in DOMAIN request :
                           response[1][i].ActionStatus = "Success" <=> request[i] = "SessionType"
    /\ ~lost

================================================================================
