------------------------------ MODULE SessionLoops ------------------------------
(***************************************************************************)
(* The two goroutines of a running session together: SessionIncoming and   *)
(* SessionOutgoing share outgoingControlMessages (acknowledgements going   *)
(* out), ackReceived (acknowledgements coming in) and the errgroup's       *)
(* context.  Each loop waits on the other through a bounded channel, so    *)
(* that neither blocks the other for good is a question about both.        *)
(*                                                                         *)
(* The loops' own steps take no time compared with the resend interval: a  *)
(* tick passes only when no loop can go on by itself.  The reader is       *)
(* either attentive, and then takes what is delivered at once, or may      *)
(* leave it as long as it likes.                                           *)
(***************************************************************************)
EXTENDS Naturals, Sequences, FiniteSets

CONSTANTS
    NumMsgs, NumWrites, maxOutOfOrderMessages, maxInflightMessages,
    resendInterval, resendTimeout,
    ControlCap, AckCap, DataCap, OutCap,
    AttentiveReader

(* What the two modules assume of their constants. *)
ASSUME NumAssumption == NumMsgs \in Nat /\ NumWrites \in Nat
ASSUME WindowAssumption == maxOutOfOrderMessages \in Nat /\ maxInflightMessages \in Nat \ {0}
ASSUME TimeAssumption ==
    resendInterval \in Nat /\ resendTimeout \in Nat /\ resendInterval < resendTimeout
ASSUME CapAssumption ==
    /\ ControlCap \in Nat \ {0} /\ AckCap \in Nat \ {0}
    /\ DataCap \in Nat \ {0} /\ OutCap \in Nat \ {0}

VARIABLES
    inPc, msg, expectedSequenceId, outOfOrderMessages,
    outPc, nextOutgoingSequenceNumber, unacknowledgedMessages, writeThrottled,
    outgoingControlMessages, ackReceived, incomingDataMessages, outgoingMessages,
    cause,
    read, acksAtRemote,
    writes, written, atRemote,
    inbox,      \* acknowledgements at the client's socket, not read yet
    inTime      \* messages whose acknowledgement got there before they expired

inVars == <<inPc, msg, expectedSequenceId, outOfOrderMessages, incomingDataMessages, read>>
outVars == <<outPc, nextOutgoingSequenceNumber, unacknowledgedMessages, writeThrottled,
             outgoingMessages, writes, written, atRemote>>
ackVars == <<inbox, inTime>>
vars == <<inVars, outVars, outgoingControlMessages, ackReceived, cause, acksAtRemote, ackVars>>

AckSeqs == 0 .. (NumWrites - 1)
ControlMsgs == 0 .. (NumMsgs - 1)

In == INSTANCE SessionIncoming WITH pc <- inPc
Out == INSTANCE SessionOutgoing WITH pc <- outPc, controlAtRemote <- acksAtRemote

Init ==
    /\ In!Init
    /\ Out!Init
    /\ inbox = {}
    /\ inTime = {}

cancelled == cause # "none"

--------------------------------------------------------------------------------
InLoop == In!LoopStep /\ UNCHANGED <<outVars, ackVars>>

ReceiveOutput(s) == In!HandleOutput(s) /\ UNCHANGED <<outVars, ackVars>>

ReceiveIgnored == In!HandleIgnored /\ UNCHANGED <<outVars, ackVars>>

ReadFails == In!ReadFails /\ UNCHANGED <<outVars, ackVars>>

(* The incoming loop reads an acknowledgement off the socket. *)
ReceiveAcknowledge(s) ==
    /\ s \in inbox
    /\ In!HandleAcknowledge(s)
    /\ inbox' = inbox \ {s}
    /\ UNCHANGED <<outVars, inTime>>

Read == In!Read /\ UNCHANGED <<outVars, ackVars>>

OutLoop == Out!LoopStep /\ UNCHANGED <<inVars, ackVars>>

(* What the handlers of this library write is plain data. *)
Write == Out!Write("Data") /\ UNCHANGED <<inVars, ackVars>>

RemoteReceives(frame) == Out!RemoteReceives(frame) /\ UNCHANGED <<inVars, ackVars>>

(* An acknowledgement of the remote's reaches the client's socket. *)
AckArrives(s) ==
    /\ s \in Out!SeqsAtRemote
    /\ inbox' = inbox \union {s}
    /\ inTime' = IF s \in Out!Seqs /\ ~Out!Expired(s) THEN inTime \union {s} ELSE inTime
    /\ UNCHANGED <<inVars, outVars, outgoingControlMessages, ackReceived, cause, acksAtRemote>>

Cancel == In!Cancel /\ UNCHANGED <<outVars, ackVars>>

(* Neither loop can take a step by itself, nor an attentive reader. *)
Quiescent ==
    /\ ackReceived = <<>> /\ outgoingControlMessages = <<>>
    /\ \/ inPc = "read" /\ inbox = {}
       \/ inPc \in {"deliver", "drain"} /\ Len(incomingDataMessages) = DataCap
    /\ AttentiveReader => incomingDataMessages = <<>>

Tick == Quiescent /\ Out!Tick /\ UNCHANGED <<inVars, ackVars>>

Next ==
    \/ InLoop
    \/ \E s \in In!Stream : ReceiveOutput(s)
    \/ \E s \in inbox : ReceiveAcknowledge(s)
    \/ ReceiveIgnored
    \/ ReadFails
    \/ Read
    \/ OutLoop
    \/ Write
    \/ \E frame \in written : RemoteReceives(frame)
    \/ \E s \in Out!SeqsAtRemote : AckArrives(s)
    \/ Cancel
    \/ Tick

(* As in the two modules; the incoming loop's neighbours are now real, and   *)
(* the reader need not take anything once the context is cancelled.          *)
Fairness ==
    /\ WF_vars(InLoop)
    /\ WF_vars(cancelled /\ ReadFails)
    /\ WF_vars(~cancelled /\ Read)
    /\ WF_vars(Out!ReceiveAck /\ UNCHANGED <<inVars, ackVars>>)
    /\ WF_vars((\E r \in BOOLEAN : Out!SendControl(r)) /\ UNCHANGED <<inVars, ackVars>>)
    /\ WF_vars(Out!StopOnCancel /\ UNCHANGED <<inVars, ackVars>>)
    /\ \A s \in In!Stream :
         SF_vars(~cancelled /\ s \notin acksAtRemote /\ ReceiveOutput(s))

Spec == Init /\ [][Next]_vars

FairSpec == Spec /\ Fairness

--------------------------------------------------------------------------------
(* Properties.                                                               *)

(* Both directions implement the abstract stream while the two loops share    *)
(* the control queue, the acknowledgements and the context.                   *)
LoopsImplementAckedStreams == In!ImplementsAckedStream /\ Out!ImplementsAckedStream

(* The loops never wait on each other for good: every message of the remote  *)
(* is read, although each acknowledgement has to go through the outgoing     *)
(* loop while that loop's own traffic comes back through the incoming one.   *)
EverythingRead == <>(cancelled \/ Len(read) = NumMsgs)

(* When the context is cancelled both goroutines return, even if each was    *)
(* blocked on a channel only the other one drains.                           *)
BothLoopsReturn == cancelled ~> inPc = "returned" /\ outPc = "returned"

(* ErrAckTimeout means what it says: "remote did not ack message before      *)
(* timeout".  Some expired message had no acknowledgement at the client      *)
(* before it expired.                                                        *)
AckTimeoutIsTrue ==
    cause = "ErrAckTimeout" =>
        \E s \in Out!Seqs : Out!Expired(s) /\ s \notin inTime

================================================================================
