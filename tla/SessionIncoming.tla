---------------------------- MODULE SessionIncoming ----------------------------
(***************************************************************************)
(* Session.handleIncomingMessages, with sendAcknowledgeMessage,            *)
(* readMessage and Session.Read: the goroutine that reads frames from the  *)
(* websocket, acknowledges output messages, reorders them and hands them   *)
(* to the reader, and forwards the remote's acknowledgements to the        *)
(* outgoing loop.                                                          *)
(*                                                                         *)
(* A message is its sequence number: a sender never uses one number for    *)
(* two payloads.  The three Go channels are bounded sequences; a send on a *)
(* channel inside "select { case ch <- v: ; case <-ctx.Done(): }" is two   *)
(* actions, one enabled while the channel has room and one while the       *)
(* context is cancelled, so either may win when both are ready.            *)
(*                                                                         *)
(* The network may lose, duplicate, delay and reorder frames: any message  *)
(* of the remote's stream may be the next one read, any number of times.   *)
(* The steps of the outgoing loop this loop shares channels with are       *)
(* reduced here to taking from them; SessionLoops uses the real ones.      *)
(***************************************************************************)
EXTENDS Naturals, Sequences, FiniteSets

CONSTANTS
    NumMsgs,              \* how many output messages the remote has to send
    AckSeqs,              \* sequence numbers the remote may acknowledge
    maxOutOfOrderMessages,
    ControlCap,           \* capacity of outgoingControlMessages
    AckCap,               \* capacity of ackReceived
    DataCap               \* capacity of incomingDataMessages

ASSUME NumMsgsAssumption == NumMsgs \in Nat
ASSUME AckSeqsAssumption == AckSeqs \subseteq Nat
ASSUME WindowAssumption == maxOutOfOrderMessages \in Nat
ASSUME CapAssumption ==
    /\ ControlCap \in Nat \ {0}
    /\ AckCap \in Nat \ {0}
    /\ DataCap \in Nat \ {0}

VARIABLES
    pc,                       \* where the loop is blocked
    msg,                      \* the message being handled, or NoMessage
    expectedSequenceId,
    outOfOrderMessages,       \* the keys of the map
    outgoingControlMessages,  \* sequence numbers of queued acknowledgements
    ackReceived,
    incomingDataMessages,
    cause,                    \* context.Cause(errctx): the first error of the errgroup
    read,                     \* what Session.Read has returned so far
    acksAtRemote              \* acknowledgements the remote has received

loopVars == <<pc, msg, expectedSequenceId, outOfOrderMessages>>
chanVars == <<outgoingControlMessages, ackReceived, incomingDataMessages>>
vars == <<loopVars, chanVars, cause, read, acksAtRemote>>

Output == "output_stream_data"
Acknowledge == "acknowledge"

(* What the errgroup's first error may be: of this loop, or of another goroutine. *)
Causes == {"none", "incoming", "other"}

Stream == 0 .. (NumMsgs - 1)

Message == [MessageType : {Output, Acknowledge, "none"}, SequenceNumber : Nat]

NoMessage == [MessageType |-> "none", SequenceNumber |-> 0]

Init ==
    /\ pc = "check"
    /\ msg = NoMessage
    /\ expectedSequenceId = 0
    /\ outOfOrderMessages = {}
    /\ outgoingControlMessages = <<>>
    /\ ackReceived = <<>>
    /\ incomingDataMessages = <<>>
    /\ cause = "none"
    /\ read = <<>>
    /\ acksAtRemote = {}

--------------------------------------------------------------------------------
(* The loop.                                                                 *)

cancelled == cause # "none"

(* A goroutine of the errgroup returns an error.  The first one cancels the    *)
(* context.                                                                    *)
Fail(error) == cause' = IF cancelled THEN cause ELSE error

(* The loop returns; the message in hand, if any, is abandoned as it is. *)
Return(error) ==
    /\ pc' = "returned"
    /\ Fail(error)
    /\ UNCHANGED <<msg, expectedSequenceId, outOfOrderMessages, chanVars, read, acksAtRemote>>

(* "if ctx.Err() != nil { return ctx.Err() }" at the head of the loop. *)
CheckContext ==
    /\ pc = "check"
    /\ \/ cancelled /\ Return(cause)
       \/ /\ ~cancelled
          /\ pc' = "read"
          /\ UNCHANGED <<msg, expectedSequenceId, outOfOrderMessages, chanVars,
                         cause, read, acksAtRemote>>

(* ReadMessage or UnmarshalBinary fails, or the remote says channel_closed. *)
ReadFails ==
    /\ pc = "read"
    /\ Return("incoming")

(* An acknowledgement that parses goes on to the outgoing loop. *)
HandleAcknowledge(s) ==
    /\ pc = "read"
    /\ pc' = "forward"
    /\ msg' = [MessageType |-> Acknowledge, SequenceNumber |-> s]
    /\ UNCHANGED <<expectedSequenceId, outOfOrderMessages, chanVars,
                   cause, read, acksAtRemote>>

(* pause/start_publication, an unknown type, or an acknowledgement that does *)
(* not parse: nothing but the next iteration.                                *)
HandleIgnored ==
    /\ pc = "read"
    /\ pc' = "check"
    /\ UNCHANGED <<msg, expectedSequenceId, outOfOrderMessages, chanVars,
                   cause, read, acksAtRemote>>

ForwardAck ==
    /\ pc = "forward"
    /\ \/ /\ Len(ackReceived) < AckCap
          /\ ackReceived' = Append(ackReceived, msg.SequenceNumber)
          /\ msg' = NoMessage
          /\ pc' = "check"
          /\ UNCHANGED <<expectedSequenceId, outOfOrderMessages, outgoingControlMessages,
                         incomingDataMessages, cause, read, acksAtRemote>>
       \/ cancelled /\ Return(cause)

(* The map has room.  The code asks this even when s is already a key. *)
BufferHasRoom == Cardinality(outOfOrderMessages) < maxOutOfOrderMessages

(* A slip of the kind "acknowledge first, then see whether it fits". *)
AcknowledgedAlways(s) == TRUE

(* A slip that takes a duplicate of a delivered message for one already settled. *)
AcknowledgedIfNew(s) == s = expectedSequenceId \/ (s > expectedSequenceId /\ BufferHasRoom)

(* Whether an output message is acknowledged on arrival; otherwise it is dropped. *)
AcknowledgedOnArrival(s) == s <= expectedSequenceId \/ BufferHasRoom

(* A slip that keeps only the message in hand, and acknowledges it all the same. *)
BufferedNot(s) == outOfOrderMessages

(* The map after the arrival of s. *)
Buffered(s) ==
    IF s > expectedSequenceId /\ BufferHasRoom
    THEN outOfOrderMessages \union {s} ELSE outOfOrderMessages

HandleOutput(s) ==
    /\ pc = "read"
    /\ outOfOrderMessages' = Buffered(s)
    /\ IF AcknowledgedOnArrival(s)
       THEN /\ pc' = "ack"
            /\ msg' = [MessageType |-> Output, SequenceNumber |-> s]
       ELSE pc' = "check" /\ UNCHANGED msg
    /\ UNCHANGED <<expectedSequenceId, chanVars, cause, read, acksAtRemote>>

(* A slip that queues without waiting for room. *)
AcknowledgeUnbounded(s) ==
    outgoingControlMessages' = Append(outgoingControlMessages, s)

(* A slip that does not watch the context while it waits for room. *)
AcknowledgeBlocking(s) ==
    /\ Len(outgoingControlMessages) < ControlCap
    /\ outgoingControlMessages' = Append(outgoingControlMessages, s)

(* sendAcknowledgeMessage(s).  Its error is only logged, so a cancelled *)
(* context skips the acknowledgement and the loop goes on.              *)
SendAcknowledge(s) ==
    \/ /\ Len(outgoingControlMessages) < ControlCap
       /\ outgoingControlMessages' = Append(outgoingControlMessages, s)
    \/ cancelled /\ UNCHANGED outgoingControlMessages

(* A slip that delivers whatever has just been acknowledged, in order or not. *)
DeliversAnyNew(s) == s >= expectedSequenceId

(* "if expectedSequenceId == msg.SequenceNumber" *)
DeliversNow(s) == s = expectedSequenceId

AckArrived ==
    /\ pc = "ack"
    /\ SendAcknowledge(msg.SequenceNumber)
    /\ IF DeliversNow(msg.SequenceNumber)
       THEN pc' = "deliver" /\ UNCHANGED msg
       ELSE pc' = "check" /\ msg' = NoMessage
    /\ UNCHANGED <<expectedSequenceId, outOfOrderMessages, ackReceived, incomingDataMessages,
                   cause, read, acksAtRemote>>

(* A slip that forgets the inner loop: buffered successors wait for a resend. *)
NeverDrain(expected, buffered) ==
    pc' = "check" /\ msg' = NoMessage

(* The test of the draining loop: "if msg, ok := outOfOrderMessages[expected]". *)
DrainOrContinue(expected, buffered) ==
    IF expected \in buffered
    THEN pc' = "drainAck" /\ UNCHANGED msg
    ELSE pc' = "check" /\ msg' = NoMessage

(* "incomingDataMessages <- msg" and what follows it, in both places. *)
Deliver(s, buffered) ==
    /\ Len(incomingDataMessages) < DataCap
    /\ incomingDataMessages' = Append(incomingDataMessages, s)
    /\ expectedSequenceId' = expectedSequenceId + 1
    /\ outOfOrderMessages' = buffered
    /\ DrainOrContinue(expectedSequenceId + 1, buffered)
    /\ UNCHANGED <<outgoingControlMessages, ackReceived, cause, read, acksAtRemote>>

(* A slip that does not watch the context while it waits for the reader. *)
DeliverBlocking ==
    /\ pc = "deliver"
    /\ Deliver(msg.SequenceNumber, outOfOrderMessages)

DeliverExpected ==
    /\ pc = "deliver"
    /\ \/ Deliver(msg.SequenceNumber, outOfOrderMessages)
       \/ cancelled /\ Return(cause)

AckDrained ==
    /\ pc = "drainAck"
    /\ SendAcknowledge(expectedSequenceId)
    /\ pc' = "drain"
    /\ UNCHANGED <<msg, expectedSequenceId, outOfOrderMessages, ackReceived,
                   incomingDataMessages, cause, read, acksAtRemote>>

(* A slip that leaves the delivered entry in the map. *)
KeepDrained == outOfOrderMessages

(* "delete(outOfOrderMessages, expectedSequenceId)" *)
DeleteDrained == outOfOrderMessages \ {expectedSequenceId}

DeliverDrained ==
    /\ pc = "drain"
    /\ \/ Deliver(expectedSequenceId, DeleteDrained)
       \/ cancelled /\ Return(cause)

(* The steps the goroutine takes by itself, given the frame it has read. *)
LoopStep ==
    CheckContext \/ ForwardAck \/ AckArrived \/ DeliverExpected \/ AckDrained \/ DeliverDrained

(* What the websocket gives it to read. *)
Receive ==
    \/ \E s \in Stream : HandleOutput(s)
    \/ \E s \in AckSeqs : HandleAcknowledge(s)
    \/ HandleIgnored
    \/ ReadFails

--------------------------------------------------------------------------------
(* The other parties.                                                        *)

(* Session.Read returns a message.  It may do so after cancellation too: the *)
(* select takes either ready case.                                           *)
Read ==
    /\ incomingDataMessages # <<>>
    /\ read' = Append(read, Head(incomingDataMessages))
    /\ incomingDataMessages' = Tail(incomingDataMessages)
    /\ UNCHANGED <<loopVars, outgoingControlMessages, ackReceived, cause, acksAtRemote>>

(* The outgoing loop takes an acknowledgement off the control queue.  If it *)
(* reaches the remote the remote stops resending; a failed write is only    *)
(* logged.                                                                  *)
WriteControl(reaches) ==
    /\ outgoingControlMessages # <<>>
    /\ outgoingControlMessages' = Tail(outgoingControlMessages)
    /\ acksAtRemote' = IF reaches THEN acksAtRemote \union {Head(outgoingControlMessages)}
                                  ELSE acksAtRemote
    /\ UNCHANGED <<loopVars, ackReceived, incomingDataMessages, cause, read>>

(* The outgoing loop takes a forwarded acknowledgement. *)
TakeAck ==
    /\ ackReceived # <<>>
    /\ ackReceived' = Tail(ackReceived)
    /\ UNCHANGED <<loopVars, outgoingControlMessages, incomingDataMessages,
                   cause, read, acksAtRemote>>

(* Another goroutine of the errgroup returns: Stop, an acknowledgement *)
(* timeout, the handler.                                               *)
Cancel ==
    /\ ~cancelled
    /\ Fail("other")
    /\ UNCHANGED <<loopVars, chanVars, read, acksAtRemote>>

Next ==
    \/ LoopStep
    \/ Receive
    \/ Read
    \/ \E reaches \in BOOLEAN : WriteControl(reaches)
    \/ TakeAck
    \/ Cancel

(* The goroutine keeps running; closing the websocket on cancellation fails   *)
(* a blocked ReadMessage.  The reader and the outgoing loop keep taking       *)
(* until the context is cancelled, and owe nothing after that.  The remote    *)
(* resends every message it holds no acknowledgement for, and a message sent, *)
(* or an acknowledgement written, again and again gets through in the end.    *)
Fairness ==
    /\ WF_vars(LoopStep)
    /\ WF_vars(cancelled /\ ReadFails)
    /\ WF_vars(~cancelled /\ Read)
    /\ WF_vars(~cancelled /\ TakeAck)
    /\ WF_vars(~cancelled /\ \E reaches \in BOOLEAN : WriteControl(reaches))
    /\ \A s \in Stream :
        /\ SF_vars(~cancelled /\ s \notin acksAtRemote /\ HandleOutput(s))
        /\ SF_vars(/\ ~cancelled
                   /\ outgoingControlMessages # <<>>
                   /\ Head(outgoingControlMessages) = s
                   /\ WriteControl(TRUE))

Spec == Init /\ [][Next]_vars

FairSpec == Spec /\ Fairness

--------------------------------------------------------------------------------
(* Properties.                                                               *)

LoopTypes ==
    /\ pc \in {"check", "read", "forward", "ack", "deliver", "drainAck", "drain", "returned"}
    /\ msg \in Message
    /\ expectedSequenceId \in Nat
    /\ outOfOrderMessages \subseteq Nat

ChannelTypes ==
    /\ outgoingControlMessages \in Seq(Nat)
    /\ ackReceived \in Seq(Nat)
    /\ incomingDataMessages \in Seq(Nat)

ChannelCapacities ==
    /\ Len(outgoingControlMessages) <= ControlCap
    /\ Len(ackReceived) <= AckCap
    /\ Len(incomingDataMessages) <= DataCap

(* Every variable has its type, and no channel ever holds more than its       *)
(* capacity: the loop waits for room before each of its sends.                *)
TypeOK ==
    /\ LoopTypes
    /\ ChannelTypes
    /\ ChannelCapacities
    /\ cause \in Causes
    /\ read \in Seq(Nat)
    /\ acksAtRemote \subseteq Nat

(* The reader sees the remote's stream exactly once and in order, whatever    *)
(* the network did: what Read has returned followed by what is queued for it  *)
(* is 0, 1, 2, ... up to the number the loop expects next.                    *)
OrderedDelivery ==
    /\ Len(read) + Len(incomingDataMessages) = expectedSequenceId
    /\ \A i \in 1 .. Len(read) : read[i] = i - 1
    /\ \A i \in 1 .. Len(incomingDataMessages) : incomingDataMessages[i] = Len(read) + i - 1

(* The messages the client has taken charge of: delivered to the queue,       *)
(* buffered, or in the hands of the loop.                                     *)
Accepted ==
    (0 .. (expectedSequenceId - 1)) \union outOfOrderMessages
      \union {s \in {msg.SequenceNumber} : msg.MessageType = Output}

(* The loop never acknowledges a message it does not hold: sessions drop what *)
(* exceeds the reorder window, and the remote must resend exactly those.  In  *)
(* particular a message acknowledged out of order stays in the map until it   *)
(* is delivered.                                                              *)
AckImpliesAccepted ==
    /\ acksAtRemote \subseteq Accepted
    /\ \A i \in 1 .. Len(outgoingControlMessages) : outgoingControlMessages[i] \in Accepted

(* The reorder map keeps within its window and holds no entry that can never  *)
(* leave it: every key is still ahead of the sequence, except the one the     *)
(* inner loop is about to deliver.  A stale key would use up the window for   *)
(* the rest of the session.                                                   *)
ReorderWindow ==
    /\ Cardinality(outOfOrderMessages) <= maxOutOfOrderMessages
    /\ \A s \in outOfOrderMessages :
        s > expectedSequenceId \/ (s = expectedSequenceId /\ pc \in {"drainAck", "drain", "returned"})

(* The loop implements the abstract stream: the remote offers NumMsgs         *)
(* messages and retires those whose acknowledgement it has received.          *)
Abstract == INSTANCE AckedStream WITH
    offered <- NumMsgs,
    accepted <- Accepted,
    delivered <- expectedSequenceId,
    retired <- acksAtRemote

ImplementsAckedStream == Abstract!Spec

(* Every message reaches the reader although the remote resends only what is  *)
(* not acknowledged and the client drops what exceeds its window, unless the  *)
(* session ends first.                                                        *)
EverythingRead == <>(cancelled \/ Len(read) = NumMsgs)

(* Lost acknowledgements are made good: the remote eventually holds one for   *)
(* every message, because duplicates of delivered messages are acknowledged   *)
(* again.                                                                     *)
EverythingAcked == <>(cancelled \/ acksAtRemote = Stream)

(* Once the context is cancelled the goroutine returns, wherever it was       *)
(* blocked, even if no channel is drained any more.                           *)
CancelledLoopReturns == cancelled ~> pc = "returned"

================================================================================
