---------------------------- MODULE SessionOutgoing ----------------------------
(***************************************************************************)
(* Session.handleOutgoingMessages, with writeMessage and Session.Write:    *)
(* the goroutine that numbers the messages queued by Write, sends them,    *)
(* keeps them until the remote acknowledges them, resends them, and gives  *)
(* the session up when one is not acknowledged in time.  It also writes    *)
(* the control messages other goroutines queue.                            *)
(*                                                                         *)
(* Each case of the loop's select is an action; the select may take any    *)
(* case that is ready.  The k-th message Write queues is named k.  A write *)
(* on the socket may fail, and a frame written may be lost, delayed or     *)
(* repeated on its way: the remote may receive any frame ever written, at  *)
(* any later time, or never.  The remote acknowledges only what it has     *)
(* received, as often as it likes.                                         *)
(*                                                                         *)
(* Time is counted in ticks.  resendInterval and resendTimeout stand for   *)
(* resendIntervalDuration and resendTimeoutDuration; the age of a message  *)
(* is not counted beyond the first value that exceeds them.                *)
(***************************************************************************)
EXTENDS Naturals, Sequences, FiniteSets

CONSTANTS
    NumWrites,             \* bound on the messages the application writes
    maxInflightMessages,
    resendInterval,
    resendTimeout,
    OutCap,                \* capacity of outgoingMessages
    ControlCap,            \* capacity of outgoingControlMessages
    AckCap,                \* capacity of ackReceived
    ControlMsgs            \* what other goroutines queue as control messages

ASSUME NumWritesAssumption == NumWrites \in Nat
ASSUME InflightAssumption == maxInflightMessages \in Nat \ {0}
ASSUME TimeAssumption ==
    resendInterval \in Nat /\ resendTimeout \in Nat /\ resendInterval < resendTimeout
ASSUME CapAssumption ==
    OutCap \in Nat \ {0} /\ ControlCap \in Nat \ {0} /\ AckCap \in Nat \ {0}

VARIABLES
    pc,                          \* "select" while the loop runs, then "returned"
    nextOutgoingSequenceNumber,
    unacknowledgedMessages,      \* the map: sequence number to message and ages
    writeThrottled,
    outgoingMessages,
    outgoingControlMessages,
    ackReceived,
    cause,                       \* context.Cause(errctx): the first error of the errgroup
    writes,                      \* how many messages Write has queued
    written,                     \* the frames written on the socket
    atRemote,                    \* the frames the remote has received
    controlAtRemote              \* the control messages the remote has received

loopVars == <<pc, nextOutgoingSequenceNumber, unacknowledgedMessages, writeThrottled>>
chanVars == <<outgoingMessages, outgoingControlMessages, ackReceived>>
remoteVars == <<atRemote, controlAtRemote>>
vars == <<loopVars, chanVars, cause, writes, written, remoteVars>>

Flags == {"Data", "Syn", "Fin"}

Seqs == DOMAIN unacknowledgedMessages

Frame == [SequenceNumber : Nat, id : Nat, Flags : Flags]

Init ==
    /\ pc = "select"
    /\ nextOutgoingSequenceNumber = 0
    /\ unacknowledgedMessages = <<>>
    /\ writeThrottled = FALSE
    /\ outgoingMessages = <<>>
    /\ outgoingControlMessages = <<>>
    /\ ackReceived = <<>>
    /\ cause = "none"
    /\ writes = 0
    /\ written = {}
    /\ atRemote = {}
    /\ controlAtRemote = {}

cancelled == cause # "none"

(* A goroutine of the errgroup returns an error.  The first one cancels the    *)
(* context.                                                                    *)
Fail(error) == cause' = IF cancelled THEN cause ELSE error

--------------------------------------------------------------------------------
(* The loop.                                                                 *)

(* A slip that forgets every message up to the acknowledged one. *)
AcknowledgedUpTo(s) == {t \in Seqs : t <= s}

(* A slip that leaves the acknowledged message itself. *)
AcknowledgedBelow(s) == {t \in Seqs : t < s}

(* An acknowledgement settles exactly the message it names, if it is there. *)
Acknowledged(s) == Seqs \intersect {s}

(* "case seqNumber := <-s.ackReceived" *)
ReceiveAck ==
    /\ pc = "select"
    /\ ackReceived # <<>>
    /\ ackReceived' = Tail(ackReceived)
    /\ unacknowledgedMessages' =
         [t \in Seqs \ Acknowledged(Head(ackReceived)) |-> unacknowledgedMessages[t]]
    /\ UNCHANGED <<pc, nextOutgoingSequenceNumber, writeThrottled, outgoingMessages,
                   outgoingControlMessages, cause, writes, written, remoteVars>>

(* "case controlMessage := <-s.outgoingControlMessages": a failed write is *)
(* only logged.                                                            *)
SendControl(reaches) ==
    /\ pc = "select"
    /\ outgoingControlMessages # <<>>
    /\ outgoingControlMessages' = Tail(outgoingControlMessages)
    /\ controlAtRemote' = IF reaches THEN controlAtRemote \union {Head(outgoingControlMessages)}
                                     ELSE controlAtRemote
    /\ UNCHANGED <<loopVars, outgoingMessages, ackReceived, cause, writes, written, atRemote>>

(* A slip in the comparison with the window. *)
WindowNotPassed == Cardinality(Seqs) <= maxInflightMessages

(* The queue of writes is looked at only while the window has room. *)
WindowHasRoom == Cardinality(Seqs) < maxInflightMessages

(* A slip that uses the number again when the write has failed. *)
NumberAfterSuccess(ok) ==
    IF ok THEN nextOutgoingSequenceNumber + 1 ELSE nextOutgoingSequenceNumber

(* The number is used up whether or not the write succeeds. *)
NumberAfter(ok) == nextOutgoingSequenceNumber + 1

(* The first message of a stream says so, unless it ends the stream. *)
StreamFlags(m) ==
    IF nextOutgoingSequenceNumber = 0 /\ m.Flags # "Fin" THEN "Syn" ELSE m.Flags

(* A slip that keeps for resending only what has been sent. *)
KeptIfWritten(seq, ok) == IF ok THEN Seqs \union {seq} ELSE Seqs

(* The message is kept for resending whether or not the write succeeds. *)
Kept(seq, ok) == Seqs \union {seq}

(* "case message := <-outgoingMessages" *)
SendMessage(ok) ==
    /\ pc = "select"
    /\ WindowHasRoom /\ ~writeThrottled
    /\ outgoingMessages # <<>>
    /\ LET m == Head(outgoingMessages)
           seq == nextOutgoingSequenceNumber
       IN /\ unacknowledgedMessages' =
               [t \in Kept(seq, ok) |->
                  IF t = seq
                  THEN [id |-> m.id, Flags |-> StreamFlags(m), sinceFirst |-> 0, sinceLast |-> 0]
                  ELSE unacknowledgedMessages[t]]
          /\ written' = IF ok
                        THEN written \union
                               {[SequenceNumber |-> seq, id |-> m.id, Flags |-> StreamFlags(m)]}
                        ELSE written
    /\ outgoingMessages' = Tail(outgoingMessages)
    /\ nextOutgoingSequenceNumber' = NumberAfter(ok)
    /\ writeThrottled' = TRUE
    /\ UNCHANGED <<pc, outgoingControlMessages, ackReceived, cause, writes, remoteVars>>

(* "case <-writeThrottleC" *)
ThrottleFires ==
    /\ pc = "select"
    /\ writeThrottled
    /\ writeThrottled' = FALSE
    /\ UNCHANGED <<pc, nextOutgoingSequenceNumber, unacknowledgedMessages, chanVars,
                   cause, writes, written, remoteVars>>

Expired(s) == unacknowledgedMessages[s].sinceFirst > resendTimeout

Due(s) == ~Expired(s) /\ unacknowledgedMessages[s].sinceLast > resendInterval

(* A slip that restarts both clocks of a message that is sent again. *)
ResentAnew(m) == [m EXCEPT !.sinceFirst = 0, !.sinceLast = 0]

(* Sending again restarts the resend interval, and not the timeout. *)
Resent(m) == [m EXCEPT !.sinceLast = 0]

(* The frame of a message that is sent again. *)
FrameOf(s) == [SequenceNumber |-> s,
               id |-> unacknowledgedMessages[s].id,
               Flags |-> unacknowledgedMessages[s].Flags]

(* "case <-resendTicker.C" with no message expired: everything due is written *)
(* again, ok being the writes that succeed.                                   *)
ResendDue(ok) ==
    /\ pc = "select"
    /\ \A s \in Seqs : ~Expired(s)
    /\ ok \subseteq {s \in Seqs : Due(s)}
    /\ unacknowledgedMessages' =
         [s \in Seqs |-> IF Due(s) THEN Resent(unacknowledgedMessages[s])
                                   ELSE unacknowledgedMessages[s]]
    /\ written' = written \union {FrameOf(s) : s \in ok}
    /\ UNCHANGED <<pc, nextOutgoingSequenceNumber, writeThrottled, chanVars, cause, writes,
                   remoteVars>>

(* The same with some message expired.  Go visits a map in any order, so any  *)
(* of the messages due may have been written before the loop returns.         *)
GiveUp(ok) ==
    /\ pc = "select"
    /\ \E s \in Seqs : Expired(s)
    /\ ok \subseteq {s \in Seqs : Due(s)}
    /\ written' = written \union {FrameOf(s) : s \in ok}
    /\ pc' = "returned"
    /\ Fail("ErrAckTimeout")
    /\ UNCHANGED <<nextOutgoingSequenceNumber, unacknowledgedMessages, writeThrottled, chanVars,
                   writes, remoteVars>>

(* "case <-ctx.Done()" *)
StopOnCancel ==
    /\ pc = "select"
    /\ cancelled
    /\ pc' = "returned"
    /\ UNCHANGED <<nextOutgoingSequenceNumber, unacknowledgedMessages, writeThrottled, chanVars,
                   cause, writes, written, remoteVars>>

LoopStep ==
    \/ ReceiveAck
    \/ \E reaches \in BOOLEAN : SendControl(reaches)
    \/ \E ok \in BOOLEAN : SendMessage(ok)
    \/ ThrottleFires
    \/ \E ok \in SUBSET Seqs : ResendDue(ok) \/ GiveUp(ok)
    \/ StopOnCancel

--------------------------------------------------------------------------------
(* The other parties.                                                        *)

(* Session.Write queues a message.  It may do so after cancellation too: the *)
(* select takes either ready case.                                           *)
Write(flags) ==
    /\ writes < NumWrites
    /\ Len(outgoingMessages) < OutCap
    /\ outgoingMessages' = Append(outgoingMessages, [id |-> writes, Flags |-> flags])
    /\ writes' = writes + 1
    /\ UNCHANGED <<loopVars, outgoingControlMessages, ackReceived, cause, written, remoteVars>>

(* sendAcknowledgeMessage, or Stop, queues a control message. *)
QueueControl(c) ==
    /\ Len(outgoingControlMessages) < ControlCap
    /\ outgoingControlMessages' = Append(outgoingControlMessages, c)
    /\ UNCHANGED <<loopVars, outgoingMessages, ackReceived, cause, writes, written, remoteVars>>

(* The remote receives a frame, perhaps late or once more. *)
RemoteReceives(frame) ==
    /\ frame \in written
    /\ atRemote' = atRemote \union {frame}
    /\ UNCHANGED <<loopVars, chanVars, cause, writes, written, controlAtRemote>>

SeqsAtRemote == {frame.SequenceNumber : frame \in atRemote}

(* An acknowledgement reaches the client, whose incoming loop forwards it. *)
RemoteAcks(s) ==
    /\ s \in SeqsAtRemote
    /\ Len(ackReceived) < AckCap
    /\ ackReceived' = Append(ackReceived, s)
    /\ UNCHANGED <<loopVars, outgoingMessages, outgoingControlMessages, cause, writes, written,
                   remoteVars>>

(* Another goroutine of the errgroup returns. *)
Cancel ==
    /\ ~cancelled
    /\ Fail("other")
    /\ UNCHANGED <<loopVars, chanVars, writes, written, remoteVars>>

Older(age, limit) == IF age > limit THEN age ELSE age + 1

(* Time passes. *)
Tick ==
    /\ unacknowledgedMessages' =
         [s \in Seqs |->
            [unacknowledgedMessages[s] EXCEPT !.sinceFirst = Older(@, resendTimeout),
                                              !.sinceLast = Older(@, resendInterval)]]
    /\ UNCHANGED <<pc, nextOutgoingSequenceNumber, writeThrottled, chanVars, cause, writes,
                   written, remoteVars>>

Next ==
    \/ LoopStep
    \/ \E flags \in {"Data", "Fin"} : Write(flags)
    \/ \E c \in ControlMsgs : QueueControl(c)
    \/ \E frame \in written : RemoteReceives(frame)
    \/ \E s \in SeqsAtRemote : RemoteAcks(s)
    \/ Cancel
    \/ Tick

(* A case of the select that stays ready is taken in the end: the choice is   *)
(* random.  Time passes.  Nothing is assumed of the network or the remote.    *)
Fairness ==
    /\ WF_vars(ReceiveAck)
    /\ WF_vars(\E reaches \in BOOLEAN : SendControl(reaches))
    /\ WF_vars(\E ok \in BOOLEAN : SendMessage(ok))
    /\ WF_vars(ThrottleFires)
    /\ WF_vars(\E ok \in SUBSET Seqs : ResendDue(ok) \/ GiveUp(ok))
    /\ WF_vars(StopOnCancel)
    /\ WF_vars(Tick)

Spec == Init /\ [][Next]_vars

FairSpec == Spec /\ Fairness

--------------------------------------------------------------------------------
(* Properties.                                                               *)

Unacknowledged ==
    [id : Nat, Flags : Flags, sinceFirst : 0 .. (resendTimeout + 1),
     sinceLast : 0 .. (resendInterval + 1)]

(* Every variable has its type, no channel exceeds its capacity, and no more  *)
(* than maxInflightMessages are awaiting acknowledgement.                     *)
TypeOK ==
    /\ pc \in {"select", "returned"}
    /\ nextOutgoingSequenceNumber \in Nat
    /\ unacknowledgedMessages \in [Seqs -> Unacknowledged]
    /\ Seqs \subseteq Nat /\ Cardinality(Seqs) <= maxInflightMessages
    /\ writeThrottled \in BOOLEAN
    /\ outgoingMessages \in Seq([id : Nat, Flags : {"Data", "Fin"}])
    /\ Len(outgoingMessages) <= OutCap
    /\ outgoingControlMessages \in Seq(ControlMsgs)
    /\ Len(outgoingControlMessages) <= ControlCap
    /\ ackReceived \in Seq(Nat) /\ Len(ackReceived) <= AckCap
    /\ cause \in {"none", "ErrAckTimeout", "other"}
    /\ writes \in Nat
    /\ written \subseteq Frame
    /\ atRemote \subseteq written
    /\ controlAtRemote \subseteq ControlMsgs

(* The wire carries the stream the application wrote: whatever was lost,      *)
(* resent or reordered, the k-th message written goes out under number k and  *)
(* under no other, the first opens the stream (unless it ends it), and no     *)
(* other does.                                                                *)
WireIsStream ==
    \A frame \in written :
        /\ frame.id = frame.SequenceNumber
        /\ frame.Flags = "Syn" => frame.SequenceNumber = 0
        /\ frame.Flags = "Data" => frame.SequenceNumber # 0

(* The numbers the loop no longer keeps a message for. *)
Retired == (0 .. (nextOutgoingSequenceNumber - 1)) \ Seqs

(* The loop implements the abstract stream: it forgets a message only when    *)
(* the remote has it.  What the remote hands on is the remote's business.     *)
Abstract == INSTANCE AckedStream WITH
    offered <- writes,
    accepted <- SeqsAtRemote,
    delivered <- 0,
    retired <- Retired

ImplementsAckedStream == Abstract!Spec

(* No message is left hanging, and the window never stays shut, even if the   *)
(* remote and the network stay silent: a message written is acknowledged, or  *)
(* the session ends, with ErrAckTimeout if with nothing else.                 *)
EveryWriteResolves ==
    \A k \in 0 .. (NumWrites - 1) : (k < writes) ~> (k \in Retired \/ cancelled)

================================================================================
