-------------------------- MODULE SessionLoops_proofs ---------------------------
(***************************************************************************)
(* Theorems about SessionLoops, for every number of messages each way,     *)
(* every window, pair of intervals and channel capacity, and their proofs. *)
(*                                                                         *)
(* Each loop on its own has neighbours that take from its channels, put    *)
(* acknowledgements there and cancel the context as they like.  Here the   *)
(* other loop is that neighbour: the two together are behaviours of        *)
(* SessionIncoming, and of SessionOutgoing, so that what is proved of each *)
(* alone holds of the session.                                             *)
(***************************************************************************)
EXTENDS SessionLoops, Channels, FiniteSetTheorems, TLAPS

(* The error of the other loop is to each just another goroutine's.          *)
InCause == IF cause = "ErrAckTimeout" THEN "other" ELSE cause
OutCause == IF cause = "incoming" THEN "other" ELSE cause

I == INSTANCE SessionIncoming_proofs WITH pc <- inPc, cause <- InCause
O == INSTANCE SessionOutgoing_proofs WITH
        pc <- outPc, controlAtRemote <- acksAtRemote, cause <- OutCause

(* The assumptions of the two modules follow from those of this one. *)
LEMMA Assumptions ==
    /\ NumMsgs \in Nat /\ AckSeqs \subseteq Nat /\ maxOutOfOrderMessages \in Nat
    /\ ControlCap \in Nat \ {0} /\ AckCap \in Nat \ {0}
    /\ DataCap \in Nat \ {0} /\ OutCap \in Nat \ {0}
    /\ NumWrites \in Nat /\ maxInflightMessages \in Nat \ {0}
    /\ resendInterval \in Nat /\ resendTimeout \in Nat /\ resendInterval < resendTimeout
  BY NumAssumption, WindowAssumption, TimeAssumption, CapAssumption DEF AckSeqs

(* The instances count the elements of a set alike. *)
LEMMA SameCardinality ==
    ASSUME NEW S
    PROVE  /\ In!Cardinality(S) = Cardinality(S) /\ I!Cardinality(S) = Cardinality(S)
           /\ Out!Cardinality(S) = Cardinality(S) /\ O!Cardinality(S) = Cardinality(S)
  BY DEF In!Cardinality, I!Cardinality, Out!Cardinality, O!Cardinality, Cardinality

--------------------------------------------------------------------------------
(* What passes between the two loops.                                        *)

(* The remote acknowledges what the application wrote, and the incoming loop  *)
(* hands over nothing else.                                                   *)
AcksAreOfWrites ==
    /\ writes <= NumWrites
    /\ inbox \subseteq O!SeqsAtRemote
    /\ inPc = "forward" => msg.SequenceNumber \in O!SeqsAtRemote

(* The inductive invariant. *)
LoopsInv == I!IInv /\ O!IInv /\ AcksAreOfWrites

(* What the remote has of the client's is a write of the application's. *)
LEMMA RemoteHasWrites ==
    ASSUME O!IInv, writes <= NumWrites
    PROVE  O!SeqsAtRemote \subseteq AckSeqs
<1>1. /\ Len(outgoingMessages) \in Nat /\ nextOutgoingSequenceNumber \in Nat
      /\ writes = nextOutgoingSequenceNumber + Len(outgoingMessages)
  BY LenProperties
     DEF O!IInv, O!Types, O!ChannelTypes, O!LoopTypes, O!QueueIsStream
<1>2. \A frame \in atRemote : frame.SequenceNumber \in 0 .. (nextOutgoingSequenceNumber - 1)
  BY DEF O!IInv, O!Types, O!SocketTypes, O!WrittenIsStream, O!InStream
<1>. QED
  BY <1>1, <1>2, Assumptions DEF O!SeqsAtRemote, AckSeqs

(* A step of the session is one the incoming loop's neighbours may take, or    *)
(* its own.                                                                    *)
LEMMA IncomingStep ==
    ASSUME LoopsInv, [Next]_vars
    PROVE  [I!Next]_(I!vars)
<1> USE DEF I!vars, I!loopVars, I!chanVars, inVars, outVars, ackVars
<1>1. CASE InLoop
  <2>1. I!LoopStep
    BY <1>1
       DEF InLoop, In!LoopStep, In!CheckContext, In!ForwardAck, In!AckArrived,
           In!DeliverExpected, In!AckDrained, In!DeliverDrained, In!Return, In!Fail,
           In!cancelled, In!Deliver, In!DrainOrContinue, In!SendAcknowledge, In!DeliversNow,
           In!DeleteDrained, In!chanVars, In!NoMessage,
           I!LoopStep, I!CheckContext, I!ForwardAck, I!AckArrived,
           I!DeliverExpected, I!AckDrained, I!DeliverDrained, I!Return, I!Fail,
           I!cancelled, I!Deliver, I!DrainOrContinue, I!SendAcknowledge, I!DeliversNow,
           I!DeleteDrained, I!NoMessage, InCause
  <2>. QED BY <2>1 DEF I!Next
<1>2. ASSUME NEW s \in In!Stream, ReceiveOutput(s)
      PROVE  I!Next
  <2>1. /\ In!Buffered(s) = I!Buffered(s)
        /\ In!AcknowledgedOnArrival(s) <=> I!AcknowledgedOnArrival(s)
        /\ In!Output = I!Output
    BY SameCardinality
       DEF In!Buffered, In!BufferHasRoom, In!AcknowledgedOnArrival, In!Output,
           I!Buffered, I!BufferHasRoom, I!AcknowledgedOnArrival, I!Output
  <2>2. I!HandleOutput(s)
    BY <1>2, <2>1 DEF ReceiveOutput, In!HandleOutput, In!chanVars, I!HandleOutput, InCause
  <2>. QED BY <2>2 DEF I!Next, I!Receive, I!Stream, In!Stream
<1>3. ASSUME NEW s \in inbox, ReceiveAcknowledge(s)
      PROVE  I!Next
  <2>1. I!HandleAcknowledge(s)
    BY <1>3
       DEF ReceiveAcknowledge, In!HandleAcknowledge, In!Acknowledge, In!chanVars,
           I!HandleAcknowledge, I!Acknowledge, InCause
  <2>2. s \in AckSeqs
    BY RemoteHasWrites DEF LoopsInv, AcksAreOfWrites
  <2>. QED BY <2>1, <2>2 DEF I!Next, I!Receive
<1>4. CASE ReceiveIgnored
  <2>1. I!HandleIgnored
    BY <1>4 DEF ReceiveIgnored, In!HandleIgnored, In!chanVars, I!HandleIgnored, InCause
  <2>. QED BY <2>1 DEF I!Next, I!Receive
<1>5. CASE ReadFails
  <2>1. I!ReadFails
    BY <1>5
       DEF ReadFails, In!ReadFails, In!Return, In!Fail, In!cancelled, In!chanVars,
           I!ReadFails, I!Return, I!Fail, I!cancelled, InCause
  <2>. QED BY <2>1 DEF I!Next, I!Receive
<1>6. CASE Read
  <2>1. I!Read
    BY <1>6 DEF Read, In!Read, In!loopVars, I!Read, InCause
  <2>. QED BY <2>1 DEF I!Next
<1>7. CASE OutLoop
  <2>1. CASE Out!ReceiveAck
    <3>1. I!TakeAck
      BY <1>7, <2>1 DEF OutLoop, Out!ReceiveAck, Out!remoteVars, I!TakeAck, InCause
    <3>. QED BY <3>1 DEF I!Next
  <2>2. ASSUME NEW reaches \in BOOLEAN, Out!SendControl(reaches)
        PROVE  I!Next
    <3>1. I!WriteControl(reaches)
      BY <1>7, <2>2 DEF OutLoop, Out!SendControl, I!WriteControl, InCause
    <3>. QED BY <3>1 DEF I!Next
  <2>3. ASSUME NEW ok \in SUBSET Out!Seqs, Out!GiveUp(ok)
        PROVE  [I!Next]_(I!vars)
    <3>1. CASE cancelled
      BY <1>7, <2>3, <3>1
         DEF OutLoop, Out!GiveUp, Out!Fail, Out!cancelled, cancelled, Out!chanVars,
             Out!remoteVars, InCause
    <3>2. CASE ~cancelled
      <4>1. I!Cancel
        BY <1>7, <2>3, <3>2
           DEF OutLoop, Out!GiveUp, Out!Fail, Out!cancelled, cancelled, Out!chanVars,
               Out!remoteVars, I!Cancel, I!Fail, I!cancelled, InCause
      <4>. QED BY <4>1 DEF I!Next
    <3>. QED BY <3>1, <3>2
  <2>4. ASSUME \/ \E ok \in BOOLEAN : Out!SendMessage(ok)
               \/ Out!ThrottleFires
               \/ \E ok \in SUBSET Out!Seqs : Out!ResendDue(ok)
               \/ Out!StopOnCancel
        PROVE  UNCHANGED I!vars
    BY <1>7, <2>4
       DEF OutLoop, Out!SendMessage, Out!ThrottleFires, Out!ResendDue, Out!StopOnCancel,
           Out!chanVars, Out!remoteVars, InCause
  <2>. QED BY <1>7, <2>1, <2>2, <2>3, <2>4 DEF OutLoop, Out!LoopStep
<1>8. CASE Cancel
  <2>1. I!Cancel
    BY <1>8
       DEF Cancel, In!Cancel, In!Fail, In!cancelled, In!loopVars, In!chanVars,
           I!Cancel, I!Fail, I!cancelled, InCause
  <2>. QED BY <2>1 DEF I!Next
<1>9. ASSUME \/ Write
             \/ \E frame \in written : RemoteReceives(frame)
             \/ \E s \in Out!SeqsAtRemote : AckArrives(s)
             \/ Tick
             \/ UNCHANGED vars
      PROVE  UNCHANGED I!vars
  BY <1>9
     DEF Write, RemoteReceives, AckArrives, Tick, vars, Out!Write, Out!RemoteReceives, Out!Tick,
         Out!loopVars, Out!chanVars, Out!remoteVars, InCause
<1>. QED
  BY <1>1, <1>2, <1>3, <1>4, <1>5, <1>6, <1>7, <1>8, <1>9 DEF Next

(* A step of the session is one the outgoing loop's neighbours may take, or    *)
(* its own: what the incoming loop forwards the remote has acknowledged, and   *)
(* what it acknowledges is of the remote's stream.                             *)
LEMMA OutgoingStep ==
    ASSUME LoopsInv, [Next]_vars
    PROVE  [O!Next]_(O!vars)
<1> USE DEF O!vars, O!loopVars, O!chanVars, O!remoteVars, inVars, outVars, ackVars
<1>1. CASE InLoop
  <2>1. CASE In!ForwardAck
    <3>1. CASE In!Return(cause) /\ cancelled
      BY <1>1, <3>1
         DEF InLoop, In!Return, In!Fail, In!cancelled, cancelled, In!chanVars, OutCause
    <3>2. CASE ~(In!Return(cause) /\ cancelled)
      <4>1. O!RemoteAcks(msg.SequenceNumber)
        BY <1>1, <2>1, <3>2
           DEF InLoop, In!ForwardAck, In!cancelled, cancelled, O!RemoteAcks, LoopsInv,
               AcksAreOfWrites, OutCause
      <4>2. msg.SequenceNumber \in O!SeqsAtRemote
        BY <2>1 DEF In!ForwardAck, LoopsInv, AcksAreOfWrites
      <4>. QED BY <4>1, <4>2 DEF O!Next
    <3>. QED BY <3>1, <3>2
  <2>2. ASSUME NEW c \in ControlMsgs, In!SendAcknowledge(c),
               UNCHANGED <<outVars, ackReceived, cause, acksAtRemote>>
        PROVE  [O!Next]_(O!vars)
    <3>1. CASE UNCHANGED outgoingControlMessages
      BY <2>2, <3>1 DEF OutCause
    <3>2. CASE ~UNCHANGED outgoingControlMessages
      <4>1. O!QueueControl(c)
        BY <2>2, <3>2 DEF In!SendAcknowledge, O!QueueControl, OutCause
      <4>. QED BY <4>1 DEF O!Next
    <3>. QED BY <3>1, <3>2
  <2>3. CASE In!AckArrived
    <3>1. msg.SequenceNumber \in ControlMsgs
      BY <2>3 DEF In!AckArrived, LoopsInv, I!IInv, I!LoopState, I!InStream, I!Stream, ControlMsgs
    <3>. QED BY <1>1, <2>2, <2>3, <3>1 DEF InLoop, In!AckArrived
  <2>4. CASE In!AckDrained
    <3>1. expectedSequenceId \in ControlMsgs
      BY <2>4 DEF In!AckDrained, LoopsInv, I!IInv, I!LoopState, I!InStream, I!Stream, ControlMsgs
    <3>. QED BY <1>1, <2>2, <2>4, <3>1 DEF InLoop, In!AckDrained
  <2>5. CASE In!CheckContext \/ In!DeliverExpected \/ In!DeliverDrained
    BY <1>1, <2>5
       DEF InLoop, In!CheckContext, In!DeliverExpected, In!DeliverDrained, In!Deliver, In!Return,
           In!Fail, In!cancelled, In!chanVars, OutCause
  <2>. QED BY <1>1, <2>1, <2>3, <2>4, <2>5 DEF InLoop, In!LoopStep
<1>2. CASE ReadFails
  <2>1. CASE cancelled
    BY <1>2, <2>1
       DEF ReadFails, In!ReadFails, In!Return, In!Fail, In!cancelled, cancelled, In!chanVars,
           OutCause
  <2>2. CASE ~cancelled
    <3>1. O!Cancel
      BY <1>2, <2>2
         DEF ReadFails, In!ReadFails, In!Return, In!Fail, In!cancelled, cancelled, In!chanVars,
             O!Cancel, O!Fail, O!cancelled, OutCause
    <3>. QED BY <3>1 DEF O!Next
  <2>. QED BY <2>1, <2>2
<1>3. CASE OutLoop
  <2>1. O!LoopStep
    BY <1>3, SameCardinality
       DEF OutLoop, Out!LoopStep, Out!ReceiveAck, Out!SendControl, Out!SendMessage,
           Out!ThrottleFires, Out!ResendDue, Out!GiveUp, Out!StopOnCancel, Out!Acknowledged,
           Out!WindowHasRoom, Out!Kept, Out!StreamFlags, Out!NumberAfter, Out!Expired, Out!Due,
           Out!Resent, Out!FrameOf, Out!Fail, Out!cancelled, Out!Seqs, Out!loopVars,
           Out!chanVars, Out!remoteVars,
           O!LoopStep, O!ReceiveAck, O!SendControl, O!SendMessage,
           O!ThrottleFires, O!ResendDue, O!GiveUp, O!StopOnCancel, O!Acknowledged,
           O!WindowHasRoom, O!Kept, O!StreamFlags, O!NumberAfter, O!Expired, O!Due,
           O!Resent, O!FrameOf, O!Fail, O!cancelled, O!Seqs, OutCause
  <2>. QED BY <2>1 DEF O!Next
<1>4. CASE Write
  <2>1. O!Write("Data")
    BY <1>4 DEF Write, Out!Write, Out!loopVars, Out!remoteVars, O!Write, OutCause
  <2>. QED BY <2>1 DEF O!Next
<1>5. ASSUME NEW frame \in written, RemoteReceives(frame)
      PROVE  O!Next
  <2>1. O!RemoteReceives(frame)
    BY <1>5
       DEF RemoteReceives, Out!RemoteReceives, Out!loopVars, Out!chanVars, O!RemoteReceives,
           OutCause
  <2>. QED BY <2>1 DEF O!Next
<1>6. CASE Cancel
  <2>1. O!Cancel
    BY <1>6
       DEF Cancel, In!Cancel, In!Fail, In!cancelled, In!loopVars, In!chanVars,
           O!Cancel, O!Fail, O!cancelled, OutCause
  <2>. QED BY <2>1 DEF O!Next
<1>7. CASE Tick
  <2>1. O!Tick
    BY <1>7
       DEF Tick, Out!Tick, Out!Older, Out!Seqs, Out!chanVars, Out!remoteVars,
           O!Tick, O!Older, O!Seqs, OutCause
  <2>. QED BY <2>1 DEF O!Next
<1>8. ASSUME \/ \E s \in In!Stream : ReceiveOutput(s)
             \/ \E s \in inbox : ReceiveAcknowledge(s)
             \/ ReceiveIgnored
             \/ Read
             \/ \E s \in Out!SeqsAtRemote : AckArrives(s)
             \/ UNCHANGED vars
      PROVE  UNCHANGED O!vars
  BY <1>8
     DEF ReceiveOutput, ReceiveAcknowledge, ReceiveIgnored, Read, AckArrives, vars,
         In!HandleOutput, In!HandleAcknowledge, In!HandleIgnored, In!Read, In!chanVars,
         In!loopVars, OutCause
<1>. QED
  BY <1>1, <1>2, <1>3, <1>4, <1>5, <1>6, <1>7, <1>8 DEF Next

(* Acknowledgements come from what the remote has, and stay true. *)
LEMMA AcksOfWritesStep ==
    ASSUME LoopsInv, [Next]_vars
    PROVE  AcksAreOfWrites'
<1> USE DEF inVars, outVars, ackVars, AcksAreOfWrites
<1>0. /\ O!SeqsAtRemote \subseteq O!SeqsAtRemote'
      /\ writes \in Nat /\ AcksAreOfWrites
  BY Assumptions, OutgoingStep, O!RemoteKeeps DEF LoopsInv, O!IInv, O!Types, O!LoopTypes
<1>1. CASE InLoop
  <2>1. /\ UNCHANGED <<writes, inbox>>
        /\ inPc' # "forward"
    BY <1>1
       DEF InLoop, In!LoopStep, In!CheckContext, In!ForwardAck, In!AckArrived,
           In!DeliverExpected, In!AckDrained, In!DeliverDrained, In!Deliver, In!DrainOrContinue,
           In!Return
  <2>. QED BY <1>0, <2>1
<1>2. ASSUME NEW s \in inbox, ReceiveAcknowledge(s)
      PROVE  AcksAreOfWrites'
  <2>1. /\ msg'.SequenceNumber = s
        /\ inbox' \subseteq inbox
        /\ UNCHANGED writes
    BY <1>2 DEF ReceiveAcknowledge, In!HandleAcknowledge
  <2>. QED BY <1>0, <2>1
<1>3. ASSUME NEW s \in Out!SeqsAtRemote, AckArrives(s)
      PROVE  AcksAreOfWrites'
  <2>1. s \in O!SeqsAtRemote
    BY DEF Out!SeqsAtRemote, O!SeqsAtRemote
  <2>. QED BY <1>0, <1>3, <2>1 DEF AckArrives
<1>4. CASE Write
  BY <1>0, <1>4, Assumptions DEF Write, Out!Write
<1>5. ASSUME \/ \E s \in In!Stream : ReceiveOutput(s)
             \/ ReceiveIgnored \/ ReadFails \/ Read \/ OutLoop
             \/ \E frame \in written : RemoteReceives(frame)
             \/ Cancel \/ Tick \/ UNCHANGED vars
      PROVE  AcksAreOfWrites'
  <2>1. /\ UNCHANGED <<writes, inbox>>
        /\ inPc' = "forward" => inPc = "forward" /\ UNCHANGED msg
    BY <1>5
       DEF ReceiveOutput, ReceiveIgnored, ReadFails, Read, OutLoop, RemoteReceives, Cancel, Tick,
           vars, In!HandleOutput, In!HandleIgnored, In!ReadFails, In!Return, In!Read, In!Cancel,
           In!loopVars, Out!LoopStep, Out!ReceiveAck, Out!SendControl, Out!SendMessage,
           Out!ThrottleFires, Out!ResendDue, Out!GiveUp, Out!StopOnCancel, Out!RemoteReceives,
           Out!Tick
  <2>. QED BY <1>0, <2>1
<1>. QED
  BY <1>1, <1>2, <1>3, <1>4, <1>5 DEF Next

(* The loops start as they do apart, with nothing acknowledged. *)
LEMMA LoopsStart ==
    ASSUME Init
    PROVE  LoopsInv /\ I!Init /\ O!Init
<1>1. I!Init /\ O!Init
  BY DEF Init, In!Init, Out!Init, I!Init, O!Init, In!NoMessage, I!NoMessage, InCause, OutCause
<1>2. I!IInv /\ O!IInv
  BY <1>1, Assumptions, I!InvariantStart, O!InvariantStart
<1>3. AcksAreOfWrites
  BY Assumptions DEF Init, In!Init, Out!Init, AcksAreOfWrites
<1>. QED
  BY <1>1, <1>2, <1>3 DEF LoopsInv

(* Each loop keeps its own invariant among the steps of the other. *)
LEMMA LoopsStep ==
    ASSUME LoopsInv, [Next]_vars
    PROVE  LoopsInv'
<1>1. I!IInv'
  BY Assumptions, IncomingStep, I!InvariantStep DEF LoopsInv
<1>2. O!IInv'
  BY Assumptions, OutgoingStep, O!InvariantStep DEF LoopsInv
<1>. QED
  BY <1>1, <1>2, AcksOfWritesStep DEF LoopsInv

--------------------------------------------------------------------------------
(* What is proved of each loop alone holds of the session.                   *)

(* The session's two loops are the loop of SessionIncoming and the loop of    *)
(* SessionOutgoing, each with the other for a neighbour: no interleaving of   *)
(* the two gives either a step it was not proved for.                         *)
THEOREM LoopsCompose == Spec => I!Spec /\ O!Spec
<1>1. Spec => []LoopsInv
  BY LoopsStart, LoopsStep, PTL DEF Spec
<1>. QED
  BY <1>1, LoopsStart, IncomingStep, OutgoingStep, PTL DEF Spec, I!Spec, O!Spec

(* Both directions implement the abstract stream while the two loops share    *)
(* the control queue, the acknowledgements and the context.                   *)
THEOREM Refinement == Spec => LoopsImplementAckedStreams
<1>1. I!Spec => I!ImplementsAckedStream
  BY Assumptions, I!Refinement, PTL
<1>2. O!Spec => O!ImplementsAckedStream
  BY Assumptions, O!Refinement, PTL
<1>3. I!Abstract!Spec => In!Abstract!Spec
  BY PTL
     DEF I!Abstract!Spec, I!Abstract!Init, I!Abstract!Next, I!Abstract!vars, I!Abstract!Offer,
         I!Abstract!Accept, I!Abstract!Deliver, I!Abstract!Retire, I!Accepted, I!Output,
         In!Abstract!Spec, In!Abstract!Init, In!Abstract!Next, In!Abstract!vars,
         In!Abstract!Offer, In!Abstract!Accept, In!Abstract!Deliver, In!Abstract!Retire,
         In!Accepted, In!Output
<1>4. O!Abstract!Spec => Out!Abstract!Spec
  BY PTL
     DEF O!Abstract!Spec, O!Abstract!Init, O!Abstract!Next, O!Abstract!vars, O!Abstract!Offer,
         O!Abstract!Accept, O!Abstract!Deliver, O!Abstract!Retire, O!SeqsAtRemote, O!Retired,
         O!Seqs, Out!Abstract!Spec, Out!Abstract!Init, Out!Abstract!Next, Out!Abstract!vars,
         Out!Abstract!Offer, Out!Abstract!Accept, Out!Abstract!Deliver, Out!Abstract!Retire,
         Out!SeqsAtRemote, Out!Retired, Out!Seqs
<1>. QED
  BY <1>1, <1>2, <1>3, <1>4, LoopsCompose, PTL
     DEF LoopsImplementAckedStreams, I!ImplementsAckedStream, O!ImplementsAckedStream,
         In!ImplementsAckedStream, Out!ImplementsAckedStream

(* In the session as a whole the reader still gets the remote's messages once *)
(* and in order, nothing is acknowledged that the client does not hold, and   *)
(* every key of the reorder map can be delivered ...                          *)
THEOREM IncomingKeepsItsPromises ==
    Spec => [](In!OrderedDelivery /\ In!AckImpliesAccepted /\ In!ReorderWindow)
<1>1. /\ I!Spec => []I!OrderedDelivery
      /\ I!Spec => []I!AckImpliesAccepted
      /\ I!Spec => []I!ReorderWindow
  BY Assumptions, I!DeliveryInOrder, I!AcknowledgedIsHeld, I!WindowIsLive, PTL
<1>2. I!OrderedDelivery /\ I!AckImpliesAccepted /\ I!ReorderWindow
        => In!OrderedDelivery /\ In!AckImpliesAccepted /\ In!ReorderWindow
  BY SameCardinality
     DEF I!OrderedDelivery, I!AckImpliesAccepted, I!Accepted, I!Output, I!ReorderWindow,
         In!OrderedDelivery, In!AckImpliesAccepted, In!Accepted, In!Output, In!ReorderWindow
<1>. QED
  BY <1>1, <1>2, LoopsCompose, PTL

(* ... and the wire carries the stream the application wrote.                 *)
THEOREM OutgoingKeepsItsPromises == Spec => []Out!WireIsStream
<1>1. O!Spec => []O!WireIsStream
  BY Assumptions, O!WireCarriesStream, PTL
<1>2. O!WireIsStream => Out!WireIsStream
  BY DEF O!WireIsStream, Out!WireIsStream
<1>. QED
  BY <1>1, <1>2, LoopsCompose, PTL

--------------------------------------------------------------------------------
(* The acknowledgement timeout.                                              *)

(* An acknowledgement at the client is on its way to the outgoing loop: at    *)
(* the socket, in the hands of the incoming loop, or in the channel between.  *)
OnItsWay(s) ==
    \/ s \in inbox
    \/ /\ inPc \in {"forward", "returned"}
       /\ msg = [MessageType |-> In!Acknowledge, SequenceNumber |-> s]
    \/ s \in Held(ackReceived)

(* A message acknowledged in time does not expire as long as the loop keeps   *)
(* it: time does not pass with its acknowledgement on the way.                *)
InTimeIsOnItsWay ==
    /\ inTime \subseteq 0 .. (nextOutgoingSequenceNumber - 1)
    /\ \A s \in inTime \intersect Out!Seqs : ~Out!Expired(s) /\ OnItsWay(s)

(* AckTimeoutIsTrue, with what keeps it true: the loop has returned.          *)
TimeoutStands ==
    cause = "ErrAckTimeout" =>
        /\ outPc = "returned"
        /\ \E s \in Out!Seqs : Out!Expired(s) /\ s \notin inTime

(* The steps of the incoming loop, and of everyone but the outgoing loop, the *)
(* clock and the remote, take an acknowledgement further on its way.          *)
LEMMA WayStep ==
    ASSUME LoopsInv, [Next]_vars, ~OutLoop, ~Tick, NEW s, OnItsWay(s)
    PROVE  OnItsWay(s)'
<1> USE DEF OnItsWay, inVars, outVars, ackVars
<1>1. CASE InLoop
  <2>1. CASE In!ForwardAck
    <3>1. CASE UNCHANGED <<inbox, msg, ackReceived>> /\ inPc' = "returned"
      BY <2>1, <3>1 DEF In!ForwardAck
    <3>2. CASE ackReceived' = Append(ackReceived, msg.SequenceNumber) /\ UNCHANGED inbox
      <4>1. ackReceived \in Seq(Nat) /\ msg.SequenceNumber \in Nat
        BY <2>1, I!MessageType, Assumptions
           DEF LoopsInv, I!IInv, I!TypeOK, I!LoopTypes, I!ChannelTypes, I!Message, In!ForwardAck
      <4>2. Held(ackReceived') = Held(ackReceived) \union {msg.SequenceNumber}
        BY <3>2, <4>1, SendHeld
      <4>. QED BY <3>2, <4>2
    <3>. QED BY <1>1, <2>1, <3>1, <3>2
         DEF InLoop, In!ForwardAck, In!Return, In!chanVars
  <2>2. CASE ~In!ForwardAck
    <3>1. inPc \notin {"forward", "returned"} /\ UNCHANGED <<inbox, ackReceived>>
      BY <1>1, <2>2
         DEF InLoop, In!LoopStep, In!CheckContext, In!AckArrived, In!DeliverExpected,
             In!AckDrained, In!DeliverDrained, In!Deliver, In!Return, In!chanVars
    <3>. QED BY <3>1
  <2>. QED BY <2>1, <2>2
<1>2. ASSUME NEW t \in inbox, ReceiveAcknowledge(t)
      PROVE  OnItsWay(s)'
  <2>1. /\ inPc = "read" /\ inPc' = "forward"
        /\ msg' = [MessageType |-> In!Acknowledge, SequenceNumber |-> t]
        /\ inbox' = inbox \ {t}
        /\ UNCHANGED ackReceived
    BY <1>2 DEF ReceiveAcknowledge, In!HandleAcknowledge, In!chanVars
  <2>. QED BY <2>1
<1>3. ASSUME \/ \E t \in In!Stream : ReceiveOutput(t)
             \/ ReceiveIgnored \/ ReadFails
      PROVE  OnItsWay(s)'
  <2>1. inPc = "read" /\ UNCHANGED <<inbox, ackReceived>>
    BY <1>3
       DEF ReceiveOutput, ReceiveIgnored, ReadFails, In!HandleOutput, In!HandleIgnored,
           In!ReadFails, In!Return, In!chanVars
  <2>. QED BY <2>1
<1>4. ASSUME \/ Read \/ Write \/ Cancel
             \/ \E frame \in written : RemoteReceives(frame)
             \/ \E t \in Out!SeqsAtRemote : AckArrives(t)
             \/ UNCHANGED vars
      PROVE  OnItsWay(s)'
  <2>1. inbox \subseteq inbox' /\ UNCHANGED <<inPc, msg, ackReceived>>
    BY <1>4
       DEF Read, Write, Cancel, RemoteReceives, AckArrives, vars, In!Read, In!Cancel,
           In!loopVars, In!chanVars, Out!Write, Out!RemoteReceives, Out!chanVars
  <2>. QED BY <2>1
<1>. QED
  BY <1>1, <1>2, <1>3, <1>4 DEF Next

(* What the loop keeps has been numbered. *)
LEMMA KeptIsNumbered ==
    ASSUME O!IInv
    PROVE  /\ nextOutgoingSequenceNumber \in Nat
           /\ Out!Seqs = O!Seqs
           /\ Out!Seqs \subseteq 0 .. (nextOutgoingSequenceNumber - 1)
           /\ \A s \in Out!Seqs : unacknowledgedMessages[s] \in O!Unacknowledged
           /\ ackReceived \in Seq(Nat)
  BY DEF O!IInv, O!Types, O!LoopTypes, O!ChannelTypes, O!KeptIsStream, O!InStream, O!FrameOf,
         O!Seqs, Out!Seqs

(* Numbers only grow. *)
LEMMA NumbersGrow ==
    ASSUME LoopsInv, [Next]_vars
    PROVE  0 .. (nextOutgoingSequenceNumber - 1) \subseteq 0 .. (nextOutgoingSequenceNumber' - 1)
<1>1. nextOutgoingSequenceNumber \in Nat
  BY KeptIsNumbered DEF LoopsInv
<1>2. nextOutgoingSequenceNumber' \in {nextOutgoingSequenceNumber, nextOutgoingSequenceNumber + 1}
  <2>1. CASE \A ok \in BOOLEAN : ~O!SendMessage(ok)
    BY <2>1, Assumptions, OutgoingStep, O!NothingNew DEF LoopsInv, O!IInv
  <2>2. CASE \E ok \in BOOLEAN : O!SendMessage(ok)
    BY <2>2 DEF O!SendMessage, O!NumberAfter
  <2>. QED BY <2>1, <2>2
<1>3. nextOutgoingSequenceNumber' \in Nat /\ nextOutgoingSequenceNumber <= nextOutgoingSequenceNumber'
  BY <1>1, <1>2
<1>4. ASSUME NEW a \in Nat, NEW b \in Nat, a <= b
      PROVE  0 .. (a - 1) \subseteq 0 .. (b - 1)
  BY <1>4
<1>. QED
  BY <1>1, <1>3, <1>4

(* Sending again does not restart the clock of the timeout. *)
LEMMA ResendKeepsAge ==
    ASSUME NEW ok, Out!ResendDue(ok), O!IInv
    PROVE  /\ Out!Seqs' = Out!Seqs
           /\ \A s \in Out!Seqs : Out!Expired(s)' <=> Out!Expired(s)
<1>1. \A u \in O!Unacknowledged : Out!Resent(u).sinceFirst = u.sinceFirst
  BY DEF O!Unacknowledged, Out!Resent
<1>2. unacknowledgedMessages' =
        [s \in Out!Seqs |-> IF Out!Due(s) THEN Out!Resent(unacknowledgedMessages[s])
                                          ELSE unacknowledgedMessages[s]]
  BY DEF Out!ResendDue
<1>3. Out!Seqs' = Out!Seqs
  BY <1>2 DEF Out!Seqs
<1>. QED
  BY <1>1, <1>2, <1>3, KeptIsNumbered DEF Out!Expired

(* Time passes only when no acknowledgement is on its way, if the reader is   *)
(* attentive: then the incoming loop is never held up at a full channel.      *)
LEMMA NoneOnItsWay ==
    ASSUME AttentiveReader = TRUE, Quiescent, NEW s
    PROVE  ~OnItsWay(s)
<1>1. incomingDataMessages = <<>> /\ ackReceived = <<>>
  BY DEF Quiescent
<1>2. Len(incomingDataMessages) = 0 /\ Held(ackReceived) = {}
  BY <1>1, EmptyChannel
<1>3. inPc = "read" /\ inbox = {}
  BY <1>2, Assumptions DEF Quiescent
<1>. QED
  BY <1>2, <1>3 DEF OnItsWay

(* A message acknowledged in time stays so until the loop forgets it. *)
LEMMA InTimeStep ==
    ASSUME AttentiveReader = TRUE, LoopsInv, InTimeIsOnItsWay, [Next]_vars
    PROVE  InTimeIsOnItsWay'
<1> USE DEF inVars, outVars, ackVars
<1>0. O!IInv
  BY DEF LoopsInv
<1>1. ASSUME inTime' = inTime,
             \A s \in inTime \intersect Out!Seqs' :
                /\ s \in Out!Seqs
                /\ Out!Expired(s)' <=> Out!Expired(s)
                /\ OnItsWay(s)'
      PROVE  InTimeIsOnItsWay'
  BY <1>1, NumbersGrow DEF InTimeIsOnItsWay
<1>2. CASE ~OutLoop /\ ~Tick /\ inTime' = inTime
  <2>1. UNCHANGED unacknowledgedMessages
    BY <1>2
       DEF Next, InLoop, ReceiveOutput, ReceiveAcknowledge, ReceiveIgnored, ReadFails, Read, Write,
           RemoteReceives, AckArrives, Cancel, vars, Out!Write, Out!RemoteReceives, Out!loopVars
  <2>. QED
    BY <1>1, <1>2, <2>1, WayStep DEF InTimeIsOnItsWay, Out!Seqs, Out!Expired
<1>3. ASSUME NEW s \in Out!SeqsAtRemote, AckArrives(s)
      PROVE  InTimeIsOnItsWay'
  <2>1. /\ inbox' = inbox \union {s}
        /\ UNCHANGED <<unacknowledgedMessages, nextOutgoingSequenceNumber>>
        /\ inTime' \subseteq inTime \union {s}
        /\ s \in inTime' \ inTime => s \in Out!Seqs /\ ~Out!Expired(s)
    BY <1>3 DEF AckArrives
  <2>2. inTime' \subseteq 0 .. (nextOutgoingSequenceNumber' - 1)
    BY <1>0, <2>1, KeptIsNumbered DEF InTimeIsOnItsWay
  <2>3. ASSUME NEW t \in inTime' \intersect Out!Seqs'
        PROVE  ~Out!Expired(t)' /\ OnItsWay(t)'
    <3>1. t \in Out!Seqs /\ ~Out!Expired(t) /\ (t = s \/ OnItsWay(t))
      BY <2>1, <2>3 DEF InTimeIsOnItsWay, Out!Seqs
    <3>2. ~Out!Expired(t)'
      BY <2>1, <3>1 DEF Out!Expired
    <3>3. inbox \subseteq inbox' /\ UNCHANGED <<inPc, msg, ackReceived>>
      BY <1>3 DEF AckArrives
    <3>. QED BY <2>1, <3>1, <3>2, <3>3 DEF OnItsWay
  <2>. QED BY <2>2, <2>3 DEF InTimeIsOnItsWay
<1>4. CASE Tick
  <2>1. inTime' = inTime /\ Out!Seqs' = Out!Seqs
    BY <1>4 DEF Tick, Out!Tick, Out!Seqs
  <2>2. inTime \intersect Out!Seqs = {}
    BY <1>4, NoneOnItsWay DEF Tick, InTimeIsOnItsWay
  <2>. QED BY <1>1, <2>1, <2>2
<1>5. CASE OutLoop
  <2>0. UNCHANGED <<inTime, inbox, inPc, msg>>
    BY <1>5 DEF OutLoop
  <2>1. CASE Out!ReceiveAck
    <3>1. /\ ackReceived # <<>>
          /\ ackReceived' = Tail(ackReceived)
          /\ unacknowledgedMessages' =
               [t \in Out!Seqs \ (Out!Seqs \intersect {Head(ackReceived)}) |->
                    unacknowledgedMessages[t]]
      BY <2>1 DEF Out!ReceiveAck, Out!Acknowledged
    <3>2. /\ Out!Seqs' = Out!Seqs \ {Head(ackReceived)}
          /\ \A t \in Out!Seqs' : unacknowledgedMessages'[t] = unacknowledgedMessages[t]
      BY <3>1 DEF Out!Seqs
    <3>3. Held(ackReceived) = {Head(ackReceived)} \union Held(ackReceived')
      BY <1>0, <3>1, KeptIsNumbered, ReceiveTakesHead
    <3>. QED
      BY <1>1, <2>0, <3>2, <3>3 DEF InTimeIsOnItsWay, OnItsWay, Out!Expired
  <2>2. ASSUME NEW ok \in BOOLEAN, Out!SendMessage(ok)
        PROVE  InTimeIsOnItsWay'
    <3>1. /\ Out!Seqs' = Out!Seqs \union {nextOutgoingSequenceNumber}
          /\ \A t \in Out!Seqs \ {nextOutgoingSequenceNumber} :
                unacknowledgedMessages'[t] = unacknowledgedMessages[t]
          /\ UNCHANGED ackReceived
      BY <2>2 DEF Out!SendMessage, Out!Kept, Out!Seqs
    <3>2. nextOutgoingSequenceNumber \notin inTime
      BY <1>0, KeptIsNumbered DEF InTimeIsOnItsWay
    <3>. QED
      BY <1>1, <2>0, <3>1, <3>2 DEF InTimeIsOnItsWay, OnItsWay, Out!Expired
  <2>3. ASSUME NEW ok \in SUBSET Out!Seqs, Out!ResendDue(ok)
        PROVE  InTimeIsOnItsWay'
    <3>1. UNCHANGED ackReceived
      BY <2>3 DEF Out!ResendDue, Out!chanVars
    <3>. QED
      BY <1>0, <1>1, <2>0, <2>3, <3>1, ResendKeepsAge DEF InTimeIsOnItsWay, OnItsWay
  <2>4. ASSUME \/ \E reaches \in BOOLEAN : Out!SendControl(reaches)
               \/ Out!ThrottleFires
               \/ \E ok \in SUBSET Out!Seqs : Out!GiveUp(ok)
               \/ Out!StopOnCancel
        PROVE  InTimeIsOnItsWay'
    <3>1. UNCHANGED <<unacknowledgedMessages, ackReceived>>
      BY <2>4 DEF Out!SendControl, Out!ThrottleFires, Out!GiveUp, Out!StopOnCancel, Out!loopVars,
                  Out!chanVars
    <3>. QED
      BY <1>1, <2>0, <3>1 DEF InTimeIsOnItsWay, OnItsWay, Out!Seqs, Out!Expired
  <2>. QED BY <1>5, <2>1, <2>2, <2>3, <2>4 DEF OutLoop, Out!LoopStep
<1>6. \/ OutLoop \/ Tick \/ inTime' = inTime
      \/ \E s \in Out!SeqsAtRemote : AckArrives(s)
  BY DEF Next, InLoop, ReceiveOutput, ReceiveAcknowledge, ReceiveIgnored, ReadFails, Read, Write,
         RemoteReceives, Cancel, vars
<1>. QED
  BY <1>2, <1>3, <1>4, <1>5, <1>6

(* The loop gives up only over a message that was not acknowledged in time,    *)
(* and nothing that happens afterwards makes that untrue.                      *)
LEMMA TimeoutStep ==
    ASSUME LoopsInv, InTimeIsOnItsWay, TimeoutStands, [Next]_vars
    PROVE  TimeoutStands'
<1> USE DEF inVars, outVars, ackVars
<1>0. /\ O!IInv
      /\ outPc = "returned" => ~OutLoop
  BY DEF LoopsInv, OutLoop, Out!LoopStep, Out!ReceiveAck, Out!SendControl, Out!SendMessage,
         Out!ThrottleFires, Out!ResendDue, Out!GiveUp, Out!StopOnCancel
<1>1. CASE cause = "ErrAckTimeout"
  <2>1. PICK s \in Out!Seqs : Out!Expired(s) /\ s \notin inTime
    BY <1>1 DEF TimeoutStands
  <2>2. outPc = "returned" /\ ~OutLoop
    BY <1>0, <1>1 DEF TimeoutStands
  <2>3. outPc' = "returned"
    BY <2>2
       DEF Next, InLoop, ReceiveOutput, ReceiveAcknowledge, ReceiveIgnored, ReadFails, Read, Write,
           RemoteReceives, AckArrives, Cancel, Tick, vars, Out!Write, Out!RemoteReceives,
           Out!Tick, Out!loopVars
  <2>4. s \in Out!Seqs' /\ Out!Expired(s)' /\ s \notin inTime'
    <3>1. CASE Tick
      <4>1. unacknowledgedMessages' =
              [t \in Out!Seqs |->
                 [unacknowledgedMessages[t] EXCEPT
                    !.sinceFirst = Out!Older(@, resendTimeout),
                    !.sinceLast = Out!Older(@, resendInterval)]]
        BY <3>1 DEF Tick, Out!Tick
      <4>2. unacknowledgedMessages'[s].sinceFirst
              = Out!Older(unacknowledgedMessages[s].sinceFirst, resendTimeout)
        BY <1>0, <2>1, <4>1, KeptIsNumbered DEF O!Unacknowledged
      <4>3. unacknowledgedMessages'[s].sinceFirst = unacknowledgedMessages[s].sinceFirst
        BY <2>1, <4>2 DEF Out!Older, Out!Expired
      <4>. QED BY <2>1, <3>1, <4>1, <4>3 DEF Out!Expired, Out!Seqs, Tick
    <3>2. ASSUME NEW t \in Out!SeqsAtRemote, AckArrives(t)
          PROVE  s \in Out!Seqs' /\ Out!Expired(s)' /\ s \notin inTime'
      BY <2>1, <3>2 DEF AckArrives, Out!Seqs, Out!Expired
    <3>3. CASE ~Tick /\ \A t \in Out!SeqsAtRemote : ~AckArrives(t)
      <4>1. UNCHANGED <<unacknowledgedMessages, inTime>>
        BY <2>2, <3>3
           DEF Next, InLoop, ReceiveOutput, ReceiveAcknowledge, ReceiveIgnored, ReadFails, Read,
               Write, RemoteReceives, Cancel, vars, Out!Write, Out!RemoteReceives, Out!loopVars
      <4>. QED BY <2>1, <4>1 DEF Out!Seqs, Out!Expired
    <3>. QED BY <3>1, <3>2, <3>3
  <2>. QED BY <2>3, <2>4 DEF TimeoutStands
<1>2. ASSUME NEW ok \in SUBSET Out!Seqs, OutLoop, Out!GiveUp(ok)
      PROVE  TimeoutStands'
  <2>1. PICK s \in Out!Seqs : Out!Expired(s)
    BY <1>2 DEF Out!GiveUp
  <2>2. s \notin inTime
    BY <2>1 DEF InTimeIsOnItsWay
  <2>3. outPc' = "returned" /\ UNCHANGED <<unacknowledgedMessages, inTime>>
    BY <1>2 DEF Out!GiveUp, OutLoop
  <2>. QED BY <2>1, <2>2, <2>3 DEF TimeoutStands, Out!Seqs, Out!Expired
<1>3. CASE cause # "ErrAckTimeout" /\ ~(OutLoop /\ \E ok \in SUBSET Out!Seqs : Out!GiveUp(ok))
  <2>1. cause' # "ErrAckTimeout"
    BY <1>3
       DEF Next, InLoop, ReceiveOutput, ReceiveAcknowledge, ReceiveIgnored, ReadFails, Read,
           OutLoop, Write, RemoteReceives, AckArrives, Cancel, Tick, vars,
           In!LoopStep, In!CheckContext, In!ForwardAck, In!AckArrived, In!DeliverExpected,
           In!AckDrained, In!DeliverDrained, In!Deliver, In!Return, In!Fail, In!cancelled,
           In!HandleOutput, In!HandleAcknowledge, In!HandleIgnored, In!ReadFails, In!Read,
           In!Cancel, Out!LoopStep, Out!ReceiveAck, Out!SendControl, Out!SendMessage,
           Out!ThrottleFires, Out!ResendDue, Out!StopOnCancel, Out!Write, Out!RemoteReceives,
           Out!Tick
  <2>. QED BY <2>1 DEF TimeoutStands
<1>. QED
  BY <1>1, <1>2, <1>3

(* ErrAckTimeout means what it says, "remote did not ack message before       *)
(* timeout", as long as the application takes what is delivered to it at      *)
(* once: an acknowledgement at the client then reaches the loop that counts   *)
(* the time before the time passes.  With a reader that lags it is false: the *)
(* incoming loop waits at the full data channel, and the acknowledgement      *)
(* behind it.                                                                 *)
THEOREM TimeoutIsTrue ==
    ASSUME AttentiveReader = TRUE
    PROVE  Spec => []AckTimeoutIsTrue
<1> DEFINE Inv == LoopsInv /\ InTimeIsOnItsWay /\ TimeoutStands
<1>1. Init => Inv
  <2> SUFFICES ASSUME Init PROVE Inv
    OBVIOUS
  <2>1. LoopsInv
    BY LoopsStart
  <2>2. InTimeIsOnItsWay /\ TimeoutStands
    BY DEF Init, In!Init, InTimeIsOnItsWay, TimeoutStands
  <2>. QED BY <2>1, <2>2
<1>2. Inv /\ [Next]_vars => Inv'
  BY LoopsStep, InTimeStep, TimeoutStep
<1>3. Inv => AckTimeoutIsTrue
  BY DEF TimeoutStands, AckTimeoutIsTrue
<1>. QED
  BY <1>1, <1>2, <1>3, PTL DEF Spec

================================================================================
