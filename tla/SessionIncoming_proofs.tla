------------------------ MODULE SessionIncoming_proofs -------------------------
(***************************************************************************)
(* Theorems about SessionIncoming for every length of the stream, every    *)
(* reorder window and every channel capacity, and their proofs.            *)
(***************************************************************************)
EXTENDS SessionIncoming, FiniteSetTheorems, SequenceTheorems, TLAPS

(* What the loop holds at each of its blocking points: no message between *)
(* iterations, an output message while it acknowledges and delivers, the  *)
(* expected one when it delivers, and a buffered one while it drains.     *)
LoopState ==
    /\ pc \in {"check", "read"} => msg.MessageType = "none"
    /\ pc = "forward" => msg.MessageType = Acknowledge
    /\ pc \in {"ack", "deliver", "drainAck", "drain"} => msg.MessageType = Output
    /\ pc = "ack" /\ msg.SequenceNumber > expectedSequenceId
         => msg.SequenceNumber \in outOfOrderMessages
    /\ pc = "deliver" => msg.SequenceNumber = expectedSequenceId
    /\ pc \in {"drainAck", "drain"} =>
         expectedSequenceId \in outOfOrderMessages /\ msg.SequenceNumber < expectedSequenceId

(* Nothing the loop holds lies outside the remote's stream. *)
InStream ==
    /\ msg.MessageType = Output => msg.SequenceNumber \in Stream
    /\ outOfOrderMessages \subseteq Stream
    /\ expectedSequenceId <= NumMsgs

(* The two halves of ReorderWindow. *)
KeysAhead ==
    \A s \in outOfOrderMessages :
        s > expectedSequenceId \/ (s = expectedSequenceId /\ pc \in {"drainAck", "drain", "returned"})

WithinWindow ==
    IsFiniteSet(outOfOrderMessages) /\ Cardinality(outOfOrderMessages) <= maxOutOfOrderMessages

(* The inductive invariant: what is acknowledged, delivered and buffered is   *)
(* tied to what the loop holds at each of its blocking points.                *)
IInv ==
    /\ TypeOK
    /\ LoopState
    /\ InStream
    /\ KeysAhead
    /\ WithinWindow
    /\ OrderedDelivery
    /\ AckImpliesAccepted

USE NumMsgsAssumption, AckSeqsAssumption, WindowAssumption, CapAssumption

--------------------------------------------------------------------------------
(* The channels as sequences of numbers.                                     *)

(* A send on a channel leaves a sequence of numbers, one longer. *)
LEMMA Enqueue ==
    ASSUME NEW q \in Seq(Nat), NEW x \in Nat
    PROVE  Append(q, x) \in Seq(Nat) /\ Len(Append(q, x)) = Len(q) + 1
  BY AppendProperties

(* What was queued stays in its place, and the new value is last. *)
LEMMA EnqueueElements ==
    ASSUME NEW q \in Seq(Nat), NEW x \in Nat
    PROVE  /\ \A i \in 1 .. Len(q) : Append(q, x)[i] = q[i]
           /\ Append(q, x)[Len(q) + 1] = x
  BY AppendProperties

(* A receive from a channel leaves a sequence of numbers, one shorter. *)
LEMMA Dequeue ==
    ASSUME NEW q \in Seq(Nat), q # <<>>
    PROVE  /\ Head(q) \in Nat
           /\ Tail(q) \in Seq(Nat)
           /\ Len(q) >= 1
           /\ Len(Tail(q)) = Len(q) - 1
<1>1. Len(q) \in Nat /\ Len(q) # 0
  BY EmptySeq, LenProperties
<1>. QED
  BY <1>1, HeadTailProperties

(* What is received was first, and the rest moves up. *)
LEMMA DequeueElements ==
    ASSUME NEW q \in Seq(Nat), q # <<>>
    PROVE  /\ Head(q) = q[1]
           /\ \A i \in 1 .. Len(Tail(q)) : Tail(q)[i] = q[i + 1]
<1>1. Len(q) \in Nat /\ Len(q) # 0
  BY EmptySeq, LenProperties
<1>. QED
  BY <1>1, HeadTailProperties

(* The channels start empty. *)
LEMMA EmptyChannel == <<>> \in Seq(Nat) /\ Len(<<>>) = 0
  BY EmptySeq

(* What the loop may hold is a message. *)
LEMMA MessageType ==
    /\ NoMessage \in Message
    /\ \A s \in Nat : [MessageType |-> Output, SequenceNumber |-> s] \in Message
    /\ \A s \in Nat : [MessageType |-> Acknowledge, SequenceNumber |-> s] \in Message
    /\ \A m \in Message : m.SequenceNumber \in Nat
  BY DEF Message, NoMessage, Output, Acknowledge

--------------------------------------------------------------------------------
(* The type invariant.                                                       *)

(* Every type, without the capacities. *)
Types ==
    /\ LoopTypes
    /\ ChannelTypes
    /\ cause \in Causes
    /\ read \in Seq(Nat)
    /\ acksAtRemote \subseteq Nat

(* No step of the loop or of its neighbours leaves the types.                *)
LEMMA TypeStep ==
    ASSUME Types, [Next]_vars
    PROVE  Types'
<1> USE MessageType DEF Types, LoopTypes, ChannelTypes, Causes, Stream, loopVars, chanVars
<1>1. CASE CheckContext
  BY <1>1 DEF CheckContext, Return, Fail, cancelled
<1>2. CASE ForwardAck
  BY <1>2, Enqueue DEF ForwardAck, Return, Fail, cancelled
<1>3. CASE AckArrived
  BY <1>3, Enqueue DEF AckArrived, SendAcknowledge
<1>4. CASE DeliverExpected
  <2>1. CASE Deliver(msg.SequenceNumber, outOfOrderMessages)
    BY <2>1, Enqueue DEF Deliver, DrainOrContinue
  <2>2. CASE cancelled /\ Return(cause)
    BY <2>2 DEF Return, Fail
  <2>. QED BY <1>4, <2>1, <2>2 DEF DeliverExpected
<1>5. CASE AckDrained
  BY <1>5, Enqueue DEF AckDrained, SendAcknowledge
<1>6. CASE DeliverDrained
  <2>1. CASE Deliver(expectedSequenceId, DeleteDrained)
    BY <2>1, Enqueue DEF Deliver, DeleteDrained, DrainOrContinue
  <2>2. CASE cancelled /\ Return(cause)
    BY <2>2 DEF Return, Fail
  <2>. QED BY <1>6, <2>1, <2>2 DEF DeliverDrained
<1>7. ASSUME NEW s \in Stream, HandleOutput(s)
      PROVE  Types'
  <2>1. s \in Nat
    OBVIOUS
  <2>2. pc' \in {"ack", "check"} /\ msg' \in Message
    BY <1>7, <2>1 DEF HandleOutput
  <2>3. outOfOrderMessages' \subseteq Nat
    BY <1>7, <2>1 DEF HandleOutput, Buffered
  <2>. QED BY <1>7, <2>2, <2>3 DEF HandleOutput
<1>8. ASSUME NEW s \in AckSeqs, HandleAcknowledge(s)
      PROVE  Types'
  BY <1>8 DEF HandleAcknowledge
<1>9. CASE HandleIgnored
  BY <1>9 DEF HandleIgnored
<1>10. CASE ReadFails
  BY <1>10 DEF ReadFails, Return, Fail, cancelled
<1>11. CASE Read
  BY <1>11, Dequeue, Enqueue DEF Read
<1>12. ASSUME NEW reaches \in BOOLEAN, WriteControl(reaches)
       PROVE  Types'
  BY <1>12, Dequeue DEF WriteControl
<1>13. CASE TakeAck
  BY <1>13, Dequeue DEF TakeAck
<1>14. CASE Cancel
  BY <1>14 DEF Cancel, Fail, cancelled
<1>15. CASE UNCHANGED vars
  BY <1>15 DEF vars
<1>. QED
  BY <1>1, <1>2, <1>3, <1>4, <1>5, <1>6, <1>7, <1>8, <1>9, <1>10, <1>11, <1>12,
     <1>13, <1>14, <1>15 DEF Next, LoopStep, Receive

(* No step overfills a channel. *)
LEMMA CapacityStep ==
    ASSUME Types, ChannelCapacities, [Next]_vars
    PROVE  ChannelCapacities'
<1> USE MessageType, LenProperties
    DEF Types, LoopTypes, ChannelTypes, ChannelCapacities, loopVars, chanVars
<1>1. CASE CheckContext
  BY <1>1 DEF CheckContext, Return
<1>2. CASE ForwardAck
  BY <1>2, Enqueue DEF ForwardAck, Return
<1>3. CASE AckArrived
  BY <1>3, Enqueue DEF AckArrived, SendAcknowledge
<1>4. CASE DeliverExpected
  BY <1>4, Enqueue DEF DeliverExpected, Deliver, Return
<1>5. CASE AckDrained
  BY <1>5, Enqueue DEF AckDrained, SendAcknowledge
<1>6. CASE DeliverDrained
  BY <1>6, Enqueue DEF DeliverDrained, Deliver, Return
<1>7. CASE Receive
  BY <1>7 DEF Receive, HandleOutput, HandleAcknowledge, HandleIgnored, ReadFails, Return
<1>8. CASE Read
  BY <1>8, Dequeue DEF Read
<1>9. ASSUME NEW reaches \in BOOLEAN, WriteControl(reaches)
      PROVE  ChannelCapacities'
  BY <1>9, Dequeue DEF WriteControl
<1>10. CASE TakeAck
  BY <1>10, Dequeue DEF TakeAck
<1>11. CASE Cancel \/ UNCHANGED vars
  BY <1>11 DEF Cancel, vars
<1>. QED
  BY <1>1, <1>2, <1>3, <1>4, <1>5, <1>6, <1>7, <1>8, <1>9, <1>10, <1>11 DEF Next, LoopStep

(* Every reachable state has its types and keeps every channel within its    *)
(* capacity, for all capacities, window sizes and stream lengths.            *)
THEOREM TypeCorrect == Spec => []TypeOK
<1>1. Init => Types /\ ChannelCapacities
  BY EmptyChannel, MessageType DEF Init, Types, LoopTypes, ChannelTypes, ChannelCapacities, Causes
<1>2. TypeOK <=> Types /\ ChannelCapacities
  BY DEF TypeOK, Types
<1>. QED
  BY <1>1, <1>2, TypeStep, CapacityStep, PTL DEF Spec

--------------------------------------------------------------------------------
(* The inductive invariant, part by part.                                    *)

(* What the loop holds at each blocking point. *)
LEMMA LoopStateStep ==
    ASSUME Types, LoopState, [Next]_vars
    PROVE  LoopState'
<1> USE MessageType
    DEF Types, LoopTypes, LoopState, Stream, NoMessage, Output, Acknowledge, loopVars, chanVars
<1>1. CASE CheckContext
  BY <1>1 DEF CheckContext, Return
<1>2. CASE ForwardAck
  BY <1>2 DEF ForwardAck, Return
<1>3. CASE AckArrived
  BY <1>3 DEF AckArrived, SendAcknowledge, DeliversNow
<1>4. CASE DeliverExpected
  BY <1>4 DEF DeliverExpected, Deliver, DrainOrContinue, Return
<1>5. CASE AckDrained
  BY <1>5 DEF AckDrained, SendAcknowledge
<1>6. CASE DeliverDrained
  BY <1>6 DEF DeliverDrained, Deliver, DeleteDrained, DrainOrContinue, Return
<1>7. ASSUME NEW s \in Stream, HandleOutput(s)
      PROVE  LoopState'
  BY <1>7 DEF HandleOutput, Buffered, AcknowledgedOnArrival
<1>8. ASSUME NEW s \in AckSeqs, HandleAcknowledge(s)
      PROVE  LoopState'
  BY <1>8 DEF HandleAcknowledge
<1>9. CASE HandleIgnored \/ ReadFails
  BY <1>9 DEF HandleIgnored, ReadFails, Return
<1>10. CASE Read \/ TakeAck \/ Cancel \/ UNCHANGED vars
  BY <1>10 DEF Read, TakeAck, Cancel, vars
<1>11. ASSUME NEW reaches \in BOOLEAN, WriteControl(reaches)
       PROVE  LoopState'
  BY <1>11 DEF WriteControl
<1>. QED
  BY <1>1, <1>2, <1>3, <1>4, <1>5, <1>6, <1>7, <1>8, <1>9, <1>10, <1>11
     DEF Next, LoopStep, Receive

(* The loop never looks beyond the remote's stream. *)
LEMMA InStreamStep ==
    ASSUME Types, LoopState, InStream, [Next]_vars
    PROVE  InStream'
<1> USE DEF Types, LoopTypes, InStream, LoopState, Stream, NoMessage, Output, Acknowledge,
        loopVars, chanVars
<1>1. CASE CheckContext
  BY <1>1 DEF CheckContext, Return
<1>2. CASE ForwardAck
  <2>1. UNCHANGED <<outOfOrderMessages, expectedSequenceId>> /\ msg' \in {msg, NoMessage}
    BY <1>2 DEF ForwardAck, Return
  <2>. QED BY <2>1
<1>3. CASE AckArrived
  BY <1>3 DEF AckArrived
<1>4. CASE DeliverExpected
  <2>1. CASE Deliver(msg.SequenceNumber, outOfOrderMessages)
    BY <1>4, <2>1 DEF DeliverExpected, Deliver, DrainOrContinue
  <2>2. CASE cancelled /\ Return(cause)
    BY <1>4, <2>2 DEF DeliverExpected, Return
  <2>. QED BY <1>4, <2>1, <2>2 DEF DeliverExpected
<1>5. CASE AckDrained
  BY <1>5 DEF AckDrained
<1>6. CASE DeliverDrained
  <2>1. CASE Deliver(expectedSequenceId, DeleteDrained)
    BY <1>6, <2>1 DEF DeliverDrained, Deliver, DeleteDrained, DrainOrContinue
  <2>2. CASE cancelled /\ Return(cause)
    BY <1>6, <2>2 DEF DeliverDrained, Return
  <2>. QED BY <1>6, <2>1, <2>2 DEF DeliverDrained
<1>7. ASSUME NEW s \in Stream, HandleOutput(s)
      PROVE  InStream'
  BY <1>7 DEF HandleOutput, Buffered
<1>8. ASSUME NEW s \in AckSeqs, HandleAcknowledge(s)
      PROVE  InStream'
  BY <1>8 DEF HandleAcknowledge
<1>9. CASE HandleIgnored \/ ReadFails
  BY <1>9 DEF HandleIgnored, ReadFails, Return
<1>10. CASE Read \/ TakeAck \/ Cancel \/ UNCHANGED vars
  BY <1>10 DEF Read, TakeAck, Cancel, vars
<1>11. ASSUME NEW reaches \in BOOLEAN, WriteControl(reaches)
       PROVE  InStream'
  BY <1>11 DEF WriteControl
<1>. QED
  BY <1>1, <1>2, <1>3, <1>4, <1>5, <1>6, <1>7, <1>8, <1>9, <1>10, <1>11
     DEF Next, LoopStep, Receive

(* No key of the map falls behind the sequence: the only steps that advance   *)
(* it find every other key ahead, and the inner loop deletes its own.         *)
LEMMA KeysAheadStep ==
    ASSUME Types, LoopState, KeysAhead, [Next]_vars
    PROVE  KeysAhead'
<1> USE DEF Types, LoopTypes, KeysAhead, LoopState, Stream, loopVars, chanVars
<1>1. CASE CheckContext
  BY <1>1 DEF CheckContext, Return
<1>2. CASE ForwardAck
  BY <1>2 DEF ForwardAck, Return
<1>3. CASE AckArrived
  BY <1>3 DEF AckArrived
<1>4. CASE DeliverExpected
  <2>1. CASE Deliver(msg.SequenceNumber, outOfOrderMessages)
    BY <1>4, <2>1 DEF DeliverExpected, Deliver, DrainOrContinue
  <2>2. CASE cancelled /\ Return(cause)
    BY <1>4, <2>2 DEF DeliverExpected, Return
  <2>. QED BY <1>4, <2>1, <2>2 DEF DeliverExpected
<1>5. CASE AckDrained
  BY <1>5 DEF AckDrained
<1>6. CASE DeliverDrained
  <2>1. CASE Deliver(expectedSequenceId, DeleteDrained)
    BY <1>6, <2>1 DEF DeliverDrained, Deliver, DeleteDrained, DrainOrContinue
  <2>2. CASE cancelled /\ Return(cause)
    BY <1>6, <2>2 DEF DeliverDrained, Return
  <2>. QED BY <1>6, <2>1, <2>2 DEF DeliverDrained
<1>7. ASSUME NEW s \in Stream, HandleOutput(s)
      PROVE  KeysAhead'
  BY <1>7 DEF HandleOutput, Buffered
<1>8. ASSUME NEW s \in AckSeqs, HandleAcknowledge(s)
      PROVE  KeysAhead'
  BY <1>8 DEF HandleAcknowledge
<1>9. CASE HandleIgnored \/ ReadFails
  BY <1>9 DEF HandleIgnored, ReadFails, Return
<1>10. CASE Read \/ TakeAck \/ Cancel \/ UNCHANGED vars
  BY <1>10 DEF Read, TakeAck, Cancel, vars
<1>11. ASSUME NEW reaches \in BOOLEAN, WriteControl(reaches)
       PROVE  KeysAhead'
  BY <1>11 DEF WriteControl
<1>. QED
  BY <1>1, <1>2, <1>3, <1>4, <1>5, <1>6, <1>7, <1>8, <1>9, <1>10, <1>11
     DEF Next, LoopStep, Receive

(* The map changes only by one insertion while it has room, or one deletion.  *)
LEMMA WithinWindowStep ==
    ASSUME Types, WithinWindow, [Next]_vars
    PROVE  WithinWindow'
<1> USE DEF loopVars, chanVars
<1>1. \/ UNCHANGED outOfOrderMessages
      \/ outOfOrderMessages' = outOfOrderMessages \ {expectedSequenceId}
      \/ BufferHasRoom /\ \E s \in Stream : outOfOrderMessages' = outOfOrderMessages \union {s}
  BY DEF Next, LoopStep, Receive, CheckContext, ForwardAck, AckArrived, DeliverExpected,
     AckDrained, DeliverDrained, Deliver, DeleteDrained, HandleOutput, Buffered,
     HandleAcknowledge, HandleIgnored, ReadFails, Return, Read, WriteControl, TakeAck, Cancel, vars
<1>2. CASE UNCHANGED outOfOrderMessages
  BY <1>2 DEF WithinWindow
<1>3. CASE outOfOrderMessages' = outOfOrderMessages \ {expectedSequenceId}
  <2>1. /\ IsFiniteSet(outOfOrderMessages \ {expectedSequenceId})
        /\ Cardinality(outOfOrderMessages \ {expectedSequenceId})
             <= Cardinality(outOfOrderMessages)
    BY FS_Subset DEF WithinWindow
  <2>2. /\ Cardinality(outOfOrderMessages) \in Nat
        /\ Cardinality(outOfOrderMessages \ {expectedSequenceId}) \in Nat
    BY <2>1, FS_CardinalityType DEF WithinWindow
  <2>. QED BY <1>3, <2>1, <2>2 DEF WithinWindow
<1>4. ASSUME BufferHasRoom, NEW s \in Stream, outOfOrderMessages' = outOfOrderMessages \union {s}
      PROVE  WithinWindow'
  <2>1. Cardinality(outOfOrderMessages) \in Nat
    BY FS_CardinalityType DEF WithinWindow
  <2>2. /\ IsFiniteSet(outOfOrderMessages \union {s})
        /\ Cardinality(outOfOrderMessages \union {s})
             \in {Cardinality(outOfOrderMessages), Cardinality(outOfOrderMessages) + 1}
    BY FS_AddElement DEF WithinWindow
  <2>. QED BY <1>4, <2>1, <2>2 DEF WithinWindow, BufferHasRoom
<1>. QED
  BY <1>1, <1>2, <1>3, <1>4

(* Whatever is appended to the reader's channel is the number the loop        *)
(* expects, and Read only moves the front of the channel.                     *)
LEMMA OrderStep ==
    ASSUME Types, LoopState, OrderedDelivery, [Next]_vars
    PROVE  OrderedDelivery'
<1> USE LenProperties DEF Types, LoopTypes, ChannelTypes, OrderedDelivery, loopVars, chanVars
<1>1. ASSUME NEW s, s = expectedSequenceId,
             incomingDataMessages' = Append(incomingDataMessages, s),
             expectedSequenceId' = expectedSequenceId + 1,
             UNCHANGED read
      PROVE  OrderedDelivery'
  <2>1. /\ Len(incomingDataMessages') = Len(incomingDataMessages) + 1
        /\ \A i \in 1 .. Len(incomingDataMessages) : incomingDataMessages'[i] = incomingDataMessages[i]
        /\ incomingDataMessages'[Len(incomingDataMessages) + 1] = expectedSequenceId
    BY <1>1, Enqueue, EnqueueElements
  <2>2. \A i \in 1 .. Len(incomingDataMessages') : incomingDataMessages'[i] = Len(read) + i - 1
    <3>1. SUFFICES ASSUME NEW i \in 1 .. (Len(incomingDataMessages) + 1)
                   PROVE  incomingDataMessages'[i] = Len(read) + i - 1
      BY <2>1
    <3>2. CASE i <= Len(incomingDataMessages)
      BY <2>1, <3>1, <3>2
    <3>3. CASE i = Len(incomingDataMessages) + 1
      BY <2>1, <3>3
    <3>4. Len(incomingDataMessages) \in Nat
      OBVIOUS
    <3>. QED BY <3>2, <3>3, <3>4
  <2>. QED BY <1>1, <2>1, <2>2
<1>2. CASE DeliverExpected
  <2>1. CASE Deliver(msg.SequenceNumber, outOfOrderMessages)
    BY <1>1, <1>2, <2>1 DEF DeliverExpected, Deliver, LoopState
  <2>2. CASE cancelled /\ Return(cause)
    BY <2>2 DEF Return
  <2>. QED BY <1>2, <2>1, <2>2 DEF DeliverExpected
<1>3. CASE DeliverDrained
  <2>1. CASE Deliver(expectedSequenceId, DeleteDrained)
    BY <1>1, <2>1 DEF Deliver
  <2>2. CASE cancelled /\ Return(cause)
    BY <2>2 DEF Return
  <2>. QED BY <1>3, <2>1, <2>2 DEF DeliverDrained
<1>4. CASE Read
  <2>1. /\ incomingDataMessages # <<>>
        /\ read' = Append(read, Head(incomingDataMessages))
        /\ incomingDataMessages' = Tail(incomingDataMessages)
        /\ UNCHANGED expectedSequenceId
    BY <1>4 DEF Read
  <2>2. /\ Len(incomingDataMessages) >= 1
        /\ Head(incomingDataMessages) = Len(read)
        /\ Len(incomingDataMessages') = Len(incomingDataMessages) - 1
        /\ \A i \in 1 .. Len(incomingDataMessages') :
              incomingDataMessages'[i] = incomingDataMessages[i + 1]
    BY <2>1, Dequeue, DequeueElements
  <2>3. /\ Len(read') = Len(read) + 1
        /\ \A i \in 1 .. Len(read) : read'[i] = read[i]
        /\ read'[Len(read) + 1] = Len(read)
    BY <2>1, <2>2, Enqueue, EnqueueElements, Dequeue
  <2>4. \A i \in 1 .. Len(read') : read'[i] = i - 1
    <3>1. TAKE i \in 1 .. Len(read')
    <3>2. CASE i <= Len(read)
      BY <2>3, <3>1, <3>2
    <3>3. CASE i = Len(read) + 1
      BY <2>3, <3>3
    <3>. QED BY <2>3, <3>1, <3>2, <3>3
  <2>5. \A i \in 1 .. Len(incomingDataMessages') : incomingDataMessages'[i] = Len(read') + i - 1
    BY <2>2, <2>3
  <2>6. Len(read') + Len(incomingDataMessages') = expectedSequenceId'
    <3>1. Len(read) \in Nat /\ Len(incomingDataMessages) \in Nat
      OBVIOUS
    <3>2. expectedSequenceId' = Len(read) + Len(incomingDataMessages)
      BY <2>1
    <3>3. /\ Len(read') = Len(read) + 1
          /\ Len(incomingDataMessages') = Len(incomingDataMessages) - 1
      BY <2>2, <2>3
    <3>. HIDE DEF Types, OrderedDelivery
    <3>. QED BY <3>1, <3>2, <3>3
  <2>. QED BY <2>4, <2>5, <2>6
<1>5. UNCHANGED <<read, incomingDataMessages, expectedSequenceId>> => OrderedDelivery'
  OBVIOUS
<1>6. CASE CheckContext \/ ForwardAck \/ AckArrived \/ AckDrained
  BY <1>5, <1>6 DEF CheckContext, ForwardAck, AckArrived, AckDrained, Return
<1>7. CASE Receive
  BY <1>5, <1>7 DEF Receive, HandleOutput, HandleAcknowledge, HandleIgnored, ReadFails, Return
<1>8. CASE (\E reaches \in BOOLEAN : WriteControl(reaches)) \/ TakeAck \/ Cancel \/ UNCHANGED vars
  BY <1>5, <1>8 DEF WriteControl, TakeAck, Cancel, vars
<1>. QED
  BY <1>2, <1>3, <1>4, <1>6, <1>7, <1>8 DEF Next, LoopStep

(* A step takes charge of at most one more message, the one that has just     *)
(* arrived, and lets go of none.                                              *)
LEMMA AcceptedStep ==
    ASSUME Types, LoopState, [Next]_vars
    PROVE  \/ Accepted' = Accepted
           \/ /\ \E s \in Stream : Accepted' = Accepted \union {s}
              /\ UNCHANGED <<expectedSequenceId, chanVars, acksAtRemote>>
<1> DEFINE Goal == \/ Accepted' = Accepted
                   \/ /\ \E s \in Stream : Accepted' = Accepted \union {s}
                      /\ UNCHANGED <<expectedSequenceId, chanVars, acksAtRemote>>
<1>1. UNCHANGED <<msg, expectedSequenceId, outOfOrderMessages>> => Accepted' = Accepted
  BY DEF Accepted
<1>2. CASE ForwardAck
  <2>1. /\ msg.MessageType # Output
        /\ msg' \in {msg, NoMessage}
        /\ UNCHANGED <<expectedSequenceId, outOfOrderMessages>>
    BY <1>2 DEF ForwardAck, Return, LoopState, Output, Acknowledge
  <2>. QED BY <2>1 DEF Accepted, NoMessage, Output
<1>3. CASE AckArrived
  <2>1. CASE UNCHANGED msg
    BY <1>1, <1>3, <2>1 DEF AckArrived
  <2>2. CASE msg' = NoMessage /\ msg.SequenceNumber # expectedSequenceId
    <3>1. /\ UNCHANGED <<expectedSequenceId, outOfOrderMessages>>
          /\ expectedSequenceId \in Nat /\ msg.SequenceNumber \in Nat
      BY <1>3, MessageType DEF AckArrived, Types, LoopTypes
    <3>2. msg.SequenceNumber \in (0 .. (expectedSequenceId - 1)) \union outOfOrderMessages
      BY <1>3, <2>2, <3>1 DEF AckArrived, LoopState
    <3>. QED BY <2>2, <3>1, <3>2 DEF Accepted, NoMessage, Output
  <2>. QED BY <1>3, <2>1, <2>2 DEF AckArrived, DeliversNow
<1>4. CASE DeliverExpected
  <2>1. CASE Deliver(msg.SequenceNumber, outOfOrderMessages)
    <3>1. /\ msg.MessageType = Output
          /\ msg.SequenceNumber = expectedSequenceId
          /\ expectedSequenceId \in Nat
          /\ expectedSequenceId' = expectedSequenceId + 1
          /\ UNCHANGED outOfOrderMessages
          /\ msg' \in {msg, NoMessage}
      BY <1>4, <2>1 DEF DeliverExpected, Deliver, DrainOrContinue, LoopState, Types, LoopTypes
    <3>2. 0 .. (expectedSequenceId' - 1) = (0 .. (expectedSequenceId - 1)) \union {expectedSequenceId}
      BY <3>1
    <3>. QED BY <3>1, <3>2 DEF Accepted, NoMessage, Output
  <2>2. CASE cancelled /\ Return(cause)
    BY <1>1, <2>2 DEF Return
  <2>. QED BY <1>4, <2>1, <2>2 DEF DeliverExpected
<1>5. CASE DeliverDrained
  <2>1. CASE Deliver(expectedSequenceId, DeleteDrained)
    <3>1. /\ msg.MessageType = Output
          /\ msg.SequenceNumber < expectedSequenceId
          /\ msg.SequenceNumber \in Nat
          /\ expectedSequenceId \in outOfOrderMessages
          /\ expectedSequenceId \in Nat
          /\ expectedSequenceId' = expectedSequenceId + 1
          /\ outOfOrderMessages' = outOfOrderMessages \ {expectedSequenceId}
          /\ msg' \in {msg, NoMessage}
      BY <1>5, <2>1, MessageType
         DEF DeliverDrained, Deliver, DeleteDrained, DrainOrContinue, LoopState, Types, LoopTypes
    <3>2. /\ 0 .. (expectedSequenceId' - 1)
               = (0 .. (expectedSequenceId - 1)) \union {expectedSequenceId}
          /\ msg.SequenceNumber \in 0 .. (expectedSequenceId - 1)
      BY <3>1
    <3>. QED BY <3>1, <3>2 DEF Accepted, NoMessage, Output
  <2>2. CASE cancelled /\ Return(cause)
    BY <1>1, <2>2 DEF Return
  <2>. QED BY <1>5, <2>1, <2>2 DEF DeliverDrained
<1>6. ASSUME NEW s \in Stream, HandleOutput(s)
      PROVE  Goal
  <2>1. /\ UNCHANGED <<expectedSequenceId, chanVars, acksAtRemote>>
        /\ msg.MessageType # Output
    BY <1>6 DEF HandleOutput, LoopState, Output
  <2>2. CASE AcknowledgedOnArrival(s)
    <3>1. /\ msg' = [MessageType |-> Output, SequenceNumber |-> s]
          /\ outOfOrderMessages' \in {outOfOrderMessages, outOfOrderMessages \union {s}}
      BY <1>6, <2>2 DEF HandleOutput, Buffered
    <3>. QED BY <2>1, <3>1 DEF Accepted
  <2>3. CASE ~AcknowledgedOnArrival(s)
    <3>1. UNCHANGED <<msg, outOfOrderMessages>>
      BY <1>6, <2>3 DEF HandleOutput, Buffered, AcknowledgedOnArrival
    <3>. QED BY <1>1, <2>1, <3>1
  <2>. QED BY <2>2, <2>3
<1>7. ASSUME NEW s \in AckSeqs, HandleAcknowledge(s)
      PROVE  Goal
  BY <1>7 DEF HandleAcknowledge, LoopState, Accepted, Output, Acknowledge
<1>8. CASE CheckContext \/ AckDrained \/ HandleIgnored \/ ReadFails
  BY <1>1, <1>8 DEF CheckContext, AckDrained, HandleIgnored, ReadFails, Return
<1>9. CASE Read \/ (\E reaches \in BOOLEAN : WriteControl(reaches)) \/ TakeAck \/ Cancel
             \/ UNCHANGED vars
  BY <1>1, <1>9 DEF Read, WriteControl, TakeAck, Cancel, vars, loopVars
<1>. QED
  BY <1>2, <1>3, <1>4, <1>5, <1>6, <1>7, <1>8, <1>9 DEF Next, LoopStep, Receive

(* What is queued for acknowledgement, or acknowledged, is in the client's    *)
(* charge: only the message in hand and the one about to be drained are       *)
(* queued, and nothing in charge is let go.                                   *)
LEMMA AckStep ==
    ASSUME Types, LoopState, AckImpliesAccepted, [Next]_vars
    PROVE  AckImpliesAccepted'
<1>1. Accepted \subseteq Accepted'
  BY AcceptedStep
<1>2. ASSUME NEW s \in Accepted, SendAcknowledge(s), UNCHANGED acksAtRemote
      PROVE  AckImpliesAccepted'
  <2>1. CASE UNCHANGED outgoingControlMessages
    BY <1>1, <1>2, <2>1 DEF AckImpliesAccepted
  <2>2. CASE outgoingControlMessages' = Append(outgoingControlMessages, s)
    <3>1. outgoingControlMessages \in Seq(Nat) /\ Len(outgoingControlMessages) \in Nat /\ s \in Nat
      BY <1>2, MessageType, LenProperties DEF Types, ChannelTypes, LoopTypes, Accepted
    <3>2. /\ Len(outgoingControlMessages') = Len(outgoingControlMessages) + 1
          /\ \A i \in 1 .. Len(outgoingControlMessages) :
                outgoingControlMessages'[i] = outgoingControlMessages[i]
          /\ outgoingControlMessages'[Len(outgoingControlMessages) + 1] = s
      BY <2>2, <3>1, Enqueue, EnqueueElements
    <3>3. ASSUME NEW i \in 1 .. Len(outgoingControlMessages')
          PROVE  outgoingControlMessages'[i] \in Accepted
      <4>1. CASE i = Len(outgoingControlMessages) + 1
        BY <1>2, <3>2, <4>1
      <4>2. CASE i \in 1 .. Len(outgoingControlMessages)
        BY <3>2, <4>2 DEF AckImpliesAccepted
      <4>. QED BY <3>1, <3>2, <4>1, <4>2
    <3>. QED BY <1>1, <1>2, <3>3 DEF AckImpliesAccepted
  <2>. QED BY <1>2, <2>1, <2>2 DEF SendAcknowledge
<1>3. CASE AckArrived
  <2>1. msg.SequenceNumber \in Accepted
    BY <1>3 DEF AckArrived, LoopState, Accepted
  <2>. QED BY <1>2, <1>3, <2>1 DEF AckArrived
<1>4. CASE AckDrained
  <2>1. expectedSequenceId \in Accepted
    BY <1>4 DEF AckDrained, LoopState, Accepted
  <2>. QED BY <1>2, <1>4, <2>1 DEF AckDrained
<1>5. ASSUME NEW reaches \in BOOLEAN, WriteControl(reaches)
      PROVE  AckImpliesAccepted'
  <2>1. /\ outgoingControlMessages \in Seq(Nat)
        /\ outgoingControlMessages # <<>>
        /\ outgoingControlMessages' = Tail(outgoingControlMessages)
        /\ acksAtRemote' \subseteq acksAtRemote \union {Head(outgoingControlMessages)}
    BY <1>5 DEF WriteControl, Types, ChannelTypes
  <2>2. /\ Len(outgoingControlMessages) \in Nat
        /\ Len(outgoingControlMessages) >= 1
        /\ Head(outgoingControlMessages) = outgoingControlMessages[1]
        /\ Len(outgoingControlMessages') = Len(outgoingControlMessages) - 1
        /\ \A i \in 1 .. Len(outgoingControlMessages') :
              outgoingControlMessages'[i] = outgoingControlMessages[i + 1]
    BY <2>1, Dequeue, DequeueElements, LenProperties
  <2>3. Head(outgoingControlMessages) \in Accepted
    BY <2>2 DEF AckImpliesAccepted
  <2>4. \A i \in 1 .. Len(outgoingControlMessages') : outgoingControlMessages'[i] \in Accepted
    BY <2>2 DEF AckImpliesAccepted
  <2>. QED BY <1>1, <2>1, <2>3, <2>4 DEF AckImpliesAccepted
<1>6. UNCHANGED <<outgoingControlMessages, acksAtRemote>> => AckImpliesAccepted'
  BY <1>1 DEF AckImpliesAccepted
<1>7. CASE CheckContext \/ ForwardAck \/ DeliverExpected \/ DeliverDrained
  BY <1>6, <1>7 DEF CheckContext, ForwardAck, DeliverExpected, DeliverDrained, Deliver, Return, chanVars
<1>8. CASE Receive
  BY <1>6, <1>8 DEF Receive, HandleOutput, HandleAcknowledge, HandleIgnored, ReadFails, Return, chanVars
<1>9. CASE Read \/ TakeAck \/ Cancel \/ UNCHANGED vars
  BY <1>6, <1>9 DEF Read, TakeAck, Cancel, vars, chanVars
<1>. QED
  BY <1>3, <1>4, <1>5, <1>7, <1>8, <1>9 DEF Next, LoopStep

--------------------------------------------------------------------------------
(* The theorems.                                                             *)

(* The invariant holds at the start, and every step keeps it. *)
LEMMA InvariantStart ==
    ASSUME Init
    PROVE  IInv
<1>1. Types /\ ChannelCapacities
  BY EmptyChannel, MessageType
     DEF Init, Types, LoopTypes, ChannelTypes, ChannelCapacities, Causes
<1>2. LoopState /\ InStream /\ KeysAhead
  BY DEF Init, LoopState, InStream, KeysAhead, NoMessage, Output, Acknowledge
<1>3. WithinWindow
  BY FS_EmptySet DEF Init, WithinWindow
<1>4. OrderedDelivery /\ AckImpliesAccepted
  BY EmptyChannel DEF Init, OrderedDelivery, AckImpliesAccepted
<1>. QED BY <1>1, <1>2, <1>3, <1>4 DEF IInv, TypeOK, Types

(* One step keeps it: one lemma for each of its parts. *)
LEMMA InvariantStep ==
    ASSUME IInv, [Next]_vars
    PROVE  IInv'
<1>1. Types /\ ChannelCapacities /\ LoopState /\ InStream /\ KeysAhead /\ WithinWindow
        /\ OrderedDelivery /\ AckImpliesAccepted
  BY DEF IInv, TypeOK, Types
<1>2. Types' /\ ChannelCapacities' /\ LoopState' /\ InStream' /\ KeysAhead' /\ WithinWindow'
        /\ OrderedDelivery' /\ AckImpliesAccepted'
  BY <1>1, TypeStep, CapacityStep, LoopStateStep, InStreamStep, KeysAheadStep,
     WithinWindowStep, OrderStep, AckStep
<1>. QED BY <1>2 DEF IInv, TypeOK, Types

(* The inductive invariant: at each point where the loop can block, the       *)
(* message in hand, the map, the reader's channel and the acknowledgements    *)
(* fit together as the code between those points needs them to.               *)
THEOREM Invariance == Spec => []IInv
  BY InvariantStart, InvariantStep, PTL DEF Spec

(* The reader gets the remote's messages exactly once and in order, for every *)
(* stream, window, and behaviour of the network.                              *)
THEOREM DeliveryInOrder == Spec => []OrderedDelivery
<1>1. IInv => OrderedDelivery
  BY DEF IInv
<1>. QED BY <1>1, Invariance, PTL

(* Nothing is acknowledged that the client does not hold. *)
THEOREM AcknowledgedIsHeld == Spec => []AckImpliesAccepted
<1>1. IInv => AckImpliesAccepted
  BY DEF IInv
<1>. QED BY <1>1, Invariance, PTL

(* The reorder map stays within its window and every key in it can still be   *)
(* delivered.                                                                 *)
THEOREM WindowIsLive == Spec => []ReorderWindow
<1>1. IInv => ReorderWindow
  BY DEF IInv, KeysAhead, WithinWindow, ReorderWindow
<1>. QED BY <1>1, Invariance, PTL

(* The incoming loop implements the abstract stream: each of its steps        *)
(* accepts at most one message, delivers the next accepted one, retires an    *)
(* accepted one, or changes nothing the abstract stream can see.              *)
THEOREM Refinement == Spec => ImplementsAckedStream
<1>1. Init => Abstract!Init
  <2> SUFFICES ASSUME Init PROVE Abstract!Init
    OBVIOUS
  <2>1. Accepted = {}
    BY DEF Init, Accepted, NoMessage, Output
  <2>. QED BY <2>1 DEF Init, Abstract!Init
<1>2. IInv /\ [Next]_vars => [Abstract!Next]_(Abstract!vars)
  <2> SUFFICES ASSUME IInv, [Next]_vars PROVE [Abstract!Next]_(Abstract!vars)
    OBVIOUS
  <2> USE DEF Abstract!Next, Abstract!vars, Abstract!Accept, Abstract!Deliver, Abstract!Retire
  <2>1. Types /\ LoopState /\ InStream /\ AckImpliesAccepted
    BY DEF IInv, TypeOK, Types
  <2>2. CASE ~UNCHANGED Accepted
    BY <2>1, <2>2, AcceptedStep DEF Stream, chanVars
  <2>3. CASE UNCHANGED <<Accepted, expectedSequenceId, acksAtRemote>>
    BY <2>3
  <2>4. CASE DeliverExpected \/ DeliverDrained
    BY <2>1, <2>2, <2>3, <2>4
       DEF DeliverExpected, DeliverDrained, Deliver, Return, LoopState, Accepted
  <2>5. ASSUME NEW reaches \in BOOLEAN, WriteControl(reaches)
        PROVE  [Abstract!Next]_(Abstract!vars)
    <3>1. outgoingControlMessages \in Seq(Nat) /\ outgoingControlMessages # <<>>
      BY <2>1, <2>5 DEF WriteControl, Types, ChannelTypes
    <3>2. Head(outgoingControlMessages) = outgoingControlMessages[1]
            /\ Len(outgoingControlMessages) >= 1 /\ Len(outgoingControlMessages) \in Nat
      BY <3>1, Dequeue, DequeueElements, LenProperties
    <3>3. Head(outgoingControlMessages) \in Accepted
      BY <2>1, <3>2 DEF AckImpliesAccepted
    <3>4. Accepted \subseteq Stream
      <4>1. 0 .. (expectedSequenceId - 1) \subseteq Stream
        BY <2>1 DEF InStream, Types, LoopTypes, Stream
      <4>. QED BY <2>1, <4>1 DEF Accepted, InStream
    <3>. QED BY <2>2, <2>3, <2>5, <3>3, <3>4 DEF WriteControl, loopVars, Stream
  <2>6. CASE CheckContext \/ ForwardAck \/ AckArrived \/ AckDrained
    BY <2>2, <2>3, <2>6 DEF CheckContext, ForwardAck, AckArrived, AckDrained, Return
  <2>7. CASE Receive
    BY <2>2, <2>3, <2>7 DEF Receive, HandleOutput, HandleAcknowledge, HandleIgnored, ReadFails, Return
  <2>8. CASE Read \/ TakeAck \/ Cancel \/ UNCHANGED vars
    BY <2>2, <2>3, <2>8 DEF Read, TakeAck, Cancel, vars, loopVars
  <2>. QED
    BY <2>4, <2>5, <2>6, <2>7, <2>8 DEF Next, LoopStep
<1>. QED
  BY <1>1, <1>2, Invariance, PTL DEF Spec, ImplementsAckedStream, Abstract!Spec

================================================================================
