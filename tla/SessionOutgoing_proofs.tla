------------------------ MODULE SessionOutgoing_proofs -------------------------
(***************************************************************************)
(* Theorems about SessionOutgoing for every number of messages, every      *)
(* window, every pair of intervals and every channel capacity, and their   *)
(* proofs.                                                                 *)
(***************************************************************************)
EXTENDS SessionOutgoing, Channels, FiniteSetTheorems, TLAPS

USE NumWritesAssumption, InflightAssumption, TimeAssumption, CapAssumption

Queued == [id : Nat, Flags : {"Data", "Fin"}]

(* TypeOK without the sizes. *)
LoopTypes ==
    /\ pc \in {"select", "returned"}
    /\ nextOutgoingSequenceNumber \in Nat
    /\ unacknowledgedMessages \in [Seqs -> Unacknowledged]
    /\ Seqs \subseteq Nat
    /\ writeThrottled \in BOOLEAN
    /\ cause \in {"none", "ErrAckTimeout", "other"}
    /\ writes \in Nat

ChannelTypes ==
    /\ outgoingMessages \in Seq(Queued)
    /\ outgoingControlMessages \in Seq(ControlMsgs)
    /\ ackReceived \in Seq(Nat)

SocketTypes ==
    /\ written \subseteq Frame
    /\ atRemote \subseteq written
    /\ controlAtRemote \subseteq ControlMsgs

Types == LoopTypes /\ ChannelTypes /\ SocketTypes

(* The sizes. *)
ChannelCapacities ==
    /\ Len(outgoingMessages) <= OutCap
    /\ Len(outgoingControlMessages) <= ControlCap
    /\ Len(ackReceived) <= AckCap

WithinWindow ==
    IsFiniteSet(Seqs) /\ Cardinality(Seqs) <= maxInflightMessages

--------------------------------------------------------------------------------
(* The map of unacknowledged messages.                                       *)

(* The acknowledgement handler removes entries and changes none. *)
LEMMA AckMap ==
    ASSUME Types, ReceiveAck
    PROVE  /\ Seqs' = Seqs \ {Head(ackReceived)}
           /\ \A t \in Seqs' : unacknowledgedMessages'[t] = unacknowledgedMessages[t]
           /\ unacknowledgedMessages' \in [Seqs' -> Unacknowledged]
  BY DEF Types, LoopTypes, ReceiveAck, Acknowledged, Seqs

(* Sending adds the entry of the number used, and keeps every other. *)
LEMMA SendMap ==
    ASSUME Types, NEW ok \in BOOLEAN, SendMessage(ok)
    PROVE  /\ outgoingMessages # <<>>
           /\ Head(outgoingMessages) \in Queued
           /\ Seqs' = Seqs \union {nextOutgoingSequenceNumber}
           /\ unacknowledgedMessages'[nextOutgoingSequenceNumber]
                = [id |-> Head(outgoingMessages).id,
                   Flags |-> StreamFlags(Head(outgoingMessages)),
                   sinceFirst |-> 0, sinceLast |-> 0]
           /\ \A t \in Seqs \ {nextOutgoingSequenceNumber} :
                unacknowledgedMessages'[t] = unacknowledgedMessages[t]
           /\ unacknowledgedMessages' \in [Seqs' -> Unacknowledged]
<1>1. outgoingMessages # <<>> /\ Head(outgoingMessages) \in Queued
  BY ReceiveOne DEF Types, ChannelTypes, SendMessage
<1>2. StreamFlags(Head(outgoingMessages)) \in Flags
  BY <1>1 DEF StreamFlags, Flags, Queued
<1> DEFINE m == Head(outgoingMessages)
           entry == [id |-> m.id, Flags |-> StreamFlags(m), sinceFirst |-> 0, sinceLast |-> 0]
<1>3. entry \in Unacknowledged
  BY <1>1, <1>2 DEF Unacknowledged, Queued
<1>4. unacknowledgedMessages' =
        [t \in Seqs \union {nextOutgoingSequenceNumber} |->
           IF t = nextOutgoingSequenceNumber THEN entry ELSE unacknowledgedMessages[t]]
  BY DEF SendMessage, Kept
<1> HIDE DEF entry
<1>5. /\ Seqs' = Seqs \union {nextOutgoingSequenceNumber}
      /\ unacknowledgedMessages'[nextOutgoingSequenceNumber] = entry
      /\ \A t \in Seqs \ {nextOutgoingSequenceNumber} :
           unacknowledgedMessages'[t] = unacknowledgedMessages[t]
  BY <1>4 DEF Seqs
<1>6. unacknowledgedMessages' \in [Seqs' -> Unacknowledged]
  BY <1>3, <1>4, <1>5 DEF Types, LoopTypes
<1>. QED
  BY <1>1, <1>5, <1>6 DEF entry

(* Sending again, and the passing of time, change only the ages. *)
LEMMA AgeMap ==
    ASSUME Types, Tick \/ \E ok \in SUBSET Seqs : ResendDue(ok)
    PROVE  /\ Seqs' = Seqs
           /\ \A t \in Seqs : /\ unacknowledgedMessages'[t].id = unacknowledgedMessages[t].id
                              /\ unacknowledgedMessages'[t].Flags = unacknowledgedMessages[t].Flags
           /\ unacknowledgedMessages' \in [Seqs' -> Unacknowledged]
<1>0. \A t \in Seqs : unacknowledgedMessages[t] \in Unacknowledged
  BY DEF Types, LoopTypes
<1>1. CASE Tick
  <2>1. ASSUME NEW limit \in Nat, NEW age \in 0 .. (limit + 1)
        PROVE  Older(age, limit) \in 0 .. (limit + 1)
    BY <2>1 DEF Older
  <2> DEFINE aged(u) == [u EXCEPT !.sinceFirst = Older(@, resendTimeout),
                                  !.sinceLast = Older(@, resendInterval)]
  <2>2. ASSUME NEW u \in Unacknowledged
        PROVE  aged(u) \in Unacknowledged /\ aged(u).id = u.id /\ aged(u).Flags = u.Flags
    <3>1. /\ Older(u.sinceFirst, resendTimeout) \in 0 .. (resendTimeout + 1)
          /\ Older(u.sinceLast, resendInterval) \in 0 .. (resendInterval + 1)
      BY <2>1 DEF Unacknowledged
    <3>. QED BY <3>1 DEF Unacknowledged
  <2>3. unacknowledgedMessages' = [s \in Seqs |-> aged(unacknowledgedMessages[s])]
    BY <1>1 DEF Tick
  <2> HIDE DEF aged
  <2>. QED BY <1>0, <2>2, <2>3 DEF Seqs
<1>2. ASSUME NEW ok \in SUBSET Seqs, ResendDue(ok)
      PROVE  /\ Seqs' = Seqs
             /\ \A t \in Seqs : /\ unacknowledgedMessages'[t].id = unacknowledgedMessages[t].id
                                /\ unacknowledgedMessages'[t].Flags = unacknowledgedMessages[t].Flags
             /\ unacknowledgedMessages' \in [Seqs' -> Unacknowledged]
  <2>1. ASSUME NEW u \in Unacknowledged
        PROVE  Resent(u) \in Unacknowledged /\ Resent(u).id = u.id /\ Resent(u).Flags = u.Flags
    BY DEF Resent, Unacknowledged
  <2>2. unacknowledgedMessages' =
          [s \in Seqs |-> IF Due(s) THEN Resent(unacknowledgedMessages[s])
                                    ELSE unacknowledgedMessages[s]]
    BY <1>2 DEF ResendDue
  <2>. QED BY <1>0, <2>1, <2>2 DEF Seqs
<1>. QED
  BY <1>1, <1>2

(* A step that sends no new message numbers nothing, keeps no new message,    *)
(* alters the frame of none it keeps, and writes only frames of those.        *)
LEMMA NothingNew ==
    ASSUME Types, [Next]_vars, \A ok \in BOOLEAN : ~SendMessage(ok)
    PROVE  /\ nextOutgoingSequenceNumber' = nextOutgoingSequenceNumber
           /\ Seqs' \subseteq Seqs
           /\ \A s \in Seqs' : FrameOf(s)' = FrameOf(s)
           /\ unacknowledgedMessages' \in [Seqs' -> Unacknowledged]
           /\ written \subseteq written'
           /\ written' \subseteq written \union {FrameOf(s) : s \in Seqs}
<1> DEFINE Goal ==
       /\ nextOutgoingSequenceNumber' = nextOutgoingSequenceNumber
       /\ Seqs' \subseteq Seqs
       /\ \A s \in Seqs' : FrameOf(s)' = FrameOf(s)
       /\ unacknowledgedMessages' \in [Seqs' -> Unacknowledged]
       /\ written \subseteq written'
       /\ written' \subseteq written \union {FrameOf(s) : s \in Seqs}
<1>1. CASE ReceiveAck
  BY <1>1, AckMap DEF ReceiveAck, FrameOf
<1>2. ASSUME NEW ok \in SUBSET Seqs, ResendDue(ok)
      PROVE  Goal
  BY <1>2, AgeMap DEF ResendDue, FrameOf
<1>3. CASE Tick
  BY <1>3, AgeMap DEF Tick, FrameOf
<1>4. ASSUME NEW ok \in SUBSET Seqs, GiveUp(ok)
      PROVE  Goal
  BY <1>4 DEF GiveUp, FrameOf, Seqs, Types, LoopTypes
<1>5. ASSUME UNCHANGED <<nextOutgoingSequenceNumber, unacknowledgedMessages, written>>
      PROVE  Goal
  BY <1>5 DEF FrameOf, Seqs, Types, LoopTypes
<1>6. ASSUME NEW reaches \in BOOLEAN, SendControl(reaches)
      PROVE  Goal
  BY <1>5, <1>6 DEF SendControl, loopVars
<1>7. CASE ThrottleFires \/ StopOnCancel
  BY <1>5, <1>7 DEF ThrottleFires, StopOnCancel
<1>8. ASSUME NEW flags \in {"Data", "Fin"}, Write(flags)
      PROVE  Goal
  BY <1>5, <1>8 DEF Write, loopVars
<1>9. ASSUME NEW c \in ControlMsgs, QueueControl(c)
      PROVE  Goal
  BY <1>5, <1>9 DEF QueueControl, loopVars
<1>10. ASSUME NEW frame \in written, RemoteReceives(frame)
       PROVE  Goal
  BY <1>5, <1>10 DEF RemoteReceives, loopVars
<1>11. ASSUME NEW s \in SeqsAtRemote, RemoteAcks(s)
       PROVE  Goal
  BY <1>5, <1>11 DEF RemoteAcks, loopVars
<1>12. CASE Cancel \/ UNCHANGED vars
  BY <1>5, <1>12 DEF Cancel, vars, loopVars
<1>. QED
  BY <1>1, <1>2, <1>3, <1>4, <1>6, <1>7, <1>8, <1>9, <1>10, <1>11, <1>12 DEF Next, LoopStep

(* Only SendMessage numbers a message: it takes the next number, and the      *)
(* frame it may write is the frame it keeps.                                  *)
LEMMA OneNew ==
    ASSUME Types, NEW ok \in BOOLEAN, SendMessage(ok),
           NEW seq, seq = nextOutgoingSequenceNumber
    PROVE  /\ nextOutgoingSequenceNumber' = seq + 1
           /\ Seqs' = Seqs \union {seq}
           /\ \A s \in Seqs \ {seq} : FrameOf(s)' = FrameOf(s)
           /\ FrameOf(seq)' = [SequenceNumber |-> seq,
                               id |-> Head(outgoingMessages).id,
                               Flags |-> StreamFlags(Head(outgoingMessages))]
           /\ written \subseteq written'
           /\ written' \subseteq written \union {FrameOf(seq)'}
<1>1. FrameOf(seq)' = [SequenceNumber |-> seq,
                       id |-> Head(outgoingMessages).id,
                       Flags |-> StreamFlags(Head(outgoingMessages))]
  BY SendMap DEF FrameOf
<1>. QED
  BY <1>1, SendMap DEF SendMessage, NumberAfter, FrameOf

--------------------------------------------------------------------------------
(* The type invariant.                                                       *)

(* No step of the loop or of its neighbours leaves the types.                 *)
LEMMA TypeStep ==
    ASSUME Types, [Next]_vars
    PROVE  Types'
<1> USE DEF Types, LoopTypes, ChannelTypes, SocketTypes, loopVars, chanVars, remoteVars,
            Fail, cancelled
<1>1. CASE ReceiveAck
  BY <1>1, AckMap, ReceiveOne DEF ReceiveAck
<1>2. ASSUME NEW reaches \in BOOLEAN, SendControl(reaches)
      PROVE  Types'
  BY <1>2, ReceiveOne DEF SendControl, Seqs
<1>3. ASSUME NEW ok \in BOOLEAN, SendMessage(ok)
      PROVE  Types'
  <2>1. Head(outgoingMessages) \in Queued /\ Tail(outgoingMessages) \in Seq(Queued)
    BY <1>3, ReceiveOne DEF SendMessage
  <2>2. written' \subseteq Frame
    <3>1. StreamFlags(Head(outgoingMessages)) \in Flags
      BY <2>1 DEF StreamFlags, Flags, Queued
    <3>. QED BY <1>3, <2>1, <3>1 DEF SendMessage, Frame, Queued
  <2>3. LoopTypes'
    <3>1. unacknowledgedMessages' \in [Seqs' -> Unacknowledged] /\ Seqs' \subseteq Nat
      BY <1>3, SendMap
    <3>. QED BY <1>3, <3>1 DEF SendMessage, NumberAfter
  <2>. QED BY <1>3, <2>1, <2>2, <2>3 DEF SendMessage
<1>4. CASE ThrottleFires
  BY <1>4 DEF ThrottleFires, Seqs
<1>5. \A s \in Seqs : FrameOf(s) \in Frame
  BY DEF FrameOf, Frame, Unacknowledged
<1>6. ASSUME NEW ok \in SUBSET Seqs, ResendDue(ok)
      PROVE  Types'
  BY <1>5, <1>6, AgeMap DEF ResendDue
<1>7. ASSUME NEW ok \in SUBSET Seqs, GiveUp(ok)
      PROVE  Types'
  BY <1>5, <1>7 DEF GiveUp, Seqs
<1>8. CASE StopOnCancel
  BY <1>8 DEF StopOnCancel, Seqs
<1>9. ASSUME NEW flags \in {"Data", "Fin"}, Write(flags)
      PROVE  Types'
  BY <1>9, SendOne DEF Write, Queued, Seqs
<1>10. ASSUME NEW c \in ControlMsgs, QueueControl(c)
       PROVE  Types'
  BY <1>10, SendOne DEF QueueControl, Seqs
<1>11. ASSUME NEW frame \in written, RemoteReceives(frame)
       PROVE  Types'
  BY <1>11 DEF RemoteReceives, Seqs
<1>12. ASSUME NEW s \in SeqsAtRemote, RemoteAcks(s)
       PROVE  Types'
  BY <1>12, SendOne DEF RemoteAcks, Seqs, SeqsAtRemote, Frame
<1>13. CASE Cancel
  BY <1>13 DEF Cancel, Seqs
<1>14. CASE Tick
  BY <1>14, AgeMap DEF Tick
<1>15. CASE UNCHANGED vars
  BY <1>15 DEF vars, Seqs
<1>. QED
  BY <1>1, <1>2, <1>3, <1>4, <1>6, <1>7, <1>8, <1>9, <1>10, <1>11, <1>12, <1>13, <1>14, <1>15
     DEF Next, LoopStep

(* No step overfills a channel. *)
LEMMA CapacityStep ==
    ASSUME Types, ChannelCapacities, [Next]_vars
    PROVE  ChannelCapacities'
<1> USE LenProperties DEF Types, ChannelTypes, ChannelCapacities, loopVars, chanVars
<1>1. CASE ReceiveAck
  BY <1>1, ReceiveOne DEF ReceiveAck
<1>2. ASSUME NEW reaches \in BOOLEAN, SendControl(reaches)
      PROVE  ChannelCapacities'
  BY <1>2, ReceiveOne DEF SendControl
<1>3. ASSUME NEW ok \in BOOLEAN, SendMessage(ok)
      PROVE  ChannelCapacities'
  BY <1>3, ReceiveOne DEF SendMessage
<1>4. ASSUME NEW ok \in SUBSET Seqs, ResendDue(ok) \/ GiveUp(ok)
      PROVE  ChannelCapacities'
  BY <1>4 DEF ResendDue, GiveUp
<1>5. CASE ThrottleFires \/ StopOnCancel \/ Cancel \/ Tick \/ UNCHANGED vars
  BY <1>5 DEF ThrottleFires, StopOnCancel, Cancel, Tick, vars
<1>6. ASSUME NEW flags \in {"Data", "Fin"}, Write(flags)
      PROVE  ChannelCapacities'
  <2>1. [id |-> writes, Flags |-> flags] \in Queued
    BY DEF Queued, LoopTypes
  <2>. QED BY <1>6, <2>1, SendOne DEF Write
<1>7. ASSUME NEW c \in ControlMsgs, QueueControl(c)
      PROVE  ChannelCapacities'
  BY <1>7, SendOne DEF QueueControl
<1>8. ASSUME NEW frame \in written, RemoteReceives(frame)
      PROVE  ChannelCapacities'
  BY <1>8 DEF RemoteReceives
<1>9. ASSUME NEW s \in SeqsAtRemote, RemoteAcks(s)
      PROVE  ChannelCapacities'
  <2>1. s \in Nat
    BY DEF SeqsAtRemote, SocketTypes, Frame
  <2>. QED BY <1>9, <2>1, SendOne DEF RemoteAcks
<1>. QED
  BY <1>1, <1>2, <1>3, <1>4, <1>5, <1>6, <1>7, <1>8, <1>9 DEF Next, LoopStep

(* The window bounds what awaits acknowledgement: a message is sent only while *)
(* there is room, and no other step keeps one more.                            *)
LEMMA WindowStep ==
    ASSUME Types, WithinWindow, [Next]_vars
    PROVE  WithinWindow'
<1>1. ASSUME NEW ok \in BOOLEAN, SendMessage(ok)
      PROVE  WithinWindow'
  <2>1. Cardinality(Seqs) \in Nat /\ Cardinality(Seqs) < maxInflightMessages
    BY <1>1, FS_CardinalityType DEF WithinWindow, SendMessage, WindowHasRoom
  <2>2. Seqs' = Seqs \union {nextOutgoingSequenceNumber}
    BY <1>1, SendMap
  <2>3. IsFiniteSet(Seqs') /\ Cardinality(Seqs') <= Cardinality(Seqs) + 1
    BY <2>1, <2>2, FS_AddElement DEF WithinWindow
  <2>4. Cardinality(Seqs') \in Nat
    BY <2>3, FS_CardinalityType
  <2>. QED BY <2>1, <2>3, <2>4 DEF WithinWindow
<1>2. CASE \A ok \in BOOLEAN : ~SendMessage(ok)
  <2>1. Seqs' \subseteq Seqs
    BY <1>2, NothingNew
  <2>2. /\ IsFiniteSet(Seqs') /\ Cardinality(Seqs') <= Cardinality(Seqs)
        /\ Cardinality(Seqs) \in Nat /\ Cardinality(Seqs') \in Nat
    BY <2>1, FS_Subset, FS_CardinalityType DEF WithinWindow
  <2>. QED BY <2>2 DEF WithinWindow
<1>. QED
  BY <1>1, <1>2

(* Every reachable state has its types, no channel exceeds its capacity and    *)
(* no more than the window awaits acknowledgement, whatever the sizes.         *)
THEOREM TypeCorrect == Spec => []TypeOK
<1>1. ASSUME Init
      PROVE  Types /\ ChannelCapacities /\ WithinWindow
  <2>1. Seqs = {} /\ unacknowledgedMessages \in [Seqs -> Unacknowledged]
    BY <1>1, EmptyMap DEF Init, Seqs
  <2>2. Types
    BY <1>1, <2>1, EmptyChannel DEF Init, Types, LoopTypes, ChannelTypes, SocketTypes
  <2>3. ChannelCapacities
    BY <1>1, EmptyChannel DEF Init, ChannelCapacities
  <2>. QED BY <2>1, <2>2, <2>3, FS_EmptySet DEF WithinWindow
<1>2. Types /\ ChannelCapacities /\ WithinWindow => TypeOK
  BY DEF TypeOK, Types, LoopTypes, ChannelTypes, SocketTypes, ChannelCapacities, WithinWindow,
         Queued
<1>. QED
  BY <1>1, <1>2, TypeStep, CapacityStep, WindowStep, PTL DEF Spec

--------------------------------------------------------------------------------
(* The inductive invariant, part by part.                                    *)

(* The queue holds the messages the application wrote and the loop has not    *)
(* numbered, in the order they were written.                                  *)
QueueIsStream ==
    /\ writes = nextOutgoingSequenceNumber + Len(outgoingMessages)
    /\ \A i \in 1 .. Len(outgoingMessages) :
          outgoingMessages[i].id = nextOutgoingSequenceNumber + i - 1

(* The frame carries the message written under its number. *)
InStream(frame) ==
    /\ frame.id = frame.SequenceNumber
    /\ frame.SequenceNumber \in 0 .. (nextOutgoingSequenceNumber - 1)
    /\ frame.Flags = "Syn" => frame.SequenceNumber = 0
    /\ frame.Flags = "Data" => frame.SequenceNumber # 0

KeptIsStream == \A s \in Seqs : InStream(FrameOf(s))

WrittenIsStream == \A frame \in written : InStream(frame)

(* A message is the same each time it is sent, and as the map keeps it. *)
ResendsAgree ==
    /\ \A f, g \in written : f.SequenceNumber = g.SequenceNumber => f = g
    /\ \A f \in written : f.SequenceNumber \in Seqs => f = FrameOf(f.SequenceNumber)

(* An acknowledgement on its way to the loop is of a message the remote has, *)
(* and so is one the loop has acted on.                                      *)
AcksAreTrue == Held(ackReceived) \subseteq SeqsAtRemote

NothingForgotten == Retired \subseteq SeqsAtRemote

(* The inductive invariant: queue, map and socket tied to the one numbering.  *)
IInv ==
    /\ Types
    /\ QueueIsStream
    /\ KeptIsStream
    /\ WrittenIsStream
    /\ ResendsAgree
    /\ AcksAreTrue
    /\ NothingForgotten

(* Only Write and SendMessage touch the queue. *)
LEMMA QueueUntouched ==
    ASSUME [Next]_vars,
           \A ok \in BOOLEAN : ~SendMessage(ok),
           \A flags \in {"Data", "Fin"} : ~Write(flags)
    PROVE  UNCHANGED <<outgoingMessages, writes>>
  BY DEF Next, LoopStep, ReceiveAck, SendControl, ThrottleFires, ResendDue, GiveUp, StopOnCancel,
         QueueControl, RemoteReceives, RemoteAcks, Cancel, Tick, chanVars, vars

(* Numbering takes the oldest message of the queue, and Write adds the newest. *)
LEMMA QueueStep ==
    ASSUME Types, QueueIsStream, [Next]_vars
    PROVE  QueueIsStream'
<1> USE DEF Types, LoopTypes, ChannelTypes, QueueIsStream
<1>1. ASSUME NEW ok \in BOOLEAN, SendMessage(ok)
      PROVE  QueueIsStream'
  <2>1. /\ outgoingMessages # <<>>
        /\ outgoingMessages' = Tail(outgoingMessages)
        /\ nextOutgoingSequenceNumber' = nextOutgoingSequenceNumber + 1
        /\ writes' = writes
    BY <1>1 DEF SendMessage, NumberAfter
  <2>2. /\ Len(outgoingMessages) \in Nat
        /\ Len(outgoingMessages') = Len(outgoingMessages) - 1
        /\ \A i \in 1 .. Len(outgoingMessages') : outgoingMessages'[i] = outgoingMessages[i + 1]
    BY <2>1, ReceiveOne
  <2>. QED BY <2>1, <2>2
<1>2. ASSUME NEW flags \in {"Data", "Fin"}, Write(flags)
      PROVE  QueueIsStream'
  <2> DEFINE m == [id |-> writes, Flags |-> flags]
  <2>1. m \in Queued /\ m.id = writes
    BY DEF Queued
  <2>2. /\ outgoingMessages' = Append(outgoingMessages, m)
        /\ nextOutgoingSequenceNumber' = nextOutgoingSequenceNumber
        /\ writes' = writes + 1
    BY <1>2 DEF Write, loopVars
  <2> HIDE DEF m
  <2>3. /\ Len(outgoingMessages) \in Nat
        /\ Len(outgoingMessages') = Len(outgoingMessages) + 1
        /\ \A i \in 1 .. Len(outgoingMessages) : outgoingMessages'[i] = outgoingMessages[i]
        /\ outgoingMessages'[Len(outgoingMessages) + 1] = m
    BY <2>1, <2>2, SendOne
  <2>4. ASSUME NEW i \in 1 .. Len(outgoingMessages')
        PROVE  outgoingMessages'[i].id = nextOutgoingSequenceNumber' + i - 1
    <3>1. CASE i \in 1 .. Len(outgoingMessages)
      BY <2>2, <2>3, <3>1
    <3>2. CASE i = Len(outgoingMessages) + 1
      BY <2>1, <2>2, <2>3, <3>2
    <3>. QED BY <2>3, <2>4, <3>1, <3>2
  <2>. QED BY <2>2, <2>3, <2>4
<1>3. CASE /\ \A ok \in BOOLEAN : ~SendMessage(ok)
           /\ \A flags \in {"Data", "Fin"} : ~Write(flags)
  BY <1>3, QueueUntouched, NothingNew
<1>. QED
  BY <1>1, <1>2, <1>3

(* The frame a new message gets is its place in the stream. *)
LEMMA NewInStream ==
    ASSUME Types, QueueIsStream, NEW ok \in BOOLEAN, SendMessage(ok),
           NEW seq, seq = nextOutgoingSequenceNumber
    PROVE  InStream(FrameOf(seq))' /\ FrameOf(seq)'.SequenceNumber = seq
<1> DEFINE m == Head(outgoingMessages)
<1>1. m \in Queued /\ m = outgoingMessages[1] /\ Len(outgoingMessages) >= 1
  BY ReceiveOne DEF Types, ChannelTypes, SendMessage
<1>2. m.id = seq /\ m.Flags \in {"Data", "Fin"} /\ seq \in Nat
  BY <1>1 DEF QueueIsStream, Queued, Types, LoopTypes
<1>3. /\ FrameOf(seq)' = [SequenceNumber |-> seq, id |-> m.id, Flags |-> StreamFlags(m)]
      /\ nextOutgoingSequenceNumber' = seq + 1
  BY OneNew
<1>4. /\ StreamFlags(m) = "Syn" => seq = 0
      /\ StreamFlags(m) = "Data" => seq # 0
  BY <1>2 DEF StreamFlags
<1> HIDE DEF m
<1>. QED
  BY <1>2, <1>3, <1>4 DEF InStream

(* A frame of the stream stays one: numbers only grow. *)
LEMMA StaysInStream ==
    ASSUME Types, [Next]_vars, NEW frame, InStream(frame)
    PROVE  InStream(frame)'
<1>1. /\ nextOutgoingSequenceNumber \in Nat
      /\ nextOutgoingSequenceNumber' \in {nextOutgoingSequenceNumber,
                                          nextOutgoingSequenceNumber + 1}
  <2>1. CASE \A ok \in BOOLEAN : ~SendMessage(ok)
    BY <2>1, NothingNew DEF Types, LoopTypes
  <2>2. CASE \E ok \in BOOLEAN : SendMessage(ok)
    BY <2>2 DEF SendMessage, NumberAfter, Types, LoopTypes
  <2>. QED BY <2>1, <2>2
<1>. QED
  BY <1>1 DEF InStream

(* Whatever the loop keeps, and whatever has gone out, is of the stream. *)
LEMMA StreamStep ==
    ASSUME Types, QueueIsStream, KeptIsStream, WrittenIsStream, [Next]_vars
    PROVE  KeptIsStream' /\ WrittenIsStream'
<1>1. ASSUME NEW ok \in BOOLEAN, SendMessage(ok)
      PROVE  KeptIsStream' /\ WrittenIsStream'
  <2>1. PICK seq : seq = nextOutgoingSequenceNumber
    OBVIOUS
  <2>2. InStream(FrameOf(seq))'
    BY <1>1, <2>1, NewInStream
  <2>3. /\ Seqs' = Seqs \union {seq}
        /\ \A s \in Seqs \ {seq} : FrameOf(s)' = FrameOf(s)
        /\ written' \subseteq written \union {FrameOf(seq)'}
    BY <1>1, <2>1, OneNew
  <2>4. ASSUME NEW s \in Seqs'
        PROVE  InStream(FrameOf(s))'
    <3>1. CASE s = seq
      BY <2>2, <3>1
    <3>2. CASE s \in Seqs \ {seq}
      <4>1. PICK frame : frame = FrameOf(s)
        OBVIOUS
      <4>2. InStream(frame)'
        BY <3>2, <4>1, StaysInStream DEF KeptIsStream
      <4>. QED BY <2>3, <3>2, <4>1, <4>2 DEF InStream
    <3>. QED BY <2>3, <2>4, <3>1, <3>2
  <2>5. ASSUME NEW frame \in written'
        PROVE  InStream(frame)'
    <3>1. CASE frame \in written
      BY <3>1, StaysInStream DEF WrittenIsStream
    <3>2. CASE frame = FrameOf(seq)'
      BY <2>2, <3>2 DEF InStream
    <3>. QED BY <2>3, <2>5, <3>1, <3>2
  <2>. QED BY <2>4, <2>5 DEF KeptIsStream, WrittenIsStream
<1>2. CASE \A ok \in BOOLEAN : ~SendMessage(ok)
  <2>1. /\ nextOutgoingSequenceNumber' = nextOutgoingSequenceNumber
        /\ Seqs' \subseteq Seqs
        /\ \A s \in Seqs' : FrameOf(s)' = FrameOf(s)
        /\ written' \subseteq written \union {FrameOf(s) : s \in Seqs}
    BY <1>2, NothingNew
  <2>2. KeptIsStream'
    BY <2>1 DEF KeptIsStream, InStream
  <2>3. WrittenIsStream'
    BY <2>1 DEF KeptIsStream, WrittenIsStream, InStream
  <2>. QED BY <2>2, <2>3
<1>. QED
  BY <1>1, <1>2

(* A resend repeats what went out under its number. *)
LEMMA ResendStep ==
    ASSUME Types, QueueIsStream, KeptIsStream, WrittenIsStream, ResendsAgree, [Next]_vars
    PROVE  ResendsAgree'
<1>0. nextOutgoingSequenceNumber \in Nat
  BY DEF Types, LoopTypes
<1>1. ASSUME NEW ok \in BOOLEAN, SendMessage(ok)
      PROVE  ResendsAgree'
  <2>1. PICK seq : seq = nextOutgoingSequenceNumber
    OBVIOUS
  <2>2. /\ Seqs' = Seqs \union {seq}
        /\ \A s \in Seqs \ {seq} : FrameOf(s)' = FrameOf(s)
        /\ written' \subseteq written \union {FrameOf(seq)'}
    BY <1>1, <2>1, OneNew
  <2>3. FrameOf(seq)'.SequenceNumber = seq
    BY <1>1, <2>1, NewInStream
  <2>4. \A f \in written : f.SequenceNumber # seq
    BY <1>0, <2>1 DEF WrittenIsStream, InStream
  <2>. QED BY <2>2, <2>3, <2>4 DEF ResendsAgree
<1>2. CASE \A ok \in BOOLEAN : ~SendMessage(ok)
  <2>1. /\ Seqs' \subseteq Seqs
        /\ \A s \in Seqs' : FrameOf(s)' = FrameOf(s)
        /\ written' \subseteq written \union {FrameOf(s) : s \in Seqs}
    BY <1>2, NothingNew
  <2>2. \A s \in Seqs : FrameOf(s).SequenceNumber = s
    BY DEF FrameOf
  <2>3. \A f \in written' : f.SequenceNumber \in Seqs => f = FrameOf(f.SequenceNumber)
    BY <2>1, <2>2 DEF ResendsAgree
  <2>4. \A f, g \in written' : f.SequenceNumber = g.SequenceNumber => f = g
    BY <2>1, <2>2, <2>3 DEF ResendsAgree
  <2>. QED BY <2>1, <2>3, <2>4 DEF ResendsAgree
<1>. QED
  BY <1>1, <1>2

(* Nothing the remote has received is taken back. *)
LEMMA RemoteKeeps ==
    ASSUME [Next]_vars
    PROVE  SeqsAtRemote \subseteq SeqsAtRemote'
<1>1. atRemote \subseteq atRemote'
  BY DEF Next, LoopStep, ReceiveAck, SendControl, SendMessage, ThrottleFires, ResendDue, GiveUp,
         StopOnCancel, Write, QueueControl, RemoteReceives, RemoteAcks, Cancel, Tick, remoteVars, vars
<1>. QED
  BY <1>1 DEF SeqsAtRemote

(* An acknowledgement is queued only for what the remote has. *)
LEMMA AcksStep ==
    ASSUME Types, AcksAreTrue, [Next]_vars
    PROVE  AcksAreTrue'
<1>1. CASE ReceiveAck
  BY <1>1, RemoteKeeps, ReceiveHeld DEF ReceiveAck, Types, ChannelTypes, AcksAreTrue
<1>2. ASSUME NEW s \in SeqsAtRemote, RemoteAcks(s)
      PROVE  AcksAreTrue'
  <2>1. s \in Nat
    BY DEF SeqsAtRemote, Types, SocketTypes, Frame
  <2>2. Held(ackReceived') = Held(ackReceived) \union {s}
    BY <1>2, <2>1, SendHeld DEF RemoteAcks, Types, ChannelTypes
  <2>. QED BY <2>2, RemoteKeeps DEF AcksAreTrue
<1>3. CASE ~ReceiveAck /\ \A s \in SeqsAtRemote : ~RemoteAcks(s)
  <2>1. ackReceived' = ackReceived
    BY <1>3 DEF Next, LoopStep, SendControl, SendMessage, ThrottleFires, ResendDue, GiveUp,
                StopOnCancel, Write, QueueControl, RemoteReceives, Cancel, Tick, chanVars, vars
  <2>. QED BY <2>1, RemoteKeeps DEF AcksAreTrue
<1>. QED
  BY <1>1, <1>2, <1>3

(* Only an acknowledgement makes the loop forget, and it forgets one message. *)
LEMMA RetireStep ==
    ASSUME Types, KeptIsStream, [Next]_vars
    PROVE  IF ReceiveAck
           THEN Retired' = Retired \union (Seqs \intersect {Head(ackReceived)})
           ELSE Retired' = Retired
<1>0. nextOutgoingSequenceNumber \in Nat /\ Seqs \subseteq 0 .. (nextOutgoingSequenceNumber - 1)
  BY DEF KeptIsStream, InStream, FrameOf, Types, LoopTypes
<1>1. CASE ReceiveAck
  <2>1. Seqs' = Seqs \ {Head(ackReceived)}
    BY <1>1, AckMap
  <2>2. nextOutgoingSequenceNumber' = nextOutgoingSequenceNumber
    BY <1>1 DEF ReceiveAck
  <2>. QED BY <1>0, <1>1, <2>1, <2>2 DEF Retired
<1>2. ASSUME NEW ok \in BOOLEAN, SendMessage(ok)
      PROVE  Retired' = Retired /\ ~ReceiveAck
  <2>1. /\ Seqs' = Seqs \union {nextOutgoingSequenceNumber}
        /\ nextOutgoingSequenceNumber' = nextOutgoingSequenceNumber + 1
    BY <1>2, SendMap DEF SendMessage, NumberAfter
  <2>2. ~ReceiveAck
    BY <1>0, <2>1 DEF ReceiveAck
  <2>3. 0 .. nextOutgoingSequenceNumber
          = (0 .. (nextOutgoingSequenceNumber - 1)) \union {nextOutgoingSequenceNumber}
    BY <1>0
  <2>. QED BY <1>0, <2>1, <2>2, <2>3 DEF Retired
<1>3. ASSUME ~ReceiveAck, \A ok \in BOOLEAN : ~SendMessage(ok)
      PROVE  Retired' = Retired
  <2>1. Seqs' = Seqs
    <3>1. CASE Tick \/ \E ok \in SUBSET Seqs : ResendDue(ok)
      BY <3>1, AgeMap
    <3>2. CASE unacknowledgedMessages' = unacknowledgedMessages
      BY <3>2 DEF Seqs
    <3>. QED
      BY <1>3, <3>1, <3>2
         DEF Next, LoopStep, SendControl, ThrottleFires, GiveUp, StopOnCancel, Write, QueueControl,
             RemoteReceives, RemoteAcks, Cancel, loopVars, vars
  <2>. QED BY <1>3, <2>1, NothingNew DEF Retired
<1>. QED
  BY <1>1, <1>2, <1>3

(* The loop forgets only what the remote has received. *)
LEMMA ForgetStep ==
    ASSUME Types, KeptIsStream, AcksAreTrue, NothingForgotten, [Next]_vars
    PROVE  NothingForgotten'
<1>1. CASE ReceiveAck
  <2>1. Head(ackReceived) \in SeqsAtRemote
    BY <1>1, ReceiveHeld DEF ReceiveAck, Types, ChannelTypes, AcksAreTrue
  <2>. QED BY <1>1, <2>1, RetireStep, RemoteKeeps DEF NothingForgotten
<1>2. CASE ~ReceiveAck
  BY <1>2, RetireStep, RemoteKeeps DEF NothingForgotten
<1>. QED
  BY <1>1, <1>2

--------------------------------------------------------------------------------
(* The theorems.                                                             *)

(* The invariant holds at the start, and every step keeps it. *)
LEMMA InvariantStart ==
    ASSUME Init
    PROVE  IInv
<1>1. Types
  <2>1. Seqs = {} /\ unacknowledgedMessages \in [Seqs -> Unacknowledged]
    BY EmptyMap DEF Init, Seqs
  <2>. QED
    BY <2>1, EmptyChannel DEF Init, Types, LoopTypes, ChannelTypes, SocketTypes
<1>2. QueueIsStream /\ AcksAreTrue
  BY EmptyChannel DEF Init, QueueIsStream, AcksAreTrue
<1>3. KeptIsStream /\ WrittenIsStream /\ ResendsAgree
  BY EmptyMap DEF Init, KeptIsStream, WrittenIsStream, ResendsAgree, Seqs
<1>4. NothingForgotten
  BY DEF Init, NothingForgotten, Retired
<1>. QED BY <1>1, <1>2, <1>3, <1>4 DEF IInv

(* One step keeps it: one lemma for each of its parts. *)
LEMMA InvariantStep ==
    ASSUME IInv, [Next]_vars
    PROVE  IInv'
  BY TypeStep, QueueStep, StreamStep, ResendStep, AcksStep, ForgetStep DEF IInv

(* The invariant holds of every reachable state. *)
THEOREM Invariance == Spec => []IInv
  BY InvariantStart, InvariantStep, PTL DEF Spec

(* Whatever is lost, repeated or delayed, and however long the stream, the    *)
(* k-th message written goes out under number k and no other, and exactly the *)
(* first opens the stream.                                                    *)
THEOREM WireCarriesStream == Spec => []WireIsStream
<1>1. IInv => WireIsStream
  BY DEF IInv, WrittenIsStream, InStream, WireIsStream
<1>. QED
  BY <1>1, Invariance, PTL

(* A resend repeats the message: what goes out under one number is one frame. *)
THEOREM ResendsAreTheSame ==
    Spec => [](\A f, g \in written : f.SequenceNumber = g.SequenceNumber => f = g)
<1>1. IInv => \A f, g \in written : f.SequenceNumber = g.SequenceNumber => f = g
  BY DEF IInv, ResendsAgree
<1>. QED
  BY <1>1, Invariance, PTL

(* What a remote does not have is never given up silently: a number that has  *)
(* been used and is not kept for resending is of a message that has arrived.  *)
THEOREM NothingIsForgotten == Spec => [](Retired \subseteq SeqsAtRemote)
<1>1. IInv => Retired \subseteq SeqsAtRemote
  BY DEF IInv, NothingForgotten
<1>. QED
  BY <1>1, Invariance, PTL

(* The loop, Write and the network between it and the remote implement the    *)
(* abstract stream.                                                           *)
THEOREM Refinement == Spec => ImplementsAckedStream
<1>1. Init => Abstract!Init
  BY DEF Init, Abstract!Init, SeqsAtRemote, Retired
<1>2. ASSUME IInv, [Next]_vars
      PROVE  [Abstract!Next]_(Abstract!vars)
  <2> USE DEF Abstract!Next, Abstract!vars
  <2>0. \A s \in 0 .. (nextOutgoingSequenceNumber - 1) : s \in 0 .. (writes - 1)
    <3>1. Len(outgoingMessages) \in Nat
      BY <1>2, LenProperties DEF IInv, Types, ChannelTypes
    <3>. QED BY <1>2, <3>1 DEF IInv, Types, LoopTypes, QueueIsStream
  <2>1. CASE ReceiveAck
    <3> DEFINE s == Head(ackReceived)
    <3>1. /\ Retired' = Retired \union (Seqs \intersect {s})
          /\ UNCHANGED <<writes, SeqsAtRemote>>
      BY <1>2, <2>1, RetireStep DEF IInv, ReceiveAck, remoteVars, SeqsAtRemote
    <3>2. CASE s \in Seqs
      <4>1. s \in SeqsAtRemote
        BY <1>2, <2>1, ReceiveHeld DEF ReceiveAck, IInv, Types, ChannelTypes, AcksAreTrue
      <4>2. s \in 0 .. (writes - 1)
        BY <1>2, <2>0, <3>2 DEF IInv, KeptIsStream, InStream, FrameOf
      <4>3. Abstract!Retire(s)
        BY <3>1, <3>2, <4>1 DEF Abstract!Retire
      <4>. QED BY <4>2, <4>3
    <3>3. CASE s \notin Seqs
      BY <3>1, <3>3
    <3>. QED BY <3>2, <3>3
  <2>2. ASSUME NEW flags \in {"Data", "Fin"}, Write(flags)
        PROVE  Abstract!Next
    <3>1. Retired' = Retired
      BY <2>2 DEF Write, loopVars, Retired, Seqs
    <3>. QED BY <2>2, <3>1 DEF Write, remoteVars, SeqsAtRemote, Abstract!Offer
  <2>3. ASSUME NEW frame \in written, RemoteReceives(frame)
        PROVE  Abstract!Next
    <3>1. Retired' = Retired
      BY <2>3 DEF RemoteReceives, loopVars, Retired, Seqs
    <3>2. frame.SequenceNumber \in 0 .. (writes - 1)
      BY <1>2, <2>0 DEF IInv, WrittenIsStream, InStream
    <3>3. Abstract!Accept(frame.SequenceNumber)
      BY <2>3, <3>1 DEF RemoteReceives, SeqsAtRemote, Abstract!Accept
    <3>. QED BY <3>2, <3>3
  <2>4. CASE /\ ~ReceiveAck
             /\ \A flags \in {"Data", "Fin"} : ~Write(flags)
             /\ \A frame \in written : ~RemoteReceives(frame)
    <3>1. Retired' = Retired
      BY <1>2, <2>4, RetireStep DEF IInv
    <3>2. UNCHANGED <<writes, atRemote>>
      BY <1>2, <2>4
         DEF Next, LoopStep, SendControl, SendMessage, ThrottleFires, ResendDue, GiveUp,
             StopOnCancel, QueueControl, RemoteAcks, Cancel, Tick, remoteVars, vars
    <3>. QED BY <3>1, <3>2 DEF SeqsAtRemote
  <2>. QED BY <2>1, <2>2, <2>3, <2>4
<1>. QED
  BY <1>1, <1>2, Invariance, PTL DEF Spec, ImplementsAckedStream, Abstract!Spec

================================================================================
