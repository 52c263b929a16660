---------------------------- MODULE Messages_proofs ----------------------------
(***************************************************************************)
(* Theorems about Wire, for every size of a word and of a payload, and     *)
(* about Version, for versions of any length, and their proofs.            *)
(***************************************************************************)
EXTENDS Wire, Version, Integers, SequenceTheorems, WellFoundedInduction, TLAPS

--------------------------------------------------------------------------------
(* The codec.                                                                *)

WireSpec == WireInit /\ [][WireNext]_wireVars

(* A sum of words that stays below the word size is what it is in numbers. *)
LEMMA WordSum ==
    ASSUME NEW a \in Nat, NEW w \in Nat, a < w
    PROVE  a % w = a
  OBVIOUS

(* Past the word size, and short of twice it, a sum loses one word. *)
LEMMA WordWrap ==
    ASSUME NEW a \in Nat, NEW w \in Nat, w <= a, a < 2 * w
    PROVE  a % w = a - w
  OBVIOUS

Types == FrameTypes \union {"input_stream_data", "acknowledge"}
Flags == {"Data", "Fin", "Ack"}
PayloadTypes == {"Output", "Size", "HandshakeResponse", "Flag", "Undefined"}

(* A frame as either direction can meet it: any lengths that fit their words. *)
FrameSet ==
    [size : Nat, header : 0 .. (WordSize - 1), schema : Nat, id : {Uuid, Swapped(Uuid)},
     type : Types, flags : Flags, payloadType : PayloadTypes,
     payloadLength : 0 .. (WordSize - 1), digestOk : BOOLEAN]

(* What a constructor of package messages builds is a message of full header   *)
(* length that ValidateMessage lets through.                                   *)
LEMMA BuiltMessage ==
    ASSUME NEW m \in Messages
    PROVE  /\ m = [header |-> 116, schema |-> 1, id |-> Uuid, type |-> m.type, flags |-> m.flags,
                   payloadType |-> m.payloadType, payload |-> m.payload]
           /\ m.payload \in Nat
           /\ m.type \in Types /\ m.flags \in Flags /\ m.payloadType \in PayloadTypes
           /\ m.type \notin ShortTypes
  <1>1. PICK b \in Built, n \in PayloadLengths :
            m = [header |-> 116, schema |-> 1, id |-> Uuid, type |-> b.type,
                 flags |-> b.flags, payloadType |-> b.payloadType, payload |-> n]
    BY DEF Messages, agentMsgHeaderLen
  <1>2. /\ b.flags \in Flags /\ b.payloadType \in PayloadTypes
        /\ b.type \in {"input_stream_data", "acknowledge"}
    <2>1. CASE b \in [type : {"input_stream_data"}, flags : {"Data"},
                      payloadType : {"Output", "Size", "HandshakeResponse"}]
      BY <2>1 DEF Flags, PayloadTypes
    <2>2. CASE b \in [type : {"input_stream_data"}, flags : {"Fin"}, payloadType : {"Flag"}]
      BY <2>2 DEF Flags, PayloadTypes
    <2>3. CASE b \in [type : {"acknowledge"}, flags : {"Ack"}, payloadType : {"Undefined"}]
      BY <2>3 DEF Flags, PayloadTypes
    <2> QED
      BY <1>1, <2>1, <2>2, <2>3 DEF Built
  <1>3. n \in Nat
    BY <1>1, WordAssumption
  <1> QED
    BY <1>1, <1>2, <1>3 DEF ShortTypes, Types

(* UnmarshalBinary slices a frame's payload only if the sum of the lengths did   *)
(* not wrap around: the payload has the length the frame says, right behind that *)
(* length, and the frame is long enough for it.                                  *)
LEMMA SlicedPayload ==
    ASSUME NEW f \in FrameSet, LongEnough(f), Sliceable(f)
    PROVE  /\ TotalRequired(f) - PayloadLenEnd(f) = f.payloadLength
           /\ f.header + 4 + f.payloadLength <= f.size
  <1>w. WordSize \in Nat /\ WordSize > 120
    BY WordAssumption
  <1>f. /\ f.payloadLength \in 0 .. (WordSize - 1) /\ f.size \in Nat
        /\ f.header \in 112 .. 116
    BY DEF FrameSet, LongEnough, agentMsgHeaderLen
  <1>e. PayloadLenEnd(f) = f.header + 4
    <2>1. f.header + 4 \in Nat /\ f.header + 4 < WordSize
      BY <1>f, <1>w
    <2> QED
      BY <2>1, <1>w, WordSum DEF PayloadLenEnd
  <1> DEFINE total == f.header + 4 + f.payloadLength
  <1>t. TotalRequired(f) = total % WordSize
    BY <1>e DEF TotalRequired
  <1>s. f.header + 4 <= TotalRequired(f) /\ TotalRequired(f) <= f.size
    BY <1>e DEF Sliceable
  <1>n. total \in Nat /\ total < 2 * WordSize /\ total - WordSize < f.header + 4
    BY <1>f, <1>w
  <1> HIDE DEF total
  <1>1. total < WordSize
    <2> SUFFICES ASSUME WordSize <= total
                 PROVE  FALSE
      BY <1>w, <1>n
    <2>1. total % WordSize = total - WordSize
      BY <1>n, <1>w, WordWrap, Zenon
    <2> QED
      BY <2>1, <1>t, <1>s, <1>n, <1>f, <1>w
  <1>2. TotalRequired(f) = total
    BY <1>1, <1>t, <1>n, <1>w, WordSum
  <1> QED
    BY <1>2, <1>e, <1>s, <1>f DEF total

(* MarshalBinary then UnmarshalBinary, for a message the library builds whose   *)
(* length fits its word: if the checks let the payload be sliced, every field   *)
(* comes back, the halves of the UUID in their order; and they do if header and *)
(* payload together fit a word.                                                 *)
LEMMA DecodeOfBytes ==
    ASSUME NEW m \in Messages, LengthFits(m.payload)
    PROVE  /\ Bytes(m) \in FrameSet
           /\ Valid(m, Bytes(m).digestOk)
           /\ LongEnough(Bytes(m)) /\ Sliceable(Bytes(m)) => Decode(Bytes(m)) = m
           /\ agentMsgHeaderLen + 4 + m.payload < WordSize
                  => LongEnough(Bytes(m)) /\ Sliceable(Bytes(m))
  <1> DEFINE f == Bytes(m)
  <1>w. WordSize \in Nat /\ WordSize > 120
    BY WordAssumption
  <1>m. /\ m = [header |-> 116, schema |-> 1, id |-> Uuid, type |-> m.type, flags |-> m.flags,
                payloadType |-> m.payloadType, payload |-> m.payload]
        /\ m.payload \in Nat
        /\ m.type \in Types /\ m.flags \in Flags /\ m.payloadType \in PayloadTypes
        /\ m.type \notin ShortTypes
    BY BuiltMessage
  <1>p. m.payload % WordSize = m.payload /\ m.payload \in 0 .. (WordSize - 1)
    BY <1>m, <1>w DEF LengthFits
  <1>f. f = [size |-> 120 + m.payload, header |-> 116, schema |-> 1, id |-> Swapped(Uuid),
             type |-> m.type, flags |-> m.flags, payloadType |-> m.payloadType,
             payloadLength |-> m.payload, digestOk |-> TRUE]
    <2>1. m.header = 116 /\ m.schema = 1 /\ m.id = Uuid
      BY <1>m
    <2>2. agentMsgHeaderLen + 4 + m.payload = 120 + m.payload
      BY <1>m DEF agentMsgHeaderLen
    <2> QED
      BY <2>1, <2>2, <1>p DEF Bytes
  <1> HIDE DEF f
  <1>1. f \in FrameSet
    <2>1. 120 + m.payload \in Nat /\ 116 \in 0 .. (WordSize - 1)
      BY <1>m, <1>w
    <2> QED
      BY <2>1, <1>f, <1>m, <1>p DEF FrameSet
  <1>2. ASSUME LongEnough(f), Sliceable(f)
        PROVE  Decode(f) = m
    <2>1. Swapped(Swapped(Uuid)) = Uuid
      BY DEF Swapped, Uuid
    <2>2. TotalRequired(f) - PayloadLenEnd(f) = m.payload
      BY <1>1, <1>2, <1>f, SlicedPayload
    <2>3. PayloadTypeOf(f) = m.payloadType
      BY <1>f DEF PayloadTypeOf, agentMsgHeaderLen
    <2>4. Decode(f) = [header |-> 116, schema |-> 1, id |-> Uuid, type |-> m.type,
                       flags |-> m.flags, payloadType |-> m.payloadType, payload |-> m.payload]
      BY <2>1, <2>2, <2>3, <1>f DEF Decode
    <2> QED
      BY <2>4, <1>m
  <1>3. ASSUME 120 + m.payload < WordSize
        PROVE  LongEnough(f) /\ Sliceable(f)
    <2>e. PayloadLenEnd(f) = 120
      <3>1. f.header + 4 = 120
        BY <1>f
      <3> QED
        BY <3>1, <1>w, WordSum DEF PayloadLenEnd
    <2>t. TotalRequired(f) = 120 + m.payload
      <3>1. f.payloadLength = m.payload /\ 120 + m.payload \in Nat
        BY <1>f, <1>m
      <3> QED
        BY <3>1, <2>e, <1>3, <1>w, WordSum DEF TotalRequired
    <2> QED
      BY <1>f, <2>e, <2>t, <1>m DEF LongEnough, Sliceable, agentMsgHeaderLen
  <1>4. Valid(m, f.digestOk)
    BY <1>m, <1>f DEF Valid, agentMsgHeaderLen, DigestFits
  <1>5. agentMsgHeaderLen + 4 + m.payload = 120 + m.payload
    BY <1>m DEF agentMsgHeaderLen
  <1> QED
    BY <1>1, <1>2, <1>3, <1>4, <1>5 DEF f

(* What RoundTrip says of a message once its outcome is known. *)
Arrived ==
    /\ outcome = "message" => decoded = message
    /\ agentMsgHeaderLen + 4 + message.payload < WordSize => outcome = "message"

(* The progress of a message through the two directions. *)
RoundTripInv ==
    message # None =>
        /\ message \in Messages
        /\ step \in {"marshal", "unmarshal", "again", "end"}
        /\ step \in {"marshal", "unmarshal"} => outcome = None
        /\ step = "unmarshal" => frame = Bytes(message) /\ LengthFits(message.payload)
        /\ step \in {"again", "end"} => Arrived

(* A message the library builds arrives as it was or not at all, whatever the   *)
(* word size and the length of its payload, and it does arrive as long as       *)
(* header and payload together fit a word.                                      *)
THEOREM RoundTripIsExact == WireSpec => []RoundTrip
  <1>1. WireInit => RoundTripInv
    BY DEF WireInit, RoundTripInv
  <1>2. RoundTripInv /\ [WireNext]_wireVars => RoundTripInv'
    <2> SUFFICES ASSUME RoundTripInv, [WireNext]_wireVars, message' # None
                 PROVE  RoundTripInv'
      BY DEF RoundTripInv
    <2>m. message' = message
      BY DEF WireNext, Marshal, MarshalRefuses, UnmarshalRefuses, UnmarshalPanics,
             UnmarshalAccepts, MarshalAgain, wireVars
    <2>i. /\ message \in Messages
          /\ step \in {"marshal", "unmarshal", "again", "end"}
          /\ step \in {"marshal", "unmarshal"} => outcome = None
          /\ step = "unmarshal" => frame = Bytes(message) /\ LengthFits(message.payload)
          /\ step \in {"again", "end"} => Arrived
      BY <2>m DEF RoundTripInv
    <2> DEFINE short == agentMsgHeaderLen + 4 + message.payload < WordSize
    <2>d. ASSUME step = "unmarshal"
          PROVE  /\ Valid(message, frame.digestOk)
                 /\ LongEnough(frame) /\ Sliceable(frame) => Decode(frame) = message
                 /\ short => LongEnough(frame) /\ Sliceable(frame)
      BY <2>d, <2>i, DecodeOfBytes
    <2> HIDE DEF short
    <2>1. CASE Marshal
      BY <2>1, <2>m, <2>i DEF Marshal, RoundTripInv
    <2>2. CASE MarshalRefuses
      <3>1. step' = "end" /\ outcome' = "unsent"
        BY <2>2 DEF MarshalRefuses
      <3>2. ~short
        <4>1. ASSUME short
              PROVE  LengthFits(message.payload) /\ Valid(message, TRUE)
          <5>1. message.payload \in Nat /\ message.payload < WordSize
            BY <4>1, <2>i, BuiltMessage, WordAssumption DEF short, agentMsgHeaderLen
          <5>2. LengthFits(message.payload)
            BY <5>1, WordAssumption, WordSum DEF LengthFits
          <5>3. Bytes(message).digestOk = TRUE
            BY DEF Bytes
          <5> QED
            BY <5>2, <5>3, <2>i, DecodeOfBytes
        <4> QED
          BY <4>1, <2>2 DEF MarshalRefuses
      <3> QED
        BY <3>1, <3>2, <2>m, <2>i DEF RoundTripInv, Arrived, short
    <2>3. CASE UnmarshalRefuses
      <3>1. step = "unmarshal" /\ step' = "end" /\ outcome' = "error"
        BY <2>3 DEF UnmarshalRefuses
      <3>2. ~short
        BY <2>3, <2>d DEF UnmarshalRefuses
      <3> QED
        BY <3>1, <3>2, <2>m, <2>i DEF RoundTripInv, Arrived, short
    <2>4. CASE UnmarshalPanics
      <3>1. step = "unmarshal" /\ step' = "end" /\ outcome' = "panic"
        BY <2>4 DEF UnmarshalPanics
      <3>2. ~short
        BY <2>4, <2>d DEF UnmarshalPanics
      <3> QED
        BY <3>1, <3>2, <2>m, <2>i DEF RoundTripInv, Arrived, short
    <2>5. CASE UnmarshalAccepts
      <3>1. decoded' = message /\ outcome' = "message" /\ step' = "again"
        BY <2>5, <2>d DEF UnmarshalAccepts
      <3> QED
        BY <3>1, <2>m, <2>i DEF RoundTripInv, Arrived
    <2>6. CASE MarshalAgain
      BY <2>6, <2>m, <2>i DEF MarshalAgain, RoundTripInv, Arrived
    <2>7. CASE UNCHANGED wireVars
      BY <2>7, <2>m, <2>i DEF wireVars, RoundTripInv, Arrived
    <2> QED
      BY <2>1, <2>2, <2>3, <2>4, <2>5, <2>6, <2>7 DEF WireNext
  <1>3. RoundTripInv => RoundTrip
    BY DEF RoundTripInv, RoundTrip, Arrived
  <1> QED
    BY <1>1, <1>2, <1>3, PTL DEF WireSpec

--------------------------------------------------------------------------------
(* Such a frame's message, marshalled, is the frame again up to its trailing     *)
(* bytes, if its digest was that of its payload.                                 *)
LEMMA BytesOfDecode ==
    ASSUME NEW f \in FrameSet, f.header = 116, LongEnough(f), Sliceable(f), f.digestOk
    PROVE  [Bytes(Decode(f)) EXCEPT !.size = f.size] = f
  <1> DEFINE g == Bytes(Decode(f))
  <1>w. WordSize \in Nat /\ WordSize > 120
    BY WordAssumption
  <1>1. /\ f = [size |-> f.size, header |-> f.header, schema |-> f.schema, id |-> f.id,
                type |-> f.type, flags |-> f.flags, payloadType |-> f.payloadType,
                payloadLength |-> f.payloadLength, digestOk |-> f.digestOk]
        /\ f.payloadLength \in 0 .. (WordSize - 1) /\ f.size \in Nat
        /\ f.id \in {Uuid, Swapped(Uuid)} /\ f.digestOk = TRUE
    BY DEF FrameSet
  <1>2. Swapped(Swapped(f.id)) = f.id
    BY <1>1 DEF Swapped, Uuid
  <1>3. PayloadTypeOf(f) = f.payloadType
    BY DEF PayloadTypeOf, agentMsgHeaderLen
  <1>4. Decode(f) = [header |-> f.header, schema |-> f.schema, id |-> Swapped(f.id),
                     type |-> f.type, flags |-> f.flags, payloadType |-> f.payloadType,
                     payload |-> f.payloadLength]
    BY <1>3, SlicedPayload DEF Decode
  <1>5. f.payloadLength % WordSize = f.payloadLength
    BY <1>1, <1>w, WordSum
  <1>6. g = [size |-> 120 + f.payloadLength, header |-> f.header, schema |-> f.schema,
             id |-> f.id, type |-> f.type, flags |-> f.flags, payloadType |-> f.payloadType,
             payloadLength |-> f.payloadLength, digestOk |-> TRUE]
    <2>1. agentMsgHeaderLen + 4 + f.payloadLength = 120 + f.payloadLength
      BY <1>1 DEF agentMsgHeaderLen
    <2>2. /\ Decode(f).header = f.header /\ Decode(f).schema = f.schema
          /\ Swapped(Decode(f).id) = f.id /\ Decode(f).type = f.type
          /\ Decode(f).flags = f.flags /\ Decode(f).payloadType = f.payloadType
          /\ Decode(f).payload = f.payloadLength
      BY <1>4, <1>2
    <2> QED
      BY <2>1, <2>2, <1>5 DEF Bytes
  <1> HIDE DEF g
  <1>7. [g EXCEPT !.size = f.size] = f
    <2> DEFINE h == [g EXCEPT !.size = f.size]
    <2>1. g \in FrameSet
      <3>1. 120 + f.payloadLength \in Nat
        BY <1>1
      <3> QED
        BY <3>1, <1>6 DEF FrameSet
    <2>2. h \in FrameSet
      BY <2>1, <1>1 DEF FrameSet
    <2>3. /\ h.size = f.size /\ h.header = g.header /\ h.schema = g.schema /\ h.id = g.id
          /\ h.type = g.type /\ h.flags = g.flags /\ h.payloadType = g.payloadType
          /\ h.payloadLength = g.payloadLength /\ h.digestOk = g.digestOk
      BY <2>1 DEF FrameSet
    <2> HIDE DEF h
    <2>4. h = [size |-> h.size, header |-> h.header, schema |-> h.schema, id |-> h.id,
               type |-> h.type, flags |-> h.flags, payloadType |-> h.payloadType,
               payloadLength |-> h.payloadLength, digestOk |-> h.digestOk]
      BY <2>2 DEF FrameSet
    <2>5. /\ g.header = f.header /\ g.schema = f.schema /\ g.id = f.id
          /\ g.type = f.type /\ g.flags = f.flags /\ g.payloadType = f.payloadType
          /\ g.payloadLength = f.payloadLength /\ g.digestOk = f.digestOk
      BY <1>6, <1>1
    <2>6. h = f
      BY <2>3, <2>4, <2>5, <1>1
    <2> QED
      BY <2>6 DEF h
  <1> QED
    BY <1>7 DEF g

(* A frame is one in every state that has one, and what was made of it is what   *)
(* UnmarshalBinary makes of an accepted frame.                                   *)
AcceptedInv ==
    /\ step \in {"marshal", "unmarshal", "again", "end"}
    /\ step = "marshal" => message \in Messages
    /\ step \in {"unmarshal", "again"} \/ again # None => frame \in FrameSet
    /\ step \in {"marshal", "unmarshal", "again"} => again = None
    /\ step = "again" \/ again # None =>
           /\ LongEnough(frame) /\ Sliceable(frame)
           /\ Valid(Decode(frame), frame.digestOk)
           /\ decoded = Decode(frame)
    /\ again # None => step = "end" /\ again = Bytes(decoded)

(* What arrives from outside is such a frame. *)
LEMMA FramesAreFrames == Frames \subseteq FrameSet
  <1> SUFFICES ASSUME NEW f \in Frames PROVE f \in FrameSet
    OBVIOUS
  <1>1. PICK n \in FrameLengths, h \in HeaderWords, s \in {0, 1}, t \in FrameTypes,
             w \in LengthWords, d \in BOOLEAN :
            f = [size |-> n, header |-> h, schema |-> s, id |-> Uuid, type |-> t,
                 flags |-> "Data", payloadType |-> "Output", payloadLength |-> w,
                 digestOk |-> d]
    BY DEF Frames
  <1>2. n \in Nat /\ h \in 0 .. (WordSize - 1) /\ w \in 0 .. (WordSize - 1) /\ s \in Nat
    BY <1>1, WordAssumption
  <1>3. t \in Types /\ "Data" \in Flags /\ "Output" \in PayloadTypes
    BY <1>1 DEF Types, Flags, PayloadTypes
  <1> QED
    BY <1>1, <1>2, <1>3 DEF FrameSet

(* Each step keeps it. *)
LEMMA AcceptedStep == AcceptedInv /\ [WireNext]_wireVars => AcceptedInv'
  <1> SUFFICES ASSUME AcceptedInv, [WireNext]_wireVars PROVE AcceptedInv'
    OBVIOUS
  <1>1. CASE Marshal
    <2>1. frame' \in FrameSet
      BY <1>1, DecodeOfBytes DEF Marshal, AcceptedInv
    <2> QED
      BY <1>1, <2>1 DEF Marshal, AcceptedInv
  <1>2. CASE MarshalRefuses
    BY <1>2 DEF MarshalRefuses, AcceptedInv
  <1>3. CASE UnmarshalRefuses
    BY <1>3 DEF UnmarshalRefuses, AcceptedInv
  <1>4. CASE UnmarshalPanics
    BY <1>4 DEF UnmarshalPanics, AcceptedInv
  <1>5. CASE UnmarshalAccepts
    BY <1>5 DEF UnmarshalAccepts, AcceptedInv
  <1>6. CASE MarshalAgain
    BY <1>6 DEF MarshalAgain, AcceptedInv
  <1>7. CASE UNCHANGED wireVars
    BY <1>7 DEF wireVars, AcceptedInv
  <1> QED
    BY <1>1, <1>2, <1>3, <1>4, <1>5, <1>6, <1>7 DEF WireNext

(* Nothing is accepted but what a peer could have sent, whatever the lengths in   *)
(* the frame: no wrapped sum lets through a frame whose fields lie elsewhere.     *)
THEOREM OnlyExactFramesAreAccepted == WireSpec => []AcceptedIsExact
  <1>1. WireInit => AcceptedInv
    BY FramesAreFrames DEF WireInit, AcceptedInv
  <1>2. AcceptedInv => AcceptedIsExact
    <2> SUFFICES ASSUME AcceptedInv, again # None
                 PROVE  AcceptedIsExact
      BY DEF AcceptedIsExact
    <2>1. /\ frame \in FrameSet
          /\ LongEnough(frame) /\ Sliceable(frame)
          /\ Valid(Decode(frame), frame.digestOk)
          /\ decoded = Decode(frame) /\ again = Bytes(Decode(frame))
      BY DEF AcceptedInv
    <2>2. /\ decoded.payload = frame.payloadLength
          /\ frame.header + 4 + frame.payloadLength <= frame.size
      BY <2>1, SlicedPayload DEF Decode
    <2>3. ASSUME frame.header = agentMsgHeaderLen, decoded.payload > 0,
                 decoded.type \notin Publications
          PROVE  [again EXCEPT !.size = frame.size] = frame
      <3>1. frame.header = 116 /\ frame.digestOk
        BY <2>1, <2>3 DEF Valid, DigestFits, agentMsgHeaderLen
      <3> QED
        BY <2>1, <3>1, BytesOfDecode
    <2> QED
      BY <2>2, <2>3 DEF AcceptedIsExact
  <1> QED
    BY <1>1, <1>2, AcceptedStep, PTL DEF WireSpec

(* LengthsDoNotOverflow fails, as its run shows, but only so far: a frame whose   *)
(* lengths pass the checks and whose payload then cannot be sliced has a payload  *)
(* length within 120 bytes of the word size.  The header length, checked before   *)
(* anything is added to it, never overflows.                                      *)
THEOREM OnlyTheLastLengthsOverflow ==
    WireSpec => [][UnmarshalPanics => WordSize - 120 <= frame.payloadLength]_wireVars
  <1>1. WireInit => AcceptedInv
    BY FramesAreFrames DEF WireInit, AcceptedInv
  <1>2. ASSUME AcceptedInv, UnmarshalPanics
        PROVE  WordSize - 120 <= frame.payloadLength
    <2> SUFFICES ASSUME frame.payloadLength < WordSize - 120
                 PROVE  FALSE
      BY <1>2, WordAssumption DEF AcceptedInv, UnmarshalPanics, FrameSet
    <2>1. /\ frame.payloadLength \in 0 .. (WordSize - 1)
          /\ frame.header \in 112 .. 116
          /\ TotalRequired(frame) <= frame.size
          /\ ~Sliceable(frame)
      BY <1>2 DEF AcceptedInv, UnmarshalPanics, FrameSet, LongEnough, agentMsgHeaderLen
    <2>2. frame.header + 4 \in Nat /\ frame.header + 4 < WordSize
      BY <2>1, WordAssumption
    <2>3. PayloadLenEnd(frame) = frame.header + 4
      BY <2>2, WordAssumption, WordSum DEF PayloadLenEnd
    <2>4. /\ PayloadLenEnd(frame) + frame.payloadLength \in Nat
          /\ PayloadLenEnd(frame) + frame.payloadLength < WordSize
      BY <2>1, <2>3, WordAssumption
    <2>5. TotalRequired(frame) = PayloadLenEnd(frame) + frame.payloadLength
      BY <2>4, WordAssumption, WordSum DEF TotalRequired
    <2> QED
      BY <2>1, <2>2, <2>3, <2>5 DEF Sliceable
  <1> QED
    BY <1>1, <1>2, AcceptedStep, PTL DEF WireSpec

--------------------------------------------------------------------------------
(* Induction over the natural numbers, for sets of them.                     *)

(* A set of natural numbers with a member has a least one. *)
LEMMA LeastNumber ==
    ASSUME NEW T \in SUBSET Nat, T # {}
    PROVE  \E x \in T : \A y \in T : x <= y
  <1> DEFINE R == {ss \in Nat \X Nat : ss[1] < ss[2]}
  <1>1. IsWellFoundedOn(R, Nat)
    BY NatLessThanWellFounded DEF OpToRel
  <1>2. \A x, y \in Nat : <<y, x>> \in R <=> y < x
    OBVIOUS
  <1> HIDE DEF R
  <1>3. PICK x \in T : \A y \in T : ~ (<<y, x>> \in R)
    <2>1. T \subseteq Nat
      OBVIOUS
    <2> QED
      BY <1>1, <2>1, WFMin, Zenon
  <1>4. ASSUME NEW y \in T
        PROVE  x <= y
    <2>1. ~(y < x)
      BY <1>2, <1>3, <1>4
    <2> QED
      BY <2>1
  <1> QED
    BY <1>4

(* A set that holds 0, and with a number the next, holds them all. *)
LEMMA SetInduction ==
    ASSUME NEW T \in SUBSET Nat, 0 \in T, \A n \in T : n + 1 \in T
    PROVE  T = Nat
  <1> SUFFICES ASSUME Nat \ T # {} PROVE FALSE
    OBVIOUS
  <1>1. PICK x \in Nat \ T : \A y \in Nat \ T : x <= y
    BY LeastNumber
  <1>2. x # 0 /\ x - 1 \in Nat /\ (x - 1) + 1 = x /\ ~(x <= x - 1)
    BY <1>1
  <1>3. x - 1 \in T
    BY <1>1, <1>2
  <1> QED
    BY <1>1, <1>2, <1>3

--------------------------------------------------------------------------------
(* Versions as numbers.                                                      *)

(* There is a base: one more than the largest component. *)
LEMMA BaseFits ==
    /\ Base \in Nat \ {0}
    /\ Numbers \subseteq 0 .. (Base - 1)
  <1>1. PICK largest \in Numbers : \A c \in Numbers : c <= largest
    BY VersionAssumption
  <1>2. largest + 1 \in {c + 1 : c \in Numbers} /\ \A c \in Numbers : c < largest + 1
    BY <1>1, VersionAssumption
  <1>3. Base \in {c + 1 : c \in Numbers} /\ \A c \in Numbers : c < Base
    BY <1>2 DEF Base
  <1> QED
    BY <1>3, VersionAssumption

(* The recursion has a solution on each 0 .. n: one for n extends to n + 1.    *)
LEMMA ValuesDefined ==
    ASSUME NEW v, NEW n \in Nat
    PROVE  Values(v, n) = [k \in 0 .. n |-> IF k = 0 THEN 0 ELSE Values(v, n)[k - 1] * Base + v[k]]
  <1> DEFINE Solves(g, m) ==
               g = [k \in 0 .. m |-> IF k = 0 THEN 0 ELSE g[k - 1] * Base + v[k]]
             T == {m \in Nat : \E g : Solves(g, m)}
  <1>1. 0 \in T
    <2> DEFINE g == [k \in 0 .. 0 |-> 0]
    <2>1. Solves(g, 0)
      OBVIOUS
    <2> QED
      BY <2>1
  <1>2. ASSUME NEW m \in T
        PROVE  m + 1 \in T
    <2>1. PICK g : Solves(g, m)
      OBVIOUS
    <2> DEFINE h == [k \in 0 .. (m + 1) |-> IF k = m + 1 THEN g[m] * Base + v[m + 1] ELSE g[k]]
    <2>2. m \in Nat
      OBVIOUS
    <2>3. Solves(h, m + 1)
      <3>1. ASSUME NEW k \in 0 .. (m + 1)
            PROVE  h[k] = IF k = 0 THEN 0 ELSE h[k - 1] * Base + v[k]
        <4>1. CASE k = 0
          BY <2>1, <2>2, <4>1
        <4>2. CASE k = m + 1
          BY <2>1, <2>2, <4>2
        <4>3. CASE k \in 1 .. m
          BY <2>1, <2>2, <4>3
        <4> QED
          BY <2>2, <4>1, <4>2, <4>3
      <3> QED
        BY <3>1
    <2> HIDE DEF h
    <2> QED
      BY <2>2, <2>3
  <1>3. T = Nat
    <2> HIDE DEF T
    <2>1. T \in SUBSET Nat
      BY DEF T
    <2> QED
      BY <1>1, <1>2, <2>1, SetInduction
  <1>4. \E g : Solves(g, n)
    BY <1>3
  <1>5. Values(v, n) = CHOOSE g : Solves(g, n)
    BY DEF Values
  <1> HIDE DEF Solves
  <1>6. Solves(Values(v, n), n)
    BY <1>4, <1>5
  <1> QED
    BY <1>6 DEF Solves

(* The value of the first k components is that of the first k - 1, moved up by   *)
(* one place, and the k-th in the place it leaves.                               *)
LEMMA ValuesStep ==
    ASSUME NEW v, NEW n \in Nat
    PROVE  /\ Values(v, n)[0] = 0
           /\ \A k \in 1 .. n : Values(v, n)[k] = Values(v, n)[k - 1] * Base + v[k]
  <1> DEFINE value == Values(v, n)
  <1>1. value = [k \in 0 .. n |-> IF k = 0 THEN 0 ELSE value[k - 1] * Base + v[k]]
    BY ValuesDefined
  <1> HIDE DEF value
  <1>2. 0 \in 0 .. n /\ \A k \in 1 .. n : k \in 0 .. n /\ k # 0
    OBVIOUS
  <1>3. value[0] = 0 /\ \A k \in 1 .. n : value[k] = value[k - 1] * Base + v[k]
    BY <1>1, <1>2
  <1> QED
    BY <1>3 DEF value

(* The value of numbers is a number. *)
LEMMA ValuesAreNumbers ==
    ASSUME NEW v, NEW n \in Nat, \A k \in 1 .. n : v[k] \in Numbers
    PROVE  \A k \in 0 .. n : Values(v, n)[k] \in Nat
  <1> DEFINE value == Values(v, n)
             T == {k \in Nat : k <= n => value[k] \in Nat}
  <1>v. value[0] = 0 /\ \A k \in 1 .. n : value[k] = value[k - 1] * Base + v[k]
    BY ValuesStep
  <1> HIDE DEF value
  <1>b. Base \in Nat /\ \A k \in 1 .. n : v[k] \in Nat
    BY BaseFits, VersionAssumption
  <1>1. 0 \in T
    BY <1>v
  <1>2. ASSUME NEW k \in T
        PROVE  k + 1 \in T
    <2> SUFFICES ASSUME k + 1 <= n PROVE value[k + 1] \in Nat
      OBVIOUS
    <2>1. k + 1 \in 1 .. n /\ (k + 1) - 1 = k /\ value[k] \in Nat
      OBVIOUS
    <2>2. value[k + 1] = value[k] * Base + v[k + 1]
      BY <2>1, <1>v
    <2>3. value[k] * Base \in Nat
      BY <2>1, <1>b
    <2> QED
      BY <2>1, <2>2, <2>3, <1>b
  <1>3. T = Nat
    <2> HIDE DEF T
    <2>1. T \in SUBSET Nat
      BY DEF T
    <2> QED
      BY <1>1, <1>2, <2>1, SetInduction
  <1>4. \A k \in 0 .. n : value[k] \in Nat
    BY <1>3
  <1> QED
    BY <1>4 DEF value

(* Versions that agree on their first j components have the same value there. *)
LEMMA SameValues ==
    ASSUME NEW v, NEW w, NEW n \in Nat, NEW j \in 0 .. n, \A k \in 1 .. j : v[k] = w[k]
    PROVE  Values(v, n)[j] = Values(w, n)[j]
  <1> DEFINE value == Values(v, n)
             other == Values(w, n)
             T == {k \in Nat : k <= j => value[k] = other[k]}
  <1>v. value[0] = 0 /\ \A k \in 1 .. n : value[k] = value[k - 1] * Base + v[k]
    BY ValuesStep
  <1>w. other[0] = 0 /\ \A k \in 1 .. n : other[k] = other[k - 1] * Base + w[k]
    BY ValuesStep
  <1> HIDE DEF value, other
  <1>1. 0 \in T
    BY <1>v, <1>w
  <1>2. ASSUME NEW k \in T
        PROVE  k + 1 \in T
    <2> SUFFICES ASSUME k + 1 <= j PROVE value[k + 1] = other[k + 1]
      OBVIOUS
    <2>1. k + 1 \in 1 .. n /\ k + 1 \in 1 .. j /\ (k + 1) - 1 = k /\ value[k] = other[k]
      OBVIOUS
    <2> QED
      BY <2>1, <1>v, <1>w
  <1>3. T = Nat
    <2> HIDE DEF T
    <2>1. T \in SUBSET Nat
      BY DEF T
    <2> QED
      BY <1>1, <1>2, <2>1, SetInduction
  <1>4. value[j] = other[j]
    BY <1>3
  <1> QED
    BY <1>4 DEF value, other

(* One place up, a smaller number stays smaller whatever is put in the place. *)
LEMMA PlaceUp ==
    ASSUME NEW a \in Nat, NEW b \in Nat, NEW c \in 0 .. (Base - 1), NEW d \in Nat, a < b
    PROVE  a * Base + c < b * Base + d
  <1>1. Base \in Nat \ {0}
    BY BaseFits
  <1>2. PICK e \in Nat : b = a + 1 + e
    <2>1. b - a - 1 \in Nat /\ b = a + 1 + (b - a - 1)
      OBVIOUS
    <2> QED
      BY <2>1
  <1>3. b * Base = a * Base + Base + e * Base
    BY <1>1, <1>2
  <1>4. a * Base \in Nat /\ e * Base \in Nat
    BY <1>1, <1>2
  <1>5. ASSUME NEW p \in Nat, NEW q \in Nat, NEW g \in Nat \ {0}, c \in 0 .. (g - 1)
        PROVE  p + c < p + g + q + d
    BY <1>5
  <1>6. a * Base + c < a * Base + Base + e * Base + d
    BY <1>1, <1>4, <1>5
  <1> QED
    BY <1>3, <1>6

(* The first component that differs decides, whatever comes after it. *)
LEMMA FirstDifferenceDecides ==
    ASSUME NEW v, NEW w, NEW n \in Nat, NEW j \in 1 .. n,
           \A k \in 1 .. n : v[k] \in Numbers /\ w[k] \in Numbers,
           \A k \in 1 .. (j - 1) : v[k] = w[k],
           v[j] < w[j]
    PROVE  Values(v, n)[n] < Values(w, n)[n]
  <1> DEFINE value == Values(v, n)
             other == Values(w, n)
             T == {k \in Nat : j + k <= n => value[j + k] < other[j + k]}
  <1>v. value[0] = 0 /\ \A k \in 1 .. n : value[k] = value[k - 1] * Base + v[k]
    BY ValuesStep
  <1>w. other[0] = 0 /\ \A k \in 1 .. n : other[k] = other[k - 1] * Base + w[k]
    BY ValuesStep
  <1>n. \A k \in 0 .. n : value[k] \in Nat /\ other[k] \in Nat
    BY ValuesAreNumbers
  <1>s. value[j - 1] = other[j - 1]
    BY SameValues, j - 1 \in 0 .. n
  <1> HIDE DEF value, other
  <1>b. /\ Base \in Nat
        /\ \A k \in 1 .. n : /\ v[k] \in 0 .. (Base - 1) /\ w[k] \in 0 .. (Base - 1)
                             /\ v[k] \in Nat /\ w[k] \in Nat
    BY BaseFits, VersionAssumption
  <1>1. 0 \in T
    <2>1. value[j] = value[j - 1] * Base + v[j] /\ other[j] = other[j - 1] * Base + w[j]
      BY <1>v, <1>w
    <2>2. j - 1 \in 0 .. n /\ value[j - 1] \in Nat
      BY <1>n
    <2>3. value[j - 1] * Base \in Nat
      BY <2>2, <1>b
    <2>4. value[j] < other[j]
      BY <2>1, <2>3, <1>s, <1>b
    <2> QED
      BY <2>4
  <1>2. ASSUME NEW k \in T
        PROVE  k + 1 \in T
    <2> SUFFICES ASSUME j + (k + 1) <= n PROVE value[j + (k + 1)] < other[j + (k + 1)]
      OBVIOUS
    <2> DEFINE m == j + k
    <2>1. /\ m \in 0 .. n /\ m + 1 \in 1 .. n /\ (m + 1) - 1 = m /\ m + 1 = j + (k + 1)
          /\ value[m] < other[m]
      OBVIOUS
    <2> HIDE DEF m
    <2>2. /\ value[m + 1] = value[m] * Base + v[m + 1]
          /\ other[m + 1] = other[m] * Base + w[m + 1]
      BY <2>1, <1>v, <1>w
    <2>3. value[m] \in Nat /\ other[m] \in Nat
      BY <2>1, <1>n
    <2>4. v[m + 1] \in 0 .. (Base - 1) /\ w[m + 1] \in Nat
      BY <2>1, <1>b
    <2>5. value[m] * Base + v[m + 1] < other[m] * Base + w[m + 1]
      BY <2>1, <2>3, <2>4, PlaceUp
    <2> QED
      BY <2>1, <2>2, <2>5
  <1>3. T = Nat
    <2> HIDE DEF T
    <2>1. T \in SUBSET Nat
      BY DEF T
    <2> QED
      BY <1>1, <1>2, <2>1, SetInduction
  <1>4. value[n] < other[n]
    <2>1. n - j \in Nat /\ j + (n - j) = n /\ n <= n
      OBVIOUS
    <2>2. n - j \in T
      BY <2>1, <1>3
    <2> QED
      BY <2>1, <2>2
  <1> QED
    BY <1>4 DEF value, other

(* A version is a sequence of numbers and of components that are not numbers. *)
LEMMA VersionParts ==
    ASSUME NEW v \in Versions
    PROVE  /\ Len(v) \in Nat
           /\ \A k \in 1 .. Len(v) : v[k] \in Numbers \union {NaN}
  <1>1. PICK n \in 1 .. MaxParts : v \in [1 .. n -> Numbers \union {NaN}]
    BY DEF Versions
  <1>2. n \in Nat
    BY <1>1, VersionAssumption
  <1>3. v \in Seq(Numbers \union {NaN})
    BY <1>1, <1>2
  <1> QED
    BY <1>3

(* What NumericParts stands for, where versions have the same length. *)
LEMMA NumericPartsAre ==
    ASSUME flag \in Versions, agent \in Versions, Len(flag) = Len(agent)
    PROVE  /\ NumericParts \in 0 .. Len(flag)
           /\ \A k \in 1 .. NumericParts : flag[k] \in Numbers /\ agent[k] \in Numbers
           /\ NumericParts < Len(flag) =>
                  NaN \in {flag[NumericParts + 1], agent[NumericParts + 1]}
  <1> DEFINE length == Len(flag)
             T == {k \in Nat : k < length => NaN \in {flag[k + 1], agent[k + 1]}}
  <1>0. /\ length \in Nat
        /\ \A k \in 1 .. length : /\ flag[k] \in Numbers \union {NaN}
                                  /\ agent[k] \in Numbers \union {NaN}
    BY VersionParts
  <1> HIDE DEF length
  <1>1. length \in T
    BY <1>0
  <1>2. PICK n \in T : \A m \in T : n <= m
    <2> HIDE DEF T
    <2>1. T \in SUBSET Nat
      BY DEF T
    <2> QED
      BY <1>1, <2>1, LeastNumber
  <1>3. n \in 0 .. length
    BY <1>0, <1>1, <1>2
  <1>4. ASSUME NEW k \in 1 .. n
        PROVE  NaN \notin {flag[k], agent[k]}
    <2>1. k - 1 \in Nat /\ (k - 1) + 1 = k /\ ~(n <= k - 1)
      BY <1>3
    <2>2. k - 1 \notin T
      BY <2>1, <1>2
    <2> QED
      BY <2>1, <2>2
  <1>5. /\ NumericParts \in 0 .. length
        /\ \A k \in 1 .. NumericParts : NaN \notin {flag[k], agent[k]}
        /\ NumericParts < length => NaN \in {flag[NumericParts + 1], agent[NumericParts + 1]}
    BY <1>2, <1>3, <1>4 DEF NumericParts, length
  <1>6. \A k \in 1 .. NumericParts : k \in 1 .. length
    BY <1>0, <1>5
  <1> QED
    BY <1>0, <1>5, <1>6 DEF length

(* The components looked at so far are equal numbers, and an answer rests on   *)
(* the next one.                                                               *)
OrderInv ==
    /\ flag \in Versions /\ agent \in Versions
    /\ supports \in {"unknown", "yes", "no"}
    /\ Len(flag) = Len(agent) =>
           /\ i \in 1 .. (Len(flag) + 1)
           /\ \A k \in 1 .. (i - 1) : flag[k] \in Numbers /\ agent[k] = flag[k]
    /\ supports = "yes" =>
           /\ Len(flag) = Len(agent)
           /\ i <= Len(flag) => NaN \notin {flag[i], agent[i]} /\ agent[i] > flag[i]
    /\ supports = "no" /\ Len(flag) = Len(agent) =>
           /\ i <= Len(flag)
           /\ NaN \notin {flag[i], agent[i]} => agent[i] < flag[i]

(* A step looks at the next component only past an equal number. *)
LEMMA OrderStep == OrderInv /\ [VersionNext]_versionVars => OrderInv'
  <1> SUFFICES ASSUME OrderInv, [VersionNext]_versionVars PROVE OrderInv'
    OBVIOUS
  <1>1. CASE DifferentLength
    BY <1>1 DEF DifferentLength, Answer, OrderInv
  <1>2. CASE NotANumber
    BY <1>2 DEF NotANumber, Looking, Answer, OrderInv
  <1>3. CASE Newer
    BY <1>3 DEF Newer, Numeric, Looking, Answer, OrderInv
  <1>4. CASE Older
    BY <1>4 DEF Older, Numeric, Looking, Answer, OrderInv
  <1>5. CASE Same
    <2>1. /\ supports = "unknown" /\ UNCHANGED <<flag, agent, supports>>
          /\ Len(flag) = Len(agent) /\ i <= Len(flag) /\ i' = i + 1
          /\ NaN \notin {flag[i], agent[i]} /\ agent[i] = flag[i]
      BY <1>5 DEF Same, Numeric, Looking
    <2>2. /\ Len(flag) \in Nat
          /\ \A k \in 1 .. Len(flag) : flag[k] \in Numbers \union {NaN}
      BY VersionParts DEF OrderInv
    <2>3. /\ i \in 1 .. (Len(flag) + 1)
          /\ \A k \in 1 .. (i - 1) : flag[k] \in Numbers /\ agent[k] = flag[k]
      BY <2>1 DEF OrderInv
    <2>4. i \in 1 .. Len(flag) /\ flag[i] \in Numbers
      BY <2>1, <2>2, <2>3
    <2>5. i + 1 \in 1 .. (Len(flag) + 1)
          /\ \A k \in 1 .. ((i + 1) - 1) : k = i \/ k \in 1 .. (i - 1)
      BY <2>2, <2>3, <2>4
    <2>6. \A k \in 1 .. ((i + 1) - 1) : flag[k] \in Numbers /\ agent[k] = flag[k]
      BY <2>1, <2>3, <2>4, <2>5
    <2> QED
      BY <2>1, <2>5, <2>6 DEF OrderInv
  <1>6. CASE Equal
    BY <1>6 DEF Equal, Answer, OrderInv
  <1>7. CASE UNCHANGED versionVars
    BY <1>7 DEF versionVars, OrderInv
  <1> QED
    BY <1>1, <1>2, <1>3, <1>4, <1>5, <1>6, <1>7 DEF VersionNext

(* An answer given component by component agrees with the order of the versions *)
(* read as numbers, for components of any size and versions of any length.       *)
THEOREM AnswerIsTheOrder == VersionSpec => []VersionIsOrder
  <1>1. VersionInit => OrderInv
    <2> SUFFICES ASSUME VersionInit PROVE OrderInv
      OBVIOUS
    <2>1. Len(flag) \in Nat
      BY VersionParts DEF VersionInit
    <2>2. i = 1 /\ i \in 1 .. (Len(flag) + 1) /\ 1 .. (i - 1) = {}
      BY <2>1 DEF VersionInit
    <2> QED
      BY <2>2 DEF VersionInit, OrderInv
  <1>2. OrderInv => VersionIsOrder
    <2> SUFFICES ASSUME OrderInv, supports \in {"yes", "no"} PROVE VersionIsOrder
      BY DEF VersionIsOrder
    <2>1. CASE Len(flag) # Len(agent)
      BY <2>1 DEF OrderInv, VersionIsOrder
    <2>2. CASE Len(flag) = Len(agent)
      <3> DEFINE n == NumericParts
                 old == Values(flag, n)[n]
                 new == Values(agent, n)[n]
      <3>1. Len(flag) \in Nat
        BY VersionParts DEF OrderInv
      <3>2. /\ n \in 0 .. Len(flag)
            /\ \A k \in 1 .. n : flag[k] \in Numbers /\ agent[k] \in Numbers
            /\ n < Len(flag) => NaN \in {flag[n + 1], agent[n + 1]}
        BY <2>2, NumericPartsAre DEF OrderInv
      <3> HIDE DEF n
      <3>3. n \in Nat /\ n \in 0 .. n /\ NaN \notin Numbers
        BY <3>1, <3>2, VersionAssumption
      <3>4. old \in Nat /\ new \in Nat
        BY <3>2, <3>3, ValuesAreNumbers
      <3>5. /\ i \in 1 .. (Len(flag) + 1)
            /\ \A k \in 1 .. (i - 1) : flag[k] \in Numbers /\ agent[k] = flag[k]
        BY <2>2 DEF OrderInv
      <3>6. i - 1 <= n
        <4> SUFFICES ASSUME n < i - 1 PROVE FALSE
          BY <3>3, <3>5
        <4>1. n + 1 \in 1 .. (i - 1) /\ n < Len(flag)
          BY <3>1, <3>3, <3>5
        <4> QED
          BY <4>1, <3>2, <3>3, <3>5
      <3>7. ASSUME i <= Len(flag), NaN \notin {flag[i], agent[i]}
            PROVE  i \in 1 .. n
        <4> SUFFICES ASSUME n = i - 1 PROVE FALSE
          BY <3>3, <3>5, <3>6
        <4>1. n + 1 = i /\ n < Len(flag)
          BY <3>1, <3>5, <3>7
        <4> QED
          BY <4>1, <3>2, <3>7
      <3>8. ASSUME i - 1 = n
            PROVE  old = new
        <4>1. \A k \in 1 .. n : flag[k] = agent[k]
          BY <3>5, <3>8
        <4> QED
          BY <4>1, <3>3, SameValues
      <3> DEFINE minimum == old + (IF n = Len(flag) THEN 0 ELSE 1)
      <3>m. minimum \in Nat /\ minimum >= old
        BY <3>4
      <3>9. ASSUME supports = "yes"
            PROVE  new >= minimum
        <4>1. CASE i = Len(flag) + 1
          <5>1. n = Len(flag) /\ i - 1 = n
            BY <4>1, <3>1, <3>2, <3>6
          <5>2. minimum = new
            BY <5>1, <3>8, <3>4
          <5> QED
            BY <5>2, <3>4
        <4>2. CASE i <= Len(flag)
          <5>1. NaN \notin {flag[i], agent[i]} /\ agent[i] > flag[i]
            BY <4>2, <3>9 DEF OrderInv
          <5>2. i \in 1 .. n
            BY <4>2, <5>1, <3>7
          <5>3. flag[i] < agent[i] /\ \A k \in 1 .. (i - 1) : flag[k] = agent[k]
            <6>1. flag[i] \in Nat /\ agent[i] \in Nat
              BY <5>2, <3>2, VersionAssumption
            <6> QED
              BY <6>1, <5>1, <3>5
          <5>4. old < new
            BY <5>2, <5>3, <3>2, <3>3, FirstDifferenceDecides
          <5>5. minimum <= old + 1
            BY <3>4
          <5> QED
            BY <5>4, <5>5, <3>4, <3>m
        <4> QED
          BY <4>1, <4>2, <3>1, <3>5
      <3>10. ASSUME supports = "no", n = Len(flag)
             PROVE  new < old
        <4>1. i \in 1 .. n
          BY <2>2, <3>10, <3>1, <3>5 DEF OrderInv
        <4>2. NaN \notin {flag[i], agent[i]}
          BY <4>1, <3>2, <3>3
        <4>3. agent[i] < flag[i] /\ \A k \in 1 .. (i - 1) : agent[k] = flag[k]
          BY <2>2, <3>10, <4>2, <3>5 DEF OrderInv
        <4> QED
          BY <4>1, <4>3, <3>2, <3>3, FirstDifferenceDecides
      <3> HIDE DEF minimum
      <3> QED
        BY <2>2, <3>9, <3>10 DEF VersionIsOrder, n, minimum
    <2> QED
      BY <2>1, <2>2
  <1> QED
    BY <1>1, <1>2, OrderStep, PTL DEF VersionSpec

================================================================================
