---------------------------------- MODULE Wire ----------------------------------
(***************************************************************************)
(* AgentMessage on the wire: MarshalBinary, UnmarshalBinary and            *)
(* ValidateMessage.  A frame is what the arithmetic of the two sees of the *)
(* bytes: how many there are, the header length they begin with, the       *)
(* fields, the payload length found right after a header of that length,   *)
(* and whether the digest is that of the payload.                          *)
(*                                                                         *)
(* Lengths on the wire are unsigned words and their sums wrap around; the  *)
(* code's words have 32 bits.  A header may be 112 bytes, and then has no  *)
(* payload type, or up to the 116 of this library.                         *)
(***************************************************************************)
EXTENDS Naturals

CONSTANTS
    None,            \* no message, no frame, no outcome
    WordSize,        \* 2^32 in the code
    PayloadLengths,  \* lengths of payloads to send
    FrameLengths, HeaderWords, LengthWords   \* what frames to receive may have

ASSUME WordAssumption ==
    /\ WordSize \in Nat /\ WordSize > 120
    /\ PayloadLengths \subseteq Nat
    /\ FrameLengths \subseteq Nat
    /\ HeaderWords \subseteq 0 .. (WordSize - 1) /\ LengthWords \subseteq 0 .. (WordSize - 1)

VARIABLES
    step,      \* what comes next: "marshal", "unmarshal", "again" or "end"
    message,   \* the message to send
    frame,     \* its bytes, or the bytes received
    outcome,   \* what became of them: "message", "error", "panic", or "unsent"
    decoded,   \* the message it yielded
    again      \* the bytes of that message

wireVars == <<step, message, frame, outcome, decoded, again>>

agentMsgHeaderLen == 116

Publications == {"start_publication", "pause_publication"}

(* Types of fewer than ten bytes are refused; no constant of the library is one. *)
ShortTypes == {"short"}
FrameTypes == Publications \union ShortTypes \union {"output_stream_data"}

(* What the constructors of package messages build. *)
Built ==
    [type : {"input_stream_data"}, flags : {"Data"},
     payloadType : {"Output", "Size", "HandshakeResponse"}]
    \union [type : {"input_stream_data"}, flags : {"Fin"}, payloadType : {"Flag"}]
    \union [type : {"acknowledge"}, flags : {"Ack"}, payloadType : {"Undefined"}]

(* A UUID, by its halves. *)
Uuid == <<"high", "low">>

Messages ==
    {[header |-> agentMsgHeaderLen, schema |-> 1, id |-> Uuid, type |-> b.type,
      flags |-> b.flags, payloadType |-> b.payloadType, payload |-> n] :
        b \in Built, n \in PayloadLengths}

Frames ==
    {[size |-> n, header |-> h, schema |-> s, id |-> Uuid, type |-> t, flags |-> "Data",
      payloadType |-> "Output", payloadLength |-> w, digestOk |-> d] :
        n \in FrameLengths, h \in HeaderWords, s \in {0, 1}, t \in FrameTypes,
        w \in LengthWords, d \in BOOLEAN}

WireInit ==
    /\ outcome = None /\ decoded = None /\ again = None
    /\ \/ step = "marshal" /\ message \in Messages /\ frame = None
       \/ step = "unmarshal" /\ message = None /\ frame \in Frames

--------------------------------------------------------------------------------
(* A slip that trusts the payload. *)
DigestUnread(n, digestOk) == TRUE

(* An empty payload may have any digest, as in the plugin the code follows.  *)
DigestFits(n, digestOk) == n > 0 => digestOk

(* ValidateMessage, for a message whose payload has the length it says.      *)
Valid(m, digestOk) ==
    \/ m.type \in Publications
    \/ /\ m.header \in (agentMsgHeaderLen - 4) .. agentMsgHeaderLen
       /\ m.schema >= 1
       /\ m.type \notin ShortTypes
       /\ DigestFits(m.payload, digestOk)

(* formatUUIDBytes: the low half comes first on the wire. *)
Swapped(id) == <<id[2], id[1]>>

(* MarshalBinary: all the fields, with the payload type whatever the header   *)
(* length says, the digest, and the payload.                                  *)
Bytes(m) ==
    [size |-> agentMsgHeaderLen + 4 + m.payload, header |-> m.header, schema |-> m.schema,
     id |-> Swapped(m.id), type |-> m.type, flags |-> m.flags, payloadType |-> m.payloadType,
     payloadLength |-> m.payload % WordSize, digestOk |-> TRUE]

(* A slip that trusts the length it has just stored. *)
LengthUnchecked(n) == TRUE

(* "len(m.Payload) != int(m.PayloadLength)", of a length stored in a word. *)
LengthFits(n) == n % WordSize = n

Marshal ==
    /\ step = "marshal"
    /\ Valid(message, TRUE) /\ LengthFits(message.payload)
    /\ frame' = Bytes(message)
    /\ step' = "unmarshal"
    /\ UNCHANGED <<message, outcome, decoded, again>>

MarshalRefuses ==
    /\ step = "marshal"
    /\ ~(Valid(message, TRUE) /\ LengthFits(message.payload))
    /\ outcome' = "unsent"
    /\ step' = "end"
    /\ UNCHANGED <<message, frame, decoded, again>>

(* payloadLenEnd and totalRequired, in words. *)
PayloadLenEnd(f) == (f.header + 4) % WordSize
TotalRequired(f) == (PayloadLenEnd(f) + f.payloadLength) % WordSize

(* Every check of a length before the payload is sliced: the header length, 112 *)
(* bytes up to the digest, the payload type, the payload length, the payload.   *)
LongEnough(f) ==
    /\ f.size >= 4
    /\ f.header \in (agentMsgHeaderLen - 4) .. agentMsgHeaderLen
    /\ f.size >= 112
    /\ f.header = agentMsgHeaderLen => f.size >= f.header
    /\ f.size >= PayloadLenEnd(f)
    /\ f.size >= TotalRequired(f)

(* "data[payloadLenEnd : payloadLenEnd+m.PayloadLength]" of bounds in order. *)
Sliceable(f) == PayloadLenEnd(f) <= TotalRequired(f) /\ TotalRequired(f) <= f.size

(* A slip that reads no payload type. *)
PayloadTypeNever(f) == "Undefined"

(* "if m.headerLength == agentMsgHeaderLen" *)
PayloadTypeOf(f) == IF f.header = agentMsgHeaderLen THEN f.payloadType ELSE "Undefined"

Decode(f) ==
    [header |-> f.header, schema |-> f.schema, id |-> Swapped(f.id), type |-> f.type,
     flags |-> f.flags, payloadType |-> PayloadTypeOf(f),
     payload |-> TotalRequired(f) - PayloadLenEnd(f)]

UnmarshalRefuses ==
    /\ step = "unmarshal"
    /\ LongEnough(frame) => Sliceable(frame) /\ ~Valid(Decode(frame), frame.digestOk)
    /\ outcome' = "error"
    /\ step' = "end"
    /\ UNCHANGED <<message, frame, decoded, again>>

UnmarshalPanics ==
    /\ step = "unmarshal"
    /\ LongEnough(frame) /\ ~Sliceable(frame)
    /\ outcome' = "panic"
    /\ step' = "end"
    /\ UNCHANGED <<message, frame, decoded, again>>

UnmarshalAccepts ==
    /\ step = "unmarshal"
    /\ LongEnough(frame) /\ Sliceable(frame) /\ Valid(Decode(frame), frame.digestOk)
    /\ outcome' = "message"
    /\ decoded' = Decode(frame)
    /\ step' = "again"
    /\ UNCHANGED <<message, frame, again>>

MarshalAgain ==
    /\ step = "again"
    /\ again' = Bytes(decoded)
    /\ step' = "end"
    /\ UNCHANGED <<message, frame, outcome, decoded>>

WireNext ==
    \/ Marshal \/ MarshalRefuses
    \/ UnmarshalRefuses \/ UnmarshalPanics \/ UnmarshalAccepts
    \/ MarshalAgain

--------------------------------------------------------------------------------
(* Properties.                                                               *)

(* A message the library builds arrives as it was or not at all, whatever the *)
(* length of its payload: none is cut short by the word that stores it.  And  *)
(* it does arrive as long as header and payload together fit a word.          *)
RoundTrip ==
    message # None /\ outcome # None =>
        /\ outcome = "message" => decoded = message
        /\ agentMsgHeaderLen + 4 + message.payload < WordSize => outcome = "message"

(* Nothing is accepted but what a peer could have sent: the payload lies right *)
(* behind its length, has that length, and ends within the frame; and with a   *)
(* full header the bytes of the message are those of the frame, except what is *)
(* ignored behind them.  (An empty payload goes with any digest, and the two   *)
(* publication types pass unvalidated, as in the plugin the code follows.)     *)
AcceptedIsExact ==
    again # None =>
        /\ decoded.payload = frame.payloadLength
        /\ frame.header + 4 + frame.payloadLength <= frame.size
        /\ frame.header = agentMsgHeaderLen /\ decoded.payload > 0
               /\ decoded.type \notin Publications
               => [again EXCEPT !.size = frame.size] = frame

(* "Validate header length early to prevent integer overflow in subsequent   *)
(* arithmetic": whatever the lengths in the frame, UnmarshalBinary yields a   *)
(* message or an error.                                                       *)
LengthsDoNotOverflow == outcome # "panic"

================================================================================
