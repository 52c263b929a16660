-------------------------------- MODULE Channels --------------------------------
(***************************************************************************)
(* A Go channel with a buffer as a sequence: what one send and one receive *)
(* do to it.  The proofs about the components use channels through these   *)
(* facts only.                                                             *)
(***************************************************************************)
EXTENDS Naturals, Sequences, SequenceTheorems, TLAPS

(* The elements a channel holds. *)
Held(q) == {q[i] : i \in 1 .. Len(q)}

(* A send puts one value behind what is there. *)
LEMMA SendOne ==
    ASSUME NEW S, NEW q \in Seq(S), NEW x \in S
    PROVE  /\ Append(q, x) \in Seq(S)
           /\ Len(q) \in Nat
           /\ Len(Append(q, x)) = Len(q) + 1
           /\ \A i \in 1 .. Len(q) : Append(q, x)[i] = q[i]
           /\ Append(q, x)[Len(q) + 1] = x
  BY AppendProperties, LenProperties

(* A receive takes the first value, and the others move up. *)
LEMMA ReceiveOne ==
    ASSUME NEW S, NEW q \in Seq(S), q # <<>>
    PROVE  /\ Head(q) \in S
           /\ Head(q) = q[1]
           /\ Tail(q) \in Seq(S)
           /\ Len(q) \in Nat
           /\ Len(q) >= 1
           /\ Len(Tail(q)) = Len(q) - 1
           /\ \A i \in 1 .. Len(Tail(q)) : Tail(q)[i] = q[i + 1]
<1>1. Len(q) \in Nat /\ Len(q) # 0
  BY EmptySeq, LenProperties
<1>. QED
  BY <1>1, HeadTailProperties

(* What is in a channel has its type. *)
LEMMA HeldTypes ==
    ASSUME NEW S, NEW q \in Seq(S)
    PROVE  Held(q) \subseteq S
  BY ElementOfSeq DEF Held

(* A send adds the value sent, a receive adds none. *)
LEMMA SendHeld ==
    ASSUME NEW S, NEW q \in Seq(S), NEW x \in S
    PROVE  Held(Append(q, x)) = Held(q) \union {x}
<1>1. /\ Len(q) \in Nat
      /\ Len(Append(q, x)) = Len(q) + 1
      /\ \A i \in 1 .. Len(q) : Append(q, x)[i] = q[i]
      /\ Append(q, x)[Len(q) + 1] = x
  BY SendOne
<1>2. 1 .. (Len(q) + 1) = (1 .. Len(q)) \union {Len(q) + 1}
  BY <1>1
<1>. QED
  BY <1>1, <1>2 DEF Held

(* What a receive takes, and what it leaves, was there. *)
LEMMA ReceiveHeld ==
    ASSUME NEW S, NEW q \in Seq(S), q # <<>>
    PROVE  Head(q) \in Held(q) /\ Held(Tail(q)) \subseteq Held(q)
  BY ReceiveOne DEF Held

(* A receive takes the first value and leaves every other. *)
LEMMA ReceiveTakesHead ==
    ASSUME NEW S, NEW q \in Seq(S), q # <<>>
    PROVE  Held(q) = {Head(q)} \union Held(Tail(q))
<1>1. /\ Head(q) = q[1] /\ Len(q) \in Nat /\ Len(q) >= 1
      /\ Len(Tail(q)) = Len(q) - 1
      /\ \A i \in 1 .. Len(Tail(q)) : Tail(q)[i] = q[i + 1]
  BY ReceiveOne
<1>2. ASSUME NEW x \in Held(q), x # Head(q)
      PROVE  x \in Held(Tail(q))
  <2>1. PICK i \in 1 .. Len(q) : x = q[i]
    BY DEF Held
  <2>2. i # 1
    BY <1>1, <1>2, <2>1
  <2>3. i - 1 \in 1 .. Len(Tail(q)) /\ (i - 1) + 1 = i
    BY <1>1, <2>1, <2>2
  <2>4. Tail(q)[i - 1] = x
    BY <1>1, <2>1, <2>3
  <2>. QED BY <2>3, <2>4 DEF Held
<1>. QED
  BY <1>2, ReceiveHeld

(* Channels start empty. *)
LEMMA EmptyChannel ==
    ASSUME NEW S
    PROVE  <<>> \in Seq(S) /\ Len(<<>>) = 0 /\ Held(<<>>) = {}
  BY EmptySeq DEF Held

(* The empty channel is also the empty Go map, with no keys. *)
LEMMA NoKeys == DOMAIN <<>> = {}
<1>1. <<>> \in Seq({}) /\ Len(<<>>) = 0
  BY EmptySeq
<1>2. DOMAIN <<>> = 1 .. 0
  BY <1>1, LenProperties
<1>. QED
  BY <1>2

(* So it is a function from no keys to anything. *)
LEMMA EmptyMap ==
    ASSUME NEW S
    PROVE  DOMAIN <<>> = {} /\ <<>> \in [{} -> S]
<1>1. <<>> \in Seq(S) /\ Len(<<>>) = 0
  BY EmptySeq
<1>. QED
  BY <1>1, NoKeys, LenProperties

================================================================================
