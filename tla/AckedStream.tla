------------------------------ MODULE AckedStream ------------------------------
(***************************************************************************)
(* What one direction of an SSM data channel promises, with no transport   *)
(* in sight.  A sender offers messages numbered 0, 1, 2, ...; the receiver *)
(* accepts each number at most once, in any order, hands accepted messages *)
(* on strictly in sequence, and the sender retires (stops resending) only  *)
(* what the receiver has accepted.                                         *)
(*                                                                         *)
(* SessionIncoming implements it for the remote-to-client direction,       *)
(* SessionOutgoing for the client-to-remote direction.                     *)
(***************************************************************************)
EXTENDS Naturals

VARIABLES
    offered,    \* how many messages the sender has put into the stream
    accepted,   \* the sequence numbers the receiver has taken charge of
    delivered,  \* how many messages the receiver has handed on, in order
    retired     \* the sequence numbers the sender regards as acknowledged

vars == <<offered, accepted, delivered, retired>>

Init ==
    /\ offered \in Nat
    /\ accepted = {}
    /\ delivered = 0
    /\ retired = {}

Offer ==
    /\ offered' = offered + 1
    /\ UNCHANGED <<accepted, delivered, retired>>

Accept(s) ==
    /\ accepted' = accepted \union {s}
    /\ UNCHANGED <<offered, delivered, retired>>

Deliver ==
    /\ delivered \in accepted
    /\ delivered' = delivered + 1
    /\ UNCHANGED <<offered, accepted, retired>>

Retire(s) ==
    /\ s \in accepted
    /\ retired' = retired \union {s}
    /\ UNCHANGED <<offered, accepted, delivered>>

Next ==
    \/ Offer
    \/ Deliver
    \/ \E s \in 0 .. (offered - 1) : Accept(s) \/ Retire(s)

Spec == Init /\ [][Next]_vars

================================================================================
