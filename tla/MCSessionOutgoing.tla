--------------------------- MODULE MCSessionOutgoing ---------------------------
(* SessionOutgoing on a small instance. *)
EXTENDS SessionOutgoing

MCControlMsgs == {0}

================================================================================
