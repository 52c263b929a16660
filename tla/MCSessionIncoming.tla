--------------------------- MODULE MCSessionIncoming ---------------------------
(* SessionIncoming on a small instance. *)
EXTENDS SessionIncoming

MCAckSeqs == {0}

================================================================================
