--------------------------- MODULE MCMuxPortForward ---------------------------
(* MuxPortForward on a small instance. *)
EXTENDS MuxPortForward

CONSTANTS d1, d2

MCDials == {d1, d2}

================================================================================
