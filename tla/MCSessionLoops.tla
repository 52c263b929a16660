---------------------------- MODULE MCSessionLoops ----------------------------
(* SessionLoops on a small instance. *)
EXTENDS SessionLoops

================================================================================
