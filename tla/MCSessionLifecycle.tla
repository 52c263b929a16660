-------------------------- MODULE MCSessionLifecycle --------------------------
(* SessionLifecycle on a small instance. *)
EXTENDS SessionLifecycle

CONSTANTS s1, s2, w1, w2

MCStoppers == {s1, s2}
MCWaiters == {w1, w2}

================================================================================
