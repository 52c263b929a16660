------------------------------ MODULE MCMessages ------------------------------
(* The two pure parts of the library on small instances: a behaviour is one   *)
(* of Wire, with words of eight bits, or one of Version.                      *)
EXTENDS Wire, Version

MCPayloadLengths == 0 .. 258
MCFrameLengths == {0, 3, 4, 111, 112, 115, 116, 119, 120, 121, 122, 140}
MCHeaderWords == {0, 111, 112, 113, 116, 117, 255}
MCLengthWords == {0, 1, 2, 3, 20, 21, 134, 135, 136, 137, 140, 255}

Init ==
    \/ WireInit /\ flag = <<>> /\ agent = <<>> /\ i = 1 /\ supports = "idle"
    \/ VersionInit /\ step = "end" /\ message = None /\ frame = None /\ outcome = None
         /\ decoded = None /\ again = None

Next ==
    \/ WireNext /\ UNCHANGED versionVars
    \/ VersionNext /\ UNCHANGED wireVars

Spec == Init /\ [][Next]_<<wireVars, versionVars>>

================================================================================
