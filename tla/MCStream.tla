------------------------------- MODULE MCStream -------------------------------
(* Stream on a small instance.  The sizes differ in one dimension only, and   *)
(* a Size() that fails returns zeros; the behaviours have either data to copy *)
(* or a terminal that changes.                                                *)
EXTENDS Stream

MCSizes == {<<80, 24>>, <<80, 50>>}
MCFirstSize == <<80, 24>>
MCNoSize == <<0, 0>>
MCBadSizes == {<<0, 0>>}
MCBudgets == {[data |-> 2, resizes |-> 0], [data |-> 0, resizes |-> 2]}

================================================================================
