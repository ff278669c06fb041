------------------------------- MODULE Serving -------------------------------
(***************************************************************************)
(* What the application promises to its clients: once it serves a dataset it  *)
(* serves one until it stops for good, and the data never gets older.         *)
(***************************************************************************)
EXTENDS Naturals

VARIABLES
  mode,     \* starting, serving or stopped
  newest    \* the newest version of the data directory in the dataset served

Init == mode = "starting" /\ newest = 0

StartServing == mode = "starting" /\ mode' = "serving" /\ newest' \in Nat

Reload ==
  /\ mode = "serving"
  /\ mode' = "serving"
  /\ newest' \in Nat /\ newest' >= newest

Stop == mode # "stopped" /\ mode' = "stopped" /\ newest' = 0

Next == StartServing \/ Reload \/ Stop

Spec == Init /\ [][Next]_<<mode, newest>>
=============================================================================
