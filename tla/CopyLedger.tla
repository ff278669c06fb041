----------------------------- MODULE CopyLedger -----------------------------
(***************************************************************************)
(* What the updater promises about local copies, in one variable: the copy   *)
(* of each source as the durable state records it.  A source first has none,  *)
(* then a copy it keeps, and an optional source may at last be given up for    *)
(* good.  All the changes of one sync are recorded in one step, and no crash,   *)
(* failure or restart is visible at this level.                              *)
(***************************************************************************)
CONSTANTS Source, Required

VARIABLE copy

CopyKinds == {"none", "held", "outdated"}

Init == copy = [i \in Source |-> "none"]

MayBecome(i, old, new) ==
  \/ new = old
  \/ old = "none" /\ new = "held"
  \/ old = "held" /\ new = "outdated" /\ i \notin Required

Commit ==
  \E new \in [Source -> CopyKinds] :
    /\ \A i \in Source : MayBecome(i, copy[i], new[i])
    /\ copy' = new

Spec == Init /\ [][Commit]_copy
=============================================================================
