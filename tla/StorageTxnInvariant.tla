------------------------- MODULE StorageTxnInvariant ------------------------
(***************************************************************************)
(* The inductive invariant of StorageTxn: what the commit knows about each    *)
(* source at each point of the code.                                         *)
(***************************************************************************)
EXTENDS StorageTxn

Planned == promotes \cup removes
Forward == {"next", "aside", "place", "placed", "saved"}
Backward == {"putBack", "rollback", "restore"}
InHand == {"aside", "putBack", "restore"}

Untouched(i) == data[i] = Before(i) /\ i \notin spare

(* A source is given up only if it has an artifact and no download; one that is     *)
(* not handled yet has no undo.                                                *)
PlanInv ==
  /\ removes \subseteq had \ promotes
  /\ todo \subseteq Planned
  /\ logged \subseteq Planned \ todo

(* The source in hand, between the calls that move it.                          *)
CurrentInv ==
  /\ step \in InHand =>
       /\ current \in (Planned \cap had \cap spare) \ (todo \cup logged)
       /\ data[current] = "none"
  /\ step \in {"place", "placed"} => current \in logged \cap promotes
  /\ step = "place" => data[current] = "none"

(* A source outside the plan, or not handled yet, is as it was.                   *)
UntouchedInv == \A i \in Source : i \notin Planned \/ i \in todo => Untouched(i)

(* The old copy of a source with an undo is aside, if it had one, and what is in    *)
(* its place came from the download.                                            *)
LoggedInv ==
  step \in Forward \cup Backward => \A i \in logged :
    /\ i \in spare <=> i \in had
    /\ data[i] # "old"
    /\ i \in removes => data[i] = "none"

(* On the way forward every handled source has its undo and its new content.        *)
ForwardInv ==
  step \in Forward =>
    /\ Planned \ todo \subseteq logged \cup (IF step = "aside" THEN {current} ELSE {})
    /\ \A i \in logged : (step = "place" /\ i = current) \/ data[i] = After(i)
    /\ broken = {}
    /\ state = "new" <=> step = "saved"
    /\ step = "saved" => todo = {}

(* On the way back every source without an undo is as it was, except those whose    *)
(* undo failed and the one in hand.                                             *)
BackwardInv ==
  step \in Backward =>
    \A i \in Planned \ (todo \cup logged) :
      i \in broken \/ (step \in InHand /\ i = current) \/ Untouched(i)

(* The old copies go only after the commit point.                               *)
FinalizeInv ==
  step = "finalize" =>
    /\ state = "new"
    /\ \A i \in Source : data[i] = After(i)
    /\ spare \subseteq logged \cup broken

VerdictInv ==
  /\ step \in {"cleanup", "ended"} => verdict # "open"
  /\ verdict # "open" => step \in {"cleanup", "ended", "crashed"}
  /\ verdict = "done" => state = "new" /\ \A i \in Source : data[i] = After(i)
  /\ verdict = "failed" => \A i \in Source \ broken : data[i] = Before(i)
  /\ verdict # "open" => spare \subseteq broken
  /\ step = "ended" => temps \subseteq broken

IInv ==
  /\ PlanInv
  /\ CurrentInv
  /\ UntouchedInv
  /\ LoggedInv
  /\ ForwardInv
  /\ BackwardInv
  /\ FinalizeInv
  /\ VerdictInv
  /\ OldCopyKept
=============================================================================
