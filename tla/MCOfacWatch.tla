----------------------------- MODULE MCOfacWatch -----------------------------
(***************************************************************************)
(* One list, of an anchor that may be gone and another program; two searches,   *)
(* of which one finds all documents; the watcher and one more caller.           *)
(***************************************************************************)
EXTENDS OfacWatch

CONSTANTS cuba, sdgt, watcher, app, alert, sdn, order, region

MCProgram == {cuba, sdgt} \cup 1..LastDocument
MCAnchor == {cuba}
MCCaller == {watcher, app}
MCList == {sdn, order, region}
MCLists == <<sdn, order, region>>
MCTerm == {order, region}
MCContents == [list \in {sdn} |-> {{}, {sdgt}, {cuba, sdgt}}]
MCFinds == [list \in MCTerm |-> IF list = order THEN 1..LastDocument ELSE {1}]
=============================================================================
