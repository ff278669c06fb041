------------------------------ MODULE MCManager ------------------------------
(***************************************************************************)
(* Two requests beside the other goroutines.                                 *)
(***************************************************************************)
EXTENDS ManagerInvariant

CONSTANTS ann, bob

MCRequest == {ann, bob}
=============================================================================
