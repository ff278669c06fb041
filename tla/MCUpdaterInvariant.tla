------------------------- MODULE MCUpdaterInvariant -------------------------
(***************************************************************************)
(* The inductive invariant on the instance of MCUpdater.                     *)
(***************************************************************************)
EXTENDS MCUpdater, UpdaterInvariant
=============================================================================
