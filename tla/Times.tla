-------------------------------- MODULE Times -------------------------------
(***************************************************************************)
(* Time as the updater's saved state sees it: a natural number of units,    *)
(* where 0 is Go's zero time.Time.  The zero time is before every clock      *)
(* reading and the code uses it for "never".                                *)
(***************************************************************************)
EXTENDS Naturals

Time == Nat
Zero == 0
=============================================================================
