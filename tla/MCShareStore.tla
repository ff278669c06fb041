---------------------------- MODULE MCShareStore ----------------------------
(***************************************************************************)
(* One share, since nothing but the connection relates two, and three goroutines.                                  *)
(***************************************************************************)
EXTENDS ShareStore

CONSTANTS red, ann, bob, eve

MCKey == {red}
MCCaller == {ann, bob, eve}
=============================================================================
