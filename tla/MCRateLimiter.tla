--------------------------- MODULE MCRateLimiter ----------------------------
(***************************************************************************)
(* Three clients for a table of two, one observed; two handlers at a time.              *)
(***************************************************************************)
EXTENDS RateLimiter, TLC

CONSTANTS ann, bob, eve, first, second

MCKey == {ann, bob, eve}
MCCaller == {first, second}
MCSymmetry == Permutations(MCKey \ {ann}) \cup Permutations(MCCaller)
=============================================================================
