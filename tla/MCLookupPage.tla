---------------------------- MODULE MCLookupPage ----------------------------
(***************************************************************************)
(* Two inputs to share and one without an address; a share may exist before the   *)
(* page is opened.  Three handlers: a lookup, a share and a link that cross.       *)
(***************************************************************************)
EXTENDS LookupPage

CONSTANTS ann, bob, text, red, blue, first, second, third

MCInput == {ann, bob, text}
MCWithoutAddress == {text}
MCBearer == {red, blue}
MCCall == {first, second, third}
=============================================================================
