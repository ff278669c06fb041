----------------------------- MODULE MCDataset ------------------------------
(***************************************************************************)
(* Two addresses, which have a prefix in common and each one of its own, a third   *)
(* that no source lists, and two operators: one on the list of OFAC operators, one *)
(* of hosting.  The sources hold any MaxLines lines; the texts have three pieces. *)
(***************************************************************************)
EXTENDS Report

CONSTANTS a1, a2, a3, island, host, MaxLines

MCAddr == {a1, a2, a3}
MCPrefix == {{a1}, {a2}, {a1, a2}}
MCASN == {island, host}
MCOfac == {island}
MCPossibleOfac == {host}
MCHosting == {host}

MCGeoRecord ==
  {[country |-> "sanctioned", registered |-> "ofac", area |-> "none"],
   [country |-> "Ukraine", registered |-> "other", area |-> "OFAC"],
   [country |-> "Ukraine", registered |-> "ofac", area |-> "none"]}

(* The sources of addresses list the first. *)
Interesting == {line \in Listing : line.at \notin {a2, a3}}

UpTo[k \in 0..MaxLines] ==
  IF k = 0 THEN {{}}
  ELSE {lines \in {old \cup {line} : old \in UpTo[k - 1], line \in Interesting} : WellFormed(lines)}

MCInputs == UpTo[MaxLines]

(* An address again, at once or later; one too many; a piece that is no address.      *)
MCTexts == {<<a1, x, y>> : x, y \in MCAddr} \cup {<<a3, NoAddr, a2>>}
=============================================================================
