--------------------------- MODULE MCDatasetStart ---------------------------
(***************************************************************************)
(* The two any-of sources of the dataset and no other.                       *)
(***************************************************************************)
EXTENDS DatasetStart

CONSTANTS asn, blocks

MCSource == {asn, blocks}
MCOutdatedAfter == [i \in MCSource |-> 1]
MCEnabledSets == {{asn, blocks}}
MCRetryLadder == <<1, 2>>
MCStartAts == {1}
=============================================================================
