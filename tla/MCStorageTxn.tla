---------------------------- MODULE MCStorageTxn ----------------------------
(***************************************************************************)
(* Three sources are enough for a commit that replaces one artifact, adds     *)
(* another and removes a third, in every order.                              *)
(***************************************************************************)
EXTENDS StorageTxnInvariant

CONSTANTS city, asn, tor

MCSource == {city, asn, tor}
=============================================================================
