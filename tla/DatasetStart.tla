---------------------------- MODULE DatasetStart ----------------------------
(***************************************************************************)
(* The updater as the dataset depends on it: the program serves only if the  *)
(* first dataset.Load of the process finds every all-of source and one of     *)
(* each any-of group (src/internal/dataset/validate.go).                     *)
(***************************************************************************)
EXTENDS Updater

(* The any-of group "asn", MaxMind's ASN file and IPVerse's blocks: none of them   *)
(* is required on its own (RequiresSource).                                   *)
CONSTANT AnyOf

(* validateSourceGroups                                                      *)
GroupsPresent(available) ==
  /\ Required \subseteq available
  /\ AnyOf \cap available # {}

SavedAvailable == AvailableSources(Source, saved.sources)

(* "a broken file never reaches the disk and the dataset can always start"     *)
(* (content.go): once the saved sources suffice to start, they always do.      *)
DatasetCanAlwaysStart ==
  [][GroupsPresent(SavedAvailable) => GroupsPresent(SavedAvailable')]_vars
=============================================================================
