---------------------------- MODULE MCSourceSync ----------------------------
(***************************************************************************)
(* A MaxMind source the dataset needs and a directory it can do without: each    *)
(* kind of archive and of job, and a commit that replaces one artifact and       *)
(* removes or adds the other.                                                *)
(*                                                                         *)
(* The archives have up to MaxEntries entries.  Two files may clash, each limit   *)
(* can be reached and passed, and the stream may break in every kind of entry.    *)
(***************************************************************************)
EXTENDS SourceSyncInvariant

CONSTANTS city, blocks, a, b, MaxEntries

MCSource == {city, blocks}
MCMaxMind == {city}
MCDirectories == {blocks}

MCName == {a, b}
MCMatching == {<<b>>, <<a, b>>}
MCPath == {Root, Outside, <<a>>, <<a, b>>}
MCEntry ==
  Entry({"file"}, MCPath, {"whole"}, 0..3) \cup
  Entry({"file"}, MCPath, {"cut", "broken"}, {2, 3}) \cup
  Entry({"dir"}, MCPath, {"whole"}, {0}) \cup
  Entry({"header", "garbage", "link"}, {Root, <<a, b>>}, {"whole"}, {0})
MCArchives == UNION {[1..n -> MCEntry] : n \in 0..MaxEntries}
=============================================================================
