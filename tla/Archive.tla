------------------------------ MODULE Archive -------------------------------
(***************************************************************************)
(* What becomes of a downloaded tar.gz archive (src/internal/update:          *)
(* archive.go, copyWithLimit of temp.go): a directory of all its files, as    *)
(* for ipverse, or the one file that matches, as for MaxMind.  The archive    *)
(* is read as a stream that may break anywhere; there are limits on the        *)
(* number of files and on their bytes.                                     *)
(*                                                                         *)
(* A path is a sequence of names.  A file has a number of bytes, those of      *)
(* them that can be read.                                                  *)
(***************************************************************************)
EXTENDS Naturals, Sequences, FiniteSets

CONSTANTS
  Name,             \* the names in paths
  Archives,         \* sequences of entries
  Matching,         \* the paths that match
  MaxFiles,         \* 500 000 in the code
  MaxFileBytes,     \* 256 MiB in the code
  MaxTotalBytes     \* 512 MiB in the code

ASSUME LimitsAssumption ==
  /\ MaxFiles \in Nat /\ MaxFileBytes \in Nat /\ MaxTotalBytes \in Nat
  /\ Matching \subseteq Seq(Name)
  /\ Name \cap {".."} = {}

(* cleanTarPath: the directory itself, or a path that is absolute or leads out of it.   *)
Root    == <<>>
Outside == <<"..">>

(* The stream ends after the bytes of a body that are there: as it should, too early,  *)
(* or with another error.  Only a file has a body.                              *)
Entry(types, paths, bodies, sizes) == [type : types, path : paths, body : bodies, size : sizes]

AnyPath == Seq(Name) \cup {Outside}
AnyEntry ==
  Entry({"file"}, AnyPath, {"whole", "cut", "broken"}, Nat) \cup
  Entry({"dir", "header", "link", "garbage"}, AnyPath, {"whole"}, {0})

ASSUME ArchivesAssumption == Archives \subseteq Seq(AnyEntry)

(* How far the extraction is: the error that ended it, or "none"; the files, as paths     *)
(* with their sizes; the directories; the bytes of the files; how many files there were,   *)
(* and how many of them matched; the bytes written, those of a file that failed included.  *)
Start == [error |-> "none", files |-> {}, dirs |-> {}, total |-> 0, count |-> 0, matched |-> 0,
          written |-> 0]

(* Invalid: content, to be tried again at the next sync.  Cut: a failure of the network,    *)
(* to be tried again soon.  Broken: an error no handler knows, which ends the program.       *)
Errors == [invalid |-> "later", cut |-> "soon", broken |-> "fatal"]

Least(m, n) == IF m < n THEN m ELSE n

Failed(x, error) == [x EXCEPT !.error = error]

-----------------------------------------------------------------------------
(* One entry *)

(* A body that nobody reads is skipped on the way to the next header.               *)
Skipped(x, entry) == IF entry.body = "whole" THEN x ELSE Failed(x, "invalid")

(* No file can be made below a file, nor where something is.                       *)
UpTo(path)    == {SubSeq(path, 1, n) : n \in 1..Len(path)}
Paths(x)       == {file.path : file \in x.files}
CanMakeDir(x, path)  == UpTo(path) \cap Paths(x) = {}
CanMakeFile(x, path) == CanMakeDir(x, path) /\ path \notin x.dirs
Parents(path)  == UpTo(path) \ {path}

(* A faulty variant: the limit is all that is read.                                 *)
CopyUpToLimit(size, limit) == Least(size, limit)

(* copyWithLimit reads one byte beyond the limit, to see whether there is one.          *)
CopyWithLimit(size, limit) == Least(size, limit + 1)

(* extractTarFile *)
ExtractTarFile(x, entry, limit) ==
  LET n == CopyWithLimit(entry.size, limit)
      y == [x EXCEPT !.written = @ + n]
  IN IF ~CanMakeFile(x, entry.path) THEN Failed(x, "broken")
     ELSE IF n > limit THEN Failed(y, "invalid")
     ELSE IF entry.body # "whole" THEN Failed(y, entry.body)
     ELSE [y EXCEPT !.files = @ \cup {[path |-> entry.path, size |-> n]},
                    !.dirs  = @ \cup Parents(entry.path)]

(* extractTarGzDir *)
IntoDir(x, entry) ==
  LET remaining == MaxTotalBytes - x.total
      y == ExtractTarFile(x, entry, Least(MaxFileBytes, remaining))
  IN CASE entry.path = Outside -> Failed(x, "invalid")
       [] entry.path = Root -> Skipped(x, entry)
       [] entry.path \notin {Root, Outside} /\ entry.type = "dir" ->
            IF CanMakeDir(x, entry.path) THEN [x EXCEPT !.dirs = @ \cup UpTo(entry.path)]
            ELSE Failed(x, "broken")
       [] entry.path \notin {Root, Outside} /\ entry.type = "file" ->
            IF remaining = 0 THEN Failed(x, "invalid")
            ELSE IF y.error = "none" THEN [y EXCEPT !.total = @ + entry.size]
            ELSE y
       [] entry.path \notin {Root, Outside} /\ entry.type = "header" -> x
       [] OTHER -> Failed(x, "invalid")

(* extractTarGzFile *)
OnlyMatch(x, entry) ==
  IF entry.path = Outside THEN Failed(x, "invalid")
  ELSE IF entry.path = Root \/ entry.type = "dir" \/ entry.path \notin Matching
       THEN Skipped(x, entry)
  ELSE IF entry.type # "file" \/ x.matched = 1 THEN Failed(x, "invalid")
  ELSE ExtractTarFile([x EXCEPT !.matched = 1], entry, MaxFileBytes)

(* readTarGz: the files are counted, then an entry is handled, for a directory or for the     *)
(* one file; an entry that cannot be read ends it.                                 *)
Read(wanted, x, entry) ==
  LET y == IF entry.type = "file" THEN [x EXCEPT !.count = @ + 1] ELSE x
  IN CASE x.error # "none" -> x
       [] x.error = "none" /\ (entry.type = "garbage" \/ y.count > MaxFiles) ->
            Failed(y, "invalid")
       [] OTHER -> IF wanted = "dir" THEN IntoDir(y, entry) ELSE OnlyMatch(y, entry)

(* A loop of so many turns                                                     *)
Iterate(Turn(_, _), first, turns) ==
  LET after[n \in 0..turns] == IF n = 0 THEN first ELSE Turn(after[n - 1], n)
  IN after[turns]

ReadTarGz(wanted, entries) ==
  LET x == Iterate(LAMBDA y, n : Read(wanted, y, entries[n]), Start, Len(entries))
  IN IF x.error = "none" /\ x.count = 0 THEN Failed(x, "invalid") ELSE x

ExtractTarGzDir(entries) == ReadTarGz("dir", entries)

ExtractTarGzFile(entries) ==
  LET x == ReadTarGz("file", entries)
  IN IF x.error = "none" /\ x.matched = 0 THEN Failed(x, "invalid") ELSE x

(* What handleOKResponse makes of it                                             *)
Outcome(x) == IF x.error = "none" THEN "ok" ELSE Errors[x.error]

-----------------------------------------------------------------------------
(* Properties *)

(* The places of the files, and of those that are extracted                           *)
Files(entries)  == {i \in DOMAIN entries : entries[i].type = "file"}
Inside(entries) == {i \in Files(entries) : entries[i].path \notin {Root, Outside}}

(* How many bytes the first n entries have to extract                              *)
BytesAt(entries, i) == {i} \X (1..entries[i].size)
Bytes(entries, n)   == Cardinality(UNION {BytesAt(entries, i) : i \in Inside(entries) \cap (1..n)})

Described(entries, places) == {[path |-> entries[i].path, size |-> entries[i].size] : i \in places}

(* Two entries of which one is a file where, or below which, the other has to be.         *)
Clash(entries, i, j) ==
  /\ i # j
  /\ entries[i].type = "file" /\ entries[j].type \in {"file", "dir"}
  /\ entries[i].path \in UpTo(entries[j].path)

(* It can be read to its end, keeps all limits, and has no link below its directory.      *)
Sound(entries) ==
  /\ \A i \in DOMAIN entries :
       /\ entries[i].type # "garbage" /\ entries[i].path # Outside
       /\ entries[i].body = "whole"
       /\ entries[i].path # Root => entries[i].type # "link" /\ entries[i].size <= MaxFileBytes
       /\ \A j \in DOMAIN entries : ~Clash(entries, i, j)
  /\ Cardinality(Files(entries)) \in 1..MaxFiles
  /\ Bytes(entries, Len(entries)) <= MaxTotalBytes

(* No archive makes the program write more than the limit and one byte; one that is          *)
(* accepted was sound, and all its files are there whole, none of them twice; one that          *)
(* is sound is accepted, unless a file comes when the limit is already reached.               *)
DirIsWhole(entries) ==
  LET x == ExtractTarGzDir(entries)
  IN /\ x.written <= MaxTotalBytes + 1
     /\ Outcome(x) = "ok" =>
          /\ Sound(entries)
          /\ x.files = Described(entries, Inside(entries))
          /\ x.total = Bytes(entries, Len(entries))
     /\ Sound(entries) /\ (\A i \in Inside(entries) : Bytes(entries, i - 1) < MaxTotalBytes) =>
          Outcome(x) = "ok"

(* The same of the one file that matches: there is one, in an archive that can be read        *)
(* to its end.                                                                 *)
Matches(entries) ==
  {i \in DOMAIN entries : entries[i].path \in Matching \ {Root} /\ entries[i].type # "dir"}

FileIsWhole(entries) ==
  LET x == ExtractTarGzFile(entries)
  IN /\ x.written <= MaxFileBytes + 1
     /\ Outcome(x) = "ok" <=>
          /\ Cardinality(Matches(entries)) = 1
          /\ \A i \in Matches(entries) :
               entries[i].type = "file" /\ entries[i].size <= MaxFileBytes
          /\ \A i \in DOMAIN entries :
               entries[i].type # "garbage" /\ entries[i].path # Outside /\ entries[i].body = "whole"
          /\ Cardinality(Files(entries)) <= MaxFiles
     /\ Outcome(x) = "ok" => x.files = Described(entries, Matches(entries))

DirsAreWhole  == \A entries \in Archives : DirIsWhole(entries)
FilesAreWhole == \A entries \in Archives : FileIsWhole(entries)
=============================================================================
