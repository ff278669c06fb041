----------------------------- MODULE SourceSync -----------------------------
(***************************************************************************)
(* One sync of the updater after another, each a refresh (RefreshPool) and a    *)
(* commit (StorageTxn), in one process or, after an error or a crash, in the     *)
(* next: what the servers have, what the disk has and what state.json says it     *)
(* has (src/internal/update: updateSources, refreshSources, loadStateForSync).   *)
(*                                                                         *)
(* Which sources a sync wants is the business of the schedule (Updater): here     *)
(* any that are not given up.  What earlier syncs left under .update is not        *)
(* followed: its names are random and nothing reads it.                        *)
(***************************************************************************)
EXTENDS RefreshPool

CONSTANT MaxSyncs   \* bound: the syncs of a behaviour

ASSUME SyncsAssumption == MaxSyncs \in Nat

VARIABLES
  doubtful,   \* history: the sources whose copy was put back under a newer state.json
  syncs       \* how many syncs have begun

syncVars == <<vars, inputs, pool, doubtful, syncs>>

(* What state.json says of a source.                                            *)
Held == IF state = "new" THEN (had \cup promotes) \ removes ELSE had

(* A faulty variant: the headers of an answer are kept though its body was refused.    *)
EtagOfAnswer(i) == IF state = "new" /\ job[i].got # 0 THEN job[i].got ELSE etag[i]

(* newOKSourceState; every other outcome keeps the headers of the last download.      *)
EtagOf(i) == IF state = "new" /\ i \in promotes THEN job[i].got ELSE etag[i]

(* What the data directory has.                                                *)
Version(i) == CASE data[i] = "none" -> 0 [] data[i] = "old" -> copy[i] [] data[i] = "new" -> job[i].got

Present == {i \in Source : data[i] # "none"}

(* filterOutdated: a source that was given up is not asked for again.  One without an   *)
(* artifact that has an ETag is such a source.                                    *)
GivenUp(held, tag) == {i \in Source \ held : tag[i] # 0}

Begin(ids) ==
  /\ wanted' = ids
  /\ job' = NewJobs(ids)
  /\ archives' = {} /\ temps' = {} /\ cancelled' = FALSE
  /\ promotes' = {} /\ removes' = {} /\ todo' = {} /\ logged' = {} /\ broken' = {}
  /\ spare' = {} /\ current' = NoSource
  /\ state' = "old" /\ step' = "refresh" /\ verdict' = "open"

(* Earlier syncs have left some sources with a copy, and given some up.              *)
SyncInit ==
  /\ had \in SUBSET Source
  /\ etag \in {[i \in Source |-> IF i \in had \cup gone THEN 1 ELSE 0] : gone \in SUBSET Source}
  /\ copy = [i \in Source |-> IF i \in had THEN 1 ELSE 0]
  /\ \A i \in Required : etag[i] = copy[i]
  /\ server = [i \in Source |-> 1]
  /\ data = [i \in Source |-> Before(i)]
  /\ wanted \in SUBSET (Source \ GivenUp(had, etag))
  /\ job = NewJobs(wanted)
  /\ archives = {} /\ temps = {} /\ cancelled = FALSE
  /\ promotes = {} /\ removes = {} /\ todo = {} /\ logged = {} /\ broken = {}
  /\ spare = {} /\ current = NoSource
  /\ state = "old" /\ step = "refresh" /\ verdict = "open"
  /\ doubtful = {} /\ syncs = 1

Over == step \in {"ended", "crashed"}

(* The next sync, on what this one left.                                         *)
NextSync ==
  /\ syncs < MaxSyncs /\ syncs' = syncs + 1
  /\ had' = Held
  /\ etag' = [i \in Source |-> EtagOf(i)]
  /\ copy' = [i \in Source |-> Version(i)]
  /\ data' = [i \in Source |-> IF i \in Present THEN "old" ELSE "none"]
  /\ doubtful' = doubtful \ {i \in Source : data[i] = "new"}
  /\ \E ids \in SUBSET (Source \ GivenUp(had', etag')) : Begin(ids)
  /\ UNCHANGED server

(* The same process goes on after a commit without an error.                       *)
Continue == step = "ended" /\ verdict = "done" /\ NextSync

(* A process ended, as it does after an error, and the next one finds the data         *)
(* directory as state.json says.                                                *)
Restart == Over /\ Present = Held /\ NextSync

(* It does not (validateSyncWithLocalSources): somebody has to look into it.           *)
Refuse ==
  /\ Over /\ Present # Held
  /\ step' = "refused"
  /\ UNCHANGED <<plan, store, current, todo, logged, broken, verdict, inputs, pool, doubtful, syncs>>

(* A commit that has replaced state.json and rolls back puts older bytes under it.       *)
Commit ==
  /\ Run
  /\ doubtful' = IF step = "saved" /\ step' = "rollback" THEN doubtful \cup promotes ELSE doubtful
  /\ UNCHANGED <<inputs, pool, syncs>>

SyncCrash == step # "refused" /\ Crash /\ UNCHANGED <<inputs, pool, doubtful, syncs>>

Refresh == PoolStep /\ UNCHANGED <<doubtful, syncs>>

Environment ==
  (Cancel \/ \E i \in Source : Publish(i)) /\ UNCHANGED <<doubtful, syncs>>

SyncNext == Refresh \/ Commit \/ Environment \/ SyncCrash \/ Continue \/ Restart \/ Refuse

SyncSpec == SyncInit /\ [][SyncNext]_syncVars

(* Requests and calls on the file system return, timers fire, goroutines run.            *)
FairSync == SyncSpec /\ WF_syncVars(Refresh \/ Commit)

-----------------------------------------------------------------------------
(* Properties *)

(* A commit starts with the result of every source that was asked for, none of them      *)
(* cut short by the end of the program, and in the state the proofs about commits         *)
(* start from: state.json and the data directory agree, and .update holds the downloads    *)
(* to promote and nothing else.                                                  *)
PoolHandsOver ==
  [][Refreshing /\ step' = "next" =>
       Init' /\ archives' = {} /\ \A i \in wanted : job[i].at \in Answered]_syncVars

(* After a sync without an error every source that answered, with a body or with 304,       *)
(* has on the disk what its server had then; the others are as they were or given up;         *)
(* and state.json says which are there.  The one exception: a copy that a failed commit         *)
(* put back under a newer state.json.                                            *)
SyncIsComplete ==
  step = "ended" /\ verdict = "done" =>
    /\ Held = Present
    /\ \A i \in Source :
         CASE i \in removes -> Version(i) = 0
           [] job[i].at = "changed" -> Version(i) = job[i].got
           [] job[i].at = "unmodified" -> Version(i) = job[i].got \/ i \in doubtful
           [] OTHER -> Version(i) = copy[i]

(* A sync that ended, with or without an error, in the refresh or in the commit, leaves     *)
(* nothing of itself under .update but what it tried and failed to remove.                *)
UpdateDirTidy ==
  step = "ended" => archives = {} /\ (spare \cup temps) \subseteq broken

(* Whatever archive a job is about to extract is extracted whole and within the limits, or   *)
(* refused, and no sound one is refused: off by one, a file more or less, or a byte too        *)
(* many, would be easy.                                                         *)
ArchivesExtractWhole ==
  /\ \A i \in Directories : job[i].at = "body" => DirsAreWhole
  /\ \A i \in MaxMind : job[i].at = "unpack" => FilesAreWhole

(* Every sync ends, whatever the servers answer and whichever calls fail: the attempts       *)
(* are bounded, no worker waits for a job that does not come, no commit gets stuck.          *)
SyncEnds == []<>(step \in {"ended", "crashed", "refused"})
=============================================================================
