----------------------------- MODULE StorageTxn -----------------------------
(***************************************************************************)
(* One commit of the updater, file by file (src/internal/update:             *)
(* artifact_txn.go, saveStateJSON, the loop of updateSources).               *)
(*                                                                         *)
(* Each artifact of a sync is moved into place or out of the way, with the    *)
(* copy it replaces kept under .update; then state.json is replaced; then the  *)
(* kept copies are deleted, or, after an error, put back.  Every call may fail  *)
(* and the process may end between any two of them.                          *)
(*                                                                         *)
(* What survives is what the calls did: writes that the kernel loses with the   *)
(* machine are not modelled, so a failed fsync matters only as an error.       *)
(***************************************************************************)
EXTENDS Naturals

CONSTANTS
  Source,      \* the sources of the sync and of earlier ones
  NoSource     \* no source is in hand

ASSUME NoSourceAssumption == NoSource \notin Source

VARIABLES
  had,        \* the sources state.json gives an artifact when the commit starts
  promotes,   \* the sources downloaded by the sync
  removes,    \* the sources the sync marks outdated
  data,       \* what the data directory holds for each source; a directory that
              \* RemoveAll has deleted in part counts as there
  spare,      \* the sources whose old copy is under .update
  temps,      \* the sources whose download is still under .update
  state,      \* which state.json is in place
  step,       \* where the code is
  current,    \* the source in hand
  todo,       \* the results the loop has not handled
  logged,     \* the sources with an undo in the transaction
  broken,     \* history: the sources whose undo or clean-up failed
  verdict     \* what updateSources will return

plan  == <<had, promotes, removes>>
store == <<data, spare, temps, state>>
vars  == <<plan, store, step, current, todo, logged, broken, verdict>>

Steps == {"next", "aside", "putBack", "place", "placed", "saved", "finalize",
          "rollback", "restore", "cleanup", "ended", "crashed"}

Before(i) == IF i \in had THEN "old" ELSE "none"
After(i) == IF i \in promotes THEN "new" ELSE IF i \in removes THEN "none" ELSE Before(i)

-----------------------------------------------------------------------------
(* A source is downloaded or given up, not both, and only one that has an        *)
(* artifact is given up (markOutdatedIfExpired).  The data directory agrees with  *)
(* state.json: the loader or the last commit saw to it.                         *)
Init ==
  /\ had \in SUBSET Source
  /\ promotes \in SUBSET Source
  /\ removes \in SUBSET (had \ promotes)
  /\ data = [i \in Source |-> Before(i)]
  /\ spare = {}
  /\ temps = promotes
  /\ state = "old"
  /\ step = "next"
  /\ current = NoSource
  /\ todo = promotes \cup removes
  /\ logged = {}
  /\ broken = {}
  /\ verdict = "open"

(* An error path tries to remove the download of source i at once.               *)
DropTemp(i) == temps' \in {temps, temps \ {i}}

(* A faulty variant: the undo is logged before the artifact has been moved.       *)
LogsUndoTooSoon(i) ==
  /\ step = "next"
  /\ i \in todo
  /\ step' = "rollback"
  /\ logged' = logged \cup {i}
  /\ DropTemp(i)
  /\ UNCHANGED <<plan, data, spare, state, current, todo, broken, verdict>>

(* An error before anything is moved: MkdirAll, Stat, newRollbackPath or the       *)
(* rename of moveSourceToRollback.                                            *)
PrepareFails(i) ==
  /\ step = "next"
  /\ i \in todo
  /\ step' = "rollback"
  /\ DropTemp(i)
  /\ UNCHANGED <<plan, data, spare, state, current, todo, logged, broken, verdict>>

(* moveSourceToRollback finds an artifact and renames it.                       *)
MoveAside(i) ==
  /\ step = "next"
  /\ i \in todo
  /\ data[i] # "none"
  /\ step' = "aside"
  /\ current' = i
  /\ todo' = todo \ {i}
  /\ data' = [data EXCEPT ![i] = "none"]
  /\ spare' = spare \cup {i}
  /\ UNCHANGED <<plan, temps, state, logged, broken, verdict>>

(* moveSourceToRollback finds none, and promoteArtifact goes on.                 *)
NothingToMove(i) ==
  /\ step = "next"
  /\ i \in todo
  /\ data[i] = "none"
  /\ step' = "place"
  /\ current' = i
  /\ todo' = todo \ {i}
  /\ logged' = logged \cup {i}
  /\ UNCHANGED <<plan, store, broken, verdict>>

(* The directories are synced: the undo is logged.                             *)
LogUndo ==
  /\ step = "aside"
  /\ step' = IF current \in promotes THEN "place" ELSE "next"
  /\ logged' = logged \cup {current}
  /\ UNCHANGED <<plan, store, current, todo, broken, verdict>>

(* They are not: moveSourceToRollback itself puts the artifact back.             *)
AsideSyncFails ==
  /\ step = "aside"
  /\ step' = "putBack"
  /\ UNCHANGED <<plan, store, current, todo, logged, broken, verdict>>

(* restoreSourceFromRollback, in moveSourceToRollback (putBack) or in an undo.     *)
Restore ==
  /\ step \in {"putBack", "restore"}
  /\ step' = "rollback"
  /\ data' = [data EXCEPT ![current] = "old"]
  /\ spare' = spare \ {current}
  /\ IF step = "putBack" THEN DropTemp(current) ELSE UNCHANGED temps
  /\ UNCHANGED <<plan, state, current, todo, logged, broken, verdict>>

RestoreFails ==
  /\ step \in {"putBack", "restore"}
  /\ step' = "rollback"
  /\ broken' = broken \cup {current}
  /\ IF step = "putBack" THEN DropTemp(current) ELSE UNCHANGED temps
  /\ UNCHANGED <<plan, data, spare, state, current, todo, logged, verdict>>

(* The download is renamed into place.                                        *)
Place ==
  /\ step = "place"
  /\ step' = "placed"
  /\ data' = [data EXCEPT ![current] = "new"]
  /\ temps' = temps \ {current}
  /\ UNCHANGED <<plan, spare, state, current, todo, logged, broken, verdict>>

(* It is not: promoteArtifact rolls everything back itself.                     *)
PlaceFails ==
  /\ step = "place"
  /\ step' = "rollback"
  /\ DropTemp(current)
  /\ UNCHANGED <<plan, data, spare, state, current, todo, logged, broken, verdict>>

(* syncStorageDirs ends promoteArtifact; on an error updateSources rolls back.     *)
PlaceSynced ==
  /\ step = "placed"
  /\ step' \in {"next", "rollback"}
  /\ UNCHANGED <<plan, store, current, todo, logged, broken, verdict>>

(* saveStateJSON up to the rename of the new file.                             *)
SaveState ==
  /\ step = "next"
  /\ todo = {}
  /\ step' = "saved"
  /\ state' = "new"
  /\ UNCHANGED <<plan, data, spare, temps, current, todo, logged, broken, verdict>>

SaveFails ==
  /\ step = "next"
  /\ todo = {}
  /\ step' = "rollback"
  /\ UNCHANGED <<plan, store, current, todo, logged, broken, verdict>>

(* saveStateJSON opens and syncs the directory; on an error updateSources rolls   *)
(* the artifacts back, whatever state.json is in place.                        *)
SaveSynced ==
  /\ step = "saved"
  /\ step' \in {"finalize", "rollback"}
  /\ UNCHANGED <<plan, store, current, todo, logged, broken, verdict>>

-----------------------------------------------------------------------------
(* finalize: one finalizer for each old copy; a failure is logged and passed over. *)
Finalize(i) ==
  /\ step = "finalize"
  /\ i \in logged \cap spare
  /\ logged' = logged \ {i}
  /\ \/ spare' = spare \ {i} /\ UNCHANGED broken
     \/ broken' = broken \cup {i} /\ UNCHANGED spare
  /\ UNCHANGED <<plan, data, temps, state, step, current, todo, verdict>>

FinalizeDone ==
  /\ step = "finalize"
  /\ logged \cap spare = {}
  /\ step' = "cleanup"
  /\ logged' = {}
  /\ verdict' = "done"
  /\ UNCHANGED <<plan, store, current, todo, broken>>

(* rollback: one undo for each logged source.  They touch different files, so the   *)
(* model takes them in any order, the code last in first out.                   *)
Undo(i) ==
  /\ step = "rollback"
  /\ i \in logged
  /\ logged' = logged \ {i}
  /\ current' = i
  /\ step' = IF i \in spare THEN "restore" ELSE "rollback"
  /\ data' = [data EXCEPT ![i] = IF i \in promotes THEN "none" ELSE @]
  /\ UNCHANGED <<plan, spare, temps, state, todo, broken, verdict>>

(* A faulty variant: the first undo that fails ends the rollback.               *)
UndoFailsAndStops(i) ==
  /\ step = "rollback"
  /\ i \in logged \cap promotes
  /\ logged' = {}
  /\ broken' = broken \cup {i}
  /\ UNCHANGED <<plan, store, step, current, todo, verdict>>

(* RemoveAll of a promoted artifact fails: its undo ends there, the others go on.   *)
UndoFails(i) ==
  /\ step = "rollback"
  /\ i \in logged \cap promotes
  /\ logged' = logged \ {i}
  /\ broken' = broken \cup {i}
  /\ UNCHANGED <<plan, store, step, current, todo, verdict>>

RollbackDone ==
  /\ step = "rollback"
  /\ logged = {}
  /\ step' = "cleanup"
  /\ verdict' = "failed"
  /\ UNCHANGED <<plan, store, current, todo, logged, broken>>

(* The deferred cleanupRefreshTemps, which ignores its errors.                   *)
Cleanup ==
  /\ step = "cleanup"
  /\ step' = "ended"
  /\ \E left \in SUBSET temps : temps' = left /\ broken' = broken \cup left
  /\ UNCHANGED <<plan, data, spare, state, current, todo, logged, verdict>>

Crash ==
  /\ step \notin {"ended", "crashed"}
  /\ step' = "crashed"
  /\ UNCHANGED <<plan, store, current, todo, logged, broken, verdict>>

Run ==
  \/ \E i \in Source :
       PrepareFails(i) \/ MoveAside(i) \/ NothingToMove(i)
         \/ Finalize(i) \/ Undo(i) \/ UndoFails(i)
  \/ LogUndo \/ AsideSyncFails \/ Restore \/ RestoreFails
  \/ Place \/ PlaceFails \/ PlaceSynced
  \/ SaveState \/ SaveFails \/ SaveSynced
  \/ FinalizeDone \/ RollbackDone \/ Cleanup

Next == Run \/ Crash

Spec == Init /\ [][Next]_vars

-----------------------------------------------------------------------------
(* Properties *)

TypeOK ==
  /\ had \subseteq Source /\ promotes \subseteq Source /\ removes \subseteq Source
  /\ data \in [Source -> {"none", "old", "new"}]
  /\ spare \subseteq Source /\ temps \subseteq Source
  /\ state \in {"old", "new"}
  /\ step \in Steps
  /\ current \in Source \cup {NoSource}
  /\ step \in {"aside", "putBack", "place", "placed", "restore"} => current \in Source
  /\ todo \subseteq Source /\ logged \subseteq Source /\ broken \subseteq Source
  /\ verdict \in {"open", "done", "failed"}

(* Until state.json is replaced the old bytes of every artifact are on the disk, in  *)
(* the data directory or under .update: no failure of a call, no failure of the     *)
(* rollback after it and no crash loses one.                                    *)
OldCopyKept ==
  state = "old" => \A i \in had : data[i] = "old" \/ i \in spare

(* A commit that returned an error left in the data directory what it found there,   *)
(* for every source whose own undo succeeded: an undo that fails spoils no other.   *)
RollbackIsExact ==
  step = "ended" /\ verdict = "failed"
    => \A i \in Source \ broken : data[i] = Before(i)

(* A commit that returned no error did everything its results asked for, and saved   *)
(* the state that says so.                                                     *)
CommitIsComplete ==
  verdict = "done" => state = "new" /\ \A i \in Source : data[i] = After(i)

(* A commit that ended, either way, leaves nothing of itself under .update but what  *)
(* it tried and failed to delete or put back.                                   *)
NothingLeftBehind ==
  step = "ended" => (spare \cup temps) \subseteq broken

(* What validateSyncWithLocalSources requires of a data directory and state.json    *)
(* ("source expected to be present locally"), after a commit without a failed undo.  *)
StoreLoads ==
  step = "ended" /\ broken = {} =>
    {i \in Source : data[i] # "none"} =
      IF state = "new" THEN (had \cup promotes) \ removes ELSE had
=============================================================================
