------------------------------- MODULE Updater ------------------------------
(***************************************************************************)
(* The updater (src/internal/update): the loop that keeps the downloaded    *)
(* sources and state.json up to date, across any number of restarts of the   *)
(* process.                                                                *)
(*                                                                         *)
(*   Start -> BeginSync -> RefreshSource* -> Promote -> SaveState -> Publish  *)
(*                 ^                                                  |      *)
(*                 +------------------ RunScheduled <-----------------+      *)
(*                                                                         *)
(* Each action is a stretch of code between two readings of the clock or two  *)
(* effects on the disk; Tick may come between any two of them.  The process   *)
(* may stop at any moment: a signal, a crash, or a fatal error of a refresh,   *)
(* which makes Run return and the program exit.                             *)
(*                                                                         *)
(* Promoting and removing artifacts is one step here, and a process that ends  *)
(* inside the commit may leave any part of it done.  StorageTxn takes the same *)
(* transaction apart, call by call.                                         *)
(***************************************************************************)
EXTENDS SyncSchedule, SourceState

CONSTANTS
  EnabledSets,   \* the values config sources.enabled may take at a start
  StartAts,      \* the values config full_sync.start_at_utc may take at a start
  FirstClock,    \* the clock when the program is installed
  MaxClock       \* bounds the clock for model checking

ASSUME ConfigAssumption ==
  /\ EnabledSets \subseteq SUBSET Source
  /\ StartAts \subseteq Time \ {Zero}
  /\ FirstClock \in Time \ {Zero}
  /\ MaxClock \in Nat

VARIABLES
  now,         \* the wall clock
  pc,          \* where the updater is
  enabled,     \* sources.enabled of the running process
  mem,         \* the state the running process works on
  stateFile,   \* whether state.json exists
  saved,       \* its contents
  files,       \* the sources whose artifact is in the data directory
  sync,        \* the sync in progress
  tornCommit   \* history: the last process ended inside a commit

vars == <<now, pc, enabled, mem, stateFile, saved, files, sync, tornCommit>>
disk == <<stateFile, saved, files>>

-----------------------------------------------------------------------------
(* The data *)

States == [schedule : Schedule, sources : [Source -> SourceStates]]

EmptyState ==
  [schedule |-> ZeroSchedule, sources |-> [i \in Source |-> ZeroSourceState]]

(* A refresh result, pending until the source's worker delivers it.           *)
Results == [outcome : Outcomes \cup {"pending"}, state : SourceStates]
PendingResult == [outcome |-> "pending", state |-> ZeroSourceState]

(* startedAt is the clock reading updateSources makes of its own, not the one    *)
(* that chose scope and ids.                                                  *)
Syncs ==
  [scope : Scopes, ids : SUBSET Source, startedAt : Time,
   results : [Source -> Results]]

NoResults == [i \in Source |-> PendingResult]
NewSync(scope, ids) ==
  [scope |-> scope, ids |-> ids, startedAt |-> Zero, results |-> NoResults]
NoSync == NewSync("startup", {})

PCs == {"down", "refused", "decided", "refreshing", "promoted",
        "publishing", "waiting"}

-----------------------------------------------------------------------------
(* Choosing the sources of a sync *)

Recorded(sources) == {i \in Source : sources[i].recorded}

(* availableSourceIDs *)
AvailableSources(on, sources) == {i \in on : IsAvailable(sources[i])}

FilterOutdated(on, sources) ==
  {i \in on : ~sources[i].recorded \/ sources[i].markedOutdatedAt = Zero}

NewEnabledSources(on, sources) == on \ Recorded(sources)

RefreshableFailedSources(on, sources) ==
  {i \in on : sources[i].recorded /\ HasRefreshableFailure(sources[i])}

(* runStartup *)
StartupSources(on, s, at) ==
  IF NeedsFullSync(s.schedule, at)
    THEN FilterOutdated(on, s.sources)
    ELSE NewEnabledSources(on, s.sources) \cup
           (IF NeedsRetrySync(s.schedule, at)
              THEN RefreshableFailedSources(on, s.sources) ELSE {})

-----------------------------------------------------------------------------
(* Loading the saved state *)

(* loadLocalState: an empty map of sources is left out of the file, so it       *)
(* reads back as nil and is refused; the rest is state.validate.               *)
Loadable(s) ==
  /\ Recorded(s.sources) # {}
  /\ ValidateSyncSchedule(s.schedule)
  /\ \A i \in Recorded(s.sources) : ValidateSourceState(s.sources[i])

Artifacts(s) == {i \in Source : s.sources[i].hasLocalArtifact}

(* validateSyncWithLocalSources *)
InSyncWithLocalSources(s, present) ==
  /\ present \subseteq Recorded(s.sources)
  /\ present = Artifacts(s)

(* loadStateForSync without its last lines; validateNoLocalSources when there   *)
(* is no state.                                                              *)
LoadSucceeds ==
  IF stateFile THEN Loadable(saved) /\ InSyncWithLocalSources(saved, files)
               ELSE files = {}

(* The last lines of loadStateForSync *)
WithFirstFullSync(s, startAt) ==
  IF s.schedule.nextFullSyncAt = Zero
    THEN [s EXCEPT !.schedule.nextFullSyncAt = startAt] ELSE s

-----------------------------------------------------------------------------
Init ==
  /\ now = FirstClock
  /\ pc = "down"
  /\ enabled = {}
  /\ mem = EmptyState
  /\ stateFile = FALSE
  /\ saved = EmptyState
  /\ files = {}
  /\ sync = NoSync
  /\ tornCommit = FALSE

Tick ==
  /\ now < MaxClock
  /\ now' = now + 1
  /\ UNCHANGED <<pc, enabled, mem, disk, sync, tornCommit>>

(* Run up to the choice made by runStartup.  The configuration may differ from  *)
(* that of earlier starts.                                                   *)
Start(on, startAt) ==
  LET s == WithFirstFullSync(IF stateFile THEN saved ELSE EmptyState, startAt)
  IN  /\ pc = "down"
      /\ LoadSucceeds
      /\ pc' = "decided"
      /\ enabled' = on
      /\ mem' = s
      /\ sync' = NewSync("startup", StartupSources(on, s, now))
      /\ tornCommit' = FALSE
      /\ UNCHANGED <<now, disk>>

(* Run returns the loader's error and the program exits; as the disk is left    *)
(* alone, so does every later start.                                         *)
Refuse ==
  /\ pc = "down"
  /\ ~LoadSucceeds
  /\ pc' = "refused"
  /\ UNCHANGED <<now, enabled, mem, disk, sync, tornCommit>>

(* updateSources reads the clock again and starts its workers.                *)
BeginSync ==
  /\ pc = "decided"
  /\ pc' = "refreshing"
  /\ sync' = [sync EXCEPT !.startedAt = now]
  /\ UNCHANGED <<now, enabled, mem, disk, tornCommit>>

(* One worker delivers the result of refreshWithRetries for source i, whose     *)
(* first failed attempt, if any, was at firstAt.                              *)
RefreshSource(i, outcome, firstAt) ==
  LET previous == mem.sources[i]
  IN  /\ pc = "refreshing"
      /\ i \in sync.ids
      /\ sync.results[i].outcome = "pending"
      /\ Possible(previous, outcome)
      /\ sync' = [sync EXCEPT !.results[i] =
                    [outcome |-> outcome,
                     state   |-> Refreshed(previous, outcome, firstAt, now)]]
      /\ UNCHANGED <<now, pc, enabled, mem, disk, tornCommit>>

Delivered(i) == sync.results[i].outcome # "pending"

(* The entry updateSources stores for source i.                              *)
NewEntry(i) ==
  LET result == sync.results[i]
      entry  == [result.state EXCEPT !.recorded = TRUE]
  IN  IF Success(result.outcome) THEN entry ELSE MarkOutdatedIfExpired(i, entry)

NewSources ==
  [i \in Source |-> IF i \in sync.ids THEN NewEntry(i) ELSE mem.sources[i]]

Promoted == {i \in sync.ids : sync.results[i].outcome = "downloaded"}
Removed ==
  {i \in sync.ids : NewSources[i].markedOutdatedAt # mem.sources[i].markedOutdatedAt}

(* updateSources from the loop over the results to the new schedule.           *)
Promote ==
  /\ pc = "refreshing"
  /\ \A i \in sync.ids : Delivered(i)
  /\ pc' = "promoted"
  /\ files' = (files \cup Promoted) \ Removed
  /\ mem' = [schedule |->
               UpdateSyncSchedule(
                 mem.schedule, sync.scope, sync.startedAt, now,
                 RefreshableFailedSources(enabled, NewSources) # {}),
             sources |-> NewSources]
  /\ UNCHANGED <<now, enabled, stateFile, saved, sync, tornCommit>>

(* saveStateJSON renames the new file into place, then finalize.               *)
SaveState ==
  /\ pc = "promoted"
  /\ pc' = "publishing"
  /\ stateFile' = TRUE
  /\ saved' = mem
  /\ UNCHANGED <<now, enabled, mem, files, sync, tornCommit>>

(* What ends a process, whichever way: its memory is gone.                     *)
Stop ==
  /\ pc' = "down"
  /\ enabled' = {}
  /\ mem' = EmptyState
  /\ sync' = NoSync

(* A faulty variant: an error leaves the promoted artifacts in place.           *)
NotRolledBack == files

(* The artifacts go back to where the transaction found them: what is in the    *)
(* directory is again what the unchanged state.json describes.                *)
RolledBack == IF stateFile THEN Artifacts(saved) ELSE {}

(* saveStateJSON fails before its rename: rollback, and Run returns the error.  *)
SaveFails ==
  /\ pc = "promoted"
  /\ files' = RolledBack
  /\ Stop
  /\ UNCHANGED <<now, stateFile, saved, tornCommit>>

(* The directory with only a part of the commit done, or undone: a source it     *)
(* touches has its artifact, or has it moved aside.                           *)
Touched == Promoted \cup (Artifacts(saved) \ Artifacts(mem))
PartOfCommit == {present \in SUBSET Source : present \ Touched = files \ Touched}

(* The process ends inside the commit before state.json is replaced: a crash, or  *)
(* an error whose rollback fails in turn.                                     *)
Cut(present) ==
  /\ pc = "promoted"
  /\ present \in PartOfCommit
  /\ files' = present
  /\ tornCommit' = TRUE
  /\ Stop
  /\ UNCHANGED <<now, stateFile, saved>>

(* saveStateJSON fails after its rename, opening or syncing the directory: the   *)
(* new state.json stays while rollback moves the artifacts back.               *)
SaveFailsLate(present) ==
  /\ pc = "promoted"
  /\ present \in PartOfCommit
  /\ files' = present
  /\ stateFile' = TRUE
  /\ saved' = mem
  /\ tornCommit' = TRUE
  /\ Stop
  /\ UNCHANGED now

(* sendSyncEvent: the manager takes the event.                                *)
Publish ==
  /\ pc = "publishing"
  /\ pc' = "waiting"
  /\ sync' = NoSync
  /\ UNCHANGED <<now, enabled, mem, disk, tornCommit>>

(* waitForNextSync returns at the earliest due time; runScheduled reads the      *)
(* clock and chooses.                                                        *)
RunScheduled ==
  LET full == NeedsFullSync(mem.schedule, now)
  IN  /\ pc = "waiting"
      /\ now >= NextSyncAt(mem.schedule)
      /\ full \/ NeedsRetrySync(mem.schedule, now)
      /\ pc' = "decided"
      /\ sync' = IF full
                   THEN NewSync("full", FilterOutdated(enabled, mem.sources))
                   ELSE NewSync("partial",
                                RefreshableFailedSources(enabled, mem.sources))
      /\ UNCHANGED <<now, enabled, mem, disk, tornCommit>>

(* The process ends outside a commit.                                         *)
Exit ==
  /\ pc \notin {"down", "refused", "promoted"}
  /\ Stop
  /\ UNCHANGED <<now, disk, tornCommit>>

Next ==
  \/ Tick
  \/ \E on \in EnabledSets, startAt \in StartAts : Start(on, startAt)
  \/ Refuse
  \/ BeginSync
  \/ \E i \in Source, outcome \in Outcomes, firstAt \in sync.startedAt..now :
       RefreshSource(i, outcome, firstAt)
  \/ Promote
  \/ SaveState
  \/ SaveFails
  \/ \E present \in SUBSET Source : Cut(present) \/ SaveFailsLate(present)
  \/ Publish
  \/ RunScheduled
  \/ Exit

Spec == Init /\ [][Next]_vars

(* While the process lives its goroutine is scheduled, every refresh ends (the  *)
(* HTTP client has a timeout) and the manager takes the event; nothing forces   *)
(* the clock to pass a bound, an operator to restart, or the process to end.    *)
Fairness ==
  WF_vars(\/ BeginSync \/ Promote \/ SaveState \/ Publish \/ RunScheduled
          \/ \E i \in Source, outcome \in Outcomes : RefreshSource(i, outcome, now))

FairSpec == Spec /\ Fairness

-----------------------------------------------------------------------------
(* Properties *)

TypeOK ==
  /\ now \in Time
  /\ pc \in PCs
  /\ enabled \subseteq Source
  /\ mem \in States
  /\ stateFile \in BOOLEAN
  /\ saved \in States
  /\ files \subseteq Source
  /\ sync \in Syncs
  /\ tornCommit \in BOOLEAN

(* Whatever sequence of syncs, failures and restarts wrote state.json, the      *)
(* loader's validation (state.validate, "nil sources map") accepts it.          *)
SavedStateLoads == stateFile => Loadable(saved)

(* A start is refused only if the process before it ended inside a commit: no    *)
(* order of failures, removals, restarts and earlier cuts outside that window    *)
(* makes state.json and the data directory disagree.                          *)
RefusedOnlyAfterTornCommit == pc = "refused" => tornCommit

(* The sources an event names as available are exactly the enabled ones whose    *)
(* artifact is in the directory the manager loads from.                        *)
AvailableMatchesFiles ==
  pc \in {"publishing", "waiting"}
    => AvailableSources(enabled, mem.sources) = enabled \cap files

(* A copy is given up only when its source may be outdated, and only after more  *)
(* than the outdated interval without a successful check.                      *)
OutdatedIsJustified ==
  \A i \in Source :
    LET st == saved.sources[i]
    IN  st.markedOutdatedAt # Zero =>
          /\ i \notin Required
          /\ OutdatedAfter[i] # 0
          /\ st.markedOutdatedAt > st.lastSuccessAt + OutdatedAfter[i]

(* An optional copy whose checks keep failing is not served past the interval:    *)
(* no check more than the interval after the first failure leaves it in place.   *)
ExpiredCopyIsDropped ==
  \A i \in Source \ Required :
    LET st == saved.sources[i]
    IN  st.hasLocalArtifact /\ st.firstFailureAt # Zero /\ OutdatedAfter[i] # 0
          => st.lastCheckedAt <= st.firstFailureAt + OutdatedAfter[i]

(* The copy of a required source, once committed, never leaves the directory,     *)
(* however long its refreshes fail and whatever rollback or restart happens; only *)
(* a process that ends inside a commit may have moved it aside.                 *)
RequiredCopyKept ==
  [][\A i \in Required :
       i \in files /\ saved.sources[i].hasLocalArtifact /\ ~tornCommit'
         => i \in files']_vars

(* A source marked outdated is out of every later sync: its entry never changes.  *)
OutdatedIsFinal ==
  [][\A i \in Source :
       saved.sources[i].markedOutdatedAt # Zero
         => saved'.sources[i] = saved.sources[i]]_vars

(* The updater implements CopyLedger: through all its failures and restarts the    *)
(* durable state only ever moves a source from no copy to a copy, and an optional  *)
(* one from a copy to outdated, all the sources of a sync at once.              *)
CopyOf(st) ==
  IF st.markedOutdatedAt # Zero THEN "outdated"
  ELSE IF st.hasLocalArtifact THEN "held" ELSE "none"

Ledger == INSTANCE CopyLedger WITH copy <- [i \in Source |-> CopyOf(saved.sources[i])]

KeepsLedger == Ledger!Spec

(* After a sync a retry is scheduled exactly for a failure that a retry can        *)
(* help, and one is missing only when the full sync comes before it.            *)
RetryMatchesFailures ==
  pc = "publishing" =>
    LET failures == RefreshableFailedSources(enabled, mem.sources)
        s        == mem.schedule
    IN  /\ s.nextRetrySyncAt # Zero => failures # {}
        /\ failures # {} /\ s.nextRetrySyncAt = Zero
             => s.nextFullSyncAt <= now + RetryLadder[1]

(* A finished sync never leaves another one already due when it started, so the   *)
(* loop of Run does not spin.                                                *)
NextSyncIsLater ==
  pc = "publishing" => NextSyncAt(mem.schedule) > sync.startedAt

(* A due sync of a process that stays up is carried out; by NextSyncIsLater the next    *)
(* one is then due later.                                                      *)
DueSyncRuns ==
  (pc = "waiting" /\ now >= NextSyncAt(mem.schedule)) ~> (pc \in {"publishing", "down"})
=============================================================================
