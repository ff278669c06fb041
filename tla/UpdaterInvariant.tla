-------------------------- MODULE UpdaterInvariant --------------------------
(***************************************************************************)
(* The inductive invariant of Updater: what makes each of its safety         *)
(* properties survive every step.  It holds for the configurations in which   *)
(* start_at_utc is not ahead of the clock (MCUpdaterFutureStart.cfg shows what  *)
(* happens otherwise) and some source is enabled: without any, state.json is     *)
(* saved without its sources key, which the loader refuses.                  *)
(***************************************************************************)
EXTENDS Updater

ASSUME StartAssumption == \A t \in StartAts : t <= FirstClock
ASSUME EnabledAssumption == {} \notin EnabledSets

Up == pc \notin {"down", "refused"}
Deciding == pc \in {"decided", "refreshing"}
Settled == pc \in {"publishing", "waiting"}

-----------------------------------------------------------------------------
(* One entry of state.Sources *)

(* The times of an entry are in order and none is ahead of time t.              *)
EntryInOrder(st, t) ==
  /\ ValidateSourceState(st)
  /\ st.lastCheckedAt <= t
  /\ st.firstFailureAt # Zero =>
       /\ st.lastSuccessAt <= st.firstFailureAt
       /\ st.firstFailureAt <= st.lastCheckedAt

(* A stored entry is a key of the map unless it is blank, is marked outdated only *)
(* with reason, and never keeps a copy beyond its interval.                     *)
Outdated(i, st) ==
  /\ i \notin Required
  /\ OutdatedAfter[i] # 0
  /\ st.markedOutdatedAt > st.lastSuccessAt + OutdatedAfter[i]

CopyWithinInterval(i, st) ==
  i \notin Required /\ st.hasLocalArtifact
    /\ st.firstFailureAt # Zero /\ OutdatedAfter[i] # 0
      => st.lastCheckedAt <= st.firstFailureAt + OutdatedAfter[i]

StoredEntry(i, st) ==
  /\ st.hasLocalArtifact => st.recorded
  /\ st.markedOutdatedAt # Zero => st.recorded
  /\ st.markedOutdatedAt # Zero => Outdated(i, st)
  /\ CopyWithinInterval(i, st)

(* A delivered result relates to the entry the sync started from.               *)
ResultFollows(st, result) ==
  /\ Success(result.outcome) => result.state.firstFailureAt = Zero
  /\ IF result.outcome = "downloaded"
       THEN result.state.hasLocalArtifact /\ result.state.markedOutdatedAt = Zero
       ELSE /\ result.state.hasLocalArtifact = st.hasLocalArtifact
            /\ result.state.markedOutdatedAt = st.markedOutdatedAt

-----------------------------------------------------------------------------
(* The invariant, by what it is about *)

ClockInv ==
  /\ FirstClock <= now
  /\ pc \in {"refreshing", "promoted"} =>
       FirstClock <= sync.startedAt /\ sync.startedAt <= now
  /\ pc = "refreshing" =>
       \A i \in Source : mem.sources[i].lastCheckedAt <= sync.startedAt

EntriesInv ==
  \A i \in Source :
    /\ EntryInOrder(mem.sources[i], now) /\ StoredEntry(i, mem.sources[i])
    /\ EntryInOrder(saved.sources[i], now) /\ StoredEntry(i, saved.sources[i])

ResultsInv ==
  Deciding => \A i \in Source : Delivered(i) =>
    /\ EntryInOrder(sync.results[i].state, now)
    /\ ResultFollows(mem.sources[i], sync.results[i])

(* No sync touches a source that is marked outdated.                           *)
ChosenInv ==
  Deciding => \A i \in sync.ids : mem.sources[i].markedOutdatedAt = Zero

(* The schedule in memory is one the loader accepts, and until the first full      *)
(* sync is recorded a full sync is due.                                        *)
ScheduleInv ==
  /\ Up =>
       /\ ValidateSyncSchedule(mem.schedule)
       /\ mem.schedule.nextFullSyncAt # Zero
       /\ mem.schedule.lastFullSyncAt = Zero =>
            mem.schedule.nextFullSyncAt <= FirstClock
  /\ pc \in {"promoted", "publishing", "waiting"} =>
       mem.schedule.lastFullSyncAt # Zero
  /\ pc \in {"promoted", "publishing"} => sync.startedAt < NextSyncAt(mem.schedule)
  /\ stateFile =>
       /\ ValidateSyncSchedule(saved.schedule)
       /\ saved.schedule.nextFullSyncAt # Zero
       /\ saved.schedule.lastFullSyncAt # Zero

(* The map of sources never goes, or stays, empty through a commit.              *)
RecordedInv ==
  /\ Deciding => sync.ids # {} \/ Recorded(mem.sources) # {}
  /\ pc \in {"promoted", "publishing", "waiting"} => Recorded(mem.sources) # {}
  /\ stateFile => Recorded(saved.sources) # {}

(* Memory is what the disk says except inside a commit, and inside it a source     *)
(* that was marked outdated is left alone and the others move as CopyLedger says.  *)
MemoryInv ==
  /\ ~stateFile => saved = EmptyState
  /\ Deciding \/ Settled => mem.sources = saved.sources
  /\ pc = "promoted" => \A i \in Source :
       /\ saved.sources[i].markedOutdatedAt # Zero => mem.sources[i] = saved.sources[i]
       /\ Ledger!MayBecome(i, CopyOf(saved.sources[i]), CopyOf(mem.sources[i]))

(* The data directory holds the artifacts state.json describes, or inside a commit *)
(* those of the state about to be saved; a start that the loader accepts makes up  *)
(* for a commit cut short before it.                                           *)
FilesInv ==
  /\ Up => ~tornCommit
  /\ ~tornCommit => files = Artifacts(IF pc = "promoted" THEN mem ELSE saved)

IInv ==
  /\ ClockInv
  /\ EntriesInv
  /\ ResultsInv
  /\ ChosenInv
  /\ ScheduleInv
  /\ RecordedInv
  /\ MemoryInv
  /\ FilesInv
  /\ RefusedOnlyAfterTornCommit

(* A full sync is due from its choice to its commit, so that the ladder of its     *)
(* retries starts at the bottom; and from the commit on the retry, if one is set,   *)
(* is for a failure, and if none is, the full sync comes first.                  *)
RetryFits ==
  LET failures == RefreshableFailedSources(enabled, mem.sources)
      s        == mem.schedule
  IN  /\ s.nextRetrySyncAt # Zero => failures # {}
      /\ failures # {} /\ s.nextRetrySyncAt = Zero
           => s.nextFullSyncAt <= now + RetryLadder[1]

RetryInv ==
  /\ sync.scope = "full" =>
       /\ pc = "decided" => NeedsFullSync(mem.schedule, now)
       /\ pc = "refreshing" => NeedsFullSync(mem.schedule, sync.startedAt)
  /\ pc \in {"promoted", "publishing"} => RetryFits
=============================================================================
