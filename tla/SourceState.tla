----------------------------- MODULE SourceState ----------------------------
(***************************************************************************)
(* What state.json records about one source, and how the outcome of a       *)
(* refresh changes it (src/internal/update/source_state.go, http.go,         *)
(* refresh.go, sync.go, state_validation.go).                                *)
(*                                                                         *)
(* The list of consecutive errors is abstracted to the time of its first     *)
(* entry, firstFailureAt, Zero when the list is empty: it is all that the    *)
(* updater ever reads back from the list.  The freshness headers are left    *)
(* to the storage model, where they matter.                                 *)
(***************************************************************************)
EXTENDS Times, FiniteSets

CONSTANTS
  Source,          \* the sources of the catalogue
  Required,        \* those the dataset cannot load without: dataset.RequiresSource
  OutdatedAfter    \* Definition.OutdatedInterval, 0 for a source that has none

ASSUME SourceAssumption ==
  /\ Required \subseteq Source
  /\ OutdatedAfter \in [Source -> Nat]

(* recorded: the source is a key of the map state.Sources.  Reading a key     *)
(* that is not there yields Go's zero value, so the map is a total function.  *)
SourceStates ==
  [recorded : BOOLEAN, hasLocalArtifact : BOOLEAN,
   lastCheckedAt : Time, lastSuccessAt : Time, lastDownloadedAt : Time,
   markedOutdatedAt : Time, retryableFailure : BOOLEAN, firstFailureAt : Time]

ZeroSourceState ==
  [recorded |-> FALSE, hasLocalArtifact |-> FALSE,
   lastCheckedAt |-> Zero, lastSuccessAt |-> Zero, lastDownloadedAt |-> Zero,
   markedOutdatedAt |-> Zero, retryableFailure |-> FALSE, firstFailureAt |-> Zero]

-----------------------------------------------------------------------------
(* One refresh of one source *)

(* How refreshHTTPSource ends:                                              *)
(*   notModified  status 304                                                *)
(*   downloaded   status 200, artifact and freshness headers accepted        *)
(*   retryable    network or download error, status 408, 429 or >= 500,      *)
(*                rejected content                                          *)
(*   permanent    other status, missing credentials, freshness headers       *)
(*                missing or malformed                                      *)
Outcomes == {"notModified", "downloaded", "retryable", "permanent"}
Success(outcome) == outcome \in {"notModified", "downloaded"}

(* A 304 answers a conditional request, and the request is conditional only   *)
(* when there is a local artifact.                                          *)
Possible(st, outcome) == outcome = "notModified" => st.hasLocalArtifact

(* newNotModifiedSourceState *)
NewNotModifiedSourceState(previous, at) ==
  [previous EXCEPT !.lastCheckedAt = at, !.lastSuccessAt = at,
                   !.retryableFailure = FALSE, !.firstFailureAt = Zero]

(* newOKSourceState *)
NewOKSourceState(previous, at) ==
  [NewNotModifiedSourceState(previous, at) EXCEPT
     !.hasLocalArtifact = TRUE, !.lastDownloadedAt = at, !.markedOutdatedAt = Zero]

(* newUnsuccessfulSourceState, with appendConsecutiveError: only the first     *)
(* error since the last success sets firstFailureAt.                          *)
NewUnsuccessfulSourceState(previous, firstAt, at, retryable) ==
  [previous EXCEPT !.lastCheckedAt = at, !.retryableFailure = retryable,
                   !.firstFailureAt = IF @ = Zero THEN firstAt ELSE @]

(* refreshWithRetries: the state after the last attempt, made at time at.      *)
(* Attempts repeat while the failure may pass soon, each starting from the     *)
(* state of the one before, so firstAt is when the first attempt failed.       *)
Refreshed(previous, outcome, firstAt, at) ==
  CASE outcome = "notModified" -> NewNotModifiedSourceState(previous, at)
    [] outcome = "downloaded"  -> NewOKSourceState(previous, at)
    [] outcome = "retryable"   -> NewUnsuccessfulSourceState(previous, firstAt, at, TRUE)
    [] outcome = "permanent"   -> NewUnsuccessfulSourceState(previous, firstAt, at, FALSE)

-----------------------------------------------------------------------------
(* What the updater asks of a source's state *)

(* hasRefreshableFailure *)
HasRefreshableFailure(st) ==
  /\ st.retryableFailure
  /\ st.firstFailureAt # Zero
  /\ st.markedOutdatedAt = Zero

(* A faulty variant: an entry is taken for an artifact.                        *)
IsListed(st) == st.recorded /\ st.markedOutdatedAt = Zero

(* The test of availableSourceIDs *)
IsAvailable(st) ==
  st.recorded /\ st.hasLocalArtifact /\ st.markedOutdatedAt = Zero

(* A faulty variant: the interval is one unit too long.                        *)
FailureExpiresLate(i, st) ==
  /\ st.firstFailureAt # Zero
  /\ st.lastCheckedAt > st.firstFailureAt + OutdatedAfter[i] + 1

(* sourceFailureExpired *)
SourceFailureExpired(i, st) ==
  /\ st.firstFailureAt # Zero
  /\ st.lastCheckedAt > st.firstFailureAt + OutdatedAfter[i]

(* A faulty variant: required sources expire like the others.                   *)
AnyExpired(i, st) ==
  /\ st.hasLocalArtifact
  /\ st.markedOutdatedAt = Zero
  /\ OutdatedAfter[i] # 0
  /\ SourceFailureExpired(i, st)

(* The guards of markOutdatedIfExpired *)
Expired(i, st) ==
  /\ st.hasLocalArtifact
  /\ st.markedOutdatedAt = Zero
  /\ i \notin Required
  /\ OutdatedAfter[i] # 0
  /\ SourceFailureExpired(i, st)

(* markOutdatedIfExpired: the copy is removed and the source given up.         *)
MarkOutdatedIfExpired(i, st) ==
  IF Expired(i, st)
    THEN [st EXCEPT !.hasLocalArtifact = FALSE,
                    !.markedOutdatedAt = st.lastCheckedAt,
                    !.retryableFailure = FALSE]
    ELSE st

-----------------------------------------------------------------------------
(* validateSourceState: what the loader of state.json accepts.                *)
ValidateSourceState(st) ==
  /\ st.hasLocalArtifact => st.lastDownloadedAt # Zero
  /\ st.lastDownloadedAt # Zero => st.lastSuccessAt # Zero
  /\ st.lastDownloadedAt <= st.lastSuccessAt
  /\ st.lastSuccessAt # Zero => st.lastCheckedAt # Zero
  /\ st.lastSuccessAt <= st.lastCheckedAt
  /\ st.firstFailureAt # Zero => st.lastCheckedAt # Zero
  /\ st.retryableFailure => st.firstFailureAt # Zero
  /\ st.markedOutdatedAt # Zero =>
       /\ ~st.hasLocalArtifact
       /\ st.lastCheckedAt # Zero
       /\ st.lastSuccessAt # Zero => st.lastSuccessAt < st.markedOutdatedAt
=============================================================================
