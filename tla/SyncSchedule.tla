---------------------------- MODULE SyncSchedule ----------------------------
(***************************************************************************)
(* The sync schedule of the updater (src/internal/update/schedule.go): when *)
(* the next full sync and the next retry sync are due, and how a finished   *)
(* sync moves both.  The module is pure: it declares no variable, so the    *)
(* updater's state machine and the proofs share the same operators.         *)
(*                                                                         *)
(* With 45 minutes as the unit of time the retry ladder of the code, 45m,   *)
(* 1h30m, 3h, 6h, 12h, is <<1, 2, 4, 8, 16>> and its daily full sync 32.     *)
(***************************************************************************)
EXTENDS Integers, Sequences, Times

CONSTANTS
  RetryLadder,       \* the retry intervals, in the order next() climbs them
  FullSyncInterval   \* config: sources.full_sync.interval_hours

ASSUME LadderAssumption ==
  /\ RetryLadder \in Seq(Nat \ {0})
  /\ RetryLadder # <<>>
ASSUME IntervalAssumption == FullSyncInterval \in Nat \ {0}

Rungs == 1..Len(RetryLadder)
NoRung == 0          \* retryIntervalNone

(* A retryInterval is its rung on the ladder.  Intervals off the ladder can  *)
(* only come from a damaged file and are refused when it is loaded.           *)
(* lastStartupSyncAt is left out: the code writes it and never reads it.      *)
Schedule ==
  [lastFullSyncAt    : Time,
   nextFullSyncAt    : Time,
   lastRetrySyncAt   : Time,
   nextRetrySyncAt   : Time,
   lastRetryInterval : Rungs \cup {NoRung}]

ZeroSchedule ==
  [lastFullSyncAt |-> Zero, nextFullSyncAt |-> Zero, lastRetrySyncAt |-> Zero,
   nextRetrySyncAt |-> Zero, lastRetryInterval |-> NoRung]

-----------------------------------------------------------------------------
(* The retry ladder *)

(* retryInterval.next: one rung up, and the top rung repeats.               *)
NextRung(rung) == IF rung < Len(RetryLadder) THEN rung + 1 ELSE rung

(* The n-th turn of nextRetryAfter's loop: each turn climbs one rung and     *)
(* adds its interval to the previous candidate.                              *)
Candidate(base, current) ==
  LET turn[n \in Nat] ==
        IF n = 0
          THEN [at |-> base, rung |-> current]
          ELSE LET previous == turn[n - 1]
                   rung     == NextRung(previous.rung)
               IN  [at |-> previous.at + RetryLadder[rung], rung |-> rung]
  IN turn

(* A faulty variant: candidates that already lie in the past are taken too.      *)
OverdueNextRetries(s, now, current) ==
  LET base     == IF current # NoRung /\ s.lastRetrySyncAt # Zero
                    THEN s.lastRetrySyncAt ELSE now
      turn     == Candidate(base, current)
      usable   == [at : 1..(s.nextFullSyncAt - 1), rung : Rungs]
      upcoming == {turn[n] : n \in 1..(s.nextFullSyncAt - base)} \cap usable
  IN  {c \in upcoming : \A d \in upcoming : c.at <= d.at}

(* nextRetryAfter: the first candidate after now that is still before the    *)
(* next full sync, as a set that is empty when there is none.  Intervals are  *)
(* positive, so nextFullSyncAt - base turns pass every time of interest.      *)
NextRetries(s, now, current) ==
  LET base     == IF current # NoRung /\ s.lastRetrySyncAt # Zero
                    THEN s.lastRetrySyncAt ELSE now
      turn     == Candidate(base, current)
      usable   == [at : (now + 1)..(s.nextFullSyncAt - 1), rung : Rungs]
      upcoming == {turn[n] : n \in 1..(s.nextFullSyncAt - base)} \cap usable
  IN  {c \in upcoming : \A d \in upcoming : c.at <= d.at}

(* A faulty variant: the rung outlives the retry it belongs to.                *)
ForgetfulClearRetry(s) == [s EXCEPT !.nextRetrySyncAt = Zero]

ClearRetry(s) ==
  [s EXCEPT !.nextRetrySyncAt = Zero, !.lastRetryInterval = NoRung]

(* scheduleNextRetryAfter *)
ScheduleNextRetryAfter(s, now, current, retryNeeded) ==
  LET next == NextRetries(s, now, current)
  IN  IF ~retryNeeded \/ next = {}
        THEN ClearRetry(s)
        ELSE LET c == CHOOSE c \in next : TRUE
             IN  [s EXCEPT !.nextRetrySyncAt = c.at, !.lastRetryInterval = c.rung]

(* scheduleFirstRetryAfter: the bottom rung, if it ends before the full sync. *)
ScheduleFirstRetryAfter(s, now) ==
  LET at == now + RetryLadder[1]
  IN  IF at < s.nextFullSyncAt
        THEN [s EXCEPT !.nextRetrySyncAt = at, !.lastRetryInterval = 1]
        ELSE ClearRetry(s)

-----------------------------------------------------------------------------
(* What is due *)

NeedsFullSync(s, now) == now >= s.nextFullSyncAt

(* A faulty variant: a retry is due at its instant alone.                       *)
NeedsRetryNow(s, now) ==
  /\ s.nextRetrySyncAt # Zero
  /\ now < s.nextFullSyncAt
  /\ now = s.nextRetrySyncAt

NeedsRetrySync(s, now) ==
  /\ s.nextRetrySyncAt # Zero
  /\ now < s.nextFullSyncAt
  /\ now >= s.nextRetrySyncAt

NextSyncAt(s) ==
  IF s.nextRetrySyncAt # Zero /\ s.nextRetrySyncAt < s.nextFullSyncAt
    THEN s.nextRetrySyncAt
    ELSE s.nextFullSyncAt

-----------------------------------------------------------------------------
(* The schedule after a sync *)

(* The loop of newSchedule that steps lastFullSyncAt by whole intervals while *)
(* the next slot is not after now: the last slot at or before now.            *)
LatestSlot(from, now) ==
  from + ((now - from) \div FullSyncInterval) * FullSyncInterval

(* newSchedule, full sync due: the slot is taken and the retries start over.  *)
AdvanceFullSync(s, now, retryNeeded) ==
  LET slot == LatestSlot(s.nextFullSyncAt, now)
  IN  ScheduleNextRetryAfter(
        [s EXCEPT !.lastFullSyncAt  = slot,
                  !.nextFullSyncAt  = slot + FullSyncInterval,
                  !.lastRetrySyncAt = Zero],
        now, NoRung, retryNeeded)

(* newSchedule, retry due and still needed: climb the ladder.                 *)
AdvanceRetry(s, now, retryNeeded) ==
  ScheduleNextRetryAfter(
    [s EXCEPT !.lastRetrySyncAt = s.nextRetrySyncAt],
    now, s.lastRetryInterval, retryNeeded)

(* newSchedule *)
NewSchedule(s, now, retryNeeded) ==
  IF NeedsFullSync(s, now) THEN AdvanceFullSync(s, now, retryNeeded)
  ELSE IF ~retryNeeded     THEN [ClearRetry(s) EXCEPT !.lastRetrySyncAt = Zero]
  ELSE IF s.nextRetrySyncAt # Zero /\ now >= s.nextRetrySyncAt
                           THEN AdvanceRetry(s, now, retryNeeded)
  ELSE s

Scopes == {"startup", "full", "partial"}

(* A faulty variant: no first retry after a startup or a partial sync.           *)
NoFirstRetry(s, scope, started, completed, retryNeeded) ==
  NewSchedule(s, started, retryNeeded)

(* Updater.updateSyncSchedule, with newStartupSchedule: after a startup or a    *)
(* partial sync a failure that no candidate of the ladder covers starts again   *)
(* at the bottom rung.                                                        *)
UpdateSyncSchedule(s, scope, started, completed, retryNeeded) ==
  LET new == NewSchedule(s, started, retryNeeded)
  IN  IF scope # "full" /\ retryNeeded /\ new.nextRetrySyncAt = Zero
        THEN ScheduleFirstRetryAfter(new, completed)
        ELSE new

-----------------------------------------------------------------------------
(* validateSyncSchedule: what the loader of state.json accepts.               *)

HasFullSyncDependentData(s) ==
  \/ s.lastRetrySyncAt # Zero
  \/ s.nextRetrySyncAt # Zero
  \/ s.lastRetryInterval # NoRung

ValidateSyncSchedule(s) ==
  /\ s.lastFullSyncAt = Zero => ~HasFullSyncDependentData(s)
  /\ s.nextRetrySyncAt # Zero <=> s.lastRetryInterval # NoRung
  /\ s.nextRetrySyncAt # Zero /\ s.nextFullSyncAt # Zero
       => s.nextRetrySyncAt < s.nextFullSyncAt
=============================================================================
