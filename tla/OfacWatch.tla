------------------------------ MODULE OfacWatch ------------------------------
(***************************************************************************)
(* The OFAC watcher (src/internal/ofacwatch) as one caller of the notifier:    *)
(* a daily check compares what it fetches with the snapshot of the last one,    *)
(* alerts, and saves; the process may end anywhere and be started again.       *)
(*                                                                         *)
(* A program stands for an SDN program or a part of 31 CFR.  The documents of    *)
(* the Federal Register are numbered as they are published; a search for a term   *)
(* returns the newest ones only.                                             *)
(***************************************************************************)
EXTENDS Notifier

CONSTANTS
  Program,                 \* programs and documents
  Anchor,                  \* the programs the OFAC flags rest on
  List,
  Lists,                   \* the lists in the order in which they are fetched
  Term,                    \* those that are searches of the Federal Register
  Contents,                \* what each of the others may have
  Finds,                   \* the documents each search finds
  FederalRegisterMax,      \* 20 in the code
  LastDocument,            \* bound: the documents published
  Watcher,                 \* the watcher, as a caller of the notifier
  None,                    \* no snapshot yet
  FailureAlertThreshold,   \* 3 in the code
  MaxFailures              \* bound: failed checks in a row

ASSUME WatcherAssumption == Anchor \subseteq Program /\ Watcher \in Caller
ASSUME NoneAssumption == \A programs \in SUBSET Program : programs # None
ASSUME ListAssumption ==
  /\ Lists \in Seq(List) /\ Term \subseteq List
  /\ \A t \in Term : \E n \in DOMAIN Lists : Lists[n] = t
  /\ Contents \in [List \ Term -> SUBSET (SUBSET Program)]
  /\ Finds \in [Term -> SUBSET (Program \cap Nat)]
  /\ FederalRegisterMax \in Nat /\ LastDocument \in Nat
ASSUME ThresholdAssumption ==
  FailureAlertThreshold \in Nat \ {0} /\ MaxFailures \in Nat

VARIABLES
  latest,    \* the last document published
  file,      \* ofacwatch.json
  at,        \* where check is: waiting, fetching, saving or stopped
  st,        \* its state in memory
  next,      \* the list to fetch next
  got,       \* what the lists fetched have
  first,     \* history: the first snapshot saved
  alerted,   \* history: the changes ever reported, that is handed to Notify
  unsaved,   \* history: the outcome of some check was not saved
  news,      \* history, until then: the anchors that exist, by the reports
  streak,    \* history, until then: failure alerts since the last success, up to two
  asking,    \* history: the last document when this check searched for each term
  asked,     \* history: the same of the last check that succeeded
  since      \* history: the same of the one after which no search missed any

searches == <<asking, asked, since>>
history  == <<first, alerted, news, streak, unsaved>>
local    == <<at, st, next, got>>
vars     == <<nvars, latest, file, local, history, searches>>

States == [snapshot : {None} \cup SUBSET Program, failures : Nat]
NoState == [snapshot |-> None, failures |-> 0]

(* A faulty variant: the first check finds nothing gone.                          *)
GoneSincePrevious(prev, cur) == {p \in Anchor : p \notin cur /\ prev # None /\ p \in prev}

(* gone and changes: the first check compares with the anchors alone.              *)
Gone(prev, cur) == {p \in Anchor : p \notin cur /\ (prev = None \/ p \in prev)}

(* New programs; the first check has none.                                         *)
New(prev, cur) == IF prev = None THEN {} ELSE cur \ prev

Idle(c) == calling[c] = NoMessage

(* The documents of a term published between two others                            *)
Between(t, d, e) == {x \in Finds[t] : d < x /\ x <= e}

(* A faulty variant: the order is the other one.                                   *)
OldestOnes(t, d) == {x \in Between(t, 0, d) : Cardinality(Between(t, 0, x - 1)) < FederalRegisterMax}

(* federalRegisterQuery: a page of the newest                                       *)
NewestOnes(t, d) == {x \in Between(t, 0, d) : Cardinality(Between(t, x, d)) < FederalRegisterMax}

(* What a list may have when it is asked for; none of programs or parts is empty.       *)
Answers(list) ==
  IF list \in Term THEN {NewestOnes(list, latest)} ELSE Contents[list] \ {{}}

NotAsked == [t \in Term |-> 0]

(* Two stands for more than one. *)
OneMore(n) == IF n < 2 THEN n + 1 ELSE n

Init ==
  /\ NotifierInit
  /\ latest = 0
  /\ file = NoState /\ at = "waiting" /\ st = NoState /\ next = 1 /\ got = {}
  /\ first = None /\ alerted = {} /\ news = Anchor
  /\ streak = 0 /\ unsaved = FALSE
  /\ asking = NotAsked /\ asked = NotAsked /\ since = NotAsked

Publish ==
  /\ latest < LastDocument
  /\ latest' = latest + 1
  /\ UNCHANGED <<nvars, file, local, history, searches>>

(* check begins.                                                              *)
LoadState ==
  /\ Running /\ at = "waiting" /\ Idle(Watcher)
  /\ at' = "fetching"
  /\ st' = file
  /\ UNCHANGED <<nvars, latest, file, next, got, history, searches>>

(* The file cannot be read: the error is logged, which sends it, and check returns.   *)
LoadFails ==
  /\ Running /\ at = "waiting" /\ Idle(Watcher)
  /\ \E message \in Message : Count(Watcher, message)
  /\ UNCHANGED <<latest, file, local, history, searches>>

(* What was fetched, and what check knows of the rest, is gone when it returns.           *)
Forget == next' = 1 /\ got' = {} /\ asking' = NotAsked
Leave(place) == Forget /\ at' = place /\ st' = NoState

(* The context is cancelled: Run returns, at once or from a check that only fetches.     *)
Cancelled ==
  /\ Running /\ at \in {"waiting", "fetching"}
  /\ Leave("stopped")
  /\ UNCHANGED <<nvars, latest, file, history, asked, since>>

(* One list is fetched and read.                                                  *)
FetchList ==
  /\ Running /\ at = "fetching" /\ next <= Len(Lists)
  /\ LET list == Lists[next]
     IN /\ \E answer \in Answers(list) : got' = got \cup answer
        /\ asking' = [t \in Term |-> IF t = list THEN latest ELSE asking[t]]
  /\ next' = next + 1
  /\ UNCHANGED <<nvars, latest, file, at, st, history, asked, since>>

(* A faulty variant: every failure from the third on is reported.                  *)
AlertAlways(failures) == failures >= FailureAlertThreshold

Alert(failures) == failures = FailureAlertThreshold

(* A faulty variant: a failed check forgets the snapshot, which is saved without it.   *)
FailedAndForgot(old) == [snapshot |-> None, failures |-> old.failures + 1]

FailedState(old) == [old EXCEPT !.failures = @ + 1]

(* One of the lists cannot be fetched or read: those fetched before count for nothing.  *)
FetchFails ==
  /\ Running /\ at = "fetching" /\ next <= Len(Lists)
  /\ st.failures < MaxFailures
  /\ at' = "saving" /\ Forget
  /\ st' = FailedState(st)
  /\ IF Alert(st'.failures)
     THEN \E message \in Message : Count(Watcher, message)
     ELSE UNCHANGED nvars
  /\ streak' = IF Alert(st'.failures) /\ ~unsaved THEN OneMore(streak) ELSE streak
  /\ UNCHANGED <<latest, file, first, alerted, news, unsaved, asked, since>>

(* A search misses documents when more came since the last than it returns.            *)
Misses(t) == Cardinality(Between(t, asked[t], asking[t])) > FederalRegisterMax

Searched ==
  /\ asked' = asking
  /\ since' = [t \in Term |-> IF st.snapshot = None \/ Misses(t) THEN asking[t] ELSE since[t]]

(* The lists are there: changes against the last snapshot are reported, in one message. *)
FetchSucceeds ==
  /\ Running /\ at = "fetching" /\ next > Len(Lists)
  /\ at' = "saving" /\ Forget
  /\ st' = [snapshot |-> got, failures |-> 0]
  /\ LET gone == Gone(st.snapshot, got)
         new  == New(st.snapshot, got)
     IN /\ IF gone \cup new # {}
           THEN \E message \in Message : Count(Watcher, message)
           ELSE UNCHANGED nvars
        /\ alerted' = alerted \cup ({"gone"} \X gone) \cup ({"new"} \X new)
        /\ news' = IF unsaved THEN news ELSE (news \ gone) \cup (new \cap Anchor)
  /\ streak' = 0
  /\ Searched
  /\ UNCHANGED <<latest, file, first, unsaved>>

SaveState ==
  /\ Running /\ at = "saving" /\ Idle(Watcher)
  /\ file' = st
  /\ Leave("waiting")
  /\ first' = IF file.snapshot = None THEN st.snapshot ELSE first
  /\ UNCHANGED <<nvars, latest, alerted, news, streak, unsaved, asked, since>>

LoseOutcome == unsaved' = TRUE /\ news' = Anchor /\ streak' = 0

(* The file is written beside the old one and renamed: an error leaves the old one,    *)
(* and is logged.                                                             *)
SaveFails ==
  /\ Running /\ at = "saving" /\ Idle(Watcher)
  /\ Leave("waiting")
  /\ LoseOutcome
  /\ \E message \in Message : Count(Watcher, message)
  /\ UNCHANGED <<latest, file, first, alerted, asked, since>>

(* The process ends, inside a check or not.                                      *)
EndProcess ==
  /\ Restart
  /\ Leave("waiting")
  /\ IF at = "saving" THEN LoseOutcome ELSE UNCHANGED <<unsaved, news, streak>>
  /\ UNCHANGED <<latest, file, first, alerted, asked, since>>

-----------------------------------------------------------------------------
CheckStep ==
  \/ LoadState \/ LoadFails \/ Cancelled
  \/ FetchList \/ FetchFails \/ FetchSucceeds \/ SaveState \/ SaveFails

(* Other goroutines alert, and log errors, too.                                  *)
OtherCalls ==
  /\ \E c \in Caller \ {Watcher}, message \in Message : Count(c, message)
  /\ UNCHANGED <<latest, file, local, history, searches>>

NotifierMoves == NotifierStep /\ UNCHANGED <<latest, file, local, history, searches>>

Next == Publish \/ CheckStep \/ OtherCalls \/ NotifierMoves \/ EndProcess

Spec == Init /\ [][Next]_vars

-----------------------------------------------------------------------------
(* Properties *)

TypeOK ==
  /\ NotifierTypeOK
  /\ latest \in Nat
  /\ next \in Nat \ {0} /\ got \in SUBSET Program
  /\ file \in States /\ st \in States /\ at \in {"waiting", "fetching", "saving", "stopped"}
  /\ first \in {None} \cup SUBSET Program /\ news \in SUBSET Anchor
  /\ alerted \in SUBSET ({"gone", "new"} \X Program)
  /\ streak \in 0..2 /\ unsaved \in BOOLEAN
  /\ asking \in [Term -> Nat] /\ asked \in [Term -> Nat] /\ since \in [Term -> Nat]

(* The snapshot never swallows a change: an anchor it lacks, and a program that was    *)
(* not in the first one, has been reported, whatever crash or failed save came between. *)
(* Reported, here and below, is handed to Notify: a full queue or a late Close may still   *)
(* drop the message.                                                           *)
AlertedBeforeSaved ==
  file.snapshot # None =>
    /\ \A a \in Anchor \ file.snapshot : <<"gone", a>> \in alerted
    /\ \A p \in file.snapshot \ first : <<"new", p>> \in alerted

(* Every document published after the first snapshot is reported by the next check that    *)
(* succeeds, whatever failed, was lost or came between two of its searches, unless more of   *)
(* a term came between two such checks than a search returns; then from the next one on.    *)
DocumentsTold ==
  \A t \in Term : \A d \in Between(t, since[t], asked[t]) :
    <<"new", d>> \in alerted \/ (first # None /\ d \in first)

(* The reports, read in their order, tell which anchors exist as of the last snapshot,  *)
(* as long as every check could save.                                            *)
NewsMatchesSnapshot ==
  ~unsaved /\ at # "saving" /\ file.snapshot # None => news = Anchor \cap file.snapshot

(* A run of failed checks is reported once, by the third, over restarts too.          *)
FailureStreakTold ==
  ~unsaved /\ at # "saving" =>
    streak = IF file.failures >= FailureAlertThreshold THEN 1 ELSE 0
=============================================================================
