-------------------------- MODULE OfacWatchProofs ---------------------------
(***************************************************************************)
(* The notifier for any callers, messages and queue, and the watcher that uses   *)
(* it, for any programs, anchors and threshold.  What the notifier promises is      *)
(* proved of its own specification, which every behaviour of the watcher obeys.     *)
(***************************************************************************)
EXTENDS OfacWatch, FiniteSetTheorems, SequenceTheorems, TLAPS

-----------------------------------------------------------------------------
(* The notifier *)

Outstanding == Len(queue) + Cardinality({inHand} \ {NoMessage})

(* What Close waits for is still counted. *)
OwedInv == owed <= Outstanding

NInv == PendingIsOutstanding /\ OwedInv /\ CloseWaits

(* A message in hand counts as one.                                               *)
LEMMA InHandCount ==
  ASSUME NEW m
  PROVE  Cardinality({m} \ {NoMessage}) = IF m = NoMessage THEN 0 ELSE 1
<1>1. CASE m = NoMessage
  <2>1. {m} \ {NoMessage} = {}
    BY <1>1
  <2> QED
    BY <1>1, <2>1, FS_EmptySet
<1>2. CASE m # NoMessage
  <2>1. {m} \ {NoMessage} = {m}
    BY <1>2
  <2> QED
    BY <1>2, <2>1, FS_Singleton
<1> QED
  BY <1>1, <1>2

(* What is in hand adds a number to the counter.                                *)
LEMMA InHandNat == Cardinality({inHand} \ {NoMessage}) \in Nat
<1>1. Cardinality({inHand} \ {NoMessage}) = IF inHand = NoMessage THEN 0 ELSE 1
  BY InHandCount
<1> QED
  BY <1>1

(* Callers are finite in number, and so are those about to queue.                  *)
LEMMA CallingFinite == IsFiniteSet(Calling) /\ Cardinality(Calling) \in Nat
<1>1. IsFiniteSet(Calling)
  BY CallerAssumption, FS_Subset DEF Calling
<1> QED
  BY <1>1, FS_CardinalityType

(* A caller that counts a message is one more.                                  *)
LEMMA CallerAdded ==
  ASSUME NEW c \in Caller, NEW m \in Message,
         calling \in [Caller -> Message \cup {NoMessage}],
         calling[c] = NoMessage, calling' = [calling EXCEPT ![c] = m]
  PROVE  Cardinality(Calling') = Cardinality(Calling) + 1
<1>1. Calling' = Calling \cup {c} /\ c \notin Calling
  BY MessageAssumption DEF Calling
<1> QED
  BY <1>1, CallingFinite, FS_AddElement

(* A caller that has queued its message, or lost it, is one less.                 *)
LEMMA CallerRemoved ==
  ASSUME NEW c \in Caller,
         calling \in [Caller -> Message \cup {NoMessage}],
         calling[c] # NoMessage, calling' = [calling EXCEPT ![c] = NoMessage]
  PROVE  Cardinality(Calling') = Cardinality(Calling) - 1
<1>1. Calling' = Calling \ {c} /\ c \in Calling
  BY DEF Calling
<1> QED
  BY <1>1, CallingFinite, FS_RemoveElement

(* Nothing counts as nothing.                                                 *)
LEMMA NotifierEmpty ==
  ASSUME queue = <<>>, inHand = NoMessage, pending = 0, owed = 0,
         calling = [c \in Caller |-> NoMessage]
  PROVE  NInv
<1>1. Calling = {}
  BY DEF Calling
<1> QED
  BY <1>1, FS_EmptySet, InHandCount
     DEF NInv, PendingIsOutstanding, OwedInv, Outstanding, CloseWaits

-----------------------------------------------------------------------------
(* Type correctness of the notifier. *)

(* No step of the notifier breaks a type: Done never finds the counter at zero.       *)
LEMMA NotifierTypeStep ==
  ASSUME NotifierTypeOK, PendingIsOutstanding, [NotifierNext]_nvars
  PROVE  NotifierTypeOK'
<1> USE DEF NotifierTypeOK
<1>0. pending = 0 => ~(inHand # NoMessage) /\ \A c \in Caller : calling[c] = NoMessage
  <2> SUFFICES ASSUME pending = 0
      PROVE inHand = NoMessage /\ Calling = {}
    BY DEF Calling
  <2>1. Len(queue) \in Nat
    BY LenProperties
  <2>2. Cardinality({inHand} \ {NoMessage}) = IF inHand = NoMessage THEN 0 ELSE 1
    BY InHandCount
  <2>3. inHand = NoMessage /\ Cardinality(Calling) = 0
    BY <2>1, <2>2, CallingFinite DEF PendingIsOutstanding
  <2>4. Calling = {}
    BY <2>3, CallingFinite, FS_EmptySet
  <2> QED
    BY <2>3, <2>4
<1>1. ASSUME NEW c \in Caller, NEW message \in Message, Count(c, message)
      PROVE  NotifierTypeOK'
  BY <1>1 DEF Count, channel
<1>2. ASSUME NEW c \in Caller, Enqueue(c)
      PROVE  NotifierTypeOK'
  <2>1. calling[c] \in Message
    BY <1>2 DEF Enqueue
  <2>2. queue' \in Seq(Message) /\ Len(queue') = Len(queue) + 1
    BY <1>2, <2>1, AppendProperties DEF Enqueue
  <2>3. Len(queue) \in Nat /\ Len(queue') <= QueueSize
    BY <1>2, <2>2, QueueAssumption, LenProperties DEF Enqueue
  <2> QED
    BY <1>2, <2>2, <2>3 DEF Enqueue, group
<1>3. ASSUME NEW c \in Caller, Drop(c)
      PROVE  NotifierTypeOK'
  BY <1>0, <1>3 DEF Drop, Done, channel
<1>4. CASE Receive
  <2>1. Head(queue) \in Message /\ Tail(queue) \in Seq(Message)
        /\ Len(Tail(queue)) = Len(queue) - 1
    BY <1>4, HeadTailProperties DEF Receive
  <2>2. Len(queue) \in Nat
    BY LenProperties
  <2> QED
    BY <1>4, <2>1, <2>2, QueueAssumption DEF Receive, group
<1>5. CASE Handle
  BY <1>0, <1>5 DEF Handle, Done
<1>6. CASE BeginClose
  <2>1. Len(queue) \in Nat
    BY LenProperties
  <2>2. Cardinality({inHand} \ {NoMessage}) \in Nat
    BY InHandNat
  <2>3. owed' \in Nat
    BY <1>6, <2>1, <2>2 DEF BeginClose
  <2> QED
    BY <1>6, <2>3 DEF BeginClose, channel
<1>7. CASE Wait
  BY <1>7 DEF Wait, channel
<1>8. CASE WaitReturns
  BY <1>8 DEF WaitReturns, channel
<1>9. CASE Close
  BY <1>9 DEF Close, channel
<1>10. CASE Restart
  <2>1. queue' \in Seq(Message) /\ Len(queue') = 0
    BY <1>10 DEF Restart
  <2> QED
    BY <1>10, <2>1, QueueAssumption DEF Restart
<1>11. CASE UNCHANGED nvars
  BY <1>11 DEF nvars, channel, group
<1> QED
  BY <1>1, <1>2, <1>3, <1>4, <1>5, <1>6, <1>7, <1>8, <1>9, <1>10, <1>11
     DEF NotifierNext, NotifierStep

-----------------------------------------------------------------------------
(* The counter of the WaitGroup, and what Close waits for. *)

(* Close finds nothing owed once the counter is zero.                            *)
LEMMA ZeroOwesNothing ==
  ASSUME NotifierTypeOK, NInv, pending = 0
  PROVE  owed = 0
<1>1. Len(queue) \in Nat
  BY LenProperties DEF NotifierTypeOK
<1>2. Cardinality({inHand} \ {NoMessage}) = IF inHand = NoMessage THEN 0 ELSE 1
  BY InHandCount
<1> QED
  BY <1>1, <1>2, CallingFinite
     DEF NInv, PendingIsOutstanding, OwedInv, Outstanding, NotifierTypeOK

(* Every step moves the counter with what it counts.                              *)
LEMMA NotifierInvStep ==
  ASSUME NotifierTypeOK, NInv, [NotifierNext]_nvars
  PROVE  NInv'
<1> USE DEF NotifierTypeOK, NInv, PendingIsOutstanding, OwedInv, Outstanding, CloseWaits
<1>0. /\ Len(queue) \in Nat /\ Cardinality(Calling) \in Nat
      /\ Cardinality({inHand} \ {NoMessage}) \in Nat
      /\ (pending = 0 => owed = 0)
  <2>1. Len(queue) \in Nat
    BY LenProperties
  <2>2. Cardinality({inHand} \ {NoMessage}) \in Nat
    BY InHandNat
  <2> QED
    BY <2>1, <2>2, CallingFinite, ZeroOwesNothing
<1>1. ASSUME NEW c \in Caller, NEW message \in Message, Count(c, message)
      PROVE  NInv'
  <2>1. Cardinality(Calling') = Cardinality(Calling) + 1
    BY <1>1, CallerAdded DEF Count
  <2> QED
    BY <1>0, <1>1, <2>1 DEF Count, channel
<1>2. ASSUME NEW c \in Caller, Enqueue(c)
      PROVE  NInv'
  <2>1. Cardinality(Calling') = Cardinality(Calling) - 1
    BY <1>2, CallerRemoved DEF Enqueue
  <2>2. Len(queue') = Len(queue) + 1
    BY <1>2, AppendProperties DEF Enqueue
  <2> QED
    BY <1>0, <1>2, <2>1, <2>2 DEF Enqueue, group
<1>3. ASSUME NEW c \in Caller, Drop(c)
      PROVE  NInv'
  <2>1. Cardinality(Calling') = Cardinality(Calling) - 1
    BY <1>3, CallerRemoved DEF Drop
  <2> QED
    BY <1>0, <1>3, <2>1 DEF Drop, Done, channel
<1>4. CASE Receive
  <2>1. Len(queue') = Len(queue) - 1 /\ Head(queue) \in Message
    BY <1>4, HeadTailProperties DEF Receive
  <2>2. Cardinality({inHand} \ {NoMessage}) = 0 /\ Cardinality({inHand'} \ {NoMessage}) = 1
    BY <1>4, <2>1, InHandCount, MessageAssumption DEF Receive
  <2>3. Calling' = Calling
    BY <1>4 DEF Receive, Calling
  <2> QED
    BY <1>0, <1>4, <2>1, <2>2, <2>3 DEF Receive, group
<1>5. CASE Handle
  <2>1. Cardinality({inHand} \ {NoMessage}) = 1 /\ Cardinality({inHand'} \ {NoMessage}) = 0
    BY <1>5, InHandCount DEF Handle
  <2>2. Calling' = Calling
    BY <1>5 DEF Handle, Calling
  <2> QED
    BY <1>0, <1>5, <2>1, <2>2 DEF Handle, Done
<1>6. CASE BeginClose
  BY <1>0, <1>6 DEF BeginClose, channel, Calling
<1>7. CASE Wait
  BY <1>0, <1>7 DEF Wait, channel, Calling
<1>8. CASE WaitReturns
  BY <1>0, <1>8 DEF WaitReturns, channel, Calling
<1>9. CASE Close
  BY <1>0, <1>9 DEF Close, channel, Calling
<1>10. CASE Restart
  <2>1. Calling' = {}
    BY <1>10 DEF Restart, Calling
  <2>2. Cardinality(Calling') = 0 /\ Cardinality({inHand'} \ {NoMessage}) = 0
        /\ Len(queue') = 0
    BY <1>10, <2>1, InHandCount, FS_EmptySet DEF Restart
  <2> QED
    BY <1>10, <2>2 DEF Restart
<1>11. CASE UNCHANGED nvars
  BY <1>11 DEF nvars, channel, group, Calling
<1> QED
  BY <1>1, <1>2, <1>3, <1>4, <1>5, <1>6, <1>7, <1>8, <1>9, <1>10, <1>11
     DEF NotifierNext, NotifierStep

(* In every behaviour of the notifier, the watcher's calls included, its counter is     *)
(* exact and Close waits for what was accepted before it.                          *)
THEOREM NotifierInvariantHolds == NotifierSpec => [](NotifierTypeOK /\ NInv)
<1>1. NotifierInit => NotifierTypeOK /\ NInv
  <2> SUFFICES ASSUME NotifierInit PROVE NotifierTypeOK /\ NInv
    OBVIOUS
  <2>1. queue \in Seq(Message) /\ Len(queue) = 0
    BY DEF NotifierInit
  <2>2. NotifierTypeOK
    BY <2>1, QueueAssumption DEF NotifierInit, NotifierTypeOK
  <2> QED
    BY <2>2, NotifierEmpty DEF NotifierInit
<1>2. NotifierTypeOK /\ NInv /\ [NotifierNext]_nvars => (NotifierTypeOK /\ NInv)'
  BY NotifierTypeStep, NotifierInvStep DEF NInv
<1> QED
  BY <1>1, <1>2, PTL DEF NotifierSpec

(* A step of the watcher is one of the notifier, or leaves it alone.                *)
LEMMA WatcherUsesNotifier == [Next]_vars => [NotifierNext]_nvars
<1> SUFFICES ASSUME [Next]_vars PROVE [NotifierNext]_nvars
  OBVIOUS
<1> USE DEF NotifierNext
<1>1. CASE Publish \/ FetchList
  BY <1>1 DEF Publish, FetchList
<1>2. CASE LoadState \/ Cancelled \/ SaveState
  BY <1>2 DEF LoadState, Cancelled, SaveState
<1>3. CASE LoadFails
  BY <1>3, WatcherAssumption DEF LoadFails
<1>4. CASE SaveFails
  BY <1>4, WatcherAssumption DEF SaveFails
<1>5. CASE FetchFails
  BY <1>5, WatcherAssumption DEF FetchFails
<1>6. CASE FetchSucceeds
  BY <1>6, WatcherAssumption DEF FetchSucceeds
<1>7. CASE OtherCalls \/ NotifierMoves
  BY <1>7 DEF OtherCalls, NotifierMoves
<1>8. CASE EndProcess
  BY <1>8 DEF EndProcess
<1>9. CASE UNCHANGED vars
  BY <1>9 DEF vars
<1> QED
  BY <1>1, <1>2, <1>3, <1>4, <1>5, <1>6, <1>7, <1>8, <1>9 DEF Next, CheckStep

(* The watcher, over its restarts, is a caller that keeps the notifier's rules.        *)
THEOREM KeepsNotifier == Spec => NotifierSpec
<1>1. Init => NotifierInit
  BY DEF Init
<1> QED
  BY <1>1, WatcherUsesNotifier, PTL DEF Spec, NotifierSpec

(* The counter of the WaitGroup is what is queued, in hand or about to be queued.       *)
THEOREM CounterIsExact == Spec => []PendingIsOutstanding
<1>1. NInv => PendingIsOutstanding
  BY DEF NInv
<1> QED
  BY <1>1, NotifierInvariantHolds, KeepsNotifier, PTL

(* A Close that returns in time leaves nothing that was accepted before it.            *)
THEOREM CloseHandlesAccepted == Spec => []CloseWaits
<1>1. NInv => CloseWaits
  BY DEF NInv
<1> QED
  BY <1>1, NotifierInvariantHolds, KeepsNotifier, PTL

-----------------------------------------------------------------------------
(* The watcher *)

(* The outcome a check holds: on disk, or still to be saved. *)
Outcome == IF at = "saving" THEN st ELSE file

Reported(snapshot) == IF snapshot = None THEN Anchor ELSE Anchor \cap snapshot
Told(failures) == IF failures >= FailureAlertThreshold THEN 1 ELSE 0

(* Every change between no snapshot and this one has been reported. *)
ChangesTold(snapshot) ==
  snapshot # None =>
    /\ \A a \in Anchor \ snapshot : <<"gone", a>> \in alerted
    /\ file.snapshot # None => \A p \in snapshot \ first : <<"new", p>> \in alerted

MemoryFollowsFile ==
  /\ at = "fetching" => st = file
  /\ at = "saving" /\ file.snapshot # None => st.snapshot # None

WInv ==
  /\ first = None <=> file.snapshot = None
  /\ MemoryFollowsFile
  /\ ChangesTold(file.snapshot)
  /\ ChangesTold(Outcome.snapshot)
  /\ ~unsaved => news = Reported(Outcome.snapshot)
  /\ ~unsaved => streak = Told(Outcome.failures)


(* No step of the watcher breaks a type.                                        *)
LEMMA WatcherTypeStep ==
  ASSUME TypeOK, NInv, [Next]_vars
  PROVE  TypeOK'
<1>1. NotifierTypeOK'
  BY WatcherUsesNotifier, NotifierTypeStep DEF TypeOK, NInv
<1>2. NotAsked \in [Term -> Nat] /\ NoState \in States
  BY DEF NotAsked, NoState, States
<1> USE <1>1, <1>2 DEF TypeOK, local, history, searches, Forget, Leave
<1>3. CASE Publish
  BY <1>3 DEF Publish
<1>4. CASE LoadState \/ LoadFails
  BY <1>4 DEF LoadState, LoadFails
<1>5. CASE Cancelled
  BY <1>5 DEF Cancelled
<1>6. CASE SaveFails
  BY <1>6 DEF SaveFails, LoseOutcome
<1>7. CASE SaveState
  BY <1>7 DEF SaveState, States
<1>8. CASE FetchList
  <2>1. Lists[next] \in List
    BY <1>8, ListAssumption DEF FetchList
  <2>2. \A answer \in Answers(Lists[next]) : answer \subseteq Program
    BY <2>1, ListAssumption DEF Answers, NewestOnes, Between
  <2>3. got' \in SUBSET Program
    BY <1>8, <2>2 DEF FetchList
  <2>4. asking' \in [Term -> Nat]
    BY <1>8 DEF FetchList
  <2> QED
    BY <1>8, <2>3, <2>4 DEF FetchList
<1>9. CASE FetchFails
  BY <1>9 DEF FetchFails, FailedState, States, OneMore, nvars
<1>10. CASE FetchSucceeds
  <2>1. st' \in States /\ streak' \in 0..2
    BY <1>10 DEF FetchSucceeds, States
  <2>2. alerted' \in SUBSET ({"gone", "new"} \X Program)
    BY <1>10, WatcherAssumption DEF FetchSucceeds, Gone, New
  <2>3. news' \in SUBSET Anchor
    BY <1>10 DEF FetchSucceeds
  <2>4. asked' \in [Term -> Nat] /\ since' \in [Term -> Nat]
    BY <1>10 DEF FetchSucceeds, Searched
  <2> QED
    BY <1>10, <2>1, <2>2, <2>3, <2>4 DEF FetchSucceeds
<1>11. CASE OtherCalls \/ NotifierMoves
  BY <1>11 DEF OtherCalls, NotifierMoves
<1>12. CASE EndProcess
  <2>1. CASE at = "saving"
    BY <1>12, <2>1 DEF EndProcess, LoseOutcome
  <2>2. CASE at # "saving"
    BY <1>12, <2>2 DEF EndProcess
  <2> QED
    BY <2>1, <2>2
<1>13. CASE UNCHANGED vars
  BY <1>13 DEF vars
<1> QED
  BY <1>3, <1>4, <1>5, <1>6, <1>7, <1>8, <1>9, <1>10, <1>11, <1>12, <1>13 DEF Next, CheckStep

(* A success reports all that changed between the last snapshot and the new one.       *)
LEMMA SuccessTellsChanges ==
  ASSUME TypeOK, WInv, FetchSucceeds
  PROVE  WInv'
<1> USE DEF TypeOK, WInv, MemoryFollowsFile, Outcome
<1>1. /\ st = file /\ st'.snapshot = got /\ st'.failures = 0 /\ got # None
      /\ at' = "saving" /\ UNCHANGED <<file, first, unsaved>> /\ streak' = 0
  BY NoneAssumption DEF FetchSucceeds
<1>2. /\ alerted' = alerted \cup ({"gone"} \X Gone(file.snapshot, got))
                              \cup ({"new"} \X New(file.snapshot, got))
      /\ ~unsaved => news' = (news \ Gone(file.snapshot, got)) \cup (New(file.snapshot, got) \cap Anchor)
  BY <1>1 DEF FetchSucceeds
<1>3. ChangesTold(file.snapshot)'
  BY <1>1, <1>2 DEF ChangesTold
<1>4. ASSUME NEW a \in Anchor \ got
      PROVE  <<"gone", a>> \in alerted'
  <2>1. CASE file.snapshot = None \/ a \in file.snapshot
    BY <1>2, <2>1 DEF Gone
  <2>2. CASE file.snapshot # None /\ a \notin file.snapshot
    BY <1>2, <2>2 DEF ChangesTold
  <2> QED
    BY <2>1, <2>2
<1>5. ASSUME NEW p \in got \ first, file.snapshot # None
      PROVE  <<"new", p>> \in alerted'
  <2>1. CASE p \in file.snapshot
    BY <1>2, <1>5, <2>1 DEF ChangesTold
  <2>2. CASE p \notin file.snapshot
    BY <1>2, <1>5, <2>2 DEF New
  <2> QED
    BY <2>1, <2>2
<1>6. ChangesTold(Outcome.snapshot)'
  BY <1>1, <1>4, <1>5 DEF ChangesTold
<1>7. ~unsaved' => news' = Reported(Outcome.snapshot)'
  <2>1. SUFFICES ASSUME ~unsaved PROVE news' = Anchor \cap got
    BY <1>1 DEF Reported
  <2>2. at # "saving" /\ news = Reported(file.snapshot)
    BY <2>1 DEF FetchSucceeds
  <2>3. CASE file.snapshot = None
    BY <1>2, <2>1, <2>2, <2>3 DEF Reported, Gone, New
  <2>4. CASE file.snapshot # None
    BY <1>2, <2>1, <2>2, <2>4, WatcherAssumption DEF Reported, Gone, New
  <2> QED
    BY <2>3, <2>4
<1>8. ~unsaved' => streak' = Told(Outcome.failures)'
  BY <1>1, ThresholdAssumption DEF Told
<1> QED
  BY <1>1, <1>3, <1>6, <1>7, <1>8

(* Every step keeps the outcome, the file and the reports in agreement.             *)
LEMMA WatcherInvStep ==
  ASSUME TypeOK, WInv, [Next]_vars
  PROVE  WInv'
<1> USE DEF TypeOK, WInv, MemoryFollowsFile, Outcome, ChangesTold, history, local, Forget, Leave
<1>1. CASE Publish \/ OtherCalls \/ NotifierMoves \/ UNCHANGED vars
  BY <1>1 DEF Publish, OtherCalls, NotifierMoves, vars
<1>2. CASE LoadState \/ LoadFails \/ Cancelled \/ FetchList
  BY <1>2 DEF LoadState, LoadFails, Cancelled, FetchList
<1>3. CASE FetchFails
  <2>1. /\ st = file /\ at # "saving" /\ at' = "saving"
        /\ st'.snapshot = file.snapshot /\ st'.failures = file.failures + 1
        /\ UNCHANGED <<file, first, alerted, news, unsaved>>
    BY <1>3 DEF FetchFails, FailedState, States
  <2>2. ~unsaved => streak' = Told(st'.failures)
    <3>1. SUFFICES ASSUME ~unsaved PROVE streak' = Told(st'.failures)
      OBVIOUS
    <3>2. streak = Told(file.failures) /\ file.failures \in Nat
      BY <2>1, <3>1 DEF States
    <3>3. streak' = IF st'.failures = FailureAlertThreshold THEN OneMore(streak) ELSE streak
      BY <1>3, <3>1 DEF FetchFails, Alert
    <3> QED
      BY <2>1, <3>2, <3>3, ThresholdAssumption DEF Told, OneMore
  <2> QED
    BY <2>1, <2>2
<1>4. CASE FetchSucceeds
  BY <1>4, SuccessTellsChanges
<1>5. CASE SaveState
  <2>1. /\ at = "saving" /\ at' = "waiting" /\ file' = st
        /\ first' = IF file.snapshot = None THEN st.snapshot ELSE first
        /\ UNCHANGED <<alerted, news, streak, unsaved>>
    BY <1>5 DEF SaveState
  <2>2. CASE file.snapshot = None
    BY <2>1, <2>2
  <2>3. CASE file.snapshot # None
    BY <2>1, <2>3
  <2> QED
    BY <2>2, <2>3
<1>6. CASE SaveFails
  BY <1>6 DEF SaveFails, LoseOutcome
<1>7. CASE EndProcess
  <2>1. CASE at = "saving"
    BY <1>7, <2>1 DEF EndProcess, LoseOutcome
  <2>2. CASE at # "saving"
    BY <1>7, <2>2 DEF EndProcess
  <2> QED
    BY <2>1, <2>2
<1> QED
  BY <1>1, <1>2, <1>3, <1>4, <1>5, <1>6, <1>7 DEF Next, CheckStep

(* Nothing of a term that came since is missed, if it is no more than a search returns.   *)
LEMMA SearchFinds ==
  ASSUME NEW t \in Term, NEW a \in Nat, NEW b \in Nat, NEW d \in Between(t, a, b),
         Cardinality(Between(t, a, b)) <= FederalRegisterMax
  PROVE  d \in NewestOnes(t, b)
<1>1. Between(t, a, b) \subseteq 0..b /\ IsFiniteSet(0..b) /\ d \in Nat
  <2>1. Between(t, a, b) \subseteq 0..b /\ d \in Nat
    BY ListAssumption DEF Between
  <2>2. 0 \in Int /\ b \in Int
    OBVIOUS
  <2> QED
    BY <2>1, <2>2, FS_Interval
<1>2. IsFiniteSet(Between(t, a, b))
  BY <1>1, FS_Subset
<1>3. Between(t, d, b) \subseteq Between(t, a, b) /\ d \notin Between(t, d, b)
  BY <1>1, ListAssumption DEF Between
<1>4. /\ Cardinality(Between(t, d, b)) \in Nat /\ Cardinality(Between(t, a, b)) \in Nat
      /\ Cardinality(Between(t, d, b)) < Cardinality(Between(t, a, b))
  <2>1. IsFiniteSet(Between(t, d, b)) /\ Between(t, d, b) # Between(t, a, b)
    BY <1>2, <1>3, FS_Subset
  <2> QED
    BY <1>2, <1>3, <2>1, FS_Subset, FS_CardinalityType
<1>5. Cardinality(Between(t, d, b)) < FederalRegisterMax
  BY <1>4, ListAssumption
<1>6. d \in Between(t, 0, b)
  BY <1>1, ListAssumption DEF Between
<1> QED
  BY <1>5, <1>6 DEF NewestOnes

(* What the searches of this check returned is there, and those of earlier ones missed   *)
(* nothing that was not told.                                                    *)
SearchesInv ==
  /\ file.snapshot = None => since = asked
  /\ \A n \in 1..(next - 1) : n \in DOMAIN Lists /\ Lists[n] \in Term =>
       NewestOnes(Lists[n], asking[Lists[n]]) \subseteq got
  /\ DocumentsTold

IInv == TypeOK /\ NInv /\ WInv /\ SearchesInv

(* A success tells of every document that came since the last one.                    *)
LEMMA SuccessTellsDocuments ==
  ASSUME TypeOK, WInv, SearchesInv, FetchSucceeds
  PROVE  DocumentsTold'
<1> SUFFICES ASSUME NEW t \in Term, NEW d \in Between(t, since'[t], asked'[t])
             PROVE  <<"new", d>> \in alerted' \/ (first' # None /\ d \in first')
  BY DEF DocumentsTold, Between
<1>1. /\ st = file /\ UNCHANGED first /\ alerted \subseteq alerted'
      /\ \A p \in New(file.snapshot, got) : <<"new", p>> \in alerted'
      /\ asked' = asking
      /\ since'[t] = IF file.snapshot = None \/ Misses(t) THEN asking[t] ELSE since[t]
      /\ asking[t] \in Nat /\ asked[t] \in Nat /\ since[t] \in Nat /\ Finds[t] \subseteq Nat
  BY ListAssumption DEF FetchSucceeds, Searched, TypeOK, WInv, MemoryFollowsFile
<1>2. file.snapshot # None /\ ~Misses(t)
  BY <1>1 DEF Between
<1>3. CASE d <= asked[t]
  <2>1. d \in Between(t, since[t], asked[t])
    BY <1>1, <1>2, <1>3 DEF Between
  <2> QED
    BY <1>1, <2>1 DEF SearchesInv, DocumentsTold
<1>4. CASE asked[t] < d
  <2>1. d \in Between(t, asked[t], asking[t])
    BY <1>1, <1>2, <1>4 DEF Between
  <2>2. Cardinality(Between(t, asked[t], asking[t])) <= FederalRegisterMax
    <3>1. Between(t, asked[t], asking[t]) \subseteq 0..asking[t]
      BY <1>1 DEF Between
    <3>2. IsFiniteSet(0..asking[t])
      <4>1. 0 \in Int /\ asking[t] \in Int
        BY <1>1
      <4> QED
        BY <4>1, FS_Interval
    <3>3. IsFiniteSet(Between(t, asked[t], asking[t]))
      BY <3>1, <3>2, FS_Subset
    <3>4. Cardinality(Between(t, asked[t], asking[t])) \in Nat
      BY <3>3, FS_CardinalityType
    <3> QED
      BY <1>2, <3>4, ListAssumption DEF Misses
  <2>3. d \in NewestOnes(t, asking[t])
    BY <1>1, <2>1, <2>2, SearchFinds
  <2>4. d \in got
    <3>1. PICK n \in DOMAIN Lists : Lists[n] = t
      BY ListAssumption
    <3>2. n \in 1..(next - 1)
      BY <3>1, ListAssumption DEF FetchSucceeds, TypeOK
    <3> QED
      BY <2>3, <3>1, <3>2 DEF SearchesInv
  <2>5. CASE d \in file.snapshot
    BY <1>1, <1>2, <2>5 DEF WInv, ChangesTold
  <2>6. CASE d \notin file.snapshot
    BY <1>1, <1>2, <2>4, <2>6 DEF New
  <2> QED
    BY <2>5, <2>6
<1> QED
  BY <1>1, <1>3, <1>4, ListAssumption DEF Between

(* Every step keeps what the searches found, and what was told of it.                 *)
LEMMA SearchesStep ==
  ASSUME TypeOK, WInv, SearchesInv, [Next]_vars
  PROVE  SearchesInv'
<1> USE DEF SearchesInv, Forget, Leave
<1>1. CASE UNCHANGED <<file, next, got, asking, asked, since, alerted, first>>
  BY <1>1 DEF DocumentsTold, NewestOnes, Between
<1>2. CASE next' = 1 /\ UNCHANGED <<file, asked, since, alerted, first>>
  BY <1>2 DEF DocumentsTold, Between
<1>3. CASE FetchList
  <2>1. /\ UNCHANGED <<file, since, asked, alerted, first>> /\ next' = next + 1 /\ got \subseteq got'
        /\ next \in DOMAIN Lists /\ next \in Nat
    BY <1>3, ListAssumption DEF FetchList, TypeOK, history
  <2>2. DocumentsTold'
    BY <2>1 DEF DocumentsTold, Between
  <2>3. ASSUME NEW n \in 1..(next' - 1), n \in DOMAIN Lists, Lists[n] \in Term
        PROVE  NewestOnes(Lists[n], asking'[Lists[n]]) \subseteq got'
    <3>1. CASE Lists[n] = Lists[next]
      BY <1>3, <2>3, <3>1 DEF FetchList, Answers
    <3>2. CASE Lists[n] # Lists[next]
      <4>1. n \in 1..(next - 1) /\ asking'[Lists[n]] = asking[Lists[n]]
        BY <1>3, <2>1, <2>3, <3>2 DEF FetchList
      <4> QED
        BY <2>1, <2>3, <4>1
    <3> QED
      BY <3>1, <3>2
  <2> QED
    BY <2>1, <2>2, <2>3
<1>4. CASE FetchSucceeds
  <2>1. DocumentsTold'
    BY <1>4, SuccessTellsDocuments
  <2>2. file'.snapshot = None => since' = asked'
    BY <1>4 DEF FetchSucceeds, Searched, WInv, MemoryFollowsFile, TypeOK
  <2>3. next' = 1
    BY <1>4 DEF FetchSucceeds
  <2> QED
    BY <2>1, <2>2, <2>3
<1>5. CASE SaveState
  <2>1. next' = 1 /\ UNCHANGED <<since, asked, alerted>>
    BY <1>5 DEF SaveState
  <2>2. CASE file.snapshot = None
    <3>1. since' = asked'
      BY <2>1, <2>2
    <3>2. \A t \in Term : Between(t, since'[t], asked'[t]) = {}
      <4> SUFFICES ASSUME NEW t \in Term PROVE Between(t, asked[t], asked[t]) = {}
        BY <2>1, <3>1
      <4>1. asked[t] \in Nat /\ Finds[t] \subseteq Nat
        BY ListAssumption DEF TypeOK
      <4> QED
        BY <4>1 DEF Between
    <3>3. DocumentsTold'
      BY <3>2 DEF DocumentsTold, Between
    <3> QED
      BY <2>1, <3>1, <3>3
  <2>3. CASE file.snapshot # None
    <3>1. file'.snapshot # None /\ first' = first
      BY <1>5, <2>3 DEF SaveState, WInv, MemoryFollowsFile
    <3> QED
      BY <2>1, <3>1 DEF DocumentsTold, Between
  <2> QED
    BY <2>2, <2>3
<1>6. CASE Publish \/ OtherCalls \/ NotifierMoves \/ LoadState \/ LoadFails \/ UNCHANGED vars
  BY <1>1, <1>6 DEF Publish, OtherCalls, NotifierMoves, LoadState, LoadFails, vars, local,
       history, searches
<1>7. CASE Cancelled \/ SaveFails \/ FetchFails \/ EndProcess
  BY <1>2, <1>7 DEF Cancelled, SaveFails, FetchFails, EndProcess, history
<1> QED
  BY <1>3, <1>4, <1>5, <1>6, <1>7 DEF Next, CheckStep

-----------------------------------------------------------------------------
(* Theorems *)

(* The variables of the watcher and its notifier keep their types, over restarts.       *)
THEOREM TypeCorrect == Spec => []TypeOK
<1>1. Init => TypeOK
  <2> SUFFICES ASSUME Init PROVE TypeOK
    OBVIOUS
  <2>1. queue \in Seq(Message) /\ Len(queue) = 0
    BY DEF Init, NotifierInit
  <2>2. NotifierTypeOK
    BY <2>1, QueueAssumption DEF Init, NotifierInit, NotifierTypeOK
  <2>3. NoState \in States
    BY DEF States, NoState
  <2>4. /\ latest = 0 /\ next = 1 /\ got = {}
        /\ asking = NotAsked /\ asked = NotAsked /\ since = NotAsked
        /\ file = NoState /\ st = NoState /\ at = "waiting" /\ first = None
        /\ news = Anchor /\ alerted = {} /\ streak = 0 /\ unsaved = FALSE
    BY DEF Init
  <2>5. alerted \in SUBSET ({"gone", "new"} \X Program) /\ unsaved \in BOOLEAN
    BY <2>4
  <2>6. streak \in 0..2 /\ NotAsked \in [Term -> Nat]
    BY <2>4 DEF NotAsked
  <2> QED
    BY <2>2, <2>3, <2>4, <2>5, <2>6 DEF TypeOK
<1>2. TypeOK /\ NInv /\ [Next]_vars => TypeOK'
  BY WatcherTypeStep
<1> QED
  BY <1>1, <1>2, NotifierInvariantHolds, KeepsNotifier, PTL DEF Spec

(* What is on disk, what is still to be saved and what has been reported agree.        *)
THEOREM InvariantHolds == Spec => []IInv
<1>1. Init => WInv
  BY ThresholdAssumption
     DEF Init, WInv, MemoryFollowsFile, ChangesTold, Outcome, Reported, Told, NoState
<1>2. TypeOK /\ WInv /\ [Next]_vars => WInv'
  BY WatcherInvStep
<1>3. Spec => []WInv
  BY <1>1, <1>2, TypeCorrect, PTL DEF Spec
<1>4. Init => SearchesInv
  BY ListAssumption DEF Init, SearchesInv, DocumentsTold, Between, NotAsked
<1>5. TypeOK /\ WInv /\ SearchesInv /\ [Next]_vars => SearchesInv'
  BY SearchesStep
<1>6. Spec => []SearchesInv
  BY <1>3, <1>4, <1>5, TypeCorrect, PTL DEF Spec
<1>7. TypeOK /\ (NotifierTypeOK /\ NInv) /\ WInv /\ SearchesInv => IInv
  BY DEF IInv
<1> QED
  BY <1>3, <1>6, <1>7, TypeCorrect, NotifierInvariantHolds, KeepsNotifier, PTL

(* A saved snapshot never hides a change: what it lacks or added was reported before.   *)
THEOREM ChangesAreTold == Spec => []AlertedBeforeSaved
<1>1. IInv => AlertedBeforeSaved
  BY DEF IInv, WInv, ChangesTold, AlertedBeforeSaved
<1> QED
  BY <1>1, InvariantHolds, PTL

(* No document goes unreported, over failed checks, lost saves and restarts, unless more   *)
(* of them came between two checks than a search returns.                           *)
THEOREM NoDocumentMissed == Spec => []DocumentsTold
<1>1. IInv => DocumentsTold
  BY DEF IInv, SearchesInv
<1> QED
  BY <1>1, InvariantHolds, PTL

(* As long as every check could save, the reports tell which anchors exist.            *)
THEOREM ReportsMatchSnapshot == Spec => []NewsMatchesSnapshot
<1>1. IInv => NewsMatchesSnapshot
  BY DEF IInv, WInv, Outcome, Reported, NewsMatchesSnapshot
<1> QED
  BY <1>1, InvariantHolds, PTL

(* A run of failures is told once, and a restart neither repeats nor loses it.           *)
THEOREM StreakToldOnce == Spec => []FailureStreakTold
<1>1. IInv => FailureStreakTold
  BY DEF IInv, WInv, Outcome, Told, FailureStreakTold
<1> QED
  BY <1>1, InvariantHolds, PTL
=============================================================================
