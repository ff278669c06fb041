------------------------- MODULE RateLimiterProofs --------------------------
(***************************************************************************)
(* The rate limiter for any number of clients and handlers, any limit, window,  *)
(* table size and wait.  What is bounded is how old the time of a call may be.   *)
(***************************************************************************)
EXTENDS RateLimiter, FiniteSetTheorems, TLAPS

-----------------------------------------------------------------------------
(* The inductive invariant: the time of a call is at most MaxWait old, the window of  *)
(* no record begins ahead of the clock, the window of Watched that was opened last     *)
(* has a record until MaxWait before its end, and the table is not too large.          *)
CallsInv == \A x \in calls : x.at <= now /\ now <= x.at + MaxWait

WindowInv ==
  \A t \in started :
    /\ t <= now
    /\ \/ now + MaxWait >= t + Window
       \/ records[Watched].count > 0 /\ records[Watched].resetAt + MaxWait >= t + Window

RecordsInv ==
  \A k \in Key : records[k].count > 0 =>
    Window <= records[k].resetAt /\ records[k].resetAt <= now + Window

IInv == CallsInv /\ WindowInv /\ RecordsInv /\ TableBounded

(* Every step keeps the types.                                                *)
LEMMA TypeStep == TypeOK /\ [Next]_vars => TypeOK'
<1> SUFFICES ASSUME TypeOK, [Next]_vars
             PROVE  TypeOK'
  OBVIOUS
<1> USE LimiterAssumption DEF TypeOK, Record, NoRecord, Call
<1>1. CASE Tick
  BY <1>1 DEF Tick
<1>2. ASSUME NEW c \in Caller, NEW k \in Key, ReadClock(c, k) PROVE TypeOK'
  BY <1>2 DEF ReadClock
<1>3. ASSUME NEW x \in calls, Open(x) PROVE TypeOK'
  <2>1. Pruned(x.at) \in [Key -> Record] /\ x.at + Window \in Nat
    BY DEF Pruned
  <2>2. records' \in [Key -> Record] /\ started' \in SUBSET Nat
    BY <1>3, <2>1 DEF Open
  <2>3. admitted' \in [0..(MaxClock + 1) -> Nat]
    BY <1>3 DEF Open, Admit
  <2> QED
    BY <1>3, <2>2, <2>3 DEF Open
<1>4. ASSUME NEW x \in calls, Count(x) PROVE TypeOK'
  <2>1. Pruned(x.at) \in [Key -> Record] /\ Pruned(x.at)[x.key].count + 1 \in 0..Limit
    BY <1>4 DEF Count, Pruned, Live
  <2>2. records' \in [Key -> Record]
    BY <1>4, <2>1 DEF Count
  <2>3. admitted' \in [0..(MaxClock + 1) -> Nat]
    BY <1>4 DEF Count, Admit
  <2> QED
    BY <1>4, <2>2, <2>3 DEF Count
<1>5. ASSUME NEW x \in calls, Refuse(x) PROVE TypeOK'
  <2>1. Pruned(x.at) \in [Key -> Record]
    BY DEF Pruned
  <2> QED
    BY <1>5, <2>1 DEF Refuse
<1>6. CASE UNCHANGED vars
  BY <1>6 DEF vars
<1> QED
  BY <1>1, <1>2, <1>3, <1>4, <1>5, <1>6 DEF Next

(* The variables of the limiter keep their types.                                *)
THEOREM TypeCorrect == Spec => []TypeOK
<1>1. Init => TypeOK
  BY LimiterAssumption DEF Init, TypeOK, Record, NoRecord
<1> QED
  BY <1>1, TypeStep, PTL DEF Spec

-----------------------------------------------------------------------------
(* At first there is nothing.                                                   *)
LEMMA InitInv == Init => IInv
<1> SUFFICES ASSUME Init PROVE IInv
  OBVIOUS
<1>1. {k \in Key : records[k].count > 0} = {}
  <2>1. \A k \in Key : records[k].count = 0
    BY DEF Init, NoRecord
  <2> QED
    BY <2>1
<1>2. TableBounded
  <2>1. Cardinality({k \in Key : records[k].count > 0}) = 0
    BY <1>1, FS_EmptySet, Zenon
  <2> QED
    BY <2>1, LimiterAssumption DEF TableBounded
<1> QED
  BY <1>2 DEF Init, IInv, CallsInv, WindowInv, RecordsInv, NoRecord

(* The records that pruneExpired leaves are no more than there were.                  *)
LEMMA PrunedTable ==
  ASSUME TypeOK, IInv, NEW at \in Nat
  PROVE  IsFiniteSet(Live(at)) /\ Cardinality(Live(at)) \in 0..MaxKeys
<1> DEFINE old == {k \in Key : records[k].count > 0}
<1>1. Live(at) \subseteq old /\ old \subseteq Key
  BY DEF Live
<1>2. IsFiniteSet(old) /\ IsFiniteSet(Live(at)) /\ Cardinality(Live(at)) <= Cardinality(old)
  BY <1>1, FS_Subset, LimiterAssumption
<1>3. Cardinality(Live(at)) \in Nat /\ Cardinality(old) \in Nat
  BY <1>2, FS_CardinalityType
<1> QED
  BY <1>2, <1>3, LimiterAssumption DEF IInv, TableBounded

(* Pruning by the time of a call ends no window of Watched more than MaxWait early.      *)
LEMMA PrunedWindow ==
  ASSUME TypeOK, IInv, NEW x \in calls, Watched \notin Live(x.at), NEW t \in started
  PROVE  now + MaxWait >= t + Window
<1>1. x.at \in Nat /\ x.at <= now /\ t \in Nat /\ now \in Nat
  BY DEF TypeOK, Call, IInv, CallsInv
<1>2. records[Watched].count \in Nat /\ records[Watched].resetAt \in Nat
  BY LimiterAssumption DEF TypeOK, Record
<1>3. records[Watched].count > 0 => records[Watched].resetAt <= x.at
  BY <1>1, <1>2, LimiterAssumption DEF Live
<1>4. \/ now + MaxWait >= t + Window
      \/ records[Watched].count > 0 /\ records[Watched].resetAt + MaxWait >= t + Window
  BY DEF IInv, WindowInv
<1> QED
  BY <1>1, <1>2, <1>3, <1>4, LimiterAssumption

(* Every step keeps the invariant.                                             *)
LEMMA InvStep == TypeOK /\ TypeOK' /\ IInv /\ [Next]_vars => IInv'
<1> SUFFICES ASSUME TypeOK, TypeOK', IInv, [Next]_vars
             PROVE  IInv'
  OBVIOUS
<1> USE LimiterAssumption
<1>1. CASE Tick
  <2>1. CallsInv'
    BY <1>1 DEF Tick, IInv, CallsInv, TypeOK, Call
  <2>2. WindowInv'
    BY <1>1 DEF Tick, IInv, WindowInv, TypeOK, Record
  <2>3. RecordsInv'
    BY <1>1 DEF Tick, IInv, RecordsInv, TypeOK, Record
  <2> QED
    BY <1>1, <2>1, <2>2, <2>3 DEF Tick, IInv, TableBounded
<1>2. ASSUME NEW c \in Caller, NEW k \in Key, ReadClock(c, k) PROVE IInv'
  BY <1>2 DEF ReadClock, IInv, CallsInv, WindowInv, RecordsInv, TableBounded, TypeOK
<1>3. ASSUME NEW x \in calls, Open(x) PROVE IInv'
  <2>1. x.at \in Nat /\ x.key \in Key /\ now \in Nat /\ x.at <= now /\ now <= x.at + MaxWait
    BY DEF TypeOK, Call, IInv, CallsInv
  <2>2. CallsInv'
    BY <1>3 DEF Open, IInv, CallsInv
  <2>3. records' = [Pruned(x.at) EXCEPT ![x.key] = [resetAt |-> x.at + Window, count |-> 1]]
    BY <1>3 DEF Open
  <2>4. WindowInv'
    <3>1. CASE x.key = Watched
      <4>1. Pruned(x.at) \in [Key -> Record]
        BY DEF Pruned, NoRecord, TypeOK, Record
      <4>2. /\ started' = {now} /\ now' = now
            /\ records'[Watched].resetAt = x.at + Window /\ records'[Watched].count = 1
        BY <1>3, <2>3, <3>1, <4>1 DEF Open
      <4> QED
        BY <2>1, <4>2 DEF WindowInv
    <3>2. CASE x.key # Watched
      <4>1. started' = started /\ now' = now
        BY <1>3, <3>2 DEF Open
      <4>2. CASE Watched \in Live(x.at)
        <5>1. records'[Watched] = records[Watched]
          BY <2>3, <3>2, <4>2 DEF Pruned
        <5> QED
          BY <4>1, <5>1 DEF IInv, WindowInv
      <4>3. CASE Watched \notin Live(x.at)
        BY <4>1, <4>3, PrunedWindow DEF IInv, WindowInv
      <4> QED
        BY <4>2, <4>3
    <3> QED
      BY <3>1, <3>2
  <2>5. RecordsInv'
    <3>1. ASSUME NEW k \in Key, k # x.key
          PROVE  records'[k] = records[k] \/ records'[k] = NoRecord
      BY <2>3, <3>1 DEF Pruned
    <3>2. records'[x.key].resetAt = x.at + Window
      <4>1. Pruned(x.at) \in [Key -> Record]
        BY DEF Pruned, NoRecord, TypeOK, Record
      <4> QED
        BY <2>1, <2>3, <4>1
    <3>3. now' = now
      BY <1>3 DEF Open
    <3> QED
      BY <2>1, <3>1, <3>2, <3>3 DEF IInv, RecordsInv, NoRecord
  <2>6. TableBounded'
    <3>1. {k \in Key : records'[k].count > 0} \subseteq Live(x.at) \cup {x.key}
      <4>1. \A k \in Key \ ({x.key} \cup Live(x.at)) : records'[k] = NoRecord
        BY <2>3 DEF Pruned
      <4> QED
        BY <4>1 DEF NoRecord
    <3>2. IsFiniteSet(Live(x.at)) /\ Cardinality(Live(x.at)) \in Nat /\ Cardinality(Live(x.at)) < MaxKeys
      BY <1>3, <2>1, PrunedTable DEF Open
    <3>3. /\ IsFiniteSet(Live(x.at) \cup {x.key})
          /\ Cardinality(Live(x.at) \cup {x.key}) <= Cardinality(Live(x.at)) + 1
          /\ Cardinality(Live(x.at) \cup {x.key}) \in Nat
      <4>1. IsFiniteSet(Live(x.at) \cup {x.key})
        BY <3>2, FS_AddElement
      <4>2. Cardinality(Live(x.at) \cup {x.key})
              = IF x.key \in Live(x.at) THEN Cardinality(Live(x.at)) ELSE Cardinality(Live(x.at)) + 1
        BY <3>2, FS_AddElement
      <4> QED
        BY <3>2, <4>1, <4>2
    <3>4. LET new == {k \in Key : records'[k].count > 0}
          IN Cardinality(new) \in Nat /\ Cardinality(new) <= Cardinality(Live(x.at) \cup {x.key})
      BY <3>1, <3>3, FS_Subset, FS_CardinalityType
    <3> QED
      BY <3>2, <3>3, <3>4 DEF TableBounded
  <2> QED
    BY <2>2, <2>4, <2>5, <2>6 DEF IInv
<1>4. ASSUME NEW x \in calls, records' = Pruned(x.at) \/ Count(x),
             calls' = calls \ {x}, UNCHANGED <<now, started>>
      PROVE  IInv'
  <2>1. x.at \in Nat /\ x.key \in Key
    BY DEF TypeOK, Call
  <2>2. CallsInv'
    BY <1>4 DEF IInv, CallsInv
  <2>3. Watched \in Live(x.at) =>
          /\ records'[Watched].resetAt = records[Watched].resetAt
          /\ records'[Watched].count > 0
    <3> SUFFICES ASSUME Watched \in Live(x.at)
                 PROVE  /\ records'[Watched].resetAt = records[Watched].resetAt
                        /\ records'[Watched].count > 0
      OBVIOUS
    <3>1. Pruned(x.at)[Watched] = records[Watched] /\ records[Watched] \in Record
      BY DEF Pruned, TypeOK
    <3>2. records[Watched].count \in Nat /\ records[Watched].count > 0
      BY <3>1 DEF Live, Record
    <3>3. Pruned(x.at) \in [Key -> Record]
      BY DEF Pruned, NoRecord, TypeOK, Record
    <3>4. CASE records' = Pruned(x.at)
      BY <3>1, <3>2, <3>4
    <3>5. CASE Count(x)
      <4>1. records' = [Pruned(x.at) EXCEPT ![x.key].count = @ + 1]
        BY <3>5 DEF Count
      <4>2. CASE x.key = Watched
        BY <3>1, <3>2, <3>3, <4>1, <4>2 DEF Record
      <4>3. CASE x.key # Watched
        BY <3>1, <3>2, <3>3, <4>1, <4>3
      <4> QED
        BY <4>2, <4>3
    <3> QED
      BY <1>4, <3>4, <3>5
  <2>4. WindowInv'
    <3>1. CASE Watched \in Live(x.at)
      BY <1>4, <2>3, <3>1 DEF IInv, WindowInv
    <3>2. CASE Watched \notin Live(x.at)
      BY <1>4, <3>2, PrunedWindow DEF IInv, WindowInv
    <3> QED
      BY <3>1, <3>2
  <2>5. {k \in Key : records'[k].count > 0} \subseteq Live(x.at)
    BY <1>4, <2>1 DEF Count, Pruned, NoRecord, Live
  <2>6. TableBounded'
    <3>1. IsFiniteSet(Live(x.at)) /\ Cardinality(Live(x.at)) \in 0..MaxKeys
      BY <2>1, PrunedTable
    <3>2. LET new == {k \in Key : records'[k].count > 0}
          IN Cardinality(new) \in Nat /\ Cardinality(new) <= Cardinality(Live(x.at))
      BY <2>5, <3>1, FS_Subset, FS_CardinalityType
    <3> QED
      BY <3>1, <3>2 DEF TableBounded
  <2>7. RecordsInv'
    <3>1. Pruned(x.at) \in [Key -> Record]
      BY DEF Pruned, NoRecord, TypeOK, Record
    <3>2. ASSUME NEW k \in Key
          PROVE  records'[k].resetAt = Pruned(x.at)[k].resetAt
      BY <1>4, <3>1 DEF Count, Record
    <3>3. ASSUME NEW k \in Key, records'[k].count > 0
          PROVE  records[k].count > 0 /\ records'[k].resetAt = records[k].resetAt
      <4>1. k \in Live(x.at)
        BY <2>5, <3>3
      <4> QED
        BY <3>2, <4>1 DEF Live, Pruned
    <3>4. now' = now
      BY <1>4
    <3> QED
      BY <3>3, <3>4 DEF IInv, RecordsInv
  <2> QED
    BY <2>2, <2>4, <2>6, <2>7 DEF IInv
<1>5. ASSUME NEW x \in calls, Count(x) PROVE IInv'
  BY <1>4, <1>5 DEF Count
<1>6. ASSUME NEW x \in calls, Refuse(x) PROVE IInv'
  BY <1>4, <1>6 DEF Refuse
<1>7. CASE UNCHANGED vars
  BY <1>7 DEF vars, IInv, CallsInv, WindowInv, RecordsInv, TableBounded
<1> QED
  BY <1>1, <1>2, <1>3, <1>5, <1>6, <1>7 DEF Next

(* The invariant holds in every reachable state.                                  *)
THEOREM InvariantHolds == Spec => [](TypeOK /\ IInv)
<1>1. TypeOK /\ IInv /\ [Next]_vars => (TypeOK /\ IInv)'
  BY TypeStep, InvStep
<1> QED
  BY <1>1, InitInv, TypeCorrect, PTL DEF Spec

-----------------------------------------------------------------------------
(* What was admitted *)

(* What the window of Watched that stands may have admitted: what its record counts, or   *)
(* a whole limit once the record has gone.                                       *)
Standing == IF records[Watched].count > 0 THEN records[Watched].count ELSE Limit

(* Nothing is admitted before the first window, and each window begins with a count.    *)
HistoryInv ==
  /\ \A t \in 0..(MaxClock + 1) :
       /\ admitted[t] <= admitted[now + 1]
       /\ now < t => admitted[t] = admitted[now + 1]
  /\ started = {} => records[Watched].count = 0 /\ admitted[now + 1] = 0
  /\ \E s \in 0..now : started \subseteq {s}

(* Since any time after the last window was opened, no more was admitted than stands;   *)
(* since a time closer than a window to its end, a limit more, from the window before.  *)
AdmittedInv ==
  \A s \in started, t \in 0..(MaxClock + 1) :
    /\ s < t => admitted[now + 1] <= admitted[t] + Standing
    /\ s + MaxWait < t + Window => admitted[now + 1] <= admitted[t] + Limit + Standing

CountInv == HistoryInv /\ AdmittedInv /\ TwiceTheLimit

(* The bound for what was admitted up to now.                                     *)
BoundedUpToNow ==
  \A t \in 0..now : now + MaxWait < t + Window => admitted[now + 1] <= admitted[t] + 2 * Limit

LEMMA LatestAdmitted == TypeOK /\ HistoryInv /\ AdmittedInv => BoundedUpToNow
<1> USE LimiterAssumption
<1> SUFFICES ASSUME TypeOK, HistoryInv, AdmittedInv,
                    NEW t \in 0..now, now + MaxWait < t + Window
             PROVE  admitted[now + 1] <= admitted[t] + 2 * Limit
  BY DEF BoundedUpToNow
<1>1. now \in Nat /\ t \in 0..(MaxClock + 1) /\ admitted[t] \in Nat /\ admitted[now + 1] \in Nat
  BY DEF TypeOK
<1>2. Standing \in Nat /\ Standing <= Limit
  BY DEF TypeOK, Record, Standing
<1>3. CASE started = {}
  BY <1>1, <1>3 DEF HistoryInv
<1>4. ASSUME NEW s \in started PROVE admitted[now + 1] <= admitted[t] + 2 * Limit
  <2>1. s \in Nat /\ s <= now
    BY DEF HistoryInv
  <2>2. s + MaxWait < t + Window
    BY <1>1, <2>1
  <2>3. admitted[now + 1] <= admitted[t] + Limit + Standing
    BY <1>1, <2>2 DEF AdmittedInv
  <2> QED
    BY <1>1, <1>2, <2>3
<1> QED
  BY <1>3, <1>4

(* A step that admits no call of Watched and leaves its record or drops it.             *)
LEMMA NothingAdmitted ==
  ASSUME TypeOK, TypeOK', CountInv, UNCHANGED <<now, started, admitted>>,
         records'[Watched].count \in {0, records[Watched].count}
  PROVE  CountInv'
<1> USE LimiterAssumption
<1>1. HistoryInv'
  BY DEF CountInv, HistoryInv
<1>2. TwiceTheLimit'
  BY DEF CountInv, TwiceTheLimit
<1>3. AdmittedInv'
  <2>1. Standing \in Nat /\ Standing' \in Nat /\ Standing <= Standing'
    BY DEF TypeOK, Record, Standing
  <2>2. now \in Nat /\ admitted \in [0..(MaxClock + 1) -> Nat] /\ now + 1 \in 0..(MaxClock + 1)
    BY DEF TypeOK
  <2> SUFFICES ASSUME NEW s \in started, NEW t \in 0..(MaxClock + 1)
               PROVE  /\ s < t => admitted[now + 1] <= admitted[t] + Standing'
                      /\ s + MaxWait < t + Window =>
                           admitted[now + 1] <= admitted[t] + Limit + Standing'
    BY DEF AdmittedInv
  <2>3. /\ s < t => admitted[now + 1] <= admitted[t] + Standing
        /\ s + MaxWait < t + Window => admitted[now + 1] <= admitted[t] + Limit + Standing
    BY DEF CountInv, AdmittedInv
  <2>4. admitted[now + 1] \in Nat /\ admitted[t] \in Nat
    BY <2>2
  <2> QED
    BY <2>1, <2>3, <2>4
<1> QED
  BY <1>1, <1>2, <1>3 DEF CountInv

(* An admission changes nothing of the past, so the bound up to now is all there is to it.  *)
LEMMA AdmissionBounded ==
  ASSUME TypeOK, CountInv, BoundedUpToNow', now' = now,
         \A t \in 0..(MaxClock + 1) :
           admitted'[t] = IF now < t THEN admitted[t] + 1 ELSE admitted[t]
  PROVE  TwiceTheLimit'
<1> USE LimiterAssumption
<1>1. now \in Nat /\ now <= MaxClock
  BY DEF TypeOK
<1> SUFFICES ASSUME NEW t \in 0..now, NEW e \in 0..now, e + MaxWait < t + Window
             PROVE  admitted'[e + 1] <= admitted'[t] + 2 * Limit
  BY DEF TwiceTheLimit
<1>2. CASE e = now
  BY <1>2 DEF BoundedUpToNow
<1>3. CASE e < now
  <2>1. admitted'[e + 1] = admitted[e + 1] /\ admitted'[t] = admitted[t]
    BY <1>1, <1>3
  <2> QED
    BY <2>1 DEF CountInv, TwiceTheLimit
<1> QED
  BY <1>1, <1>2, <1>3

(* Time passing admits nothing, and makes what was admitted up to now part of the past.  *)
LEMMA TickCounts ==
  ASSUME TypeOK, TypeOK', CountInv, Tick
  PROVE  CountInv'
<1> USE LimiterAssumption
<1>1. /\ now \in Nat /\ now < MaxClock /\ now' = now + 1 /\ admitted' = admitted
      /\ started' = started /\ records' = records
  BY DEF Tick, TypeOK
<1>2. admitted \in [0..(MaxClock + 1) -> Nat]
  BY DEF TypeOK
<1>3. admitted[now + 2] = admitted[now + 1]
  BY <1>1 DEF CountInv, HistoryInv
<1>4. HistoryInv'
  <2>1. \A t \in 0..(MaxClock + 1) :
          /\ admitted[t] <= admitted[now + 1]
          /\ now + 1 < t => admitted[t] = admitted[now + 1]
    BY <1>1 DEF CountInv, HistoryInv
  <2>2. \E s \in 0..(now + 1) : started \subseteq {s}
    BY <1>1 DEF CountInv, HistoryInv
  <2> QED
    BY <1>1, <1>3, <2>1, <2>2 DEF CountInv, HistoryInv
<1>5. AdmittedInv'
  BY <1>1, <1>3 DEF CountInv, AdmittedInv, Standing
<1>6. BoundedUpToNow'
  BY <1>4, <1>5, LatestAdmitted, PTL
<1>7. TwiceTheLimit'
  <2> SUFFICES ASSUME NEW t \in 0..(now + 1), NEW e \in 0..(now + 1), e + MaxWait < t + Window
               PROVE  admitted[e + 1] <= admitted[t] + 2 * Limit
    BY <1>1 DEF TwiceTheLimit
  <2>1. CASE e \in 0..now /\ t \in 0..now
    BY <2>1 DEF CountInv, TwiceTheLimit
  <2>2. CASE e = now + 1
    BY <1>1, <1>6, <2>2 DEF BoundedUpToNow
  <2>3. CASE e \in 0..now /\ t = now + 1
    <3>1. e + 1 \in 0..(MaxClock + 1)
      BY <1>1, <2>3
    <3>2. admitted[e + 1] <= admitted[now + 1] /\ admitted[e + 1] \in Nat /\ admitted[now + 1] \in Nat
      BY <1>1, <1>2, <3>1 DEF CountInv, HistoryInv
    <3> QED
      BY <2>3, <3>2
  <2> QED
    BY <1>1, <2>1, <2>2, <2>3
<1> QED
  BY <1>4, <1>5, <1>7 DEF CountInv

(* A call of Watched that is admitted in the window that stands.                        *)
LEMMA CountCounts ==
  ASSUME TypeOK, TypeOK', CountInv, NEW x \in calls, Count(x), x.key = Watched
  PROVE  CountInv'
<1> USE LimiterAssumption
<1>1. /\ now \in Nat /\ now <= MaxClock /\ now' = now /\ started' = started
      /\ admitted \in [0..(MaxClock + 1) -> Nat]
  BY DEF TypeOK, Count
<1>2. \A t \in 0..(MaxClock + 1) : admitted'[t] = IF now < t THEN admitted[t] + 1 ELSE admitted[t]
  BY DEF Count, Admit
<1>3. Standing \in Nat /\ Standing' = Standing + 1 /\ started # {}
  <2>1. records[Watched].count \in Nat /\ records[Watched].count > 0
    BY DEF Count, Live, TypeOK, Record
  <2>2. Pruned(x.at) \in [Key -> Record] /\ Pruned(x.at)[Watched] = records[Watched]
    BY DEF Count, Pruned, NoRecord, TypeOK, Record
  <2>3. records'[Watched].count = records[Watched].count + 1
    BY <2>1, <2>2 DEF Count, Record
  <2>4. started # {}
    BY <2>1 DEF CountInv, HistoryInv
  <2> QED
    BY <2>1, <2>3, <2>4 DEF Standing
<1>4. HistoryInv'
  <2>1. admitted'[now + 1] = admitted[now + 1] + 1 /\ admitted[now + 1] \in Nat
    BY <1>1, <1>2
  <2>2. ASSUME NEW t \in 0..(MaxClock + 1)
        PROVE  /\ admitted'[t] <= admitted'[now + 1]
               /\ now < t => admitted'[t] = admitted'[now + 1]
    <3>1. /\ admitted[t] <= admitted[now + 1] /\ admitted[t] \in Nat
          /\ now < t => admitted[t] = admitted[now + 1]
      BY <1>1 DEF CountInv, HistoryInv
    <3> QED
      BY <1>1, <1>2, <2>1, <3>1
  <2>3. \E s \in 0..now : started \subseteq {s}
    BY DEF CountInv, HistoryInv
  <2> QED
    BY <1>1, <1>3, <2>2, <2>3 DEF HistoryInv
<1>5. AdmittedInv'
  <2> SUFFICES ASSUME NEW s \in started, NEW t \in 0..(MaxClock + 1)
               PROVE  /\ s < t => admitted'[now + 1] <= admitted'[t] + Standing'
                      /\ s + MaxWait < t + Window =>
                           admitted'[now + 1] <= admitted'[t] + Limit + Standing'
    BY <1>1 DEF AdmittedInv
  <2>1. /\ s < t => admitted[now + 1] <= admitted[t] + Standing
        /\ s + MaxWait < t + Window => admitted[now + 1] <= admitted[t] + Limit + Standing
    BY DEF CountInv, AdmittedInv
  <2>2. /\ admitted'[now + 1] = admitted[now + 1] + 1
        /\ admitted[now + 1] \in Nat /\ admitted[t] \in Nat /\ admitted'[t] \in Nat
        /\ admitted[t] <= admitted'[t]
    BY <1>1, <1>2
  <2> QED
    BY <1>3, <2>1, <2>2
<1>6. BoundedUpToNow'
  BY <1>4, <1>5, LatestAdmitted, PTL
<1> QED
  BY <1>1, <1>2, <1>4, <1>5, <1>6, AdmissionBounded DEF CountInv

(* A call of Watched that opens a window.  By WindowsSpaced the last one began a window   *)
(* ago, less the wait, so that what stands of it is the whole of the limit.             *)
LEMMA OpenCounts ==
  ASSUME TypeOK, TypeOK', IInv, CountInv, NEW x \in calls, Open(x), x.key = Watched
  PROVE  CountInv'
<1> USE LimiterAssumption
<1>1. /\ now \in Nat /\ now <= MaxClock /\ now' = now /\ started' = {now}
      /\ admitted \in [0..(MaxClock + 1) -> Nat]
  BY DEF TypeOK, Open
<1>2. \A t \in 0..(MaxClock + 1) : admitted'[t] = IF now < t THEN admitted[t] + 1 ELSE admitted[t]
  BY DEF Open, Admit
<1>3. Standing' = 1
  <2>1. Pruned(x.at) \in [Key -> Record]
    BY DEF Pruned, NoRecord, TypeOK, Record
  <2>2. records'[Watched].count = 1
    BY <2>1 DEF Open
  <2> QED
    BY <2>2 DEF Standing
<1>4. HistoryInv'
  <2>1. admitted'[now + 1] = admitted[now + 1] + 1 /\ admitted[now + 1] \in Nat
    BY <1>1, <1>2
  <2>2. ASSUME NEW t \in 0..(MaxClock + 1)
        PROVE  /\ admitted'[t] <= admitted'[now + 1]
               /\ now < t => admitted'[t] = admitted'[now + 1]
    <3>1. /\ admitted[t] <= admitted[now + 1] /\ admitted[t] \in Nat
          /\ now < t => admitted[t] = admitted[now + 1]
      BY <1>1 DEF CountInv, HistoryInv
    <3> QED
      BY <1>1, <1>2, <2>1, <3>1
  <2> QED
    BY <1>1, <2>2 DEF HistoryInv
<1>5. AdmittedInv'
  <2> SUFFICES ASSUME NEW t \in 0..(MaxClock + 1)
               PROVE  /\ now < t => admitted'[now + 1] <= admitted'[t] + 1
                      /\ now + MaxWait < t + Window =>
                           admitted'[now + 1] <= admitted'[t] + Limit + 1
    BY <1>1, <1>3 DEF AdmittedInv
  <2>1. admitted'[now + 1] = admitted[now + 1] + 1 /\ admitted[now + 1] \in Nat /\ admitted[t] \in Nat
    BY <1>1, <1>2
  <2>2. /\ now < t => admitted'[t] = admitted[now + 1] + 1
        /\ admitted'[t] \in Nat /\ admitted[t] <= admitted'[t]
    BY <1>1, <1>2, <2>1 DEF CountInv, HistoryInv
  <2>3. ASSUME now + MaxWait < t + Window PROVE admitted[now + 1] <= admitted[t] + Limit
    <3>1. CASE started = {}
      BY <2>1, <3>1 DEF CountInv, HistoryInv
    <3>2. ASSUME NEW s \in started PROVE admitted[now + 1] <= admitted[t] + Limit
      <4>1. s \in Nat
        BY DEF TypeOK
      <4>2. now + MaxWait >= s + Window
        BY PrunedWindow DEF Open
      <4>3. s < t
        BY <1>1, <2>3, <4>1, <4>2
      <4>4. admitted[now + 1] <= admitted[t] + Standing
        BY <4>3 DEF CountInv, AdmittedInv
      <4>5. Standing \in Nat /\ Standing <= Limit
        BY DEF TypeOK, Record, Standing
      <4> QED
        BY <2>1, <4>4, <4>5
    <3> QED
      BY <3>1, <3>2
  <2> QED
    BY <2>1, <2>2, <2>3
<1>6. BoundedUpToNow'
  BY <1>4, <1>5, LatestAdmitted, PTL
<1> QED
  BY <1>1, <1>2, <1>4, <1>5, <1>6, AdmissionBounded DEF CountInv

(* Every step keeps the counts.                                              *)
LEMMA CountStep == TypeOK /\ TypeOK' /\ IInv /\ CountInv /\ [Next]_vars => CountInv'
<1> SUFFICES ASSUME TypeOK, TypeOK', IInv, CountInv, [Next]_vars
             PROVE  CountInv'
  OBVIOUS
<1>1. CASE Tick
  BY <1>1, TickCounts
<1>2. ASSUME UNCHANGED <<now, records, started, admitted>> PROVE CountInv'
  BY <1>2, NothingAdmitted
<1>3. ASSUME NEW x \in calls, x.key # Watched \/ Refuse(x), Open(x) \/ Count(x) \/ Refuse(x)
      PROVE  CountInv'
  <2>1. Pruned(x.at) \in [Key -> Record]
        /\ Pruned(x.at)[Watched].count \in {0, records[Watched].count}
    BY LimiterAssumption DEF Pruned, NoRecord, TypeOK, Record
  <2>2. x.key \in Key /\ Watched \in Key
    BY LimiterAssumption DEF TypeOK, Call
  <2>3. records'[Watched] = Pruned(x.at)[Watched]
    BY <1>3, <2>1, <2>2 DEF Open, Count, Refuse
  <2>4. admitted' = admitted
    <3>1. CASE Refuse(x)
      BY <3>1 DEF Refuse
    <3>2. CASE Admit(x) /\ x.key # Watched
      BY <3>2 DEF Admit, TypeOK
    <3> QED
      BY <1>3, <3>1, <3>2 DEF Open, Count
  <2>5. now' = now /\ started' = started
    BY <1>3 DEF Open, Count, Refuse
  <2> QED
    BY <2>1, <2>3, <2>4, <2>5, NothingAdmitted
<1>4. ASSUME NEW c \in Caller, NEW k \in Key, ReadClock(c, k) PROVE CountInv'
  BY <1>2, <1>4 DEF ReadClock
<1>5. CASE UNCHANGED vars
  BY <1>2, <1>5 DEF vars
<1> QED
  BY <1>1, <1>3, <1>4, <1>5, CountCounts, OpenCounts DEF Next

(* No client is admitted more than twice the limit in any stretch shorter than a window    *)
(* less the longest wait.                                                       *)
THEOREM NoMoreThanTwice == Spec => []TwiceTheLimit
<1>1. Init => CountInv
  BY LimiterAssumption
     DEF Init, NoRecord, CountInv, HistoryInv, AdmittedInv, TwiceTheLimit
<1>2. TypeOK /\ TypeOK' /\ IInv /\ CountInv /\ [Next]_vars => CountInv'
  BY CountStep
<1>3. Spec => []CountInv
  BY <1>1, <1>2, InvariantHolds, PTL DEF Spec
<1> QED
  BY <1>3, PTL DEF CountInv

-----------------------------------------------------------------------------
(* What the invariant implies *)

(* The table never outgrows maxKeys, though records are pruned by old times.            *)
THEOREM TableStaysBounded == Spec => []TableBounded
BY InvariantHolds, PTL DEF IInv

(* A window of a client begins at the earliest MaxWait before the last one's end.        *)
THEOREM WindowsKeepApart == Spec => WindowsSpaced
<1>1. TypeOK /\ IInv /\ [Next]_vars =>
        [\A x \in calls : Open(x) /\ x.key = Watched =>
           \A t \in started : now + MaxWait >= t + Window]_vars
  BY PrunedWindow DEF Open
<1> QED
  BY <1>1, InvariantHolds, PTL DEF Spec, WindowsSpaced

(* No client is refused for what has been over for longer than its call waited.          *)
THEOREM RefusalsHaveReasons == Spec => RefusedForAReason
<1>1. TypeOK /\ IInv /\ [Next]_vars =>
        [\A x \in calls : Refuse(x) =>
           \/ records[x.key].count >= Limit /\ now < records[x.key].resetAt + MaxWait
           \/ Cardinality({k \in Key : records[k].count > 0 /\ now < records[k].resetAt + MaxWait})
                >= MaxKeys]_vars
  <2> SUFFICES ASSUME TypeOK, IInv, NEW x \in calls, Refuse(x)
               PROVE  \/ records[x.key].count >= Limit /\ now < records[x.key].resetAt + MaxWait
                      \/ Cardinality({k \in Key : records[k].count > 0
                                                  /\ now < records[k].resetAt + MaxWait}) >= MaxKeys
    OBVIOUS
  <2>1. x.at \in Nat /\ x.key \in Key /\ now \in Nat /\ now <= x.at + MaxWait
    BY DEF TypeOK, Call, IInv, CallsInv
  <2>2. \A k \in Live(x.at) : k \in Key /\ records[k].count > 0 /\ now < records[k].resetAt + MaxWait
    BY <2>1, LimiterAssumption DEF Live, TypeOK, Record
  <2>3. CASE x.key \in Live(x.at)
    BY <2>2, <2>3 DEF Refuse
  <2>4. CASE x.key \notin Live(x.at)
    <3> DEFINE full == {k \in Key : records[k].count > 0 /\ now < records[k].resetAt + MaxWait}
    <3>1. Cardinality(Live(x.at)) >= MaxKeys
      BY <2>4 DEF Refuse
    <3>2. Live(x.at) \subseteq full /\ full \subseteq Key
      BY <2>2
    <3>3. IsFiniteSet(full) /\ Cardinality(Live(x.at)) <= Cardinality(full)
      BY <3>2, FS_Subset, LimiterAssumption
    <3>4. Cardinality(full) \in Nat /\ Cardinality(Live(x.at)) \in Nat
      BY <2>1, <3>3, PrunedTable, FS_CardinalityType
    <3> QED
      BY <3>1, <3>3, <3>4, LimiterAssumption
  <2> QED
    BY <2>3, <2>4
<1> QED
  BY <1>1, InvariantHolds, PTL DEF Spec, RefusedForAReason
=============================================================================
