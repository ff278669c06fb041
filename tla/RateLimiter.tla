---------------------------- MODULE RateLimiter -----------------------------
(***************************************************************************)
(* The rate limiter of the share handlers (src/internal/server/rate_limit.go): *)
(* windows of a fixed length per client, in a table of bounded size.  allow      *)
(* reads the clock before it takes the lock, so its time may be an old one.      *)
(***************************************************************************)
EXTENDS Naturals, FiniteSets

CONSTANTS
  Key,        \* the clients
  Watched,    \* the client whose windows are observed: any one, as all are alike
  Caller,     \* the handlers that may be in allow at a time
  Limit,
  Window,
  MaxKeys,
  MaxWait,    \* how long a handler may wait between the clock and the lock
  MaxClock    \* bound: the clock of a run

ASSUME LimiterAssumption ==
  /\ Watched \in Key /\ IsFiniteSet(Key)
  /\ Limit \in Nat \ {0} /\ Window \in Nat \ {0} /\ MaxKeys \in Nat \ {0}
  /\ MaxWait \in Nat /\ MaxClock \in Nat

VARIABLES
  now,
  records,    \* for each client; a count of 0 stands for no record
  calls,      \* the calls that have read the clock and wait for the lock
  started,    \* history: when the last window of Watched was opened, if one was
  admitted    \* history: how many calls of Watched were admitted before each time

vars == <<now, records, calls, started, admitted>>

Record == [resetAt : Nat, count : 0..Limit]
NoRecord == [resetAt |-> 0, count |-> 0]
Call == [caller : Caller, key : Key, at : Nat]

Init ==
  /\ now = 0
  /\ records = [k \in Key |-> NoRecord]
  /\ calls = {}
  /\ started = {}
  /\ admitted = [t \in 0..(MaxClock + 1) |-> 0]

Tick ==
  /\ now < MaxClock
  /\ \A x \in calls : now - x.at < MaxWait
  /\ now' = now + 1
  /\ UNCHANGED <<records, calls, started, admitted>>

ReadClock(c, k) ==
  /\ \A x \in calls : x.caller # c
  /\ calls' = calls \cup {[caller |-> c, key |-> k, at |-> now]}
  /\ UNCHANGED <<now, records, started, admitted>>

-----------------------------------------------------------------------------
(* allow, with the lock *)

(* A faulty variant: a record outlives its window by an instant.                   *)
LateLive(at) == {k \in Key : records[k].count > 0 /\ at <= records[k].resetAt}

(* A faulty variant: a record ends an instant early.                              *)
EarlyLive(at) == {k \in Key : records[k].count > 0 /\ at + 1 < records[k].resetAt}

(* The records that pruneExpired leaves, and the table without the others.          *)
Live(at) == {k \in Key : records[k].count > 0 /\ at < records[k].resetAt}

Pruned(at) == [k \in Key |-> IF k \in Live(at) THEN records[k] ELSE NoRecord]

Admit(x) ==
  admitted' = [t \in 0..(MaxClock + 1) |->
                 IF x.key = Watched /\ now < t THEN admitted[t] + 1 ELSE admitted[t]]

Open(x) ==
  /\ x \in calls
  /\ x.key \notin Live(x.at)
  /\ Cardinality(Live(x.at)) < MaxKeys
  /\ records' = [Pruned(x.at) EXCEPT ![x.key] = [resetAt |-> x.at + Window, count |-> 1]]
  /\ calls' = calls \ {x}
  /\ started' = IF x.key = Watched THEN {now} ELSE started
  /\ Admit(x)
  /\ UNCHANGED now

(* A faulty variant: the new count is not stored.                                *)
CountForgotten(x) ==
  /\ x \in calls
  /\ x.key \in Live(x.at)
  /\ records[x.key].count < Limit
  /\ records' = Pruned(x.at)
  /\ calls' = calls \ {x}
  /\ Admit(x)
  /\ UNCHANGED <<now, started>>

Count(x) ==
  /\ x \in calls
  /\ x.key \in Live(x.at)
  /\ records[x.key].count < Limit
  /\ records' = [Pruned(x.at) EXCEPT ![x.key].count = @ + 1]
  /\ calls' = calls \ {x}
  /\ Admit(x)
  /\ UNCHANGED <<now, started>>

Refuse(x) ==
  /\ x \in calls
  /\ IF x.key \in Live(x.at)
     THEN records[x.key].count >= Limit
     ELSE Cardinality(Live(x.at)) >= MaxKeys
  /\ records' = Pruned(x.at)
  /\ calls' = calls \ {x}
  /\ UNCHANGED <<now, started, admitted>>

-----------------------------------------------------------------------------
Next ==
  \/ Tick
  \/ \E c \in Caller, k \in Key : ReadClock(c, k)
  \/ \E x \in calls : Open(x) \/ Count(x) \/ Refuse(x)

Spec == Init /\ [][Next]_vars

-----------------------------------------------------------------------------
(* Properties *)

TypeOK ==
  /\ now \in 0..MaxClock
  /\ records \in [Key -> Record]
  /\ calls \in SUBSET Call
  /\ started \in SUBSET Nat
  /\ admitted \in [0..(MaxClock + 1) -> Nat]

(* The table never outgrows maxKeys, though clients come at old and new times and       *)
(* records end between two of them.                                              *)
TableBounded == Cardinality({k \in Key : records[k].count > 0}) <= MaxKeys

(* A call made with an old time can cut a window short, since its record ends early,   *)
(* but by no more than the call waited.                                          *)
WindowsSpaced ==
  [][\A x \in calls : Open(x) /\ x.key = Watched =>
       \A t \in started : now + MaxWait >= t + Window]_vars

(* So no client is admitted more than twice the limit in less than a window less the    *)
(* longest wait, wherever the windows begin.                                      *)
TwiceTheLimit ==
  \A t, e \in 0..now :
    e + MaxWait < t + Window => admitted[e + 1] <= admitted[t] + 2 * Limit

(* A call is refused for a reason: its client has had its calls, or the table is full,  *)
(* and what stands against it has not been over for longer than the call waited.       *)
RefusedForAReason ==
  [][\A x \in calls : Refuse(x) =>
       \/ records[x.key].count >= Limit /\ now < records[x.key].resetAt + MaxWait
       \/ Cardinality({k \in Key : records[k].count > 0 /\ now < records[k].resetAt + MaxWait})
            >= MaxKeys]_vars
=============================================================================
