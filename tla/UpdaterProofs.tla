---------------------------- MODULE UpdaterProofs ---------------------------
(***************************************************************************)
(* The safety of Updater, for every catalogue, configuration, retry ladder    *)
(* and length of run: the schedule alone first, then types, then the         *)
(* inductive invariant of                                                    *)
(* UpdaterInvariant, one lemma per action that changes an entry, the schedule *)
(* or the disk, then the properties it implies.                              *)
(***************************************************************************)
EXTENDS UpdaterInvariant, FiniteSetTheorems, TLAPS

-----------------------------------------------------------------------------
(* Induction over sets of naturals, for the recursive function of the retry ladder *)

(* Induction in the form of sets: a set of naturals that is not empty has a least element. *)
LEMMA LeastNatural ==
  ASSUME NEW S, S \subseteq Nat, S # {}
  PROVE  \E m \in S : \A k \in S : m <= k
<1> DEFINE below == {0..k : k \in S}
<1>1. below \subseteq FiniteSubsetsOf(Nat)
  <2>1. ASSUME NEW k \in Nat PROVE IsFiniteSet(0..k) /\ 0..k \subseteq Nat
    <3>1. 0 \in Int /\ k \in Int
      OBVIOUS
    <3> QED
      BY <3>1, FS_Interval
  <2> QED
    BY <2>1 DEF FiniteSubsetsOf
<1>2. PICK w \in below : \A x \in below : <<x, w>> \notin StrictSubsetOrdering(Nat)
  <2>1. below # {}
    OBVIOUS
  <2> HIDE DEF below
  <2>2. IsWellFoundedOn(StrictSubsetOrdering(Nat), FiniteSubsetsOf(Nat))
    BY FS_StrictSubsetOrderingWellFounded
  <2> QED
    BY <1>1, <2>1, <2>2, WFMin
<1>3. PICK m \in S : w = 0..m
  OBVIOUS
<1>4. ASSUME NEW k \in S, k < m PROVE FALSE
  <2>1. 0..k \subseteq 0..m /\ 0..k # 0..m
    <3>1. k \in Nat /\ m \in Nat /\ m \in 0..m /\ m \notin 0..k
      BY <1>4
    <3> QED
      BY <1>4, <3>1
  <2>2. <<0..k, 0..m>> \in StrictSubsetOrdering(Nat)
    BY <2>1 DEF StrictSubsetOrdering
  <2> QED
    BY <1>2, <1>3, <2>2
<1> QED
  BY <1>4

(* So a set with 0 and with the successor of each of its elements has every natural. *)
LEMMA SetInduction ==
  ASSUME NEW S, 0 \in S, \A n \in Nat : n \in S => n + 1 \in S
  PROVE  Nat \subseteq S
<1> SUFFICES ASSUME Nat \ S # {} PROVE FALSE
  OBVIOUS
<1>1. PICK m \in Nat \ S : \A k \in Nat \ S : m <= k
  BY LeastNatural
<1>2. m # 0 /\ m - 1 \in Nat /\ m - 1 < m
  BY <1>1
<1>3. m - 1 \in S
  BY <1>1, <1>2
<1> QED
  BY <1>1, <1>2, <1>3

(* A function that a first value and a step define exists. *)
LEMMA IteratedFunction ==
  ASSUME NEW A, NEW first \in A, NEW step \in [A -> A]
  PROVE  \E f \in [Nat -> A] : f = [n \in Nat |-> IF n = 0 THEN first ELSE step[f[n - 1]]]
<1> DEFINE Begins(g, n) == g[0] = first /\ \A i \in 1..n : g[i] = step[g[i - 1]]
           has == {n \in Nat : \E g \in [0..n -> A] : Begins(g, n)}
<1>1. Nat \subseteq has
  <2>1. 0 \in has
    <3>1. [i \in 0..0 |-> first] \in [0..0 -> A] /\ Begins([i \in 0..0 |-> first], 0)
      OBVIOUS
    <3> QED
      BY <3>1
  <2>2. ASSUME NEW n \in Nat, n \in has PROVE n + 1 \in has
    <3>1. PICK g \in [0..n -> A] : Begins(g, n)
      BY <2>2
    <3> DEFINE h == [i \in 0..(n + 1) |-> IF i = n + 1 THEN step[g[n]] ELSE g[i]]
    <3>2. h \in [0..(n + 1) -> A]
      OBVIOUS
    <3>3. h[0] = first
      BY <3>1
    <3>4. ASSUME NEW i \in 1..(n + 1) PROVE h[i] = step[h[i - 1]]
      <4>1. CASE i = n + 1
        BY <4>1
      <4>2. CASE i \in 1..n
        BY <3>1, <4>2
      <4> QED
        BY <4>1, <4>2
    <3> HIDE DEF h
    <3> QED
      BY <3>2, <3>3, <3>4
  <2> HIDE DEF has
  <2> QED
    BY <2>1, <2>2, SetInduction
<1>2. ASSUME NEW n \in Nat, NEW m \in Nat, NEW g, NEW h, Begins(g, n), Begins(h, m),
             NEW i \in Nat, i <= n, i <= m
      PROVE  g[i] = h[i]
  <2> DEFINE same == {k \in Nat : k <= n /\ k <= m => g[k] = h[k]}
  <2>1. 0 \in same
    BY <1>2
  <2>2. ASSUME NEW k \in Nat, k \in same PROVE k + 1 \in same
    <3>1. SUFFICES ASSUME k + 1 <= n, k + 1 <= m PROVE g[k + 1] = h[k + 1]
      OBVIOUS
    <3>2. g[k] = h[k] /\ k + 1 \in 1..n /\ k + 1 \in 1..m /\ (k + 1) - 1 = k
      BY <2>2, <3>1
    <3>3. g[k + 1] = step[g[k]] /\ h[k + 1] = step[h[k]]
      BY <1>2, <3>2
    <3> QED
      BY <3>2, <3>3
  <2>3. Nat \subseteq same
    <3> HIDE DEF same
    <3> QED
      BY <2>1, <2>2, SetInduction
  <2> QED
    BY <1>2, <2>3
<1> DEFINE upTo(n) == CHOOSE g \in [0..n -> A] : Begins(g, n)
           f == [n \in Nat |-> upTo(n)[n]]
<1>3. ASSUME NEW n \in Nat PROVE upTo(n) \in [0..n -> A] /\ Begins(upTo(n), n)
  BY <1>1
<1>4. f \in [Nat -> A]
  <2>1. ASSUME NEW n \in Nat PROVE upTo(n)[n] \in A
    <3> HIDE DEF upTo
    <3> QED
      BY <1>3
  <2> QED
    BY <2>1
<1>5. ASSUME NEW n \in Nat PROVE f[n] = IF n = 0 THEN first ELSE step[f[n - 1]]
  <2>1. CASE n = 0
    BY <1>3, <2>1
  <2>2. CASE n # 0
    <3>1. n \in 1..n /\ n - 1 \in Nat /\ n - 1 <= n
      BY <2>2
    <3>2. Begins(upTo(n), n) /\ Begins(upTo(n - 1), n - 1)
      BY <1>3, <3>1
    <3>3. upTo(n)[n] = step[upTo(n)[n - 1]]
      <4> HIDE DEF upTo
      <4> QED
        BY <3>1, <3>2
    <3>4. upTo(n)[n - 1] = upTo(n - 1)[n - 1]
      <4> HIDE DEF upTo, Begins
      <4> QED
        BY <1>2, <3>1, <3>2
    <3>5. f[n] = upTo(n)[n] /\ f[n - 1] = upTo(n - 1)[n - 1]
      BY <3>1
    <3> HIDE DEF f, upTo
    <3> QED
      BY <2>2, <3>3, <3>4, <3>5
  <2> QED
    BY <2>1, <2>2
<1>6. f = [n \in Nat |-> IF n = 0 THEN first ELSE step[f[n - 1]]]
  <2> HIDE DEF f
  <2> QED
    BY <1>4, <1>5
<1> HIDE DEF f
<1> QED
  BY <1>4, <1>6

-----------------------------------------------------------------------------
(* What a sync does to the schedule, for every ladder, interval and time.          *)

(* The two shapes the retry fields take: no retry, or one strictly between     *)
(* the given time and the next full sync.                                    *)
NoRetry(s) == s.nextRetrySyncAt = Zero /\ s.lastRetryInterval = NoRung
RetryAfter(s, t) ==
  /\ t < s.nextRetrySyncAt
  /\ s.nextRetrySyncAt < s.nextFullSyncAt
  /\ s.lastRetryInterval \in Rungs

LEMMA LadderFacts ==
  /\ 1 \in Rungs
  /\ 0 \notin Rungs
  /\ \A r \in Rungs : r \in Nat /\ RetryLadder[r] \in Nat /\ RetryLadder[r] > 0
<1>1. Len(RetryLadder) \in Nat /\ Len(RetryLadder) > 0
  BY LadderAssumption
<1>2. \A r \in 1..Len(RetryLadder) : RetryLadder[r] \in Nat \ {0}
  BY LadderAssumption
<1> QED
  BY <1>1, <1>2 DEF Rungs

(* nextRetryAfter only ever answers with a time between now and the full sync.  *)
LEMMA NextRetriesRange ==
  ASSUME NEW s \in Schedule, NEW t \in Time, NEW current,
         NEW c \in NextRetries(s, t, current)
  PROVE  /\ c.at \in Nat
         /\ t < c.at
         /\ c.at < s.nextFullSyncAt
         /\ c.rung \in Rungs
<1> DEFINE usable == [at : (t + 1)..(s.nextFullSyncAt - 1), rung : Rungs]
<1>1. c \in usable
  BY DEF NextRetries
<1>2. s.nextFullSyncAt \in Nat /\ t \in Nat
  BY DEF Schedule, Time
<1> QED
  BY <1>1, <1>2

-----------------------------------------------------------------------------
(* The retry ladder *)

Turns == [at : Nat, rung : Rungs \cup {NoRung}]

LEMMA NextRungFacts ==
  ASSUME NEW rung \in Rungs \cup {NoRung}
  PROVE  /\ NextRung(rung) \in Rungs
         /\ RetryLadder[NextRung(rung)] \in Nat \ {0}
         /\ NextRung(NoRung) = 1
<1>1. Len(RetryLadder) \in Nat /\ Len(RetryLadder) > 0
  BY LadderAssumption
<1>2. NextRung(rung) \in Rungs /\ NextRung(NoRung) = 1
  BY <1>1 DEF NextRung, Rungs, NoRung
<1> QED
  BY <1>2, LadderFacts

Climbs(turn, base, current) ==
  /\ turn[0] = [at |-> base, rung |-> current]
  /\ \A n \in Nat :
       /\ turn[n] \in Turns
       /\ turn[n + 1].rung = NextRung(turn[n].rung)
       /\ turn[n + 1].at = turn[n].at + RetryLadder[NextRung(turn[n].rung)]

(* Each turn of nextRetryAfter's loop climbs one rung from the turn before it.           *)
LEMMA CandidateTurns ==
  ASSUME NEW base \in Nat, NEW current \in Rungs \cup {NoRung}
  PROVE  Climbs(Candidate(base, current), base, current)
<1> DEFINE first == [at |-> base, rung |-> current]
           up(p) == [at |-> p.at + RetryLadder[NextRung(p.rung)], rung |-> NextRung(p.rung)]
           step == [p \in Turns |-> up(p)]
           Turn(f) == f = [n \in Nat |->
                             IF n = 0
                               THEN [at |-> base, rung |-> current]
                               ELSE LET previous == f[n - 1]
                                        rung     == NextRung(previous.rung)
                                    IN  [at |-> previous.at + RetryLadder[rung], rung |-> rung]]
<1>1. first \in Turns /\ step \in [Turns -> Turns]
  <2>1. ASSUME NEW p \in Turns PROVE up(p) \in Turns
    <3>1. p.at \in Nat /\ p.rung \in Rungs \cup {NoRung}
      BY DEF Turns
    <3>2. NextRung(p.rung) \in Rungs /\ p.at + RetryLadder[NextRung(p.rung)] \in Nat
      BY <3>1, NextRungFacts
    <3> QED
      BY <3>2 DEF Turns
  <2> HIDE DEF up
  <2> QED
    BY <2>1 DEF Turns
<1>2. PICK g \in [Nat -> Turns] : g = [n \in Nat |-> IF n = 0 THEN first ELSE step[g[n - 1]]]
  <2> HIDE DEF first, step
  <2> QED
    BY <1>1, IteratedFunction
<1>3. ASSUME NEW n \in Nat PROVE g[n] = IF n = 0 THEN first ELSE up(g[n - 1])
  <2>1. g[n] = IF n = 0 THEN first ELSE step[g[n - 1]]
    <3> HIDE DEF first, step
    <3> QED
      BY <1>2
  <2>2. n # 0 => n - 1 \in Nat /\ g[n - 1] \in Turns
    OBVIOUS
  <2> QED
    BY <2>1, <2>2
<1>4. Turn(g)
  <2>1. g = [n \in Nat |-> IF n = 0 THEN first ELSE up(g[n - 1])]
    <3> HIDE DEF first, up
    <3> QED
      BY <1>2, <1>3
  <2> QED
    BY <2>1
<1>5. Candidate(base, current) = CHOOSE f : Turn(f)
  BY DEF Candidate
<1> DEFINE turn == Candidate(base, current)
<1>6. Turn(turn)
  <2> HIDE DEF Turn
  <2> QED
    BY <1>4, <1>5
<1> HIDE DEF turn
<1>7. turn[0] = first
  BY <1>6
<1>8. ASSUME NEW n \in Nat \ {0} PROVE turn[n] = up(turn[n - 1])
  BY <1>6
<1>9. turn \in [Nat -> Turns]
  <2> DEFINE typed == {n \in Nat : turn[n] \in Turns}
  <2>1. 0 \in typed
    BY <1>1, <1>7
  <2>2. ASSUME NEW n \in Nat, n \in typed PROVE n + 1 \in typed
    <3>1. turn[n + 1] = up(turn[n])
      BY <1>8
    <3>2. step[turn[n]] = up(turn[n]) /\ step[turn[n]] \in Turns
      BY <1>1, <2>2
    <3> HIDE DEF up, step
    <3> QED
      BY <3>1, <3>2
  <2>3. Nat \subseteq typed
    <3> HIDE DEF typed
    <3> QED
      BY <2>1, <2>2, SetInduction
  <2>4. turn = [n \in Nat |-> turn[n]]
    BY <1>6
  <2> QED
    BY <2>3, <2>4
<1>10. ASSUME NEW n \in Nat
       PROVE  /\ turn[n] \in Turns
              /\ turn[n + 1].rung = NextRung(turn[n].rung)
              /\ turn[n + 1].at = turn[n].at + RetryLadder[NextRung(turn[n].rung)]
  <2>1. turn[n] \in Turns
    BY <1>9
  <2>2. turn[n + 1] = up(turn[n])
    BY <1>8
  <2> QED
    BY <2>1, <2>2
<1> QED
  BY <1>7, <1>10 DEF turn, Climbs

(* The candidates only ever get later.                                          *)
LEMMA CandidatesClimb ==
  ASSUME NEW base \in Nat, NEW current \in Rungs \cup {NoRung},
         NEW turn, Climbs(turn, base, current)
  PROVE  \A n \in Nat : /\ base + n <= turn[n].at
                         /\ \A m \in 0..(n - 1) : turn[m].at < turn[n].at
<1> DEFINE climb == {n \in Nat : /\ base + n <= turn[n].at
                                 /\ \A m \in 0..(n - 1) : turn[m].at < turn[n].at}
<1>1. turn[0].at = base
  BY DEF Climbs
<1>2. ASSUME NEW n \in Nat PROVE turn[n].at \in Nat /\ turn[n].at < turn[n + 1].at
  <2>1. /\ turn[n].at \in Nat /\ turn[n].rung \in Rungs \cup {NoRung}
        /\ turn[n + 1].at = turn[n].at + RetryLadder[NextRung(turn[n].rung)]
    BY DEF Climbs, Turns
  <2> QED
    BY <2>1, NextRungFacts
<1>3. 0 \in climb
  BY <1>1
<1>4. ASSUME NEW n \in Nat, n \in climb PROVE n + 1 \in climb
  <2>1. base + (n + 1) <= turn[n + 1].at
    BY <1>2, <1>4
  <2>2. ASSUME NEW m \in 0..n PROVE turn[m].at < turn[n + 1].at
    <3>1. CASE m = n
      BY <1>2, <3>1
    <3>2. CASE m \in 0..(n - 1)
      <4>1. turn[m].at < turn[n].at
        BY <1>4, <3>2
      <4>2. turn[m].at \in Nat /\ turn[n].at \in Nat /\ turn[n].at < turn[n + 1].at /\ turn[n + 1].at \in Nat
        BY <1>2
      <4> QED
        BY <4>1, <4>2
    <3> QED
      BY <3>1, <3>2
  <2> QED
    BY <2>1, <2>2
<1>5. Nat \subseteq climb
  <2> HIDE DEF climb
  <2> QED
    BY <1>3, <1>4, SetInduction
<1> QED
  BY <1>5

(* The time a climb of the ladder is reckoned from, and the first of its turns after t, if it *)
(* and so all before it come before the next full sync.                              *)
ClimbStart(s, t, current) ==
  IF current # NoRung /\ s.lastRetrySyncAt # Zero THEN s.lastRetrySyncAt ELSE t

FirstAfter(turn, t, end) ==
  {turn[n] : n \in {n \in Nat \ {0} : /\ t < turn[n].at /\ turn[n].at < end
                                     /\ \A m \in 1..(n - 1) : turn[m].at <= t}}

(* nextRetryAfter: the set that the schedule chooses from holds exactly what the loop    *)
(* returns, the first candidate after now, if it and so all before it come before the    *)
(* full sync.  It has one element at the most, and the turns it looks at are enough.     *)
THEOREM FirstCandidateAfterNow ==
  ASSUME NEW s \in Schedule, NEW t \in Time, NEW current \in Rungs \cup {NoRung}
  PROVE  NextRetries(s, t, current) =
           FirstAfter(Candidate(ClimbStart(s, t, current), current), t, s.nextFullSyncAt)
<1> DEFINE base == ClimbStart(s, t, current)
           turn == Candidate(base, current)
           usable == [at : (t + 1)..(s.nextFullSyncAt - 1), rung : Rungs]
           upcoming == {turn[n] : n \in 1..(s.nextFullSyncAt - base)} \cap usable
           Answers(n) == /\ t < turn[n].at /\ turn[n].at < s.nextFullSyncAt
                         /\ \A m \in 1..(n - 1) : turn[m].at <= t
<1>1. base \in Nat /\ t \in Nat /\ s.nextFullSyncAt \in Nat
  BY DEF Schedule, Time, ClimbStart
<1>2. NextRetries(s, t, current) = {c \in upcoming : \A d \in upcoming : c.at <= d.at}
  BY DEF NextRetries, ClimbStart
<1> HIDE DEF base
<1>0. Climbs(turn, base, current)
  BY <1>1, CandidateTurns
<1> HIDE DEF turn
<1>3. ASSUME NEW n \in Nat
      PROVE  /\ turn[n].at \in Nat /\ base + n <= turn[n].at
             /\ \A m \in 0..(n - 1) : turn[m].at < turn[n].at
  <2>1. turn[n].at \in Nat
    BY <1>0 DEF Climbs, Turns
  <2> QED
    BY <1>0, <1>1, <2>1, CandidatesClimb
<1>4. ASSUME NEW n \in Nat \ {0} PROVE turn[n] \in [at : Nat, rung : Rungs]
  <2>1. n - 1 \in Nat /\ (n - 1) + 1 = n
    BY <1>4
  <2>2. /\ turn[(n - 1) + 1].rung = NextRung(turn[n - 1].rung)
        /\ turn[n - 1].rung \in Rungs \cup {NoRung}
    BY <1>0, <2>1 DEF Climbs, Turns
  <2>3. turn[n].rung \in Rungs
    BY <2>1, <2>2, NextRungFacts
  <2>4. turn[n] \in Turns
    BY <1>0 DEF Climbs
  <2> QED
    BY <2>3, <2>4 DEF Turns
<1>5. ASSUME NEW n \in Nat \ {0}, t < turn[n].at, turn[n].at < s.nextFullSyncAt
      PROVE  turn[n] \in upcoming
  <2>1. n \in 1..(s.nextFullSyncAt - base)
    BY <1>1, <1>3, <1>5
  <2>2. turn[n] \in usable
    BY <1>1, <1>3, <1>4, <1>5
  <2> QED
    BY <2>1, <2>2
<1>6. ASSUME NEW c \in upcoming
      PROVE  \E n \in Nat \ {0} : c = turn[n] /\ t < turn[n].at /\ turn[n].at < s.nextFullSyncAt
  <2>1. PICK n \in 1..(s.nextFullSyncAt - base) : c = turn[n]
    OBVIOUS
  <2>2. c \in usable /\ n \in Nat \ {0}
    BY <1>1, <2>1
  <2>3. t < c.at /\ c.at < s.nextFullSyncAt
    BY <1>1, <2>2
  <2> QED
    BY <2>1, <2>2, <2>3
<1> HIDE DEF upcoming
<1>7. ASSUME NEW c \in upcoming, \A d \in upcoming : c.at <= d.at
      PROVE  \E n \in Nat \ {0} : c = turn[n] /\ Answers(n)
  <2>1. PICK n \in Nat \ {0} : c = turn[n] /\ t < turn[n].at /\ turn[n].at < s.nextFullSyncAt
    BY <1>6
  <2>2. ASSUME NEW m \in 1..(n - 1), t < turn[m].at PROVE FALSE
    <3>1. m \in Nat \ {0} /\ turn[m].at < turn[n].at /\ turn[m].at \in Nat /\ turn[n].at \in Nat
      BY <1>3, <2>1
    <3>2. turn[m].at < s.nextFullSyncAt
      BY <1>1, <2>1, <3>1
    <3>3. turn[m] \in upcoming
      BY <1>5, <2>2, <3>1, <3>2
    <3>4. turn[n].at <= turn[m].at
      BY <1>7, <2>1, <3>3
    <3> QED
      BY <3>1, <3>4
  <2>3. \A m \in 1..(n - 1) : turn[m].at <= t
    <3>1. \A m \in 1..(n - 1) : turn[m].at \in Nat
      BY <1>3
    <3> QED
      BY <1>1, <2>2, <3>1
  <2> QED
    BY <2>1, <2>3
<1>8. ASSUME NEW n \in Nat \ {0}, Answers(n)
      PROVE  turn[n] \in upcoming /\ \A d \in upcoming : turn[n].at <= d.at
  <2>1. turn[n] \in upcoming
    BY <1>5, <1>8
  <2>2. ASSUME NEW d \in upcoming PROVE turn[n].at <= d.at
    <3>1. PICK m \in Nat \ {0} : d = turn[m] /\ t < turn[m].at
      BY <1>6
    <3>2. turn[m].at \in Nat /\ turn[n].at \in Nat
      BY <1>3
    <3>3. CASE m < n
      <4>1. m \in 1..(n - 1)
        BY <3>3
      <4> QED
        BY <1>1, <1>8, <3>1, <3>2, <4>1
    <3>4. CASE m = n
      BY <3>1, <3>2, <3>4
    <3>5. CASE n < m
      <4>1. n \in 0..(m - 1)
        BY <3>5
      <4> QED
        BY <1>3, <3>1, <3>2, <4>1
    <3> QED
      BY <3>3, <3>4, <3>5
  <2> QED
    BY <2>1, <2>2
<1>9. NextRetries(s, t, current) = {turn[n] : n \in {n \in Nat \ {0} : Answers(n)}}
  <2> HIDE DEF Answers
  <2> QED
    BY <1>2, <1>7, <1>8
<1> QED
  BY <1>9 DEF turn, base, FirstAfter

(* A ladder climbed from the bottom misses a retry only if the full sync comes before     *)
(* its first rung.                                                             *)
LEMMA FirstRungCovers ==
  ASSUME NEW s \in Schedule, NEW t \in Time, NextRetries(s, t, NoRung) = {}
  PROVE  s.nextFullSyncAt <= t + RetryLadder[1]
<1> DEFINE turn == Candidate(t, NoRung)
<1>1. t \in Nat /\ s.nextFullSyncAt \in Nat /\ RetryLadder[1] \in Nat \ {0}
  BY LadderFacts DEF Schedule, Time
<1>2. turn[1].at = t + RetryLadder[1]
  <2>1. Climbs(turn, t, NoRung)
    BY <1>1, CandidateTurns
  <2> HIDE DEF turn
  <2>2. turn[0] = [at |-> t, rung |-> NoRung]
    BY <2>1 DEF Climbs
  <2>3. turn[0 + 1].at = turn[0].at + RetryLadder[NextRung(turn[0].rung)]
    BY <2>1 DEF Climbs
  <2> QED
    BY <2>2, <2>3, NextRungFacts
<1>3. ASSUME turn[1].at < s.nextFullSyncAt PROVE FALSE
  <2>1. t < turn[1].at /\ \A m \in 1..(1 - 1) : turn[m].at <= t
    BY <1>1, <1>2
  <2>2. turn[1] \in NextRetries(s, t, NoRung)
    <3>1. ClimbStart(s, t, NoRung) = t
      BY DEF ClimbStart
    <3>2. NextRetries(s, t, NoRung) =
            FirstAfter(Candidate(ClimbStart(s, t, NoRung), NoRung), t, s.nextFullSyncAt)
      BY FirstCandidateAfterNow
    <3>3. NextRetries(s, t, NoRung) = FirstAfter(turn, t, s.nextFullSyncAt)
      BY <3>1, <3>2
    <3> HIDE DEF turn
    <3> QED
      BY <1>3, <2>1, <3>3 DEF FirstAfter
  <2> QED
    BY <2>2
<1> QED
  BY <1>1, <1>2, <1>3

-----------------------------------------------------------------------------
(* The schedule *)

LEMMA ClearRetryFacts ==
  ASSUME NEW s \in Schedule
  PROVE  /\ ClearRetry(s) \in Schedule
         /\ NoRetry(ClearRetry(s))
         /\ ClearRetry(s).lastFullSyncAt = s.lastFullSyncAt
         /\ ClearRetry(s).nextFullSyncAt = s.nextFullSyncAt
         /\ ClearRetry(s).lastRetrySyncAt = s.lastRetrySyncAt
BY DEF ClearRetry, NoRetry, Schedule, Time, Zero, NoRung

(* scheduleNextRetryAfter changes nothing but the next retry.                  *)
LEMMA ScheduleNextRetryAfterFacts ==
  ASSUME NEW s \in Schedule, NEW t \in Time, NEW current,
         NEW retryNeeded \in BOOLEAN,
         NEW new, new = ScheduleNextRetryAfter(s, t, current, retryNeeded)
  PROVE  /\ new \in Schedule
         /\ new.lastFullSyncAt = s.lastFullSyncAt
         /\ new.nextFullSyncAt = s.nextFullSyncAt
         /\ new.lastRetrySyncAt = s.lastRetrySyncAt
         /\ NoRetry(new) \/ RetryAfter(new, t)
         /\ ~retryNeeded => NoRetry(new)
         /\ retryNeeded /\ current = NoRung /\ NoRetry(new)
              => new.nextFullSyncAt <= t + RetryLadder[1]
<1> DEFINE next == NextRetries(s, t, current)
<1>1. CASE ~retryNeeded \/ next = {}
  <2>1. new = ClearRetry(s)
    BY <1>1 DEF ScheduleNextRetryAfter
  <2>2. retryNeeded /\ current = NoRung => s.nextFullSyncAt <= t + RetryLadder[1]
    <3>1. current = NoRung /\ next = {} => s.nextFullSyncAt <= t + RetryLadder[1]
      BY FirstRungCovers
    <3> QED
      BY <1>1, <3>1
  <2> QED
    BY <2>1, <2>2, ClearRetryFacts
<1>2. CASE retryNeeded /\ next # {}
  <2> DEFINE c == CHOOSE c \in next : TRUE
  <2>1. c \in next
    BY <1>2
  <2>2. /\ c.at \in Nat /\ t < c.at /\ c.at < s.nextFullSyncAt
        /\ c.rung \in Rungs
    BY <2>1, NextRetriesRange
  <2>3. new = [s EXCEPT !.nextRetrySyncAt = c.at, !.lastRetryInterval = c.rung]
    BY <1>2 DEF ScheduleNextRetryAfter
  <2> HIDE DEF c
  <2>4. /\ new \in Schedule
        /\ new.lastFullSyncAt = s.lastFullSyncAt
        /\ new.nextFullSyncAt = s.nextFullSyncAt
        /\ new.lastRetrySyncAt = s.lastRetrySyncAt
        /\ new.nextRetrySyncAt = c.at /\ new.lastRetryInterval = c.rung
    BY <2>2, <2>3 DEF Schedule, Time
  <2>5. RetryAfter(new, t)
    BY <2>2, <2>4 DEF RetryAfter
  <2>6. ~NoRetry(new)
    BY <2>2, <2>4 DEF NoRetry, Time, Zero
  <2> QED
    BY <1>2, <2>4, <2>5, <2>6
<1> QED
  BY <1>1, <1>2

LEMMA ScheduleFirstRetryAfterFacts ==
  ASSUME NEW s \in Schedule, NEW t \in Time,
         NEW new, new = ScheduleFirstRetryAfter(s, t)
  PROVE  /\ new \in Schedule
         /\ new.lastFullSyncAt = s.lastFullSyncAt
         /\ new.nextFullSyncAt = s.nextFullSyncAt
         /\ new.lastRetrySyncAt = s.lastRetrySyncAt
         /\ NoRetry(new) \/ RetryAfter(new, t)
         /\ NoRetry(new) => s.nextFullSyncAt <= t + RetryLadder[1]
<1> DEFINE at == t + RetryLadder[1]
<1>1. at \in Nat /\ t < at /\ s.nextFullSyncAt \in Nat
  BY LadderFacts DEF Schedule, Time
<1>2. CASE at < s.nextFullSyncAt
  <2>1. new = [s EXCEPT !.nextRetrySyncAt = at, !.lastRetryInterval = 1]
    BY <1>2 DEF ScheduleFirstRetryAfter
  <2>2. /\ new \in Schedule
        /\ new.lastFullSyncAt = s.lastFullSyncAt
        /\ new.nextFullSyncAt = s.nextFullSyncAt
        /\ new.lastRetrySyncAt = s.lastRetrySyncAt
        /\ new.nextRetrySyncAt = at
        /\ new.lastRetryInterval = 1
    <3> HIDE DEF at
    <3> QED
      BY <1>1, <2>1, LadderFacts DEF Schedule, Time
  <2>3. RetryAfter(new, t)
    BY <1>1, <1>2, <2>2, LadderFacts DEF RetryAfter
  <2>4. ~NoRetry(new)
    BY <2>2 DEF NoRetry, NoRung
  <2> QED
    BY <2>2, <2>3, <2>4
<1>3. CASE ~(at < s.nextFullSyncAt)
  <2>1. new = ClearRetry(s)
    BY <1>3 DEF ScheduleFirstRetryAfter
  <2>2. s.nextFullSyncAt <= at
    BY <1>1, <1>3
  <2> QED
    BY <2>1, <2>2, ClearRetryFacts
<1> QED
  BY <1>2, <1>3

(* The loop that steps over missed slots stops at the last one not after now.   *)
LEMMA LatestSlotFacts ==
  ASSUME NEW from \in Nat, NEW t \in Nat, from <= t
  PROVE  /\ LatestSlot(from, t) \in Nat
         /\ from <= LatestSlot(from, t)
         /\ LatestSlot(from, t) <= t
         /\ t < LatestSlot(from, t) + FullSyncInterval
<1>1. ASSUME NEW n \in Nat, NEW d \in Nat \ {0}
      PROVE  /\ (n \div d) * d \in Nat
             /\ (n \div d) * d <= n
             /\ n < (n \div d) * d + d
  BY <1>1
<1> DEFINE n == t - from
           m == (n \div FullSyncInterval) * FullSyncInterval
<1>2. n \in Nat
  OBVIOUS
<1>3. m \in Nat /\ m <= n /\ n < m + FullSyncInterval
  BY <1>1, <1>2, IntervalAssumption
<1>4. LatestSlot(from, t) = from + m
  BY DEF LatestSlot
<1> HIDE DEF m
<1> QED
  BY <1>3, <1>4, IntervalAssumption

-----------------------------------------------------------------------------
(* newSchedule: the next full sync is ahead, any retry lies between now and it,   *)
(* a due full sync is recorded, and nothing moves backwards.                    *)
LEMMA NewScheduleFacts ==
  ASSUME NEW s \in Schedule, NEW t \in Time, NEW retryNeeded \in BOOLEAN,
         NEW new, new = NewSchedule(s, t, retryNeeded)
  PROVE  /\ new \in Schedule
         /\ t < new.nextFullSyncAt
         /\ s.nextFullSyncAt <= new.nextFullSyncAt
         /\ NeedsFullSync(s, t) => new.lastFullSyncAt >= s.nextFullSyncAt
         /\ ~NeedsFullSync(s, t) => new.lastFullSyncAt = s.lastFullSyncAt
         /\ NeedsFullSync(s, t) => new.lastRetrySyncAt = Zero
         /\ ValidateSyncSchedule(s) => NoRetry(new) \/ RetryAfter(new, t)
         /\ ~retryNeeded => NoRetry(new) /\ new.lastRetrySyncAt = Zero
         /\ retryNeeded /\ NeedsFullSync(s, t) /\ NoRetry(new)
              => new.nextFullSyncAt <= t + RetryLadder[1]
<1>0. s.nextFullSyncAt \in Nat /\ t \in Nat
  BY DEF Schedule, Time
<1>1. CASE NeedsFullSync(s, t)
  <2> DEFINE slot == LatestSlot(s.nextFullSyncAt, t)
             full == [s EXCEPT !.lastFullSyncAt  = slot,
                               !.nextFullSyncAt  = slot + FullSyncInterval,
                               !.lastRetrySyncAt = Zero]
  <2>1. s.nextFullSyncAt <= t
    BY <1>0, <1>1 DEF NeedsFullSync
  <2>2. /\ slot \in Nat /\ s.nextFullSyncAt <= slot /\ slot <= t
        /\ t < slot + FullSyncInterval
    BY <1>0, <2>1, LatestSlotFacts
  <2> HIDE DEF slot
  <2>3. /\ full \in Schedule
        /\ full.lastFullSyncAt = slot
        /\ full.nextFullSyncAt = slot + FullSyncInterval
        /\ full.lastRetrySyncAt = Zero
    <3> DEFINE next == slot + FullSyncInterval
               taken == [s EXCEPT !.lastFullSyncAt = slot, !.nextFullSyncAt = next]
    <3>1. next \in Nat
      BY <2>2, IntervalAssumption
    <3> HIDE DEF next
    <3>2. /\ taken \in Schedule
          /\ taken.lastFullSyncAt = slot
          /\ taken.nextFullSyncAt = next
      BY <2>2, <3>1 DEF Schedule, Time
    <3>3. full = [taken EXCEPT !.lastRetrySyncAt = Zero]
      BY DEF next
    <3> HIDE DEF taken, full
    <3>4. /\ full \in Schedule
          /\ full.lastFullSyncAt = slot
          /\ full.nextFullSyncAt = next
          /\ full.lastRetrySyncAt = Zero
      BY <3>2, <3>3 DEF Schedule, Time, Zero
    <3> QED
      BY <3>4 DEF next
  <2>4. new = ScheduleNextRetryAfter(full, t, NoRung, retryNeeded)
    BY <1>1 DEF NewSchedule, AdvanceFullSync, slot
  <2> HIDE DEF full
  <2>5. /\ new \in Schedule
        /\ new.lastFullSyncAt = slot
        /\ new.nextFullSyncAt = slot + FullSyncInterval
        /\ new.lastRetrySyncAt = Zero
        /\ NoRetry(new) \/ RetryAfter(new, t)
        /\ ~retryNeeded => NoRetry(new)
        /\ retryNeeded /\ NoRetry(new) => new.nextFullSyncAt <= t + RetryLadder[1]
    BY <2>3, <2>4, ScheduleNextRetryAfterFacts
  <2> QED
    BY <1>0, <1>1, <2>2, <2>5, IntervalAssumption
<1>2. CASE ~NeedsFullSync(s, t)
  <2>0. t < s.nextFullSyncAt
    BY <1>0, <1>2 DEF NeedsFullSync
  <2>1. CASE ~retryNeeded
    <3>1. new = [ClearRetry(s) EXCEPT !.lastRetrySyncAt = Zero]
      BY <1>2, <2>1 DEF NewSchedule
    <3>2. /\ new \in Schedule
          /\ new.lastFullSyncAt = s.lastFullSyncAt
          /\ new.nextFullSyncAt = s.nextFullSyncAt
          /\ new.lastRetrySyncAt = Zero
          /\ NoRetry(new)
      BY <3>1, ClearRetryFacts DEF Schedule, Time, Zero, NoRetry
    <3> QED
      BY <1>0, <1>2, <2>0, <2>1, <3>2
  <2>2. CASE retryNeeded /\ s.nextRetrySyncAt # Zero /\ t >= s.nextRetrySyncAt
    <3> DEFINE tried   == [s EXCEPT !.lastRetrySyncAt = s.nextRetrySyncAt]
               current == s.lastRetryInterval
    <3>1. /\ tried \in Schedule
          /\ tried.lastFullSyncAt = s.lastFullSyncAt
          /\ tried.nextFullSyncAt = s.nextFullSyncAt
      BY DEF Schedule, Time
    <3>2. new = ScheduleNextRetryAfter(tried, t, current, retryNeeded)
      BY <1>2, <2>2 DEF NewSchedule, AdvanceRetry
    <3> HIDE DEF tried, current
    <3>3. /\ new \in Schedule
          /\ new.lastFullSyncAt = s.lastFullSyncAt
          /\ new.nextFullSyncAt = s.nextFullSyncAt
          /\ NoRetry(new) \/ RetryAfter(new, t)
      <4>1. /\ new \in Schedule
            /\ new.lastFullSyncAt = tried.lastFullSyncAt
            /\ new.nextFullSyncAt = tried.nextFullSyncAt
            /\ NoRetry(new) \/ RetryAfter(new, t)
        BY <3>1, <3>2, ScheduleNextRetryAfterFacts
      <4> QED
        BY <3>1, <4>1
    <3>4. t < new.nextFullSyncAt /\ s.nextFullSyncAt <= new.nextFullSyncAt
      BY <1>0, <2>0, <3>3
    <3> QED
      BY <1>2, <2>2, <3>3, <3>4
  <2>3. CASE retryNeeded /\ ~(s.nextRetrySyncAt # Zero /\ t >= s.nextRetrySyncAt)
    <3>1. new = s
      BY <1>2, <2>3 DEF NewSchedule
    <3>2. s.nextRetrySyncAt \in Nat /\ s.lastRetryInterval \in Rungs \cup {NoRung}
      BY DEF Schedule, Time
    <3>3. ASSUME ValidateSyncSchedule(s)
          PROVE  NoRetry(s) \/ RetryAfter(s, t)
      <4>1. CASE s.nextRetrySyncAt = Zero
        BY <3>3, <4>1 DEF ValidateSyncSchedule, NoRetry
      <4>2. CASE s.nextRetrySyncAt # Zero
        <5>1. t < s.nextRetrySyncAt
          BY <1>0, <2>3, <3>2, <4>2
        <5>2. s.nextRetrySyncAt < s.nextFullSyncAt
          BY <1>0, <2>0, <3>3, <4>2 DEF ValidateSyncSchedule, Zero
        <5>3. s.lastRetryInterval \in Rungs
          BY <3>2, <3>3, <4>2 DEF ValidateSyncSchedule
        <5> QED
          BY <5>1, <5>2, <5>3 DEF RetryAfter
      <4> QED
        BY <4>1, <4>2
    <3>4. t < new.nextFullSyncAt /\ s.nextFullSyncAt <= new.nextFullSyncAt
      BY <1>0, <2>0, <3>1
    <3> QED
      BY <1>2, <2>3, <3>1, <3>3, <3>4
  <2> QED
    BY <2>1, <2>2, <2>3
<1> QED
  BY <1>1, <1>2

LEMMA UpdateSyncScheduleType ==
  ASSUME NEW s \in Schedule, NEW scope \in Scopes,
         NEW started \in Time, NEW completed \in Time,
         NEW retryNeeded \in BOOLEAN
  PROVE  UpdateSyncSchedule(s, scope, started, completed, retryNeeded) \in Schedule
<1> DEFINE mid == NewSchedule(s, started, retryNeeded)
<1>1. mid \in Schedule
  BY NewScheduleFacts
<1> HIDE DEF mid
<1>2. ScheduleFirstRetryAfter(mid, completed) \in Schedule
  BY <1>1, ScheduleFirstRetryAfterFacts
<1>3. UpdateSyncSchedule(s, scope, started, completed, retryNeeded)
        \in {mid, ScheduleFirstRetryAfter(mid, completed)}
  BY DEF UpdateSyncSchedule, mid
<1> QED
  BY <1>1, <1>2, <1>3

(* updateSyncSchedule, for every scope: the schedule stays one the loader accepts, *)
(* provided a full sync was recorded before or is due now; its next full sync and  *)
(* any retry lie after the start of the sync; without a failure to retry no retry   *)
(* remains; and a failure is left without one only if the full sync comes first.   *)
THEOREM UpdateSyncScheduleFacts ==
  ASSUME NEW s \in Schedule, NEW scope \in Scopes,
         NEW started \in Time, NEW completed \in Time, started <= completed,
         NEW retryNeeded \in BOOLEAN,
         NEW new, new = UpdateSyncSchedule(s, scope, started, completed, retryNeeded),
         ValidateSyncSchedule(s), s.nextFullSyncAt # Zero,
         s.lastFullSyncAt # Zero \/ NeedsFullSync(s, started)
  PROVE  /\ new \in Schedule
         /\ ValidateSyncSchedule(new)
         /\ new.lastFullSyncAt # Zero
         /\ s.nextFullSyncAt <= new.nextFullSyncAt
         /\ started < NextSyncAt(new)
         /\ new.nextRetrySyncAt # Zero => retryNeeded
         /\ /\ scope = "full" => NeedsFullSync(s, started)
            /\ retryNeeded /\ new.nextRetrySyncAt = Zero
            => new.nextFullSyncAt <= completed + RetryLadder[1]
<1> DEFINE mid == NewSchedule(s, started, retryNeeded)
<1>0. /\ s.nextFullSyncAt \in Nat /\ s.lastFullSyncAt \in Nat
      /\ started \in Nat /\ completed \in Nat
  BY DEF Schedule, Time
<1>1. /\ mid \in Schedule
      /\ started < mid.nextFullSyncAt
      /\ s.nextFullSyncAt <= mid.nextFullSyncAt
      /\ NeedsFullSync(s, started) => mid.lastFullSyncAt >= s.nextFullSyncAt
      /\ ~NeedsFullSync(s, started) => mid.lastFullSyncAt = s.lastFullSyncAt
      /\ NoRetry(mid) \/ RetryAfter(mid, started)
      /\ ~retryNeeded => NoRetry(mid)
      /\ retryNeeded /\ NeedsFullSync(s, started) /\ NoRetry(mid)
           => mid.nextFullSyncAt <= started + RetryLadder[1]
  BY NewScheduleFacts
<1>2. mid.lastFullSyncAt \in Nat /\ mid.nextFullSyncAt \in Nat
  BY <1>1 DEF Schedule, Time
<1>3. mid.lastFullSyncAt # Zero
  BY <1>0, <1>1, <1>2 DEF Zero
<1>4. /\ new \in Schedule
      /\ new.lastFullSyncAt = mid.lastFullSyncAt
      /\ new.nextFullSyncAt = mid.nextFullSyncAt
      /\ NoRetry(new) \/ RetryAfter(new, started)
      /\ ~retryNeeded => NoRetry(new)
      /\ /\ scope = "full" => NeedsFullSync(s, started)
         /\ retryNeeded /\ NoRetry(new)
         => mid.nextFullSyncAt <= completed + RetryLadder[1]
  <2>1. CASE scope # "full" /\ retryNeeded /\ mid.nextRetrySyncAt = Zero
    <3>1. new = ScheduleFirstRetryAfter(mid, completed)
      BY <2>1 DEF UpdateSyncSchedule
    <3> HIDE DEF mid
    <3>2. /\ new \in Schedule
          /\ new.lastFullSyncAt = mid.lastFullSyncAt
          /\ new.nextFullSyncAt = mid.nextFullSyncAt
          /\ NoRetry(new) \/ RetryAfter(new, completed)
          /\ NoRetry(new) => mid.nextFullSyncAt <= completed + RetryLadder[1]
      BY <1>1, <3>1, ScheduleFirstRetryAfterFacts
    <3>3. RetryAfter(new, completed) => RetryAfter(new, started)
      BY <1>0, <3>2 DEF RetryAfter, Schedule, Time
    <3> QED
      BY <2>1, <3>2, <3>3
  <2>2. CASE ~(scope # "full" /\ retryNeeded /\ mid.nextRetrySyncAt = Zero)
    <3>1. new = mid
      BY <2>2 DEF UpdateSyncSchedule
    <3> HIDE DEF mid
    <3>2. ASSUME scope = "full" => NeedsFullSync(s, started), retryNeeded, NoRetry(new)
          PROVE  mid.nextFullSyncAt <= completed + RetryLadder[1]
      <4>1. NeedsFullSync(s, started) /\ NoRetry(mid)
        BY <2>2, <3>1, <3>2 DEF NoRetry
      <4>2. mid.nextFullSyncAt <= started + RetryLadder[1]
        BY <1>1, <3>2, <4>1
      <4> QED
        BY <1>0, <1>2, <4>2, LadderFacts
    <3> QED
      BY <1>1, <3>1, <3>2
  <2> QED
    BY <2>1, <2>2
<1> HIDE DEF mid
<1>5. new.nextRetrySyncAt \in Nat /\ new.nextFullSyncAt \in Nat
  BY <1>4 DEF Schedule, Time
<1>6. ValidateSyncSchedule(new)
  <2>1. CASE NoRetry(new)
    BY <1>3, <1>4, <2>1 DEF ValidateSyncSchedule, NoRetry
  <2>2. CASE RetryAfter(new, started)
    <3>1. new.nextRetrySyncAt # Zero /\ new.nextRetrySyncAt < new.nextFullSyncAt
      BY <1>0, <1>5, <2>2 DEF RetryAfter, Zero
    <3>2. new.lastRetryInterval # NoRung
      BY <2>2, LadderFacts DEF RetryAfter, NoRung
    <3> QED
      BY <1>3, <1>4, <3>1, <3>2 DEF ValidateSyncSchedule
  <2> QED
    BY <1>4, <2>1, <2>2
<1>7. started < NextSyncAt(new)
  BY <1>1, <1>4, <1>5 DEF NextSyncAt, NoRetry, RetryAfter
<1>8. new.nextRetrySyncAt = Zero => NoRetry(new)
  BY <1>0, <1>4, <1>5 DEF RetryAfter, Zero
<1> QED
  BY <1>1, <1>3, <1>4, <1>6, <1>7, <1>8 DEF NoRetry

-----------------------------------------------------------------------------
(* What a refresh does to the entry of a source, for every entry and time.         *)

(* A success clears the failure and leaves the copy and its date alone.        *)
LEMMA NewNotModifiedFacts ==
  ASSUME NEW st \in SourceStates, NEW at \in Time,
         NEW new, new = NewNotModifiedSourceState(st, at)
  PROVE  /\ new \in SourceStates
         /\ new.recorded = st.recorded
         /\ new.hasLocalArtifact = st.hasLocalArtifact
         /\ new.lastDownloadedAt = st.lastDownloadedAt
         /\ new.markedOutdatedAt = st.markedOutdatedAt
         /\ new.lastCheckedAt = at
         /\ new.lastSuccessAt = at
         /\ ~new.retryableFailure
         /\ new.firstFailureAt = Zero
BY DEF NewNotModifiedSourceState, SourceStates, Time, Zero

LEMMA NewOKFacts ==
  ASSUME NEW st \in SourceStates, NEW at \in Time,
         NEW new, new = NewOKSourceState(st, at)
  PROVE  /\ new \in SourceStates
         /\ new.recorded = st.recorded
         /\ new.hasLocalArtifact
         /\ new.lastDownloadedAt = at
         /\ new.markedOutdatedAt = Zero
         /\ new.lastCheckedAt = at
         /\ new.lastSuccessAt = at
         /\ ~new.retryableFailure
         /\ new.firstFailureAt = Zero
BY DEF NewOKSourceState, NewNotModifiedSourceState, SourceStates, Time, Zero

(* A failure dates the first error of a streak and keeps the date of an older one. *)
LEMMA NewUnsuccessfulFacts ==
  ASSUME NEW st \in SourceStates, NEW at \in Time, NEW firstAt \in Time,
         NEW retryable \in BOOLEAN,
         NEW new, new = NewUnsuccessfulSourceState(st, firstAt, at, retryable)
  PROVE  /\ new \in SourceStates
         /\ new.recorded = st.recorded
         /\ new.hasLocalArtifact = st.hasLocalArtifact
         /\ new.lastDownloadedAt = st.lastDownloadedAt
         /\ new.markedOutdatedAt = st.markedOutdatedAt
         /\ new.lastCheckedAt = at
         /\ new.lastSuccessAt = st.lastSuccessAt
         /\ new.retryableFailure = retryable
         /\ st.firstFailureAt = Zero => new.firstFailureAt = firstAt
         /\ st.firstFailureAt # Zero => new.firstFailureAt = st.firstFailureAt
BY DEF NewUnsuccessfulSourceState, SourceStates, Time, Zero

-----------------------------------------------------------------------------
(* Types *)

LEMMA ZeroTypes ==
  /\ ZeroSchedule \in Schedule
  /\ ZeroSourceState \in SourceStates
  /\ EmptyState \in States
  /\ \A scope \in Scopes, ids \in SUBSET Source : NewSync(scope, ids) \in Syncs
<1>1. ZeroSchedule \in Schedule
  BY DEF ZeroSchedule, Schedule, Time, Zero
<1>2. ZeroSourceState \in SourceStates
  BY DEF ZeroSourceState, SourceStates, Time, Zero
<1>3. EmptyState \in States
  BY <1>1, <1>2 DEF EmptyState, States
<1>4. NoResults \in [Source -> Results]
  BY <1>2 DEF NoResults, PendingResult, Results
<1>5. \A scope \in Scopes, ids \in SUBSET Source : NewSync(scope, ids) \in Syncs
  BY <1>4 DEF NewSync, Syncs, Time, Zero
<1> QED
  BY <1>1, <1>2, <1>3, <1>5

LEMMA RefreshedType ==
  ASSUME NEW st \in SourceStates, NEW outcome \in Outcomes,
         NEW firstAt \in Time, NEW at \in Time
  PROVE  Refreshed(st, outcome, firstAt, at) \in SourceStates
<1>1. CASE outcome = "notModified"
  BY <1>1, NewNotModifiedFacts DEF Refreshed
<1>2. CASE outcome = "downloaded"
  BY <1>2, NewOKFacts DEF Refreshed
<1>3. CASE outcome = "retryable"
  BY <1>3, NewUnsuccessfulFacts DEF Refreshed
<1>4. CASE outcome = "permanent"
  BY <1>4, NewUnsuccessfulFacts DEF Refreshed
<1> QED
  BY <1>1, <1>2, <1>3, <1>4 DEF Outcomes

LEMMA MarkOutdatedFacts ==
  ASSUME NEW i \in Source, NEW st \in SourceStates,
         NEW new, new = MarkOutdatedIfExpired(i, st)
  PROVE  /\ new \in SourceStates
         /\ ~Expired(i, st) => new = st
         /\ new.recorded = st.recorded
         /\ new.lastCheckedAt = st.lastCheckedAt
         /\ new.lastSuccessAt = st.lastSuccessAt
         /\ new.lastDownloadedAt = st.lastDownloadedAt
         /\ new.firstFailureAt = st.firstFailureAt
         /\ Expired(i, st) =>
              /\ ~new.hasLocalArtifact
              /\ new.markedOutdatedAt = st.lastCheckedAt
              /\ ~new.retryableFailure
<1>1. CASE Expired(i, st)
  <2>1. new = [st EXCEPT !.hasLocalArtifact = FALSE,
                         !.markedOutdatedAt = st.lastCheckedAt,
                         !.retryableFailure = FALSE]
    BY <1>1 DEF MarkOutdatedIfExpired
  <2> QED
    BY <1>1, <2>1 DEF SourceStates, Time
<1>2. CASE ~Expired(i, st)
  BY <1>2 DEF MarkOutdatedIfExpired
<1> QED
  BY <1>1, <1>2

LEMMA NewSourcesType ==
  ASSUME TypeOK, \A i \in sync.ids : Delivered(i)
  PROVE  NewSources \in [Source -> SourceStates]
<1> SUFFICES ASSUME NEW i \in Source
             PROVE  (IF i \in sync.ids THEN NewEntry(i) ELSE mem.sources[i])
                      \in SourceStates
  BY DEF NewSources
<1>1. mem.sources[i] \in SourceStates /\ sync.results[i].state \in SourceStates
  BY DEF TypeOK, States, Syncs, Results
<1>2. PICK entry : entry = [sync.results[i].state EXCEPT !.recorded = TRUE]
  OBVIOUS
<1>3. entry \in SourceStates
  BY <1>1, <1>2 DEF SourceStates
<1>4. NewEntry(i) = IF Success(sync.results[i].outcome)
                      THEN entry ELSE MarkOutdatedIfExpired(i, entry)
  BY <1>2 DEF NewEntry
<1>5. MarkOutdatedIfExpired(i, entry) \in SourceStates
  BY <1>3, MarkOutdatedFacts
<1> QED
  BY <1>1, <1>3, <1>4, <1>5

LEMMA StartupSourcesType ==
  ASSUME NEW on, NEW s, NEW at
  PROVE  StartupSources(on, s, at) \subseteq on
BY DEF StartupSources, FilterOutdated, NewEnabledSources, RefreshableFailedSources

LEMMA TypeStep ==
  ASSUME TypeOK, [Next]_vars
  PROVE  TypeOK'
<1> USE DEF TypeOK
<1>1. CASE Tick
  BY <1>1 DEF Tick, disk, Time
<1>2. ASSUME NEW on \in EnabledSets, NEW startAt \in StartAts, Start(on, startAt)
      PROVE  TypeOK'
  <2> DEFINE base == IF stateFile THEN saved ELSE EmptyState
             s    == WithFirstFullSync(base, startAt)
  <2>1. on \subseteq Source /\ startAt \in Time
    BY ConfigAssumption
  <2>2. base \in States
    BY ZeroTypes
  <2>3. s \in States
    <3> HIDE DEF base
    <3> QED
      BY <2>1, <2>2 DEF WithFirstFullSync, States, Schedule
  <2>4. StartupSources(on, s, now) \in SUBSET Source
    BY <2>1, StartupSourcesType
  <2>5. NewSync("startup", StartupSources(on, s, now)) \in Syncs
    BY <2>4, ZeroTypes DEF Scopes
  <2>6. /\ pc' = "decided" /\ enabled' = on /\ mem' = s
        /\ sync' = NewSync("startup", StartupSources(on, s, now))
        /\ tornCommit' = FALSE
        /\ UNCHANGED <<now, stateFile, saved, files>>
    BY <1>2 DEF Start, disk
  <2> QED
    BY <2>1, <2>3, <2>5, <2>6 DEF PCs
<1>3. CASE Refuse
  BY <1>3 DEF Refuse, disk, PCs
<1>4. CASE BeginSync
  BY <1>4 DEF BeginSync, disk, PCs, Syncs
<1>5. ASSUME NEW i \in Source, NEW outcome \in Outcomes,
             NEW firstAt \in sync.startedAt..now, RefreshSource(i, outcome, firstAt)
      PROVE  TypeOK'
  <2>1. mem.sources[i] \in SourceStates /\ firstAt \in Time /\ now \in Time
    BY DEF States, Syncs, Time
  <2> DEFINE result == [outcome |-> outcome,
                        state |-> Refreshed(mem.sources[i], outcome, firstAt, now)]
  <2>2. result \in Results
    BY <2>1, RefreshedType DEF Results
  <2>3. sync' = [sync EXCEPT !.results[i] = result]
    BY <1>5 DEF RefreshSource
  <2>4. sync' \in Syncs
    <3> HIDE DEF result
    <3> QED
      BY <2>2, <2>3 DEF Syncs
  <2> QED
    BY <1>5, <2>4 DEF RefreshSource, disk
<1>6. CASE Promote
  <2>1. \A i \in sync.ids : Delivered(i)
    BY <1>6 DEF Promote
  <2>2. NewSources \in [Source -> SourceStates]
    BY <2>1, NewSourcesType
  <2>3. PICK needed \in BOOLEAN :
          needed = (RefreshableFailedSources(enabled, NewSources) # {})
    OBVIOUS
  <2>4. UpdateSyncSchedule(mem.schedule, sync.scope, sync.startedAt, now, needed)
          \in Schedule
    BY UpdateSyncScheduleType DEF States, Syncs
  <2>5. mem' = [schedule |-> UpdateSyncSchedule(mem.schedule, sync.scope,
                                                sync.startedAt, now, needed),
                sources |-> NewSources]
    BY <1>6, <2>3 DEF Promote
  <2>6. mem' \in States
    BY <2>2, <2>4, <2>5 DEF States
  <2>7. files' \subseteq Source
    BY <1>6 DEF Promote, Promoted, Syncs
  <2> QED
    BY <1>6, <2>6, <2>7 DEF Promote, PCs
<1>7. CASE SaveState
  BY <1>7 DEF SaveState, PCs
<1>8. NoSync \in Syncs /\ EmptyState \in States /\ RolledBack \subseteq Source
  BY ZeroTypes DEF NoSync, Scopes, RolledBack, Artifacts
<1>9. CASE SaveFails
  BY <1>8, <1>9 DEF SaveFails, Stop, PCs
<1>10. ASSUME NEW present \in SUBSET Source, Cut(present) \/ SaveFailsLate(present)
       PROVE  TypeOK'
  BY <1>8, <1>10 DEF Cut, SaveFailsLate, Stop, PCs
<1>11. CASE Publish
  BY <1>8, <1>11 DEF Publish, PCs, disk
<1>12. CASE RunScheduled
  <2>1. /\ FilterOutdated(enabled, mem.sources) \in SUBSET Source
        /\ RefreshableFailedSources(enabled, mem.sources) \in SUBSET Source
    BY DEF FilterOutdated, RefreshableFailedSources
  <2>2. sync' \in Syncs
    BY <1>12, <2>1, ZeroTypes DEF RunScheduled, Scopes
  <2> QED
    BY <1>12, <2>2 DEF RunScheduled, PCs, disk
<1>13. CASE Exit
  BY <1>8, <1>13 DEF Exit, Stop, PCs, disk
<1>14. CASE UNCHANGED vars
  BY <1>14 DEF vars
<1> QED
  BY <1>1, <1>2, <1>3, <1>4, <1>5, <1>6, <1>7, <1>9, <1>10, <1>11, <1>12,
     <1>13, <1>14 DEF Next

(* Type correctness: the updater's variables stay in the sets of their        *)
(* declarations whatever syncs, failures and restarts happen.                *)
THEOREM TypeCorrect == Spec => []TypeOK
<1>1. Init => TypeOK
  BY ZeroTypes, ConfigAssumption DEF Init, TypeOK, PCs, NoSync, Scopes
<1>2. TypeOK /\ [Next]_vars => TypeOK'
  BY TypeStep
<1> QED
  BY <1>1, <1>2, PTL DEF Spec

-----------------------------------------------------------------------------
(* Entries *)

(* EntryInOrder, its Boolean fields apart from its arithmetic.                   *)
FlagsInOrder(st) ==
  /\ st.hasLocalArtifact => st.lastDownloadedAt # Zero
  /\ st.retryableFailure => st.firstFailureAt # Zero
  /\ st.markedOutdatedAt # Zero => ~st.hasLocalArtifact

TimesInOrder(st, t) ==
  /\ st.lastDownloadedAt # Zero => st.lastSuccessAt # Zero
  /\ st.lastDownloadedAt <= st.lastSuccessAt
  /\ st.lastSuccessAt # Zero => st.lastCheckedAt # Zero
  /\ st.lastSuccessAt <= st.lastCheckedAt
  /\ st.firstFailureAt # Zero => st.lastCheckedAt # Zero
  /\ st.markedOutdatedAt # Zero => st.lastCheckedAt # Zero
  /\ st.markedOutdatedAt # Zero /\ st.lastSuccessAt # Zero
       => st.lastSuccessAt < st.markedOutdatedAt
  /\ st.lastCheckedAt <= t
  /\ st.firstFailureAt # Zero =>
       /\ st.lastSuccessAt <= st.firstFailureAt
       /\ st.firstFailureAt <= st.lastCheckedAt

LEMMA EntryInOrderParts ==
  ASSUME NEW st, NEW t
  PROVE  EntryInOrder(st, t) <=> FlagsInOrder(st) /\ TimesInOrder(st, t)
BY Zenon DEF EntryInOrder, ValidateSourceState, FlagsInOrder, TimesInOrder

LEMMA EntryTypes ==
  ASSUME NEW st \in SourceStates
  PROVE  /\ st.lastCheckedAt \in Nat /\ st.lastSuccessAt \in Nat
         /\ st.lastDownloadedAt \in Nat /\ st.firstFailureAt \in Nat
         /\ st.markedOutdatedAt \in Nat
         /\ st.hasLocalArtifact \in BOOLEAN /\ st.retryableFailure \in BOOLEAN
         /\ st.recorded \in BOOLEAN
BY DEF SourceStates, Time

(* A refresh that starts from an entry in order, no earlier than its last check, *)
(* delivers an entry in order, related to the old one as the commit expects.      *)
LEMMA RefreshedFacts ==
  ASSUME NEW st \in SourceStates, NEW outcome \in Outcomes,
         NEW firstAt \in Time, NEW at \in Time,
         NEW new, new = Refreshed(st, outcome, firstAt, at),
         Possible(st, outcome), EntryInOrder(st, at),
         st.lastCheckedAt <= firstAt, firstAt <= at, firstAt # Zero
  PROVE  /\ new \in SourceStates
         /\ EntryInOrder(new, at)
         /\ new.lastCheckedAt = at
         /\ ResultFollows(st, [outcome |-> outcome, state |-> new])
<1>0. /\ at \in Nat /\ at # 0 /\ firstAt \in Nat
      /\ st.lastCheckedAt \in Nat /\ st.lastSuccessAt \in Nat
      /\ st.lastDownloadedAt \in Nat /\ st.firstFailureAt \in Nat
      /\ st.markedOutdatedAt \in Nat
      /\ st.hasLocalArtifact \in BOOLEAN
  BY DEF SourceStates, Time, Zero
<1>00. FlagsInOrder(st) /\ TimesInOrder(st, at)
  BY EntryInOrderParts
<1>1. CASE outcome = "notModified"
  <2>1. st.hasLocalArtifact
    BY <1>1 DEF Possible
  <2>2. new = NewNotModifiedSourceState(st, at)
    BY <1>1 DEF Refreshed
  <2>3. /\ new \in SourceStates
        /\ new.hasLocalArtifact = st.hasLocalArtifact
        /\ new.lastDownloadedAt = st.lastDownloadedAt
        /\ new.markedOutdatedAt = st.markedOutdatedAt
        /\ new.lastCheckedAt = at
        /\ new.lastSuccessAt = at
        /\ ~new.retryableFailure
        /\ new.firstFailureAt = Zero
    BY <2>2, NewNotModifiedFacts
  <2>4. FlagsInOrder(new)
    BY <1>00, <2>3 DEF FlagsInOrder
  <2>5. st.markedOutdatedAt = Zero
    BY <1>00, <2>1 DEF FlagsInOrder
  <2>6. TimesInOrder(new, at)
    BY <1>0, <1>00, <2>3, <2>5 DEF TimesInOrder, Zero
  <2>7. ResultFollows(st, [outcome |-> outcome, state |-> new])
    BY <1>1, <2>3 DEF ResultFollows, Success
  <2> QED
    BY <2>3, <2>4, <2>6, <2>7, EntryInOrderParts
<1>2. CASE outcome = "downloaded"
  <2>2. new = NewOKSourceState(st, at)
    BY <1>2 DEF Refreshed
  <2>3. /\ new \in SourceStates
        /\ new.hasLocalArtifact
        /\ new.lastDownloadedAt = at
        /\ new.markedOutdatedAt = Zero
        /\ new.lastCheckedAt = at
        /\ new.lastSuccessAt = at
        /\ ~new.retryableFailure
        /\ new.firstFailureAt = Zero
    BY <2>2, NewOKFacts
  <2>4. FlagsInOrder(new)
    BY <1>0, <2>3 DEF FlagsInOrder, Zero
  <2>6. TimesInOrder(new, at)
    BY <1>0, <2>3 DEF TimesInOrder, Zero
  <2>7. ResultFollows(st, [outcome |-> outcome, state |-> new])
    BY <1>2, <2>3 DEF ResultFollows, Success
  <2> QED
    BY <2>3, <2>4, <2>6, <2>7, EntryInOrderParts
<1>3. ASSUME NEW retryable \in BOOLEAN, outcome \in {"retryable", "permanent"},
             new = NewUnsuccessfulSourceState(st, firstAt, at, retryable)
      PROVE  /\ new \in SourceStates
             /\ EntryInOrder(new, at)
             /\ new.lastCheckedAt = at
             /\ ResultFollows(st, [outcome |-> outcome, state |-> new])
  <2>3. /\ new \in SourceStates
        /\ new.hasLocalArtifact = st.hasLocalArtifact
        /\ new.lastDownloadedAt = st.lastDownloadedAt
        /\ new.markedOutdatedAt = st.markedOutdatedAt
        /\ new.lastCheckedAt = at
        /\ new.lastSuccessAt = st.lastSuccessAt
        /\ st.firstFailureAt = Zero => new.firstFailureAt = firstAt
        /\ st.firstFailureAt # Zero => new.firstFailureAt = st.firstFailureAt
    BY <1>3, NewUnsuccessfulFacts
  <2>4. new.firstFailureAt # Zero
    BY <2>3
  <2>5. FlagsInOrder(new)
    BY <1>00, <2>3, <2>4 DEF FlagsInOrder
  <2>6. TimesInOrder(new, at)
    BY <1>0, <1>00, <2>3 DEF TimesInOrder, Zero
  <2>7. ResultFollows(st, [outcome |-> outcome, state |-> new])
    BY <1>3, <2>3 DEF ResultFollows, Success
  <2> QED
    BY <2>3, <2>5, <2>6, <2>7, EntryInOrderParts
<1>4. CASE outcome = "retryable"
  BY <1>3, <1>4 DEF Refreshed
<1>5. CASE outcome = "permanent"
  BY <1>3, <1>5 DEF Refreshed
<1> QED
  BY <1>1, <1>2, <1>4, <1>5 DEF Outcomes

(* The entry a commit stores: in order, marked outdated only with reason, with a   *)
(* copy exactly if one was downloaded or an old one was not given up.             *)
LEMMA NewEntryFacts ==
  ASSUME NEW i \in Source, NEW st \in SourceStates, NEW t \in Time,
         NEW result \in Results, result.outcome # "pending",
         EntryInOrder(result.state, t), ResultFollows(st, result),
         st.markedOutdatedAt = Zero,
         NEW entry, entry = [result.state EXCEPT !.recorded = TRUE],
         NEW new,
         Success(result.outcome) => new = entry,
         ~Success(result.outcome) => new = MarkOutdatedIfExpired(i, entry)
  PROVE  /\ new \in SourceStates
         /\ EntryInOrder(new, t)
         /\ StoredEntry(i, new)
         /\ new.recorded
         /\ new.hasLocalArtifact <=>
              /\ result.outcome = "downloaded" \/ st.hasLocalArtifact
              /\ new.markedOutdatedAt = Zero
         /\ i \in Required => new.markedOutdatedAt = Zero
         /\ new.markedOutdatedAt # Zero => st.hasLocalArtifact
<1>1. /\ result.state \in SourceStates
      /\ OutdatedAfter[i] \in Nat
  BY SourceAssumption DEF Results
<1>2. /\ entry \in SourceStates
      /\ entry.recorded
      /\ entry.hasLocalArtifact = result.state.hasLocalArtifact
      /\ entry.lastDownloadedAt = result.state.lastDownloadedAt
      /\ entry.markedOutdatedAt = result.state.markedOutdatedAt
      /\ entry.lastCheckedAt = result.state.lastCheckedAt
      /\ entry.lastSuccessAt = result.state.lastSuccessAt
      /\ entry.retryableFailure = result.state.retryableFailure
      /\ entry.firstFailureAt = result.state.firstFailureAt
  BY <1>1 DEF SourceStates
<1>3. FlagsInOrder(entry) /\ TimesInOrder(entry, t)
  <2>1. FlagsInOrder(result.state) /\ TimesInOrder(result.state, t)
    BY EntryInOrderParts
  <2>2. FlagsInOrder(entry)
    BY <1>2, <2>1 DEF FlagsInOrder
  <2>3. TimesInOrder(entry, t)
    BY <1>2, <2>1 DEF TimesInOrder
  <2> QED
    BY <2>2, <2>3
<1>4. /\ entry.markedOutdatedAt = Zero
      /\ entry.hasLocalArtifact <=>
           result.outcome = "downloaded" \/ st.hasLocalArtifact
      /\ Success(result.outcome) => entry.firstFailureAt = Zero
  BY <1>2 DEF ResultFollows
<1>5. CASE new = entry /\ (Success(result.outcome) \/ ~Expired(i, entry))
  <2>1. CopyWithinInterval(i, entry)
    <3>1. SUFFICES ASSUME i \notin Required, entry.hasLocalArtifact,
                          entry.firstFailureAt # Zero, OutdatedAfter[i] # 0
                   PROVE  entry.lastCheckedAt <= entry.firstFailureAt + OutdatedAfter[i]
      BY DEF CopyWithinInterval
    <3>2. ~SourceFailureExpired(i, entry)
      BY <1>4, <1>5, <3>1 DEF Expired
    <3> QED
      BY <1>1, <1>2, <3>1, <3>2, EntryTypes DEF SourceFailureExpired
  <2>2. StoredEntry(i, entry)
    BY <1>2, <1>4, <2>1 DEF StoredEntry
  <2> QED
    BY <1>2, <1>3, <1>4, <1>5, <2>2, EntryInOrderParts
<1>6. CASE ~Success(result.outcome) /\ Expired(i, entry)
  <2>1. new = MarkOutdatedIfExpired(i, entry)
    BY <1>6
  <2>2. /\ new \in SourceStates
        /\ new.recorded = entry.recorded
        /\ new.lastCheckedAt = entry.lastCheckedAt
        /\ new.lastSuccessAt = entry.lastSuccessAt
        /\ new.lastDownloadedAt = entry.lastDownloadedAt
        /\ new.firstFailureAt = entry.firstFailureAt
        /\ ~new.hasLocalArtifact
        /\ new.markedOutdatedAt = entry.lastCheckedAt
        /\ ~new.retryableFailure
    BY <1>2, <1>6, <2>1, MarkOutdatedFacts
  <2>3. /\ i \notin Required
        /\ OutdatedAfter[i] # 0
        /\ entry.firstFailureAt # Zero
        /\ entry.lastCheckedAt > entry.firstFailureAt + OutdatedAfter[i]
    BY <1>6 DEF Expired, SourceFailureExpired
  <2>4. /\ entry.lastCheckedAt \in Nat /\ entry.lastSuccessAt \in Nat
        /\ entry.lastDownloadedAt \in Nat /\ entry.firstFailureAt \in Nat
    BY <1>2, EntryTypes
  <2>5. new.markedOutdatedAt # Zero
    BY <1>1, <2>2, <2>3, <2>4 DEF Zero
  <2>6. FlagsInOrder(new)
    BY <2>2 DEF FlagsInOrder
  <2>7. TimesInOrder(new, t)
    BY <1>1, <1>3, <2>2, <2>3, <2>4 DEF TimesInOrder, Zero
  <2>8. Outdated(i, new)
    BY <1>1, <1>3, <2>2, <2>3, <2>4 DEF Outdated, TimesInOrder, Zero
  <2>9. StoredEntry(i, new)
    BY <1>2, <2>2, <2>8 DEF StoredEntry, CopyWithinInterval
  <2>10. st.hasLocalArtifact
    BY <1>4, <1>6 DEF Expired, Success
  <2> QED
    BY <1>2, <2>2, <2>3, <2>5, <2>6, <2>7, <2>9, <2>10, EntryInOrderParts
<1>7. ~Success(result.outcome) /\ ~Expired(i, entry) => new = entry
  BY <1>2, MarkOutdatedFacts
<1> QED
  BY <1>5, <1>6, <1>7

-----------------------------------------------------------------------------
(* The invariant, action by action *)

LEMMA EntryLater ==
  ASSUME NEW st \in SourceStates, NEW t \in Time, NEW u \in Time, t <= u,
         EntryInOrder(st, t)
  PROVE  EntryInOrder(st, u)
<1>1. FlagsInOrder(st) /\ TimesInOrder(st, t)
  BY EntryInOrderParts
<1>2. TimesInOrder(st, u)
  BY <1>1, EntryTypes DEF TimesInOrder, Time
<1> QED
  BY <1>1, <1>2, EntryInOrderParts

LEMMA EmptyStateFacts ==
  /\ Recorded(EmptyState.sources) = {}
  /\ Artifacts(EmptyState) = {}
  /\ EmptyState.schedule = ZeroSchedule
  /\ \A i \in Source, t \in Time :
       /\ EntryInOrder(EmptyState.sources[i], t)
       /\ StoredEntry(i, EmptyState.sources[i])
<1>1. \A i \in Source : EmptyState.sources[i] = ZeroSourceState
  BY DEF EmptyState
<1>2. \A i \in Source : ~EmptyState.sources[i].recorded
                      /\ ~EmptyState.sources[i].hasLocalArtifact
  BY <1>1 DEF ZeroSourceState
<1>3. ASSUME NEW i \in Source, NEW t \in Time
      PROVE  EntryInOrder(ZeroSourceState, t) /\ StoredEntry(i, ZeroSourceState)
  <2>1. FlagsInOrder(ZeroSourceState)
    BY DEF FlagsInOrder, ZeroSourceState
  <2>2. TimesInOrder(ZeroSourceState, t)
    BY DEF TimesInOrder, ZeroSourceState, Zero, Time
  <2>3. StoredEntry(i, ZeroSourceState)
    BY DEF StoredEntry, CopyWithinInterval, ZeroSourceState
  <2> QED
    BY <2>1, <2>2, <2>3, EntryInOrderParts
<1> QED
  BY <1>1, <1>2, <1>3 DEF Recorded, Artifacts, EmptyState

LEMMA InitInv ==
  ASSUME Init
  PROVE  IInv
<1>1. FirstClock \in Time
  BY ConfigAssumption
<1>2. ClockInv
  BY <1>1 DEF Init, ClockInv, Time
<1>3. EntriesInv
  BY <1>1, EmptyStateFacts DEF Init, EntriesInv
<1>4. ResultsInv /\ ChosenInv
  BY DEF Init, ResultsInv, ChosenInv, Deciding
<1>5. ScheduleInv
  BY DEF Init, ScheduleInv, Up
<1>6. RecordedInv
  BY DEF Init, RecordedInv, Deciding
<1>7. MemoryInv
  BY DEF Init, MemoryInv, Deciding, Settled
<1>8. FilesInv
  BY EmptyStateFacts DEF Init, FilesInv, Up
<1>9. RefusedOnlyAfterTornCommit
  BY DEF Init, RefusedOnlyAfterTornCommit
<1> QED
  BY <1>2, <1>3, <1>4, <1>5, <1>6, <1>7, <1>8, <1>9 DEF IInv

LEMMA TickStep ==
  ASSUME TypeOK, IInv, Tick
  PROVE  IInv'
<1> USE DEF IInv
<1>1. /\ now \in Time /\ now' \in Time /\ now <= now'
      /\ UNCHANGED <<pc, enabled, mem, stateFile, saved, files, sync, tornCommit>>
  BY DEF TypeOK, Tick, disk, Time
<1>2. ClockInv'
  BY <1>1, ConfigAssumption DEF ClockInv, TypeOK, Syncs, Time
<1>3. EntriesInv'
  BY <1>1, EntryLater DEF EntriesInv, TypeOK, States
<1>4. ResultsInv'
  <2> SUFFICES ASSUME Deciding, NEW i \in Source, Delivered(i)
               PROVE  /\ EntryInOrder(sync.results[i].state, now')
                      /\ ResultFollows(mem.sources[i], sync.results[i])
    BY <1>1 DEF ResultsInv, Deciding, Delivered
  <2>1. sync.results[i].state \in SourceStates
    BY DEF TypeOK, Syncs, Results
  <2> QED
    BY <1>1, <2>1, EntryLater DEF ResultsInv
<1>5. ChosenInv'
  BY <1>1 DEF ChosenInv, Deciding
<1>6. ScheduleInv'
  BY <1>1 DEF ScheduleInv, Up
<1>7. RecordedInv'
  BY <1>1 DEF RecordedInv, Deciding
<1>8. MemoryInv'
  BY <1>1 DEF MemoryInv, Deciding, Settled
<1>9. FilesInv' /\ RefusedOnlyAfterTornCommit'
  BY <1>1 DEF FilesInv, RefusedOnlyAfterTornCommit, Up
<1> QED
  BY <1>2, <1>3, <1>4, <1>5, <1>6, <1>7, <1>8, <1>9

(* At a start memory becomes what the disk holds, with a first full sync due if    *)
(* none was ever recorded, and the sources chosen are not marked outdated.        *)
LEMMA StartStep ==
  ASSUME TypeOK, IInv, NEW on \in EnabledSets, NEW startAt \in StartAts,
         Start(on, startAt)
  PROVE  IInv'
<1> DEFINE base == IF stateFile THEN saved ELSE EmptyState
           s    == WithFirstFullSync(base, startAt)
           ids  == StartupSources(on, s, now)
<1> USE DEF IInv
<1>1. /\ pc = "down" /\ pc' = "decided" /\ mem' = s
      /\ sync' = NewSync("startup", ids)
      /\ tornCommit' = FALSE /\ LoadSucceeds
      /\ UNCHANGED <<now, stateFile, saved, files>>
  BY DEF Start, disk
<1>2. /\ on \subseteq Source /\ on # {} /\ startAt \in Nat /\ startAt # Zero
      /\ startAt <= FirstClock /\ FirstClock \in Nat /\ now \in Nat
      /\ FirstClock <= now
  BY ConfigAssumption, StartAssumption, EnabledAssumption DEF TypeOK, Time, ClockInv
<1>3. base = saved
  BY DEF MemoryInv
<1>4. s.sources = saved.sources /\ s.schedule \in Schedule
  <2>1. saved \in States
    BY DEF TypeOK
  <2> QED
    BY <1>2, <1>3, <2>1 DEF WithFirstFullSync, States, Schedule, Time
<1>5. /\ ValidateSyncSchedule(s.schedule)
      /\ s.schedule.nextFullSyncAt # Zero
      /\ s.schedule.lastFullSyncAt = Zero => s.schedule.nextFullSyncAt <= FirstClock
      /\ ids # {} \/ Recorded(s.sources) # {}
  <2>1. CASE stateFile
    <3>1. s.schedule = saved.schedule
      BY <1>3, <2>1 DEF WithFirstFullSync, ScheduleInv
    <3> QED
      BY <1>4, <2>1, <3>1 DEF ScheduleInv, RecordedInv
  <2>2. CASE ~stateFile
    <3>1. saved = EmptyState
      BY <2>2 DEF MemoryInv
    <3>2. s.schedule = [ZeroSchedule EXCEPT !.nextFullSyncAt = startAt]
      BY <2>2 DEF WithFirstFullSync, EmptyState, ZeroSchedule
    <3>3. /\ s.schedule.lastFullSyncAt = Zero
          /\ s.schedule.nextFullSyncAt = startAt
          /\ s.schedule.lastRetrySyncAt = Zero
          /\ s.schedule.nextRetrySyncAt = Zero
          /\ s.schedule.lastRetryInterval = NoRung
      BY <3>2 DEF ZeroSchedule, NoRung
    <3>4. ValidateSyncSchedule(s.schedule)
      BY <3>3 DEF ValidateSyncSchedule, HasFullSyncDependentData
    <3>5. ids = on
      <4>1. NeedsFullSync(s.schedule, now)
        BY <1>2, <3>3 DEF NeedsFullSync
      <4>2. ids = FilterOutdated(on, s.sources)
        BY <4>1 DEF StartupSources
      <4>3. \A i \in on : ~s.sources[i].recorded
        BY <1>2, <1>4, <3>1, EmptyStateFacts DEF Recorded
      <4> HIDE DEF s, ids
      <4> QED
        BY <4>2, <4>3 DEF FilterOutdated
    <3> QED
      BY <1>2, <3>3, <3>4, <3>5
  <2> QED
    BY <2>1, <2>2
<1>6. /\ ids \subseteq on
      /\ \A i \in ids : s.sources[i].markedOutdatedAt = Zero
  <2>1. \A i \in on : ~s.sources[i].recorded => s.sources[i].markedOutdatedAt = Zero
    BY <1>2, <1>4 DEF EntriesInv, StoredEntry
  <2>2. ids \subseteq FilterOutdated(on, s.sources)
                        \cup NewEnabledSources(on, s.sources)
                        \cup RefreshableFailedSources(on, s.sources)
    BY DEF StartupSources
  <2> HIDE DEF s, ids
  <2> QED
    BY <1>2, <2>1, <2>2
    DEF FilterOutdated, NewEnabledSources, RefreshableFailedSources, Recorded,
        HasRefreshableFailure
<1> HIDE DEF base, s, ids
<1>7. /\ sync'.ids = ids
      /\ \A i \in Source : sync'.results[i].outcome = "pending"
  BY <1>1 DEF NewSync, NoResults, PendingResult
<1>8. ClockInv'
  BY <1>1 DEF ClockInv
<1>9. EntriesInv'
  BY <1>1, <1>4 DEF EntriesInv
<1>10. ResultsInv'
  BY <1>7 DEF ResultsInv, Delivered
<1>11. ChosenInv'
  BY <1>1, <1>6, <1>7 DEF ChosenInv
<1>12. ScheduleInv'
  BY <1>1, <1>5 DEF ScheduleInv, Up
<1>13. RecordedInv'
  BY <1>1, <1>5, <1>7 DEF RecordedInv, Deciding
<1>14. MemoryInv'
  BY <1>1, <1>4 DEF MemoryInv
<1>15. FilesInv'
  <2>1. files = Artifacts(saved)
    BY <1>1, EmptyStateFacts DEF LoadSucceeds, InSyncWithLocalSources, MemoryInv
  <2> QED
    BY <1>1, <2>1 DEF FilesInv
<1>16. RefusedOnlyAfterTornCommit'
  BY <1>1 DEF RefusedOnlyAfterTornCommit
<1> QED
  BY <1>8, <1>9, <1>10, <1>11, <1>12, <1>13, <1>14, <1>15, <1>16

(* A start is refused only when the disk does not hold what a commit leaves.      *)
LEMMA RefuseStep ==
  ASSUME TypeOK, IInv, Refuse
  PROVE  IInv'
<1> USE DEF IInv
<1>1. /\ pc = "down" /\ pc' = "refused"
      /\ UNCHANGED <<now, enabled, mem, stateFile, saved, files, sync, tornCommit>>
      /\ ~LoadSucceeds
  BY DEF Refuse, disk
<1>2. tornCommit
  <2>1. SUFFICES ASSUME ~tornCommit PROVE LoadSucceeds
    BY <1>1
  <2>2. files = Artifacts(saved)
    BY <1>1, <2>1 DEF FilesInv
  <2>3. CASE stateFile
    <3>1. Loadable(saved)
      BY <2>3 DEF Loadable, RecordedInv, ScheduleInv, EntriesInv, EntryInOrder, Recorded
    <3>2. InSyncWithLocalSources(saved, files)
      BY <2>2 DEF InSyncWithLocalSources, EntriesInv, StoredEntry, Recorded, Artifacts
    <3> QED
      BY <2>3, <3>1, <3>2 DEF LoadSucceeds
  <2>4. CASE ~stateFile
    BY <2>2, <2>4, EmptyStateFacts DEF LoadSucceeds, MemoryInv
  <2> QED
    BY <2>3, <2>4
<1>3. ClockInv' /\ EntriesInv'
  BY <1>1 DEF ClockInv, EntriesInv
<1>4. ResultsInv' /\ ChosenInv'
  BY <1>1 DEF ResultsInv, ChosenInv, Deciding
<1>5. ScheduleInv'
  BY <1>1 DEF ScheduleInv, Up
<1>6. RecordedInv' /\ MemoryInv'
  BY <1>1 DEF RecordedInv, MemoryInv, Deciding, Settled
<1>7. FilesInv'
  BY <1>1 DEF FilesInv, Up
<1>8. RefusedOnlyAfterTornCommit'
  BY <1>1, <1>2 DEF RefusedOnlyAfterTornCommit
<1> QED
  BY <1>3, <1>4, <1>5, <1>6, <1>7, <1>8

LEMMA BeginSyncStep ==
  ASSUME TypeOK, IInv, BeginSync
  PROVE  IInv'
<1> USE DEF IInv
<1>1. /\ pc = "decided" /\ pc' = "refreshing"
      /\ UNCHANGED <<now, enabled, mem, stateFile, saved, files, tornCommit>>
      /\ sync' = [sync EXCEPT !.startedAt = now]
  BY DEF BeginSync, disk
<1>2. /\ sync'.ids = sync.ids /\ sync'.results = sync.results
      /\ sync'.startedAt = now
  BY <1>1 DEF TypeOK, Syncs
<1>3. ClockInv'
  BY <1>1, <1>2 DEF ClockInv, EntriesInv, EntryInOrder, TypeOK, Time
<1>4. EntriesInv'
  BY <1>1 DEF EntriesInv
<1>5. ResultsInv' /\ ChosenInv'
  BY <1>1, <1>2 DEF ResultsInv, ChosenInv, Deciding, Delivered
<1>6. ScheduleInv'
  BY <1>1 DEF ScheduleInv, Up
<1>7. RecordedInv' /\ MemoryInv'
  BY <1>1, <1>2 DEF RecordedInv, MemoryInv, Deciding, Settled
<1>8. FilesInv' /\ RefusedOnlyAfterTornCommit'
  BY <1>1 DEF FilesInv, RefusedOnlyAfterTornCommit, Up
<1> QED
  BY <1>3, <1>4, <1>5, <1>6, <1>7, <1>8

LEMMA RefreshStep ==
  ASSUME TypeOK, IInv, NEW i \in Source, NEW outcome \in Outcomes,
         NEW firstAt \in sync.startedAt..now, RefreshSource(i, outcome, firstAt)
  PROVE  IInv'
<1> USE DEF IInv
<1>1. PICK new : new = Refreshed(mem.sources[i], outcome, firstAt, now)
  OBVIOUS
<1>2. /\ pc = "refreshing" /\ i \in sync.ids
      /\ Possible(mem.sources[i], outcome)
      /\ UNCHANGED <<now, pc, enabled, mem, stateFile, saved, files, tornCommit>>
      /\ sync' = [sync EXCEPT !.results[i] = [outcome |-> outcome, state |-> new]]
  BY <1>1 DEF RefreshSource, disk
<1>3. /\ mem.sources[i] \in SourceStates /\ now \in Nat /\ sync.startedAt \in Nat
      /\ FirstClock \in Nat /\ FirstClock # Zero
      /\ mem.sources[i].lastCheckedAt \in Nat
  BY ConfigAssumption, EntryTypes DEF TypeOK, States, Syncs, Time
<1>4. /\ firstAt \in Time /\ firstAt # Zero /\ firstAt <= now
      /\ mem.sources[i].lastCheckedAt <= firstAt
  BY <1>2, <1>3 DEF ClockInv, Time, Zero
<1>5. EntryInOrder(mem.sources[i], now)
  BY DEF EntriesInv
<1>6. /\ EntryInOrder(new, now)
      /\ ResultFollows(mem.sources[i], [outcome |-> outcome, state |-> new])
  BY <1>1, <1>2, <1>3, <1>4, <1>5, RefreshedFacts DEF Time
<1>7. /\ sync'.ids = sync.ids /\ sync'.startedAt = sync.startedAt
      /\ sync'.results = [sync.results EXCEPT ![i] = [outcome |-> outcome, state |-> new]]
  BY <1>2 DEF TypeOK, Syncs
<1>8. ClockInv' /\ EntriesInv'
  BY <1>2, <1>7 DEF ClockInv, EntriesInv
<1>9. ResultsInv'
  <2> SUFFICES ASSUME NEW j \in Source, Delivered(j)'
               PROVE  /\ EntryInOrder(sync'.results[j].state, now)
                      /\ ResultFollows(mem.sources[j], sync'.results[j])
    BY <1>2 DEF ResultsInv, Deciding
  <2>1. sync.results \in [Source -> Results]
    BY DEF TypeOK, Syncs
  <2>2. CASE j = i
    BY <1>6, <1>7, <2>1, <2>2
  <2>3. CASE j # i
    BY <1>2, <1>7, <2>1, <2>3 DEF ResultsInv, Delivered, Deciding
  <2> QED
    BY <2>2, <2>3
<1>10. ChosenInv' /\ RecordedInv' /\ MemoryInv'
  BY <1>2, <1>7 DEF ChosenInv, RecordedInv, MemoryInv, Deciding, Settled
<1>11. ScheduleInv'
  BY <1>2, <1>7 DEF ScheduleInv, Up
<1>12. FilesInv' /\ RefusedOnlyAfterTornCommit'
  BY <1>2 DEF FilesInv, RefusedOnlyAfterTornCommit, Up
<1> QED
  BY <1>8, <1>9, <1>10, <1>11, <1>12

(* What the loop over the results leaves in memory, source by source.            *)
LEMMA NewSourcesFacts ==
  ASSUME TypeOK, IInv, pc = "refreshing", \A i \in sync.ids : Delivered(i),
         NEW i \in Source
  PROVE  /\ EntryInOrder(NewSources[i], now)
         /\ StoredEntry(i, NewSources[i])
         /\ i \in sync.ids => NewSources[i].recorded
         /\ i \notin sync.ids => NewSources[i] = mem.sources[i]
         /\ NewSources[i].hasLocalArtifact <=>
              /\ i \in Promoted \/ mem.sources[i].hasLocalArtifact
              /\ i \notin Removed
         /\ i \in Promoted \/ i \in Required => i \notin Removed
         /\ mem.sources[i].markedOutdatedAt = Zero =>
              Ledger!MayBecome(i, CopyOf(mem.sources[i]), CopyOf(NewSources[i]))
<1> USE DEF IInv
<1>1. NewSources[i] = IF i \in sync.ids THEN NewEntry(i) ELSE mem.sources[i]
  BY DEF NewSources
<1>2. CASE i \notin sync.ids
  BY <1>1, <1>2 DEF EntriesInv, Promoted, Removed, Ledger!MayBecome
<1>3. CASE i \in sync.ids
  <2>0. PICK result, st : result = sync.results[i] /\ st = mem.sources[i]
    OBVIOUS
  <2>1. PICK entry : entry = [result.state EXCEPT !.recorded = TRUE]
    OBVIOUS
  <2>2. PICK new : new = IF Success(result.outcome)
                           THEN entry ELSE MarkOutdatedIfExpired(i, entry)
    OBVIOUS
  <2>3. NewSources[i] = new
    BY <1>1, <1>3, <2>0, <2>1, <2>2 DEF NewEntry
  <2>4. /\ st \in SourceStates /\ now \in Time
        /\ result \in Results
        /\ result.outcome # "pending"
    BY <1>3, <2>0 DEF TypeOK, States, Syncs, Delivered
  <2>5. /\ EntryInOrder(result.state, now)
        /\ ResultFollows(st, result)
        /\ st.markedOutdatedAt = Zero
    BY <1>3, <2>0 DEF ResultsInv, ChosenInv, Deciding
  <2>6. /\ EntryInOrder(new, now)
        /\ StoredEntry(i, new)
        /\ new.recorded
        /\ new.hasLocalArtifact <=>
             /\ result.outcome = "downloaded" \/ st.hasLocalArtifact
             /\ new.markedOutdatedAt = Zero
        /\ i \in Required => new.markedOutdatedAt = Zero
        /\ new.markedOutdatedAt # Zero => st.hasLocalArtifact
    <3>1. /\ Success(result.outcome) => new = entry
          /\ ~Success(result.outcome) => new = MarkOutdatedIfExpired(i, entry)
      BY <2>2
    <3> QED
      BY <2>1, <2>4, <2>5, <3>1, NewEntryFacts
  <2>7. result.outcome = "downloaded" => new.markedOutdatedAt = Zero
    <3>1. SUFFICES ASSUME result.outcome = "downloaded"
                   PROVE  new.markedOutdatedAt = Zero
      OBVIOUS
    <3>2. new = entry
      BY <2>2, <3>1 DEF Success
    <3>3. entry.markedOutdatedAt = result.state.markedOutdatedAt
      BY <2>1, <2>4 DEF Results, SourceStates
    <3> QED
      BY <2>5, <3>1, <3>2, <3>3 DEF ResultFollows
  <2>8. /\ i \in Promoted <=> result.outcome = "downloaded"
        /\ i \in Removed <=> new.markedOutdatedAt # Zero
    BY <1>3, <2>0, <2>3, <2>5 DEF Promoted, Removed
  <2>9. Ledger!MayBecome(i, CopyOf(st), CopyOf(new))
    <3>1. CASE new.markedOutdatedAt # Zero
      BY <2>5, <2>6, <3>1 DEF CopyOf, Ledger!MayBecome
    <3>2. CASE new.markedOutdatedAt = Zero
      BY <2>5, <2>6, <3>2 DEF CopyOf, Ledger!MayBecome
    <3> QED
      BY <3>1, <3>2
  <2> QED
    BY <1>3, <2>0, <2>3, <2>6, <2>7, <2>8, <2>9
<1> QED
  BY <1>2, <1>3

LEMMA PromoteStep ==
  ASSUME TypeOK, IInv, Promote
  PROVE  IInv'
<1> USE DEF IInv
<1>1. PICK needed \in BOOLEAN :
        needed = (RefreshableFailedSources(enabled, NewSources) # {})
  OBVIOUS
<1>2. PICK schedule : schedule = UpdateSyncSchedule(mem.schedule, sync.scope,
                                                    sync.startedAt, now, needed)
  OBVIOUS
<1>3. /\ pc = "refreshing" /\ pc' = "promoted"
      /\ \A i \in sync.ids : Delivered(i)
      /\ files' = (files \cup Promoted) \ Removed
      /\ mem' = [schedule |-> schedule, sources |-> NewSources]
      /\ UNCHANGED <<now, enabled, stateFile, saved, sync, tornCommit>>
  BY <1>1, <1>2 DEF Promote
<1>4. mem'.schedule = schedule /\ mem'.sources = NewSources
  BY <1>3
<1>5. /\ mem.schedule \in Schedule /\ sync.scope \in Scopes /\ sync.startedAt \in Time
      /\ now \in Time /\ sync.startedAt <= now /\ FirstClock <= sync.startedAt
      /\ FirstClock \in Time /\ sync.ids \subseteq Source /\ files \subseteq Source
  BY <1>3, ConfigAssumption DEF TypeOK, States, Syncs, ClockInv
<1>6. /\ ValidateSyncSchedule(mem.schedule) /\ mem.schedule.nextFullSyncAt # Zero
      /\ mem.schedule.lastFullSyncAt # Zero \/ NeedsFullSync(mem.schedule, sync.startedAt)
  BY <1>3, <1>5 DEF ScheduleInv, Up, NeedsFullSync, Schedule, Time
<1>7. /\ ValidateSyncSchedule(schedule) /\ schedule \in Schedule
      /\ schedule.lastFullSyncAt # Zero
      /\ mem.schedule.nextFullSyncAt <= schedule.nextFullSyncAt
      /\ sync.startedAt < NextSyncAt(schedule)
  BY <1>2, <1>5, <1>6, UpdateSyncScheduleFacts
<1>8. schedule.nextFullSyncAt # Zero
  BY <1>5, <1>6, <1>7 DEF Schedule, Time, Zero
<1>9. ClockInv'
  BY <1>3 DEF ClockInv
<1>10. EntriesInv'
  BY <1>3, <1>4, NewSourcesFacts DEF EntriesInv
<1>11. ResultsInv' /\ ChosenInv'
  BY <1>3 DEF ResultsInv, ChosenInv, Deciding
<1>12. ScheduleInv'
  BY <1>3, <1>4, <1>7, <1>8 DEF ScheduleInv, Up
<1>13. RecordedInv'
  <2>1. Recorded(NewSources) # {}
    <3>1. CASE sync.ids # {}
      BY <1>3, <1>5, <3>1, NewSourcesFacts DEF Recorded
    <3>2. CASE sync.ids = {}
      BY <1>3, <3>2, NewSourcesFacts DEF Recorded, RecordedInv, Deciding
    <3> QED
      BY <3>1, <3>2
  <2> QED
    BY <1>3, <1>4, <2>1 DEF RecordedInv, Deciding
<1>14. MemoryInv'
  <2>1. ASSUME NEW i \in Source, saved.sources[i].markedOutdatedAt # Zero
        PROVE  NewSources[i] = saved.sources[i]
    <3>1. mem.sources[i] = saved.sources[i]
      BY <1>3 DEF MemoryInv, Deciding
    <3>2. i \notin sync.ids
      BY <1>3, <2>1, <3>1 DEF ChosenInv, Deciding
    <3> QED
      BY <1>3, <3>1, <3>2, NewSourcesFacts
  <2>2. ASSUME NEW i \in Source
        PROVE  Ledger!MayBecome(i, CopyOf(saved.sources[i]), CopyOf(NewSources[i]))
    <3>1. mem.sources[i] = saved.sources[i]
      BY <1>3 DEF MemoryInv, Deciding
    <3>2. CASE saved.sources[i].markedOutdatedAt = Zero
      BY <1>3, <3>1, <3>2, NewSourcesFacts
    <3>3. CASE saved.sources[i].markedOutdatedAt # Zero
      BY <2>1, <3>3 DEF Ledger!MayBecome
    <3> QED
      BY <3>2, <3>3
  <2> QED
    BY <1>3, <1>4, <2>1, <2>2 DEF MemoryInv, Deciding, Settled
<1>15. FilesInv'
  <2>1. SUFFICES ASSUME ~tornCommit PROVE files' = Artifacts(mem')
    BY <1>3 DEF FilesInv, Up
  <2>2. files = Artifacts(mem)
    BY <1>3, <2>1 DEF FilesInv, MemoryInv, Artifacts, Deciding
  <2>3. Promoted \subseteq Source
    BY <1>5 DEF Promoted
  <2>4. \A i \in Source : i \in files' <=> NewSources[i].hasLocalArtifact
    BY <1>3, <2>2, NewSourcesFacts DEF Artifacts
  <2> QED
    BY <1>3, <1>4, <1>5, <2>3, <2>4 DEF Artifacts
<1>16. RefusedOnlyAfterTornCommit'
  BY <1>3 DEF RefusedOnlyAfterTornCommit
<1> QED
  BY <1>9, <1>10, <1>11, <1>12, <1>13, <1>14, <1>15, <1>16

LEMMA SaveStateStep ==
  ASSUME TypeOK, IInv, SaveState
  PROVE  IInv'
<1> USE DEF IInv
<1>1. /\ pc = "promoted" /\ pc' = "publishing" /\ stateFile' = TRUE /\ saved' = mem
      /\ UNCHANGED <<now, enabled, mem, files, sync, tornCommit>>
  BY DEF SaveState
<1>2. ClockInv' /\ EntriesInv'
  BY <1>1 DEF ClockInv, EntriesInv
<1>3. ResultsInv' /\ ChosenInv'
  BY <1>1 DEF ResultsInv, ChosenInv, Deciding
<1>4. ScheduleInv'
  BY <1>1 DEF ScheduleInv, Up
<1>5. RecordedInv' /\ MemoryInv'
  BY <1>1 DEF RecordedInv, MemoryInv, Deciding, Settled
<1>6. FilesInv' /\ RefusedOnlyAfterTornCommit'
  BY <1>1 DEF FilesInv, RefusedOnlyAfterTornCommit, Up
<1> QED
  BY <1>2, <1>3, <1>4, <1>5, <1>6

(* A process that ends leaves the invariant to the disk alone.                   *)
LEMMA StopStep ==
  ASSUME TypeOK, IInv, Stop, now' = now,
         \/ UNCHANGED <<stateFile, saved>>
         \/ pc = "promoted" /\ stateFile' /\ saved' = mem,
         ~tornCommit' => files' = Artifacts(saved')
  PROVE  IInv'
<1> USE DEF IInv
<1>1. pc' = "down" /\ mem' = EmptyState /\ sync' = NoSync
  BY DEF Stop
<1>2. ClockInv'
  BY <1>1 DEF ClockInv
<1>3. EntriesInv'
  BY <1>1, EmptyStateFacts DEF EntriesInv, TypeOK
<1>4. ResultsInv' /\ ChosenInv'
  BY <1>1 DEF ResultsInv, ChosenInv, Deciding
<1>5. ScheduleInv'
  BY <1>1 DEF ScheduleInv, Up
<1>6. RecordedInv'
  BY <1>1 DEF RecordedInv, Deciding
<1>7. MemoryInv'
  BY <1>1 DEF MemoryInv, Deciding, Settled
<1>8. FilesInv' /\ RefusedOnlyAfterTornCommit'
  BY <1>1 DEF FilesInv, RefusedOnlyAfterTornCommit, Up
<1> QED
  BY <1>2, <1>3, <1>4, <1>5, <1>6, <1>7, <1>8

LEMMA RolledBackFacts ==
  ASSUME IInv
  PROVE  RolledBack = Artifacts(saved)
BY EmptyStateFacts DEF RolledBack, IInv, MemoryInv

LEMMA PublishStep ==
  ASSUME TypeOK, IInv, Publish
  PROVE  IInv'
<1> USE DEF IInv
<1>1. /\ pc = "publishing" /\ pc' = "waiting"
      /\ UNCHANGED <<now, enabled, mem, stateFile, saved, files, tornCommit>>
  BY DEF Publish, disk
<1>2. ClockInv' /\ EntriesInv'
  BY <1>1 DEF ClockInv, EntriesInv
<1>3. ResultsInv' /\ ChosenInv'
  BY <1>1 DEF ResultsInv, ChosenInv, Deciding
<1>4. ScheduleInv'
  BY <1>1 DEF ScheduleInv, Up
<1>5. RecordedInv' /\ MemoryInv'
  BY <1>1 DEF RecordedInv, MemoryInv, Deciding, Settled
<1>6. FilesInv' /\ RefusedOnlyAfterTornCommit'
  BY <1>1 DEF FilesInv, RefusedOnlyAfterTornCommit, Up
<1> QED
  BY <1>2, <1>3, <1>4, <1>5, <1>6

LEMMA RunScheduledStep ==
  ASSUME TypeOK, IInv, RunScheduled
  PROVE  IInv'
<1> USE DEF IInv
<1>1. PICK scope, ids :
        /\ sync' = NewSync(scope, ids)
        /\ \/ ids = FilterOutdated(enabled, mem.sources)
           \/ ids = RefreshableFailedSources(enabled, mem.sources)
  BY DEF RunScheduled
<1>2. /\ pc = "waiting" /\ pc' = "decided"
      /\ UNCHANGED <<now, enabled, mem, stateFile, saved, files, tornCommit>>
  BY DEF RunScheduled, disk
<1>3. \A i \in ids : mem.sources[i].markedOutdatedAt = Zero
  BY <1>1 DEF FilterOutdated, RefreshableFailedSources, HasRefreshableFailure,
              EntriesInv, StoredEntry, TypeOK
<1>4. /\ sync'.ids = ids
      /\ \A i \in Source : sync'.results[i].outcome = "pending"
  BY <1>1 DEF NewSync, NoResults, PendingResult
<1>5. ClockInv' /\ EntriesInv'
  BY <1>2 DEF ClockInv, EntriesInv
<1>6. ResultsInv'
  BY <1>4 DEF ResultsInv, Delivered
<1>7. ChosenInv'
  BY <1>2, <1>3, <1>4 DEF ChosenInv
<1>8. ScheduleInv'
  BY <1>2 DEF ScheduleInv, Up
<1>9. RecordedInv' /\ MemoryInv'
  BY <1>2 DEF RecordedInv, MemoryInv, Deciding, Settled
<1>10. FilesInv' /\ RefusedOnlyAfterTornCommit'
  BY <1>2 DEF FilesInv, RefusedOnlyAfterTornCommit, Up
<1> QED
  BY <1>5, <1>6, <1>7, <1>8, <1>9, <1>10

LEMMA InvStep ==
  ASSUME TypeOK, IInv, [Next]_vars
  PROVE  IInv'
<1>1. CASE SaveFails
  BY <1>1, StopStep, RolledBackFacts DEF SaveFails
<1>2. ASSUME NEW present \in SUBSET Source, Cut(present) \/ SaveFailsLate(present)
      PROVE  IInv'
  BY <1>2, StopStep DEF Cut, SaveFailsLate
<1>3. CASE Exit
  <2>1. ~tornCommit' => files' = Artifacts(saved')
    BY <1>3 DEF Exit, disk, IInv, FilesInv, Up
  <2> QED
    BY <1>3, <2>1, StopStep DEF Exit, disk
<1>4. CASE UNCHANGED vars
  <2>1. UNCHANGED <<now, pc, enabled, mem, stateFile, saved, files, sync, tornCommit>>
    BY <1>4 DEF vars
  <2>2. ClockInv' /\ EntriesInv'
    BY <2>1 DEF IInv, ClockInv, EntriesInv
  <2>3. ResultsInv' /\ ChosenInv'
    BY <2>1 DEF IInv, ResultsInv, ChosenInv, Deciding, Delivered
  <2>4. ScheduleInv'
    BY <2>1 DEF IInv, ScheduleInv, Up
  <2>5. RecordedInv' /\ MemoryInv'
    BY <2>1 DEF IInv, RecordedInv, MemoryInv, Deciding, Settled
  <2>6. FilesInv' /\ RefusedOnlyAfterTornCommit'
    BY <2>1 DEF IInv, FilesInv, RefusedOnlyAfterTornCommit, Up
  <2> QED
    BY <2>2, <2>3, <2>4, <2>5, <2>6 DEF IInv
<1> QED
  BY <1>1, <1>2, <1>3, <1>4, TickStep, StartStep, RefuseStep, BeginSyncStep,
     RefreshStep, PromoteStep, SaveStateStep, PublishStep, RunScheduledStep
  DEF Next

THEOREM InvariantHolds == Spec => []IInv
<1>1. Init => IInv
  BY InitInv
<1>2. TypeOK /\ IInv /\ [Next]_vars => IInv'
  BY InvStep
<1> QED
  BY <1>1, <1>2, TypeCorrect, PTL DEF Spec

-----------------------------------------------------------------------------
(* The properties *)

(* Whatever is written to state.json passes the validation of the next start.    *)
THEOREM SavedStateAlwaysLoads == Spec => []SavedStateLoads
<1>1. IInv => SavedStateLoads
  BY DEF IInv, SavedStateLoads, Loadable, RecordedInv, ScheduleInv, EntriesInv,
         EntryInOrder, Recorded
<1> QED
  BY <1>1, InvariantHolds, PTL

(* Outside a commit cut short, no start is ever refused.                        *)
THEOREM RefusalMeansTornCommit == Spec => []RefusedOnlyAfterTornCommit
<1>1. IInv => RefusedOnlyAfterTornCommit
  BY DEF IInv
<1> QED
  BY <1>1, InvariantHolds, PTL

(* What an event calls available is what the data directory holds.               *)
THEOREM AvailableSourcesOnDisk == Spec => []AvailableMatchesFiles
<1>1. TypeOK /\ IInv => AvailableMatchesFiles
  <2>1. SUFFICES ASSUME TypeOK, IInv, pc \in {"publishing", "waiting"}
                 PROVE  AvailableSources(enabled, mem.sources) = enabled \cap files
    BY DEF AvailableMatchesFiles
  <2>2. files = Artifacts(saved) /\ mem.sources = saved.sources
    BY <2>1 DEF IInv, FilesInv, MemoryInv, Settled, Up
  <2>3. \A i \in Source : IsAvailable(mem.sources[i]) <=> i \in files
    BY <2>1, <2>2 DEF IInv, EntriesInv, EntryInOrder, ValidateSourceState, StoredEntry,
                     IsAvailable, Artifacts
  <2> QED
    BY <2>1, <2>3 DEF AvailableSources, TypeOK
<1> QED
  BY <1>1, TypeCorrect, InvariantHolds, PTL

(* No copy is given up without the reason the code gives for it.                 *)
THEOREM OutdatedNeedsReason == Spec => []OutdatedIsJustified
<1>1. IInv => OutdatedIsJustified
  BY DEF IInv, EntriesInv, StoredEntry, Outdated, OutdatedIsJustified
<1> QED
  BY <1>1, InvariantHolds, PTL

(* No optional copy is kept past its interval by the check that finds it there.   *)
THEOREM NoCopyBeyondInterval == Spec => []ExpiredCopyIsDropped
<1>1. IInv => ExpiredCopyIsDropped
  BY DEF IInv, EntriesInv, StoredEntry, CopyWithinInterval, ExpiredCopyIsDropped
<1> QED
  BY <1>1, InvariantHolds, PTL

(* A finished sync leaves nothing due: the loop of Run waits.                    *)
THEOREM RunDoesNotSpin == Spec => []NextSyncIsLater
<1>1. TypeOK /\ IInv => NextSyncIsLater
  <2>1. SUFFICES ASSUME TypeOK, IInv, pc = "publishing"
                 PROVE  NextSyncAt(mem.schedule) > sync.startedAt
    BY DEF NextSyncIsLater
  <2>2. sync.startedAt < NextSyncAt(mem.schedule)
    BY <2>1 DEF IInv, ScheduleInv
  <2>3. NextSyncAt(mem.schedule) \in Nat /\ sync.startedAt \in Nat
    BY <2>1 DEF TypeOK, States, Schedule, Syncs, NextSyncAt, Time
  <2> QED
    BY <2>2, <2>3
<1> QED
  BY <1>1, TypeCorrect, InvariantHolds, PTL

(* The commit sets a retry exactly for a failure that a retry can help.               *)
LEMMA RetryPromote ==
  ASSUME TypeOK, IInv, RetryInv, Promote
  PROVE  RetryFits'
<1> DEFINE failures == RefreshableFailedSources(enabled, NewSources)
<1>1. PICK needed \in BOOLEAN : needed = (failures # {})
  OBVIOUS
<1>2. PICK new : new = UpdateSyncSchedule(mem.schedule, sync.scope, sync.startedAt, now, needed)
  OBVIOUS
<1>3. /\ pc = "refreshing" /\ now' = now /\ enabled' = enabled
      /\ mem' = [schedule |-> new, sources |-> NewSources]
  BY <1>1, <1>2 DEF Promote
<1>4. /\ mem.schedule \in Schedule /\ sync.scope \in Scopes /\ sync.startedAt \in Time
      /\ now \in Time /\ sync.startedAt <= now /\ FirstClock \in Time
  BY <1>3, ConfigAssumption DEF TypeOK, States, Syncs, IInv, ClockInv
<1>5. /\ ValidateSyncSchedule(mem.schedule) /\ mem.schedule.nextFullSyncAt # Zero
      /\ mem.schedule.lastFullSyncAt # Zero \/ NeedsFullSync(mem.schedule, sync.startedAt)
      /\ sync.scope = "full" => NeedsFullSync(mem.schedule, sync.startedAt)
  BY <1>3, <1>4 DEF IInv, ClockInv, ScheduleInv, RetryInv, Up, NeedsFullSync, Schedule, Time
<1>6. /\ new.nextRetrySyncAt # Zero => needed
      /\ needed /\ new.nextRetrySyncAt = Zero => new.nextFullSyncAt <= now + RetryLadder[1]
  BY <1>2, <1>4, <1>5, UpdateSyncScheduleFacts
<1>7. mem'.schedule = new /\ mem'.sources = NewSources
  BY <1>3
<1>8. RefreshableFailedSources(enabled', mem'.sources) = failures
  BY <1>3, <1>7
<1> HIDE DEF failures
<1> QED
  BY <1>1, <1>3, <1>6, <1>7, <1>8 DEF RetryFits

LEMMA RetryStep == TypeOK /\ TypeOK' /\ IInv /\ RetryInv /\ [Next]_vars => RetryInv'
<1> SUFFICES ASSUME TypeOK, TypeOK', IInv, RetryInv, [Next]_vars PROVE RetryInv'
  OBVIOUS
<1>0. /\ now \in Nat /\ now' \in Nat /\ mem.schedule.nextFullSyncAt \in Nat
      /\ RetryLadder[1] \in Nat
  BY LadderFacts DEF TypeOK, States, Schedule, Time
<1>1. CASE Tick
  <2>1. now' = now + 1 /\ UNCHANGED <<pc, enabled, mem, sync>>
    BY <1>1 DEF Tick
  <2>2. NeedsFullSync(mem.schedule, now) => NeedsFullSync(mem.schedule, now')
    BY <1>0, <2>1 DEF NeedsFullSync
  <2>3. RetryFits => RetryFits'
    BY <1>0, <2>1 DEF RetryFits
  <2> QED
    BY <2>1, <2>2, <2>3 DEF RetryInv
<1>2. ASSUME NEW on \in EnabledSets, NEW startAt \in StartAts, Start(on, startAt) PROVE RetryInv'
  BY <1>2 DEF Start, NewSync, RetryInv
<1>3. CASE Refuse
  BY <1>3 DEF Refuse, RetryInv
<1>4. CASE BeginSync
  <2>1. /\ pc = "decided" /\ pc' = "refreshing" /\ mem' = mem
        /\ sync'.scope = sync.scope /\ sync'.startedAt = now
    BY <1>4 DEF BeginSync, TypeOK, Syncs
  <2> QED
    BY <2>1 DEF RetryInv
<1>5. ASSUME NEW i \in Source, NEW outcome \in Outcomes, NEW firstAt \in sync.startedAt..now,
             RefreshSource(i, outcome, firstAt)
      PROVE  RetryInv'
  <2>1. /\ pc = "refreshing" /\ pc' = pc /\ mem' = mem
        /\ sync'.scope = sync.scope /\ sync'.startedAt = sync.startedAt
    BY <1>5 DEF RefreshSource, TypeOK, Syncs
  <2> QED
    BY <2>1 DEF RetryInv
<1>6. CASE Promote
  <2>1. pc' = "promoted"
    BY <1>6 DEF Promote
  <2> QED
    BY <1>6, <2>1, RetryPromote DEF RetryInv
<1>7. CASE SaveState
  <2>1. pc = "promoted" /\ pc' = "publishing" /\ UNCHANGED <<now, enabled, mem>>
    BY <1>7 DEF SaveState
  <2> QED
    BY <2>1 DEF RetryInv, RetryFits
<1>8. CASE Stop
  BY <1>8 DEF Stop, NoSync, NewSync, RetryInv
<1>9. CASE Publish
  BY <1>9 DEF Publish, NoSync, NewSync, RetryInv
<1>10. CASE RunScheduled
  <2>1. /\ pc' = "decided" /\ UNCHANGED <<now, mem>>
        /\ sync'.scope = "full" => NeedsFullSync(mem.schedule, now)
    BY <1>10 DEF RunScheduled, NewSync
  <2> QED
    BY <2>1 DEF RetryInv
<1>11. CASE UNCHANGED vars
  BY <1>11 DEF vars, RetryInv, RetryFits
<1> QED
  BY <1>1, <1>2, <1>3, <1>4, <1>5, <1>6, <1>7, <1>8, <1>9, <1>10, <1>11
  DEF Next, SaveFails, Cut, SaveFailsLate, Exit

(* A retry is scheduled for a failure it can help and only then, unless the full sync      *)
(* comes before the first rung of the ladder.                                    *)
THEOREM RetriesMatchFailures == Spec => []RetryMatchesFailures
<1>1. Init => RetryInv
  BY DEF Init, NoSync, NewSync, RetryInv
<1>2. RetryInv => RetryMatchesFailures
  BY DEF RetryInv, RetryFits, RetryMatchesFailures
<1> QED
  BY <1>1, <1>2, RetryStep, TypeCorrect, InvariantHolds, PTL DEF Spec

(* Giving a source up is final.                                                *)
THEOREM OutdatedStaysOutdated == Spec => OutdatedIsFinal
<1> DEFINE Final == \A i \in Source : saved.sources[i].markedOutdatedAt # Zero
                      => saved'.sources[i] = saved.sources[i]
<1>1. TypeOK /\ IInv /\ [Next]_vars => [Final]_vars
  <2>1. SUFFICES ASSUME TypeOK, IInv, Next PROVE Final
    BY DEF vars
  <2>2. CASE pc = "promoted" /\ saved' = mem
    BY <2>1, <2>2 DEF IInv, MemoryInv
  <2>3. CASE saved' = saved
    BY <2>3
  <2>4. (pc = "promoted" /\ saved' = mem) \/ saved' = saved
    BY <2>1 DEF Next, Tick, Start, Refuse, BeginSync, RefreshSource, Promote, SaveState,
                SaveFails, Cut, SaveFailsLate, Publish, RunScheduled, Exit, disk
  <2> QED
    BY <2>2, <2>3, <2>4
<1> QED
  BY <1>1, TypeCorrect, InvariantHolds, PTL DEF Spec, OutdatedIsFinal

(* The committed copy of a required source stays in the directory.               *)
THEOREM RequiredCopyStays == Spec => RequiredCopyKept
<1> DEFINE Kept == \A i \in Required :
              i \in files /\ saved.sources[i].hasLocalArtifact /\ ~tornCommit'
                => i \in files'
<1>1. TypeOK /\ IInv /\ [Next]_vars => [Kept]_vars
  <2>1. SUFFICES ASSUME TypeOK, IInv, Next,
                        NEW i \in Required, i \in files,
                        saved.sources[i].hasLocalArtifact, ~tornCommit'
                 PROVE  i \in files'
    BY DEF vars
  <2>2. i \in Source
    BY SourceAssumption
  <2>3. CASE files' = files
    BY <2>1, <2>3
  <2>4. CASE files' = RolledBack
    BY <2>1, <2>2, <2>4, RolledBackFacts DEF Artifacts
  <2>5. CASE Promote
    <3>1. i \notin Removed
      BY <2>1, <2>2, <2>5, NewSourcesFacts DEF Promote
    <3> QED
      BY <2>1, <2>5, <3>1 DEF Promote
  <2>6. files' = files \/ files' = RolledBack \/ Promote
    BY <2>1 DEF Next, Tick, Start, Refuse, BeginSync, RefreshSource, SaveState,
                SaveFails, Cut, SaveFailsLate, Publish, RunScheduled, Exit, disk
  <2> QED
    BY <2>3, <2>4, <2>5, <2>6
<1> QED
  BY <1>1, TypeCorrect, InvariantHolds, PTL DEF Spec, RequiredCopyKept

(* The updater implements the ledger of copies.                                 *)
THEOREM ImplementsLedger == Spec => KeepsLedger
<1> DEFINE copy == [i \in Source |-> CopyOf(saved.sources[i])]
<1>1. Init => Ledger!Init
  <2>1. CopyOf(ZeroSourceState) = "none"
    BY DEF CopyOf, ZeroSourceState
  <2> QED
    BY <2>1 DEF Init, EmptyState, Ledger!Init
<1>2. TypeOK /\ IInv /\ [Next]_vars => [Ledger!Commit]_copy
  <2>1. SUFFICES ASSUME TypeOK, IInv, [Next]_vars
                 PROVE  Ledger!Commit \/ copy' = copy
    OBVIOUS
  <2>2. CASE saved' = saved
    BY <2>2
  <2>3. CASE pc = "promoted" /\ saved' = mem
    <3>1. \A i \in Source : Ledger!MayBecome(i, copy[i], CopyOf(mem.sources[i]))
      BY <2>1, <2>3 DEF IInv, MemoryInv
    <3>2. [i \in Source |-> CopyOf(mem.sources[i])] \in [Source -> Ledger!CopyKinds]
      BY DEF CopyOf, Ledger!CopyKinds
    <3>3. copy' = [i \in Source |-> CopyOf(mem.sources[i])]
      BY <2>3
    <3> QED
      BY <3>1, <3>2, <3>3 DEF Ledger!Commit
  <2>4. (pc = "promoted" /\ saved' = mem) \/ saved' = saved
    BY <2>1 DEF Next, Tick, Start, Refuse, BeginSync, RefreshSource, Promote, SaveState,
                SaveFails, Cut, SaveFailsLate, Publish, RunScheduled, Exit, disk, vars
  <2> QED
    BY <2>2, <2>3, <2>4
<1> QED
  BY <1>1, <1>2, TypeCorrect, InvariantHolds, PTL DEF Spec, KeepsLedger, Ledger!Spec
=============================================================================
