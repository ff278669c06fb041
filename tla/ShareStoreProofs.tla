-------------------------- MODULE ShareStoreProofs --------------------------
(***************************************************************************)
(* The share store for any number of bearers and goroutines: types, then an   *)
(* inductive invariant, then what it implies.  A row holds the latest time that    *)
(* anyone was told; whoever is about to change it holds the connection.         *)
(***************************************************************************)
EXTENDS ShareStore, TLAPS

-----------------------------------------------------------------------------
(* The inductive invariant *)

(* What the table owes the users of a share *)
RowsInv ==
  \A k \in Key :
    /\ promised[k] <= now + TTL
    /\ promised[k] = 0 => visited[k] = 0
    /\ IF rows[k] = NoRow THEN promised[k] <= now
       ELSE rows[k].expires = promised[k] /\ rows[k].visits = visited[k]

(* A new bearer is nobody else's. *)
InsertInv ==
  \A c \in Caller : op[c].step = "insert" =>
    /\ promised[op[c].key] = 0
    /\ \A d \in Caller : op[d].key = op[c].key => d = c

ClockInv == \A c \in Caller : op[c].at <= now

(* What a visit has read, and what it is about to write *)
VisitInv ==
  \A c \in Caller :
    /\ op[c].step = "check" => op[c].row = rows[op[c].key]
    /\ op[c].step = "commit" =>
         IF op[c].row = NoRow THEN promised[op[c].key] <= now
         ELSE /\ op[c].row.expires >= promised[op[c].key]
              /\ op[c].row.expires \in 1..(now + TTL)
              /\ op[c].row.visits = visited[op[c].key] + 1

IInv == RowsInv /\ InsertInv /\ ClockInv /\ VisitInv

-----------------------------------------------------------------------------
(* The part of TypeOK that relates the calls *)
OpOK ==
  \A c \in Caller :
    /\ InTx(c) <=> conn = c
    /\ op[c].step \notin {"idle", "delete"} => op[c].key \in Key
    /\ op[c].step = "check" => op[c].row # NoRow

(* Every step keeps the types, and the connection with who is in a transaction.       *)
LEMMA TypeStep == TypeOK /\ [Next]_vars => TypeOK'
<1> SUFFICES ASSUME TypeOK, [Next]_vars
             PROVE  TypeOK'
  OBVIOUS
<1> USE ShareAssumption, RowAssumption DEF TypeOK, OpOK, Op, Row, Idle, InTx, db, history
<1>1. CASE Tick
  BY <1>1 DEF Tick
<1>2. CASE Restart
  BY <1>2 DEF Restart
<1>3. ASSUME NEW c \in Caller, NEW k \in Key, BeginCreate(c, k) PROVE TypeOK'
  <2>1. op' \in [Caller -> Op] /\ OpOK'
    BY <1>3 DEF BeginCreate, Begin
  <2> QED
    BY <1>3, <2>1 DEF BeginCreate, Begin
<1>4. ASSUME NEW c \in Caller, NEW k \in Key, BeginResolve(c, k) PROVE TypeOK'
  BY <1>4 DEF BeginResolve, Begin
<1>5. ASSUME NEW c \in Caller, BeginDelete(c) PROVE TypeOK'
  BY <1>5 DEF BeginDelete, Begin
<1>6. ASSUME NEW c \in Caller, Insert(c) PROVE TypeOK'
  <2>1. op[c].at + TTL \in Nat
    OBVIOUS
  <2>2. rows' \in [Key -> Row \cup {NoRow}] /\ promised' \in [Key -> Nat]
    BY <1>6, <2>1 DEF Insert
  <2>3. op' \in [Caller -> Op] /\ OpOK'
    BY <1>6 DEF Insert
  <2> QED
    BY <1>6, <2>2, <2>3 DEF Insert
<1>7. ASSUME NEW c \in Caller, DeleteExpired(c) PROVE TypeOK'
  BY <1>7 DEF DeleteExpired
<1>8. ASSUME NEW c \in Caller, BeginTx(c) PROVE TypeOK'
  BY <1>8 DEF BeginTx
<1>9. ASSUME NEW c \in Caller, Select(c) PROVE TypeOK'
  <2>1. rows[op[c].key] \in Row \cup {NoRow}
    BY <1>9 DEF Select
  <2> QED
    <3> DEFINE new == [op[c] EXCEPT !.step = "check", !.row = rows[op[c].key]]
    <3>a. new \in Op /\ op' = [op EXCEPT ![c] = new]
      BY <1>9, <2>1 DEF Select
    <3>1. op' \in [Caller -> Op]
      BY <3>a
    <3>2. OpOK'
      BY <1>9, <2>1 DEF Select
    <3> QED
      BY <1>9, <3>1, <3>2 DEF Select
<1>10. ASSUME NEW c \in Caller, NotFound(c) PROVE TypeOK'
  <2>1. op' \in [Caller -> Op] /\ conn' \in Caller \cup {NoOne} /\ OpOK'
    BY <1>10 DEF NotFound, EndTx
  <2> QED
    BY <1>10, <2>1 DEF NotFound
<1>11. ASSUME NEW c \in Caller, CheckExpiry(c) PROVE TypeOK'
  <2>1. op[c].row \in Row /\ now + TTL \in Nat /\ op[c].row.visits + 1 \in Nat
    BY <1>11 DEF CheckExpiry
  <2>2. op' \in [Caller -> Op] /\ OpOK'
    BY <1>11, <2>1 DEF CheckExpiry, VisitTime
  <2> QED
    BY <1>11, <2>2 DEF CheckExpiry
<1>12. ASSUME NEW c \in Caller, Commit(c) PROVE TypeOK'
  <2>1. rows' \in [Key -> Row \cup {NoRow}]
    BY <1>12 DEF Commit
  <2>2. promised' \in [Key -> Nat] /\ visited' \in [Key -> Nat]
    BY <1>12 DEF Commit, Later
  <2>3. op' \in [Caller -> Op] /\ conn' \in Caller \cup {NoOne} /\ OpOK'
    BY <1>12 DEF Commit, EndTx
  <2> QED
    BY <1>12, <2>1, <2>2, <2>3 DEF Commit
<1>13. ASSUME NEW c \in Caller, Fails(c) PROVE TypeOK'
  <2>1. op' = [op EXCEPT ![c] = Idle] /\ conn' = IF InTx(c) THEN NoOne ELSE conn
    BY <1>13 DEF Fails, EndTx
  <2>2. op' \in [Caller -> Op] /\ conn' \in Caller \cup {NoOne} /\ OpOK'
    BY <2>1
  <2> QED
    BY <1>13, <2>2 DEF Fails
<1>14. CASE UNCHANGED vars
  BY <1>14 DEF vars
<1> QED
  BY <1>1, <1>2, <1>3, <1>4, <1>5, <1>6, <1>7, <1>8, <1>9, <1>10, <1>11, <1>12, <1>13, <1>14
     DEF Next, Take, Step

(* The variables of the store keep their types, for any bearers and goroutines.      *)
THEOREM TypeCorrect == Spec => []TypeOK
<1>1. Init => TypeOK
  BY ShareAssumption DEF Init, TypeOK, Op, Row, Idle, InTx
<1> QED
  BY <1>1, TypeStep, PTL DEF Spec

-----------------------------------------------------------------------------
(* The later of two times in order is the second.                                  *)
LEMMA LaterOfOrdered == \A a, b \in Nat : b >= a => Later(a, b) = b
BY DEF Later

(* Before the first call there is no row and no promise.                            *)
LEMMA InitInv == Init => IInv
BY ShareAssumption DEF Init, IInv, RowsInv, InsertInv, ClockInv, VisitInv, Idle

(* Every step keeps the invariant.                                               *)
LEMMA InvStep == TypeOK /\ IInv /\ [Next]_vars => IInv'
<1> SUFFICES ASSUME TypeOK, IInv, [Next]_vars
             PROVE  IInv'
  OBVIOUS
<1> USE ShareAssumption, RowAssumption DEF TypeOK, Op, Row, Idle, InTx, db, history
<1> USE DEF IInv, RowsInv, InsertInv, ClockInv, VisitInv
<1>1. CASE Tick
  BY <1>1 DEF Tick
<1>2. CASE Restart
  BY <1>2 DEF Restart
<1>3. ASSUME NEW c \in Caller, NEW k \in Key, BeginCreate(c, k) PROVE IInv'
  BY <1>3 DEF BeginCreate, Begin
<1>4. ASSUME NEW c \in Caller, NEW k \in Key, BeginResolve(c, k) PROVE IInv'
  BY <1>4 DEF BeginResolve, Begin
<1>5. ASSUME NEW c \in Caller, BeginDelete(c) PROVE IInv'
  BY <1>5 DEF BeginDelete, Begin
<1>6. ASSUME NEW c \in Caller, Insert(c) PROVE IInv'
  BY <1>6 DEF Insert
<1>7. ASSUME NEW c \in Caller, DeleteExpired(c) PROVE IInv'
  BY <1>7 DEF DeleteExpired
<1>8. ASSUME NEW c \in Caller, BeginTx(c) PROVE IInv'
  BY <1>8 DEF BeginTx
<1>9. ASSUME NEW c \in Caller, Select(c) PROVE IInv'
  BY <1>9 DEF Select
<1>10. ASSUME NEW c \in Caller, NotFound(c) PROVE IInv'
  BY <1>10 DEF NotFound, EndTx
<1>11. ASSUME NEW c \in Caller, CheckExpiry(c) PROVE IInv'
  BY <1>11 DEF CheckExpiry, VisitTime
<1>12. ASSUME NEW c \in Caller, Commit(c) PROVE IInv'
  <2> DEFINE k == op[c].key
  <2>1. k \in Key /\ op' = [op EXCEPT ![c] = Idle] /\ now' = now
    BY <1>12 DEF Commit, EndTx
  <2>2. \A d \in Caller : d # c => op[d].step \notin {"select", "check", "commit"}
    BY <1>12 DEF Commit
  <2>3. \A d \in Caller : op[d].step = "insert" => op[d].key # k
    BY <1>12 DEF Commit
  <2>4. rows' = [rows EXCEPT ![k] = op[c].row]
    BY <1>12 DEF Commit
  <2>5. CASE op[c].row = NoRow
    <3>1. UNCHANGED <<promised, visited>> /\ promised[k] <= now
      BY <1>12, <2>5 DEF Commit
    <3> QED
      BY <2>1, <2>2, <2>3, <2>4, <2>5, <3>1
  <2>6. CASE op[c].row # NoRow
    <3> DEFINE told == op[c].row.expires
    <3>1. /\ told >= promised[k] /\ told \in 1..(now + TTL)
          /\ op[c].row.visits = visited[k] + 1 /\ op[c].row \in Row
      BY <1>12, <2>6 DEF Commit
    <3>2. Later(promised[k], told) = told
      <4>1. promised[k] \in Nat /\ told \in Nat /\ told >= promised[k]
        BY <2>1, <3>1
      <4> QED
        BY <4>1, LaterOfOrdered
    <3>3. /\ promised' = [promised EXCEPT ![k] = told]
          /\ visited' = [visited EXCEPT ![k] = @ + 1]
      <4>1. /\ promised' = [promised EXCEPT ![k] = Later(@, told)]
            /\ visited' = [visited EXCEPT ![k] = @ + 1]
        BY <1>12, <2>6 DEF Commit
      <4> QED
        BY <2>1, <3>2, <4>1
    <3>4. RowsInv'
      BY <2>1, <2>4, <2>6, <3>1, <3>3
    <3>5. InsertInv'
      BY <2>1, <2>3, <3>3
    <3>6. ClockInv'
      BY <2>1
    <3>7. VisitInv'
      BY <2>1, <2>2
    <3> QED
      BY <3>4, <3>5, <3>6, <3>7
  <2> QED
    BY <2>5, <2>6
<1>13. ASSUME NEW c \in Caller, Fails(c) PROVE IInv'
  BY <1>13 DEF Fails, EndTx
<1>14. CASE UNCHANGED vars
  BY <1>14 DEF vars
<1> QED
  BY <1>1, <1>2, <1>3, <1>4, <1>5, <1>6, <1>7, <1>8, <1>9, <1>10, <1>11, <1>12, <1>13, <1>14
     DEF Next, Take, Step

(* The invariant holds in every reachable state.                                   *)
THEOREM InvariantHolds == Spec => [](TypeOK /\ IInv)
<1>1. TypeOK /\ IInv /\ [Next]_vars => (TypeOK /\ IInv)'
  BY TypeStep, InvStep
<1> QED
  BY <1>1, InitInv, TypeCorrect, PTL DEF Spec

-----------------------------------------------------------------------------
(* What the invariant implies *)

(* A share is there until the latest time that its creator or a visitor was told,        *)
(* whichever clean-ups, expiries and visits cross.                                  *)
THEOREM ShareKept == Spec => []KeptUntilExpiry
<1>1. TypeOK /\ IInv => KeptUntilExpiry
  BY DEF TypeOK, IInv, RowsInv, KeptUntilExpiry
<1> QED
  BY <1>1, InvariantHolds, PTL

(* The visits of a share that is there are all in its row.                            *)
THEOREM NoVisitLost == Spec => []VisitsCounted
<1>1. IInv => VisitsCounted
  BY DEF IInv, RowsInv, VisitsCounted
<1> QED
  BY <1>1, InvariantHolds, PTL

(* No visit is answered after the latest time that was told.                           *)
THEOREM NeverShownLate == Spec => ShownInTime
<1>1. TypeOK /\ IInv /\ [Next]_vars =>
        [\A c \in Caller :
           CheckExpiry(c) /\ op'[c].row # NoRow => now < promised[op[c].key]]_vars
  <2> SUFFICES ASSUME TypeOK, IInv, NEW c \in Caller, CheckExpiry(c), op'[c].row # NoRow
               PROVE  now < promised[op[c].key]
    OBVIOUS
  <2>1. op[c].key \in Key /\ op[c].row = rows[op[c].key] /\ op[c].row # NoRow
    BY DEF CheckExpiry, TypeOK, IInv, VisitInv
  <2>2. op[c].row.expires = promised[op[c].key]
    BY <2>1 DEF IInv, RowsInv
  <2>3. ~(op[c].row.expires <= now)
    BY ShareAssumption DEF CheckExpiry, VisitTime, TypeOK, Op
  <2>4. promised[op[c].key] \in Nat /\ now \in Nat
    BY <2>1 DEF TypeOK
  <2> QED
    BY <2>2, <2>3, <2>4
<1> QED
  BY <1>1, InvariantHolds, PTL DEF Spec, ShownInTime
=============================================================================
