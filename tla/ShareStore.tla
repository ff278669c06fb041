----------------------------- MODULE ShareStore -----------------------------
(***************************************************************************)
(* The share store (src/internal/share): shared inputs under a bearer, kept for *)
(* ttl after the last visit.  The pool has one connection, which a transaction   *)
(* holds from its begin to its end; a process that ends rolls it back.          *)
(***************************************************************************)
EXTENDS Naturals

CONSTANTS
  Key,           \* the bearers that may be generated, all different
  Caller,        \* the goroutines that use the store
  NoKey, NoOne, NoRow,
  TTL,
  MaxVisits,     \* bound: the visits that are begun
  MaxClock       \* bound: the clock of a run

ASSUME ShareAssumption ==
  /\ TTL \in Nat \ {0} /\ MaxVisits \in Nat /\ MaxClock \in Nat
  /\ NoKey \notin Key /\ NoOne \notin Caller

VARIABLES
  now,         \* in seconds, as the store truncates times
  rows,        \* the table, as last committed
  conn,        \* the goroutine whose transaction holds the connection
  op,          \* what each goroutine is doing
  promised,    \* history: the latest expiry that a user of each share was told, or 0
  visited,     \* history: the visits of each share that were answered
  begun        \* history: the visits begun

db      == <<rows, conn>>
history == <<promised, visited, begun>>
vars    == <<now, db, op, history>>

Row == [expires : Nat, visits : Nat]
Op == [step : {"idle", "insert", "delete", "begin", "select", "check", "commit"},
       key : Key \cup {NoKey},
       at : Nat,                      \* when the call began
       row : Row \cup {NoRow}]        \* the row read, then the one to be committed
Idle == [step |-> "idle", key |-> NoKey, at |-> 0, row |-> NoRow]

ASSUME RowAssumption == NoRow \notin Row

Later(a, b) == IF a < b THEN b ELSE a

InTx(c) == op[c].step \in {"select", "check", "commit"}

Init ==
  /\ now = 0
  /\ rows = [k \in Key |-> NoRow]
  /\ conn = NoOne
  /\ op = [c \in Caller |-> Idle]
  /\ promised = [k \in Key |-> 0]
  /\ visited = [k \in Key |-> 0]
  /\ begun = 0

Tick ==
  /\ now < MaxClock
  /\ now' = now + 1
  /\ UNCHANGED <<db, op, history>>

(* A call begins.  Create and DeleteExpired have read the clock when it waits for the *)
(* connection; Create has a new bearer.                                          *)
Begin(c, step, k) ==
  /\ op[c] = Idle
  /\ op' = [op EXCEPT ![c] = [step |-> step, key |-> k, at |-> now, row |-> NoRow]]
  /\ UNCHANGED <<now, db, promised, visited>>

BeginCreate(c, k) ==
  /\ promised[k] = 0 /\ \A x \in Caller : op[x].key # k
  /\ Begin(c, "insert", k)
  /\ UNCHANGED begun

BeginResolve(c, k) ==
  /\ promised[k] # 0
  /\ begun < MaxVisits
  /\ begun' = begun + 1
  /\ Begin(c, "begin", k)

BeginDelete(c) ==
  /\ Begin(c, "delete", NoKey)
  /\ UNCHANGED begun

-----------------------------------------------------------------------------
(* The statements that are a transaction of their own *)

Insert(c) ==
  /\ op[c].step = "insert" /\ conn = NoOne
  /\ LET expires == op[c].at + TTL
     IN /\ rows' = [rows EXCEPT ![op[c].key] = [expires |-> expires, visits |-> 0]]
        /\ promised' = [promised EXCEPT ![op[c].key] = expires]
  /\ op' = [op EXCEPT ![c] = Idle]
  /\ UNCHANGED <<now, conn, visited, begun>>

DeleteExpired(c) ==
  /\ op[c].step = "delete" /\ conn = NoOne
  /\ rows' = [k \in Key |->
       IF rows[k] # NoRow /\ rows[k].expires <= op[c].at THEN NoRow ELSE rows[k]]
  /\ op' = [op EXCEPT ![c] = Idle]
  /\ UNCHANGED <<now, conn, history>>

-----------------------------------------------------------------------------
(* Resolve *)

(* A faulty variant: the connection is not kept between the statements.              *)
BeginTxShared(c) ==
  /\ op[c].step = "begin" /\ conn = NoOne
  /\ op' = [op EXCEPT ![c].step = "select"]
  /\ UNCHANGED <<now, db, history>>

BeginTx(c) ==
  /\ op[c].step = "begin" /\ conn = NoOne
  /\ conn' = c
  /\ op' = [op EXCEPT ![c].step = "select"]
  /\ UNCHANGED <<now, rows, history>>

(* The transaction ends, and with it the call. *)
EndTx(c) == conn' = NoOne /\ op' = [op EXCEPT ![c] = Idle]

Select(c) ==
  /\ op[c].step = "select"
  /\ rows[op[c].key] # NoRow
  /\ op' = [op EXCEPT ![c].step = "check", ![c].row = rows[op[c].key]]
  /\ UNCHANGED <<now, db, history>>

(* A faulty variant: the transaction is left open.                                *)
NotFoundLeavesTx(c) ==
  /\ op[c].step = "select"
  /\ rows[op[c].key] = NoRow
  /\ op' = [op EXCEPT ![c] = Idle]
  /\ UNCHANGED <<now, db, history>>

NotFound(c) ==
  /\ op[c].step = "select"
  /\ rows[op[c].key] = NoRow
  /\ EndTx(c)
  /\ UNCHANGED <<now, rows, history>>

(* A faulty variant: the clock is read before the transaction is begun.              *)
VisitTimeBefore(c) == op[c].at

VisitTime(c) == now

(* An expired row is to be deleted, and one that is not to be kept for another ttl.     *)
CheckExpiry(c) ==
  /\ op[c].step = "check"
  /\ LET row == op[c].row
         at  == VisitTime(c)
     IN op' = [op EXCEPT
          ![c].step = "commit",
          ![c].row = IF row.expires <= at THEN NoRow
                     ELSE [expires |-> at + TTL, visits |-> row.visits + 1]]
  /\ UNCHANGED <<now, db, history>>

Commit(c) ==
  /\ op[c].step = "commit"
  /\ LET k == op[c].key
     IN /\ rows' = [rows EXCEPT ![k] = op[c].row]
        /\ IF op[c].row = NoRow
           THEN UNCHANGED <<promised, visited>>
           ELSE /\ promised' = [promised EXCEPT ![k] = Later(@, op[c].row.expires)]
                /\ visited' = [visited EXCEPT ![k] = @ + 1]
  /\ EndTx(c)
  /\ UNCHANGED <<now, begun>>

-----------------------------------------------------------------------------
(* A faulty variant: the changes of a failed call stay.                            *)
FailsHalfway(c) ==
  /\ op[c] # Idle
  /\ IF InTx(c)
     THEN /\ EndTx(c)
          /\ rows' = IF op[c].step = "commit"
                     THEN [rows EXCEPT ![op[c].key] = op[c].row] ELSE rows
     ELSE op' = [op EXCEPT ![c] = Idle] /\ UNCHANGED db
  /\ UNCHANGED <<now, history>>

(* A statement, the begin or the commit fails, or the request is cancelled: the       *)
(* transaction, if there is one, is rolled back.                                  *)
Fails(c) ==
  /\ op[c] # Idle
  /\ IF InTx(c) THEN EndTx(c) ELSE op' = [op EXCEPT ![c] = Idle] /\ UNCHANGED conn
  /\ UNCHANGED <<now, rows, history>>

(* The process ends and is started again.                                        *)
Restart ==
  /\ conn' = NoOne
  /\ op' = [c \in Caller |-> Idle]
  /\ UNCHANGED <<now, rows, history>>

-----------------------------------------------------------------------------
Step(c) == Select(c) \/ NotFound(c) \/ CheckExpiry(c) \/ Commit(c)
Take(c) == Insert(c) \/ DeleteExpired(c) \/ BeginTx(c)

Next ==
  \/ Tick \/ Restart
  \/ \E c \in Caller :
       \/ \E k \in Key : BeginCreate(c, k) \/ BeginResolve(c, k)
       \/ BeginDelete(c)
       \/ Take(c) \/ Step(c) \/ Fails(c)

Spec == Init /\ [][Next]_vars

(* Statements return, and the pool serves those who wait for its connection in turn.   *)
FairSpec == Spec /\ \A c \in Caller : WF_vars(Step(c)) /\ SF_vars(Take(c))

-----------------------------------------------------------------------------
(* Properties *)

(* The types; the connection is held by the goroutine that is in a transaction.       *)
TypeOK ==
  /\ now \in Nat /\ begun \in Nat
  /\ rows \in [Key -> Row \cup {NoRow}]
  /\ op \in [Caller -> Op]
  /\ promised \in [Key -> Nat] /\ visited \in [Key -> Nat]
  /\ conn \in Caller \cup {NoOne}
  /\ \A c \in Caller :
       /\ InTx(c) <=> conn = c
       /\ op[c].step \notin {"idle", "delete"} => op[c].key \in Key
       /\ op[c].step = "check" => op[c].row # NoRow

(* A share is there until the latest time that its creator or a visitor was told: no     *)
(* clean-up, and no visit that began earlier and ends later, deletes it or shortens it.   *)
KeptUntilExpiry == \A k \in Key : now < promised[k] => rows[k] # NoRow

(* No visit is lost: each one counts on from the last, over cancelled ones and crashes.  *)
VisitsCounted == \A k \in Key : rows[k] # NoRow => rows[k].visits = visited[k]

(* A share is shown only before the latest time that was told: a visit that fails does    *)
(* not extend it.                                                             *)
ShownInTime ==
  [][\A c \in Caller : CheckExpiry(c) /\ op'[c].row # NoRow => now < promised[op[c].key]]_vars

(* Every call ends: none leaves the only connection taken.                          *)
CallsEnd == \A c \in Caller : op[c] # Idle ~> op[c] = Idle
=============================================================================
