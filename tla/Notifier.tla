------------------------------ MODULE Notifier ------------------------------
(***************************************************************************)
(* The notifier (src/internal/notify): callers put messages into a bounded     *)
(* queue and never wait, one worker sends them to Telegram, and Close waits for *)
(* the worker through a sync.WaitGroup, at most closeTimeout.  Telegram is       *)
(* configured: without it a message is only logged.                          *)
(***************************************************************************)
EXTENDS Naturals, Sequences, FiniteSets

CONSTANTS
  Caller,      \* the goroutines that may call Notify or log an error
  Message,
  QueueSize,
  NoMessage

ASSUME CallerAssumption == IsFiniteSet(Caller)
ASSUME QueueAssumption == QueueSize \in Nat \ {0}
ASSUME MessageAssumption == NoMessage \notin Message

VARIABLES
  queue,
  inHand,      \* the message the worker is sending
  pending,     \* the counter of the WaitGroup
  calling,     \* for each caller: the message it has counted and not yet queued
  closing,     \* open, called, waiting, woken, done, closed, gaveUp or panicked
  owed         \* history: of the messages accepted before Close, those not handled

channel == <<queue, inHand>>
group   == <<pending, closing>>
nvars   == <<channel, group, calling, owed>>

Calling == {c \in Caller : calling[c] # NoMessage}
Running == closing # "panicked"

(* WaitGroup.Done: the last one wakes the goroutine of Close.                     *)
Done ==
  /\ pending' = pending - 1
  /\ closing' = IF pending' = 0 /\ closing = "waiting" THEN "woken" ELSE closing

NotifierInit ==
  /\ queue = <<>> /\ inHand = NoMessage
  /\ pending = 0 /\ closing = "open"
  /\ calling = [c \in Caller |-> NoMessage]
  /\ owed = 0

(* send, up to its select; for an error record Handle calls it too.               *)
Count(c, message) ==
  /\ Running
  /\ calling[c] = NoMessage
  /\ calling' = [calling EXCEPT ![c] = message]
  /\ pending' = pending + 1
  /\ UNCHANGED <<channel, closing, owed>>

(* The select finds room.                                                       *)
Enqueue(c) ==
  /\ Running
  /\ calling[c] # NoMessage
  /\ Len(queue) < QueueSize
  /\ queue' = Append(queue, calling[c])
  /\ calling' = [calling EXCEPT ![c] = NoMessage]
  /\ UNCHANGED <<inHand, group, owed>>

(* The queue is full: the message is dropped, and that is logged.                 *)
Drop(c) ==
  /\ Running
  /\ calling[c] # NoMessage
  /\ Len(queue) = QueueSize
  /\ calling' = [calling EXCEPT ![c] = NoMessage]
  /\ Done
  /\ UNCHANGED <<channel, owed>>

Receive ==
  /\ Running
  /\ inHand = NoMessage /\ queue # <<>>
  /\ inHand' = Head(queue) /\ queue' = Tail(queue)
  /\ UNCHANGED <<group, calling, owed>>

(* sendTelegram returns, with an error or not; a failed message is not tried again.  *)
Handle ==
  /\ Running
  /\ inHand # NoMessage
  /\ inHand' = NoMessage
  /\ Done
  /\ owed' = IF owed = 0 THEN 0 ELSE owed - 1
  /\ UNCHANGED <<queue, calling>>

(* Close starts the goroutine that waits.                                       *)
BeginClose ==
  /\ closing = "open"
  /\ closing' = "called"
  /\ owed' = Len(queue) + Cardinality({inHand} \ {NoMessage})
  /\ UNCHANGED <<channel, pending, calling>>

(* A faulty variant: Close looks at the queue, and not at the message being sent.    *)
WaitForQueue ==
  /\ closing = "called"
  /\ closing' = IF queue = <<>> THEN "done" ELSE "waiting"
  /\ UNCHANGED <<channel, pending, calling, owed>>

(* WaitGroup.Wait.                                                            *)
Wait ==
  /\ closing = "called"
  /\ closing' = IF pending = 0 THEN "done" ELSE "waiting"
  /\ UNCHANGED <<channel, pending, calling, owed>>

(* It returns, unless a caller has counted a message meanwhile: then Wait, or Add,    *)
(* panics, since the WaitGroup is reused too soon.                               *)
WaitReturns ==
  /\ closing = "woken"
  /\ closing' = IF pending = 0 THEN "done" ELSE "panicked"
  /\ UNCHANGED <<channel, pending, calling, owed>>

Close ==
  /\ \/ closing = "done" /\ closing' = "closed"
     \/ closing \in {"called", "waiting", "woken", "done"} /\ closing' = "gaveUp"
  /\ UNCHANGED <<channel, pending, calling, owed>>

(* The process ends, by a crash or at the end of main, and is started again.       *)
Restart ==
  /\ queue' = <<>> /\ inHand' = NoMessage
  /\ pending' = 0 /\ closing' = "open"
  /\ calling' = [c \in Caller |-> NoMessage]
  /\ owed' = 0

-----------------------------------------------------------------------------
NotifierStep ==
  \/ \E c \in Caller : Enqueue(c) \/ Drop(c)
  \/ Receive \/ Handle
  \/ BeginClose \/ Wait \/ WaitReturns \/ Close

NotifierNext ==
  \/ \E c \in Caller, message \in Message : Count(c, message)
  \/ NotifierStep
  \/ Restart

NotifierSpec == NotifierInit /\ [][NotifierNext]_nvars

-----------------------------------------------------------------------------
(* Properties *)

NotifierTypeOK ==
  /\ queue \in Seq(Message) /\ Len(queue) <= QueueSize
  /\ inHand \in Message \cup {NoMessage}
  /\ pending \in Nat /\ owed \in Nat
  /\ calling \in [Caller -> Message \cup {NoMessage}]
  /\ closing \in {"open", "called", "waiting", "woken", "done", "closed", "gaveUp",
                  "panicked"}

(* The WaitGroup counts what is queued, being sent or about to be queued, and no      *)
(* message that was dropped: its counter cannot go below zero, nor keep Close waiting. *)
PendingIsOutstanding ==
  pending = Len(queue) + Cardinality({inHand} \ {NoMessage}) + Cardinality(Calling)

(* When Close returns in time every message accepted before it was called has been    *)
(* handled, whatever was dropped or added meanwhile.                             *)
CloseWaits == closing \in {"done", "closed"} => owed = 0
=============================================================================
