-------------------------- MODULE ManagerInvariant --------------------------
(***************************************************************************)
(* The inductive invariant of Manager.                                       *)
(***************************************************************************)
EXTENDS Manager

Leaving == {"shutdown", "draining", "closing", "cleaning", "returned"}

(* The share store is open while Run is, and the clean-up with it.                 *)
SharesInv ==
  /\ pc = "opening" => store = "none" /\ cleanup = "none"
  /\ pc \notin {"opening", "returned"} => store = "open"
  /\ pc = "returned" => store # "open" /\ cleanup \in {"none", "ended"}
  /\ cleanup = "deleting" => store = "open"

(* What is open is the current dataset and the one that waits to replace it.        *)
OpenInv ==
  /\ dataset.id <= loads
  /\ pc = "switching" => next.id = loads /\ dataset.id < loads
  /\ open \subseteq {dataset.id} \cup (IF pc = "switching" THEN {next.id} ELSE {})
  /\ 0 \notin open
  /\ dataset.id = 0 => dataset = NoDataset
  /\ next.id = 0 => next = NoDataset
  /\ pc \in {"creating", "switching"} => (pc = "creating" <=> ~ServerStarted)
  /\ pc = "creating" \/ (ServerStarted /\ pc # "returned") => dataset.id \in open
  /\ pc = "switching" => next.id \in open
  /\ pc = "returned" \/ (~ServerStarted /\ pc \notin {"creating", "closing", "cleaning"})
       => dataset = NoDataset /\ open = {}

(* A lookup reads the current dataset, and none is under way once Close has the lock. *)
ReadersInv ==
  /\ \A r \in Readers : reads[r] = dataset.id
  /\ pc \in {"cleaning", "returned"} => Readers = {}
  /\ ~ServerStarted => Active = {}

(* Close begins when no request is in progress and none can come, or Shutdown gave up  *)
(* waiting; ErrServerClosed is never seen by the select.                            *)
ShutdownInv ==
  /\ pc = "draining" => server \in {"connected", "down"}
  /\ pc \in {"closing", "cleaning", "returned"} =>
       timedOut \/ (Active = {} /\ server \in {"none", "down"})
  /\ pc \notin {"draining", "closing", "cleaning", "returned"} =>
       \A i \in DOMAIN errCh : errCh[i] # "closed"
  /\ pc \in {"opening", "notice"} => server = "none" /\ updater = "none"

(* The two channels have room for what is sent on them.                            *)
ChannelInv ==
  Len(errCh) <= (IF updater = "ended" THEN 1 ELSE 0) + (IF server \in {"connected", "down"} THEN 1 ELSE 0)

VerdictInv == pc \in Leaving => verdict = "error" \/ signalled

Relevant(event) == event.refreshed \/ event.outdated

(* A change the manager has not taken up, or never will since the updater is gone.     *)
Pending ==
  \/ events # <<>> /\ Relevant(Head(events))
  \/ updater = "sending" /\ Relevant(outgoing)
  \/ updater = "ended"

(* Without one, what is loaded, waits or is served is what is on disk.               *)
FreshInv ==
  ~Pending =>
    /\ pc = "loading" => seen = {disk}
    /\ pc = "switching" => next.of = {disk}
    /\ pc = "creating" => dataset.of = {disk}
    /\ pc = "select" /\ ServerStarted /\ ~loadFailed => dataset.of = {disk}

(* A dataset is made of versions the directory has had, and one that is loaded or waits   *)
(* to be switched to of none older than those of the dataset it replaces.             *)
NoneOlder(versions) ==
  /\ versions # {} /\ versions \subseteq 0..disk
  /\ \A v \in versions, w \in dataset.of : w <= v

VersionsInv ==
  /\ dataset.of \subseteq 0..disk
  /\ dataset = NoDataset <=> dataset.of = {}
  /\ pc = "loading" => NoneOlder(seen)
  /\ pc = "switching" => NoneOlder(next.of)

IInv ==
  /\ SharesInv
  /\ OpenInv
  /\ ReadersInv
  /\ ShutdownInv
  /\ ChannelInv
  /\ VerdictInv
  /\ FreshInv
  /\ LateOnlyAfterTimeout
=============================================================================
