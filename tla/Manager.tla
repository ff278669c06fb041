------------------------------- MODULE Manager -------------------------------
(***************************************************************************)
(* The application manager (src/internal/app/manager.go): one goroutine that  *)
(* selects over sync events, errors and the signal, next to the updater, the  *)
(* HTTP server with its handlers, and the clean-up of shares.                 *)
(*                                                                         *)
(* The updater is reduced to what the manager sees of it: a sync that commits  *)
(* and sends an event, or ends with an error.  The data directory is a version *)
(* that grows with each commit which changed it.                             *)
(***************************************************************************)
EXTENDS Naturals, Sequences, FiniteSets

CONSTANTS
  Request,     \* the requests that may be in progress at a time
  MaxSyncs     \* bound: how many syncs the updater runs

ASSUME MaxSyncsAssumption == MaxSyncs \in Nat

VARIABLES
  pc,          \* where Run is
  verdict,     \* whether Run has an error to return
  signalled,   \* ctx is cancelled: SIGINT or SIGTERM
  events,      \* the channel from the updater, of capacity 1
  errCh,       \* the channel of the updater's and the server's last words
  dataset,     \* m.dataset
  next,        \* the dataset loaded and not yet switched to
  open,        \* the datasets whose readers are open
  loads,       \* how many datasets were loaded
  seen,        \* the versions of the data directory a load has overlapped
  loadFailed,  \* the last reload failed
  store,       \* the share store: none, open or closed
  cleanup,     \* the clean-up goroutine: none, deleting, waiting or ended
  server,      \* the HTTP server: none, starting, up, connected once it listens no more
               \* but its connections are served, or down
  updater,     \* the updater: none, waiting, syncing, sending or ended
  syncs,       \* how many syncs it began
  disk,        \* the version of the data directory
  outgoing,    \* the event it is sending
  handler,     \* each request: idle, handling or reading
  reads,       \* the dataset it reads
  timedOut,    \* history: Shutdown gave up on a request
  late         \* history: a request met a dataset or a store that was gone

main    == <<pc, verdict, signalled>>
chans   == <<events, errCh>>
data    == <<dataset, next, open, loads, loadFailed>>
shares  == <<store, cleanup>>
sync    == <<updater, syncs, disk, outgoing>>
clients == <<handler, reads, late>>
vars    == <<main, chans, data, seen, shares, server, sync, clients, timedOut>>

Event == [refreshed : BOOLEAN, outdated : BOOLEAN]
NoDataset == [id |-> 0, of |-> {}]

Readers == {r \in Request : handler[r] = "reading"}
Active == {r \in Request : handler[r] # "idle"}
ServerStarted == server # "none"

-----------------------------------------------------------------------------
Init ==
  /\ pc = "opening" /\ verdict = "ok" /\ signalled = FALSE
  /\ events = <<>> /\ errCh = <<>>
  /\ dataset = NoDataset /\ next = NoDataset /\ open = {} /\ loads = 0
  /\ seen = {} /\ loadFailed = FALSE
  /\ store = "none" /\ cleanup = "none" /\ server = "none"
  /\ updater = "none" /\ syncs = 0 /\ disk = 0
  /\ outgoing = [refreshed |-> FALSE, outdated |-> FALSE]
  /\ handler = [r \in Request |-> "idle"]
  /\ reads = [r \in Request |-> 0]
  /\ timedOut = FALSE /\ late = FALSE

(* openShares, startShareCleanup.                                             *)
OpenShares ==
  /\ pc = "opening"
  /\ \/ pc' = "notice" /\ store' = "open" /\ cleanup' = "deleting" /\ UNCHANGED verdict
     \/ pc' = "returned" /\ verdict' = "error" /\ UNCHANGED shares
  /\ UNCHANGED <<signalled, chans, data, seen, server, sync, clients, timedOut>>

(* sanctionsNoticeUntil; then the updater is started.                          *)
ReadNotice ==
  /\ pc = "notice"
  /\ \/ pc' = "select" /\ updater' = "waiting" /\ UNCHANGED verdict
     \/ pc' = "closing" /\ verdict' = "error" /\ UNCHANGED updater
  /\ UNCHANGED <<signalled, chans, data, seen, shares, server, syncs, disk, outgoing,
                 clients, timedOut>>

(* A faulty variant: a source that was dropped does not reload the dataset.      *)
LoadsIfRefreshed(event) == ~ServerStarted \/ event.refreshed

ShouldLoadDataset(event) == ~ServerStarted \/ event.refreshed \/ event.outdated

(* A faulty variant: the event of a sync that changed nothing is left in the channel.  *)
TakeEventOfChange ==
  /\ pc = "select"
  /\ events # <<>>
  /\ Head(events).refreshed \/ Head(events).outdated
  /\ events' = Tail(events)
  /\ pc' = "loading" /\ seen' = {disk}
  /\ UNCHANGED <<verdict, signalled, errCh, data, shares, server, sync, clients, timedOut>>

(* The select takes an event, and the load begins if there is reason for one.     *)
TakeEvent ==
  /\ pc = "select"
  /\ events # <<>>
  /\ events' = Tail(events)
  /\ IF ShouldLoadDataset(Head(events))
     THEN pc' = "loading" /\ seen' = {disk}
     ELSE UNCHANGED <<pc, seen>>
  /\ UNCHANGED <<verdict, signalled, errCh, data, shares, server, sync, clients, timedOut>>

(* dataset.Load succeeds.  Before the server there is no reader, and m.dataset is   *)
(* assigned at once.                                                          *)
LoadDataset ==
  /\ pc = "loading"
  /\ LET ds == [id |-> loads + 1, of |-> seen] IN
       /\ loads' = ds.id
       /\ open' = open \cup {ds.id}
       /\ IF ServerStarted
          THEN pc' = "switching" /\ next' = ds /\ UNCHANGED dataset
          ELSE pc' = "creating" /\ dataset' = ds /\ UNCHANGED next
  /\ loadFailed' = FALSE
  /\ UNCHANGED <<verdict, signalled, chans, seen, shares, server, sync, clients, timedOut>>

(* A faulty variant: a failed reload leaves nothing to serve.                    *)
LoadFailsAndClears ==
  /\ pc = "loading"
  /\ IF ServerStarted
     THEN pc' = "select" /\ loadFailed' = TRUE /\ dataset' = NoDataset /\ UNCHANGED verdict
     ELSE pc' = "closing" /\ verdict' = "error" /\ UNCHANGED <<loadFailed, dataset>>
  /\ UNCHANGED <<signalled, chans, next, open, loads, seen, shares, server, sync,
                 clients, timedOut>>

(* It fails: the old dataset stays, if there is one.                            *)
LoadFails ==
  /\ pc = "loading"
  /\ IF ServerStarted
     THEN pc' = "select" /\ loadFailed' = TRUE /\ UNCHANGED verdict
     ELSE pc' = "closing" /\ verdict' = "error" /\ UNCHANGED loadFailed
  /\ UNCHANGED <<signalled, chans, dataset, next, open, loads, seen, shares, server,
                 sync, clients, timedOut>>

(* A faulty variant: the old dataset is closed without the lock.                 *)
SwitchWithoutLock ==
  /\ pc = "switching"
  /\ dataset' = next
  /\ open' = open \ {dataset.id}
  /\ \/ pc' = "select" /\ UNCHANGED verdict
     \/ pc' = "shutdown" /\ verdict' = "error"
  /\ UNCHANGED <<signalled, chans, next, loads, seen, loadFailed, shares, server, sync,
                 clients, timedOut>>

(* A faulty variant: the old dataset is not closed.                             *)
SwitchLeaks ==
  /\ pc = "switching"
  /\ Readers = {}
  /\ dataset' = next
  /\ pc' = "select"
  /\ UNCHANGED <<verdict, signalled, chans, next, open, loads, seen, loadFailed, shares,
                 server, sync, clients, timedOut>>

(* switchDataset: under the lock, so with no reader.  Closing the old one may fail. *)
SwitchDataset ==
  /\ pc = "switching"
  /\ Readers = {}
  /\ dataset' = next
  /\ open' = open \ {dataset.id}
  /\ \/ pc' = "select" /\ UNCHANGED verdict
     \/ pc' = "shutdown" /\ verdict' = "error"
  /\ UNCHANGED <<signalled, chans, next, loads, seen, loadFailed, shares, server, sync,
                 clients, timedOut>>

(* server.New and startServer; on an error the dataset is closed here, and again    *)
(* by Close.                                                                  *)
NewServer ==
  /\ pc = "creating"
  /\ \/ pc' = "select" /\ server' = "starting" /\ UNCHANGED <<verdict, open>>
     \/ /\ pc' = "closing" /\ verdict' = "error" /\ open' = open \ {dataset.id}
        /\ UNCHANGED server
  /\ UNCHANGED <<signalled, chans, dataset, next, loads, seen, loadFailed, shares, sync,
                 clients, timedOut>>

(* A faulty variant: the end of the updater or the server ends the run as if all     *)
(* were well.                                                                 *)
TakeErrorQuietly ==
  /\ pc = "select"
  /\ errCh # <<>>
  /\ errCh' = Tail(errCh)
  /\ pc' = "shutdown"
  /\ UNCHANGED <<verdict, signalled, events, data, seen, shares, server, sync, clients,
                 timedOut>>

(* The select takes an error.                                                 *)
TakeError ==
  /\ pc = "select"
  /\ errCh # <<>>
  /\ errCh' = Tail(errCh)
  /\ IF Head(errCh) = "closed"
     THEN pc' = "closing" /\ UNCHANGED verdict
     ELSE pc' = "shutdown" /\ verdict' = "error"
  /\ UNCHANGED <<signalled, events, data, seen, shares, server, sync, clients, timedOut>>

(* A faulty variant: a signal is heard only once there is a server to shut down.    *)
SignalHeardWhenServing ==
  /\ pc = "select"
  /\ signalled /\ ServerStarted
  /\ pc' = "shutdown"
  /\ UNCHANGED <<verdict, signalled, chans, data, seen, shares, server, sync, clients,
                 timedOut>>

TakeSignal ==
  /\ pc = "select"
  /\ signalled
  /\ pc' = "shutdown"
  /\ UNCHANGED <<verdict, signalled, chans, data, seen, shares, server, sync, clients,
                 timedOut>>

-----------------------------------------------------------------------------
(* The ways out of Run *)

(* The listener closes: what it accepted is served on.                            *)
NoLongerListening == IF server = "up" THEN "connected" ELSE "down"

(* shutdownServer stops the listener: ListenAndServe returns, if it has not yet.    *)
BeginShutdown ==
  /\ pc = "shutdown"
  /\ pc' = IF ServerStarted THEN "draining" ELSE "closing"
  /\ server' = IF server \in {"starting", "up"} THEN NoLongerListening ELSE server
  /\ errCh' = IF server \in {"starting", "up"} THEN Append(errCh, "closed") ELSE errCh
  /\ UNCHANGED <<verdict, signalled, events, data, seen, shares, sync, clients, timedOut>>

(* A faulty variant: Shutdown is called and not waited for.                      *)
ShutdownDoesNotWait ==
  /\ pc = "draining"
  /\ pc' = "closing"
  /\ UNCHANGED <<verdict, signalled, chans, data, seen, shares, server, sync, clients,
                 timedOut>>

(* No request is left, and the connections are closed.                            *)
EndShutdown ==
  /\ pc = "draining"
  /\ Active = {}
  /\ pc' = "closing"
  /\ server' = "down"
  /\ UNCHANGED <<verdict, signalled, chans, data, seen, shares, sync, clients, timedOut>>

ShutdownTimesOut ==
  /\ pc = "draining"
  /\ Active # {}
  /\ pc' = "closing"
  /\ verdict' = "error"
  /\ timedOut' = TRUE
  /\ UNCHANGED <<signalled, chans, data, seen, shares, server, sync, clients>>

(* Close takes the lock, cancels the clean-up and waits for it.                   *)
LockForClose ==
  /\ pc = "closing"
  /\ Readers = {}
  /\ pc' = "cleaning"
  /\ UNCHANGED <<verdict, signalled, chans, data, seen, shares, server, sync, clients,
                 timedOut>>

(* A faulty variant: stopShareCleanup cancels and does not wait.                  *)
CloseDoesNotWait ==
  /\ pc = "cleaning"
  /\ pc' = "returned"
  /\ open' = open \ {dataset.id}
  /\ dataset' = NoDataset
  /\ store' = "closed"
  /\ verdict' \in {verdict, "error"}
  /\ UNCHANGED <<signalled, chans, next, loads, seen, loadFailed, cleanup, server, sync,
                 clients, timedOut>>

Close ==
  /\ pc = "cleaning"
  /\ cleanup = "ended"
  /\ pc' = "returned"
  /\ open' = open \ {dataset.id}
  /\ dataset' = NoDataset
  /\ store' = "closed"
  /\ verdict' \in {verdict, "error"}
  /\ UNCHANGED <<signalled, chans, next, loads, seen, loadFailed, cleanup, server, sync,
                 clients, timedOut>>

-----------------------------------------------------------------------------
(* The other goroutines *)

Signal ==
  /\ ~signalled /\ pc # "returned"
  /\ signalled' = TRUE
  /\ UNCHANGED <<pc, verdict, chans, data, seen, shares, server, sync, clients, timedOut>>

BeginSync ==
  /\ updater = "waiting"
  /\ syncs < MaxSyncs
  /\ updater' = "syncing"
  /\ syncs' = syncs + 1
  /\ UNCHANGED <<main, chans, data, seen, shares, server, disk, outgoing, clients, timedOut>>

(* updateSources commits.  A load in progress may have read files of either version. *)
CommitSync ==
  /\ updater = "syncing"
  /\ updater' = "sending"
  /\ outgoing' \in Event
  /\ disk' = IF outgoing'.refreshed \/ outgoing'.outdated THEN disk + 1 ELSE disk
  /\ seen' = IF pc = "loading" THEN seen \cup {disk'} ELSE seen
  /\ UNCHANGED <<main, chans, data, shares, server, syncs, clients, timedOut>>

(* sendSyncEvent.                                                            *)
SendSyncEvent ==
  /\ updater = "sending"
  /\ events = <<>>
  /\ events' = <<outgoing>>
  /\ updater' = "waiting"
  /\ UNCHANGED <<main, errCh, data, seen, shares, server, syncs, disk, outgoing, clients,
                 timedOut>>

(* The updater's Run returns: the context's error wherever it waits, or its own.  What  *)
(* a commit cut short leaves on disk is Updater's subject: here no event follows it.   *)
UpdaterEnds ==
  /\ \/ signalled /\ updater \in {"waiting", "syncing", "sending"}
     \/ updater = "syncing"
  /\ updater' = "ended"
  /\ errCh' = Append(errCh, "updater")
  /\ UNCHANGED <<main, events, data, seen, shares, server, syncs, disk, outgoing, clients,
                 timedOut>>

ServerListens ==
  /\ server = "starting"
  /\ server' = "up"
  /\ UNCHANGED <<main, chans, data, seen, shares, sync, clients, timedOut>>

(* ListenAndServe returns an error of its own.                                 *)
ServerFails ==
  /\ server \in {"starting", "up"}
  /\ server' = NoLongerListening
  /\ errCh' = Append(errCh, "server")
  /\ UNCHANGED <<main, events, data, seen, shares, sync, clients, timedOut>>

(* On a new connection or one that is open: also while Shutdown waits, once it gave up,  *)
(* and after ListenAndServe failed.                                              *)
Arrive(r) ==
  /\ server \in {"up", "connected"}
  /\ handler[r] = "idle"
  /\ handler' = [handler EXCEPT ![r] = "handling"]
  /\ UNCHANGED <<main, chans, data, seen, shares, server, sync, reads, timedOut, late>>

(* Report, LookupIP and HasMaxMind under the read lock, which waits behind a writer.  *)
(* Without a dataset the handler panics, and net/http ends the request.              *)
Lookup(r) ==
  /\ handler[r] = "handling"
  /\ pc \notin {"switching", "closing", "cleaning"}
  /\ IF dataset = NoDataset
     THEN handler' = [handler EXCEPT ![r] = "idle"] /\ late' = TRUE /\ UNCHANGED reads
     ELSE /\ handler' = [handler EXCEPT ![r] = "reading"]
          /\ reads' = [reads EXCEPT ![r] = dataset.id]
          /\ UNCHANGED late
  /\ UNCHANGED <<main, chans, data, seen, shares, server, sync, timedOut>>

FinishLookup(r) ==
  /\ handler[r] = "reading"
  /\ handler' = [handler EXCEPT ![r] = "idle"]
  /\ UNCHANGED <<main, chans, data, seen, shares, server, sync, reads, timedOut, late>>

(* CreateShare, ResolveShare: m.shares is read without the lock.                   *)
UseShares(r) ==
  /\ handler[r] = "handling"
  /\ handler' = [handler EXCEPT ![r] = "idle"]
  /\ late' = (late \/ store # "open")
  /\ UNCHANGED <<main, chans, data, seen, shares, server, sync, reads, timedOut>>

(* cleanupShares returns; the ticker fires; the context, or stopShareCleanup, ends   *)
(* the goroutine.                                                             *)
CleanupDone ==
  /\ cleanup = "deleting"
  /\ cleanup' = "waiting"
  /\ UNCHANGED <<main, chans, data, seen, store, server, sync, clients, timedOut>>

CleanupTick ==
  /\ cleanup = "waiting"
  /\ cleanup' = "deleting"
  /\ UNCHANGED <<main, chans, data, seen, store, server, sync, clients, timedOut>>

CleanupEnds ==
  /\ cleanup = "waiting"
  /\ signalled \/ pc = "cleaning"
  /\ cleanup' = "ended"
  /\ UNCHANGED <<main, chans, data, seen, store, server, sync, clients, timedOut>>

-----------------------------------------------------------------------------
(* Run between two selects, and on its way out.                                *)
RunStep ==
  \/ OpenShares \/ ReadNotice \/ LoadDataset \/ LoadFails \/ SwitchDataset \/ NewServer
  \/ BeginShutdown \/ EndShutdown \/ ShutdownTimesOut \/ LockForClose \/ Close

Next ==
  \/ RunStep \/ TakeEvent \/ TakeError \/ TakeSignal
  \/ Signal \/ BeginSync \/ CommitSync \/ SendSyncEvent \/ UpdaterEnds
  \/ ServerListens \/ ServerFails
  \/ CleanupDone \/ CleanupTick \/ CleanupEnds
  \/ \E r \in Request : Arrive(r) \/ Lookup(r) \/ FinishLookup(r) \/ UseShares(r)

Spec == Init /\ [][Next]_vars

(* The select takes a ready case, and one that is ready again and again some time:    *)
(* Go picks among the ready ones at random.                                     *)
Leave == TakeError \/ TakeSignal

(* Goroutines run, and their calls return.                                       *)
FairSpec ==
  /\ Spec
  /\ WF_vars(RunStep \/ TakeEvent \/ Leave)
  /\ SF_vars(Leave)
  /\ WF_vars(SendSyncEvent)
  /\ WF_vars(CleanupDone) /\ SF_vars(CleanupEnds)
  /\ WF_vars(\E r \in Request : FinishLookup(r))

-----------------------------------------------------------------------------
(* Properties *)

RunTypes ==
  /\ pc \in {"opening", "notice", "select", "loading", "switching", "creating", "shutdown",
             "draining", "closing", "cleaning", "returned"}
  /\ verdict \in {"ok", "error"} /\ signalled \in BOOLEAN /\ timedOut \in BOOLEAN

ChannelTypes ==
  /\ events \in Seq(Event) /\ Len(events) <= 1
  /\ outgoing \in Event
  /\ errCh \in Seq({"updater", "server", "closed"})

DatasetTypes ==
  /\ dataset \in [id : Nat, of : SUBSET Nat] /\ next \in [id : Nat, of : SUBSET Nat]
  /\ open \subseteq Nat /\ loads \in Nat /\ loadFailed \in BOOLEAN
  /\ seen \subseteq Nat /\ disk \in Nat

ServiceTypes ==
  /\ store \in {"none", "open", "closed"}
  /\ cleanup \in {"none", "deleting", "waiting", "ended"}
  /\ server \in {"none", "starting", "up", "connected", "down"}
  /\ updater \in {"none", "waiting", "syncing", "sending", "ended"}
  /\ syncs \in Nat

ClientTypes ==
  /\ handler \in [Request -> {"idle", "handling", "reading"}]
  /\ reads \in [Request -> Nat] /\ late \in BOOLEAN

TypeOK == RunTypes /\ ChannelTypes /\ DatasetTypes /\ ServiceTypes /\ ClientTypes

(* No dataset is closed under a lookup: its MaxMind readers are memory-mapped files.  *)
ReadersSeeOpenDataset == \A r \in Readers : reads[r] \in open

(* The clean-up never runs on a closed store.                                     *)
CleanupSeesOpenStore == cleanup = "deleting" => store = "open"

(* CreateShare and ResolveShare take no lock, and Close sets the fields to nil: a     *)
(* request meets what is gone only if Shutdown gave up on it.                       *)
LateOnlyAfterTimeout == late => timedOut

(* Whichever way Run ends, no dataset and no store is left open, and the clean-up, which  *)
(* uses the store, has ended.  Run does not wait for the updater: it ends with the process. *)
NothingLeftOpen ==
  pc = "returned" => open = {} /\ store # "open" /\ cleanup \in {"none", "ended"}

(* The channel errCh has room for the last words of the updater and of the server:    *)
(* neither goroutine is left behind on a send.                                      *)
LastWordsFit == Len(errCh) <= 2

(* When the updater and the manager are at rest the dataset served is made of the     *)
(* files on disk, unless the last reload failed: no change is passed over, whatever   *)
(* was committed during a load.                                                 *)
ServesLatest ==
  pc = "select" /\ ServerStarted /\ events = <<>> /\ updater = "waiting" /\ ~loadFailed
    => dataset.of = {disk}

(* Without a signal the program never ends as if all were well, so that a supervisor  *)
(* restarts it.                                                                *)
NoQuietEnd == pc = "returned" /\ ~signalled => verdict = "error"

Newest(versions) == CHOOSE v \in versions : \A w \in versions : w <= v

Clients == INSTANCE Serving WITH
  mode <- IF pc = "returned" THEN "stopped"
          ELSE IF ServerStarted /\ dataset # NoDataset THEN "serving" ELSE "starting",
  newest <- IF ServerStarted /\ dataset # NoDataset THEN Newest(dataset.of) ELSE 0

(* The manager implements Serving.                                              *)
KeepsServing == Clients!Spec

(* A signal, or the end of the updater or of the server, ends the program, requests    *)
(* in progress notwithstanding.                                                  *)
EndsWhenItMust ==
  (signalled \/ updater = "ended" \/ server \in {"connected", "down"}) ~> (pc = "returned")

(* The updater is never blocked for ever on a full channel.                        *)
UpdaterNeverStuck == (updater = "sending") ~> (updater # "sending" \/ pc = "returned")
=============================================================================
