---------------------------- MODULE ManagerProofs ----------------------------
(***************************************************************************)
(* The safety of the manager for any number of requests and syncs: types,     *)
(* then the parts of ManagerInvariant one by one, then what they imply.        *)
(***************************************************************************)
EXTENDS ManagerInvariant, FiniteSetTheorems, TLAPS

-----------------------------------------------------------------------------
(* Types *)

(* Every step keeps the types, group by group.                                    *)
LEMMA TypeStep == TypeOK /\ [Next]_vars => TypeOK'
<1> SUFFICES ASSUME TypeOK, [Next]_vars
             PROVE  TypeOK'
  OBVIOUS
<1> USE DEF TypeOK
<1>1. RunTypes'
  <2>1. CASE UNCHANGED <<pc, verdict, signalled, timedOut>>
    BY <2>1 DEF RunTypes
  <2>2. CASE OpenShares
    BY <2>2 DEF OpenShares, chans, data, shares, sync, clients, RunTypes
  <2>3. CASE ReadNotice
    BY <2>3 DEF ReadNotice, chans, data, shares, clients, RunTypes
  <2>4. CASE TakeEvent
    BY <2>4 DEF TakeEvent, data, shares, sync, clients, ShouldLoadDataset,
                ServerStarted, RunTypes
  <2>5. CASE LoadDataset
    BY <2>5 DEF LoadDataset, chans, shares, sync, clients, ServerStarted, RunTypes
  <2>6. CASE LoadFails
    BY <2>6 DEF LoadFails, chans, shares, sync, clients, ServerStarted, RunTypes
  <2>7. CASE SwitchDataset
    BY <2>7 DEF SwitchDataset, chans, shares, sync, clients, Readers, RunTypes
  <2>8. CASE NewServer
    BY <2>8 DEF NewServer, chans, shares, sync, clients, RunTypes
  <2>9. CASE TakeError
    BY <2>9 DEF TakeError, data, shares, sync, clients, RunTypes
  <2>10. CASE TakeSignal
    BY <2>10 DEF TakeSignal, chans, data, shares, sync, clients, RunTypes
  <2>11. CASE BeginShutdown
    BY <2>11 DEF BeginShutdown, data, shares, sync, clients, ServerStarted, RunTypes
  <2>12. CASE EndShutdown
    BY <2>12 DEF EndShutdown, chans, data, shares, sync, clients, Active, RunTypes
  <2>13. CASE ShutdownTimesOut
    BY <2>13 DEF ShutdownTimesOut, chans, data, shares, sync, clients, Active, RunTypes
  <2>14. CASE LockForClose
    BY <2>14 DEF LockForClose, chans, data, shares, sync, clients, Readers, RunTypes
  <2>15. CASE Close
    BY <2>15 DEF Close, chans, sync, clients, NoDataset, RunTypes
  <2>16. CASE Signal
    BY <2>16 DEF Signal, chans, data, shares, sync, clients, RunTypes
  <2> QED
    BY <2>1, <2>2, <2>3, <2>4, <2>5, <2>6, <2>7, <2>8, <2>9, <2>10, <2>11, <2>12,
       <2>13, <2>14, <2>15, <2>16
    DEF Next, RunStep, vars, main, chans, data, shares, sync, clients, BeginSync,
        CommitSync, SendSyncEvent, UpdaterEnds, ServerListens, ServerFails,
        CleanupDone, CleanupTick, CleanupEnds, Arrive, Lookup, FinishLookup, UseShares
<1>2. ChannelTypes'
  <2>1. CASE UNCHANGED <<events, outgoing, errCh>>
    BY <2>1 DEF ChannelTypes
  <2>2. CASE TakeEvent
    BY <2>2 DEF TakeEvent, data, shares, sync, clients, ShouldLoadDataset,
                ServerStarted, ChannelTypes, Event
  <2>3. CASE TakeError
    BY <2>3 DEF TakeError, data, shares, sync, clients, ChannelTypes, Event
  <2>4. CASE BeginShutdown
    BY <2>4 DEF BeginShutdown, data, shares, sync, clients, ServerStarted,
                ChannelTypes, Event
  <2>5. CASE CommitSync
    BY <2>5 DEF CommitSync, main, chans, data, shares, clients, Event, ChannelTypes
  <2>6. CASE SendSyncEvent
    BY <2>6 DEF SendSyncEvent, main, data, shares, clients, ChannelTypes, Event
  <2>7. CASE UpdaterEnds
    BY <2>7 DEF UpdaterEnds, main, data, shares, clients, ChannelTypes, Event
  <2>8. CASE ServerFails
    BY <2>8 DEF ServerFails, main, data, shares, sync, clients, ChannelTypes, Event
  <2> QED
    BY <2>1, <2>2, <2>3, <2>4, <2>5, <2>6, <2>7, <2>8
    DEF Next, RunStep, vars, main, chans, data, shares, sync, clients, OpenShares,
        ReadNotice, LoadDataset, LoadFails, SwitchDataset, NewServer, TakeSignal,
        EndShutdown, ShutdownTimesOut, LockForClose, Close, Signal, BeginSync,
        ServerListens, CleanupDone, CleanupTick, CleanupEnds, Arrive, Lookup,
        FinishLookup, UseShares
<1>3. DatasetTypes'
  <2>1. CASE UNCHANGED <<dataset, next, open, loads, loadFailed, seen, disk>>
    BY <2>1 DEF DatasetTypes
  <2>2. CASE TakeEvent
    BY <2>2 DEF TakeEvent, data, shares, sync, clients, ShouldLoadDataset,
                ServerStarted, DatasetTypes, NoDataset
  <2>3. CASE LoadDataset
    <3> DEFINE ds == [id |-> loads + 1, of |-> seen]
    <3>1. ds \in [id : Nat, of : SUBSET Nat] /\ ds.id = loads + 1
      BY DEF DatasetTypes
    <3>2. /\ loads' = ds.id /\ open' = open \cup {ds.id} /\ loadFailed' = FALSE
          /\ dataset' = dataset \/ dataset' = ds
          /\ next' = next \/ next' = ds
          /\ UNCHANGED <<seen, disk>>
      BY <2>3 DEF LoadDataset, sync
    <3> HIDE DEF ds
    <3> QED
      BY <3>1, <3>2 DEF DatasetTypes
  <2>4. CASE LoadFails
    BY <2>4 DEF LoadFails, chans, shares, sync, clients, ServerStarted, DatasetTypes,
                NoDataset
  <2>5. CASE SwitchDataset
    BY <2>5 DEF SwitchDataset, chans, shares, sync, clients, Readers, DatasetTypes,
                NoDataset
  <2>6. CASE NewServer
    BY <2>6 DEF NewServer, chans, shares, sync, clients, DatasetTypes, NoDataset
  <2>7. CASE Close
    BY <2>7 DEF Close, chans, sync, clients, NoDataset, DatasetTypes
  <2>8. CASE CommitSync
    BY <2>8 DEF CommitSync, main, chans, data, shares, clients, Event, DatasetTypes,
                NoDataset
  <2> QED
    BY <2>1, <2>2, <2>3, <2>4, <2>5, <2>6, <2>7, <2>8
    DEF Next, RunStep, vars, main, chans, data, shares, sync, clients, OpenShares,
        ReadNotice, TakeError, TakeSignal, BeginShutdown, EndShutdown,
        ShutdownTimesOut, LockForClose, Signal, BeginSync, SendSyncEvent, UpdaterEnds,
        ServerListens, ServerFails, CleanupDone, CleanupTick, CleanupEnds, Arrive,
        Lookup, FinishLookup, UseShares
<1>4. ServiceTypes'
  <2>1. CASE UNCHANGED <<store, cleanup, server, updater, syncs>>
    BY <2>1 DEF ServiceTypes
  <2>2. CASE OpenShares
    BY <2>2 DEF OpenShares, chans, data, shares, sync, clients, ServiceTypes
  <2>3. CASE ReadNotice
    BY <2>3 DEF ReadNotice, chans, data, shares, clients, ServiceTypes
  <2>4. CASE NewServer
    BY <2>4 DEF NewServer, chans, shares, sync, clients, ServiceTypes
  <2>5. CASE BeginShutdown
    BY <2>5 DEF BeginShutdown, data, shares, sync, clients, ServerStarted,
                NoLongerListening, ServiceTypes
  <2>6. CASE Close
    BY <2>6 DEF Close, chans, sync, clients, NoDataset, ServiceTypes
  <2>7. CASE BeginSync
    BY <2>7 DEF BeginSync, main, chans, data, shares, clients, ServiceTypes
  <2>8. CASE CommitSync
    BY <2>8 DEF CommitSync, main, chans, data, shares, clients, Event, ServiceTypes
  <2>9. CASE SendSyncEvent
    BY <2>9 DEF SendSyncEvent, main, data, shares, clients, ServiceTypes
  <2>10. CASE UpdaterEnds
    BY <2>10 DEF UpdaterEnds, main, data, shares, clients, ServiceTypes
  <2>11. CASE ServerListens
    BY <2>11 DEF ServerListens, main, chans, data, shares, sync, clients, ServiceTypes
  <2>12. CASE ServerFails
    BY <2>12 DEF ServerFails, NoLongerListening, main, data, shares, sync, clients,
                 ServiceTypes
  <2>13. CASE CleanupDone
    BY <2>13 DEF CleanupDone, main, chans, data, sync, clients, ServiceTypes
  <2>14. CASE CleanupTick
    BY <2>14 DEF CleanupTick, main, chans, data, sync, clients, ServiceTypes
  <2>15. CASE CleanupEnds
    BY <2>15 DEF CleanupEnds, main, chans, data, sync, clients, ServiceTypes
  <2>16. CASE EndShutdown
    BY <2>16 DEF EndShutdown, chans, data, shares, sync, clients, ServiceTypes
  <2> QED
    BY <2>1, <2>2, <2>3, <2>4, <2>5, <2>6, <2>7, <2>8, <2>9, <2>10, <2>11, <2>12,
       <2>13, <2>14, <2>15, <2>16
    DEF Next, RunStep, vars, main, chans, data, shares, sync, clients, TakeEvent,
        LoadDataset, LoadFails, SwitchDataset, TakeError, TakeSignal,
        ShutdownTimesOut, LockForClose, Signal, Arrive, Lookup, FinishLookup, UseShares
<1>5. ClientTypes'
  <2>1. CASE UNCHANGED <<handler, reads, late>>
    BY <2>1 DEF ClientTypes
  <2>2. ASSUME NEW r \in Request, Arrive(r) PROVE ClientTypes'
    BY <2>2 DEF Arrive, main, chans, data, shares, sync, ClientTypes, NoDataset
  <2>3. ASSUME NEW r \in Request, Lookup(r) PROVE ClientTypes'
    BY <2>3 DEF Lookup, main, chans, data, shares, sync, NoDataset, ClientTypes,
                DatasetTypes
  <2>4. ASSUME NEW r \in Request, FinishLookup(r) PROVE ClientTypes'
    BY <2>4 DEF FinishLookup, main, chans, data, shares, sync, ClientTypes, NoDataset
  <2>5. ASSUME NEW r \in Request, UseShares(r) PROVE ClientTypes'
    BY <2>5 DEF UseShares, main, chans, data, shares, sync, ClientTypes, NoDataset
  <2> QED
    BY <2>1, <2>2, <2>3, <2>4, <2>5
    DEF Next, RunStep, vars, main, chans, data, shares, sync, clients, OpenShares,
        ReadNotice, TakeEvent, LoadDataset, LoadFails, SwitchDataset, NewServer,
        TakeError, TakeSignal, BeginShutdown, EndShutdown, ShutdownTimesOut,
        LockForClose, Close, Signal, BeginSync, CommitSync, SendSyncEvent, UpdaterEnds,
        ServerListens, ServerFails, CleanupDone, CleanupTick, CleanupEnds
<1> QED
  BY <1>1, <1>2, <1>3, <1>4, <1>5

(* The manager's variables keep their types.                                      *)
THEOREM TypeCorrect == Spec => []TypeOK
<1>1. Init => TypeOK
  <2>1. NoDataset \in [id : Nat, of : SUBSET Nat]
    BY DEF NoDataset
  <2>2. [refreshed |-> FALSE, outdated |-> FALSE] \in Event
    BY DEF Event
  <2>3. Init => loadFailed \in BOOLEAN /\ late \in BOOLEAN
    BY DEF Init
  <2>4. Init => RunTypes
    BY DEF Init, RunTypes
  <2>8. Init => ServiceTypes
    BY DEF Init, ServiceTypes
  <2>5. Init => ChannelTypes
    BY <2>2 DEF Init, ChannelTypes
  <2>6. Init => DatasetTypes
    BY <2>1, <2>3 DEF Init, DatasetTypes
  <2>7. Init => ClientTypes
    BY <2>3 DEF Init, ClientTypes
  <2> QED
    BY <2>4, <2>5, <2>6, <2>7, <2>8 DEF TypeOK
<1> QED
  BY <1>1, TypeStep, PTL DEF Spec

-----------------------------------------------------------------------------
(* The parts of the invariant *)

(* The store and the clean-up follow Run.                                    *)
LEMMA SharesInvStep == TypeOK /\ IInv /\ [Next]_vars => SharesInv'
<1> SUFFICES ASSUME TypeOK, IInv, [Next]_vars
             PROVE  SharesInv'
  OBVIOUS
<1> USE DEF IInv
<1>1. CASE UNCHANGED <<pc, store, cleanup>>
  BY <1>1 DEF SharesInv
<1>2. CASE OpenShares
  BY <1>2 DEF OpenShares, chans, data, shares, sync, clients, SharesInv
<1>3. CASE ReadNotice
  BY <1>3 DEF ReadNotice, chans, data, shares, clients, SharesInv
<1>4. CASE TakeEvent
  BY <1>4 DEF TakeEvent, data, shares, sync, clients, ShouldLoadDataset, ServerStarted,
              SharesInv
<1>5. CASE LoadDataset
  BY <1>5 DEF LoadDataset, chans, shares, sync, clients, ServerStarted, SharesInv
<1>6. CASE LoadFails
  BY <1>6 DEF LoadFails, chans, shares, sync, clients, ServerStarted, SharesInv
<1>7. CASE SwitchDataset
  BY <1>7 DEF SwitchDataset, chans, shares, sync, clients, Readers, SharesInv
<1>8. CASE NewServer
  BY <1>8 DEF NewServer, chans, shares, sync, clients, SharesInv
<1>9. CASE TakeError
  BY <1>9 DEF TakeError, data, shares, sync, clients, SharesInv
<1>10. CASE TakeSignal
  BY <1>10 DEF TakeSignal, chans, data, shares, sync, clients, SharesInv
<1>11. CASE BeginShutdown
  BY <1>11 DEF BeginShutdown, data, shares, sync, clients, ServerStarted, SharesInv
<1>12. CASE EndShutdown
  BY <1>12 DEF EndShutdown, chans, data, shares, sync, clients, Active, SharesInv
<1>13. CASE ShutdownTimesOut
  BY <1>13 DEF ShutdownTimesOut, chans, data, shares, sync, clients, Active, SharesInv
<1>14. CASE LockForClose
  BY <1>14 DEF LockForClose, chans, data, shares, sync, clients, Readers, SharesInv
<1>15. CASE Close
  BY <1>15 DEF Close, chans, sync, clients, NoDataset, SharesInv
<1>16. CASE CleanupDone
  BY <1>16 DEF CleanupDone, main, chans, data, sync, clients, SharesInv
<1>17. CASE CleanupTick
  BY <1>17 DEF CleanupTick, main, chans, data, sync, clients, SharesInv
<1>18. CASE CleanupEnds
  BY <1>18 DEF CleanupEnds, main, chans, data, sync, clients, SharesInv
<1> QED
  BY <1>1, <1>2, <1>3, <1>4, <1>5, <1>6, <1>7, <1>8, <1>9, <1>10, <1>11, <1>12, <1>13,
     <1>14, <1>15, <1>16, <1>17, <1>18
  DEF Next, RunStep, vars, main, chans, data, shares, sync, clients, Signal, BeginSync,
      CommitSync, SendSyncEvent, UpdaterEnds, ServerListens, ServerFails, Arrive,
      Lookup, FinishLookup, UseShares

(* Datasets are opened and closed in pairs.                                  *)
LEMMA OpenInvStep == TypeOK /\ IInv /\ [Next]_vars => OpenInv'
<1> SUFFICES ASSUME TypeOK, IInv, [Next]_vars
             PROVE  OpenInv'
  OBVIOUS
<1> USE DEF IInv
<1>1. CASE UNCHANGED <<pc, dataset, next, open, loads, server>>
  BY <1>1 DEF OpenInv, NoDataset, ServerStarted
<1>2. CASE OpenShares
  BY <1>2 DEF OpenShares, chans, data, shares, sync, clients, OpenInv, ShutdownInv,
              NoDataset, ServerStarted, Active, Readers
<1>3. CASE ReadNotice
  BY <1>3 DEF ReadNotice, chans, data, shares, clients, OpenInv, NoDataset,
              ServerStarted
<1>4. CASE TakeEvent
  BY <1>4 DEF TakeEvent, data, shares, sync, clients, ShouldLoadDataset, ServerStarted,
              OpenInv, NoDataset
<1>5. CASE LoadDataset
  <2> DEFINE ds == [id |-> loads + 1, of |-> seen]
  <2>1. ds.id = loads + 1 /\ loads \in Nat /\ dataset.id \in Nat /\ next.id \in Nat
    BY DEF TypeOK, DatasetTypes
  <2>2. /\ pc = "loading" /\ loads' = ds.id /\ open' = open \cup {ds.id}
        /\ UNCHANGED server
        /\ \/ ServerStarted /\ pc' = "switching" /\ next' = ds /\ dataset' = dataset
           \/ ~ServerStarted /\ pc' = "creating" /\ dataset' = ds /\ next' = next
    BY <1>5 DEF LoadDataset, ServerStarted
  <2> HIDE DEF ds
  <2>3. CASE ServerStarted
    BY <2>1, <2>2, <2>3 DEF OpenInv, ServerStarted
  <2>4. CASE ~ServerStarted
    BY <2>1, <2>2, <2>4 DEF OpenInv, ServerStarted
  <2> QED
    BY <2>3, <2>4
<1>6. CASE LoadFails
  BY <1>6 DEF LoadFails, chans, shares, sync, clients, ServerStarted, OpenInv, NoDataset
<1>7. CASE SwitchDataset
  <2>1. loads \in Nat /\ dataset.id \in Nat /\ next.id \in Nat
    BY DEF TypeOK, DatasetTypes
  <2> QED
    BY <2>1, <1>7 DEF SwitchDataset, OpenInv, ServerStarted
<1>8. CASE NewServer
  BY <1>8 DEF NewServer, chans, shares, sync, clients, OpenInv, NoDataset, ServerStarted
<1>9. CASE TakeError
  BY <1>9 DEF TakeError, data, shares, sync, clients, OpenInv, NoDataset, ServerStarted
<1>10. CASE TakeSignal
  BY <1>10 DEF TakeSignal, chans, data, shares, sync, clients, OpenInv, NoDataset,
               ServerStarted
<1>11. CASE BeginShutdown
  BY <1>11 DEF BeginShutdown, NoLongerListening, data, shares, sync, clients,
               ServerStarted, OpenInv, NoDataset
<1>12. CASE EndShutdown
  BY <1>12 DEF EndShutdown, chans, data, shares, sync, clients, Active, OpenInv,
               ShutdownInv, NoDataset, ServerStarted
<1>13. CASE ShutdownTimesOut
  BY <1>13 DEF ShutdownTimesOut, chans, data, shares, sync, clients, Active, OpenInv,
               NoDataset, ServerStarted
<1>14. CASE LockForClose
  BY <1>14 DEF LockForClose, chans, data, shares, sync, clients, Readers, OpenInv,
               NoDataset, ServerStarted
<1>15. CASE Close
  <2>1. NoDataset.id = 0 /\ loads \in Nat
    BY DEF TypeOK, DatasetTypes, NoDataset
  <2> QED
    BY <2>1, <1>15 DEF Close, OpenInv, ServerStarted
<1>16. CASE ServerListens
  BY <1>16 DEF ServerListens, main, chans, data, shares, sync, clients, OpenInv,
               NoDataset, ServerStarted
<1>17. CASE ServerFails
  BY <1>17 DEF ServerFails, NoLongerListening, main, data, shares, sync, clients,
               OpenInv, NoDataset, ServerStarted
<1> QED
  BY <1>1, <1>2, <1>3, <1>4, <1>5, <1>6, <1>7, <1>8, <1>9, <1>10, <1>11, <1>12, <1>13,
     <1>14, <1>15, <1>16, <1>17
  DEF Next, RunStep, vars, main, chans, data, shares, sync, clients, Signal, BeginSync,
      CommitSync, SendSyncEvent, UpdaterEnds, CleanupDone, CleanupTick, CleanupEnds,
      Arrive, Lookup, FinishLookup, UseShares

(* Readers keep to the current dataset.                                      *)
LEMMA ReadersInvStep == TypeOK /\ IInv /\ [Next]_vars => ReadersInv'
<1> SUFFICES ASSUME TypeOK, IInv, [Next]_vars
             PROVE  ReadersInv'
  OBVIOUS
<1> USE DEF IInv
<1>1. CASE UNCHANGED <<pc, dataset, handler, reads, server>>
  BY <1>1 DEF ReadersInv, Readers, Active, ServerStarted
<1>2. CASE OpenShares
  BY <1>2 DEF OpenShares, chans, data, shares, sync, clients, ReadersInv, ShutdownInv,
              Readers, Active, ServerStarted
<1>3. CASE ReadNotice
  BY <1>3 DEF ReadNotice, chans, data, shares, clients, ReadersInv, Readers, Active,
              ServerStarted
<1>4. CASE TakeEvent
  BY <1>4 DEF TakeEvent, data, shares, sync, clients, ShouldLoadDataset, ServerStarted,
              ReadersInv, Readers, Active
<1>5. CASE LoadDataset
  BY <1>5 DEF LoadDataset, chans, shares, sync, clients, ServerStarted, ReadersInv,
              Readers, Active
<1>6. CASE LoadFails
  BY <1>6 DEF LoadFails, chans, shares, sync, clients, ServerStarted, ReadersInv,
              Readers, Active
<1>7. CASE SwitchDataset
  BY <1>7 DEF SwitchDataset, chans, shares, sync, clients, Readers, ReadersInv, Active,
              ServerStarted
<1>8. CASE NewServer
  BY <1>8 DEF NewServer, chans, shares, sync, clients, ReadersInv, Readers, Active,
              ServerStarted
<1>9. CASE TakeError
  BY <1>9 DEF TakeError, data, shares, sync, clients, ReadersInv, Readers, Active,
              ServerStarted
<1>10. CASE TakeSignal
  BY <1>10 DEF TakeSignal, chans, data, shares, sync, clients, ReadersInv, Readers,
               Active, ServerStarted
<1>11. CASE BeginShutdown
  BY <1>11 DEF BeginShutdown, NoLongerListening, data, shares, sync, clients,
               ServerStarted, ReadersInv, Readers, Active
<1>12. CASE EndShutdown
  BY <1>12 DEF EndShutdown, chans, data, shares, sync, clients, Active, ReadersInv,
               Readers, ServerStarted
<1>13. CASE ShutdownTimesOut
  BY <1>13 DEF ShutdownTimesOut, chans, data, shares, sync, clients, Active,
               ReadersInv, Readers, ServerStarted
<1>14. CASE LockForClose
  BY <1>14 DEF LockForClose, chans, data, shares, sync, clients, Readers, ReadersInv,
               Active, ServerStarted
<1>15. CASE Close
  BY <1>15 DEF Close, chans, sync, clients, NoDataset, ReadersInv, Readers, Active,
               ServerStarted
<1>16. CASE ServerListens
  BY <1>16 DEF ServerListens, main, chans, data, shares, sync, clients, ReadersInv,
               Readers, Active, ServerStarted
<1>17. CASE ServerFails
  BY <1>17 DEF ServerFails, NoLongerListening, main, data, shares, sync, clients,
               ReadersInv, Readers, Active, ServerStarted
<1>18. ASSUME NEW r \in Request, Arrive(r) PROVE ReadersInv'
  BY <1>18 DEF Arrive, main, chans, data, shares, sync, ReadersInv, Readers, Active,
               ServerStarted
<1>19. ASSUME NEW r \in Request, Lookup(r) PROVE ReadersInv'
  BY <1>19 DEF Lookup, main, chans, data, shares, sync, NoDataset, ReadersInv, OpenInv,
               ClientTypes, Readers, Active, ServerStarted, TypeOK
<1>20. ASSUME NEW r \in Request, FinishLookup(r) PROVE ReadersInv'
  BY <1>20 DEF FinishLookup, main, chans, data, shares, sync, ReadersInv, Readers,
               Active, ServerStarted
<1>21. ASSUME NEW r \in Request, UseShares(r) PROVE ReadersInv'
  BY <1>21 DEF UseShares, main, chans, data, shares, sync, ReadersInv, Readers, Active,
               ServerStarted
<1> QED
  BY <1>1, <1>2, <1>3, <1>4, <1>5, <1>6, <1>7, <1>8, <1>9, <1>10, <1>11, <1>12, <1>13,
     <1>14, <1>15, <1>16, <1>17, <1>18, <1>19, <1>20, <1>21
  DEF Next, RunStep, vars, main, chans, data, shares, sync, clients, Signal, BeginSync,
      CommitSync, SendSyncEvent, UpdaterEnds, CleanupDone, CleanupTick, CleanupEnds

(* Close follows the end of the requests.                                    *)
LEMMA ShutdownInvStep == TypeOK /\ IInv /\ [Next]_vars => ShutdownInv'
<1> SUFFICES ASSUME TypeOK, IInv, [Next]_vars
             PROVE  ShutdownInv'
  OBVIOUS
<1> USE DEF IInv
<1>1. CASE UNCHANGED <<pc, server, timedOut, handler, errCh, updater>>
  BY <1>1 DEF ShutdownInv, Active, Readers, ServerStarted
<1>2. CASE OpenShares
  BY <1>2 DEF OpenShares, chans, data, shares, sync, clients, ShutdownInv, ReadersInv,
              Active, Readers, ServerStarted
<1>3. CASE ReadNotice
  BY <1>3 DEF ReadNotice, chans, data, shares, clients, ShutdownInv, ReadersInv,
              Active, Readers, ServerStarted
<1>4. CASE TakeEvent
  BY <1>4 DEF TakeEvent, data, shares, sync, clients, ShouldLoadDataset, ServerStarted,
              ShutdownInv, Active, Readers
<1>5. CASE LoadDataset
  BY <1>5 DEF LoadDataset, chans, shares, sync, clients, ServerStarted, ShutdownInv,
              Active, Readers
<1>6. CASE LoadFails
  BY <1>6 DEF LoadFails, chans, shares, sync, clients, ServerStarted, ShutdownInv,
              ReadersInv, Active, Readers
<1>7. CASE SwitchDataset
  BY <1>7 DEF SwitchDataset, chans, shares, sync, clients, Readers, ShutdownInv,
              Active, ServerStarted
<1>8. CASE NewServer
  BY <1>8 DEF NewServer, chans, shares, sync, clients, ShutdownInv, ReadersInv,
              OpenInv, Active, Readers, ServerStarted, NoDataset
<1>9. CASE TakeError
  BY <1>9 DEF TakeError, data, shares, sync, clients, ShutdownInv, ChannelTypes,
              Active, Readers, ServerStarted, TypeOK
<1>10. CASE TakeSignal
  BY <1>10 DEF TakeSignal, chans, data, shares, sync, clients, ShutdownInv, Active,
               Readers, ServerStarted
<1>11. CASE BeginShutdown
  <2>1. server' \in {"none", "connected", "down"} /\ (ServerStarted => server' # "none")
    BY <1>11 DEF BeginShutdown, NoLongerListening, ServerStarted, TypeOK, ServiceTypes
  <2>2. CASE ServerStarted
    BY <1>11, <2>1, <2>2 DEF BeginShutdown, ShutdownInv
  <2>3. CASE ~ServerStarted
    <3>1. Active = {} /\ server' = "none" /\ Active' = Active
      BY <1>11, <2>3 DEF BeginShutdown, clients, ServerStarted, ReadersInv, Active
    <3> QED
      BY <1>11, <2>3, <3>1 DEF BeginShutdown, ShutdownInv
  <2> QED
    BY <2>2, <2>3
<1>12. CASE EndShutdown
  BY <1>12 DEF EndShutdown, chans, data, shares, sync, clients, Active, ShutdownInv,
               Readers, ServerStarted
<1>13. CASE ShutdownTimesOut
  BY <1>13 DEF ShutdownTimesOut, chans, data, shares, sync, clients, Active,
               ShutdownInv, Readers, ServerStarted
<1>14. CASE LockForClose
  BY <1>14 DEF LockForClose, chans, data, shares, sync, clients, Readers, ShutdownInv,
               Active, ServerStarted
<1>15. CASE Close
  BY <1>15 DEF Close, chans, sync, clients, NoDataset, ShutdownInv, Active, Readers,
               ServerStarted
<1>16. CASE BeginSync
  BY <1>16 DEF BeginSync, main, chans, data, shares, clients, ShutdownInv, Active,
               Readers, ServerStarted
<1>17. CASE CommitSync
  BY <1>17 DEF CommitSync, main, chans, data, shares, clients, Event, ShutdownInv,
               Active, Readers, ServerStarted
<1>18. CASE SendSyncEvent
  BY <1>18 DEF SendSyncEvent, main, data, shares, clients, ShutdownInv, Active,
               Readers, ServerStarted
<1>19. CASE UpdaterEnds
  BY <1>19 DEF UpdaterEnds, main, data, shares, clients, ShutdownInv, Active, Readers,
               ServerStarted
<1>20. CASE ServerListens
  BY <1>20 DEF ServerListens, main, chans, data, shares, sync, clients, ShutdownInv,
               Active, Readers, ServerStarted
<1>21. CASE ServerFails
  BY <1>21 DEF ServerFails, NoLongerListening, main, data, shares, sync, clients,
               ShutdownInv, Active, Readers, ServerStarted
<1>22. ASSUME NEW r \in Request, Arrive(r) PROVE ShutdownInv'
  BY <1>22 DEF Arrive, main, chans, data, shares, sync, ShutdownInv, Active, Readers,
               ServerStarted
<1>23. ASSUME NEW r \in Request, Lookup(r) PROVE ShutdownInv'
  BY <1>23 DEF Lookup, main, chans, data, shares, sync, NoDataset, ShutdownInv, Active,
               Readers, ServerStarted
<1>24. ASSUME NEW r \in Request, FinishLookup(r) PROVE ShutdownInv'
  BY <1>24 DEF FinishLookup, main, chans, data, shares, sync, ShutdownInv, Active,
               Readers, ServerStarted
<1>25. ASSUME NEW r \in Request, UseShares(r) PROVE ShutdownInv'
  BY <1>25 DEF UseShares, main, chans, data, shares, sync, ShutdownInv, Active,
               Readers, ServerStarted
<1> QED
  BY <1>1, <1>2, <1>3, <1>4, <1>5, <1>6, <1>7, <1>8, <1>9, <1>10, <1>11, <1>12, <1>13,
     <1>14, <1>15, <1>16, <1>17, <1>18, <1>19, <1>20, <1>21, <1>22, <1>23, <1>24, <1>25
  DEF Next, RunStep, vars, main, chans, data, shares, sync, clients, Signal,
      CleanupDone, CleanupTick, CleanupEnds

(* Each goroutine speaks once on errCh.                                      *)
LEMMA ChannelInvStep == TypeOK /\ IInv /\ [Next]_vars => ChannelInv'
<1> SUFFICES ASSUME TypeOK, IInv, [Next]_vars
             PROVE  ChannelInv'
  OBVIOUS
<1> USE DEF IInv
<1>1. CASE UNCHANGED <<errCh, updater, server>>
  BY <1>1 DEF ChannelInv
<1>2. CASE ReadNotice
  BY <1>2 DEF ReadNotice, chans, data, shares, clients, ChannelInv, ShutdownInv,
              Active, Readers, ServerStarted
<1>3. CASE NewServer
  BY <1>3 DEF NewServer, chans, shares, sync, clients, ChannelInv, OpenInv, NoDataset,
              ServerStarted
<1>4. CASE TakeError
  BY <1>4 DEF TakeError, data, shares, sync, clients, ChannelInv
<1>5. CASE BeginShutdown
  BY <1>5 DEF BeginShutdown, NoLongerListening, data, shares, sync, clients,
                ServerStarted, ChannelInv
<1>6. CASE BeginSync
  BY <1>6 DEF BeginSync, main, chans, data, shares, clients, ChannelInv
<1>7. CASE CommitSync
  BY <1>7 DEF CommitSync, main, chans, data, shares, clients, Event, ChannelInv
<1>8. CASE SendSyncEvent
  BY <1>8 DEF SendSyncEvent, main, data, shares, clients, ChannelInv
<1>9. CASE UpdaterEnds
  BY <1>9 DEF UpdaterEnds, main, data, shares, clients, ChannelInv
<1>10. CASE ServerListens
  BY <1>10 DEF ServerListens, main, chans, data, shares, sync, clients, ChannelInv
<1>11. CASE ServerFails
  BY <1>11 DEF ServerFails, NoLongerListening, main, data, shares, sync, clients,
                ChannelInv
<1>12. CASE EndShutdown
  BY <1>12 DEF EndShutdown, chans, data, shares, sync, clients, ChannelInv, ShutdownInv
<1> QED
  BY <1>1, <1>2, <1>3, <1>4, <1>5, <1>6, <1>7, <1>8, <1>9, <1>10, <1>11,
     <1>12
  DEF Next, RunStep, vars, main, chans, data, shares, sync, clients, OpenShares,
      TakeEvent, LoadDataset, LoadFails, SwitchDataset, TakeSignal,
      ShutdownTimesOut, LockForClose, Close, Signal, CleanupDone, CleanupTick,
      CleanupEnds, Arrive, Lookup, FinishLookup, UseShares

(* Only a signal ends Run without an error.                                  *)
LEMMA VerdictInvStep == TypeOK /\ IInv /\ [Next]_vars => VerdictInv'
<1> SUFFICES ASSUME TypeOK, IInv, [Next]_vars
             PROVE  VerdictInv'
  OBVIOUS
<1> USE DEF IInv
<1>1. CASE UNCHANGED <<pc, verdict, signalled>>
  BY <1>1 DEF VerdictInv, Leaving
<1>2. CASE OpenShares
  BY <1>2 DEF OpenShares, chans, data, shares, sync, clients, VerdictInv, Leaving
<1>3. CASE ReadNotice
  BY <1>3 DEF ReadNotice, chans, data, shares, clients, VerdictInv, Leaving
<1>4. CASE TakeEvent
  BY <1>4 DEF TakeEvent, data, shares, sync, clients, ShouldLoadDataset, ServerStarted,
              VerdictInv, Leaving
<1>5. CASE LoadDataset
  BY <1>5 DEF LoadDataset, chans, shares, sync, clients, ServerStarted, VerdictInv,
              Leaving
<1>6. CASE LoadFails
  BY <1>6 DEF LoadFails, chans, shares, sync, clients, ServerStarted, VerdictInv,
              Leaving
<1>7. CASE SwitchDataset
  BY <1>7 DEF SwitchDataset, chans, shares, sync, clients, Readers, VerdictInv, Leaving
<1>8. CASE NewServer
  BY <1>8 DEF NewServer, chans, shares, sync, clients, VerdictInv, Leaving
<1>9. CASE TakeError
  BY <1>9 DEF TakeError, data, shares, sync, clients, VerdictInv, ShutdownInv,
              ChannelTypes, Leaving, Active, Readers, ServerStarted, TypeOK
<1>10. CASE TakeSignal
  BY <1>10 DEF TakeSignal, chans, data, shares, sync, clients, VerdictInv, Leaving
<1>11. CASE BeginShutdown
  BY <1>11 DEF BeginShutdown, data, shares, sync, clients, ServerStarted, VerdictInv,
               Leaving
<1>12. CASE EndShutdown
  BY <1>12 DEF EndShutdown, chans, data, shares, sync, clients, Active, VerdictInv,
               Leaving
<1>13. CASE ShutdownTimesOut
  BY <1>13 DEF ShutdownTimesOut, chans, data, shares, sync, clients, Active,
               VerdictInv, Leaving
<1>14. CASE LockForClose
  BY <1>14 DEF LockForClose, chans, data, shares, sync, clients, Readers, VerdictInv,
               Leaving
<1>15. CASE Close
  BY <1>15 DEF Close, chans, sync, clients, NoDataset, VerdictInv, Leaving
<1>16. CASE Signal
  BY <1>16 DEF Signal, chans, data, shares, sync, clients, VerdictInv, Leaving
<1> QED
  BY <1>1, <1>2, <1>3, <1>4, <1>5, <1>6, <1>7, <1>8, <1>9, <1>10, <1>11, <1>12, <1>13,
     <1>14, <1>15, <1>16
  DEF Next, RunStep, vars, main, chans, data, shares, sync, clients, BeginSync,
      CommitSync, SendSyncEvent, UpdaterEnds, ServerListens, ServerFails, CleanupDone,
      CleanupTick, CleanupEnds, Arrive, Lookup, FinishLookup, UseShares

(* No change is passed over.                                                 *)
LEMMA FreshInvStep == TypeOK /\ IInv /\ [Next]_vars => FreshInv'
<1> SUFFICES ASSUME TypeOK, IInv, [Next]_vars
             PROVE  FreshInv'
  OBVIOUS
<1> USE DEF IInv
<1>1. CASE UNCHANGED <<events, updater, outgoing, pc, seen, disk, next, dataset, server, loadFailed>>
  BY <1>1 DEF FreshInv, Pending, Relevant, ServerStarted, ShouldLoadDataset, Event
<1>2. CASE OpenShares
  BY <1>2 DEF OpenShares, chans, data, shares, sync, clients, FreshInv, Pending,
              Relevant, ServerStarted, ShouldLoadDataset, Event
<1>3. CASE ReadNotice
  BY <1>3 DEF ReadNotice, chans, data, shares, clients, FreshInv, ShutdownInv, Pending,
              Relevant, ServerStarted, ShouldLoadDataset, Event, Active, Readers
<1>4. CASE TakeEvent
  BY <1>4 DEF TakeEvent, data, shares, sync, clients, ShouldLoadDataset, ServerStarted,
              FreshInv, Pending, Relevant, Event
<1>5. CASE LoadDataset
  BY <1>5 DEF LoadDataset, chans, shares, sync, clients, ServerStarted, FreshInv,
              Pending, Relevant, ShouldLoadDataset, Event
<1>6. CASE LoadFails
  BY <1>6 DEF LoadFails, chans, shares, sync, clients, ServerStarted, FreshInv,
              Pending, Relevant, ShouldLoadDataset, Event
<1>7. CASE SwitchDataset
  BY <1>7 DEF SwitchDataset, chans, shares, sync, clients, Readers, FreshInv, Pending,
              Relevant, ServerStarted, ShouldLoadDataset, Event
<1>8. CASE NewServer
  BY <1>8 DEF NewServer, chans, shares, sync, clients, FreshInv, Pending, Relevant,
              ServerStarted, ShouldLoadDataset, Event
<1>9. CASE TakeError
  BY <1>9 DEF TakeError, data, shares, sync, clients, FreshInv, Pending, Relevant,
              ServerStarted, ShouldLoadDataset, Event
<1>10. CASE TakeSignal
  BY <1>10 DEF TakeSignal, chans, data, shares, sync, clients, FreshInv, Pending,
               Relevant, ServerStarted, ShouldLoadDataset, Event
<1>11. CASE BeginShutdown
  BY <1>11 DEF BeginShutdown, NoLongerListening, data, shares, sync, clients,
               ServerStarted, FreshInv, Pending, Relevant, ShouldLoadDataset, Event
<1>12. CASE EndShutdown
  BY <1>12 DEF EndShutdown, chans, data, shares, sync, clients, Active, FreshInv,
               ShutdownInv, Pending, Relevant, ServerStarted, ShouldLoadDataset, Event
<1>13. CASE ShutdownTimesOut
  BY <1>13 DEF ShutdownTimesOut, chans, data, shares, sync, clients, Active, FreshInv,
               Pending, Relevant, ServerStarted, ShouldLoadDataset, Event
<1>14. CASE LockForClose
  BY <1>14 DEF LockForClose, chans, data, shares, sync, clients, Readers, FreshInv,
               Pending, Relevant, ServerStarted, ShouldLoadDataset, Event
<1>15. CASE Close
  BY <1>15 DEF Close, chans, sync, clients, NoDataset, FreshInv, Pending, Relevant,
               ServerStarted, ShouldLoadDataset, Event
<1>16. CASE BeginSync
  BY <1>16 DEF BeginSync, main, chans, data, shares, clients, FreshInv, Pending,
               Relevant, ServerStarted, ShouldLoadDataset, Event
<1>17. CASE CommitSync
  BY <1>17 DEF CommitSync, main, chans, data, shares, clients, Event, FreshInv,
               Pending, Relevant, ServerStarted, ShouldLoadDataset
<1>18. CASE SendSyncEvent
  BY <1>18 DEF SendSyncEvent, main, data, shares, clients, FreshInv, Pending, Relevant,
               ServerStarted, ShouldLoadDataset, Event
<1>19. CASE UpdaterEnds
  BY <1>19 DEF UpdaterEnds, main, data, shares, clients, FreshInv, Pending, Relevant,
               ServerStarted, ShouldLoadDataset, Event
<1>20. CASE ServerListens
  BY <1>20 DEF ServerListens, main, chans, data, shares, sync, clients, FreshInv,
               Pending, Relevant, ServerStarted, ShouldLoadDataset, Event
<1>21. CASE ServerFails
  BY <1>21 DEF ServerFails, NoLongerListening, main, data, shares, sync, clients,
               FreshInv, Pending, Relevant, ServerStarted, ShouldLoadDataset, Event
<1> QED
  BY <1>1, <1>2, <1>3, <1>4, <1>5, <1>6, <1>7, <1>8, <1>9, <1>10, <1>11, <1>12, <1>13,
     <1>14, <1>15, <1>16, <1>17, <1>18, <1>19, <1>20, <1>21
  DEF Next, RunStep, vars, main, chans, data, shares, sync, clients, Signal,
      CleanupDone, CleanupTick, CleanupEnds, Arrive, Lookup, FinishLookup, UseShares

(* Nothing is gone while a request is waited for.                            *)
LEMMA LateStep == TypeOK /\ IInv /\ [Next]_vars => LateOnlyAfterTimeout'
<1> SUFFICES ASSUME TypeOK, IInv, [Next]_vars
             PROVE  LateOnlyAfterTimeout'
  OBVIOUS
<1> USE DEF IInv
<1>1. CASE UNCHANGED <<late, timedOut>>
  BY <1>1 DEF LateOnlyAfterTimeout, Active, Readers, ServerStarted, NoDataset
<1>2. CASE ShutdownTimesOut
  BY <1>2 DEF ShutdownTimesOut, chans, data, shares, sync, clients, Active,
              LateOnlyAfterTimeout, Readers, ServerStarted, NoDataset
<1>3. ASSUME NEW r \in Request, Lookup(r) PROVE LateOnlyAfterTimeout'
  <2>1. CASE dataset # NoDataset
    BY <2>1, <1>3 DEF Lookup, LateOnlyAfterTimeout
  <2>2. CASE dataset = NoDataset
    <3>1. dataset.id = 0
      BY <2>2 DEF NoDataset
    <3>2. ServerStarted
      BY <1>3 DEF Lookup, ReadersInv, Active
    <3>3. pc = "returned"
      BY <3>1, <3>2 DEF OpenInv
    <3> QED
      BY <1>3, <3>3 DEF Lookup, ShutdownInv, Active, LateOnlyAfterTimeout
  <2> QED
    BY <2>1, <2>2
<1>4. ASSUME NEW r \in Request, UseShares(r) PROVE LateOnlyAfterTimeout'
  BY <1>4 DEF UseShares, main, chans, data, shares, sync, SharesInv, ReadersInv,
              ShutdownInv, LateOnlyAfterTimeout, Active, Readers, ServerStarted,
              NoDataset
<1> QED
  BY <1>1, <1>2, <1>3, <1>4
  DEF Next, RunStep, vars, main, chans, data, shares, sync, clients, OpenShares,
      ReadNotice, TakeEvent, LoadDataset, LoadFails, SwitchDataset, NewServer,
      TakeError, TakeSignal, BeginShutdown, EndShutdown, LockForClose, Close, Signal,
      BeginSync, CommitSync, SendSyncEvent, UpdaterEnds, ServerListens, ServerFails,
      CleanupDone, CleanupTick, CleanupEnds, Arrive, FinishLookup

(* It holds at the start.                                                        *)
LEMMA InitInv == Init => IInv
BY DEF Init, IInv, SharesInv, OpenInv, ReadersInv, ShutdownInv, ChannelInv, VerdictInv,
       FreshInv, LateOnlyAfterTimeout, Leaving, NoDataset, Readers, Active, ServerStarted

(* The inductive invariant holds in every reachable state.                         *)
THEOREM InvariantHolds == Spec => []IInv
<1>1. TypeOK /\ IInv /\ [Next]_vars => IInv'
  BY TypeStep, SharesInvStep, OpenInvStep, ReadersInvStep, ShutdownInvStep, VerdictInvStep,
     ChannelInvStep, FreshInvStep, LateStep DEF IInv
<1> QED
  BY <1>1, TypeCorrect, InitInv, PTL DEF Spec

-----------------------------------------------------------------------------
(* What it implies *)

(* No dataset is closed under a lookup.                                          *)
THEOREM NoReaderOnClosedDataset == Spec => []ReadersSeeOpenDataset
<1>1. TypeOK /\ IInv => ReadersSeeOpenDataset
  BY DEF IInv, OpenInv, ReadersInv, ReadersSeeOpenDataset, Readers, Active,
         ServerStarted
<1> QED
  BY <1>1, TypeCorrect, InvariantHolds, PTL

(* The clean-up never runs on a closed store.                                     *)
THEOREM CleanupOnOpenStore == Spec => []CleanupSeesOpenStore
<1>1. IInv => CleanupSeesOpenStore
  BY DEF IInv, SharesInv, CleanupSeesOpenStore
<1> QED
  BY <1>1, InvariantHolds, PTL

(* A request meets a closed store or no dataset only after Shutdown gave up on one.    *)
THEOREM LateNeedsTimeout == Spec => []LateOnlyAfterTimeout
<1>1. IInv => LateOnlyAfterTimeout
  BY DEF IInv
<1> QED
  BY <1>1, InvariantHolds, PTL

(* Whichever way Run ends, all it opened is closed.                               *)
THEOREM RunClosesAll == Spec => []NothingLeftOpen
<1>1. IInv => NothingLeftOpen
  BY DEF IInv, SharesInv, OpenInv, NothingLeftOpen
<1> QED
  BY <1>1, InvariantHolds, PTL

(* The two goroutines that send on errCh always find room.                           *)
THEOREM ErrorsNeverBlock == Spec => []LastWordsFit
<1>1. TypeOK /\ IInv => LastWordsFit
  BY DEF TypeOK, ServiceTypes, IInv, ChannelInv, LastWordsFit
<1> QED
  BY <1>1, TypeCorrect, InvariantHolds, PTL

(* At rest the dataset served is what is on disk, unless its reload failed.           *)
THEOREM ServedIsLatest == Spec => []ServesLatest
<1>1. IInv => ServesLatest
  BY DEF IInv, FreshInv, Pending, ServesLatest
<1> QED
  BY <1>1, InvariantHolds, PTL

(* Without a signal Run always ends with an error.                                *)
THEOREM EndIsReported == Spec => []NoQuietEnd
<1>1. IInv => NoQuietEnd
  BY DEF IInv, VerdictInv, Leaving, NoQuietEnd
<1> QED
  BY <1>1, InvariantHolds, PTL

-----------------------------------------------------------------------------
(* Serving *)

(* A dataset of some versions has a newest one: the shortest of the finite intervals       *)
(* from a version to the last has no shorter one inside it.                             *)
LEMMA NewestVersion ==
  ASSUME NEW n \in Nat, NEW S, S \subseteq 0..n, S # {}
  PROVE  /\ Newest(S) \in S
         /\ \A w \in S : w <= Newest(S)
<1> DEFINE above == {v..n : v \in S}
<1>1. above \subseteq FiniteSubsetsOf(Nat)
  <2>1. ASSUME NEW v \in 0..n PROVE IsFiniteSet(v..n) /\ v..n \subseteq Nat
    <3>1. v \in Int /\ n \in Int
      OBVIOUS
    <3> QED
      BY <3>1, FS_Interval
  <2> QED
    BY <2>1 DEF FiniteSubsetsOf
<1>2. PICK w \in above : \A x \in above : <<x, w>> \notin StrictSubsetOrdering(Nat)
  <2>1. above # {}
    OBVIOUS
  <2> HIDE DEF above
  <2>2. IsWellFoundedOn(StrictSubsetOrdering(Nat), FiniteSubsetsOf(Nat))
    BY FS_StrictSubsetOrderingWellFounded
  <2> QED
    BY <1>1, <2>1, <2>2, WFMin
<1>3. PICK m \in S : w = m..n
  OBVIOUS
<1>4. ASSUME NEW v \in S, m < v PROVE FALSE
  <2>1. v..n \subseteq m..n /\ v..n # m..n
    <3>1. m \in 0..n /\ v \in 0..n /\ m \in m..n /\ m \notin v..n
      BY <1>4
    <3> QED
      BY <1>4, <3>1
  <2>2. <<v..n, m..n>> \in StrictSubsetOrdering(Nat)
    BY <2>1 DEF StrictSubsetOrdering
  <2> QED
    BY <1>2, <1>3, <2>2
<1>5. \A v \in S : v <= m
  BY <1>4
<1> QED
  BY <1>5 DEF Newest

(* Every step keeps the versions in order.                                       *)
LEMMA VersionsInvStep == TypeOK /\ IInv /\ VersionsInv /\ [Next]_vars => VersionsInv'
<1> SUFFICES ASSUME TypeOK, IInv, VersionsInv, [Next]_vars
             PROVE  VersionsInv'
  OBVIOUS
<1>0. disk \in Nat /\ dataset.of \subseteq Nat /\ seen \subseteq Nat /\ next.of \subseteq Nat
  BY DEF TypeOK, DatasetTypes
<1>1. CASE UNCHANGED <<dataset, disk>> /\ pc' \notin {"loading", "switching"}
  BY <1>1 DEF VersionsInv
<1>2. CASE UNCHANGED <<pc, dataset, next, seen, disk>>
  BY <1>2 DEF VersionsInv, NoneOlder
<1>3. CASE TakeEvent
  <2>1. UNCHANGED <<dataset, next, disk>>
    BY <1>3 DEF TakeEvent, data, sync
  <2>2. CASE pc' = "loading" /\ seen' = {disk}
    <3>1. NoneOlder({disk})
      BY <1>0 DEF VersionsInv, NoneOlder
    <3> QED
      BY <2>1, <2>2, <3>1 DEF VersionsInv, NoneOlder
  <2> QED
    BY <1>2, <1>3, <2>1, <2>2 DEF TakeEvent
<1>4. CASE LoadDataset
  <2> DEFINE ds == [id |-> loads + 1, of |-> seen]
  <2>1. pc = "loading" /\ disk' = disk /\ seen' = seen
    BY <1>4 DEF LoadDataset, sync
  <2>2. NoneOlder(seen)
    BY <2>1 DEF VersionsInv
  <2>3. CASE pc' = "switching" /\ next' = ds /\ dataset' = dataset
    BY <2>1, <2>2, <2>3 DEF VersionsInv, NoneOlder
  <2>4. CASE pc' = "creating" /\ dataset' = ds
    <3>1. dataset'.of = seen /\ dataset' # NoDataset
      BY <2>2, <2>4 DEF NoDataset, NoneOlder
    <3> QED
      BY <2>1, <2>2, <2>4, <3>1 DEF VersionsInv, NoneOlder
  <2> QED
    BY <1>4, <2>3, <2>4 DEF LoadDataset
<1>5. CASE SwitchDataset
  <2>1. /\ pc = "switching" /\ pc' \notin {"loading", "switching"} /\ dataset' = next
        /\ disk' = disk
    BY <1>5 DEF SwitchDataset, sync
  <2>2. NoneOlder(next.of) /\ next # NoDataset
    BY <2>1 DEF VersionsInv, NoneOlder, NoDataset
  <2> QED
    BY <2>1, <2>2 DEF VersionsInv, NoneOlder
<1>6. CASE Close
  BY <1>6 DEF Close, NoDataset, VersionsInv
<1>7. CASE CommitSync
  <2>1. /\ UNCHANGED <<pc, dataset, next>> /\ disk' \in {disk, disk + 1}
        /\ seen' = IF pc = "loading" THEN seen \cup {disk'} ELSE seen
    BY <1>7 DEF CommitSync, main, data
  <2>2. 0..disk \subseteq 0..disk' /\ disk' \in 0..disk'
    BY <1>0, <2>1
  <2>3. \A w \in dataset.of : w <= disk'
    BY <1>0, <2>1 DEF VersionsInv
  <2> QED
    BY <2>1, <2>2, <2>3 DEF VersionsInv, NoneOlder
<1>8. CASE OpenShares
  BY <1>1, <1>8 DEF OpenShares, data, sync
<1>9. CASE ReadNotice
  BY <1>1, <1>9 DEF ReadNotice, data
<1>10. CASE LoadFails
  BY <1>1, <1>10 DEF LoadFails, sync
<1>11. CASE NewServer
  BY <1>1, <1>11 DEF NewServer, sync
<1>12. CASE TakeError \/ TakeSignal \/ BeginShutdown \/ EndShutdown \/ ShutdownTimesOut \/ LockForClose
  BY <1>1, <1>12 DEF TakeError, TakeSignal, BeginShutdown, EndShutdown, ShutdownTimesOut,
                     LockForClose, data, sync
<1> QED
  BY <1>2, <1>3, <1>4, <1>5, <1>6, <1>7, <1>8, <1>9, <1>10, <1>11, <1>12
  DEF Next, RunStep, vars, main, chans, data, shares, sync, clients, Signal, BeginSync,
      SendSyncEvent, UpdaterEnds, ServerListens, ServerFails, CleanupDone, CleanupTick,
      CleanupEnds, Arrive, Lookup, FinishLookup, UseShares

(* What a step can do to what the clients see: nothing, while the server is not started,   *)
(* or stays up with its dataset, or once Run has returned; start to serve; switch to       *)
(* another dataset; or end.                                                     *)
LEMMA ServingSteps ==
  ASSUME TypeOK, IInv, [Next]_vars
  PROVE  \/ UNCHANGED <<ServerStarted, dataset, pc = "returned">>
         \/ ~ServerStarted /\ ~ServerStarted' /\ pc # "returned" /\ pc' # "returned"
         \/ NewServer /\ ServerStarted'
         \/ SwitchDataset
         \/ pc # "returned" /\ pc' = "returned" /\ dataset' = NoDataset
<1> USE DEF IInv
<1>1. CASE UNCHANGED <<pc, server, dataset>>
  BY <1>1 DEF ServerStarted
<1>2. CASE OpenShares
  BY <1>2 DEF OpenShares, data, OpenInv, ShutdownInv, ServerStarted
<1>3. CASE LoadDataset
  BY <1>3 DEF LoadDataset, ServerStarted
<1>4. CASE NewServer
  BY <1>4 DEF NewServer, ServerStarted
<1>5. CASE BeginShutdown
  BY <1>5 DEF BeginShutdown, NoLongerListening, data, ServerStarted
<1>6. CASE Close
  BY <1>6 DEF Close
<1>7. CASE ServerListens \/ ServerFails
  BY <1>7 DEF ServerListens, ServerFails, NoLongerListening, main, data, ServerStarted
<1>8. CASE ReadNotice \/ LoadFails \/ TakeEvent
  BY <1>8 DEF ReadNotice, LoadFails, TakeEvent, data, ServerStarted
<1>9. CASE EndShutdown \/ ShutdownTimesOut \/ LockForClose \/ TakeError \/ TakeSignal
  BY <1>9 DEF EndShutdown, ShutdownTimesOut, LockForClose, TakeError, TakeSignal, data,
              ShutdownInv, ServerStarted
<1> QED
  BY <1>1, <1>2, <1>3, <1>4, <1>5, <1>6, <1>7, <1>8, <1>9
  DEF Next, RunStep, vars, main, chans, data, shares, sync, clients, Signal, BeginSync,
      CommitSync, SendSyncEvent, UpdaterEnds, CleanupDone, CleanupTick, CleanupEnds,
      Arrive, Lookup, FinishLookup, UseShares

(* The manager implements Serving: once it serves it serves until it stops, and never      *)
(* data older than before.                                                      *)
THEOREM ImplementsServing == Spec => KeepsServing
<1> DEFINE serves == ServerStarted /\ dataset # NoDataset
           mode == IF pc = "returned" THEN "stopped"
                   ELSE IF ServerStarted /\ dataset # NoDataset THEN "serving" ELSE "starting"
           newest == IF ServerStarted /\ dataset # NoDataset THEN Newest(dataset.of) ELSE 0
<1>1. Init => VersionsInv
  BY DEF Init, NoDataset, VersionsInv
<1>2. Init => Clients!Init
  BY DEF Init, ServerStarted, Clients!Init
<1>3. TypeOK /\ TypeOK' /\ IInv /\ IInv' /\ VersionsInv /\ VersionsInv' /\ [Next]_vars
        => [Clients!Next]_<<mode, newest>>
  <2> SUFFICES ASSUME TypeOK, TypeOK', IInv, IInv', VersionsInv, VersionsInv', [Next]_vars
               PROVE  Clients!Next \/ (mode' = mode /\ newest' = newest)
    OBVIOUS
  <2>1. CASE UNCHANGED <<ServerStarted, dataset, pc = "returned">>
    BY <2>1
  <2>2. CASE ~ServerStarted /\ ~ServerStarted' /\ pc # "returned" /\ pc' # "returned"
    BY <2>2
  <2>3. CASE NewServer /\ ServerStarted'
    <3>1. /\ pc = "creating" /\ ~ServerStarted /\ dataset' = dataset /\ pc' # "returned"
          /\ dataset # NoDataset
      BY <2>3 DEF NewServer, ServerStarted, IInv, OpenInv, NoDataset
    <3>2. mode = "starting" /\ mode' = "serving" /\ newest' = Newest(dataset.of)
      BY <2>3, <3>1
    <3>3. disk \in Nat /\ dataset.of \subseteq 0..disk /\ dataset.of # {}
      BY <3>1 DEF TypeOK, DatasetTypes, VersionsInv
    <3>4. Newest(dataset.of) \in Nat
      BY <3>3, NewestVersion
    <3> QED
      BY <3>2, <3>4 DEF Clients!Next, Clients!StartServing
  <2>4. CASE SwitchDataset
    <3>1. /\ pc = "switching" /\ pc' # "returned" /\ dataset' = next
          /\ ServerStarted /\ ServerStarted' /\ dataset # NoDataset
      BY <2>4 DEF SwitchDataset, ServerStarted, IInv, OpenInv, NoDataset
    <3>2. NoneOlder(next.of) /\ disk \in Nat /\ dataset.of \subseteq 0..disk /\ dataset.of # {}
      BY <3>1 DEF TypeOK, DatasetTypes, VersionsInv
    <3>3. next # NoDataset
      BY <3>2 DEF NoneOlder, NoDataset
    <3>4. mode = "serving" /\ mode' = "serving"
          /\ newest = Newest(dataset.of) /\ newest' = Newest(next.of)
      BY <3>1, <3>3
    <3>5. Newest(dataset.of) \in dataset.of
      BY <3>2, NewestVersion
    <3>6. Newest(next.of) \in next.of /\ next.of \subseteq 0..disk
      BY <3>2, NewestVersion DEF NoneOlder
    <3>7. Newest(dataset.of) <= Newest(next.of)
      BY <3>2, <3>5, <3>6 DEF NoneOlder
    <3> QED
      BY <3>2, <3>4, <3>5, <3>6, <3>7 DEF Clients!Next, Clients!Reload
  <2>5. CASE pc # "returned" /\ pc' = "returned" /\ dataset' = NoDataset
    <3>1. mode # "stopped" /\ mode' = "stopped" /\ newest' = 0
      BY <2>5
    <3> QED
      BY <3>1 DEF Clients!Next, Clients!Stop
  <2> QED
    BY <2>1, <2>2, <2>3, <2>4, <2>5, ServingSteps
<1>4. Spec => []VersionsInv
  BY <1>1, VersionsInvStep, TypeCorrect, InvariantHolds, PTL DEF Spec
<1> QED
  BY <1>2, <1>3, <1>4, TypeCorrect, InvariantHolds, PTL DEF Spec, KeepsServing, Clients!Spec
=============================================================================
