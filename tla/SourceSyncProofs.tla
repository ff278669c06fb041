-------------------------- MODULE SourceSyncProofs --------------------------
(***************************************************************************)
(* The safety of a commit for any number of sources, then that of one sync      *)
(* after another, for any sets of sources, numbers of workers, attempts,          *)
(* versions and syncs.  The pool keeps the invariant job by job; it hands over    *)
(* to the commit in one of StorageTxn's initial states; from there the lemmas      *)
(* about StorageTxn carry on; and whatever a sync or a crash leaves, the next       *)
(* sync starts from states the invariant describes.                          *)
(***************************************************************************)
EXTENDS SourceSyncInvariant, FiniteSetTheorems, SequenceTheorems, WellFoundedInduction, TLAPS

-----------------------------------------------------------------------------
(* A commit: the types *)

(* Every step of a commit keeps the types of its variables.                     *)
LEMMA TypeStep == TypeOK /\ [Next]_vars => TypeOK'
<1> SUFFICES ASSUME TypeOK, [Next]_vars
             PROVE  TypeOK'
  OBVIOUS
<1> USE DEF TypeOK, Steps, plan, store
<1>1. ASSUME NEW i \in Source, PrepareFails(i) PROVE TypeOK'
  BY <1>1 DEF PrepareFails, DropTemp
<1>2. ASSUME NEW i \in Source, MoveAside(i) PROVE TypeOK'
  BY <1>2 DEF MoveAside
<1>3. ASSUME NEW i \in Source, NothingToMove(i) PROVE TypeOK'
  BY <1>3 DEF NothingToMove
<1>4. CASE LogUndo
  BY <1>4 DEF LogUndo
<1>5. CASE AsideSyncFails
  BY <1>5 DEF AsideSyncFails
<1>6. CASE Restore
  BY <1>6 DEF Restore, DropTemp
<1>7. CASE RestoreFails
  BY <1>7 DEF RestoreFails, DropTemp
<1>8. CASE Place
  BY <1>8 DEF Place
<1>9. CASE PlaceFails
  BY <1>9 DEF PlaceFails, DropTemp
<1>10. CASE PlaceSynced
  BY <1>10 DEF PlaceSynced
<1>11. CASE SaveState
  BY <1>11 DEF SaveState
<1>12. CASE SaveFails
  BY <1>12 DEF SaveFails
<1>13. CASE SaveSynced
  BY <1>13 DEF SaveSynced
<1>14. ASSUME NEW i \in Source, Finalize(i) PROVE TypeOK'
  BY <1>14 DEF Finalize
<1>15. CASE FinalizeDone
  BY <1>15 DEF FinalizeDone
<1>16. ASSUME NEW i \in Source, Undo(i) PROVE TypeOK'
  BY <1>16 DEF Undo
<1>17. ASSUME NEW i \in Source, UndoFails(i) PROVE TypeOK'
  BY <1>17 DEF UndoFails
<1>18. CASE RollbackDone
  BY <1>18 DEF RollbackDone
<1>19. CASE Cleanup
  BY <1>19 DEF Cleanup
<1>20. CASE Crash
  BY <1>20 DEF Crash
<1>21. CASE UNCHANGED vars
  BY <1>21 DEF vars
<1> QED
  BY <1>1, <1>2, <1>3, <1>4, <1>5, <1>6, <1>7, <1>8, <1>9, <1>10, <1>11, <1>12, <1>13, <1>14, <1>15, <1>16, <1>17, <1>18, <1>19, <1>20, <1>21 DEF Next, Run

(* The variables of a commit keep their types, for any set of sources.            *)
THEOREM TypeCorrect == Spec => []TypeOK
<1>1. Init => TypeOK
  BY DEF Init, TypeOK, Before, Steps
<1> QED
  BY <1>1, TypeStep, PTL DEF Spec

-----------------------------------------------------------------------------
(* A commit: the inductive invariant *)

(* A commit starts with everything untouched.                                   *)
LEMMA InitInv == Init => IInv
BY DEF Init, IInv, PlanInv, CurrentInv, UntouchedInv, Untouched, LoggedInv,
       ForwardInv, BackwardInv, FinalizeInv, VerdictInv, OldCopyKept,
       Planned, Forward, Backward, InHand, Before, After

(* Every step keeps the invariant.                                             *)
LEMMA InvStep == TypeOK /\ IInv /\ [Next]_vars => IInv'
<1> SUFFICES ASSUME TypeOK, IInv, [Next]_vars
             PROVE  IInv'
  OBVIOUS
<1> USE DEF TypeOK, Steps, plan, store, Planned, Forward, Backward, InHand,
            Before, After, Untouched
<1>1. ASSUME NEW i \in Source, PrepareFails(i) PROVE IInv'
  <2>1. PlanInv'
    BY <1>1 DEF PrepareFails, DropTemp, IInv, PlanInv
  <2>2. CurrentInv'
    BY <1>1 DEF PrepareFails, DropTemp, IInv, CurrentInv
  <2>3. UntouchedInv'
    BY <1>1 DEF PrepareFails, DropTemp, IInv, UntouchedInv
  <2>4. LoggedInv'
    BY <1>1 DEF PrepareFails, DropTemp, IInv, LoggedInv
  <2>5. ForwardInv'
    BY <1>1 DEF PrepareFails, DropTemp, IInv, ForwardInv
  <2>6. BackwardInv'
    BY <1>1 DEF PrepareFails, DropTemp, IInv, ForwardInv, BackwardInv
  <2>7. FinalizeInv'
    BY <1>1 DEF PrepareFails, DropTemp, IInv, FinalizeInv
  <2>8. VerdictInv'
    BY <1>1 DEF PrepareFails, DropTemp, IInv, VerdictInv
  <2>9. OldCopyKept'
    BY <1>1 DEF PrepareFails, DropTemp, IInv, OldCopyKept
  <2> QED
    BY <2>1, <2>2, <2>3, <2>4, <2>5, <2>6, <2>7, <2>8, <2>9 DEF IInv
<1>2. ASSUME NEW i \in Source, MoveAside(i) PROVE IInv'
  <2>1. PlanInv'
    BY <1>2 DEF MoveAside, IInv, PlanInv
  <2>2. CurrentInv'
    BY <1>2 DEF MoveAside, IInv, PlanInv, CurrentInv, UntouchedInv
  <2>3. UntouchedInv'
    BY <1>2 DEF MoveAside, IInv, PlanInv, UntouchedInv
  <2>4. LoggedInv'
    BY <1>2 DEF MoveAside, IInv, UntouchedInv, LoggedInv
  <2>5. ForwardInv'
    BY <1>2 DEF MoveAside, IInv, UntouchedInv, LoggedInv, ForwardInv
  <2>6. BackwardInv'
    BY <1>2 DEF MoveAside, IInv, BackwardInv
  <2>7. FinalizeInv'
    BY <1>2 DEF MoveAside, IInv, FinalizeInv
  <2>8. VerdictInv'
    BY <1>2 DEF MoveAside, IInv, VerdictInv
  <2>9. OldCopyKept'
    BY <1>2 DEF MoveAside, IInv, OldCopyKept
  <2> QED
    BY <2>1, <2>2, <2>3, <2>4, <2>5, <2>6, <2>7, <2>8, <2>9 DEF IInv
<1>3. ASSUME NEW i \in Source, NothingToMove(i) PROVE IInv'
  <2>1. PlanInv'
    BY <1>3 DEF NothingToMove, IInv, PlanInv
  <2>2. CurrentInv'
    BY <1>3 DEF NothingToMove, IInv, PlanInv, CurrentInv, UntouchedInv
  <2>3. UntouchedInv'
    BY <1>3 DEF NothingToMove, IInv, UntouchedInv
  <2>4. LoggedInv'
    BY <1>3 DEF NothingToMove, IInv, UntouchedInv, LoggedInv
  <2>5. ForwardInv'
    BY <1>3 DEF NothingToMove, IInv, ForwardInv
  <2>6. BackwardInv'
    BY <1>3 DEF NothingToMove, IInv, BackwardInv
  <2>7. FinalizeInv'
    BY <1>3 DEF NothingToMove, IInv, FinalizeInv
  <2>8. VerdictInv'
    BY <1>3 DEF NothingToMove, IInv, VerdictInv
  <2>9. OldCopyKept'
    BY <1>3 DEF NothingToMove, IInv, OldCopyKept
  <2> QED
    BY <2>1, <2>2, <2>3, <2>4, <2>5, <2>6, <2>7, <2>8, <2>9 DEF IInv
<1>4. CASE LogUndo
  <2>1. PlanInv'
    BY <1>4 DEF LogUndo, IInv, PlanInv, CurrentInv
  <2>2. CurrentInv'
    BY <1>4 DEF LogUndo, IInv, CurrentInv
  <2>3. UntouchedInv'
    BY <1>4 DEF LogUndo, IInv, UntouchedInv
  <2>4. LoggedInv'
    BY <1>4 DEF LogUndo, IInv, CurrentInv, LoggedInv
  <2>5. ForwardInv'
    BY <1>4 DEF LogUndo, IInv, CurrentInv, ForwardInv
  <2>6. BackwardInv'
    BY <1>4 DEF LogUndo, IInv, BackwardInv
  <2>7. FinalizeInv'
    BY <1>4 DEF LogUndo, IInv, FinalizeInv
  <2>8. VerdictInv'
    BY <1>4 DEF LogUndo, IInv, VerdictInv
  <2>9. OldCopyKept'
    BY <1>4 DEF LogUndo, IInv, OldCopyKept
  <2> QED
    BY <2>1, <2>2, <2>3, <2>4, <2>5, <2>6, <2>7, <2>8, <2>9 DEF IInv
<1>5. CASE AsideSyncFails
  <2>1. PlanInv'
    BY <1>5 DEF AsideSyncFails, IInv, PlanInv
  <2>2. CurrentInv'
    BY <1>5 DEF AsideSyncFails, IInv, CurrentInv
  <2>3. UntouchedInv'
    BY <1>5 DEF AsideSyncFails, IInv, UntouchedInv
  <2>4. LoggedInv'
    BY <1>5 DEF AsideSyncFails, IInv, LoggedInv
  <2>5. ForwardInv'
    BY <1>5 DEF AsideSyncFails, IInv, ForwardInv
  <2>6. BackwardInv'
    BY <1>5 DEF AsideSyncFails, IInv, ForwardInv, BackwardInv
  <2>7. FinalizeInv'
    BY <1>5 DEF AsideSyncFails, IInv, FinalizeInv
  <2>8. VerdictInv'
    BY <1>5 DEF AsideSyncFails, IInv, VerdictInv
  <2>9. OldCopyKept'
    BY <1>5 DEF AsideSyncFails, IInv, OldCopyKept
  <2> QED
    BY <2>1, <2>2, <2>3, <2>4, <2>5, <2>6, <2>7, <2>8, <2>9 DEF IInv
<1>6. CASE Restore
  <2>1. PlanInv'
    BY <1>6 DEF Restore, DropTemp, IInv, PlanInv
  <2>2. CurrentInv'
    BY <1>6 DEF Restore, DropTemp, IInv, CurrentInv
  <2>3. UntouchedInv'
    BY <1>6 DEF Restore, DropTemp, IInv, CurrentInv, UntouchedInv
  <2>4. LoggedInv'
    BY <1>6 DEF Restore, DropTemp, IInv, CurrentInv, LoggedInv
  <2>5. ForwardInv'
    BY <1>6 DEF Restore, DropTemp, IInv, ForwardInv
  <2>6. BackwardInv'
    BY <1>6 DEF Restore, DropTemp, IInv, CurrentInv, BackwardInv
  <2>7. FinalizeInv'
    BY <1>6 DEF Restore, DropTemp, IInv, FinalizeInv
  <2>8. VerdictInv'
    BY <1>6 DEF Restore, DropTemp, IInv, VerdictInv
  <2>9. OldCopyKept'
    BY <1>6 DEF Restore, DropTemp, IInv, OldCopyKept
  <2> QED
    BY <2>1, <2>2, <2>3, <2>4, <2>5, <2>6, <2>7, <2>8, <2>9 DEF IInv
<1>7. CASE RestoreFails
  <2>1. PlanInv'
    BY <1>7 DEF RestoreFails, DropTemp, IInv, PlanInv
  <2>2. CurrentInv'
    BY <1>7 DEF RestoreFails, DropTemp, IInv, CurrentInv
  <2>3. UntouchedInv'
    BY <1>7 DEF RestoreFails, DropTemp, IInv, UntouchedInv
  <2>4. LoggedInv'
    BY <1>7 DEF RestoreFails, DropTemp, IInv, LoggedInv
  <2>5. ForwardInv'
    BY <1>7 DEF RestoreFails, DropTemp, IInv, ForwardInv
  <2>6. BackwardInv'
    BY <1>7 DEF RestoreFails, DropTemp, IInv, BackwardInv
  <2>7. FinalizeInv'
    BY <1>7 DEF RestoreFails, DropTemp, IInv, FinalizeInv
  <2>8. VerdictInv'
    BY <1>7 DEF RestoreFails, DropTemp, IInv, VerdictInv
  <2>9. OldCopyKept'
    BY <1>7 DEF RestoreFails, DropTemp, IInv, OldCopyKept
  <2> QED
    BY <2>1, <2>2, <2>3, <2>4, <2>5, <2>6, <2>7, <2>8, <2>9 DEF IInv
<1>8. CASE Place
  <2>1. PlanInv'
    BY <1>8 DEF Place, IInv, PlanInv
  <2>2. CurrentInv'
    BY <1>8 DEF Place, IInv, CurrentInv
  <2>3. UntouchedInv'
    BY <1>8 DEF Place, IInv, PlanInv, CurrentInv, UntouchedInv
  <2>4. LoggedInv'
    BY <1>8 DEF Place, IInv, PlanInv, CurrentInv, LoggedInv
  <2>5. ForwardInv'
    BY <1>8 DEF Place, IInv, CurrentInv, ForwardInv
  <2>6. BackwardInv'
    BY <1>8 DEF Place, IInv, BackwardInv
  <2>7. FinalizeInv'
    BY <1>8 DEF Place, IInv, FinalizeInv
  <2>8. VerdictInv'
    BY <1>8 DEF Place, IInv, VerdictInv
  <2>9. OldCopyKept'
    BY <1>8 DEF Place, IInv, CurrentInv, OldCopyKept
  <2> QED
    BY <2>1, <2>2, <2>3, <2>4, <2>5, <2>6, <2>7, <2>8, <2>9 DEF IInv
<1>9. CASE PlaceFails
  <2>1. PlanInv'
    BY <1>9 DEF PlaceFails, DropTemp, IInv, PlanInv
  <2>2. CurrentInv'
    BY <1>9 DEF PlaceFails, DropTemp, IInv, CurrentInv
  <2>3. UntouchedInv'
    BY <1>9 DEF PlaceFails, DropTemp, IInv, UntouchedInv
  <2>4. LoggedInv'
    BY <1>9 DEF PlaceFails, DropTemp, IInv, LoggedInv
  <2>5. ForwardInv'
    BY <1>9 DEF PlaceFails, DropTemp, IInv, ForwardInv
  <2>6. BackwardInv'
    BY <1>9 DEF PlaceFails, DropTemp, IInv, ForwardInv, BackwardInv
  <2>7. FinalizeInv'
    BY <1>9 DEF PlaceFails, DropTemp, IInv, FinalizeInv
  <2>8. VerdictInv'
    BY <1>9 DEF PlaceFails, DropTemp, IInv, VerdictInv
  <2>9. OldCopyKept'
    BY <1>9 DEF PlaceFails, DropTemp, IInv, OldCopyKept
  <2> QED
    BY <2>1, <2>2, <2>3, <2>4, <2>5, <2>6, <2>7, <2>8, <2>9 DEF IInv
<1>10. CASE PlaceSynced
  <2>1. PlanInv'
    BY <1>10 DEF PlaceSynced, IInv, PlanInv
  <2>2. CurrentInv'
    BY <1>10 DEF PlaceSynced, IInv, CurrentInv
  <2>3. UntouchedInv'
    BY <1>10 DEF PlaceSynced, IInv, UntouchedInv
  <2>4. LoggedInv'
    BY <1>10 DEF PlaceSynced, IInv, LoggedInv
  <2>5. ForwardInv'
    BY <1>10 DEF PlaceSynced, IInv, ForwardInv
  <2>6. BackwardInv'
    BY <1>10 DEF PlaceSynced, IInv, ForwardInv, BackwardInv
  <2>7. FinalizeInv'
    BY <1>10 DEF PlaceSynced, IInv, FinalizeInv
  <2>8. VerdictInv'
    BY <1>10 DEF PlaceSynced, IInv, VerdictInv
  <2>9. OldCopyKept'
    BY <1>10 DEF PlaceSynced, IInv, OldCopyKept
  <2> QED
    BY <2>1, <2>2, <2>3, <2>4, <2>5, <2>6, <2>7, <2>8, <2>9 DEF IInv
<1>11. CASE SaveState
  <2>1. PlanInv'
    BY <1>11 DEF SaveState, IInv, PlanInv
  <2>2. CurrentInv'
    BY <1>11 DEF SaveState, IInv, CurrentInv
  <2>3. UntouchedInv'
    BY <1>11 DEF SaveState, IInv, UntouchedInv
  <2>4. LoggedInv'
    BY <1>11 DEF SaveState, IInv, LoggedInv
  <2>5. ForwardInv'
    BY <1>11 DEF SaveState, IInv, ForwardInv
  <2>6. BackwardInv'
    BY <1>11 DEF SaveState, IInv, BackwardInv
  <2>7. FinalizeInv'
    BY <1>11 DEF SaveState, IInv, FinalizeInv
  <2>8. VerdictInv'
    BY <1>11 DEF SaveState, IInv, VerdictInv
  <2>9. OldCopyKept'
    BY <1>11 DEF SaveState, IInv, OldCopyKept
  <2> QED
    BY <2>1, <2>2, <2>3, <2>4, <2>5, <2>6, <2>7, <2>8, <2>9 DEF IInv
<1>12. CASE SaveFails
  <2>1. PlanInv'
    BY <1>12 DEF SaveFails, IInv, PlanInv
  <2>2. CurrentInv'
    BY <1>12 DEF SaveFails, IInv, CurrentInv
  <2>3. UntouchedInv'
    BY <1>12 DEF SaveFails, IInv, UntouchedInv
  <2>4. LoggedInv'
    BY <1>12 DEF SaveFails, IInv, LoggedInv
  <2>5. ForwardInv'
    BY <1>12 DEF SaveFails, IInv, ForwardInv
  <2>6. BackwardInv'
    BY <1>12 DEF SaveFails, IInv, ForwardInv, BackwardInv
  <2>7. FinalizeInv'
    BY <1>12 DEF SaveFails, IInv, FinalizeInv
  <2>8. VerdictInv'
    BY <1>12 DEF SaveFails, IInv, VerdictInv
  <2>9. OldCopyKept'
    BY <1>12 DEF SaveFails, IInv, OldCopyKept
  <2> QED
    BY <2>1, <2>2, <2>3, <2>4, <2>5, <2>6, <2>7, <2>8, <2>9 DEF IInv
<1>13. CASE SaveSynced
  <2>1. PlanInv'
    BY <1>13 DEF SaveSynced, IInv, PlanInv
  <2>2. CurrentInv'
    BY <1>13 DEF SaveSynced, IInv, CurrentInv
  <2>3. UntouchedInv'
    BY <1>13 DEF SaveSynced, IInv, UntouchedInv
  <2>4. LoggedInv'
    BY <1>13 DEF SaveSynced, IInv, LoggedInv
  <2>5. ForwardInv'
    BY <1>13 DEF SaveSynced, IInv, ForwardInv
  <2>6. BackwardInv'
    BY <1>13 DEF SaveSynced, IInv, ForwardInv, BackwardInv
  <2>7. FinalizeInv'
    BY <1>13 DEF SaveSynced, IInv, UntouchedInv, ForwardInv, FinalizeInv
  <2>8. VerdictInv'
    BY <1>13 DEF SaveSynced, IInv, VerdictInv
  <2>9. OldCopyKept'
    BY <1>13 DEF SaveSynced, IInv, OldCopyKept
  <2> QED
    BY <2>1, <2>2, <2>3, <2>4, <2>5, <2>6, <2>7, <2>8, <2>9 DEF IInv
<1>14. ASSUME NEW i \in Source, Finalize(i) PROVE IInv'
  <2>1. PlanInv'
    BY <1>14 DEF Finalize, IInv, PlanInv
  <2>2. CurrentInv'
    BY <1>14 DEF Finalize, IInv, CurrentInv
  <2>3. UntouchedInv'
    BY <1>14 DEF Finalize, IInv, UntouchedInv
  <2>4. LoggedInv'
    BY <1>14 DEF Finalize, IInv, LoggedInv
  <2>5. ForwardInv'
    BY <1>14 DEF Finalize, IInv, ForwardInv
  <2>6. BackwardInv'
    BY <1>14 DEF Finalize, IInv, BackwardInv
  <2>7. FinalizeInv'
    BY <1>14 DEF Finalize, IInv, FinalizeInv
  <2>8. VerdictInv'
    BY <1>14 DEF Finalize, IInv, VerdictInv
  <2>9. OldCopyKept'
    BY <1>14 DEF Finalize, IInv, FinalizeInv, OldCopyKept
  <2> QED
    BY <2>1, <2>2, <2>3, <2>4, <2>5, <2>6, <2>7, <2>8, <2>9 DEF IInv
<1>15. CASE FinalizeDone
  <2>1. PlanInv'
    BY <1>15 DEF FinalizeDone, IInv, PlanInv
  <2>2. CurrentInv'
    BY <1>15 DEF FinalizeDone, IInv, CurrentInv
  <2>3. UntouchedInv'
    BY <1>15 DEF FinalizeDone, IInv, UntouchedInv
  <2>4. LoggedInv'
    BY <1>15 DEF FinalizeDone, IInv, LoggedInv
  <2>5. ForwardInv'
    BY <1>15 DEF FinalizeDone, IInv, ForwardInv
  <2>6. BackwardInv'
    BY <1>15 DEF FinalizeDone, IInv, BackwardInv
  <2>7. FinalizeInv'
    BY <1>15 DEF FinalizeDone, IInv, FinalizeInv
  <2>8. VerdictInv'
    BY <1>15 DEF FinalizeDone, IInv, FinalizeInv, VerdictInv
  <2>9. OldCopyKept'
    BY <1>15 DEF FinalizeDone, IInv, OldCopyKept
  <2> QED
    BY <2>1, <2>2, <2>3, <2>4, <2>5, <2>6, <2>7, <2>8, <2>9 DEF IInv
<1>16. ASSUME NEW i \in Source, Undo(i) PROVE IInv'
  <2>1. PlanInv'
    BY <1>16 DEF Undo, IInv, PlanInv
  <2>2. CurrentInv'
    BY <1>16 DEF Undo, IInv, CurrentInv, UntouchedInv, LoggedInv
  <2>3. UntouchedInv'
    BY <1>16 DEF Undo, IInv, UntouchedInv, LoggedInv
  <2>4. LoggedInv'
    BY <1>16 DEF Undo, IInv, LoggedInv
  <2>5. ForwardInv'
    BY <1>16 DEF Undo, IInv, ForwardInv
  <2>6. BackwardInv'
    BY <1>16 DEF Undo, IInv, LoggedInv, BackwardInv
  <2>7. FinalizeInv'
    BY <1>16 DEF Undo, IInv, FinalizeInv
  <2>8. VerdictInv'
    BY <1>16 DEF Undo, IInv, VerdictInv
  <2>9. OldCopyKept'
    BY <1>16 DEF Undo, IInv, LoggedInv, OldCopyKept
  <2> QED
    BY <2>1, <2>2, <2>3, <2>4, <2>5, <2>6, <2>7, <2>8, <2>9 DEF IInv
<1>17. ASSUME NEW i \in Source, UndoFails(i) PROVE IInv'
  <2>1. PlanInv'
    BY <1>17 DEF UndoFails, IInv, PlanInv
  <2>2. CurrentInv'
    BY <1>17 DEF UndoFails, IInv, CurrentInv
  <2>3. UntouchedInv'
    BY <1>17 DEF UndoFails, IInv, UntouchedInv
  <2>4. LoggedInv'
    BY <1>17 DEF UndoFails, IInv, LoggedInv
  <2>5. ForwardInv'
    BY <1>17 DEF UndoFails, IInv, ForwardInv
  <2>6. BackwardInv'
    BY <1>17 DEF UndoFails, IInv, BackwardInv
  <2>7. FinalizeInv'
    BY <1>17 DEF UndoFails, IInv, FinalizeInv
  <2>8. VerdictInv'
    BY <1>17 DEF UndoFails, IInv, VerdictInv
  <2>9. OldCopyKept'
    BY <1>17 DEF UndoFails, IInv, OldCopyKept
  <2> QED
    BY <2>1, <2>2, <2>3, <2>4, <2>5, <2>6, <2>7, <2>8, <2>9 DEF IInv
<1>18. CASE RollbackDone
  <2>1. PlanInv'
    BY <1>18 DEF RollbackDone, IInv, PlanInv
  <2>2. CurrentInv'
    BY <1>18 DEF RollbackDone, IInv, CurrentInv
  <2>3. UntouchedInv'
    BY <1>18 DEF RollbackDone, IInv, UntouchedInv
  <2>4. LoggedInv'
    BY <1>18 DEF RollbackDone, IInv, LoggedInv
  <2>5. ForwardInv'
    BY <1>18 DEF RollbackDone, IInv, ForwardInv
  <2>6. BackwardInv'
    BY <1>18 DEF RollbackDone, IInv, BackwardInv
  <2>7. FinalizeInv'
    BY <1>18 DEF RollbackDone, IInv, FinalizeInv
  <2>8. VerdictInv'
    BY <1>18 DEF RollbackDone, IInv, UntouchedInv, BackwardInv, VerdictInv
  <2>9. OldCopyKept'
    BY <1>18 DEF RollbackDone, IInv, OldCopyKept
  <2> QED
    BY <2>1, <2>2, <2>3, <2>4, <2>5, <2>6, <2>7, <2>8, <2>9 DEF IInv
<1>19. CASE Cleanup
  <2>1. PlanInv'
    BY <1>19 DEF Cleanup, IInv, PlanInv
  <2>2. CurrentInv'
    BY <1>19 DEF Cleanup, IInv, CurrentInv
  <2>3. UntouchedInv'
    BY <1>19 DEF Cleanup, IInv, UntouchedInv
  <2>4. LoggedInv'
    BY <1>19 DEF Cleanup, IInv, LoggedInv
  <2>5. ForwardInv'
    BY <1>19 DEF Cleanup, IInv, ForwardInv
  <2>6. BackwardInv'
    BY <1>19 DEF Cleanup, IInv, BackwardInv
  <2>7. FinalizeInv'
    BY <1>19 DEF Cleanup, IInv, FinalizeInv
  <2>8. VerdictInv'
    BY <1>19 DEF Cleanup, IInv, VerdictInv
  <2>9. OldCopyKept'
    BY <1>19 DEF Cleanup, IInv, OldCopyKept
  <2> QED
    BY <2>1, <2>2, <2>3, <2>4, <2>5, <2>6, <2>7, <2>8, <2>9 DEF IInv
<1>20. CASE Crash
  <2>1. PlanInv'
    BY <1>20 DEF Crash, IInv, PlanInv
  <2>2. CurrentInv'
    BY <1>20 DEF Crash, IInv, CurrentInv
  <2>3. UntouchedInv'
    BY <1>20 DEF Crash, IInv, UntouchedInv
  <2>4. LoggedInv'
    BY <1>20 DEF Crash, IInv, LoggedInv
  <2>5. ForwardInv'
    BY <1>20 DEF Crash, IInv, ForwardInv
  <2>6. BackwardInv'
    BY <1>20 DEF Crash, IInv, BackwardInv
  <2>7. FinalizeInv'
    BY <1>20 DEF Crash, IInv, FinalizeInv
  <2>8. VerdictInv'
    BY <1>20 DEF Crash, IInv, VerdictInv
  <2>9. OldCopyKept'
    BY <1>20 DEF Crash, IInv, OldCopyKept
  <2> QED
    BY <2>1, <2>2, <2>3, <2>4, <2>5, <2>6, <2>7, <2>8, <2>9 DEF IInv
<1>21. CASE UNCHANGED vars
  BY <1>21 DEF vars, IInv, PlanInv, CurrentInv, UntouchedInv, LoggedInv, ForwardInv, BackwardInv, FinalizeInv, VerdictInv, OldCopyKept
<1> QED
  BY <1>1, <1>2, <1>3, <1>4, <1>5, <1>6, <1>7, <1>8, <1>9, <1>10, <1>11, <1>12, <1>13, <1>14, <1>15, <1>16, <1>17, <1>18, <1>19, <1>20, <1>21 DEF Next, Run

(* The inductive invariant holds in every reachable state of every commit.         *)
THEOREM InvariantHolds == Spec => []IInv
BY TypeCorrect, InitInv, InvStep, PTL DEF Spec

-----------------------------------------------------------------------------
(* What it implies for a commit *)

(* Until state.json is replaced, no failure, failed rollback or crash loses the     *)
(* old bytes of an artifact.                                                    *)
THEOREM OldBytesSurvive == Spec => []OldCopyKept
<1>1. IInv => OldCopyKept
  BY DEF IInv
<1> QED
  BY <1>1, InvariantHolds, PTL

(* A commit that returns an error restores every source whose own undo succeeded.   *)
THEOREM RollbackRestores == Spec => []RollbackIsExact
<1>1. IInv => RollbackIsExact
  BY DEF IInv, VerdictInv, RollbackIsExact
<1> QED
  BY <1>1, InvariantHolds, PTL

(* A commit that returns no error is complete.                                   *)
THEOREM CommitCompletes == Spec => []CommitIsComplete
<1>1. IInv => CommitIsComplete
  BY DEF IInv, VerdictInv, CommitIsComplete
<1> QED
  BY <1>1, InvariantHolds, PTL

(* A commit leaves in .update only what it failed to delete or put back.            *)
THEOREM NoLeftovers == Spec => []NothingLeftBehind
<1>1. IInv => NothingLeftBehind
  BY DEF IInv, VerdictInv, NothingLeftBehind
<1> QED
  BY <1>1, InvariantHolds, PTL

-----------------------------------------------------------------------------
(* Jobs *)

(* What a new job looks like.                                                   *)
LEMMA JobFacts ==
  ASSUME NEW at \in Stages
  PROVE  /\ Job(at) \in Jobs
         /\ Job(at).at = at
         /\ Job(at).attempt = 1
         /\ Job(at).got = 0
BY PoolAssumption DEF Job, Jobs

(* How a failed attempt leaves its job: never with a result that was not earned.     *)
LEMMA FailsFacts ==
  ASSUME SyncTypeOK, NEW i \in Source, NEW how \in {"soon", "later", "fatal"}
  PROVE  /\ Fails(i, how) \in Jobs
         /\ Fails(i, how).at \in {"fatal", "sleep", "cut", "failed"}
         /\ Fails(i, how).at = "cut" => cancelled
         /\ Fails(i, how).at = "sleep" => Fails(i, how).attempt < Attempts
         /\ Fails(i, how).got \in {0, job[i].got}
<1>1. job[i] \in Jobs
  BY DEF SyncTypeOK
<1>2. Job("fatal") \in Jobs /\ Job("fatal").at = "fatal" /\ Job("fatal").got = 0
  BY JobFacts DEF Stages, Ended
<1>3. Job("cut") \in Jobs /\ Job("cut").at = "cut" /\ Job("cut").got = 0
  BY JobFacts DEF Stages, Ended
<1>4. ASSUME NEW at \in {"sleep", "failed"}
      PROVE  LET j == [job[i] EXCEPT !.at = at]
             IN  j \in Jobs /\ j.at = at /\ j.got = job[i].got /\ j.attempt = job[i].attempt
  BY <1>1, <1>4 DEF Jobs, Stages, Working, Ended, Answered
<1>5. CASE how = "fatal"
  BY <1>2, <1>5 DEF Fails
<1>6. CASE how = "soon" /\ job[i].attempt < Attempts
  BY <1>4, <1>6 DEF Fails
<1>7. CASE how = "soon" /\ ~(job[i].attempt < Attempts) /\ cancelled
  BY <1>3, <1>7 DEF Fails
<1>8. CASE how # "fatal" /\ ~(how = "soon" /\ job[i].attempt < Attempts) /\ ~(how = "soon" /\ cancelled)
  BY <1>4, <1>8 DEF Fails
<1> QED
  BY <1>5, <1>6, <1>7, <1>8

(* The files a job with this stage has under .update.                                *)
HasTemp(i, at) == (i \notin MaxMind /\ at = "body") \/ at \in {"check", "changed"}
HasArchive(i, at) == i \in MaxMind /\ at \in {"body", "unpack"}

(* One job moves on, with its files: every step of a worker is of this kind.            *)
JobMoves(i, j) ==
  /\ job' = [job EXCEPT ![i] = j]
  /\ temps' = IF HasTemp(i, j.at) THEN temps \cup {i} ELSE temps \ {i}
  /\ archives' = IF HasArchive(i, j.at) THEN archives \cup {i} ELSE archives \ {i}
  /\ UNCHANGED <<commit, inputs, cancelled, doubtful, syncs>>

(* The jobs a worker may leave.                                                  *)
Legal(i, j) ==
  /\ j \in Jobs
  /\ job[i].at # "unwanted" /\ j.at # "unwanted"
  /\ j.at \in {"skipped", "cut"} => cancelled
  /\ j.at = "sleep" => j.attempt < Attempts
  /\ j.at = "unmodified" => i \in had /\ j.got = etag[i]
  /\ j.at \in {"body", "unpack", "check", "changed", "unmodified"} => j.got # 0
  /\ j.got \in {0, job[i].got, server[i]}

(* A job that moves to such a state keeps the invariant.                             *)
LEMMA JobMovesInv ==
  ASSUME SyncInv, Refreshing, NEW i \in Source, NEW j, Legal(i, j), JobMoves(i, j)
  PROVE  SyncInv' /\ Refreshing'
<1> USE DEF JobMoves, commit, inputs, plan
<1>1. SyncTypeOK /\ RefreshInv /\ FilesInv /\ JobsInv /\ PromotesInv /\ VersionInv
  BY DEF SyncInv
<1>2. Refreshing' /\ step # "refused" /\ verdict = "open" /\ promotes = {}
  BY <1>1 DEF Refreshing, RefreshInv
<1>3. job' \in [Source -> Jobs] /\ job'[i] = j /\ \A k \in Source \ {i} : job'[k] = job[k]
  BY <1>1 DEF SyncTypeOK, Legal
<1>4. SyncTypeOK'
  BY <1>1, <1>3 DEF SyncTypeOK
<1>5. RefreshInv'
  BY <1>1, <1>2 DEF RefreshInv, Refreshing, Before
<1>6. FilesInv'
  <2>1. temps = {k \in Source : HasTemp(k, job[k].at)}
    BY <1>1 DEF FilesInv, HasTemp, In
  <2>2. archives = {k \in Source : HasArchive(k, job[k].at)}
    BY <1>1, PoolAssumption DEF FilesInv, HasArchive
  <2>3. temps' = {k \in Source : HasTemp(k, job'[k].at)}
    BY <2>1, <1>3
  <2>4. archives' = {k \in Source : HasArchive(k, job'[k].at)}
    BY <2>2, <1>3
  <2> QED
    BY <2>3, <2>4, <1>2, PoolAssumption DEF FilesInv, HasTemp, HasArchive, In, Refreshing
<1>7. JobsInv'
  BY <1>1, <1>3 DEF JobsInv, Legal
<1>8. ResultsInv'
  BY <1>2 DEF ResultsInv, Refreshing, Steps
<1>9. PromotesInv'
  BY <1>2 DEF PromotesInv
<1>10. VersionInv'
  <2> SUFFICES ASSUME NEW k \in Source
               PROVE  /\ job'[k].got <= server[k]
                      /\ job'[k].got # 0 => etag[k] <= job'[k].got /\ copy[k] <= job'[k].got
    BY <1>1 DEF VersionInv
  <2>1. server[k] \in Nat /\ etag[k] \in Nat /\ copy[k] \in Nat /\ job[k].got \in Nat
    BY <1>1, PoolAssumption DEF SyncTypeOK, Jobs
  <2>2. CASE k = i
    BY <2>1, <2>2, <1>1, <1>3 DEF VersionInv, Legal
  <2>3. CASE k # i
    BY <2>3, <1>1, <1>3 DEF VersionInv
  <2> QED
    BY <2>2, <2>3
<1>11. DataInv' /\ StaleInv' /\ OldCopyKept'
  BY <1>2 DEF SyncInv, DataInv, StaleInv, OldCopyKept, Backward
<1>12. CommitInv'
  BY <1>2 DEF CommitInv
<1> QED
  BY <1>2, <1>4, <1>5, <1>6, <1>7, <1>8, <1>9, <1>10, <1>11, <1>12 DEF SyncInv

(* Every step of a worker moves its job in such a way.                                *)
LEMMA WorkerInv ==
  ASSUME SyncInv, NEW i \in Source, UNCHANGED <<doubtful, syncs>>,
         \/ Deliver(i) \/ Retry(i) \/ FetchChecksum(i) \/ RequestFails(i)
         \/ NotModified(i) \/ OK(i) \/ BodyRead(i) \/ BodyFails(i)
         \/ Unpack(i) \/ Accept(i) \/ Reject(i)
  PROVE  SyncInv' /\ Refreshing'
<1> USE DEF commit, inputs, plan
<1>1. Refreshing
  BY DEF Deliver, Retry, FetchChecksum, RequestFails, NotModified, OK, BodyRead, BodyFails,
         Unpack, Accept, Reject
<1>2. SyncTypeOK /\ FilesInv /\ JobsInv
  BY DEF SyncInv
<1>3. /\ job[i] \in Jobs
      /\ job \in [Source -> Jobs]
      /\ server[i] \in 1..MaxVersion
  BY <1>2 DEF SyncTypeOK
<1>4. /\ i \in temps <=> HasTemp(i, job[i].at)
      /\ i \in archives <=> HasArchive(i, job[i].at)
  BY <1>1, <1>2, PoolAssumption DEF FilesInv, HasTemp, HasArchive, In
<1>5. SUFFICES \E j : Legal(i, j) /\ JobMoves(i, j)
  BY <1>1, JobMovesInv
<1>6. server[i] \in 0..MaxVersion /\ server[i] # 0
  BY <1>3, PoolAssumption
<1>7. FirstStage(i) \in Stages /\ FirstStage(i) \in {"checksum", "request"}
  BY DEF FirstStage, Stages, Working
<1>8. ASSUME NEW how \in {"soon", "later", "fatal"},
             job[i].at \notin {"queued", "unwanted"},
             job' = [job EXCEPT ![i] = Fails(i, how)],
             temps' = temps \ {i}, archives' = archives \ {i},
             UNCHANGED <<commit, inputs, cancelled>>
      PROVE  \E j : Legal(i, j) /\ JobMoves(i, j)
  <2>1. Legal(i, Fails(i, how))
    BY <1>2, <1>3, <1>8, FailsFacts DEF Legal
  <2>2. JobMoves(i, Fails(i, how))
    BY <1>2, <1>8, FailsFacts DEF JobMoves, HasTemp, HasArchive
  <2> QED
    BY <2>1, <2>2
<1>9. CASE Deliver(i)
  <2> DEFINE j == [job[i] EXCEPT !.at = FirstStage(i)]
  <2>1. j \in Jobs /\ j.at = FirstStage(i) /\ j.got = job[i].got
    BY <1>3, <1>7 DEF Jobs
  <2>2. Legal(i, j)
    BY <2>1, <1>7, <1>9 DEF Legal, Deliver
  <2>3. JobMoves(i, j)
    BY <2>1, <1>3, <1>4, <1>7, <1>9 DEF JobMoves, HasTemp, HasArchive, Deliver
  <2> QED
    BY <2>2, <2>3
<1>10. CASE Retry(i)
  <2>1. CASE job' = [job EXCEPT ![i] = [Job(FirstStage(i)) EXCEPT !.attempt = job[i].attempt + 1]]
    <3> DEFINE j == [Job(FirstStage(i)) EXCEPT !.attempt = job[i].attempt + 1]
    <3>1. j \in Jobs /\ j.at = FirstStage(i) /\ j.got = 0
      BY <1>2, <1>3, <1>7, <1>10, PoolAssumption DEF Jobs, Job, Retry, JobsInv
    <3>2. Legal(i, j)
      BY <3>1, <1>7, <1>10 DEF Legal, Retry
    <3>3. JobMoves(i, j)
      BY <3>1, <2>1, <1>4, <1>7, <1>10 DEF JobMoves, HasTemp, HasArchive, Retry
    <3> QED
      BY <3>2, <3>3
  <2>2. CASE job' = [job EXCEPT ![i] = Job("fatal")]
    <3>1. Fails(i, "fatal") = Job("fatal")
      BY DEF Fails
    <3>2. temps' = temps \ {i} /\ archives' = archives \ {i}
      BY <1>4, <1>10 DEF Retry, HasTemp, HasArchive
    <3> QED
      BY <3>1, <3>2, <2>2, <1>8, <1>10 DEF Retry
  <2> QED
    BY <2>1, <2>2, <1>10 DEF Retry
<1>11. CASE FetchChecksum(i)
  <2> DEFINE j == [job[i] EXCEPT !.at = "request", !.sum = server[i]]
  <2>1. j \in Jobs /\ j.at = "request" /\ j.got = job[i].got
    BY <1>3, <1>6 DEF Jobs, Stages, Working
  <2>2. Legal(i, j)
    BY <2>1, <1>11 DEF Legal, FetchChecksum
  <2>3. job' = [job EXCEPT ![i] = j]
    BY <1>3, <1>11 DEF FetchChecksum
  <2>4. JobMoves(i, j)
    BY <2>1, <2>3, <1>4, <1>11 DEF JobMoves, HasTemp, HasArchive, FetchChecksum
  <2> QED
    BY <2>2, <2>4
<1>12. CASE RequestFails(i)
  <2>1. temps' = temps \ {i} /\ archives' = archives \ {i}
    BY <1>4, <1>12 DEF RequestFails, HasTemp, HasArchive
  <2> QED
    BY <2>1, <1>8, <1>12 DEF RequestFails
<1>13. CASE NotModified(i)
  <2> DEFINE j == [Job("unmodified") EXCEPT !.got = server[i]]
  <2>1. j \in Jobs /\ j.at = "unmodified" /\ j.got = server[i]
    BY <1>3, PoolAssumption DEF Job, Jobs, Stages, Ended, Answered
  <2>2. Legal(i, j)
    BY <2>1, <1>3, <1>13, PoolAssumption DEF Legal, NotModified
  <2>3. JobMoves(i, j)
    BY <2>1, <1>4, <1>13 DEF JobMoves, HasTemp, HasArchive, NotModified
  <2> QED
    BY <2>2, <2>3
<1>14. CASE OK(i)
  <2> DEFINE j == [job[i] EXCEPT !.at = "body", !.got = server[i]]
  <2>1. j \in Jobs /\ j.at = "body" /\ j.got = server[i]
    BY <1>3, <1>6 DEF Jobs, Stages, Working
  <2>2. Legal(i, j)
    BY <2>1, <1>6, <1>14 DEF Legal, OK
  <2>3. job' = [job EXCEPT ![i] = j]
    BY <1>3, <1>14 DEF OK
  <2>4. JobMoves(i, j)
    BY <2>1, <2>3, <1>4, <1>14 DEF JobMoves, HasTemp, HasArchive, OK
  <2> QED
    BY <2>2, <2>4
<1>15. CASE BodyRead(i)
  <2> DEFINE at == IF i \in MaxMind THEN "unpack" ELSE "check"
             j == [job[i] EXCEPT !.at = at]
  <2>1. j \in Jobs /\ j.at = at /\ j.got = job[i].got
    BY <1>3 DEF Jobs, Stages, Working
  <2>2. Legal(i, j)
    BY <2>1, <1>2, <1>15 DEF Legal, BodyRead, JobsInv
  <2>3. JobMoves(i, j)
    BY <2>1, <1>4, <1>15 DEF JobMoves, HasTemp, HasArchive, BodyRead
  <2> QED
    BY <2>2, <2>3
<1>16. CASE BodyFails(i)
  BY <1>8, <1>16 DEF BodyFails, Failures
<1>17. CASE Unpack(i)
  <2>1. CASE job' = [job EXCEPT ![i].at = "check"] /\ temps' = temps \cup {i}
    <3> DEFINE j == [job[i] EXCEPT !.at = "check"]
    <3>1. j \in Jobs /\ j.at = "check" /\ j.got = job[i].got
      BY <1>3 DEF Jobs, Stages, Working
    <3>2. Legal(i, j)
      BY <3>1, <1>2, <1>17 DEF Legal, Unpack, JobsInv
    <3>3. JobMoves(i, j)
      BY <3>1, <2>1, <1>17 DEF JobMoves, HasTemp, HasArchive, Unpack
    <3> QED
      BY <3>2, <3>3
  <2>2. CASE \E how \in {"soon", "later", "fatal"} :
               job' = [job EXCEPT ![i] = Fails(i, how)] /\ temps' = temps
    <3>1. temps' = temps \ {i}
      BY <2>2, <1>4, <1>17 DEF Unpack, HasTemp
    <3> QED
      BY <3>1, <2>2, <1>8, <1>17 DEF Unpack
  <2> QED
    BY <2>1, <2>2, <1>17 DEF Unpack, Failures
<1>18. CASE Accept(i)
  <2> DEFINE j == [job[i] EXCEPT !.at = "changed"]
  <2>1. j \in Jobs /\ j.at = "changed" /\ j.got = job[i].got
    BY <1>3 DEF Jobs, Stages, Ended, Answered
  <2>2. Legal(i, j)
    BY <2>1, <1>2, <1>18 DEF Legal, Accept, JobsInv
  <2>3. JobMoves(i, j)
    BY <2>1, <1>4, <1>18 DEF JobMoves, HasTemp, HasArchive, Accept
  <2> QED
    BY <2>2, <2>3
<1>19. CASE Reject(i)
  <2>1. archives' = archives \ {i}
    BY <1>4, <1>19 DEF Reject, HasArchive
  <2> QED
    BY <2>1, <1>8, <1>19 DEF Reject
<1> QED
  BY <1>9, <1>10, <1>11, <1>12, <1>13, <1>14, <1>15, <1>16, <1>17, <1>18, <1>19

-----------------------------------------------------------------------------
(* The rest of the pool *)

(* The jobs that are not handed out any more are marked so.                            *)
LEMMA StopProducerInv ==
  ASSUME SyncInv, StopProducer, UNCHANGED <<doubtful, syncs>>
  PROVE  SyncInv'
<1> USE DEF StopProducer, commit, inputs, plan
<1>1. SyncTypeOK /\ RefreshInv /\ FilesInv /\ JobsInv /\ VersionInv
  BY DEF SyncInv
<1>2. Refreshing /\ Refreshing' /\ verdict = "open" /\ promotes = {} /\ state = "old"
  BY <1>1 DEF Refreshing, RefreshInv
<1>3. Job("skipped") \in Jobs /\ Job("skipped").at = "skipped" /\ Job("skipped").got = 0
  BY JobFacts DEF Stages, Ended
<1>4. /\ job' \in [Source -> Jobs]
      /\ \A k \in Source :
           \/ job'[k] = job[k] /\ job[k].at # "queued"
           \/ job[k].at = "queued" /\ job'[k].at = "skipped" /\ job'[k].got = 0
  BY <1>1, <1>3 DEF SyncTypeOK
<1>5. SyncTypeOK' /\ RefreshInv' /\ JobsInv' /\ VersionInv'
  BY <1>1, <1>2, <1>4 DEF SyncTypeOK, RefreshInv, JobsInv, VersionInv, Before
<1>6. FilesInv'
  BY <1>1, <1>2, <1>4, PoolAssumption DEF FilesInv, In, Refreshing
<1>7. ResultsInv' /\ PromotesInv' /\ CommitInv'
  BY <1>2 DEF ResultsInv, PromotesInv, CommitInv, Refreshing, Steps
<1>8. DataInv' /\ StaleInv' /\ OldCopyKept'
  BY <1>2 DEF SyncInv, DataInv, StaleInv, OldCopyKept, Backward
<1> QED
  BY <1>5, <1>6, <1>7, <1>8 DEF SyncInv

(* The context is done, or a server has a newer version.                               *)
LEMMA EnvironmentInv ==
  ASSUME SyncInv, Environment
  PROVE  SyncInv'
<1> USE DEF commit, inputs, pool, plan
<1>1. SyncTypeOK /\ RefreshInv /\ FilesInv /\ JobsInv /\ VersionInv
  BY DEF SyncInv
<1>2. Refreshing /\ Refreshing' /\ verdict = "open" /\ promotes = {} /\ state = "old"
  BY <1>1 DEF Refreshing, RefreshInv, Environment, Cancel, Publish
<1>3. /\ UNCHANGED <<commit, etag, copy, wanted, temps, job, archives, doubtful, syncs>>
      /\ cancelled => cancelled'
      /\ cancelled' \in BOOLEAN
  BY <1>1 DEF Environment, Cancel, Publish, SyncTypeOK
<1>4. server' \in [Source -> 1..MaxVersion] /\ \A k \in Source : server[k] <= server'[k]
  <2>1. CASE server' = server
    BY <2>1, <1>1, PoolAssumption DEF SyncTypeOK
  <2>2. ASSUME NEW i \in Source, Publish(i)
        PROVE  server' \in [Source -> 1..MaxVersion] /\ \A k \in Source : server[k] <= server'[k]
    BY <2>2, <1>1, PoolAssumption DEF SyncTypeOK, Publish
  <2> QED
    BY <2>1, <2>2 DEF Environment, Cancel
<1>5. SyncTypeOK' /\ RefreshInv' /\ FilesInv' /\ JobsInv'
  BY <1>1, <1>2, <1>3, <1>4 DEF SyncTypeOK, RefreshInv, FilesInv, JobsInv, In, Refreshing, Before
<1>6. VersionInv'
  <2> SUFFICES ASSUME NEW k \in Source
               PROVE  etag[k] <= server'[k] /\ copy[k] <= server'[k] /\ job[k].got <= server'[k]
    BY <1>1, <1>3 DEF VersionInv
  <2>1. /\ server[k] \in Nat /\ server'[k] \in Nat
        /\ etag[k] \in Nat /\ copy[k] \in Nat /\ job[k].got \in Nat
    BY <1>1, <1>4, PoolAssumption DEF SyncTypeOK, Jobs
  <2> QED
    BY <2>1, <1>1, <1>4 DEF VersionInv
<1>7. ResultsInv' /\ PromotesInv' /\ CommitInv'
  BY <1>2, <1>3 DEF ResultsInv, PromotesInv, CommitInv, Refreshing, Steps
<1>8. DataInv' /\ StaleInv' /\ OldCopyKept'
  BY <1>2, <1>3 DEF SyncInv, DataInv, StaleInv, OldCopyKept, Backward
<1> QED
  BY <1>5, <1>6, <1>7, <1>8 DEF SyncInv

(* The pool hands over to the commit what the proofs about StorageTxn start from, with a   *)
(* result of every source that was wanted.                                         *)
LEMMA HandOverStarts ==
  ASSUME SyncInv, HandOver
  PROVE  Init' /\ archives' = {} /\ \A i \in wanted : job[i].at \in Answered
<1> USE DEF HandOver, inputs, pool, store
<1>1. SyncTypeOK /\ RefreshInv /\ FilesInv /\ JobsInv
  BY DEF SyncInv
<1>2. \A i \in Source : job[i].at \in Ended \ {"fatal", "skipped", "cut"}
  BY <1>1 DEF AllEnded, AllHaveResults, In, JobsInv
<1>3. temps = In("changed") /\ archives = {}
  BY <1>1, <1>2, PoolAssumption DEF FilesInv, In, Ended, Answered
<1>4. removes' \subseteq had \ promotes'
  BY DEF In
<1>5. promotes' \subseteq Source
  BY DEF In
<1>6. Init'
  BY <1>1, <1>3, <1>4, <1>5 DEF RefreshInv, SyncTypeOK, Init, Before
<1> QED
  BY <1>1, <1>2, <1>3, <1>6 DEF Ended, JobsInv, SyncTypeOK

LEMMA CommitStarts == Init => TypeOK /\ IInv
BY InitInv DEF Init, TypeOK, Before, Steps

(* The commit's own invariants hold from there.                                      *)
LEMMA HandOverInv ==
  ASSUME SyncInv, HandOver, UNCHANGED <<doubtful, syncs>>
  PROVE  SyncInv'
<1> USE DEF HandOver, inputs, pool, store
<1>1. SyncTypeOK /\ RefreshInv /\ FilesInv /\ JobsInv /\ VersionInv
  BY DEF SyncInv
<1>2. Init' /\ archives' = {}
  BY HandOverStarts
<1>3. TypeOK' /\ IInv'
  BY <1>2, CommitStarts, PTL
<1>4. ~Refreshing' /\ step' = "next" /\ state' = "old"
  BY <1>1 DEF Refreshing, RefreshInv
<1>5. SyncTypeOK' /\ RefreshInv' /\ FilesInv' /\ JobsInv' /\ VersionInv'
  BY <1>1, <1>2, <1>4 DEF SyncTypeOK, RefreshInv, FilesInv, JobsInv, VersionInv
<1>6. ResultsInv' /\ PromotesInv'
  BY DEF ResultsInv, PromotesInv, In, AllEnded
<1>7. DataInv' /\ StaleInv' /\ CommitInv' /\ OldCopyKept'
  BY <1>1, <1>3, <1>4 DEF RefreshInv, DataInv, StaleInv, CommitInv, Before, IInv
<1> QED
  BY <1>5, <1>6, <1>7 DEF SyncInv

(* A refresh that gives up is to the rest like a commit that changed nothing.            *)
LEMMA GiveUpInv ==
  ASSUME SyncInv, GiveUp, UNCHANGED <<doubtful, syncs>>
  PROVE  SyncInv'
<1> USE DEF GiveUp, inputs, pool, plan
<1>1. SyncTypeOK /\ RefreshInv /\ FilesInv /\ JobsInv /\ VersionInv /\ CommitInv
  BY DEF SyncInv
<1>2. /\ data = [i \in Source |-> Before(i)]
      /\ promotes = {} /\ removes = {} /\ spare = {} /\ todo = {} /\ logged = {} /\ broken = {}
      /\ state = "old" /\ current = NoSource
  BY <1>1 DEF RefreshInv
<1>3. step' = "ended" /\ ~Refreshing' /\ verdict' = "failed"
  BY DEF Refreshing
<1>4. temps' = {} /\ archives' = {}
  BY <1>1, PoolAssumption DEF AllEnded, FilesInv, In, Ended, Answered
<1>5. TypeOK'
  BY <1>1, <1>2, <1>3, <1>4 DEF TypeOK, SyncTypeOK, Before, Steps
<1>6. IInv'
  BY <1>1, <1>2, <1>3, <1>4
     DEF SyncTypeOK, IInv, PlanInv, CurrentInv, UntouchedInv, Untouched, LoggedInv, ForwardInv,
         BackwardInv, FinalizeInv, VerdictInv, OldCopyKept, Planned, Forward, Backward, InHand,
         Before, After
<1>7. SyncTypeOK' /\ RefreshInv' /\ FilesInv' /\ JobsInv' /\ VersionInv'
  BY <1>1, <1>3, <1>4 DEF SyncTypeOK, RefreshInv, FilesInv, JobsInv, VersionInv
<1>8. ResultsInv' /\ PromotesInv' /\ DataInv' /\ StaleInv' /\ CommitInv' /\ OldCopyKept'
  BY <1>2, <1>3, <1>5, <1>6 DEF ResultsInv, PromotesInv, DataInv, StaleInv, CommitInv, Steps, Before, IInv
<1> QED
  BY <1>7, <1>8 DEF SyncInv

-----------------------------------------------------------------------------
(* The commit *)

(* A step of a commit leaves its plan alone, puts nothing in place that is not a result,     *)
(* and leaves no result out of place under a new state.json but by a late rollback.        *)
LEMMA CommitKeeps ==
  ASSUME TypeOK, IInv, DataInv, StaleInv, Commit
  PROVE  /\ step \in Steps \ {"ended", "crashed"}
         /\ UNCHANGED plan
         /\ DataInv' /\ StaleInv'
<1> DEFINE Goal == /\ step \in Steps \ {"ended", "crashed"}
                   /\ UNCHANGED plan
                   /\ DataInv' /\ StaleInv'
<1> USE DEF plan, store, Steps, DataInv, StaleInv, Backward, DropTemp
<1>1. doubtful' = IF step = "saved" /\ step' = "rollback" THEN doubtful \cup promotes ELSE doubtful
  BY DEF Commit
<1>2. /\ TypeOK /\ DataInv /\ StaleInv
      /\ doubtful \subseteq doubtful'
      /\ step = "saved" /\ step' = "rollback" => promotes \subseteq doubtful'
      /\ step \in InHand \cup {"place", "placed"} => current \in Source
      /\ step \in InHand => current \in had
      /\ step \in {"place", "placed"} => current \in promotes
      /\ step \in Forward => (state = "new" <=> step = "saved")
      /\ step = "next" /\ todo = {} => \A i \in promotes : data[i] = "new"
      /\ data \in [Source -> {"none", "old", "new"}]
  BY <1>1 DEF IInv, TypeOK, CurrentInv, ForwardInv, PlanInv, InHand, Forward, Planned, After
<1> USE DEF InHand, Forward
<1>3. ASSUME NEW i \in Source, PrepareFails(i) PROVE Goal
  BY <1>2, <1>3 DEF PrepareFails
<1>4. ASSUME NEW i \in Source, MoveAside(i) PROVE Goal
  BY <1>2, <1>4 DEF MoveAside
<1>5. ASSUME NEW i \in Source, NothingToMove(i) PROVE Goal
  BY <1>2, <1>5 DEF NothingToMove
<1>6. ASSUME NEW i \in Source, Finalize(i) PROVE Goal
  BY <1>2, <1>6 DEF Finalize
<1>7. ASSUME NEW i \in Source, Undo(i) PROVE Goal
  BY <1>2, <1>7 DEF Undo
<1>8. ASSUME NEW i \in Source, UndoFails(i) PROVE Goal
  BY <1>2, <1>8 DEF UndoFails
<1>9. CASE LogUndo
  BY <1>2, <1>9 DEF LogUndo
<1>10. CASE AsideSyncFails
  BY <1>2, <1>10 DEF AsideSyncFails
<1>11. CASE Restore
  BY <1>2, <1>11 DEF Restore
<1>12. CASE RestoreFails
  BY <1>2, <1>12 DEF RestoreFails
<1>13. CASE Place
  BY <1>2, <1>13 DEF Place
<1>14. CASE PlaceFails
  BY <1>2, <1>14 DEF PlaceFails
<1>15. CASE PlaceSynced
  BY <1>2, <1>15 DEF PlaceSynced
<1>16. CASE SaveState
  BY <1>2, <1>16 DEF SaveState
<1>17. CASE SaveFails
  BY <1>2, <1>17 DEF SaveFails
<1>18. CASE SaveSynced
  BY <1>2, <1>18 DEF SaveSynced
<1>19. CASE FinalizeDone
  BY <1>2, <1>19 DEF FinalizeDone
<1>20. CASE RollbackDone
  BY <1>2, <1>20 DEF RollbackDone
<1>21. CASE Cleanup
  BY <1>2, <1>21 DEF Cleanup
<1> QED
  BY <1>3, <1>4, <1>5, <1>6, <1>7, <1>8, <1>9, <1>10, <1>11, <1>12, <1>13, <1>14, <1>15, <1>16, <1>17, <1>18, <1>19, <1>20, <1>21 DEF Commit, Run

LEMMA CommitStepInv ==
  ASSUME SyncInv, Commit
  PROVE  SyncInv'
<1> USE DEF inputs, pool
<1>1. /\ SyncTypeOK /\ RefreshInv /\ FilesInv /\ JobsInv /\ ResultsInv /\ PromotesInv
      /\ VersionInv /\ DataInv /\ StaleInv /\ CommitInv
  BY DEF SyncInv
<1>2. ~Refreshing /\ step # "refused" /\ step \in Steps \ {"ended", "crashed"}
  BY DEF Commit, Run, Refreshing, Steps, PrepareFails, MoveAside, NothingToMove, Finalize, Undo,
         UndoFails, LogUndo, AsideSyncFails, Restore, RestoreFails, Place, PlaceFails, PlaceSynced,
         SaveState, SaveFails, SaveSynced, FinalizeDone, RollbackDone, Cleanup
<1>3. TypeOK /\ IInv
  BY <1>1, <1>2 DEF CommitInv
<1>4. TypeOK' /\ IInv'
  BY <1>3, TypeStep, InvStep DEF Commit, Next
<1>5. UNCHANGED plan /\ DataInv' /\ StaleInv'
  BY <1>1, <1>3, CommitKeeps
<1>6. ~Refreshing' /\ step' # "refused" /\ OldCopyKept'
  BY <1>4 DEF TypeOK, Steps, Refreshing, IInv
<1>7. /\ UNCHANGED <<server, etag, copy, wanted, job, archives, cancelled, syncs>>
      /\ UNCHANGED <<had, promotes, removes>>
      /\ doubtful \subseteq doubtful' /\ doubtful' \subseteq doubtful \cup promotes
  BY <1>5 DEF Commit, plan
<1>8. SyncTypeOK'
  BY <1>1, <1>3, <1>7 DEF SyncTypeOK, TypeOK
<1>9. RefreshInv' /\ FilesInv' /\ JobsInv'
  BY <1>1, <1>2, <1>6, <1>7, Zenon DEF RefreshInv, FilesInv, JobsInv, Steps, Refreshing
<1>10. ResultsInv' /\ PromotesInv'
  BY <1>1, <1>2, <1>7 DEF ResultsInv, PromotesInv, In, AllEnded
<1>11. VersionInv'
  BY <1>1, <1>7 DEF VersionInv
<1>12. CommitInv'
  BY <1>4 DEF CommitInv
<1> QED
  BY <1>5, <1>6, <1>8, <1>9, <1>10, <1>11, <1>12 DEF SyncInv

(* The process ends, in the refresh or in the commit.                                  *)
LEMMA SyncCrashInv ==
  ASSUME SyncInv, SyncCrash
  PROVE  SyncInv'
<1> USE DEF SyncCrash, Crash, inputs, pool, plan, store
<1>1. /\ SyncTypeOK /\ RefreshInv /\ FilesInv /\ JobsInv /\ ResultsInv /\ PromotesInv
      /\ VersionInv /\ DataInv /\ StaleInv /\ CommitInv /\ OldCopyKept
  BY DEF SyncInv
<1>2. ~Refreshing' /\ step' = "crashed"
  BY DEF Refreshing
<1>3. TypeOK' /\ IInv'
  <2>1. CASE Refreshing
    <3>1. /\ data = [i \in Source |-> Before(i)] /\ temps \subseteq Source
          /\ promotes = {} /\ removes = {} /\ spare = {} /\ todo = {} /\ logged = {} /\ broken = {}
          /\ state = "old" /\ verdict = "open" /\ current = NoSource
      BY <2>1, <1>1 DEF RefreshInv, FilesInv, In
    <3>2. TypeOK'
      BY <3>1, <1>1, <1>2 DEF TypeOK, SyncTypeOK, Before, Steps
    <3>3. IInv'
      BY <3>1, <1>1, <1>2
         DEF SyncTypeOK, IInv, PlanInv, CurrentInv, UntouchedInv, Untouched, LoggedInv, ForwardInv,
             BackwardInv, FinalizeInv, VerdictInv, OldCopyKept, Planned, Forward, Backward,
             InHand, Before, After
    <3> QED
      BY <3>2, <3>3
  <2>2. CASE ~Refreshing
    <3>1. TypeOK /\ IInv
      BY <2>2, <1>1 DEF CommitInv
    <3> QED
      BY <3>1, TypeStep, InvStep DEF Next
  <2> QED
    BY <2>1, <2>2
<1>4. SyncTypeOK' /\ RefreshInv' /\ FilesInv' /\ JobsInv' /\ PromotesInv' /\ VersionInv'
  BY <1>1, <1>2 DEF SyncTypeOK, RefreshInv, FilesInv, JobsInv, PromotesInv, VersionInv, In
<1>5. ResultsInv'
  <2>1. verdict' = "done" => ~Refreshing
    BY <1>1 DEF RefreshInv
  <2> QED
    BY <2>1, <1>1, <1>2 DEF ResultsInv, In, AllEnded
<1>6. DataInv' /\ StaleInv' /\ OldCopyKept' /\ CommitInv'
  BY <1>1, <1>2, <1>3 DEF DataInv, StaleInv, CommitInv, Backward, IInv
<1> QED
  BY <1>4, <1>5, <1>6 DEF SyncInv

(* The loader refuses: nothing else changes.                                           *)
LEMMA RefuseInv ==
  ASSUME SyncInv, Refuse
  PROVE  SyncInv'
<1> USE DEF Refuse, Over, inputs, pool, plan, store
<1>1. /\ SyncTypeOK /\ JobsInv /\ ResultsInv /\ PromotesInv
      /\ VersionInv /\ DataInv /\ StaleInv /\ OldCopyKept
  BY DEF SyncInv
<1>2. ~Refreshing' /\ step' = "refused"
  BY DEF Refreshing
<1>3. SyncTypeOK' /\ RefreshInv' /\ FilesInv' /\ JobsInv' /\ PromotesInv' /\ VersionInv' /\ CommitInv'
  BY <1>1, <1>2 DEF SyncTypeOK, RefreshInv, FilesInv, JobsInv, PromotesInv, VersionInv, CommitInv, In
<1>4. ResultsInv' /\ DataInv' /\ StaleInv' /\ OldCopyKept'
  BY <1>1, <1>2 DEF ResultsInv, DataInv, StaleInv, OldCopyKept, Backward, Before, Steps, In, AllEnded
<1> QED
  BY <1>3, <1>4 DEF SyncInv

-----------------------------------------------------------------------------
(* From one sync to the next *)

LEMMA FirstVersions == 0 \in 0..MaxVersion /\ 1 \in 0..MaxVersion /\ 1 \in 1..MaxVersion
BY PoolAssumption

(* The first sync starts on what earlier ones left.                                  *)
LEMMA SyncInitInv == SyncInit => SyncInv
<1> SUFFICES ASSUME SyncInit PROVE SyncInv
  OBVIOUS
<1> USE DEF SyncInit
<1>1. /\ NewJobs(wanted) \in [Source -> Jobs]
      /\ \A i \in Source :
           /\ job[i].at = IF i \in wanted THEN "queued" ELSE "unwanted"
           /\ job[i].got = 0
  BY JobFacts DEF NewJobs, Stages, Ended
<1>2. /\ had \subseteq Source
      /\ etag \in [Source -> {0, 1}]
      /\ copy \in [Source -> {0, 1}] /\ server \in [Source -> {1}]
      /\ \A i \in Source :
           /\ server[i] = 1
           /\ copy[i] = (IF i \in had THEN 1 ELSE 0)
           /\ etag[i] \in {0, 1}
           /\ i \in had => etag[i] = 1
  <2>1. PICK gone \in SUBSET Source :
          etag = [i \in Source |-> IF i \in had \cup gone THEN 1 ELSE 0]
    OBVIOUS
  <2>2. copy \in [Source -> {0, 1}] /\ server \in [Source -> {1}]
    OBVIOUS
  <2> QED
    BY <2>1, <2>2
<1>3. SyncTypeOK
  <2>2. /\ etag \in [Source -> 0..MaxVersion]
        /\ copy \in [Source -> 0..MaxVersion] /\ server \in [Source -> 1..MaxVersion]
    BY <1>2, FirstVersions
  <2>3. job \in [Source -> Jobs]
    BY <1>1
  <2>4. wanted \subseteq Source
    BY DEF GivenUp
  <2> QED
    BY <1>2, <2>2, <2>3, <2>4 DEF SyncTypeOK
<1>8. RefreshInv
  BY DEF RefreshInv
<1>4. FilesInv
  BY <1>1, PoolAssumption DEF FilesInv, In, Refreshing
<1>5. JobsInv /\ PromotesInv
  BY <1>1 DEF JobsInv, PromotesInv
<1>6. VersionInv
  <2> SUFFICES ASSUME NEW i \in Source
               PROVE  /\ etag[i] <= server[i] /\ copy[i] <= server[i] /\ job[i].got <= server[i]
                      /\ i \in had <=> copy[i] # 0
                      /\ i \in had \ doubtful => etag[i] <= copy[i]
                      /\ job[i].got # 0 => etag[i] <= job[i].got /\ copy[i] <= job[i].got
    BY DEF VersionInv
  <2>1. /\ server[i] = 1 /\ job[i].got = 0
        /\ etag[i] \in {0, 1} /\ copy[i] = (IF i \in had THEN 1 ELSE 0)
    BY <1>1, <1>2
  <2> HIDE DEF SyncInit
  <2> QED
    BY <2>1
<1>7. ResultsInv /\ DataInv /\ StaleInv /\ CommitInv /\ OldCopyKept
  BY DEF ResultsInv, DataInv, StaleInv, CommitInv, OldCopyKept, Steps, Before, Refreshing
<1> QED
  BY <1>3, <1>4, <1>5, <1>6, <1>7, <1>8 DEF SyncInv

(* A commit that was done has put on the disk what state.json says is there.               *)
LEMMA DoneAgrees ==
  ASSUME SyncInv, step = "ended", verdict = "done"
  PROVE  /\ Present = Held
         /\ state = "new"
         /\ \A i \in Source : data[i] = After(i)
<1>1. TypeOK /\ IInv
  BY DEF SyncInv, CommitInv, Refreshing
<1>2. state = "new" /\ \A i \in Source : data[i] = After(i)
  BY <1>1 DEF IInv, VerdictInv
<1>3. removes \subseteq had \ promotes /\ had \subseteq Source /\ promotes \subseteq Source
  BY <1>1 DEF IInv, PlanInv, TypeOK
<1> QED
  BY <1>2, <1>3 DEF Present, Held, After, Before

(* Whatever a sync or a crash left, if the loader accepts it the next sync starts well.       *)
LEMMA NextSyncInv ==
  ASSUME SyncInv, Over, Present = Held, NextSync
  PROVE  SyncInv'
<1> USE DEF NextSync, Begin
<1>1. /\ SyncTypeOK /\ JobsInv /\ PromotesInv /\ VersionInv /\ DataInv /\ StaleInv
      /\ TypeOK /\ IInv
  BY DEF SyncInv, CommitInv, Over, Refreshing
<1>2. PICK ids \in SUBSET Source : wanted' = ids /\ job' = NewJobs(ids)
  BY DEF GivenUp
<1>3. /\ job' \in [Source -> Jobs]
      /\ \A i \in Source :
           /\ job'[i].at = IF i \in wanted' THEN "queued" ELSE "unwanted"
           /\ job'[i].got = 0
  BY <1>2, JobFacts DEF NewJobs, Stages, Ended
<1>4. ASSUME NEW i \in Source
      PROVE  /\ EtagOf(i) \in 0..MaxVersion /\ EtagOf(i) <= server[i]
             /\ Version(i) \in 0..MaxVersion /\ Version(i) <= server[i]
             /\ i \in Held <=> Version(i) # 0
             /\ i \in Held \ doubtful' => EtagOf(i) <= Version(i)
  <2>1. /\ server[i] \in Nat /\ etag[i] \in 0..MaxVersion /\ copy[i] \in 0..MaxVersion
        /\ job[i].got \in 0..MaxVersion
        /\ data[i] \in {"none", "old", "new"}
    BY <1>1, PoolAssumption DEF SyncTypeOK, Jobs, TypeOK
  <2>2. i \in Held <=> data[i] # "none"
    BY DEF Present
  <2>3. /\ data[i] = "old" => i \in had
        /\ data[i] = "new" => i \in promotes
        /\ i \in promotes => job[i].got # 0
    BY <1>1 DEF DataInv, PromotesInv, JobsInv, In
  <2>4. i \notin doubtful' => i \notin doubtful \/ data[i] = "new"
    OBVIOUS
  <2>5. state = "new" /\ i \in promotes => data[i] = "new" \/ i \in doubtful
    BY <1>1 DEF StaleInv
  <2>6. /\ etag[i] <= server[i] /\ copy[i] <= server[i] /\ job[i].got <= server[i]
        /\ i \in had <=> copy[i] # 0
        /\ i \in had \ doubtful => etag[i] <= copy[i]
        /\ job[i].got # 0 => etag[i] <= job[i].got /\ copy[i] <= job[i].got
    BY <1>1 DEF VersionInv
  <2>7. CASE data[i] = "none"
    BY <2>1, <2>2, <2>6, <2>7, PoolAssumption DEF EtagOf, Version
  <2>8. CASE data[i] = "old"
    BY <2>1, <2>2, <2>3, <2>4, <2>5, <2>6, <2>8, PoolAssumption DEF EtagOf, Version
  <2>9. CASE data[i] = "new"
    BY <2>1, <2>2, <2>3, <2>6, <2>9, PoolAssumption DEF EtagOf, Version
  <2> QED
    BY <2>1, <2>7, <2>8, <2>9
<1>5. had' = Present /\ had' \subseteq Source
  BY DEF Present
<1>12. /\ server' = server /\ had' = Held
       /\ etag' \in [Source -> 0..MaxVersion] /\ copy' \in [Source -> 0..MaxVersion]
       /\ \A i \in Source : etag'[i] = EtagOf(i) /\ copy'[i] = Version(i)
  <2>1. /\ server' = server /\ had' = Held
        /\ etag' = [i \in Source |-> EtagOf(i)] /\ copy' = [i \in Source |-> Version(i)]
    OBVIOUS
  <2> QED
    BY <2>1, <1>4
<1>6. SyncTypeOK'
  <2>3. syncs \in Nat /\ syncs' = syncs + 1
    BY <1>1 DEF SyncTypeOK
  <2>4. archives' = {} /\ cancelled' = FALSE /\ wanted' = ids
    BY <1>2
  <2>1. /\ archives' \subseteq Source /\ cancelled' \in BOOLEAN /\ syncs' \in Nat
        /\ wanted' \subseteq Source
    <3> HIDE DEF NextSync, Begin
    <3>1. syncs' \in Nat
      BY <2>3
    <3> QED
      BY <1>2, <2>4, <3>1
  <2>2. server \in [Source -> 1..MaxVersion] /\ doubtful' \subseteq Source
    BY <1>1 DEF SyncTypeOK
  <2> QED
    BY <1>3, <1>5, <1>12, <2>1, <2>2 DEF SyncTypeOK
<1>7. RefreshInv'
  BY <1>5 DEF RefreshInv, Before
<1>8. FilesInv'
  BY <1>3, PoolAssumption DEF FilesInv, In, Refreshing
<1>9. JobsInv' /\ PromotesInv'
  BY <1>3 DEF JobsInv, PromotesInv
<1>10. VersionInv'
  <2> SUFFICES ASSUME NEW i \in Source
               PROVE  /\ etag'[i] <= server'[i] /\ copy'[i] <= server'[i] /\ job'[i].got <= server'[i]
                      /\ i \in had' <=> copy'[i] # 0
                      /\ i \in had' \ doubtful' => etag'[i] <= copy'[i]
                      /\ job'[i].got # 0 => etag'[i] <= job'[i].got /\ copy'[i] <= job'[i].got
    BY DEF VersionInv
  <2>1. /\ etag'[i] = EtagOf(i) /\ copy'[i] = Version(i) /\ server'[i] = server[i]
        /\ had' = Held /\ job'[i].got = 0
    BY <1>3, <1>12
  <2>2. 0 <= server[i]
    BY <1>1, PoolAssumption DEF SyncTypeOK
  <2> HIDE DEF NextSync, Begin
  <2> QED
    BY <1>4, <2>1, <2>2
<1>11. ResultsInv' /\ DataInv' /\ StaleInv' /\ CommitInv' /\ OldCopyKept'
  BY <1>5 DEF ResultsInv, DataInv, StaleInv, CommitInv, OldCopyKept, Steps, Refreshing
<1> QED
  BY <1>6, <1>7, <1>8, <1>9, <1>10, <1>11 DEF SyncInv

LEMMA SyncInvStep == SyncInv /\ [SyncNext]_syncVars => SyncInv'
<1> SUFFICES ASSUME SyncInv, [SyncNext]_syncVars PROVE SyncInv'
  OBVIOUS
<1>1. CASE Refresh
  BY <1>1, WorkerInv, StopProducerInv, HandOverInv, GiveUpInv DEF Refresh, PoolStep
<1>2. CASE Commit
  BY <1>2, CommitStepInv
<1>3. CASE Environment
  BY <1>3, EnvironmentInv
<1>4. CASE SyncCrash
  BY <1>4, SyncCrashInv
<1>5. CASE Continue
  BY <1>5, DoneAgrees, NextSyncInv DEF Continue, Over
<1>6. CASE Restart
  BY <1>6, NextSyncInv DEF Restart
<1>7. CASE Refuse
  BY <1>7, RefuseInv
<1>8. CASE UNCHANGED syncVars
  BY <1>8 DEF syncVars, vars, plan, store, inputs, pool, SyncInv, SyncTypeOK, RefreshInv, FilesInv,
     JobsInv, ResultsInv, PromotesInv, VersionInv, DataInv, StaleInv, CommitInv, OldCopyKept,
     Refreshing, In, AllEnded, Before, TypeOK, IInv, PlanInv, CurrentInv, UntouchedInv, Untouched,
     LoggedInv, ForwardInv, BackwardInv, FinalizeInv, VerdictInv, Planned, After
<1> QED
  BY <1>1, <1>2, <1>3, <1>4, <1>5, <1>6, <1>7, <1>8 DEF SyncNext

(* The invariant of the pool, the commit and the versions holds over any number of syncs,       *)
(* errors, crashes and restarts.                                                  *)
THEOREM SyncInvariantHolds == SyncSpec => []SyncInv
BY SyncInitInv, SyncInvStep, PTL DEF SyncSpec

-----------------------------------------------------------------------------
(* What it implies *)

(* A commit starts with all the results, none cut short, and in a state the proofs about          *)
(* StorageTxn start from.                                                          *)
THEOREM CommitStartsWhole == SyncSpec => PoolHandsOver
<1>1. SyncInv /\ [SyncNext]_syncVars
        => [Refreshing /\ step' = "next" =>
              Init' /\ archives' = {} /\ \A i \in wanted : job[i].at \in Answered]_syncVars
  <2> SUFFICES ASSUME SyncInv, SyncNext, Refreshing, step' = "next"
               PROVE  Init' /\ archives' = {} /\ \A i \in wanted : job[i].at \in Answered
    OBVIOUS
  <2>1. ~Commit /\ ~Continue /\ ~Restart /\ ~Refuse /\ ~SyncCrash /\ ~Environment
    BY DEF Commit, Run, Refreshing, Continue, Restart, Over, Refuse, SyncCrash, Crash, Environment,
           Cancel, Publish, commit, PrepareFails, MoveAside, NothingToMove, Finalize, Undo,
           UndoFails, LogUndo, AsideSyncFails, Restore, RestoreFails, Place, PlaceFails,
           PlaceSynced, SaveState, SaveFails, SaveSynced, FinalizeDone, RollbackDone, Cleanup
  <2>2. Refresh
    BY <2>1 DEF SyncNext
  <2>3. HandOver
    BY <2>2, WorkerInv DEF Refresh, PoolStep, Refreshing, StopProducer, GiveUp, commit
  <2> QED
    BY <2>3, HandOverStarts
<1> QED
  BY <1>1, SyncInvariantHolds, PTL DEF SyncSpec, PoolHandsOver

(* After a sync without an error the disk has what the servers had when they answered.            *)
THEOREM SyncCompletes == SyncSpec => []SyncIsComplete
<1>1. SyncInv => SyncIsComplete
  <2> SUFFICES ASSUME SyncInv, step = "ended", verdict = "done", NEW i \in Source
               PROVE  /\ Held = Present
                      /\ CASE i \in removes -> Version(i) = 0
                           [] job[i].at = "changed" -> Version(i) = job[i].got
                           [] job[i].at = "unmodified" -> Version(i) = job[i].got \/ i \in doubtful
                           [] OTHER -> Version(i) = copy[i]
    BY DoneAgrees DEF SyncIsComplete
  <2>1. /\ Present = Held
        /\ data[i] = After(i)
    BY DoneAgrees
  <2>2. /\ promotes = In("changed") /\ removes \subseteq In("failed")
        /\ JobsInv /\ VersionInv /\ SyncTypeOK
    BY DEF SyncInv, ResultsInv
  <2>3. CASE i \in removes
    BY <2>1, <2>2, <2>3 DEF After, Version, In
  <2>4. CASE job[i].at = "changed"
    BY <2>1, <2>2, <2>4 DEF After, Version, In
  <2>5. CASE job[i].at = "unmodified"
    <3>1. /\ i \in had /\ job[i].got = etag[i] /\ job[i].got # 0
          /\ Version(i) = copy[i]
      BY <2>1, <2>2, <2>5 DEF After, Before, Version, In, JobsInv
    <3>2. /\ i \notin doubtful => etag[i] <= copy[i]
          /\ copy[i] <= job[i].got
      BY <2>2, <3>1 DEF VersionInv
    <3>3. etag[i] \in Nat /\ copy[i] \in Nat
      BY <2>2, PoolAssumption DEF SyncTypeOK
    <3> QED
      BY <2>1, <2>2, <2>5, <3>1, <3>2, <3>3 DEF In
  <2>6. CASE i \notin removes /\ job[i].at \notin {"changed", "unmodified"}
    BY <2>1, <2>2, <2>6 DEF After, Before, Version, In, VersionInv
  <2> QED
    BY <2>1, <2>3, <2>4, <2>5, <2>6
<1> QED
  BY <1>1, SyncInvariantHolds, PTL

(* A sync that ended leaves under .update only what it failed to remove.                       *)
THEOREM SyncLeavesTidy == SyncSpec => []UpdateDirTidy
<1>1. SyncInv => UpdateDirTidy
  BY DEF SyncInv, FilesInv, CommitInv, IInv, VerdictInv, UpdateDirTidy, Refreshing
<1> QED
  BY <1>1, SyncInvariantHolds, PTL

(* Over all syncs and crashes, until state.json is replaced the old bytes are on the disk.          *)
THEOREM OldBytesSurviveSyncs == SyncSpec => []OldCopyKept
<1>1. SyncInv => OldCopyKept
  BY DEF SyncInv
<1> QED
  BY <1>1, SyncInvariantHolds, PTL

(* A sync with an error restores every source whose own undo succeeded.                         *)
THEOREM SyncErrorsRestore == SyncSpec => []RollbackIsExact
<1>1. SyncInv => RollbackIsExact
  BY DEF SyncInv, CommitInv, IInv, VerdictInv, RollbackIsExact, Refreshing
<1> QED
  BY <1>1, SyncInvariantHolds, PTL
-----------------------------------------------------------------------------
(* Archives: reading one *)

(* Induction in the form of sets: a set with 0 and with the successor of each of its elements    *)
(* has every natural, for the naturals are well-founded.                                 *)
LEMMA Successors ==
  ASSUME NEW S, 0 \in S, \A n \in Nat : n \in S => n + 1 \in S
  PROVE  Nat \subseteq S
<1> SUFFICES ASSUME Nat \ S # {} PROVE FALSE
  OBVIOUS
<1> DEFINE less == {ss \in Nat \X Nat : ss[1] < ss[2]}
           others == Nat \ S
<1>1. IsWellFoundedOn(less, Nat)
  BY NatLessThanWellFounded DEF OpToRel
<1>2. PICK m \in others : \A k \in others : <<k, m>> \notin less
  <2>1. others \subseteq Nat /\ others # {}
    OBVIOUS
  <2> HIDE DEF others, less
  <2> QED
    BY <1>1, <2>1, WFMin
<1>3. m # 0 /\ m - 1 \in Nat /\ (m - 1) + 1 = m /\ m - 1 < m /\ m \notin S
  OBVIOUS
<1>4. m - 1 \in S
  BY <1>2, <1>3
<1> QED
  BY <1>3, <1>4

(* What readTarGz says of an archive it has read as far as x.                              *)
Closing(x) == IF x.error = "none" /\ x.count = 0 THEN Failed(x, "invalid") ELSE x

Reads(x, kind, entries) ==
  /\ x[0] = Start
  /\ \A n \in 1..Len(entries) : x[n] = Read(kind, x[n - 1], entries[n])

(* The loop of readTarGz comes to its end: its turns, one after the other, are a function.       *)
LEMMA ReadTurns ==
  ASSUME NEW entries \in Seq(AnyEntry), NEW kind
  PROVE  \E x : Reads(x, kind, entries) /\ ReadTarGz(kind, entries) = Closing(x[Len(entries)])
<1> DEFINE N == Len(entries)
           next(old, n) == Read(kind, old, entries[n])
           Runs(g, n) == /\ DOMAIN g = 0..n
                         /\ g[0] = Start /\ \A i \in 1..n : g[i] = next(g[i - 1], i)
           runs == {n \in Nat : \E g : Runs(g, n)}
           Whole(f) == f = [n \in 0..Len(entries) |->
                              IF n = 0 THEN Start ELSE Read(kind, f[n - 1], entries[n])]
<1>1. N \in Nat
  OBVIOUS
<1> HIDE DEF next
<1>2. 0 \in runs
  <2>1. Runs([i \in 0..0 |-> Start], 0)
    OBVIOUS
  <2> QED
    BY <2>1
<1>3. ASSUME NEW n \in Nat, n \in runs PROVE n + 1 \in runs
  <2>1. PICK g : Runs(g, n)
    BY <1>3
  <2> DEFINE h == [i \in 0..(n + 1) |-> IF i = n + 1 THEN next(g[n], i) ELSE g[i]]
  <2>2. DOMAIN h = 0..(n + 1) /\ h[0] = Start
    BY <2>1
  <2>3. ASSUME NEW i \in 1..(n + 1) PROVE h[i] = next(h[i - 1], i)
    <3>1. CASE i = n + 1
      BY <3>1
    <3>2. CASE i \in 1..n
      BY <2>1, <3>2
    <3> QED
      BY <3>1, <3>2
  <2> HIDE DEF h
  <2> QED
    BY <2>2, <2>3
<1>4. PICK g : Runs(g, N)
  <2> HIDE DEF runs, N
  <2>1. N \in runs
    BY <1>1, <1>2, <1>3, Successors
  <2> QED
    BY <2>1 DEF runs
<1> DEFINE whole == [n \in 0..N |-> g[n]]
<1>5. ASSUME NEW n \in 0..N
      PROVE  whole[n] = IF n = 0 THEN Start ELSE Read(kind, whole[n - 1], entries[n])
  <2>1. CASE n = 0
    BY <1>4, <2>1
  <2>2. CASE n # 0
    <3>1. n \in 1..N /\ n - 1 \in 0..N
      BY <1>1, <2>2
    <3>2. g[n] = Read(kind, g[n - 1], entries[n])
      BY <1>4, <3>1 DEF next
    <3>3. whole[n] = g[n] /\ whole[n - 1] = g[n - 1]
      BY <3>1
    <3> QED
      BY <2>2, <3>2, <3>3
  <2> QED
    BY <2>1, <2>2
<1>6. Whole(whole)
  <2>1. whole = [n \in 0..N |-> whole[n]]
    OBVIOUS
  <2> HIDE DEF whole
  <2> QED
    BY <1>5, <2>1
<1> DEFINE x == CHOOSE f : Whole(f)
<1>7. Whole(x)
  <2> HIDE DEF Whole, whole
  <2> QED
    BY <1>6
<1>8. ReadTarGz(kind, entries) = Closing(x[Len(entries)])
  BY DEF ReadTarGz, Closing, Iterate
<1> HIDE DEF x
<1>9. Reads(x, kind, entries)
  <2>1. ASSUME NEW n \in 0..N
        PROVE  x[n] = IF n = 0 THEN Start ELSE Read(kind, x[n - 1], entries[n])
    BY <1>7
  <2>2. 0 \in 0..N /\ \A n \in 1..N : n \in 0..N /\ n # 0
    BY <1>1
  <2> HIDE DEF Whole
  <2> QED
    BY <2>1, <2>2 DEF Reads
<1> HIDE DEF Whole
<1> QED
  BY <1>8, <1>9

-----------------------------------------------------------------------------
(* Archives: counting *)

(* How far an extraction is: its errors and its counters.                                   *)
IsProgress(x) ==
  /\ x = [error |-> x.error, files |-> x.files, dirs |-> x.dirs, total |-> x.total,
          count |-> x.count, matched |-> x.matched, written |-> x.written]
  /\ x.error \in {"none", "invalid", "cut", "broken"}
  /\ x.total \in Nat /\ x.count \in Nat /\ x.matched \in Nat /\ x.written \in Nat

(* What an entry is; only a file has a body.                                            *)
LEMMA EntryFacts ==
  ASSUME NEW entry \in AnyEntry
  PROVE  /\ entry.type \in {"file", "dir", "header", "link", "garbage"}
         /\ entry.path \in Seq(Name) \cup {Outside}
         /\ entry.body \in {"whole", "cut", "broken"}
         /\ entry.size \in Nat
         /\ entry.type # "file" => entry.body = "whole" /\ entry.size = 0
BY DEF AnyEntry, Entry, AnyPath

(* The places of the entries of an archive.                                             *)
LEMMA PlaceFacts ==
  ASSUME NEW entries \in Seq(AnyEntry)
  PROVE  /\ Len(entries) \in Nat /\ DOMAIN entries = 1..Len(entries)
         /\ \A i \in 1..Len(entries) : entries[i] \in AnyEntry
         /\ Files(entries) \subseteq 1..Len(entries)
         /\ Inside(entries) \subseteq Files(entries)
         /\ Matches(entries) \subseteq 1..Len(entries)
         /\ IsFiniteSet(Files(entries)) /\ IsFiniteSet(Inside(entries))
         /\ IsFiniteSet(Matches(entries))
<1>1. Len(entries) \in Nat /\ DOMAIN entries = 1..Len(entries)
  OBVIOUS
<1>2. \A i \in 1..Len(entries) : entries[i] \in AnyEntry
  OBVIOUS
<1>3. /\ Files(entries) \subseteq 1..Len(entries)
      /\ Inside(entries) \subseteq Files(entries)
      /\ Matches(entries) \subseteq 1..Len(entries)
  BY <1>1 DEF Files, Inside, Matches
<1>4. IsFiniteSet(1..Len(entries))
  <2>1. 1 \in Int /\ Len(entries) \in Int
    BY <1>1
  <2> QED
    BY <2>1, FS_Interval
<1>5. IsFiniteSet(Files(entries)) /\ IsFiniteSet(Inside(entries)) /\ IsFiniteSet(Matches(entries))
  <2>1. Files(entries) \in SUBSET (1..Len(entries)) /\ Inside(entries) \in SUBSET (1..Len(entries))
        /\ Matches(entries) \in SUBSET (1..Len(entries))
    BY <1>3
  <2> QED
    BY <1>4, <2>1, FS_Subset
<1> QED
  BY <1>1, <1>2, <1>3, <1>5

(* One place more of some of them                                                     *)
LEMMA OnePlaceMore ==
  ASSUME NEW S, IsFiniteSet(S), NEW m \in Nat \ {0}
  PROVE  /\ IsFiniteSet(S \cap (1..m)) /\ Cardinality(S \cap (1..m)) \in Nat
         /\ Cardinality(S \cap (1..m)) <= Cardinality(S) /\ Cardinality(S) \in Nat
         /\ m \in S => /\ S \cap (1..m) = (S \cap (1..(m - 1))) \cup {m}
                       /\ Cardinality(S \cap (1..m)) = Cardinality(S \cap (1..(m - 1))) + 1
         /\ m \notin S => S \cap (1..m) = S \cap (1..(m - 1))
<1>1. IsFiniteSet(S \cap (1..(m - 1))) /\ IsFiniteSet(S \cap (1..m))
      /\ Cardinality(S \cap (1..m)) <= Cardinality(S)
  BY FS_Intersection
<1>2. Cardinality(S \cap (1..m)) \in Nat /\ Cardinality(S) \in Nat
  BY <1>1, FS_CardinalityType
<1>3. m \in S => S \cap (1..m) = (S \cap (1..(m - 1))) \cup {m}
  OBVIOUS
<1>4. m \notin S => S \cap (1..m) = S \cap (1..(m - 1))
  OBVIOUS
<1>5. m \notin S \cap (1..(m - 1))
  OBVIOUS
<1>6. m \in S => Cardinality(S \cap (1..m)) = Cardinality(S \cap (1..(m - 1))) + 1
  BY <1>1, <1>3, <1>5, FS_AddElement
<1> QED
  BY <1>1, <1>2, <1>3, <1>4, <1>6

(* The bytes of one entry more                                                          *)
LEMMA BytesFacts ==
  ASSUME NEW entries \in Seq(AnyEntry)
  PROVE  /\ \A n \in Nat : Bytes(entries, n) \in Nat
         /\ Bytes(entries, 0) = 0
         /\ \A m, n \in Nat : m <= n => Bytes(entries, m) <= Bytes(entries, n)
         /\ \A m \in 1..Len(entries) :
              Bytes(entries, m) =
                Bytes(entries, m - 1) + (IF m \in Inside(entries) THEN entries[m].size ELSE 0)
<1> DEFINE all(n) == UNION {BytesAt(entries, i) : i \in Inside(entries) \cap (1..n)}
<1>1. \A n : Bytes(entries, n) = Cardinality(all(n))
  BY DEF Bytes
<1>2. ASSUME NEW i \in Inside(entries)
      PROVE  IsFiniteSet(BytesAt(entries, i)) /\ Cardinality(BytesAt(entries, i)) = entries[i].size
  <2>1. entries[i].size \in Nat
    BY PlaceFacts, EntryFacts
  <2>2. 1 \in Int /\ entries[i].size \in Int
    BY <2>1
  <2>3. IsFiniteSet(1..entries[i].size) /\ Cardinality(1..entries[i].size) = entries[i].size
    <3>1. Cardinality(1..entries[i].size) = IF 1 > entries[i].size THEN 0 ELSE entries[i].size - 1 + 1
      BY <2>2, FS_Interval
    <3>2. IsFiniteSet(1..entries[i].size)
      BY <2>2, FS_Interval
    <3>3. (IF 1 > entries[i].size THEN 0 ELSE entries[i].size - 1 + 1) = entries[i].size
      BY <2>1
    <3> QED
      BY <3>1, <3>2, <3>3
  <2>4. IsFiniteSet({i}) /\ Cardinality({i}) = 1
    BY FS_Singleton
  <2>5. IsFiniteSet(BytesAt(entries, i)) /\ Cardinality(BytesAt(entries, i)) = 1 * entries[i].size
    BY <2>3, <2>4, FS_Product DEF BytesAt
  <2> QED
    BY <2>1, <2>5
<1> HIDE DEF all
<1>3. ASSUME NEW m \in Nat \ {0}
      PROVE  /\ m \in Inside(entries) => /\ all(m) = all(m - 1) \cup BytesAt(entries, m)
                                         /\ all(m - 1) \cap BytesAt(entries, m) = {}
             /\ m \notin Inside(entries) => all(m) = all(m - 1)
  <2>1. m \in Inside(entries) => Inside(entries) \cap (1..m) = (Inside(entries) \cap (1..(m - 1))) \cup {m}
    OBVIOUS
  <2>2. m \notin Inside(entries) => Inside(entries) \cap (1..m) = Inside(entries) \cap (1..(m - 1))
    OBVIOUS
  <2>3. m \notin 1..(m - 1)
    OBVIOUS
  <2>4. all(m - 1) \cap BytesAt(entries, m) = {}
    BY <2>3 DEF all, BytesAt
  <2> QED
    BY <2>1, <2>2, <2>4 DEF all
<1>4. 0 \in {n \in Nat : IsFiniteSet(all(n))}
  <2>1. all(0) = {}
    BY DEF all
  <2> QED
    BY <2>1, FS_EmptySet
<1>5. ASSUME NEW n \in Nat, IsFiniteSet(all(n)) PROVE IsFiniteSet(all(n + 1))
  <2>1. n + 1 \in Nat \ {0} /\ (n + 1) - 1 = n
    OBVIOUS
  <2>2. CASE n + 1 \in Inside(entries)
    <3>1. all(n + 1) = all(n) \cup BytesAt(entries, n + 1)
      BY <1>3, <2>1, <2>2
    <3>2. IsFiniteSet(BytesAt(entries, n + 1))
      BY <1>2, <2>2
    <3>3. IsFiniteSet(all(n) \cup BytesAt(entries, n + 1))
      BY <1>5, <3>2, FS_Union
    <3> QED
      BY <3>1, <3>3
  <2>3. CASE n + 1 \notin Inside(entries)
    BY <1>3, <1>5, <2>1, <2>3
  <2> QED
    BY <2>2, <2>3
<1>6. \A n \in Nat : IsFiniteSet(all(n))
  <2> DEFINE finite == {n \in Nat : IsFiniteSet(all(n))}
  <2>1. 0 \in finite /\ \A n \in Nat : n \in finite => n + 1 \in finite
    BY <1>4, <1>5
  <2> HIDE DEF finite
  <2>2. Nat \subseteq finite
    BY <2>1, Successors
  <2> QED
    BY <2>2 DEF finite
<1>7. ASSUME NEW n \in Nat PROVE Bytes(entries, n) \in Nat
  BY <1>1, <1>6, FS_CardinalityType
<1>8. Bytes(entries, 0) = 0
  <2>1. all(0) = {}
    BY DEF all
  <2> QED
    BY <1>1, <2>1, FS_EmptySet
<1>9. ASSUME NEW m \in Nat, NEW n \in Nat, m <= n PROVE Bytes(entries, m) <= Bytes(entries, n)
  <2>1. Inside(entries) \cap (1..m) \subseteq Inside(entries) \cap (1..n)
    BY <1>9
  <2>2. all(m) \in SUBSET all(n)
    BY <2>1 DEF all
  <2> QED
    BY <1>1, <1>6, <2>2, FS_Subset
<1>10. ASSUME NEW m \in 1..Len(entries)
       PROVE  Bytes(entries, m) =
                Bytes(entries, m - 1) + (IF m \in Inside(entries) THEN entries[m].size ELSE 0)
  <2>1. m \in Nat \ {0} /\ m - 1 \in Nat
    OBVIOUS
  <2>2. CASE m \in Inside(entries)
    <3>1. all(m) = all(m - 1) \cup BytesAt(entries, m) /\ all(m - 1) \cap BytesAt(entries, m) = {}
      BY <1>3, <2>1, <2>2
    <3>2. IsFiniteSet(all(m - 1)) /\ IsFiniteSet(BytesAt(entries, m))
          /\ Cardinality(BytesAt(entries, m)) = entries[m].size
      BY <1>2, <1>6, <2>1, <2>2
    <3>3. Cardinality(all(m)) =
            Cardinality(all(m - 1)) + Cardinality(BytesAt(entries, m)) - Cardinality({})
      BY <3>1, <3>2, FS_Union
    <3>4. Cardinality({}) = 0
      BY FS_EmptySet
    <3>5. Cardinality(all(m - 1)) \in Nat /\ entries[m].size \in Nat
      BY <2>2, <3>2, FS_CardinalityType
    <3> QED
      BY <1>1, <2>2, <3>2, <3>3, <3>4, <3>5
  <2>3. CASE m \notin Inside(entries)
    <3>1. all(m) = all(m - 1)
      BY <1>3, <2>1, <2>3
    <3>2. Bytes(entries, m - 1) \in Nat
      BY <1>7, <2>1
    <3> QED
      BY <1>1, <2>3, <3>1, <3>2
  <2> QED
    BY <2>2, <2>3
<1> QED
  BY <1>7, <1>8, <1>9, <1>10

(* The names on a path: some, down to the path itself.                                       *)
LEMMA UpToFacts ==
  ASSUME NEW path \in Seq(Name)
  PROVE  /\ path # Root => path \in UpTo(path)
         /\ Root \notin UpTo(path)
         /\ UpTo(Root) = {}
<1>1. Len(path) \in Nat
  OBVIOUS
<1>2. ASSUME path # Root PROVE path \in UpTo(path)
  <2>1. SubSeq(path, 1, Len(path)) = path
    BY SubSeqFull
  <2>2. Len(path) \in 1..Len(path)
    BY <1>1, <1>2 DEF Root
  <2> QED
    BY <2>1, <2>2 DEF UpTo
<1>3. ASSUME NEW n \in 1..Len(path) PROVE SubSeq(path, 1, n) # Root
  <2>1. 1 \in Int /\ n \in Int /\ \A i \in 1..n : path[i] \in Name
    BY <1>1
  <2>2. Len(SubSeq(path, 1, n)) = IF 1 <= n THEN n - 1 + 1 ELSE 0
    BY <2>1, SubSeqProperties
  <2>3. Len(Root) = 0
    BY DEF Root
  <2> QED
    BY <2>2, <2>3
<1>4. Root \notin UpTo(path)
  BY <1>3 DEF UpTo
<1>5. UpTo(Root) = {}
  <2>1. 1..Len(Root) = {}
    BY DEF Root
  <2> QED
    BY <2>1 DEF UpTo
<1> QED
  BY <1>2, <1>4, <1>5

(* The directory itself is not outside.                                                 *)
LEMMA RootIsInside == Root # Outside
BY DEF Root, Outside

-----------------------------------------------------------------------------
(* Archives: a directory *)

(* No file of a sound archive comes when the limit is already reached.                      *)
Fits(entries) ==
  Sound(entries) /\ \A i \in Inside(entries) : Bytes(entries, i - 1) < MaxTotalBytes

Readable(entry) ==
  /\ entry.type # "garbage" /\ entry.path # Outside
  /\ entry.body = "whole"
  /\ entry.path # Root => entry.type # "link" /\ entry.size <= MaxFileBytes

(* The directories an entry is the reason for                                            *)
Makes(entry, dir) ==
  \/ entry.type = "dir" /\ dir \in UpTo(entry.path)
  \/ entry.type = "file" /\ entry.path \notin {Root, Outside} /\ dir \in Parents(entry.path)

(* What is so of an extraction that has come through the first n entries.                   *)
DirThrough(x, entries, n) ==
  /\ \A i \in 1..n : Readable(entries[i])
  /\ \A i, j \in 1..n : ~Clash(entries, i, j)
  /\ x.count = Cardinality(Files(entries) \cap (1..n)) /\ x.count <= MaxFiles
  /\ x.total = Bytes(entries, n) /\ x.total <= MaxTotalBytes /\ x.written = x.total
  /\ x.files = Described(entries, Inside(entries) \cap (1..n))
  /\ \A dir : dir \in x.dirs <=> \E i \in 1..n : Makes(entries[i], dir)

DirInv(x, entries, n) ==
  /\ IsProgress(x)
  /\ x.written <= MaxTotalBytes + 1
  /\ x.error = "none" => DirThrough(x, entries, n)
  /\ Fits(entries) => x.error = "none"

(* An entry that cannot be made clashes with one before it, and the other way round.            *)
LEMMA ClashFacts ==
  ASSUME NEW entries \in Seq(AnyEntry), NEW m \in 1..Len(entries), NEW x,
         DirThrough(x, entries, m - 1), entries[m].path \notin {Root, Outside}
  PROVE  /\ entries[m].type \in {"file", "dir"} /\ ~CanMakeDir(x, entries[m].path) => ~Fits(entries)
         /\ entries[m].type = "file" /\ ~CanMakeFile(x, entries[m].path) => ~Fits(entries)
         /\ \/ entries[m].type = "file" /\ CanMakeFile(x, entries[m].path)
            \/ entries[m].type = "dir" /\ CanMakeDir(x, entries[m].path)
            => \A i \in 1..(m - 1) : ~Clash(entries, i, m) /\ ~Clash(entries, m, i)
<1> DEFINE path == entries[m].path
<1>1. /\ DOMAIN entries = 1..Len(entries) /\ Len(entries) \in Nat
      /\ \A i \in 1..(m - 1) : i \in 1..Len(entries) /\ i # m
  BY PlaceFacts
<1>2. \A i \in 1..Len(entries) : entries[i].path \in Seq(Name) \cup {Outside}
  BY PlaceFacts, EntryFacts
<1>3. path \in Seq(Name) /\ path # Root
  BY <1>2
<1>4. ASSUME NEW file
      PROVE  file \in Paths(x) <=>
               \E i \in 1..(m - 1) : /\ entries[i].type = "file"
                                     /\ entries[i].path \notin {Root, Outside}
                                     /\ entries[i].path = file
  <2>1. \A i : i \in Inside(entries) \cap (1..(m - 1)) <=>
                 /\ i \in 1..(m - 1)
                 /\ entries[i].type = "file" /\ entries[i].path \notin {Root, Outside}
    BY <1>1 DEF Inside, Files
  <2>2. file \in Paths(x) <=> \E f \in x.files : f.path = file
    BY DEF Paths
  <2>3. x.files = {[path |-> entries[i].path, size |-> entries[i].size] :
                     i \in Inside(entries) \cap (1..(m - 1))}
    BY DEF DirThrough, Described
  <2>4. (\E f \in x.files : f.path = file) <=>
          \E i \in Inside(entries) \cap (1..(m - 1)) : entries[i].path = file
    <3> DEFINE Of(i) == [path |-> entries[i].path, size |-> entries[i].size]
               places == Inside(entries) \cap (1..(m - 1))
    <3>1. x.files = {Of(i) : i \in places}
      BY <2>3
    <3>2. \A i : Of(i).path = entries[i].path
      OBVIOUS
    <3> HIDE DEF Of, places
    <3>3. (\E f \in x.files : f.path = file) <=> \E i \in places : Of(i).path = file
      BY <3>1
    <3> QED
      BY <3>2, <3>3 DEF places
  <2>5. (\E i \in Inside(entries) \cap (1..(m - 1)) : entries[i].path = file) <=>
          \E i \in 1..(m - 1) : /\ entries[i].type = "file"
                                /\ entries[i].path \notin {Root, Outside}
                                /\ entries[i].path = file
    BY <2>1, Zenon
  <2> QED
    BY <2>2, <2>4, <2>5, Zenon
<1>5. ASSUME NEW i \in 1..Len(entries), NEW j \in 1..Len(entries), Clash(entries, i, j) PROVE ~Fits(entries)
  BY <1>1, <1>5 DEF Fits, Sound
<1>6. ASSUME entries[m].type \in {"file", "dir"}, ~CanMakeDir(x, path) PROVE ~Fits(entries)
  <2>1. PICK file \in UpTo(path) : file \in Paths(x)
    BY <1>6 DEF CanMakeDir
  <2>2. PICK i \in 1..(m - 1) : entries[i].type = "file" /\ entries[i].path = file
    BY <1>4, <2>1
  <2>3. Clash(entries, i, m)
    BY <1>1, <1>6, <2>1, <2>2 DEF Clash
  <2> QED
    BY <1>1, <1>5, <2>3
<1>7. ASSUME entries[m].type = "file", ~CanMakeFile(x, path) PROVE ~Fits(entries)
  <2>1. CASE ~CanMakeDir(x, path)
    BY <1>6, <1>7, <2>1
  <2>2. CASE path \in x.dirs
    <3>1. PICK i \in 1..(m - 1) : Makes(entries[i], path)
      BY <2>2 DEF DirThrough
    <3>2. entries[i].type \in {"file", "dir"} /\ path \in UpTo(entries[i].path)
      BY <3>1 DEF Makes, Parents
    <3>3. Clash(entries, m, i)
      BY <1>1, <1>7, <3>2 DEF Clash
    <3> QED
      BY <1>1, <1>5, <3>3
  <2> QED
    BY <1>7, <2>1, <2>2 DEF CanMakeFile
<1>8. ASSUME \/ entries[m].type = "file" /\ CanMakeFile(x, path)
             \/ entries[m].type = "dir" /\ CanMakeDir(x, path),
             NEW i \in 1..(m - 1)
      PROVE  ~Clash(entries, i, m) /\ ~Clash(entries, m, i)
  <2>1. CanMakeDir(x, path)
    BY <1>8 DEF CanMakeFile
  <2>2. entries[i].path \in Seq(Name)
    BY <1>1, <1>2 DEF DirThrough, Readable
  <2>3. ASSUME Clash(entries, i, m) PROVE FALSE
    <3>1. entries[i].type = "file" /\ entries[i].path \in UpTo(path)
      BY <2>3 DEF Clash
    <3>2. entries[i].path # Root
      BY <1>3, <3>1, UpToFacts
    <3>3. entries[i].path # Outside
      BY DEF DirThrough, Readable
    <3>4. entries[i].path \in Paths(x)
      BY <1>4, <3>1, <3>2, <3>3
    <3> QED
      BY <2>1, <3>1, <3>4 DEF CanMakeDir
  <2>4. ASSUME Clash(entries, m, i) PROVE FALSE
    <3>1. /\ entries[m].type = "file" /\ entries[i].type \in {"file", "dir"}
          /\ path \in UpTo(entries[i].path)
      BY <2>4 DEF Clash
    <3>2. path \notin x.dirs
      BY <1>8, <3>1 DEF CanMakeFile
    <3>3. ~Makes(entries[i], path)
      BY <3>2 DEF DirThrough
    <3>4. entries[i].path # Root /\ entries[i].path # Outside
      <4>1. entries[i].path # Root
        BY <2>2, <3>1, UpToFacts
      <4>2. entries[i].path # Outside
        BY DEF DirThrough, Readable
      <4> QED
        BY <4>1, <4>2
    <3>5. entries[i].type = "file" /\ entries[i].path = path
      BY <3>1, <3>3, <3>4 DEF Makes, Parents
    <3>6. path \in Paths(x) /\ path \in UpTo(path)
      BY <1>3, <1>4, <3>4, <3>5, UpToFacts
    <3> QED
      BY <2>1, <3>6 DEF CanMakeDir
  <2> QED
    BY <2>3, <2>4
<1> QED
  BY <1>6, <1>7, <1>8

(* One entry more that is readable, clashes with none and is counted in.                      *)
LEMMA DirOneMore ==
  ASSUME NEW entries \in Seq(AnyEntry), NEW m \in 1..Len(entries), NEW x, NEW y,
         DirThrough(x, entries, m - 1), Readable(entries[m]),
         \A i \in 1..(m - 1) : ~Clash(entries, i, m) /\ ~Clash(entries, m, i),
         y.count = Cardinality(Files(entries) \cap (1..m)), y.count <= MaxFiles,
         y.total = Bytes(entries, m), y.total <= MaxTotalBytes, y.written = y.total,
         y.files = Described(entries, Inside(entries) \cap (1..m)),
         \A dir : dir \in y.dirs <=> dir \in x.dirs \/ Makes(entries[m], dir)
  PROVE  DirThrough(y, entries, m)
<1>1. m \in Nat /\ \A i \in 1..m : i = m \/ i \in 1..(m - 1)
  OBVIOUS
<1>2. \A i \in 1..m : Readable(entries[i])
  BY <1>1 DEF DirThrough
<1>3. \A i, j \in 1..m : ~Clash(entries, i, j)
  <2>1. ~Clash(entries, m, m)
    BY DEF Clash
  <2> QED
    BY <1>1, <2>1 DEF DirThrough
<1>4. ASSUME NEW dir PROVE dir \in y.dirs <=> \E i \in 1..m : Makes(entries[i], dir)
  <2>1. dir \in x.dirs <=> \E i \in 1..(m - 1) : Makes(entries[i], dir)
    BY DEF DirThrough
  <2>2. m \in 1..m /\ \A i \in 1..(m - 1) : i \in 1..m
    BY <1>1
  <2> QED
    BY <1>1, <2>1, <2>2
<1> QED
  BY <1>2, <1>3, <1>4 DEF DirThrough
(* What is so of a broken off extraction, when the archive is not sound                           *)
LEMMA DirFailed ==
  ASSUME NEW entries \in Seq(AnyEntry), NEW n, NEW x, IsProgress(x), x.written <= MaxTotalBytes + 1,
         NEW error \in {"invalid", "cut", "broken"}, ~Fits(entries)
  PROVE  DirInv(Failed(x, error), entries, n)
<1>1. /\ IsProgress(Failed(x, error))
      /\ Failed(x, error).error = error /\ Failed(x, error).written = x.written
  BY DEF IsProgress, Failed
<1> QED
  BY <1>1 DEF DirInv

(* What extractTarFile makes of a file: it cannot make it, fails to write it, or extracts it.      *)
Unmade(y, x, entry) == y = Failed(x, "broken") /\ ~CanMakeFile(x, entry.path)

Unwritten(y, x, entry, limit) ==
  \E error \in {"invalid", "cut", "broken"}, n \in Nat :
    /\ y = Failed([x EXCEPT !.written = @ + n], error) /\ n <= limit + 1
    /\ entry.size > limit \/ entry.body # "whole"

Extracted(y, x, entry, limit) ==
  /\ y.error = "none" /\ CanMakeFile(x, entry.path)
  /\ entry.size <= limit /\ entry.body = "whole"
  /\ IsProgress(y)
  /\ y.total = x.total /\ y.count = x.count /\ y.matched = x.matched
  /\ y.written = x.written + entry.size
  /\ y.files = x.files \cup {[path |-> entry.path, size |-> entry.size]}
  /\ y.dirs = x.dirs \cup Parents(entry.path)

(* One of the three is what becomes of a file.                                          *)
LEMMA ExtractFacts ==
  ASSUME NEW x, IsProgress(x), x.error = "none", NEW entry \in AnyEntry, NEW limit \in Nat,
         NEW y, y = ExtractTarFile(x, entry, limit)
  PROVE  \/ Unmade(y, x, entry) \/ Unwritten(y, x, entry, limit)
         \/ Extracted(y, x, entry, limit)
<1> DEFINE n == CopyWithLimit(entry.size, limit)
           v == [x EXCEPT !.written = @ + n]
<1>1. entry.size \in Nat /\ entry.body \in {"whole", "cut", "broken"}
  BY EntryFacts
<1>2. /\ n \in Nat /\ n <= limit + 1
      /\ n > limit <=> entry.size > limit
      /\ entry.size <= limit => n = entry.size
  BY <1>1 DEF CopyWithLimit, Least
<1> HIDE DEF n
<1>3. CASE ~CanMakeFile(x, entry.path)
  BY <1>3 DEF ExtractTarFile, Unmade
<1>4. CASE CanMakeFile(x, entry.path) /\ n > limit
  <2>1. y = Failed(v, "invalid")
    BY <1>4 DEF ExtractTarFile, n
  <2> QED
    BY <1>2, <1>4, <2>1 DEF Unwritten
<1>5. CASE CanMakeFile(x, entry.path) /\ ~(n > limit) /\ entry.body # "whole"
  <2>1. y = Failed(v, entry.body)
    BY <1>5 DEF ExtractTarFile, n
  <2>2. entry.body \in {"invalid", "cut", "broken"}
    BY <1>1, <1>5
  <2> QED
    BY <1>2, <1>5, <2>1, <2>2 DEF Unwritten
<1>6. CASE CanMakeFile(x, entry.path) /\ ~(n > limit) /\ entry.body = "whole"
  <2>1. y = [v EXCEPT !.files = @ \cup {[path |-> entry.path, size |-> n]},
                      !.dirs  = @ \cup Parents(entry.path)]
    BY <1>6 DEF ExtractTarFile, n
  <2>2. n = entry.size /\ entry.size <= limit
    BY <1>1, <1>2, <1>6
  <2>3. /\ y.error = x.error /\ y.total = x.total /\ y.count = x.count /\ y.matched = x.matched
        /\ y.written = x.written + n
        /\ y.files = x.files \cup {[path |-> entry.path, size |-> n]}
        /\ y.dirs = x.dirs \cup Parents(entry.path)
    BY <2>1 DEF IsProgress
  <2>4. IsProgress(y)
    <3>1. x.written + n \in Nat
      BY <1>2 DEF IsProgress
    <3> QED
      BY <2>1, <2>3, <3>1 DEF IsProgress
  <2> QED
    BY <1>6, <2>2, <2>3, <2>4 DEF Extracted
<1> QED
  BY <1>3, <1>4, <1>5, <1>6

(* A file that is not readable, or with which the files are too many or too large                *)
LEMMA NotFitting ==
  ASSUME NEW entries \in Seq(AnyEntry), NEW m \in 1..Len(entries),
         \/ ~Readable(entries[m])
         \/ Cardinality(Files(entries) \cap (1..m)) > MaxFiles
         \/ Bytes(entries, m) > MaxTotalBytes
         \/ m \in Inside(entries) /\ Bytes(entries, m - 1) = MaxTotalBytes
  PROVE  ~Fits(entries)
<1>1. SUFFICES ASSUME Fits(entries) PROVE FALSE
  OBVIOUS
<1>2. /\ DOMAIN entries = 1..Len(entries) /\ Len(entries) \in Nat /\ IsFiniteSet(Files(entries))
  BY PlaceFacts
<1>3. MaxFiles \in Nat /\ MaxTotalBytes \in Nat
  BY LimitsAssumption
<1>4. Sound(entries)
  BY <1>1 DEF Fits
<1>5. Readable(entries[m])
  BY <1>2, <1>4 DEF Sound, Readable
<1>6. Cardinality(Files(entries) \cap (1..m)) <= MaxFiles
  <2>1. Cardinality(Files(entries)) <= MaxFiles
    BY <1>3, <1>4 DEF Sound
  <2>2. m \in Nat \ {0}
    BY <1>2
  <2>3. /\ Cardinality(Files(entries) \cap (1..m)) <= Cardinality(Files(entries))
        /\ Cardinality(Files(entries) \cap (1..m)) \in Nat /\ Cardinality(Files(entries)) \in Nat
    BY <1>2, <2>2, OnePlaceMore
  <2> QED
    BY <1>3, <2>1, <2>3
<1>7. Bytes(entries, m) <= MaxTotalBytes
  <2>1. Bytes(entries, Len(entries)) <= MaxTotalBytes
    BY <1>4 DEF Sound
  <2>2. m \in Nat /\ m <= Len(entries)
    BY <1>2
  <2>3. Bytes(entries, m) <= Bytes(entries, Len(entries))
        /\ Bytes(entries, m) \in Nat /\ Bytes(entries, Len(entries)) \in Nat
    BY <1>2, <2>2, BytesFacts
  <2> QED
    BY <1>3, <2>1, <2>3
<1>8. m \in Inside(entries) => Bytes(entries, m - 1) < MaxTotalBytes
  BY <1>1 DEF Fits
<1>9. Cardinality(Files(entries) \cap (1..m)) \in Nat /\ Bytes(entries, m) \in Nat
  <2>1. m \in Nat \ {0}
    BY <1>2
  <2> QED
    BY <1>2, <2>1, OnePlaceMore, BytesFacts
<1> QED
  BY <1>3, <1>5, <1>6, <1>7, <1>8, <1>9

(* No entry clashes that is for the directory itself, or neither a file nor a directory.         *)
LEMMA NoClash ==
  ASSUME NEW entries \in Seq(AnyEntry), NEW m \in 1..Len(entries), NEW x,
         DirThrough(x, entries, m - 1),
         entries[m].path = Root \/ entries[m].type \notin {"file", "dir"}
  PROVE  \A i \in 1..(m - 1) : ~Clash(entries, i, m) /\ ~Clash(entries, m, i)
<1>1. CASE entries[m].type \notin {"file", "dir"}
  BY <1>1 DEF Clash
<1>2. CASE entries[m].path = Root
  <2>1. ASSUME NEW i \in 1..(m - 1) PROVE Root \notin UpTo(entries[i].path)
    <3>1. i \in 1..Len(entries)
      BY PlaceFacts
    <3>2. entries[i].path \in Seq(Name) \cup {Outside} /\ entries[i].path # Outside
      BY <3>1, PlaceFacts, EntryFacts DEF DirThrough, Readable
    <3> QED
      BY <3>2, UpToFacts
  <2>2. UpTo(Root) = {}
    <3>1. Root \in Seq(Name)
      BY DEF Root
    <3> QED
      BY <3>1, UpToFacts
  <2> QED
    BY <1>2, <2>1, <2>2 DEF Clash
<1> QED
  BY <1>1, <1>2

(* One entry more for a directory                                                     *)
LEMMA DirStep ==
  ASSUME NEW entries \in Seq(AnyEntry), NEW m \in 1..Len(entries), NEW x,
         DirInv(x, entries, m - 1)
  PROVE  DirInv(Read("dir", x, entries[m]), entries, m)
<1> DEFINE entry == entries[m]
           isFile == entry.type = "file"
           y == IF isFile THEN [x EXCEPT !.count = @ + 1] ELSE x
           z == Read("dir", x, entry)
<1>1. /\ entry \in AnyEntry /\ m \in Nat \ {0} /\ m - 1 \in Nat
      /\ DOMAIN entries = 1..Len(entries) /\ IsFiniteSet(Files(entries))
  BY PlaceFacts
<1>2. /\ entry.type \in {"file", "dir", "header", "link", "garbage"}
      /\ entry.path \in Seq(Name) \cup {Outside}
      /\ entry.body \in {"whole", "cut", "broken"}
      /\ entry.size \in Nat
      /\ ~isFile => entry.body = "whole" /\ entry.size = 0
  BY <1>1, EntryFacts
<1>3. MaxFiles \in Nat /\ MaxFileBytes \in Nat /\ MaxTotalBytes \in Nat
  BY LimitsAssumption
<1>4. IsProgress(x) /\ x.written <= MaxTotalBytes + 1
  BY DEF DirInv
<1>5. CASE x.error # "none"
  <2>1. z = x
    BY <1>5 DEF Read
  <2> QED
    BY <1>5, <2>1 DEF DirInv
<1>6. CASE x.error = "none"
  <2>1. DirThrough(x, entries, m - 1)
    BY <1>6 DEF DirInv
  <2>2. /\ IsProgress(y) /\ y.error = "none" /\ y.total = x.total /\ y.written = x.written
        /\ y.files = x.files /\ y.dirs = x.dirs /\ y.written <= MaxTotalBytes + 1
    BY <1>4, <1>6 DEF IsProgress
  <2>3. y.count = Cardinality(Files(entries) \cap (1..m))
    <3>1. isFile <=> m \in Files(entries)
      BY <1>1 DEF Files
    <3>2. x.count = Cardinality(Files(entries) \cap (1..(m - 1))) /\ x.count \in Nat
      BY <1>4, <2>1 DEF DirThrough, IsProgress
    <3>3. y.count = IF isFile THEN x.count + 1 ELSE x.count
      BY <1>4 DEF IsProgress
    <3>4. /\ m \in Files(entries) => Cardinality(Files(entries) \cap (1..m)) =
                                       Cardinality(Files(entries) \cap (1..(m - 1))) + 1
          /\ m \notin Files(entries) => Files(entries) \cap (1..m) = Files(entries) \cap (1..(m - 1))
      BY <1>1, OnePlaceMore
    <3> QED
      BY <3>1, <3>2, <3>3, <3>4
  <2>4. /\ x.total = Bytes(entries, m - 1) /\ x.total <= MaxTotalBytes /\ x.total \in Nat
        /\ x.written = x.total
    BY <1>4, <2>1 DEF DirThrough, IsProgress
  <2>5. m \in Inside(entries) <=> isFile /\ entry.path \notin {Root, Outside}
    BY <1>1 DEF Inside, Files
  <2>6. Bytes(entries, m) = x.total + (IF m \in Inside(entries) THEN entry.size ELSE 0)
    BY <2>4, BytesFacts
  <2>7. CanMakeDir(y, entry.path) = CanMakeDir(x, entry.path)
        /\ CanMakeFile(y, entry.path) = CanMakeFile(x, entry.path)
    BY <2>2 DEF CanMakeDir, CanMakeFile, Paths
  <2>8. CASE entry.type = "garbage" \/ y.count > MaxFiles
    <3>1. z = Failed(y, "invalid")
      BY <1>6, <2>8 DEF Read
    <3>2. ~Fits(entries)
      BY <2>3, <2>8, NotFitting DEF Readable
    <3> QED
      BY <2>2, <3>1, <3>2, DirFailed
  <2>9. CASE ~(entry.type = "garbage" \/ y.count > MaxFiles)
    <3>1. z = IntoDir(y, entry)
      BY <1>6, <2>9 DEF Read
    <3> SUFFICES DirInv(z, entries, m)
      OBVIOUS
    <3> HIDE DEF z, y
    <3>2. y.count <= MaxFiles
      BY <1>3, <2>2, <2>9 DEF IsProgress
    <3>3. CASE entry.path = Outside
      <4>1. z = Failed(y, "invalid")
        BY <3>1, <3>3, RootIsInside DEF IntoDir
      <4>2. ~Fits(entries)
        BY <3>3, NotFitting DEF Readable
      <4> QED
        BY <2>2, <4>1, <4>2, DirFailed
    <3>4. ASSUME z = y, Readable(entry), entry.path = Root \/ entry.type = "header"
          PROVE  DirInv(z, entries, m)
      <4>1. m \notin Inside(entries)
        BY <2>5, <3>4
      <4>2. \A i \in 1..(m - 1) : ~Clash(entries, i, m) /\ ~Clash(entries, m, i)
        BY <2>1, <3>4, NoClash
      <4>3. \A dir : ~Makes(entry, dir)
        <5>1. Root \in Seq(Name)
          BY DEF Root
        <5>2. UpTo(Root) = {}
          BY <5>1, UpToFacts
        <5> QED
          BY <3>4, <5>2 DEF Makes
      <4>4. y.files = Described(entries, Inside(entries) \cap (1..m))
        <5>1. Inside(entries) \cap (1..m) = Inside(entries) \cap (1..(m - 1))
          BY <1>1, <4>1, PlaceFacts, OnePlaceMore
        <5> QED
          BY <2>1, <2>2, <5>1 DEF DirThrough
      <4>5. y.total = Bytes(entries, m) /\ y.total <= MaxTotalBytes /\ y.written = y.total
        BY <2>2, <2>4, <2>6, <4>1
      <4>6. \A dir : dir \in y.dirs <=> dir \in x.dirs \/ Makes(entry, dir)
        BY <2>2, <4>3
      <4>7. DirThrough(y, entries, m)
        BY <2>1, <2>3, <3>2, <3>4, <4>2, <4>4, <4>5, <4>6, DirOneMore
      <4> QED
        BY <2>2, <3>4, <4>7 DEF DirInv
    <3>5. CASE entry.path = Root
      <4>1. z = Skipped(y, entry)
        BY <3>1, <3>5, RootIsInside DEF IntoDir
      <4>2. CASE entry.body # "whole"
        <5>1. z = Failed(y, "invalid")
          BY <4>1, <4>2 DEF Skipped
        <5>2. ~Fits(entries)
          BY <4>2, NotFitting DEF Readable
        <5> QED
          BY <2>2, <5>1, <5>2, DirFailed
      <4>3. CASE entry.body = "whole"
        <5>1. z = y
          BY <4>1, <4>3 DEF Skipped
        <5>2. Readable(entry)
          BY <2>9, <3>5, <4>3 DEF Readable, Root, Outside
        <5> QED
          BY <3>4, <3>5, <5>1, <5>2
      <4> QED
        BY <4>2, <4>3
    <3>6. CASE entry.path \notin {Root, Outside} /\ entry.type = "dir"
      <4>1. CASE CanMakeDir(x, entry.path)
        <5>1. z = [y EXCEPT !.dirs = @ \cup UpTo(entry.path)]
          BY <2>7, <3>1, <3>6, <4>1 DEF IntoDir
        <5>2. /\ IsProgress(z) /\ z.error = "none" /\ z.total = y.total /\ z.written = y.written
              /\ z.files = y.files /\ z.dirs = y.dirs \cup UpTo(entry.path) /\ z.count = y.count
          BY <2>2, <5>1 DEF IsProgress
        <5>3. m \notin Inside(entries)
          BY <2>5, <3>6
        <5>4. \A i \in 1..(m - 1) : ~Clash(entries, i, m) /\ ~Clash(entries, m, i)
          BY <2>1, <3>6, <4>1, ClashFacts
        <5>5. Readable(entry)
          BY <1>2, <1>3, <3>6 DEF Readable
        <5>6. z.files = Described(entries, Inside(entries) \cap (1..m))
          <6>1. Inside(entries) \cap (1..m) = Inside(entries) \cap (1..(m - 1))
            BY <1>1, <5>3, PlaceFacts, OnePlaceMore
          <6> QED
            BY <2>1, <2>2, <5>2, <6>1 DEF DirThrough
        <5>7. z.total = Bytes(entries, m) /\ z.total <= MaxTotalBytes /\ z.written = z.total
          BY <2>2, <2>4, <2>6, <5>2, <5>3
        <5>8. \A dir : dir \in z.dirs <=> dir \in x.dirs \/ Makes(entry, dir)
          BY <2>2, <3>6, <5>2 DEF Makes
        <5>9. z.count = Cardinality(Files(entries) \cap (1..m)) /\ z.count <= MaxFiles
          BY <2>3, <3>2, <5>2
        <5>10. DirThrough(z, entries, m)
          BY <2>1, <5>4, <5>5, <5>6, <5>7, <5>8, <5>9, DirOneMore
        <5>11. z.written <= MaxTotalBytes + 1
          BY <2>2, <5>2
        <5> QED
          BY <5>2, <5>10, <5>11 DEF DirInv
      <4>2. CASE ~CanMakeDir(x, entry.path)
        <5>1. z = Failed(y, "broken")
          BY <2>7, <3>1, <3>6, <4>2 DEF IntoDir
        <5>2. ~Fits(entries)
          BY <2>1, <3>6, <4>2, ClashFacts
        <5> QED
          BY <2>2, <5>1, <5>2, DirFailed
      <4> QED
        BY <4>1, <4>2
    <3>7. CASE entry.path \notin {Root, Outside} /\ isFile
      <4> DEFINE remaining == MaxTotalBytes - y.total
                 limit == Least(MaxFileBytes, remaining)
                 v == ExtractTarFile(y, entry, limit)
      <4>1. /\ remaining \in Nat /\ limit \in Nat /\ limit <= remaining /\ limit <= MaxFileBytes
            /\ entry.size > limit => entry.size > MaxFileBytes \/ entry.size > remaining
        BY <1>2, <1>3, <2>2, <2>4 DEF Least
      <4>2. m \in Inside(entries) /\ Bytes(entries, m) = y.total + entry.size
        BY <2>2, <2>4, <2>5, <2>6, <3>7
      <4>3. CASE remaining = 0
        <5>1. z = Failed(y, "invalid")
          BY <3>1, <3>7, <4>3 DEF IntoDir
        <5>2. Bytes(entries, m - 1) = MaxTotalBytes
          BY <1>3, <2>2, <2>4, <4>3
        <5>3. ~Fits(entries)
          BY <4>2, <5>2, NotFitting
        <5> QED
          BY <2>2, <5>1, <5>3, DirFailed
      <4>4. CASE remaining # 0
        <5>1. z = IF v.error = "none" THEN [v EXCEPT !.total = @ + entry.size] ELSE v
          BY <3>1, <3>7, <4>4 DEF IntoDir
        <5> HIDE DEF v, limit, remaining
        <5>2. \/ Unmade(v, y, entry) \/ Unwritten(v, y, entry, limit)
              \/ Extracted(v, y, entry, limit)
          BY <1>1, <2>2, <4>1, ExtractFacts DEF v
        <5>3. CASE Unmade(v, y, entry)
          <6>1. z = Failed(y, "broken")
            BY <2>2, <5>1, <5>3 DEF Failed, IsProgress, Unmade
          <6>2. ~Fits(entries)
            BY <2>1, <2>7, <3>7, <5>3, ClashFacts DEF Unmade
          <6> QED
            BY <2>2, <6>1, <6>2, DirFailed
        <5>4. ASSUME NEW error \in {"invalid", "cut", "broken"}, NEW n \in Nat,
                     v = Failed([y EXCEPT !.written = @ + n], error), n <= limit + 1,
                     entry.size > limit \/ entry.body # "whole"
              PROVE  DirInv(z, entries, m)
          <6> DEFINE w == [y EXCEPT !.written = @ + n]
          <6>1. IsProgress(w) /\ w.written = y.written + n
            BY <2>2 DEF IsProgress
          <6>2. z = Failed(w, error)
            <7>1. v.error = error
              BY <5>4, <6>1 DEF Failed, IsProgress
            <7> QED
              BY <5>1, <5>4, <7>1
          <6>3. w.written <= MaxTotalBytes + 1
            BY <1>3, <2>2, <2>4, <4>1, <5>4, <6>1 DEF remaining
          <6>4. ~Fits(entries)
            <7>1. CASE entry.body # "whole" \/ entry.size > MaxFileBytes
              <8>1. ~Readable(entry)
                BY <1>2, <1>3, <3>7, <7>1 DEF Readable
              <8> QED
                BY <8>1, NotFitting
            <7>2. CASE entry.size > remaining
              <8>1. Bytes(entries, m) > MaxTotalBytes
                BY <1>2, <1>3, <2>2, <2>4, <4>2, <7>2 DEF remaining
              <8> QED
                BY <8>1, NotFitting
            <7> QED
              BY <4>1, <5>4, <7>1, <7>2
          <6> HIDE DEF w
          <6> QED
            BY <6>1, <6>2, <6>3, <6>4, DirFailed
        <5>5. CASE Extracted(v, y, entry, limit)
          <6> USE <5>5 DEF Extracted
          <6>1. z = [v EXCEPT !.total = @ + entry.size]
            BY <5>1
          <6>2. /\ z.error = "none" /\ z.total = v.total + entry.size /\ z.written = v.written
                /\ z.files = v.files /\ z.dirs = v.dirs /\ z.count = v.count
            BY <5>5, <6>1 DEF IsProgress
          <6>3. IsProgress(z)
            <7>1. v.total + entry.size \in Nat
              BY <1>2, <5>5 DEF IsProgress
            <7> QED
              BY <5>5, <6>1, <7>1 DEF IsProgress
          <6>4. \A i \in 1..(m - 1) : ~Clash(entries, i, m) /\ ~Clash(entries, m, i)
            BY <2>1, <2>7, <3>7, <5>5, ClashFacts
          <6>5. Readable(entry)
            BY <1>2, <1>3, <3>7, <4>1, <5>5 DEF Readable
          <6>6. z.files = Described(entries, Inside(entries) \cap (1..m))
            <7>1. Inside(entries) \cap (1..m) = (Inside(entries) \cap (1..(m - 1))) \cup {m}
              BY <1>1, <4>2, PlaceFacts, OnePlaceMore
            <7>2. z.files = Described(entries, Inside(entries) \cap (1..(m - 1)))
                              \cup {[path |-> entry.path, size |-> entry.size]}
              BY <2>1, <2>2, <5>5, <6>2 DEF DirThrough
            <7> QED
              BY <7>1, <7>2 DEF Described
          <6>7. z.total = Bytes(entries, m) /\ z.total <= MaxTotalBytes /\ z.written = z.total
            BY <1>2, <1>3, <2>2, <2>4, <4>1, <4>2, <5>5, <6>2 DEF remaining
          <6>8. \A dir : dir \in z.dirs <=> dir \in x.dirs \/ Makes(entry, dir)
            BY <2>2, <3>7, <5>5, <6>2 DEF Makes
          <6>9. z.count = Cardinality(Files(entries) \cap (1..m)) /\ z.count <= MaxFiles
            BY <2>3, <3>2, <5>5, <6>2
          <6>10. DirThrough(z, entries, m)
            BY <2>1, <6>4, <6>5, <6>6, <6>7, <6>8, <6>9, DirOneMore
          <6>11. z.written <= MaxTotalBytes + 1
            BY <1>3, <6>3, <6>7 DEF IsProgress
          <6> QED
            BY <6>2, <6>3, <6>10, <6>11 DEF DirInv
        <5> QED
          BY <5>2, <5>3, <5>4, <5>5 DEF Unwritten
      <4> QED
        BY <4>3, <4>4
    <3>8. CASE entry.path \notin {Root, Outside} /\ entry.type = "header"
      <4>1. z = y
        BY <3>1, <3>8 DEF IntoDir
      <4>2. Readable(entry)
        BY <1>2, <1>3, <3>8 DEF Readable
      <4> QED
        BY <3>4, <3>8, <4>1, <4>2
    <3>9. CASE entry.path \notin {Root, Outside} /\ entry.type = "link"
      <4>1. z = Failed(y, "invalid")
        BY <3>1, <3>9 DEF IntoDir
      <4>2. ~Fits(entries)
        BY <3>9, NotFitting DEF Readable
      <4> QED
        BY <2>2, <4>1, <4>2, DirFailed
    <3> QED
      BY <1>2, <2>9, <3>3, <3>5, <3>6, <3>7, <3>8, <3>9 DEF z
  <2> QED
    BY <2>8, <2>9
<1> QED
  BY <1>5, <1>6

(* What is so of the start, and stays so from turn to turn, is so at the end.                    *)
LEMMA DirReads ==
  ASSUME NEW entries \in Seq(AnyEntry)
  PROVE  \E w : DirInv(w, entries, Len(entries)) /\ ExtractTarGzDir(entries) = Closing(w)
<1>1. PICK x : Reads(x, "dir", entries) /\ ReadTarGz("dir", entries) = Closing(x[Len(entries)])
  BY ReadTurns
<1>2. Len(entries) \in Nat
  OBVIOUS
<1> DEFINE reached == {n \in Nat : n <= Len(entries) => DirInv(x[n], entries, n)}
<1>3. 0 \in reached
  <2>1. /\ IsProgress(Start) /\ Start.error = "none" /\ Start.written = 0 /\ Start.total = 0
        /\ Start.count = 0 /\ Start.files = {} /\ Start.dirs = {}
    BY DEF Start, IsProgress
  <2>2. 1..0 = {} /\ MaxFiles \in Nat /\ MaxTotalBytes \in Nat
    BY LimitsAssumption
  <2>3. Cardinality(Files(entries) \cap (1..0)) = 0
    BY <2>2, FS_EmptySet
  <2>4. Described(entries, Inside(entries) \cap (1..0)) = {}
    BY <2>2 DEF Described
  <2>5. Bytes(entries, 0) = 0
    BY BytesFacts
  <2>6. DirThrough(Start, entries, 0)
    BY <2>1, <2>2, <2>3, <2>4, <2>5 DEF DirThrough
  <2>7. DirInv(Start, entries, 0)
    BY <2>1, <2>2, <2>6 DEF DirInv
  <2> QED
    BY <1>1, <2>7 DEF Reads
<1>4. ASSUME NEW n \in Nat, n \in reached PROVE n + 1 \in reached
  <2>1. SUFFICES ASSUME n + 1 <= Len(entries) PROVE DirInv(x[n + 1], entries, n + 1)
    OBVIOUS
  <2>2. n + 1 \in 1..Len(entries) /\ (n + 1) - 1 = n /\ n <= Len(entries)
    BY <1>2, <2>1
  <2>3. DirInv(x[n], entries, (n + 1) - 1)
    BY <1>4, <2>2
  <2>4. x[n + 1] = Read("dir", x[n], entries[n + 1])
    BY <1>1, <2>2 DEF Reads
  <2> QED
    BY <2>2, <2>3, <2>4, DirStep
<1>5. Len(entries) \in reached
  <2> HIDE DEF reached
  <2> QED
    BY <1>2, <1>3, <1>4, Successors
<1> QED
  BY <1>1, <1>2, <1>5 DEF ExtractTarGzDir

(* An archive is accepted when nothing ended its extraction.                              *)
LEMMA OutcomeFacts ==
  ASSUME NEW x, x.error \in {"none", "invalid", "cut", "broken"}
  PROVE  Outcome(x) = "ok" <=> x.error = "none"
BY DEF Outcome, Errors

(* An archive without files is refused at the end.                                         *)
LEMMA ClosingFacts ==
  ASSUME NEW x, IsProgress(x)
  PROVE  /\ Closing(x).written = x.written /\ Closing(x).matched = x.matched /\ IsProgress(Closing(x))
         /\ Closing(x).error = "none" <=> x.error = "none" /\ x.count # 0
         /\ Closing(x).error = "none" => Closing(x) = x
BY DEF IsProgress, Closing, Failed

(* Extracted into a directory, an archive is whole.                                     *)
LEMMA DirsWhole ==
  ASSUME NEW entries \in Seq(AnyEntry)
  PROVE  DirIsWhole(entries)
<1> DEFINE e == ExtractTarGzDir(entries)
           N == Len(entries)
<1>1. PICK w : DirInv(w, entries, N) /\ e = Closing(w)
  BY DirReads
<1>2. /\ IsProgress(w) /\ w.error \in {"none", "invalid", "cut", "broken"}
      /\ w.written <= MaxTotalBytes + 1
  BY <1>1 DEF DirInv, IsProgress
<1>3. /\ e.written = w.written /\ e.error \in {"none", "invalid", "cut", "broken"}
      /\ e.error = "none" <=> w.error = "none" /\ w.count # 0
      /\ e.error = "none" => e = w
  BY <1>1, <1>2, ClosingFacts DEF IsProgress
<1>4. Outcome(e) = "ok" <=> e.error = "none"
  BY <1>3, OutcomeFacts
<1>5. /\ N \in Nat /\ DOMAIN entries = 1..N
      /\ Files(entries) \cap (1..N) = Files(entries)
      /\ Inside(entries) \cap (1..N) = Inside(entries)
  BY PlaceFacts
<1>6. MaxFiles \in Nat /\ Cardinality(Files(entries)) \in Nat
  BY PlaceFacts, FS_CardinalityType, LimitsAssumption
<1> HIDE DEF e, N
<1>7. ASSUME Outcome(e) = "ok"
      PROVE  /\ Sound(entries)
             /\ e.files = Described(entries, Inside(entries))
             /\ e.total = Bytes(entries, N)
  <2>1. w.error = "none" /\ w.count # 0 /\ e = w
    BY <1>3, <1>4, <1>7
  <2>2. DirThrough(w, entries, N)
    BY <1>1, <2>1 DEF DirInv
  <2>3. Cardinality(Files(entries)) \in 1..MaxFiles
    <3>1. w.count = Cardinality(Files(entries)) /\ w.count <= MaxFiles
      BY <1>5, <2>2 DEF DirThrough
    <3> QED
      BY <1>6, <2>1, <3>1
  <2>4. Bytes(entries, Len(entries)) <= MaxTotalBytes
    BY <2>2 DEF DirThrough, N
  <2>5. Sound(entries)
    BY <1>5, <2>2, <2>3, <2>4 DEF Sound, DirThrough, Readable
  <2> QED
    BY <1>5, <2>1, <2>2, <2>5 DEF DirThrough
<1>8. ASSUME Fits(entries) PROVE Outcome(e) = "ok"
  <2>1. w.error = "none"
    BY <1>1, <1>8 DEF DirInv
  <2>2. w.count = Cardinality(Files(entries))
    BY <1>1, <1>5, <2>1 DEF DirInv, DirThrough
  <2>3. Cardinality(Files(entries)) # 0
    BY <1>6, <1>8 DEF Fits, Sound
  <2> QED
    BY <1>3, <1>4, <2>1, <2>2, <2>3
<1>9. e.written <= MaxTotalBytes + 1
  BY <1>2, <1>3
<1> QED
  BY <1>7, <1>8, <1>9 DEF DirIsWhole, Fits, e, N

-----------------------------------------------------------------------------
(* Archives: the one file that matches *)

(* What the archive has to be like                                                      *)
HasOne(entries) ==
  /\ Cardinality(Matches(entries)) = 1
  /\ \A i \in Matches(entries) : entries[i].type = "file" /\ entries[i].size <= MaxFileBytes
  /\ \A i \in DOMAIN entries :
       entries[i].type # "garbage" /\ entries[i].path # Outside /\ entries[i].body = "whole"
  /\ Cardinality(Files(entries)) <= MaxFiles

FileThrough(x, entries, n) ==
  /\ \A i \in 1..n :
       entries[i].type # "garbage" /\ entries[i].path # Outside /\ entries[i].body = "whole"
  /\ x.count = Cardinality(Files(entries) \cap (1..n)) /\ x.count <= MaxFiles
  /\ x.matched = Cardinality(Matches(entries) \cap (1..n)) /\ x.matched \in {0, 1}
  /\ x.matched = 0 => x.files = {} /\ x.dirs = {} /\ x.written = 0
  /\ \A i \in Matches(entries) \cap (1..n) :
       entries[i].type = "file" /\ entries[i].size <= MaxFileBytes
  /\ x.files = Described(entries, Matches(entries) \cap (1..n))

FileInv(x, entries, n) ==
  /\ IsProgress(x)
  /\ x.written <= MaxFileBytes + 1
  /\ x.error = "none" => FileThrough(x, entries, n)
  /\ HasOne(entries) => x.error = "none"

(* The same for the one file                                                            *)
LEMMA FileFailed ==
  ASSUME NEW entries \in Seq(AnyEntry), NEW n, NEW x, IsProgress(x), x.written <= MaxFileBytes + 1,
         NEW error \in {"invalid", "cut", "broken"}, ~HasOne(entries)
  PROVE  FileInv(Failed(x, error), entries, n)
<1>1. /\ IsProgress(Failed(x, error))
      /\ Failed(x, error).error = error /\ Failed(x, error).written = x.written
  BY DEF IsProgress, Failed
<1> QED
  BY <1>1 DEF FileInv

(* One entry more of which nothing is extracted                                          *)
LEMMA FileOneMore ==
  ASSUME NEW entries \in Seq(AnyEntry), NEW m \in 1..Len(entries), NEW x, NEW y,
         FileThrough(x, entries, m - 1), m \notin Matches(entries),
         entries[m].type # "garbage", entries[m].path # Outside, entries[m].body = "whole",
         y.count = Cardinality(Files(entries) \cap (1..m)), y.count <= MaxFiles,
         y.matched = x.matched, y.files = x.files, y.dirs = x.dirs, y.written = x.written
  PROVE  FileThrough(y, entries, m)
<1>1. m \in Nat \ {0} /\ \A i \in 1..m : i = m \/ i \in 1..(m - 1)
  OBVIOUS
<1>2. Matches(entries) \cap (1..m) = Matches(entries) \cap (1..(m - 1))
  BY <1>1, PlaceFacts, OnePlaceMore
<1> QED
  BY <1>1, <1>2 DEF FileThrough

(* One entry more for the one file that matches                                            *)
LEMMA FileStep ==
  ASSUME NEW entries \in Seq(AnyEntry), NEW m \in 1..Len(entries), NEW x,
         FileInv(x, entries, m - 1)
  PROVE  FileInv(Read("file", x, entries[m]), entries, m)
<1> DEFINE entry == entries[m]
           isFile == entry.type = "file"
           y == IF isFile THEN [x EXCEPT !.count = @ + 1] ELSE x
           z == Read("file", x, entry)
<1>1. /\ entry \in AnyEntry /\ m \in Nat \ {0} /\ m - 1 \in Nat
      /\ DOMAIN entries = 1..Len(entries)
      /\ IsFiniteSet(Files(entries)) /\ IsFiniteSet(Matches(entries))
  BY PlaceFacts
<1>2. /\ entry.type \in {"file", "dir", "header", "link", "garbage"}
      /\ entry.body \in {"whole", "cut", "broken"} /\ entry.size \in Nat
  BY <1>1, EntryFacts
<1>3. MaxFiles \in Nat /\ MaxFileBytes \in Nat
  BY LimitsAssumption
<1>4. IsProgress(x) /\ x.written <= MaxFileBytes + 1
  BY DEF FileInv
<1>5. CASE x.error # "none"
  <2>1. z = x
    BY <1>5 DEF Read
  <2> QED
    BY <1>5, <2>1 DEF FileInv
<1>6. CASE x.error = "none"
  <2>1. FileThrough(x, entries, m - 1)
    BY <1>6 DEF FileInv
  <2>2. /\ IsProgress(y) /\ y.error = "none" /\ y.total = x.total /\ y.written = x.written
        /\ y.matched = x.matched
        /\ y.files = x.files /\ y.dirs = x.dirs /\ y.written <= MaxFileBytes + 1
    BY <1>4, <1>6 DEF IsProgress
  <2>3. y.count = Cardinality(Files(entries) \cap (1..m))
    <3>1. isFile <=> m \in Files(entries)
      BY <1>1 DEF Files
    <3>2. x.count = Cardinality(Files(entries) \cap (1..(m - 1))) /\ x.count \in Nat
      BY <1>4, <2>1 DEF FileThrough, IsProgress
    <3>3. y.count = IF isFile THEN x.count + 1 ELSE x.count
      BY <1>4 DEF IsProgress
    <3>4. /\ m \in Files(entries) => Cardinality(Files(entries) \cap (1..m)) =
                                       Cardinality(Files(entries) \cap (1..(m - 1))) + 1
          /\ m \notin Files(entries) => Files(entries) \cap (1..m) = Files(entries) \cap (1..(m - 1))
      BY <1>1, OnePlaceMore
    <3> QED
      BY <3>1, <3>2, <3>3, <3>4
  <2>4. m \in Matches(entries) <=>
          entry.path \in Matching /\ entry.path # Root /\ entry.type # "dir"
    BY <1>1 DEF Matches
  <2>5. CASE entry.type = "garbage" \/ y.count > MaxFiles
    <3>1. z = Failed(y, "invalid")
      BY <1>6, <2>5 DEF Read
    <3>2. ~HasOne(entries)
      <4>1. CASE entry.type = "garbage"
        BY <1>1, <4>1 DEF HasOne
      <4>2. CASE y.count > MaxFiles
        <5>1. /\ Cardinality(Files(entries) \cap (1..m)) <= Cardinality(Files(entries))
              /\ Cardinality(Files(entries) \cap (1..m)) \in Nat /\ Cardinality(Files(entries)) \in Nat
          BY <1>1, OnePlaceMore
        <5>2. ~(Cardinality(Files(entries)) <= MaxFiles)
          BY <1>3, <2>3, <4>2, <5>1
        <5> QED
          BY <5>2 DEF HasOne
      <4> QED
        BY <2>5, <4>1, <4>2
    <3> QED
      BY <2>2, <3>1, <3>2, FileFailed
  <2>6. CASE ~(entry.type = "garbage" \/ y.count > MaxFiles)
    <3>1. z = OnlyMatch(y, entry)
      BY <1>6, <2>6 DEF Read
    <3> SUFFICES FileInv(z, entries, m)
      OBVIOUS
    <3> HIDE DEF z, y
    <3>2. y.count <= MaxFiles
      BY <1>3, <2>2, <2>6 DEF IsProgress
    <3>3. CASE entry.path = Outside
      <4>1. z = Failed(y, "invalid")
        BY <3>1, <3>3 DEF OnlyMatch
      <4>2. ~HasOne(entries)
        BY <1>1, <3>3 DEF HasOne
      <4> QED
        BY <2>2, <4>1, <4>2, FileFailed
    <3>4. CASE entry.path # Outside /\ m \notin Matches(entries)
      <4>1. z = Skipped(y, entry)
        BY <2>4, <3>1, <3>4 DEF OnlyMatch
      <4>2. CASE entry.body # "whole"
        <5>1. z = Failed(y, "invalid")
          BY <4>1, <4>2 DEF Skipped
        <5>2. ~HasOne(entries)
          BY <1>1, <4>2 DEF HasOne
        <5> QED
          BY <2>2, <5>1, <5>2, FileFailed
      <4>3. CASE entry.body = "whole"
        <5>1. z = y
          BY <4>1, <4>3 DEF Skipped
        <5>2. FileThrough(y, entries, m)
          BY <2>1, <2>2, <2>3, <2>6, <3>2, <3>4, <4>3, FileOneMore
        <5> QED
          BY <2>2, <5>1, <5>2 DEF FileInv
      <4> QED
        BY <4>2, <4>3
    <3>5. CASE entry.path # Outside /\ m \in Matches(entries)
      <4> DEFINE one == [y EXCEPT !.matched = 1]
      <4>1. z = IF entry.type # "file" \/ y.matched = 1 THEN Failed(y, "invalid")
                ELSE ExtractTarFile(one, entry, MaxFileBytes)
        BY <2>4, <3>1, <3>5 DEF OnlyMatch
      <4>2. /\ Matches(entries) \cap (1..m) = (Matches(entries) \cap (1..(m - 1))) \cup {m}
            /\ Cardinality(Matches(entries) \cap (1..m)) = y.matched + 1
            /\ Cardinality(Matches(entries) \cap (1..m)) <= Cardinality(Matches(entries))
            /\ Cardinality(Matches(entries)) \in Nat
        <5>1. y.matched = Cardinality(Matches(entries) \cap (1..(m - 1)))
          BY <2>1, <2>2 DEF FileThrough
        <5>2. /\ Matches(entries) \cap (1..m) = (Matches(entries) \cap (1..(m - 1))) \cup {m}
              /\ Cardinality(Matches(entries) \cap (1..m)) =
                   Cardinality(Matches(entries) \cap (1..(m - 1))) + 1
          BY <1>1, <3>5, OnePlaceMore
        <5>3. /\ Cardinality(Matches(entries) \cap (1..m)) <= Cardinality(Matches(entries))
              /\ Cardinality(Matches(entries)) \in Nat
          BY <1>1, OnePlaceMore
        <5> QED
          BY <5>1, <5>2, <5>3
      <4>3. y.matched \in {0, 1}
        BY <2>1, <2>2 DEF FileThrough
      <4>4. CASE entry.type # "file" \/ y.matched = 1
        <5>1. z = Failed(y, "invalid")
          BY <4>1, <4>4
        <5>2. ~HasOne(entries)
          <6>1. CASE entry.type # "file"
            BY <3>5, <6>1 DEF HasOne
          <6>2. CASE y.matched = 1
            <7>1. Cardinality(Matches(entries)) # 1
              BY <4>2, <6>2
            <7> QED
              BY <7>1 DEF HasOne
          <6> QED
            BY <4>4, <6>1, <6>2
        <5> QED
          BY <2>2, <5>1, <5>2, FileFailed
      <4>5. CASE entry.type = "file" /\ y.matched = 0
        <5>1. z = ExtractTarFile(one, entry, MaxFileBytes)
          BY <4>1, <4>5
        <5>2. /\ y.files = {} /\ y.dirs = {} /\ y.written = 0
          BY <2>1, <2>2, <4>5 DEF FileThrough
        <5>3. /\ IsProgress(one) /\ one.error = "none" /\ one.files = {} /\ one.dirs = {}
              /\ one.written = 0 /\ one.matched = 1 /\ one.count = y.count
          BY <2>2, <5>2 DEF IsProgress
        <5> HIDE DEF one
        <5>4. CanMakeFile(one, entry.path)
          BY <5>3 DEF CanMakeFile, CanMakeDir, Paths
        <5>5. \/ Unmade(z, one, entry) \/ Unwritten(z, one, entry, MaxFileBytes)
              \/ Extracted(z, one, entry, MaxFileBytes)
          BY <1>1, <1>3, <5>1, <5>3, ExtractFacts
        <5>6. ASSUME NEW error \in {"invalid", "cut", "broken"}, NEW n \in Nat,
                     z = Failed([one EXCEPT !.written = @ + n], error), n <= MaxFileBytes + 1,
                     entry.size > MaxFileBytes \/ entry.body # "whole"
              PROVE  FileInv(z, entries, m)
          <6> DEFINE w == [one EXCEPT !.written = @ + n]
          <6>1. IsProgress(w) /\ w.written = n
            BY <5>3 DEF IsProgress
          <6>2. ~HasOne(entries)
            BY <1>1, <1>2, <1>3, <3>5, <5>6 DEF HasOne
          <6>3. z = Failed(w, error) /\ w.written <= MaxFileBytes + 1
            BY <5>6, <6>1
          <6> HIDE DEF w
          <6> QED
            BY <6>1, <6>2, <6>3, FileFailed
        <5>7. CASE Extracted(z, one, entry, MaxFileBytes)
          <6>1. /\ z.error = "none" /\ entry.size <= MaxFileBytes /\ entry.body = "whole"
                /\ IsProgress(z) /\ z.count = y.count /\ z.matched = 1
                /\ z.written = entry.size
                /\ z.files = {[path |-> entry.path, size |-> entry.size]}
            BY <1>2, <5>3, <5>7 DEF Extracted
          <6>2. Matches(entries) \cap (1..m) = {m}
            <7>1. Cardinality(Matches(entries) \cap (1..(m - 1))) = 0
              BY <2>1, <2>2, <4>5 DEF FileThrough
            <7>2. IsFiniteSet(Matches(entries) \cap (1..(m - 1)))
              BY <1>1, FS_Intersection
            <7>3. Matches(entries) \cap (1..(m - 1)) = {}
              BY <7>1, <7>2, FS_EmptySet
            <7> QED
              BY <4>2, <7>3
          <6>3. z.files = Described(entries, Matches(entries) \cap (1..m))
            BY <6>1, <6>2 DEF Described
          <6>4. z.matched = Cardinality(Matches(entries) \cap (1..m)) /\ z.matched \in {0, 1}
                /\ z.matched # 0
            BY <4>2, <4>5, <6>1
          <6>5. z.count = Cardinality(Files(entries) \cap (1..m)) /\ z.count <= MaxFiles
            BY <2>3, <3>2, <6>1
          <6>6. \A i \in 1..m : entries[i].type # "garbage" /\ entries[i].path # Outside
                                /\ entries[i].body = "whole"
            <7>1. \A i \in 1..m : i = m \/ i \in 1..(m - 1)
              OBVIOUS
            <7> QED
              BY <2>1, <3>5, <4>5, <6>1, <7>1 DEF FileThrough
          <6>7. \A i \in Matches(entries) \cap (1..m) :
                  entries[i].type = "file" /\ entries[i].size <= MaxFileBytes
            BY <4>5, <6>1, <6>2
          <6>8. FileThrough(z, entries, m)
            BY <6>3, <6>4, <6>5, <6>6, <6>7 DEF FileThrough
          <6>9. z.written <= MaxFileBytes + 1
            BY <1>2, <1>3, <6>1
          <6> QED
            BY <6>1, <6>8, <6>9 DEF FileInv
        <5> QED
          BY <5>4, <5>5, <5>6, <5>7 DEF Unmade, Unwritten
      <4> QED
        BY <4>3, <4>4, <4>5
    <3> QED
      BY <3>3, <3>4, <3>5
  <2> QED
    BY <2>5, <2>6
<1> QED
  BY <1>5, <1>6

(* What is so of the start, and stays so from turn to turn, is so at the end.           *)
LEMMA FileReads ==
  ASSUME NEW entries \in Seq(AnyEntry)
  PROVE  \E w : FileInv(w, entries, Len(entries)) /\ ReadTarGz("file", entries) = Closing(w)
<1>1. PICK x : Reads(x, "file", entries) /\ ReadTarGz("file", entries) = Closing(x[Len(entries)])
  BY ReadTurns
<1>2. Len(entries) \in Nat
  OBVIOUS
<1> DEFINE reached == {n \in Nat : n <= Len(entries) => FileInv(x[n], entries, n)}
<1>3. 0 \in reached
  <2>1. /\ IsProgress(Start) /\ Start.error = "none" /\ Start.written = 0 /\ Start.matched = 0
        /\ Start.count = 0 /\ Start.files = {} /\ Start.dirs = {}
    BY DEF Start, IsProgress
  <2>2. 1..0 = {} /\ MaxFiles \in Nat /\ MaxFileBytes \in Nat
    BY LimitsAssumption
  <2>3. Cardinality(Files(entries) \cap (1..0)) = 0 /\ Cardinality(Matches(entries) \cap (1..0)) = 0
    BY <2>2, FS_EmptySet
  <2>4. Described(entries, Matches(entries) \cap (1..0)) = {}
    BY <2>2 DEF Described
  <2>5. FileThrough(Start, entries, 0)
    BY <2>1, <2>2, <2>3, <2>4 DEF FileThrough
  <2>6. FileInv(Start, entries, 0)
    BY <2>1, <2>2, <2>5 DEF FileInv
  <2> QED
    BY <1>1, <2>6 DEF Reads
<1>4. ASSUME NEW n \in Nat, n \in reached PROVE n + 1 \in reached
  <2>1. SUFFICES ASSUME n + 1 <= Len(entries) PROVE FileInv(x[n + 1], entries, n + 1)
    OBVIOUS
  <2>2. n + 1 \in 1..Len(entries) /\ (n + 1) - 1 = n /\ n <= Len(entries)
    BY <1>2, <2>1
  <2>3. FileInv(x[n], entries, (n + 1) - 1)
    BY <1>4, <2>2
  <2>4. x[n + 1] = Read("file", x[n], entries[n + 1])
    BY <1>1, <2>2 DEF Reads
  <2> QED
    BY <2>2, <2>3, <2>4, FileStep
<1>5. Len(entries) \in reached
  <2> HIDE DEF reached
  <2> QED
    BY <1>2, <1>3, <1>4, Successors
<1> QED
  BY <1>1, <1>2, <1>5

(* The one file that matches is extracted whole.                                        *)
LEMMA FilesWhole ==
  ASSUME NEW entries \in Seq(AnyEntry)
  PROVE  FileIsWhole(entries)
<1> DEFINE r == ReadTarGz("file", entries)
           e == ExtractTarGzFile(entries)
           N == Len(entries)
<1>1. PICK w : FileInv(w, entries, N) /\ r = Closing(w)
  BY FileReads
<1>2. IsProgress(w) /\ w.written <= MaxFileBytes + 1
  BY <1>1 DEF FileInv
<1>3. /\ r.written = w.written /\ r.matched = w.matched /\ IsProgress(r)
      /\ r.error = "none" <=> w.error = "none" /\ w.count # 0
      /\ r.error = "none" => r = w
  BY <1>1, <1>2, ClosingFacts
<1>4. e = IF r.error = "none" /\ r.matched = 0 THEN Failed(r, "invalid") ELSE r
  BY DEF ExtractTarGzFile
<1> HIDE DEF r, e
<1>5. /\ e.written = w.written /\ e.error \in {"none", "invalid", "cut", "broken"}
      /\ e.error = "none" <=> w.error = "none" /\ w.count # 0 /\ w.matched # 0
      /\ e.error = "none" => e = w
  BY <1>3, <1>4 DEF IsProgress, Failed
<1>6. Outcome(e) = "ok" <=> e.error = "none"
  BY <1>5, OutcomeFacts
<1>7. /\ N \in Nat /\ DOMAIN entries = 1..N
      /\ Files(entries) \cap (1..N) = Files(entries)
      /\ Matches(entries) \cap (1..N) = Matches(entries)
  BY PlaceFacts
<1> HIDE DEF N
<1>8. ASSUME Outcome(e) = "ok"
      PROVE  HasOne(entries) /\ e.files = Described(entries, Matches(entries))
  <2>1. w.error = "none" /\ w.matched # 0 /\ e = w
    BY <1>5, <1>6, <1>8
  <2>2. FileThrough(w, entries, N)
    BY <1>1, <2>1 DEF FileInv
  <2> QED
    BY <1>7, <2>1, <2>2 DEF FileThrough, HasOne
<1>9. ASSUME HasOne(entries) PROVE Outcome(e) = "ok"
  <2>1. w.error = "none"
    BY <1>1, <1>9 DEF FileInv
  <2>2. w.count = Cardinality(Files(entries)) /\ w.matched = Cardinality(Matches(entries))
    BY <1>1, <1>7, <2>1 DEF FileInv, FileThrough
  <2>3. w.matched # 0
    BY <1>9, <2>2 DEF HasOne
  <2>4. Cardinality(Files(entries)) # 0
    <3>1. Matches(entries) \subseteq Files(entries)
      BY <1>9, PlaceFacts DEF HasOne, Files
    <3>2. Files(entries) # {}
      <4>1. Matches(entries) # {}
        BY <1>9, FS_EmptySet DEF HasOne
      <4> QED
        BY <3>1, <4>1
    <3> QED
      BY <3>2, PlaceFacts, FS_EmptySet
  <2> QED
    BY <1>5, <1>6, <2>1, <2>2, <2>3, <2>4
<1>10. e.written <= MaxFileBytes + 1
  BY <1>2, <1>5
<1> QED
  BY <1>8, <1>9, <1>10 DEF FileIsWhole, HasOne, e

-----------------------------------------------------------------------------
(* Archives: what the syncs rely on *)

(* Whatever its entries are, and wherever its stream breaks, an archive is extracted whole and      *)
(* within the limits, or refused, and no sound one is refused: extractTarGzDir for a directory,       *)
(* extractTarGzFile for the file of a MaxMind source.                                   *)
THEOREM ArchivesAreExtractedWhole == SyncSpec => []ArchivesExtractWhole
<1>1. DirsAreWhole /\ FilesAreWhole
  BY ArchivesAssumption, DirsWhole, FilesWhole DEF DirsAreWhole, FilesAreWhole
<1>2. SyncInv => ArchivesExtractWhole
  BY <1>1 DEF ArchivesExtractWhole
<1> QED
  BY <1>2, SyncInvariantHolds, PTL
=============================================================================
