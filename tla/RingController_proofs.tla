------------------------ MODULE RingController_proofs -----------------------
(***************************************************************************)
(* Proofs about RingController, for any set of tenants, any subset of      *)
(* rejecting dependencies and any number of crashes.                       *)
(*                                                                         *)
(* IInv, the conjunction stated in RingController, is inductive.  Each of  *)
(* its conjuncts has a lemma saying that every step preserves it, with one *)
(* step per action; most need only TypeOK and PcState besides themselves.  *)
(* The theorems at the end read the properties off IInv.                   *)
(***************************************************************************)
EXTENDS RingController, TLAPS

-----------------------------------------------------------------------------
(* What the steps' building blocks keep typed.                             *)

WorldOK ==
    /\ diskState \in [Tenants -> BumpState \cup {"none"}]
    /\ diskPaged \in [Tenants -> BOOLEAN]
    /\ running \in [Tenants -> SUBSET {"old", "new"}]
    /\ traffic \in [Tenants -> SUBSET {"old", "new"}]
    /\ paged \in [Tenants -> BOOLEAN]

MachineOK == pc \in [Tenants -> Promises] /\ state \in [Tenants -> BumpState]

SweepOK == lock \in Seq(Tenants) /\ recovering \in Tenants \cup {None}

\* A call that settles, landed or not, leaves the world typed.
LEMMA SettledWorld ==
    ASSUME TypeOK, NEW t \in Tenants, Landed(t) \/ NotLanded
    PROVE  WorldOK'
<1>1. CASE Landed(t)
  <2>1. DiskStateLanded(t) \in BumpState \cup {"none"} /\ DiskPagedLanded(t) \in BOOLEAN
    BY DEF TypeOK, DiskStateLanded, DiskPagedLanded
  <2>2. RunningLanded(t) \in SUBSET {"old", "new"} /\ TrafficLanded(t) \in SUBSET {"old", "new"}
    BY DEF TypeOK, RunningLanded, Stopping, TrafficLanded
  <2>3. PagedLanded(t) \in BOOLEAN
    BY DEF TypeOK, PagedLanded
  <2> QED
    BY <1>1, <2>1, <2>2, <2>3 DEF Landed, WorldOK, TypeOK
<1>2. CASE NotLanded
  BY <1>2 DEF NotLanded, WorldOK, TypeOK
<1> QED
  BY <1>1, <1>2

\* Entering a state keeps the machine typed.
LEMMA EnteredMachine ==
    ASSUME TypeOK, NEW t \in Tenants, NEW s \in BumpState, Enter(t, s)
    PROVE  MachineOK'
  BY DEF TypeOK, MachineOK, Enter, Promises

\* A flow that ends or rejects keeps the machine, the lock and the sweep typed.
LEMMA EndedFlow ==
    ASSUME TypeOK, NEW t \in Tenants, Finish(t) \/ FlowRejects(t)
    PROVE  MachineOK' /\ SweepOK'
<1>1. lock' \in Seq(Tenants)
  <2>1. Release(t)
    BY DEF Finish, FlowRejects, FlowEnds
  <2>2. lock # <<>> => Tail(lock) \in Seq(Tenants)
    BY DEF TypeOK
  <2> QED
    BY <2>1, <2>2 DEF TypeOK, Release
<1>2. recovering' \in Tenants \cup {None}
  BY DEF TypeOK, Finish, FlowRejects, FlowEnds
<1>3. MachineOK'
  BY DEF TypeOK, MachineOK, Finish, FlowRejects, Awaits, Promises
<1> QED
  BY <1>1, <1>2, <1>3 DEF SweepOK

\* The parts typed above and the variables a machine's step leaves alone.
LEMMA TypeParts ==
    ASSUME TypeOK, WorldOK', MachineOK', SweepOK', Others
    PROVE  TypeOK'
  BY DEF TypeOK, WorldOK, MachineOK, SweepOK, Others

-----------------------------------------------------------------------------
\* Every step preserves the type invariant.
LEMMA TypeStep ==
    ASSUME TypeOK, [Next]_vars
    PROVE  TypeOK'
<1> USE DEF Enter, Awaits, Release, KeepLock, FlowEnds, Finish, FlowRejects, Resolves, Rejected,
            Running, Others, world, process,
            Landed, NotLanded, DiskStateLanded, DiskPagedLanded, RunningLanded, Stopping,
            TrafficLanded, PagedLanded, TypeOK, BumpState, Promises, Migration
<1>1. ASSUME NEW t \in Tenants, SavedThenCalls(t) PROVE TypeOK'
  BY <1>1 DEF SavedThenCalls, CallOf
<1>2. ASSUME NEW t \in Tenants, SavedThenRests(t) PROVE TypeOK'
  BY <1>2 DEF SavedThenRests
<1>3. ASSUME NEW t \in Tenants, SavedThenQueues(t) PROVE TypeOK'
  BY <1>3 DEF SavedThenQueues
<1>4. ASSUME NEW t \in Tenants, SavedThenApplies(t) PROVE TypeOK'
  BY <1>4 DEF SavedThenApplies
<1>5. ASSUME NEW t \in Tenants, SavedThenReverts(t) PROVE TypeOK'
  BY <1>5 DEF SavedThenReverts
<1>6. ASSUME NEW t \in Tenants, SavedPaged(t) PROVE TypeOK'
  BY <1>6 DEF SavedPaged
<1>7. ASSUME NEW t \in Tenants, SaveRejects(t) PROVE TypeOK'
  <2>1. WorldOK'
    BY <1>7, SettledWorld DEF SaveRejects, Resolves, Rejected
  <2>2. MachineOK' /\ SweepOK'
    BY <1>7, EndedFlow DEF SaveRejects, KeepLock, SweepOK, TypeOK, BumpState
  <2> QED
    BY <1>7, <2>1, <2>2, TypeParts DEF SaveRejects
<1>8. ASSUME NEW t \in Tenants, BackupSettles(t) PROVE TypeOK'
  <2>1. WorldOK'
    BY <1>8, SettledWorld DEF BackupSettles, Resolves, Rejected
  <2>2. MachineOK' /\ SweepOK'
    <3>1. CASE FlowRejects(t)
      BY <3>1, EndedFlow
    <3>2. ASSUME NEW s \in {"cancelled", "backed-up", "backup-failed"}, Enter(t, s), KeepLock
          PROVE  MachineOK' /\ SweepOK'
      BY <3>2, EnteredMachine DEF BumpState, KeepLock, SweepOK, TypeOK
    <3> QED
      BY <1>8, <3>1, <3>2 DEF BackupSettles
  <2> QED
    BY <1>8, <2>1, <2>2, TypeParts DEF BackupSettles
<1>9. ASSUME NEW t \in Tenants, LockGranted(t) PROVE TypeOK'
  BY <1>9 DEF LockGranted
<1>10. ASSUME NEW t \in Tenants, ApplyResolves(t) PROVE TypeOK'
  <2>1. MachineOK'
    BY <1>10 DEF ApplyResolves, MachineOK, TypeOK, BumpState, Promises
  <2>2. WorldOK' /\ SweepOK'
    BY <1>10, SettledWorld DEF ApplyResolves, Release, SweepOK, TypeOK
  <2> QED
    BY <1>10, <2>1, <2>2, TypeParts DEF ApplyResolves
<1>11. ASSUME NEW t \in Tenants, ApplyRejects(t) PROVE TypeOK'
  BY <1>11 DEF ApplyRejects
<1>12. ASSUME NEW t \in Tenants, ProbeSettles(t) PROVE TypeOK'
  BY <1>12 DEF ProbeSettles
<1>13. ASSUME NEW t \in Tenants, VerifySettles(t) PROVE TypeOK'
  BY <1>13 DEF VerifySettles
<1>14. ASSUME NEW t \in Tenants, RevertSettles(t) PROVE TypeOK'
  BY <1>14 DEF RevertSettles
<1>15. ASSUME NEW t \in Tenants, StopNewSettles(t) PROVE TypeOK'
  <2>1. WorldOK'
    BY <1>15, SettledWorld DEF StopNewSettles, Resolves, Rejected
  <2>2. MachineOK' /\ SweepOK'
    BY <1>15, EndedFlow, EnteredMachine DEF StopNewSettles, KeepLock, SweepOK, TypeOK, BumpState
  <2> QED
    BY <1>15, <2>1, <2>2, TypeParts DEF StopNewSettles
<1>16. ASSUME NEW t \in Tenants, RestopSettles(t) PROVE TypeOK'
  <2>1. WorldOK'
    BY <1>16, SettledWorld DEF RestopSettles, Resolves, Rejected
  <2>2. MachineOK' /\ SweepOK'
    BY <1>16, EndedFlow DEF RestopSettles, KeepLock, SweepOK, TypeOK, BumpState
  <2> QED
    BY <1>16, <2>1, <2>2, TypeParts DEF RestopSettles
<1>17. ASSUME NEW t \in Tenants, StopOldSettles(t) PROVE TypeOK'
  <2>1. WorldOK'
    BY <1>17, SettledWorld DEF StopOldSettles, Resolves, Rejected
  <2>2. MachineOK' /\ SweepOK'
    BY <1>17, EndedFlow, EnteredMachine DEF StopOldSettles, KeepLock, SweepOK, TypeOK, BumpState
  <2> QED
    BY <1>17, <2>1, <2>2, TypeParts DEF StopOldSettles
<1>18. ASSUME NEW t \in Tenants, PageSettles(t) PROVE TypeOK'
  <2>1. WorldOK'
    BY <1>18, SettledWorld DEF PageSettles, Resolves, Rejected
  <2>2. MachineOK' /\ SweepOK'
    <3>1. CASE Awaits(t, "savingPaged") /\ KeepLock
      BY <3>1 DEF Awaits, KeepLock, MachineOK, SweepOK, TypeOK, Promises
    <3> QED
      BY <1>18, <3>1, EndedFlow DEF PageSettles
  <2> QED
    BY <1>18, <2>1, <2>2, TypeParts DEF PageSettles
<1>19. ASSUME NEW t \in Tenants, NewMachine(t) PROVE TypeOK'
  BY <1>19 DEF NewMachine
<1>20. ASSUME NEW t \in Tenants, Run(t) PROVE TypeOK'
  BY <1>20 DEF Run
<1>21. ASSUME NEW t \in Tenants, Abort(t) PROVE TypeOK'
  BY <1>21 DEF Abort
<1>22. ASSUME NEW t \in Tenants, CloseBakeWindow(t) PROVE TypeOK'
  BY <1>22 DEF CloseBakeWindow
<1>23. ASSUME NEW t \in Tenants, AbortAfterDone(t) PROVE TypeOK'
  BY <1>23 DEF AbortAfterDone
<1>24. ASSUME NEW t \in Tenants, RecoverNext(t) PROVE TypeOK'
  <2>1. MachineOK' /\ lock' \in Seq(Tenants)
    <3>1. ASSUME NEW s \in BumpState, NEW p \in Promises,
                 state' = [state EXCEPT ![t] = s], pc' = [pc EXCEPT ![t] = p]
          PROVE  MachineOK'
      BY <3>1 DEF MachineOK
    <3>2. CASE RecoverySteps(t)
      <4>1. MachineOK'
        BY <3>1, <3>2 DEF RecoverySteps, RecoveryCallOf
      <4>2. lock' = lock \/ lock' = Append(lock, t)
        BY <3>2 DEF RecoverySteps
      <4>3. lock \in Seq(Tenants) /\ Append(lock, t) \in Seq(Tenants)
        BY DEF TypeOK
      <4> QED
        BY <4>1, <4>2, <4>3
    <3>3. CASE ~RecoverySteps(t)
      BY <1>24, <3>1, <3>3 DEF RecoverNext
    <3> QED
      BY <3>2, <3>3
  <2>2. recovering' \in Tenants \cup {None}
    BY <1>24 DEF RecoverNext
  <2> QED
    BY <1>24, <2>1, <2>2 DEF RecoverNext, MachineOK
<1>25. ASSUME NEW t \in Tenants, MigrationEnds(t) PROVE TypeOK'
  BY <1>25 DEF MigrationEnds
<1>26. CASE Crash
  <2>1. ASSUME NEW t \in Tenants
        PROVE  /\ DiskStateLanded(t) \in BumpState \cup {"none"} /\ DiskPagedLanded(t) \in BOOLEAN
               /\ RunningLanded(t) \in SUBSET {"old", "new"} /\ PagedLanded(t) \in BOOLEAN
               /\ TrafficLanded(t) \in SUBSET {"old", "new"}
    BY DEF DiskStateLanded, DiskPagedLanded, RunningLanded, Stopping, TrafficLanded, PagedLanded
  <2> HIDE DEF DiskStateLanded, DiskPagedLanded, RunningLanded, TrafficLanded, PagedLanded
  <2>2. PICK landed \in SUBSET Tenants :
          /\ diskState' = [t \in Tenants |->
               IF t \in landed THEN DiskStateLanded(t) ELSE diskState[t]]
          /\ diskPaged' = [t \in Tenants |->
               IF t \in landed THEN DiskPagedLanded(t) ELSE diskPaged[t]]
          /\ running' = [t \in Tenants |->
               IF t \in landed THEN RunningLanded(t) ELSE running[t]]
          /\ traffic' = [t \in Tenants |->
               IF t \in landed THEN TrafficLanded(t) ELSE traffic[t]]
          /\ paged' = [t \in Tenants |->
               IF t \in landed THEN PagedLanded(t) ELSE paged[t]]
    BY <1>26 DEF Crash
  <2>3. /\ diskState' \in [Tenants -> BumpState \cup {"none"}]
        /\ diskPaged' \in [Tenants -> BOOLEAN]
    BY <2>1, <2>2
  <2>4. /\ running' \in [Tenants -> SUBSET {"old", "new"}]
        /\ traffic' \in [Tenants -> SUBSET {"old", "new"}]
    BY <2>1, <2>2
  <2>5. paged' \in [Tenants -> BOOLEAN]
    BY <2>1, <2>2
  <2>6. /\ sweep' = {} /\ recovering' = None /\ lock' = <<>>
        /\ pc' \in [Tenants -> Promises] /\ up' = FALSE /\ crashes' = crashes + 1
    BY <1>26 DEF Crash
  <2>7. /\ state' \in [Tenants -> BumpState] /\ abort' \in [Tenants -> BOOLEAN]
        /\ mig' \in [Tenants -> Migration]
    BY <1>26 DEF Crash
  <2>8. <<>> \in Seq(Tenants)
    OBVIOUS
  <2>9. crashes + 1 \in Nat
    BY DEF TypeOK
  <2> HIDE DEF BumpState, Promises, Migration
  <2> QED
    BY <2>3, <2>4, <2>5, <2>6, <2>7, <2>8, <2>9 DEF TypeOK
<1>27. CASE Restart
  BY <1>27 DEF Restart
<1>28. CASE UNCHANGED vars
  BY <1>28 DEF vars
<1> QED
  BY <1>1, <1>2, <1>3, <1>4, <1>5, <1>6, <1>7, <1>8, <1>9, <1>10, <1>11, <1>12, <1>13, <1>14,
     <1>15, <1>16, <1>17, <1>18, <1>19, <1>20, <1>21, <1>22, <1>23, <1>24, <1>25,
     <1>26, <1>27, <1>28
  DEF Next, MachineStep, CallerStep

\* Every step preserves the link between what a machine awaits and its state.
LEMMA PcStateStep ==
    ASSUME TypeOK, PcState, [Next]_vars
    PROVE  PcState'
<1> USE DEF Enter, Awaits, Release, KeepLock, FlowEnds, Finish, FlowRejects, Resolves, Rejected,
            Running, Others, world, process,
            Landed, NotLanded, DiskStateLanded, DiskPagedLanded, RunningLanded, Stopping,
            TrafficLanded, PagedLanded, TypeOK, PcState
<1>1. ASSUME NEW t \in Tenants, SavedThenCalls(t) PROVE PcState'
  BY <1>1 DEF SavedThenCalls, CallOf
<1>2. ASSUME NEW t \in Tenants, SavedThenRests(t) PROVE PcState'
  BY <1>2 DEF SavedThenRests
<1>3. ASSUME NEW t \in Tenants, SavedThenQueues(t) PROVE PcState'
  BY <1>3 DEF SavedThenQueues
<1>4. ASSUME NEW t \in Tenants, SavedThenApplies(t) PROVE PcState'
  BY <1>4 DEF SavedThenApplies
<1>5. ASSUME NEW t \in Tenants, SavedThenReverts(t) PROVE PcState'
  BY <1>5 DEF SavedThenReverts
<1>6. ASSUME NEW t \in Tenants, SavedPaged(t) PROVE PcState'
  BY <1>6 DEF SavedPaged
<1>7. ASSUME NEW t \in Tenants, SaveRejects(t) PROVE PcState'
  BY <1>7 DEF SaveRejects
<1>8. ASSUME NEW t \in Tenants, BackupSettles(t) PROVE PcState'
  BY <1>8 DEF BackupSettles
<1>9. ASSUME NEW t \in Tenants, LockGranted(t) PROVE PcState'
  BY <1>9 DEF LockGranted
<1>10. ASSUME NEW t \in Tenants, ApplyResolves(t) PROVE PcState'
  BY <1>10 DEF ApplyResolves
<1>11. ASSUME NEW t \in Tenants, ApplyRejects(t) PROVE PcState'
  BY <1>11 DEF ApplyRejects
<1>12. ASSUME NEW t \in Tenants, ProbeSettles(t) PROVE PcState'
  BY <1>12 DEF ProbeSettles
<1>13. ASSUME NEW t \in Tenants, VerifySettles(t) PROVE PcState'
  BY <1>13 DEF VerifySettles
<1>14. ASSUME NEW t \in Tenants, RevertSettles(t) PROVE PcState'
  BY <1>14 DEF RevertSettles
<1>15. ASSUME NEW t \in Tenants, StopNewSettles(t) PROVE PcState'
  BY <1>15 DEF StopNewSettles
<1>16. ASSUME NEW t \in Tenants, RestopSettles(t) PROVE PcState'
  BY <1>16 DEF RestopSettles
<1>17. ASSUME NEW t \in Tenants, StopOldSettles(t) PROVE PcState'
  BY <1>17 DEF StopOldSettles
<1>18. ASSUME NEW t \in Tenants, PageSettles(t) PROVE PcState'
  BY <1>18 DEF PageSettles
<1>19. ASSUME NEW t \in Tenants, NewMachine(t) PROVE PcState'
  BY <1>19 DEF NewMachine
<1>20. ASSUME NEW t \in Tenants, Run(t) PROVE PcState'
  BY <1>20 DEF Run
<1>21. ASSUME NEW t \in Tenants, Abort(t) PROVE PcState'
  BY <1>21 DEF Abort
<1>22. ASSUME NEW t \in Tenants, CloseBakeWindow(t) PROVE PcState'
  BY <1>22 DEF CloseBakeWindow
<1>23. ASSUME NEW t \in Tenants, AbortAfterDone(t) PROVE PcState'
  BY <1>23 DEF AbortAfterDone
<1>24. ASSUME NEW t \in Tenants, RecoverNext(t) PROVE PcState'
  BY <1>24 DEF RecoverNext, RecoverySteps, RecoveryCallOf
<1>25. ASSUME NEW t \in Tenants, MigrationEnds(t) PROVE PcState'
  BY <1>25 DEF MigrationEnds
<1>26. CASE Crash
  BY <1>26 DEF Crash
<1>27. CASE Restart
  BY <1>27 DEF Restart
<1>28. CASE UNCHANGED vars
  BY <1>28 DEF vars
<1> QED
  BY <1>1, <1>2, <1>3, <1>4, <1>5, <1>6, <1>7, <1>8, <1>9, <1>10, <1>11, <1>12, <1>13, <1>14,
     <1>15, <1>16, <1>17, <1>18, <1>19, <1>20, <1>21, <1>22, <1>23, <1>24, <1>25,
     <1>26, <1>27, <1>28
  DEF Next, MachineStep, CallerStep

\* Queueing on the lock leaves the head of the promise chain where it is.
LEMMA AppendKeepsHead ==
    \A S : \A s \in Seq(S) : \A x \in S :
        s # <<>> => Append(s, x) # <<>> /\ Head(Append(s, x)) = Head(s)
OBVIOUS

\* Every step keeps whoever is inside the lock at the head of the chain.
LEMMA HolderStep ==
    ASSUME TypeOK, PcState, HolderIsHead, [Next]_vars
    PROVE  HolderIsHead'
<1> USE DEF Enter, Awaits, Release, KeepLock, FlowEnds, Finish, FlowRejects, Resolves, Rejected,
            Running, Others, world, process,
            TypeOK, PcState, HolderIsHead, InsideLock
<1>1. ASSUME NEW t \in Tenants, SavedThenCalls(t) PROVE HolderIsHead'
  BY <1>1 DEF SavedThenCalls, CallOf
<1>2. ASSUME NEW t \in Tenants, SavedThenRests(t) PROVE HolderIsHead'
  BY <1>2 DEF SavedThenRests
<1>3. ASSUME NEW t \in Tenants, SavedThenQueues(t) PROVE HolderIsHead'
  <2>1. lock' = Append(lock, t) /\ lock \in Seq(Tenants)
    BY <1>3 DEF SavedThenQueues
  <2>2. \A u \in Tenants : InsideLock(u)' => InsideLock(u)
    BY <1>3 DEF SavedThenQueues
  <2>3. lock # <<>> => lock' # <<>> /\ Head(lock') = Head(lock)
    BY ONLY <2>1, AppendKeepsHead
  <2> QED
    BY <2>2, <2>3 DEF HolderIsHead
<1>4. ASSUME NEW t \in Tenants, SavedThenApplies(t) PROVE HolderIsHead'
  BY <1>4 DEF SavedThenApplies
<1>5. ASSUME NEW t \in Tenants, SavedThenReverts(t) PROVE HolderIsHead'
  BY <1>5 DEF SavedThenReverts
<1>6. ASSUME NEW t \in Tenants, SavedPaged(t) PROVE HolderIsHead'
  BY <1>6 DEF SavedPaged
<1>7. ASSUME NEW t \in Tenants, SaveRejects(t) PROVE HolderIsHead'
  BY <1>7 DEF SaveRejects
<1>8. ASSUME NEW t \in Tenants, BackupSettles(t) PROVE HolderIsHead'
  BY <1>8 DEF BackupSettles
<1>9. ASSUME NEW t \in Tenants, LockGranted(t) PROVE HolderIsHead'
  BY <1>9 DEF LockGranted
<1>10. ASSUME NEW t \in Tenants, ApplyResolves(t) PROVE HolderIsHead'
  BY <1>10 DEF ApplyResolves
<1>11. ASSUME NEW t \in Tenants, ApplyRejects(t) PROVE HolderIsHead'
  BY <1>11 DEF ApplyRejects
<1>12. ASSUME NEW t \in Tenants, ProbeSettles(t) PROVE HolderIsHead'
  BY <1>12 DEF ProbeSettles
<1>13. ASSUME NEW t \in Tenants, VerifySettles(t) PROVE HolderIsHead'
  BY <1>13 DEF VerifySettles
<1>14. ASSUME NEW t \in Tenants, RevertSettles(t) PROVE HolderIsHead'
  BY <1>14 DEF RevertSettles
<1>15. ASSUME NEW t \in Tenants, StopNewSettles(t) PROVE HolderIsHead'
  BY <1>15 DEF StopNewSettles
<1>16. ASSUME NEW t \in Tenants, RestopSettles(t) PROVE HolderIsHead'
  BY <1>16 DEF RestopSettles
<1>17. ASSUME NEW t \in Tenants, StopOldSettles(t) PROVE HolderIsHead'
  BY <1>17 DEF StopOldSettles
<1>18. ASSUME NEW t \in Tenants, PageSettles(t) PROVE HolderIsHead'
  BY <1>18 DEF PageSettles
<1>19. ASSUME NEW t \in Tenants, NewMachine(t) PROVE HolderIsHead'
  BY <1>19 DEF NewMachine
<1>20. ASSUME NEW t \in Tenants, Run(t) PROVE HolderIsHead'
  BY <1>20 DEF Run
<1>21. ASSUME NEW t \in Tenants, Abort(t) PROVE HolderIsHead'
  BY <1>21 DEF Abort
<1>22. ASSUME NEW t \in Tenants, CloseBakeWindow(t) PROVE HolderIsHead'
  BY <1>22 DEF CloseBakeWindow
<1>23. ASSUME NEW t \in Tenants, AbortAfterDone(t) PROVE HolderIsHead'
  BY <1>23 DEF AbortAfterDone
<1>24. ASSUME NEW t \in Tenants, RecoverNext(t) PROVE HolderIsHead'
  <2>1. lock' \in {lock, Append(lock, t)} /\ lock \in Seq(Tenants)
    BY <1>24 DEF RecoverNext, RecoverySteps
  <2>2. \A u \in Tenants : InsideLock(u)' => InsideLock(u)
    BY <1>24 DEF RecoverNext, RecoverySteps, RecoveryCallOf
  <2>3. lock # <<>> => lock' # <<>> /\ Head(lock') = Head(lock)
    BY ONLY <2>1, AppendKeepsHead
  <2> QED
    BY <2>2, <2>3 DEF HolderIsHead
<1>25. ASSUME NEW t \in Tenants, MigrationEnds(t) PROVE HolderIsHead'
  BY <1>25 DEF MigrationEnds
<1>26. CASE Crash
  BY <1>26 DEF Crash
<1>27. CASE Restart
  BY <1>27 DEF Restart
<1>28. CASE UNCHANGED vars
  BY <1>28 DEF vars
<1> QED
  BY <1>1, <1>2, <1>3, <1>4, <1>5, <1>6, <1>7, <1>8, <1>9, <1>10, <1>11, <1>12, <1>13, <1>14,
     <1>15, <1>16, <1>17, <1>18, <1>19, <1>20, <1>21, <1>22, <1>23, <1>24, <1>25,
     <1>26, <1>27, <1>28
  DEF Next, MachineStep, CallerStep

\* No step leaves a migration started behind a machine or a record that has
\* not come to it.
LEMMA StartedStep ==
    ASSUME TypeOK, PcState, StartedOnce, [Next]_vars
    PROVE  StartedOnce'
<1> USE DEF Enter, Awaits, Release, KeepLock, FlowEnds, Finish, FlowRejects, Resolves, Rejected,
            Running, Others, world, process,
            Landed, NotLanded, DiskStateLanded, DiskPagedLanded, RunningLanded, Stopping,
            TrafficLanded, PagedLanded,
            TypeOK, PcState, StartedOnce
<1>1. ASSUME NEW t \in Tenants, SavedThenCalls(t) PROVE StartedOnce'
  BY <1>1 DEF SavedThenCalls, CallOf
<1>2. ASSUME NEW t \in Tenants, SavedThenRests(t) PROVE StartedOnce'
  BY <1>2 DEF SavedThenRests
<1>3. ASSUME NEW t \in Tenants, SavedThenQueues(t) PROVE StartedOnce'
  BY <1>3 DEF SavedThenQueues
<1>4. ASSUME NEW t \in Tenants, SavedThenApplies(t) PROVE StartedOnce'
  BY <1>4 DEF SavedThenApplies
<1>5. ASSUME NEW t \in Tenants, SavedThenReverts(t) PROVE StartedOnce'
  BY <1>5 DEF SavedThenReverts
<1>6. ASSUME NEW t \in Tenants, SavedPaged(t) PROVE StartedOnce'
  BY <1>6 DEF SavedPaged
<1>7. ASSUME NEW t \in Tenants, SaveRejects(t) PROVE StartedOnce'
  <2>1. /\ mig' = mig /\ state' = state
        /\ pc' = [pc EXCEPT ![t] = pc'[t]] /\ pc'[t] \in {"none", "idle"}
    BY <1>7 DEF SaveRejects
  <2>2. \A u \in Tenants : diskState'[u] = "none" => diskState[u] = "none"
    BY <1>7 DEF SaveRejects, BumpState
  <2> QED
    BY <1>7, <2>1, <2>2 DEF SaveRejects
<1>8. ASSUME NEW t \in Tenants, BackupSettles(t) PROVE StartedOnce'
  BY <1>8 DEF BackupSettles
<1>9. ASSUME NEW t \in Tenants, LockGranted(t) PROVE StartedOnce'
  BY <1>9 DEF LockGranted
<1>10. ASSUME NEW t \in Tenants, ApplyResolves(t) PROVE StartedOnce'
  BY <1>10 DEF ApplyResolves
<1>11. ASSUME NEW t \in Tenants, ApplyRejects(t) PROVE StartedOnce'
  BY <1>11 DEF ApplyRejects
<1>12. ASSUME NEW t \in Tenants, ProbeSettles(t) PROVE StartedOnce'
  BY <1>12 DEF ProbeSettles
<1>13. ASSUME NEW t \in Tenants, VerifySettles(t) PROVE StartedOnce'
  BY <1>13 DEF VerifySettles
<1>14. ASSUME NEW t \in Tenants, RevertSettles(t) PROVE StartedOnce'
  BY <1>14 DEF RevertSettles
<1>15. ASSUME NEW t \in Tenants, StopNewSettles(t) PROVE StartedOnce'
  BY <1>15 DEF StopNewSettles
<1>16. ASSUME NEW t \in Tenants, RestopSettles(t) PROVE StartedOnce'
  BY <1>16 DEF RestopSettles
<1>17. ASSUME NEW t \in Tenants, StopOldSettles(t) PROVE StartedOnce'
  BY <1>17 DEF StopOldSettles
<1>18. ASSUME NEW t \in Tenants, PageSettles(t) PROVE StartedOnce'
  BY <1>18 DEF PageSettles
<1>19. ASSUME NEW t \in Tenants, NewMachine(t) PROVE StartedOnce'
  BY <1>19 DEF NewMachine
<1>20. ASSUME NEW t \in Tenants, Run(t) PROVE StartedOnce'
  BY <1>20 DEF Run
<1>21. ASSUME NEW t \in Tenants, Abort(t) PROVE StartedOnce'
  BY <1>21 DEF Abort
<1>22. ASSUME NEW t \in Tenants, CloseBakeWindow(t) PROVE StartedOnce'
  BY <1>22 DEF CloseBakeWindow
<1>23. ASSUME NEW t \in Tenants, AbortAfterDone(t) PROVE StartedOnce'
  BY <1>23 DEF AbortAfterDone
<1>24. ASSUME NEW t \in Tenants, RecoverNext(t) PROVE StartedOnce'
  BY <1>24 DEF RecoverNext, RecoverySteps, RecoveryCallOf
<1>25. ASSUME NEW t \in Tenants, MigrationEnds(t) PROVE StartedOnce'
  BY <1>25 DEF MigrationEnds
<1>26. CASE Crash
  <2>1. \A u \in Tenants : diskState'[u] = "none" => diskState[u] = "none"
    BY <1>26 DEF Crash, BumpState
  <2> QED
    BY <1>26, <2>1 DEF Crash
<1>27. CASE Restart
  BY <1>27 DEF Restart
<1>28. CASE UNCHANGED vars
  BY <1>28 DEF vars
<1> QED
  BY <1>1, <1>2, <1>3, <1>4, <1>5, <1>6, <1>7, <1>8, <1>9, <1>10, <1>11, <1>12, <1>13, <1>14,
     <1>15, <1>16, <1>17, <1>18, <1>19, <1>20, <1>21, <1>22, <1>23, <1>24, <1>25,
     <1>26, <1>27, <1>28
  DEF Next, MachineStep, CallerStep

\* Every step of a machine whose migration may run keeps waiting for it.
LEMMA AwaitedStep ==
    ASSUME TypeOK, PcState, MigrationAwaited, [Next]_vars
    PROVE  MigrationAwaited'
<1> USE DEF Enter, Awaits, Release, KeepLock, FlowEnds, Finish, FlowRejects, Resolves, Rejected,
            Running, Others, world, process,
            Landed, NotLanded, DiskStateLanded, DiskPagedLanded, RunningLanded, Stopping,
            TrafficLanded, PagedLanded,
            TypeOK, PcState, MigrationAwaited
<1>1. ASSUME NEW t \in Tenants, SavedThenCalls(t) PROVE MigrationAwaited'
  BY <1>1 DEF SavedThenCalls, CallOf
<1>2. ASSUME NEW t \in Tenants, SavedThenRests(t) PROVE MigrationAwaited'
  BY <1>2 DEF SavedThenRests
<1>3. ASSUME NEW t \in Tenants, SavedThenQueues(t) PROVE MigrationAwaited'
  BY <1>3 DEF SavedThenQueues
<1>4. ASSUME NEW t \in Tenants, SavedThenApplies(t) PROVE MigrationAwaited'
  BY <1>4 DEF SavedThenApplies
<1>5. ASSUME NEW t \in Tenants, SavedThenReverts(t) PROVE MigrationAwaited'
  BY <1>5 DEF SavedThenReverts
<1>6. ASSUME NEW t \in Tenants, SavedPaged(t) PROVE MigrationAwaited'
  BY <1>6 DEF SavedPaged
<1>7. ASSUME NEW t \in Tenants, SaveRejects(t) PROVE MigrationAwaited'
  BY <1>7 DEF SaveRejects
<1>8. ASSUME NEW t \in Tenants, BackupSettles(t) PROVE MigrationAwaited'
  BY <1>8 DEF BackupSettles
<1>9. ASSUME NEW t \in Tenants, LockGranted(t) PROVE MigrationAwaited'
  BY <1>9 DEF LockGranted
<1>10. ASSUME NEW t \in Tenants, ApplyResolves(t) PROVE MigrationAwaited'
  BY <1>10 DEF ApplyResolves
<1>11. ASSUME NEW t \in Tenants, ApplyRejects(t) PROVE MigrationAwaited'
  BY <1>11 DEF ApplyRejects
<1>12. ASSUME NEW t \in Tenants, ProbeSettles(t) PROVE MigrationAwaited'
  BY <1>12 DEF ProbeSettles
<1>13. ASSUME NEW t \in Tenants, VerifySettles(t) PROVE MigrationAwaited'
  BY <1>13 DEF VerifySettles
<1>14. ASSUME NEW t \in Tenants, RevertSettles(t) PROVE MigrationAwaited'
  BY <1>14 DEF RevertSettles
<1>15. ASSUME NEW t \in Tenants, StopNewSettles(t) PROVE MigrationAwaited'
  BY <1>15 DEF StopNewSettles
<1>16. ASSUME NEW t \in Tenants, RestopSettles(t) PROVE MigrationAwaited'
  BY <1>16 DEF RestopSettles
<1>17. ASSUME NEW t \in Tenants, StopOldSettles(t) PROVE MigrationAwaited'
  BY <1>17 DEF StopOldSettles
<1>18. ASSUME NEW t \in Tenants, PageSettles(t) PROVE MigrationAwaited'
  BY <1>18 DEF PageSettles
<1>19. ASSUME NEW t \in Tenants, NewMachine(t) PROVE MigrationAwaited'
  BY <1>19 DEF NewMachine
<1>20. ASSUME NEW t \in Tenants, Run(t) PROVE MigrationAwaited'
  BY <1>20 DEF Run
<1>21. ASSUME NEW t \in Tenants, Abort(t) PROVE MigrationAwaited'
  BY <1>21 DEF Abort
<1>22. ASSUME NEW t \in Tenants, CloseBakeWindow(t) PROVE MigrationAwaited'
  BY <1>22 DEF CloseBakeWindow
<1>23. ASSUME NEW t \in Tenants, AbortAfterDone(t) PROVE MigrationAwaited'
  BY <1>23 DEF AbortAfterDone
<1>24. ASSUME NEW t \in Tenants, RecoverNext(t) PROVE MigrationAwaited'
  BY <1>24 DEF RecoverNext, RecoverySteps, RecoveryCallOf
<1>25. ASSUME NEW t \in Tenants, MigrationEnds(t) PROVE MigrationAwaited'
  BY <1>25 DEF MigrationEnds
<1>26. CASE Crash
  BY <1>26 DEF Crash
<1>27. CASE Restart
  BY <1>27 DEF Restart
<1>28. CASE UNCHANGED vars
  BY <1>28 DEF vars
<1> QED
  BY <1>1, <1>2, <1>3, <1>4, <1>5, <1>6, <1>7, <1>8, <1>9, <1>10, <1>11, <1>12, <1>13, <1>14,
     <1>15, <1>16, <1>17, <1>18, <1>19, <1>20, <1>21, <1>22, <1>23, <1>24, <1>25,
     <1>26, <1>27, <1>28
  DEF Next, MachineStep, CallerStep

\* No step takes away the colour the tenant's traffic depends on.
LEMMA ColoursStep ==
    ASSUME TypeOK, PcState, StartedOnce, ColoursKept, [Next]_vars
    PROVE  ColoursKept'
<1> USE DEF Enter, Awaits, Release, KeepLock, FlowEnds, Finish, FlowRejects, Resolves, Rejected,
            Running, Others, world, process,
            Landed, NotLanded, DiskStateLanded, DiskPagedLanded, RunningLanded, Stopping,
            TrafficLanded, PagedLanded,
            TypeOK, PcState, StartedOnce, ColoursKept, Keeps, ServingNew
<1>1. ASSUME NEW t \in Tenants, SavedThenCalls(t) PROVE ColoursKept'
  BY <1>1 DEF SavedThenCalls, CallOf
<1>2. ASSUME NEW t \in Tenants, SavedThenRests(t) PROVE ColoursKept'
  BY <1>2 DEF SavedThenRests
<1>3. ASSUME NEW t \in Tenants, SavedThenQueues(t) PROVE ColoursKept'
  BY <1>3 DEF SavedThenQueues
<1>4. ASSUME NEW t \in Tenants, SavedThenApplies(t) PROVE ColoursKept'
  BY <1>4 DEF SavedThenApplies
<1>5. ASSUME NEW t \in Tenants, SavedThenReverts(t) PROVE ColoursKept'
  BY <1>5 DEF SavedThenReverts
<1>6. ASSUME NEW t \in Tenants, SavedPaged(t) PROVE ColoursKept'
  BY <1>6 DEF SavedPaged
<1>7. ASSUME NEW t \in Tenants, SaveRejects(t) PROVE ColoursKept'
  BY <1>7 DEF SaveRejects
<1>8. ASSUME NEW t \in Tenants, BackupSettles(t) PROVE ColoursKept'
  BY <1>8 DEF BackupSettles
<1>9. ASSUME NEW t \in Tenants, LockGranted(t) PROVE ColoursKept'
  BY <1>9 DEF LockGranted
<1>10. ASSUME NEW t \in Tenants, ApplyResolves(t) PROVE ColoursKept'
  BY <1>10 DEF ApplyResolves
<1>11. ASSUME NEW t \in Tenants, ApplyRejects(t) PROVE ColoursKept'
  BY <1>11 DEF ApplyRejects
<1>12. ASSUME NEW t \in Tenants, ProbeSettles(t) PROVE ColoursKept'
  BY <1>12 DEF ProbeSettles
<1>13. ASSUME NEW t \in Tenants, VerifySettles(t) PROVE ColoursKept'
  BY <1>13 DEF VerifySettles
<1>14. ASSUME NEW t \in Tenants, RevertSettles(t) PROVE ColoursKept'
  BY <1>14 DEF RevertSettles
<1>15. ASSUME NEW t \in Tenants, StopNewSettles(t) PROVE ColoursKept'
  BY <1>15 DEF StopNewSettles
<1>16. ASSUME NEW t \in Tenants, RestopSettles(t) PROVE ColoursKept'
  BY <1>16 DEF RestopSettles
<1>17. ASSUME NEW t \in Tenants, StopOldSettles(t) PROVE ColoursKept'
  BY <1>17 DEF StopOldSettles
<1>18. ASSUME NEW t \in Tenants, PageSettles(t) PROVE ColoursKept'
  BY <1>18 DEF PageSettles
<1>19. ASSUME NEW t \in Tenants, NewMachine(t) PROVE ColoursKept'
  BY <1>19 DEF NewMachine
<1>20. ASSUME NEW t \in Tenants, Run(t) PROVE ColoursKept'
  BY <1>20 DEF Run
<1>21. ASSUME NEW t \in Tenants, Abort(t) PROVE ColoursKept'
  BY <1>21 DEF Abort
<1>22. ASSUME NEW t \in Tenants, CloseBakeWindow(t) PROVE ColoursKept'
  BY <1>22 DEF CloseBakeWindow
<1>23. ASSUME NEW t \in Tenants, AbortAfterDone(t) PROVE ColoursKept'
  BY <1>23 DEF AbortAfterDone
<1>24. ASSUME NEW t \in Tenants, RecoverNext(t) PROVE ColoursKept'
  BY <1>24 DEF RecoverNext, RecoverySteps, RecoveryCallOf
<1>25. ASSUME NEW t \in Tenants, MigrationEnds(t) PROVE ColoursKept'
  BY <1>25 DEF MigrationEnds
<1>26. CASE Crash
  BY <1>26 DEF Crash
<1>27. CASE Restart
  BY <1>27 DEF Restart
<1>28. CASE UNCHANGED vars
  BY <1>28 DEF vars
<1> QED
  BY <1>1, <1>2, <1>3, <1>4, <1>5, <1>6, <1>7, <1>8, <1>9, <1>10, <1>11, <1>12, <1>13, <1>14,
     <1>15, <1>16, <1>17, <1>18, <1>19, <1>20, <1>21, <1>22, <1>23, <1>24, <1>25,
     <1>26, <1>27, <1>28
  DEF Next, MachineStep, CallerStep

\* pageSent is set and recorded only behind a delivered page.
LEMMA PageStep ==
    ASSUME TypeOK, PcState, PageAccounted, [Next]_vars
    PROVE  PageAccounted'
<1> USE DEF Enter, Awaits, Release, KeepLock, FlowEnds, Finish, FlowRejects, Resolves, Rejected,
            Running, Others, world, process,
            Landed, NotLanded, DiskStateLanded, DiskPagedLanded, RunningLanded, Stopping,
            TrafficLanded, PagedLanded,
            TypeOK, PcState, PageAccounted
<1>1. ASSUME NEW t \in Tenants, SavedThenCalls(t) PROVE PageAccounted'
  BY <1>1 DEF SavedThenCalls, CallOf
<1>2. ASSUME NEW t \in Tenants, SavedThenRests(t) PROVE PageAccounted'
  BY <1>2 DEF SavedThenRests
<1>3. ASSUME NEW t \in Tenants, SavedThenQueues(t) PROVE PageAccounted'
  BY <1>3 DEF SavedThenQueues
<1>4. ASSUME NEW t \in Tenants, SavedThenApplies(t) PROVE PageAccounted'
  BY <1>4 DEF SavedThenApplies
<1>5. ASSUME NEW t \in Tenants, SavedThenReverts(t) PROVE PageAccounted'
  BY <1>5 DEF SavedThenReverts
<1>6. ASSUME NEW t \in Tenants, SavedPaged(t) PROVE PageAccounted'
  BY <1>6 DEF SavedPaged
<1>7. ASSUME NEW t \in Tenants, SaveRejects(t) PROVE PageAccounted'
  BY <1>7 DEF SaveRejects
<1>8. ASSUME NEW t \in Tenants, BackupSettles(t) PROVE PageAccounted'
  BY <1>8 DEF BackupSettles
<1>9. ASSUME NEW t \in Tenants, LockGranted(t) PROVE PageAccounted'
  BY <1>9 DEF LockGranted
<1>10. ASSUME NEW t \in Tenants, ApplyResolves(t) PROVE PageAccounted'
  BY <1>10 DEF ApplyResolves
<1>11. ASSUME NEW t \in Tenants, ApplyRejects(t) PROVE PageAccounted'
  BY <1>11 DEF ApplyRejects
<1>12. ASSUME NEW t \in Tenants, ProbeSettles(t) PROVE PageAccounted'
  BY <1>12 DEF ProbeSettles
<1>13. ASSUME NEW t \in Tenants, VerifySettles(t) PROVE PageAccounted'
  BY <1>13 DEF VerifySettles
<1>14. ASSUME NEW t \in Tenants, RevertSettles(t) PROVE PageAccounted'
  BY <1>14 DEF RevertSettles
<1>15. ASSUME NEW t \in Tenants, StopNewSettles(t) PROVE PageAccounted'
  BY <1>15 DEF StopNewSettles
<1>16. ASSUME NEW t \in Tenants, RestopSettles(t) PROVE PageAccounted'
  BY <1>16 DEF RestopSettles
<1>17. ASSUME NEW t \in Tenants, StopOldSettles(t) PROVE PageAccounted'
  BY <1>17 DEF StopOldSettles
<1>18. ASSUME NEW t \in Tenants, PageSettles(t) PROVE PageAccounted'
  <2>1. CASE Awaits(t, "savingPaged") /\ Resolves(t) /\ KeepLock
    BY <2>1, <1>18 DEF PageSettles
  <2>2. CASE FlowRejects(t) /\ Rejected(t, "page")
    BY <2>2, <1>18 DEF PageSettles
  <2> QED
    BY <1>18, <2>1, <2>2 DEF PageSettles
<1>19. ASSUME NEW t \in Tenants, NewMachine(t) PROVE PageAccounted'
  BY <1>19 DEF NewMachine
<1>20. ASSUME NEW t \in Tenants, Run(t) PROVE PageAccounted'
  BY <1>20 DEF Run
<1>21. ASSUME NEW t \in Tenants, Abort(t) PROVE PageAccounted'
  BY <1>21 DEF Abort
<1>22. ASSUME NEW t \in Tenants, CloseBakeWindow(t) PROVE PageAccounted'
  BY <1>22 DEF CloseBakeWindow
<1>23. ASSUME NEW t \in Tenants, AbortAfterDone(t) PROVE PageAccounted'
  BY <1>23 DEF AbortAfterDone
<1>24. ASSUME NEW t \in Tenants, RecoverNext(t) PROVE PageAccounted'
  BY <1>24 DEF RecoverNext, RecoverySteps, RecoveryCallOf
<1>25. ASSUME NEW t \in Tenants, MigrationEnds(t) PROVE PageAccounted'
  BY <1>25 DEF MigrationEnds
<1>26. CASE Crash
  BY <1>26 DEF Crash
<1>27. CASE Restart
  BY <1>27 DEF Restart
<1>28. CASE UNCHANGED vars
  BY <1>28 DEF vars
<1> QED
  BY <1>1, <1>2, <1>3, <1>4, <1>5, <1>6, <1>7, <1>8, <1>9, <1>10, <1>11, <1>12, <1>13, <1>14,
     <1>15, <1>16, <1>17, <1>18, <1>19, <1>20, <1>21, <1>22, <1>23, <1>24, <1>25,
     <1>26, <1>27, <1>28
  DEF Next, MachineStep, CallerStep

\* Every step keeps decided records decided.
LEMMA DecidedStep ==
    ASSUME TypeOK, PcState, Decided, [Next]_vars
    PROVE  Decided'
<1> USE DEF Enter, Awaits, Release, KeepLock, FlowEnds, Finish, FlowRejects, Resolves, Rejected,
            Running, Others, world, process,
            Landed, NotLanded, DiskStateLanded, DiskPagedLanded, RunningLanded, Stopping,
            TrafficLanded, PagedLanded,
            TypeOK, PcState, Decided, AtRest, NeedsRecovery
<1>1. ASSUME NEW t \in Tenants, SavedThenCalls(t) PROVE Decided'
  <2>1. /\ diskState' = [diskState EXCEPT ![t] = state[t]] /\ state' = state
        /\ diskPaged' = [diskPaged EXCEPT ![t] = FALSE] /\ sweep' = sweep
        /\ pc[t] = "saving" /\ up /\ up' = up
    BY <1>1 DEF SavedThenCalls
  <2>2. PICK call \in CallOf : state[t] = call[1] /\ pc' = [pc EXCEPT ![t] = call[2]]
    BY <1>1 DEF SavedThenCalls
  <2>3. ~AtRest(t)'
    BY <2>1, <2>2 DEF CallOf
  <2> HIDE DEF TypeOK
  <2>4. ASSUME NEW u \in Tenants, u # t
        PROVE  /\ diskState'[u] = diskState[u] /\ diskPaged'[u] = diskPaged[u]
               /\ pc'[u] = pc[u] /\ state'[u] = state[u]
    BY <2>1, <2>2, <2>4 DEF TypeOK
  <2>5. t \notin sweep /\ (diskState'[t] \in {"closing", "closed"} => state'[t] = "closing")
    BY <2>1, <2>2 DEF CallOf, TypeOK
  <2> QED
    BY <2>1, <2>3, <2>4, <2>5
<1>2. ASSUME NEW t \in Tenants, SavedThenRests(t) PROVE Decided'
  BY <1>2 DEF SavedThenRests
<1>3. ASSUME NEW t \in Tenants, SavedThenQueues(t) PROVE Decided'
  BY <1>3 DEF SavedThenQueues
<1>4. ASSUME NEW t \in Tenants, SavedThenApplies(t) PROVE Decided'
  BY <1>4 DEF SavedThenApplies
<1>5. ASSUME NEW t \in Tenants, SavedThenReverts(t) PROVE Decided'
  BY <1>5 DEF SavedThenReverts
<1>6. ASSUME NEW t \in Tenants, SavedPaged(t) PROVE Decided'
  BY <1>6 DEF SavedPaged
<1>7. ASSUME NEW t \in Tenants, SaveRejects(t) PROVE Decided'
  BY <1>7 DEF SaveRejects
<1>8. ASSUME NEW t \in Tenants, BackupSettles(t) PROVE Decided'
  BY <1>8 DEF BackupSettles
<1>9. ASSUME NEW t \in Tenants, LockGranted(t) PROVE Decided'
  BY <1>9 DEF LockGranted
<1>10. ASSUME NEW t \in Tenants, ApplyResolves(t) PROVE Decided'
  BY <1>10 DEF ApplyResolves
<1>11. ASSUME NEW t \in Tenants, ApplyRejects(t) PROVE Decided'
  BY <1>11 DEF ApplyRejects
<1>12. ASSUME NEW t \in Tenants, ProbeSettles(t) PROVE Decided'
  BY <1>12 DEF ProbeSettles
<1>13. ASSUME NEW t \in Tenants, VerifySettles(t) PROVE Decided'
  BY <1>13 DEF VerifySettles
<1>14. ASSUME NEW t \in Tenants, RevertSettles(t) PROVE Decided'
  BY <1>14 DEF RevertSettles
<1>15. ASSUME NEW t \in Tenants, StopNewSettles(t) PROVE Decided'
  BY <1>15 DEF StopNewSettles
<1>16. ASSUME NEW t \in Tenants, RestopSettles(t) PROVE Decided'
  BY <1>16 DEF RestopSettles
<1>17. ASSUME NEW t \in Tenants, StopOldSettles(t) PROVE Decided'
  BY <1>17 DEF StopOldSettles
<1>18. ASSUME NEW t \in Tenants, PageSettles(t) PROVE Decided'
  BY <1>18 DEF PageSettles
<1>19. ASSUME NEW t \in Tenants, NewMachine(t) PROVE Decided'
  BY <1>19 DEF NewMachine
<1>20. ASSUME NEW t \in Tenants, Run(t) PROVE Decided'
  BY <1>20 DEF Run
<1>21. ASSUME NEW t \in Tenants, Abort(t) PROVE Decided'
  BY <1>21 DEF Abort
<1>22. ASSUME NEW t \in Tenants, CloseBakeWindow(t) PROVE Decided'
  BY <1>22 DEF CloseBakeWindow
<1>23. ASSUME NEW t \in Tenants, AbortAfterDone(t) PROVE Decided'
  BY <1>23 DEF AbortAfterDone
<1>24. ASSUME NEW t \in Tenants, RecoverNext(t) PROVE Decided'
  BY <1>24 DEF RecoverNext, RecoverySteps, RecoveryCallOf
<1>25. ASSUME NEW t \in Tenants, MigrationEnds(t) PROVE Decided'
  BY <1>25 DEF MigrationEnds
<1>26. CASE Crash
  <2>1. (\A u \in Tenants : pc'[u] = "none") /\ sweep' = {}
    BY <1>26 DEF Crash
  <2> HIDE DEF AtRest
  <2> QED
    BY <2>1
<1>27. CASE Restart
  BY <1>27 DEF Restart
<1>28. CASE UNCHANGED vars
  BY <1>28 DEF vars
<1> QED
  BY <1>1, <1>2, <1>3, <1>4, <1>5, <1>6, <1>7, <1>8, <1>9, <1>10, <1>11, <1>12, <1>13, <1>14,
     <1>15, <1>16, <1>17, <1>18, <1>19, <1>20, <1>21, <1>22, <1>23, <1>24, <1>25,
     <1>26, <1>27, <1>28
  DEF Next, MachineStep, CallerStep

\* No step touches the record of a bump at rest.
RestKept ==
    \A u \in Tenants : AtRest(u) =>
        diskState'[u] = diskState[u] /\ diskPaged'[u] = diskPaged[u]

\* Every step leaves a record at rest as it is.
LEMMA RestStep ==
    ASSUME TypeOK, PcState, Decided, [Next]_vars
    PROVE  RestKept
<1> USE DEF Enter, Awaits, Release, KeepLock, FlowEnds, Finish, FlowRejects, Resolves, Rejected,
            Running, Others, world, process,
            Landed, NotLanded, DiskStateLanded, DiskPagedLanded, RunningLanded, Stopping,
            TrafficLanded, PagedLanded,
            TypeOK, PcState, Decided, AtRest, RestKept
<1>1. ASSUME NEW t \in Tenants, SavedThenCalls(t) PROVE RestKept
  BY <1>1 DEF SavedThenCalls, CallOf
<1>2. ASSUME NEW t \in Tenants, SavedThenRests(t) PROVE RestKept
  BY <1>2 DEF SavedThenRests
<1>3. ASSUME NEW t \in Tenants, SavedThenQueues(t) PROVE RestKept
  BY <1>3 DEF SavedThenQueues
<1>4. ASSUME NEW t \in Tenants, SavedThenApplies(t) PROVE RestKept
  BY <1>4 DEF SavedThenApplies
<1>5. ASSUME NEW t \in Tenants, SavedThenReverts(t) PROVE RestKept
  BY <1>5 DEF SavedThenReverts
<1>6. ASSUME NEW t \in Tenants, SavedPaged(t) PROVE RestKept
  BY <1>6 DEF SavedPaged
<1>7. ASSUME NEW t \in Tenants, SaveRejects(t) PROVE RestKept
  BY <1>7 DEF SaveRejects
<1>8. ASSUME NEW t \in Tenants, BackupSettles(t) PROVE RestKept
  BY <1>8 DEF BackupSettles
<1>9. ASSUME NEW t \in Tenants, LockGranted(t) PROVE RestKept
  BY <1>9 DEF LockGranted
<1>10. ASSUME NEW t \in Tenants, ApplyResolves(t) PROVE RestKept
  BY <1>10 DEF ApplyResolves
<1>11. ASSUME NEW t \in Tenants, ApplyRejects(t) PROVE RestKept
  BY <1>11 DEF ApplyRejects
<1>12. ASSUME NEW t \in Tenants, ProbeSettles(t) PROVE RestKept
  BY <1>12 DEF ProbeSettles
<1>13. ASSUME NEW t \in Tenants, VerifySettles(t) PROVE RestKept
  BY <1>13 DEF VerifySettles
<1>14. ASSUME NEW t \in Tenants, RevertSettles(t) PROVE RestKept
  BY <1>14 DEF RevertSettles
<1>15. ASSUME NEW t \in Tenants, StopNewSettles(t) PROVE RestKept
  BY <1>15 DEF StopNewSettles
<1>16. ASSUME NEW t \in Tenants, RestopSettles(t) PROVE RestKept
  BY <1>16 DEF RestopSettles
<1>17. ASSUME NEW t \in Tenants, StopOldSettles(t) PROVE RestKept
  BY <1>17 DEF StopOldSettles
<1>18. ASSUME NEW t \in Tenants, PageSettles(t) PROVE RestKept
  BY <1>18 DEF PageSettles
<1>19. ASSUME NEW t \in Tenants, NewMachine(t) PROVE RestKept
  BY <1>19 DEF NewMachine
<1>20. ASSUME NEW t \in Tenants, Run(t) PROVE RestKept
  BY <1>20 DEF Run
<1>21. ASSUME NEW t \in Tenants, Abort(t) PROVE RestKept
  BY <1>21 DEF Abort
<1>22. ASSUME NEW t \in Tenants, CloseBakeWindow(t) PROVE RestKept
  BY <1>22 DEF CloseBakeWindow
<1>23. ASSUME NEW t \in Tenants, AbortAfterDone(t) PROVE RestKept
  BY <1>23 DEF AbortAfterDone
<1>24. ASSUME NEW t \in Tenants, RecoverNext(t) PROVE RestKept
  BY <1>24 DEF RecoverNext, RecoverySteps, RecoveryCallOf
<1>25. ASSUME NEW t \in Tenants, MigrationEnds(t) PROVE RestKept
  BY <1>25 DEF MigrationEnds
<1>26. CASE Crash
  BY <1>26 DEF Crash
<1>27. CASE Restart
  BY <1>27 DEF Restart
<1>28. CASE UNCHANGED vars
  BY <1>28 DEF vars
<1> QED
  BY <1>1, <1>2, <1>3, <1>4, <1>5, <1>6, <1>7, <1>8, <1>9, <1>10, <1>11, <1>12, <1>13, <1>14,
     <1>15, <1>16, <1>17, <1>18, <1>19, <1>20, <1>21, <1>22, <1>23, <1>24, <1>25,
     <1>26, <1>27, <1>28
  DEF Next, MachineStep, CallerStep

\* No step takes a record out of closing but to closed.
CloseKept ==
    \A u \in Tenants : diskState[u] \in {"closing", "closed"} =>
        diskState'[u] \in {"closing", "closed"}

\* No step takes a record out of closing or closed but into closed.
LEMMA CloseStep ==
    ASSUME TypeOK, PcState, Decided, [Next]_vars
    PROVE  CloseKept
<1> USE DEF Enter, Awaits, Release, KeepLock, FlowEnds, Finish, FlowRejects, Resolves, Rejected,
            Running, Others, world, process,
            Landed, NotLanded, DiskStateLanded, DiskPagedLanded, RunningLanded, Stopping,
            TrafficLanded, PagedLanded,
            TypeOK, PcState, Decided, AtRest, CloseKept
<1>1. ASSUME NEW t \in Tenants, SavedThenCalls(t) PROVE CloseKept
  BY <1>1 DEF SavedThenCalls, CallOf
<1>2. ASSUME NEW t \in Tenants, SavedThenRests(t) PROVE CloseKept
  BY <1>2 DEF SavedThenRests
<1>3. ASSUME NEW t \in Tenants, SavedThenQueues(t) PROVE CloseKept
  BY <1>3 DEF SavedThenQueues
<1>4. ASSUME NEW t \in Tenants, SavedThenApplies(t) PROVE CloseKept
  BY <1>4 DEF SavedThenApplies
<1>5. ASSUME NEW t \in Tenants, SavedThenReverts(t) PROVE CloseKept
  BY <1>5 DEF SavedThenReverts
<1>6. ASSUME NEW t \in Tenants, SavedPaged(t) PROVE CloseKept
  BY <1>6 DEF SavedPaged
<1>7. ASSUME NEW t \in Tenants, SaveRejects(t) PROVE CloseKept
  BY <1>7 DEF SaveRejects
<1>8. ASSUME NEW t \in Tenants, BackupSettles(t) PROVE CloseKept
  BY <1>8 DEF BackupSettles
<1>9. ASSUME NEW t \in Tenants, LockGranted(t) PROVE CloseKept
  BY <1>9 DEF LockGranted
<1>10. ASSUME NEW t \in Tenants, ApplyResolves(t) PROVE CloseKept
  BY <1>10 DEF ApplyResolves
<1>11. ASSUME NEW t \in Tenants, ApplyRejects(t) PROVE CloseKept
  BY <1>11 DEF ApplyRejects
<1>12. ASSUME NEW t \in Tenants, ProbeSettles(t) PROVE CloseKept
  BY <1>12 DEF ProbeSettles
<1>13. ASSUME NEW t \in Tenants, VerifySettles(t) PROVE CloseKept
  BY <1>13 DEF VerifySettles
<1>14. ASSUME NEW t \in Tenants, RevertSettles(t) PROVE CloseKept
  BY <1>14 DEF RevertSettles
<1>15. ASSUME NEW t \in Tenants, StopNewSettles(t) PROVE CloseKept
  BY <1>15 DEF StopNewSettles
<1>16. ASSUME NEW t \in Tenants, RestopSettles(t) PROVE CloseKept
  BY <1>16 DEF RestopSettles
<1>17. ASSUME NEW t \in Tenants, StopOldSettles(t) PROVE CloseKept
  BY <1>17 DEF StopOldSettles
<1>18. ASSUME NEW t \in Tenants, PageSettles(t) PROVE CloseKept
  BY <1>18 DEF PageSettles
<1>19. ASSUME NEW t \in Tenants, NewMachine(t) PROVE CloseKept
  BY <1>19 DEF NewMachine
<1>20. ASSUME NEW t \in Tenants, Run(t) PROVE CloseKept
  BY <1>20 DEF Run
<1>21. ASSUME NEW t \in Tenants, Abort(t) PROVE CloseKept
  BY <1>21 DEF Abort
<1>22. ASSUME NEW t \in Tenants, CloseBakeWindow(t) PROVE CloseKept
  BY <1>22 DEF CloseBakeWindow
<1>23. ASSUME NEW t \in Tenants, AbortAfterDone(t) PROVE CloseKept
  BY <1>23 DEF AbortAfterDone
<1>24. ASSUME NEW t \in Tenants, RecoverNext(t) PROVE CloseKept
  BY <1>24 DEF RecoverNext, RecoverySteps, RecoveryCallOf
<1>25. ASSUME NEW t \in Tenants, MigrationEnds(t) PROVE CloseKept
  BY <1>25 DEF MigrationEnds
<1>26. CASE Crash
  BY <1>26 DEF Crash
<1>27. CASE Restart
  BY <1>27 DEF Restart
<1>28. CASE UNCHANGED vars
  BY <1>28 DEF vars
<1> QED
  BY <1>1, <1>2, <1>3, <1>4, <1>5, <1>6, <1>7, <1>8, <1>9, <1>10, <1>11, <1>12, <1>13, <1>14,
     <1>15, <1>16, <1>17, <1>18, <1>19, <1>20, <1>21, <1>22, <1>23, <1>24, <1>25,
     <1>26, <1>27, <1>28
  DEF Next, MachineStep, CallerStep

\* Only a machine that recorded "applying" under the lock calls apply().
ApplyUnstarted == \A u \in Tenants : ApplyStarts(u) => mig[u] = "none"

\* A step that calls apply() finds a bump no migration was started for.
LEMMA ApplyStep ==
    ASSUME TypeOK, PcState, StartedOnce, [Next]_vars
    PROVE  ApplyUnstarted
<1> USE DEF Enter, Awaits, Release, KeepLock, FlowEnds, Finish, FlowRejects, Resolves, Rejected,
            Running, Others, world, process,
            TypeOK, PcState, StartedOnce, ApplyUnstarted, ApplyStarts
<1>1. ASSUME NEW t \in Tenants, SavedThenCalls(t) PROVE ApplyUnstarted
  BY <1>1 DEF SavedThenCalls, CallOf
<1>2. ASSUME NEW t \in Tenants, SavedThenRests(t) PROVE ApplyUnstarted
  BY <1>2 DEF SavedThenRests
<1>3. ASSUME NEW t \in Tenants, SavedThenQueues(t) PROVE ApplyUnstarted
  BY <1>3 DEF SavedThenQueues
<1>4. ASSUME NEW t \in Tenants, SavedThenApplies(t) PROVE ApplyUnstarted
  BY <1>4 DEF SavedThenApplies
<1>5. ASSUME NEW t \in Tenants, SavedThenReverts(t) PROVE ApplyUnstarted
  BY <1>5 DEF SavedThenReverts
<1>6. ASSUME NEW t \in Tenants, SavedPaged(t) PROVE ApplyUnstarted
  BY <1>6 DEF SavedPaged
<1>7. ASSUME NEW t \in Tenants, SaveRejects(t) PROVE ApplyUnstarted
  BY <1>7 DEF SaveRejects
<1>8. ASSUME NEW t \in Tenants, BackupSettles(t) PROVE ApplyUnstarted
  BY <1>8 DEF BackupSettles
<1>9. ASSUME NEW t \in Tenants, LockGranted(t) PROVE ApplyUnstarted
  BY <1>9 DEF LockGranted
<1>10. ASSUME NEW t \in Tenants, ApplyResolves(t) PROVE ApplyUnstarted
  BY <1>10 DEF ApplyResolves
<1>11. ASSUME NEW t \in Tenants, ApplyRejects(t) PROVE ApplyUnstarted
  BY <1>11 DEF ApplyRejects
<1>12. ASSUME NEW t \in Tenants, ProbeSettles(t) PROVE ApplyUnstarted
  BY <1>12 DEF ProbeSettles
<1>13. ASSUME NEW t \in Tenants, VerifySettles(t) PROVE ApplyUnstarted
  BY <1>13 DEF VerifySettles
<1>14. ASSUME NEW t \in Tenants, RevertSettles(t) PROVE ApplyUnstarted
  BY <1>14 DEF RevertSettles
<1>15. ASSUME NEW t \in Tenants, StopNewSettles(t) PROVE ApplyUnstarted
  BY <1>15 DEF StopNewSettles
<1>16. ASSUME NEW t \in Tenants, RestopSettles(t) PROVE ApplyUnstarted
  BY <1>16 DEF RestopSettles
<1>17. ASSUME NEW t \in Tenants, StopOldSettles(t) PROVE ApplyUnstarted
  BY <1>17 DEF StopOldSettles
<1>18. ASSUME NEW t \in Tenants, PageSettles(t) PROVE ApplyUnstarted
  BY <1>18 DEF PageSettles
<1>19. ASSUME NEW t \in Tenants, NewMachine(t) PROVE ApplyUnstarted
  BY <1>19 DEF NewMachine
<1>20. ASSUME NEW t \in Tenants, Run(t) PROVE ApplyUnstarted
  BY <1>20 DEF Run
<1>21. ASSUME NEW t \in Tenants, Abort(t) PROVE ApplyUnstarted
  BY <1>21 DEF Abort
<1>22. ASSUME NEW t \in Tenants, CloseBakeWindow(t) PROVE ApplyUnstarted
  BY <1>22 DEF CloseBakeWindow
<1>23. ASSUME NEW t \in Tenants, AbortAfterDone(t) PROVE ApplyUnstarted
  BY <1>23 DEF AbortAfterDone
<1>24. ASSUME NEW t \in Tenants, RecoverNext(t) PROVE ApplyUnstarted
  BY <1>24 DEF RecoverNext, RecoverySteps, RecoveryCallOf
<1>25. ASSUME NEW t \in Tenants, MigrationEnds(t) PROVE ApplyUnstarted
  BY <1>25 DEF MigrationEnds
<1>26. CASE Crash
  BY <1>26 DEF Crash
<1>27. CASE Restart
  BY <1>27 DEF Restart
<1>28. CASE UNCHANGED vars
  BY <1>28 DEF vars
<1> QED
  BY <1>1, <1>2, <1>3, <1>4, <1>5, <1>6, <1>7, <1>8, <1>9, <1>10, <1>11, <1>12, <1>13, <1>14,
     <1>15, <1>16, <1>17, <1>18, <1>19, <1>20, <1>21, <1>22, <1>23, <1>24, <1>25,
     <1>26, <1>27, <1>28
  DEF Next, MachineStep, CallerStep

-----------------------------------------------------------------------------
(* The theorems.                                                           *)

\* A controller with no bump yet satisfies the strengthening.
LEMMA InitInv == Init => IInv
  BY NoneAssumption, MaxCrashesAssumption
  DEF Init, IInv, TypeOK, BumpState, Promises, Migration, PcState, HolderIsHead, InsideLock,
      StartedOnce, MigrationAwaited, ColoursKept, Keeps, ServingNew, PageAccounted,
      Decided, AtRest

\* The lemmas above together: the strengthening is inductive.
LEMMA NextInv == IInv /\ [Next]_vars => IInv'
  BY TypeStep, PcStateStep, HolderStep, StartedStep, AwaitedStep, ColoursStep, PageStep,
     DecidedStep
  DEF IInv

\* The strengthening every property below follows from holds throughout, for
\* any crashes and any rejected dependency.
THEOREM Inductive == Spec => []IInv
  BY InitInv, NextInv, PTL DEF Spec

\* Type correctness of the controller, the records and the colours.
THEOREM TypeCorrect == Spec => []TypeOK
<1>1. IInv => TypeOK
  BY DEF IInv
<1> QED
  BY <1>1, Inductive, PTL

\* ApplyLock: no two tenants are inside the uninterruptible step together,
\* rejections of run() and recoverFromApplying included.
THEOREM LockExclusive == Spec => []OneInsideLock
<1>1. IInv => OneInsideLock
  BY DEF IInv, HolderIsHead, OneInsideLock
<1> QED
  BY <1>1, Inductive, PTL

\* No verify(), revertTraffic() or stopColour() of a tenant runs while the
\* migration its apply() started may still be running, however often the
\* controller crashed in between.
THEOREM MigrationSafe == Spec => []LiveMigrationUntouched
<1>1. IInv => LiveMigrationUntouched
  BY DEF IInv, MigrationAwaited, LiveMigrationUntouched
<1> QED
  BY <1>1, Inductive, PTL

\* A running colour carries the tenant's traffic at every instant of a bump.
THEOREM NeverDark == Spec => []AlwaysServed
<1>1. IInv => AlwaysServed
  BY DEF IInv, TypeOK, ColoursKept, Keeps, ServingNew, AlwaysServed
<1> QED
  BY <1>1, Inductive, PTL

\* failUnsafe and recoverUnpagedFailure record pageSent only behind a page.
THEOREM PageNotLost == Spec => []NoPageLost
<1>1. IInv => NoPageLost
  BY DEF IInv, PageAccounted, NoPageLost
<1> QED
  BY <1>1, Inductive, PTL

\* run() calls apply() at most once for a bump and no recovery calls it again.
THEOREM AppliedOnce == Spec => ApplyOnce
<1>1. IInv /\ [Next]_vars => [\A t \in Tenants : ApplyStarts(t) => mig[t] = "none"]_vars
  BY ApplyStep DEF IInv, ApplyUnstarted
<1> QED
  BY <1>1, Inductive, PTL DEF Spec, ApplyOnce

\* No restart retries or re-decides a bump whose record is at rest.
THEOREM RestIsFinal == Spec => NoRetryOfItself
<1>1. IInv /\ [Next]_vars =>
        [\A t \in Tenants : AtRest(t) =>
           diskState'[t] = diskState[t] /\ diskPaged'[t] = diskPaged[t]]_vars
  BY RestStep DEF IInv, RestKept
<1> QED
  BY <1>1, Inductive, PTL DEF Spec, NoRetryOfItself

\* closeBakeWindow and abortAfterDone exclude each other for good: once closing
\* is on disk no crash or recovery leads back to a revert.
THEOREM ClosingIsFinal == Spec => CloseIsFinal
<1>1. IInv /\ [Next]_vars =>
        [\A t \in Tenants : diskState[t] \in {"closing", "closed"} =>
           diskState'[t] \in {"closing", "closed"}]_vars
  BY CloseStep DEF IInv, CloseKept
<1> QED
  BY <1>1, Inductive, PTL DEF Spec, CloseIsFinal

=============================================================================
