--------------------------- MODULE RingController ---------------------------
(***************************************************************************)
(* services/ring-controller: one process that drives the version bump of   *)
(* every tenant (backup, apply, verify, then keep or revert), one          *)
(* BumpStateMachine per tenant, all sharing one ApplyLock, and the startup *)
(* sweep that recovers the persisted records after a crash.                *)
(*                                                                         *)
(* Granularity: JavaScript runs a machine without interruption from one    *)
(* await to the next, so an action is what happens between two awaits.     *)
(* pc[t] names the promise the machine of tenant t is waiting on.  A       *)
(* crash may strike while any of them is outstanding, and the outside      *)
(* effect of an outstanding call may or may not have taken place by then.  *)
(*                                                                         *)
(* Outside the process, and surviving it: the records on disk, the         *)
(* migration apply() started in the tenant's container, the colours that   *)
(* serve the tenant's traffic, and the pages a person has received.        *)
(***************************************************************************)
EXTENDS Naturals, Sequences

CONSTANTS
    Tenants,
    None,        \* no tenant
    Rejects,     \* the injected dependencies whose promise may reject
    MaxCrashes   \* bound on the crashes of a behaviour

Dependencies == {"backup", "apply", "verify", "revert", "stop", "page", "persist"}

ASSUME NoneAssumption       == None \notin Tenants
ASSUME RejectsAssumption    == Rejects \subseteq Dependencies
ASSUME MaxCrashesAssumption == MaxCrashes \in Nat

VARIABLES
    up,          \* the controller process runs
    sweep,       \* tenants the startup sweep has still to recover
    recovering,  \* the tenant whose recovery the sweep is awaiting, or None
    lock,        \* ApplyLock: the promise chain, holder first
    pc,          \* the promise each tenant's machine awaits
    state,       \* BumpStateMachine.state
    abort,       \* BumpStateMachine.abortRequested
    diskState,   \* the state in the persisted record, "none" without one
    diskPaged,   \* pageSent in the persisted record
    mig,         \* the migration apply() starts in the tenant's container
    running,     \* the colours whose container is up
    traffic,     \* the colours the tenant's traffic is routed to
    paged,       \* a person received the page of this tenant
    crashes

process == <<up, sweep, recovering, lock, pc, state, abort>>
world   == <<diskState, diskPaged, mig, running, traffic, paged, crashes>>
vars    == <<up, sweep, recovering, lock, pc, state, abort,
             diskState, diskPaged, mig, running, traffic, paged, crashes>>

BumpState == {"pending", "backing-up", "backed-up", "applying", "verifying",
              "done", "closing", "reverting", "reverted", "backup-failed",
              "cancelled", "failed-unsafe", "closed"}

\* "none": no machine.  "idle": a machine that awaits nothing.  "saving*":
\* transition() awaits persist(); savingAborted is run() on its way past
\* verify(), savingPaged the second persist of failUnsafe.  "restop" is the
\* stopColour('new') of recoverFromReverted, which nothing catches.
Promises == {"none", "idle", "saving", "savingAborted", "savingPaged", "queued",
          "backup", "apply", "settle", "verify", "revert", "stopNew", "restop",
          "stopOld", "page"}

Migration == {"none", "inflight", "migrated", "broken"}

TypeOK ==
    /\ up \in BOOLEAN
    /\ sweep \subseteq Tenants
    /\ recovering \in Tenants \cup {None}
    /\ lock \in Seq(Tenants)
    /\ pc \in [Tenants -> Promises]
    /\ state \in [Tenants -> BumpState]
    /\ abort \in [Tenants -> BOOLEAN]
    /\ diskState \in [Tenants -> BumpState \cup {"none"}]
    /\ diskPaged \in [Tenants -> BOOLEAN]
    /\ mig \in [Tenants -> Migration]
    /\ running \in [Tenants -> SUBSET {"old", "new"}]
    /\ traffic \in [Tenants -> SUBSET {"old", "new"}]
    /\ paged \in [Tenants -> BOOLEAN]
    /\ crashes \in Nat

Init ==
    /\ up = TRUE /\ sweep = {} /\ recovering = None /\ lock = <<>>
    /\ pc = [t \in Tenants |-> "none"]
    /\ state = [t \in Tenants |-> "pending"]
    /\ abort = [t \in Tenants |-> FALSE]
    /\ diskState = [t \in Tenants |-> "none"]
    /\ diskPaged = [t \in Tenants |-> FALSE]
    /\ mig = [t \in Tenants |-> "none"]
    /\ running = [t \in Tenants |-> {"old"}]
    /\ traffic = [t \in Tenants |-> {"old"}]
    /\ paged = [t \in Tenants |-> FALSE]
    /\ crashes = 0

-----------------------------------------------------------------------------
(* What an outstanding call leaves outside the process once it has landed. *)

DiskStateLanded(t) ==
    IF pc[t] \in {"saving", "savingAborted", "savingPaged"} THEN state[t] ELSE diskState[t]

DiskPagedLanded(t) ==
    IF pc[t] \in {"saving", "savingAborted", "savingPaged"}
    THEN pc[t] = "savingPaged" ELSE diskPaged[t]

Stopping(t) ==
    IF pc[t] \in {"stopNew", "restop"} THEN {"new"}
    ELSE IF pc[t] = "stopOld" THEN {"old"} ELSE {}
RunningLanded(t) == running[t] \ Stopping(t)

TrafficLanded(t) == IF pc[t] = "revert" THEN traffic[t] \ {"new"} ELSE traffic[t]

PagedLanded(t) == paged[t] \/ pc[t] = "page"

Landed(t) ==
    /\ diskState' = [diskState EXCEPT ![t] = DiskStateLanded(t)]
    /\ diskPaged' = [diskPaged EXCEPT ![t] = DiskPagedLanded(t)]
    /\ running' = [running EXCEPT ![t] = RunningLanded(t)]
    /\ traffic' = [traffic EXCEPT ![t] = TrafficLanded(t)]
    /\ paged' = [paged EXCEPT ![t] = PagedLanded(t)]

NotLanded == UNCHANGED <<diskState, diskPaged, running, traffic, paged>>

-----------------------------------------------------------------------------
(* The steps a machine's code takes between two awaits.                    *)

\* transition(s): the field is set at once, then persist() is awaited.
Enter(t, s) ==
    /\ state' = [state EXCEPT ![t] = s]
    /\ pc' = [pc EXCEPT ![t] = "saving"]

Awaits(t, call) ==
    /\ pc' = [pc EXCEPT ![t] = call]
    /\ UNCHANGED state

Release(t) ==
    lock' = IF lock # <<>> /\ Head(lock) = t THEN Tail(lock) ELSE lock

KeepLock == UNCHANGED <<lock, recovering>>

\* Mutant: the function run under the lock never settles.
FlowEndsHolding(t) ==
    /\ UNCHANGED lock
    /\ recovering' = IF recovering = t THEN None ELSE recovering

\* The flow of t is over: the function handed to lock.run() has settled if it
\* still held the lock, and the sweep goes on to its next record if t was the
\* one it awaited.
FlowEnds(t) ==
    /\ Release(t)
    /\ recovering' = IF recovering = t THEN None ELSE recovering

Finish(t) == Awaits(t, "idle") /\ FlowEnds(t)

\* A rejection nothing caught.  A live machine stays as it is, refused by
\* run() from then on; the sweep drops a machine whose recovery rejected.
FlowRejects(t) ==
    /\ Awaits(t, IF recovering = t THEN "none" ELSE "idle")
    /\ FlowEnds(t)

\* An injected call of t resolves having done its work, or rejects having or
\* not having done it.
Resolves(t) == Landed(t)
Rejected(t, dependency) == dependency \in Rejects /\ (Landed(t) \/ NotLanded)

Running(t, awaited) == up /\ pc[t] = awaited

Others == UNCHANGED <<up, sweep, abort, mig, crashes>>
-----------------------------------------------------------------------------
(* Callers: whatever schedules the ring.                                   *)

\* A tenant without a record gets a machine; recovered tenants keep theirs.
NewMachine(t) ==
    /\ Running(t, "none") /\ diskState[t] = "none"
    /\ state' = [state EXCEPT ![t] = "pending"]
    /\ abort' = [abort EXCEPT ![t] = FALSE]
    /\ pc' = [pc EXCEPT ![t] = "idle"]
    /\ UNCHANGED <<up, sweep, recovering, lock, world>>

\* Mutant: an early abort named by a state nothing else knows.
RunToAborted(t) ==
    /\ Running(t, "idle") /\ state[t] = "pending"
    /\ Enter(t, IF abort[t] THEN "aborted" ELSE "backing-up")
    /\ KeepLock /\ Others /\ NotLanded

\* Mutant: run() without its guard on "pending".
RunAgain(t) ==
    /\ Running(t, "idle") /\ state[t] # "done"
    /\ Enter(t, IF abort[t] THEN "cancelled" ELSE "backing-up")
    /\ KeepLock /\ Others /\ NotLanded

Run(t) ==
    /\ Running(t, "idle") /\ state[t] = "pending"
    /\ Enter(t, IF abort[t] THEN "cancelled" ELSE "backing-up")
    /\ KeepLock /\ Others /\ NotLanded

Abort(t) ==
    /\ up /\ pc[t] # "none" /\ ~abort[t]
    /\ abort' = [abort EXCEPT ![t] = TRUE]
    /\ UNCHANGED <<up, sweep, recovering, lock, pc, state, world>>

\* claimDoneTransition: the state leaves "done" in the same synchronous body,
\* so the flag doneTransitionClaimed never differs from state # "done".
CloseBakeWindow(t) ==
    /\ Running(t, "idle") /\ state[t] = "done"
    /\ Enter(t, "closing")
    /\ KeepLock /\ Others /\ NotLanded

\* Mutant: an abort during closing that does not see the claim.
AbortUnclaimed(t) ==
    /\ Running(t, "idle") /\ state[t] \in {"done", "closing"}
    /\ abort' = [abort EXCEPT ![t] = TRUE]
    /\ Enter(t, "reverting")
    /\ KeepLock /\ NotLanded
    /\ UNCHANGED <<up, sweep, mig, crashes>>

AbortAfterDone(t) ==
    /\ Running(t, "idle") /\ state[t] = "done"
    /\ abort' = [abort EXCEPT ![t] = TRUE]
    /\ Enter(t, "reverting")
    /\ KeepLock /\ NotLanded
    /\ UNCHANGED <<up, sweep, mig, crashes>>

-----------------------------------------------------------------------------
(* The awaited promises settle.                                            *)

\* The call each state makes once persist() of that state has resolved.
CallOf == {<<"backing-up", "backup">>, <<"verifying", "verify">>,
           <<"reverting", "revert">>, <<"reverted", "stopNew">>,
           <<"closing", "stopOld">>, <<"failed-unsafe", "page">>}

SavedThenCalls(t) ==
    /\ Running(t, "saving")
    /\ \E call \in CallOf : state[t] = call[1] /\ Awaits(t, call[2])
    /\ Resolves(t) /\ KeepLock /\ Others

SavedThenRests(t) ==
    /\ Running(t, "saving")
    /\ state[t] \in {"done", "closed", "cancelled", "backup-failed"}
    /\ Finish(t)
    /\ Resolves(t) /\ Others

SavedThenQueues(t) ==
    /\ Running(t, "saving") /\ state[t] = "backed-up"
    /\ Awaits(t, "queued")
    /\ lock' = Append(lock, t)
    /\ Resolves(t) /\ Others /\ UNCHANGED recovering

SavedThenApplies(t) ==
    /\ Running(t, "saving") /\ state[t] = "applying"
    /\ Awaits(t, "apply")
    /\ mig' = [mig EXCEPT ![t] = "inflight"]
    /\ diskState' = [diskState EXCEPT ![t] = "applying"]
    /\ running' = [running EXCEPT ![t] = @ \cup {"new"}]
    /\ UNCHANGED <<diskPaged, traffic, paged>>
    /\ KeepLock /\ UNCHANGED <<up, sweep, abort, crashes>>

SavedThenReverts(t) ==
    /\ Running(t, "savingAborted")
    /\ Enter(t, "reverting")
    /\ Resolves(t) /\ KeepLock /\ Others

SavedPaged(t) ==
    /\ Running(t, "savingPaged")
    /\ Finish(t)
    /\ Resolves(t) /\ Others

SaveRejects(t) ==
    /\ up /\ pc[t] \in {"saving", "savingAborted", "savingPaged"}
    /\ FlowRejects(t)
    /\ Rejected(t, "persist") /\ Others

BackupSettles(t) ==
    /\ Running(t, "backup")
    /\ \/ \E ok \in BOOLEAN :
             /\ Enter(t, IF abort[t] THEN "cancelled"
                         ELSE IF ok THEN "backed-up" ELSE "backup-failed")
             /\ Resolves(t) /\ KeepLock
       \/ FlowRejects(t) /\ Rejected(t, "backup")
    /\ Others

\* Mutant: recovery calls apply() again.
LockGrantedReapplies(t) ==
    /\ Running(t, "queued") /\ lock # <<>> /\ Head(lock) = t
    /\ Enter(t, "applying")
    /\ NotLanded /\ KeepLock /\ Others

\* The lock reaches the machine: run() persists "applying" and applies, a
\* recovered machine probes.
LockGranted(t) ==
    /\ Running(t, "queued") /\ lock # <<>> /\ Head(lock) = t
    /\ \/ state[t] = "backed-up" /\ Enter(t, "applying")
       \/ state[t] = "applying" /\ Awaits(t, "settle")
    /\ NotLanded /\ KeepLock /\ Others

\* The lock is released before the outcome is looked at; no verify() after a
\* failed apply (which a migrated but unhealthy colour is too) or an abort.
ApplyResolves(t) ==
    /\ Running(t, "apply") /\ mig[t] # "inflight"
    /\ state' = [state EXCEPT ![t] = "verifying"]
    /\ \/ mig[t] = "migrated" /\ ~abort[t] /\ pc' = [pc EXCEPT ![t] = "saving"]
       \/ pc' = [pc EXCEPT ![t] = "savingAborted"]
    /\ Release(t) /\ UNCHANGED recovering
    /\ NotLanded /\ Others

ApplyRejects(t) ==
    /\ Running(t, "apply")
    /\ FlowRejects(t)
    /\ Rejected(t, "apply") /\ Others

\* Mutant: a migration that may still run read as settled.
ProbeTrustsFreeLock(t) ==
    /\ Running(t, "settle")
    /\ Enter(t, "verifying") \/ Enter(t, "failed-unsafe")
    /\ NotLanded /\ KeepLock /\ Others

\* awaitApplySettled answers ok only on positive evidence that this migration
\* ended at the target schema; a throw and a timeout both read as not ok.
ProbeSettles(t) ==
    /\ Running(t, "settle")
    /\ \/ mig[t] = "migrated" /\ Enter(t, "verifying")
       \/ Enter(t, "failed-unsafe")
    /\ NotLanded /\ KeepLock /\ Others

VerifySettles(t) ==
    /\ Running(t, "verify")
    /\ \/ ~abort[t] /\ Enter(t, "done")
       \/ Enter(t, "reverting")
       \/ "verify" \in Rejects /\ Enter(t, "failed-unsafe")
    /\ NotLanded /\ KeepLock /\ Others

RevertSettles(t) ==
    /\ Running(t, "revert")
    /\ \/ Enter(t, "reverted") /\ Resolves(t)
       \/ Enter(t, "failed-unsafe") /\ NotLanded
       \/ Enter(t, "failed-unsafe") /\ Rejected(t, "revert")
    /\ KeepLock /\ Others

StopNewSettles(t) ==
    /\ Running(t, "stopNew")
    /\ \/ Finish(t) /\ Resolves(t)
       \/ Enter(t, "failed-unsafe") /\ Rejected(t, "stop") /\ KeepLock
    /\ Others

RestopSettles(t) ==
    /\ Running(t, "restop")
    /\ \/ Finish(t) /\ Resolves(t)
       \/ FlowRejects(t) /\ Rejected(t, "stop")
    /\ Others

StopOldSettles(t) ==
    /\ Running(t, "stopOld")
    /\ \/ Enter(t, "closed") /\ Resolves(t) /\ KeepLock
       \/ FlowRejects(t) /\ Rejected(t, "stop")
    /\ Others

PageSettles(t) ==
    /\ Running(t, "page")
    /\ \/ Awaits(t, "savingPaged") /\ Resolves(t) /\ KeepLock
       \/ FlowRejects(t) /\ Rejected(t, "page")
    /\ Others

-----------------------------------------------------------------------------
(* Crash, restart and the startup sweep.                                   *)

\* Every call outstanding at the crash has landed or has not.
Crash ==
    /\ up /\ crashes < MaxCrashes
    /\ up' = FALSE /\ crashes' = crashes + 1
    /\ sweep' = {} /\ recovering' = None /\ lock' = <<>>
    /\ pc' = [t \in Tenants |-> "none"]
    /\ UNCHANGED <<state, abort, mig>>
    /\ \E landed \in SUBSET Tenants :
         /\ diskState' = [t \in Tenants |->
              IF t \in landed THEN DiskStateLanded(t) ELSE diskState[t]]
         /\ diskPaged' = [t \in Tenants |->
              IF t \in landed THEN DiskPagedLanded(t) ELSE diskPaged[t]]
         /\ running' = [t \in Tenants |->
              IF t \in landed THEN RunningLanded(t) ELSE running[t]]
         /\ traffic' = [t \in Tenants |->
              IF t \in landed THEN TrafficLanded(t) ELSE traffic[t]]
         /\ paged' = [t \in Tenants |->
              IF t \in landed THEN PagedLanded(t) ELSE paged[t]]

\* Mutant: every recorded failure taken for settled.
NeedsRecoveryUnlessFailed(t) ==
    diskState[t] \notin {"none", "closed", "backup-failed", "cancelled", "failed-unsafe"}

\* What recoverPersistedTenants skips: NO_ACTION_STATES and a paged failure.
NeedsRecovery(t) ==
    /\ diskState[t] \notin {"none", "closed", "backup-failed", "cancelled"}
    /\ ~(diskState[t] = "failed-unsafe" /\ diskPaged[t])

Restart ==
    /\ ~up /\ up' = TRUE
    /\ sweep' = {t \in Tenants : NeedsRecovery(t)}
    /\ UNCHANGED <<recovering, lock, pc, state, abort, world>>

\* Mutant: closing recovered by tearing down the other colour.
RecoveryCallsSwapped ==
    {<<"reverted", "restop">>, <<"closing", "restop">>, <<"failed-unsafe", "page">>}

\* runRecoveryAction on a machine rehydrated from the record of t.
RecoveryCallOf ==
    {<<"reverted", "restop">>, <<"closing", "stopOld">>, <<"failed-unsafe", "page">>}

\* Mutant: recoverFromApplying() probes without taking the lock.
RecoveryStepsUnlocked(t) ==
    /\ diskState[t] = "applying"
    /\ state' = [state EXCEPT ![t] = "applying"]
    /\ pc' = [pc EXCEPT ![t] = "settle"]
    /\ UNCHANGED lock

RecoverySteps(t) ==
    \/ /\ diskState[t] \in {"pending", "backing-up", "backed-up"}
       /\ Enter(t, "cancelled") /\ UNCHANGED lock
    \/ /\ diskState[t] = "applying"
       /\ pc' = [pc EXCEPT ![t] = "queued"]
       /\ state' = [state EXCEPT ![t] = "applying"]
       /\ lock' = Append(lock, t)
    \/ /\ diskState[t] \in {"verifying", "reverting"}
       /\ Enter(t, "reverting") /\ UNCHANGED lock
    \/ /\ state' = [state EXCEPT ![t] = diskState[t]]
       /\ \E call \in RecoveryCallOf :
            diskState[t] = call[1] /\ pc' = [pc EXCEPT ![t] = call[2]]
       /\ UNCHANGED lock

\* The sweep is sequential, in whatever order readdir listed the records.  The
\* caller wakes a rehydrated "done" machine; nothing else is awaited for it.
RecoverNext(t) ==
    /\ up /\ recovering = None /\ t \in sweep
    /\ sweep' = sweep \ {t}
    /\ abort' = [abort EXCEPT ![t] = FALSE]
    /\ \/ recovering' = t /\ RecoverySteps(t)
       \/ /\ diskState[t] = "done"
          /\ pc' = [pc EXCEPT ![t] = "idle"]
          /\ state' = [state EXCEPT ![t] = "done"]
          /\ UNCHANGED <<recovering, lock>>
    /\ UNCHANGED <<up, world>>

-----------------------------------------------------------------------------
\* The container finishes, whether or not the controller is alive; a migrated
\* colour joins the tenant's traffic beside the old one.
MigrationEnds(t) ==
    /\ mig[t] = "inflight"
    /\ \/ /\ mig' = [mig EXCEPT ![t] = "migrated"]
          /\ traffic' = [traffic EXCEPT ![t] = @ \cup {"new"}]
       \/ /\ mig' = [mig EXCEPT ![t] = "broken"]
          /\ UNCHANGED traffic
    /\ UNCHANGED <<process, diskState, diskPaged, running, paged, crashes>>

\* Steps the event loop owes a machine once it has started.
MachineStep(t) ==
    \/ SavedThenCalls(t) \/ SavedThenRests(t) \/ SavedThenQueues(t)
    \/ SavedThenApplies(t) \/ SavedThenReverts(t) \/ SavedPaged(t) \/ SaveRejects(t)
    \/ BackupSettles(t) \/ LockGranted(t) \/ ApplyResolves(t) \/ ApplyRejects(t)
    \/ ProbeSettles(t) \/ VerifySettles(t) \/ RevertSettles(t)
    \/ StopNewSettles(t) \/ RestopSettles(t) \/ StopOldSettles(t) \/ PageSettles(t)

CallerStep(t) ==
    NewMachine(t) \/ Run(t) \/ Abort(t) \/ CloseBakeWindow(t) \/ AbortAfterDone(t)

Next ==
    \/ \E t \in Tenants : MachineStep(t) \/ CallerStep(t) \/ RecoverNext(t) \/ MigrationEnds(t)
    \/ Crash
    \/ Restart

Spec == Init /\ [][Next]_vars

\* The event loop, the supervisor that restarts the unit and the container
\* make progress; the callers owe nothing.
Fairness ==
    /\ \A t \in Tenants : /\ WF_vars(MachineStep(t))
                          /\ WF_vars(RecoverNext(t))
                          /\ WF_vars(MigrationEnds(t))
    /\ WF_vars(Restart)

FairSpec == Spec /\ Fairness

-----------------------------------------------------------------------------
(* Properties.                                                             *)

\* t is between being granted the lock and giving it back: "applying" is being
\* recorded, apply() runs, or a recovery probes a migration that may run.
InsideLock(t) ==
    \/ pc[t] \in {"apply", "settle"}
    \/ pc[t] = "saving" /\ state[t] = "applying"

\* ApplyLock: never two tenants inside the uninterruptible step together, live
\* runs, recoveries and every kind of rejection included.
OneInsideLock ==
    \A t, u \in Tenants : InsideLock(t) /\ InsideLock(u) => t = u

\* While the migration of t may be running nothing verifies, reverts or stops
\* a colour of t, and the record still tells a restart so
\* (recoverFromApplying, probeApplySettled).
LiveMigrationUntouched ==
    \A t \in Tenants : mig[t] = "inflight" =>
        /\ pc[t] \notin {"verify", "revert", "stopNew", "restop", "stopOld"}
        /\ diskState[t] \in {"applying", "failed-unsafe"}

\* A running colour is in the tenant's traffic at every instant of a bump, through
\* every crash and recovery (closing is recorded before the old colour's teardown,
\* reverted before the new one's, and done is claimed once).
AlwaysServed == \A t \in Tenants : running[t] \cap traffic[t] # {}

\* The record never says the page went out when nobody received it
\* (failUnsafe persists pageSent only after page() returned).
NoPageLost == \A t \in Tenants : diskPaged[t] => paged[t]

\* apply() is called at most once in the life of a bump, crashes included.
ApplyStarts(t) == pc[t] # "apply" /\ pc'[t] = "apply"
ApplyOnce == [][\A t \in Tenants : ApplyStarts(t) => mig[t] = "none"]_vars

\* A bump at rest on disk stays there: no restart retries or re-decides it.
AtRest(t) ==
    \/ diskState[t] \in {"closed", "cancelled", "backup-failed"}
    \/ diskState[t] = "failed-unsafe" /\ diskPaged[t]
NoRetryOfItself ==
    [][\A t \in Tenants : AtRest(t) =>
          diskState'[t] = diskState[t] /\ diskPaged'[t] = diskPaged[t]]_vars

\* Once the old colour is being stopped the bump can no longer revert: closing
\* and reverting exclude each other for good, on disk and across restarts.
CloseIsFinal ==
    [][\A t \in Tenants : diskState[t] \in {"closing", "closed"} =>
          diskState'[t] \in {"closing", "closed"}]_vars

\* Nobody waits for a promise that nothing settles: the lock is held by a machine
\* that is still at work, whoever queues is in its chain, once, and behind it only
\* machines that queue; the sweep awaits a recovery that is still at work
\* (ApplyLock.run, recoverPersistedTenants: a flow that rejects must give both back).
AtWork(t) == pc[t] \notin {"none", "idle"}
NobodyStranded ==
    /\ lock # <<>> => AtWork(Head(lock))
    /\ \A i \in 2 .. Len(lock) : pc[lock[i]] = "queued"
    /\ \A i, j \in 1 .. Len(lock) : lock[i] = lock[j] => i = j
    /\ \A t \in Tenants : pc[t] = "queued" => \E i \in 1 .. Len(lock) : lock[i] = t
    /\ recovering # None => AtWork(recovering)

\* Whatever happens inside, a bump is the change of colour of BumpLifecycle: what is
\* decided is on disk before a colour leaves the traffic, and is not decided again.
Lifecycle == INSTANCE BumpLifecycle WITH
    verdict <- [t \in Tenants |->
        IF diskState[t] \in {"none", "pending", "backing-up", "backed-up"} THEN "undecided"
        ELSE IF diskState[t] \in {"applying", "verifying", "done"} THEN "open"
        ELSE IF diskState[t] \in {"cancelled", "backup-failed"} THEN "dropped"
        ELSE IF diskState[t] = "failed-unsafe" THEN (IF diskPaged[t] THEN "paged" ELSE "unsafe")
        ELSE diskState[t]],
    serving <- [t \in Tenants |-> running[t] \cap traffic[t]],
    told    <- paged
LifecycleSpec == Lifecycle!Spec

\* A failure recorded as unsafe reaches a person, whatever crashes come first.
FailureIsPaged ==
    \A t \in Tenants : diskState[t] = "failed-unsafe" ~> diskPaged[t]

\* Every bump that started comes to rest, in spite of crashes, of the other
\* tenants queued on the lock and of migrations that end badly.
Rested(t) == diskState[t] \in {"done", "closed", "cancelled", "backup-failed",
                               "reverted", "failed-unsafe"}
BumpRests == \A t \in Tenants : diskState[t] # "none" ~> Rested(t)

-----------------------------------------------------------------------------
(* The inductive invariant behind the properties.                          *)

\* What a machine awaits tells the state it is in, and the calls that touch a
\* colour are made only once that state is on disk.
PcState ==
    \A t \in Tenants :
        /\ pc[t] = "backup" => state[t] = "backing-up"
        /\ pc[t] = "queued" => state[t] \in {"backed-up", "applying"}
        /\ pc[t] \in {"apply", "settle"} => state[t] = "applying"
        /\ pc[t] \in {"verify", "savingAborted"} => state[t] = "verifying"
        /\ pc[t] = "revert" => state[t] = "reverting" /\ diskState[t] = "reverting"
        /\ pc[t] \in {"stopNew", "restop"} => state[t] = "reverted" /\ diskState[t] = "reverted"
        /\ pc[t] = "stopOld" => state[t] = "closing" /\ diskState[t] = "closing"
        /\ pc[t] \in {"page", "savingPaged"} => state[t] = "failed-unsafe"

\* Whoever is inside the lock heads the promise chain.
HolderIsHead == \A t \in Tenants : InsideLock(t) => lock # <<>> /\ Head(lock) = t

\* A migration was started only by a machine that has gone past the call, and
\* its record shows it.
StartedOnce ==
    \A t \in Tenants :
        \/ diskState[t] = "none"
        \/ pc[t] # "none" /\ state[t] \in {"pending", "backing-up", "backed-up"}
        \/ pc[t] = "saving" /\ state[t] = "applying"
        => mig[t] = "none"

\* While the migration may run the machine waits for it, or has given up.
MigrationAwaited ==
    \A t \in Tenants : mig[t] = "inflight" =>
        /\ diskState[t] \in {"applying", "failed-unsafe"}
        /\ \/ pc[t] = "none"
           \/ state[t] = "applying" /\ pc[t] \in {"apply", "queued", "settle", "idle"}
           \/ state[t] = "failed-unsafe" /\ pc[t] \in {"saving", "savingPaged", "page", "idle"}

\* The new colour carries the traffic from a migration that ended well until a
\* revert is on disk; the old one runs until closing is.
ServingNew(t) == "new" \in running[t] /\ "new" \in traffic[t]
Keeps == {"done", "closing", "closed"}
ColoursKept ==
    \A t \in Tenants :
        /\ "old" \in traffic[t]
        /\ "old" \notin running[t] =>
             diskState[t] \in {"closing", "closed"}
             /\ (pc[t] # "none" => state[t] \in {"closing", "closed"})
        /\ \/ diskState[t] \in Keeps
           \/ pc[t] # "none" /\ state[t] \in Keeps
           \/ pc[t] = "verify"
           \/ pc[t] = "saving" /\ state[t] = "verifying"
           => mig[t] = "migrated" /\ ServingNew(t)
        /\ pc[t] \in {"apply", "settle"} => diskState[t] = "applying"
        /\ pc[t] = "queued" /\ state[t] = "applying" => diskState[t] = "applying"
        /\ diskState[t] = "applying" /\ mig[t] = "inflight" => "new" \in running[t]
        /\ diskState[t] = "applying" /\ mig[t] = "migrated" => ServingNew(t)

PageAccounted ==
    \A t \in Tenants : diskPaged[t] \/ pc[t] = "savingPaged" => paged[t]

\* Nothing works on a record at rest, no revert on one that is closing, and the
\* sweep still owes a recovery only to tenants without a machine.
Decided ==
    \A t \in Tenants :
        /\ diskState[t] \in {"closing", "closed"} /\ pc[t] # "none" =>
             state[t] \in {"closing", "closed"}
        /\ AtRest(t) => /\ t \notin sweep
                        /\ pc[t] = "none" \/ (pc[t] = "idle" /\ state[t] = diskState[t])
        /\ t \in sweep => pc[t] = "none" /\ diskState[t] # "none"
        /\ ~up => pc[t] = "none"

\* Whoever holds the lock has its backup behind it.
HeadPast == lock # <<>> =>
    /\ pc[Head(lock)] # "backup"
    /\ pc[Head(lock)] = "saving" => state[Head(lock)] \notin {"backing-up", "backed-up"}

\* The record of a bump is at most one decision behind its machine, and the colours
\* that left the traffic are those the record or the machine has decided against.
Undecided == {"none", "pending", "backing-up", "backed-up"}
Open      == {"applying", "verifying", "done"}
Behind(s) ==
    IF s = "failed-unsafe" THEN Open \cup {"reverting", "reverted", s}
    ELSE IF s \in {"closing", "reverting"} THEN Open \cup {s}
    ELSE IF s \in {"verifying", "done"} THEN Open
    ELSE IF s = "closed" THEN {"closing", s}
    ELSE IF s = "reverted" THEN {"reverting", s}
    ELSE Undecided \cup {s}
Recorded ==
    \A t \in Tenants :
        /\ pc[t] # "none" => diskState[t] \in Behind(state[t])
        /\ pc[t] \in {"page", "savingPaged"} => diskState[t] = "failed-unsafe"
        /\ mig[t] = "none" => "new" \notin traffic[t]
        /\ diskState[t] = "closed" \/ (pc[t] # "none" /\ state[t] = "closed") =>
             "old" \notin running[t]
        /\ diskState[t] = "reverted" \/ (pc[t] # "none" /\ state[t] = "reverted") =>
             "new" \notin traffic[t]

IInv == /\ TypeOK /\ PcState /\ HolderIsHead /\ StartedOnce
        /\ MigrationAwaited /\ ColoursKept /\ PageAccounted /\ Decided

-----------------------------------------------------------------------------
(* Three promises of the documentation that the code does not keep.        *)

\* README.md:128 of the service and the comment on abort(): an abort that lands
\* in "backed-up" cancels.  The state is "backed-up" for as long as the machine
\* queues on the lock, and run() does not look at the flag again before apply().
QueuedAbortCancels ==
    [][\A t \in Tenants : state[t] = "backed-up" /\ abort[t] => state'[t] # "applying"]_vars

\* README.md:131 of the service: at most one tenant is ever in "applying" (a
\* recovered machine still queued for the lock aside).  A rejected apply() gives
\* the lock to the next tenant and leaves its own machine in "applying".
OneTenantApplying ==
    \A t, u \in Tenants :
        (/\ state[t] = "applying" /\ pc[t] \notin {"none", "queued"}
         /\ state[u] = "applying" /\ pc[u] \notin {"none", "queued"}) => t = u

\* src/README.md:184: stopColour('new') throwing after a successful revert goes
\* to failed-unsafe and pages, lest a restart throw again and nobody learn that
\* the new colour was left running.  recoverFromReverted is such a restart.
SweepDone == up /\ sweep = {} /\ recovering = None
RevertedIsTornDown ==
    \A t \in Tenants :
        SweepDone /\ pc[t] = "none" /\ diskState[t] = "reverted" => "new" \notin running[t]

=============================================================================
