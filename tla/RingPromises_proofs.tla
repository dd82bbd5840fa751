------------------------ MODULE RingPromises_proofs -------------------------
(***************************************************************************)
(* What the controller of RingController promises over a whole bump, for   *)
(* any set of tenants, any subset of rejecting dependencies and any number *)
(* of crashes: nobody is left waiting for a lock or a sweep that nothing   *)
(* gives back, and every bump is the change of colour of BumpLifecycle.    *)
(* The invariants it needs, HeadPast and Recorded, stand on top of IInv,   *)
(* which RingController_proofs proves.                                     *)
(***************************************************************************)
EXTENDS RingController_proofs

-----------------------------------------------------------------------------
(* The promise chain of ApplyLock.                                         *)

\* A place appended at the end of a queue.
LEMMA AppendPlaces ==
    ASSUME NEW S, NEW s \in Seq(S), NEW x \in S
    PROVE  /\ Append(s, x) # <<>> /\ Len(Append(s, x)) = Len(s) + 1 /\ Len(s) \in Nat
           /\ \A i \in 1 .. Len(s) : Append(s, x)[i] = s[i]
           /\ Append(s, x)[Len(s) + 1] = x
  OBVIOUS

\* The places left when the first of a queue goes.
LEMMA TailPlaces ==
    ASSUME NEW S, NEW s \in Seq(S), s # <<>>
    PROVE  /\ Head(s) = s[1] /\ Len(s) \in Nat \ {0}
           /\ Tail(s) \in Seq(S) /\ Len(Tail(s)) = Len(s) - 1
           /\ \A i \in 1 .. Len(s) - 1 : Tail(s)[i] = s[i + 1]
           /\ Tail(s) # <<>> => Head(Tail(s)) = s[2] /\ Len(s) >= 2
  OBVIOUS

\* A queue with a place is not empty.
LEMMA Places ==
    ASSUME NEW S, NEW s \in Seq(S)
    PROVE  /\ Len(s) \in Nat
           /\ \A i \in 1 .. Len(s) : s[i] \in S /\ s # <<>>
           /\ s # <<>> => Len(s) >= 1 /\ Head(s) = s[1] /\ Head(s) \in S
  OBVIOUS

\* The chain as its conjuncts, with the sweep left out.
Chain ==
    /\ lock # <<>> => AtWork(Head(lock))
    /\ \A i \in 2 .. Len(lock) : pc[lock[i]] = "queued"
    /\ \A i, j \in 1 .. Len(lock) : lock[i] = lock[j] => i = j
    /\ \A t \in Tenants : pc[t] = "queued" => \E i \in 1 .. Len(lock) : lock[i] = t

InChain(t) == \E i \in 1 .. Len(lock) : lock[i] = t

\* Whoever is in the chain is at work, and queues unless it is the head.
LEMMA ChainAtWork ==
    ASSUME TypeOK, Chain, NEW t \in Tenants, InChain(t)
    PROVE  AtWork(t) /\ lock # <<>> /\ (pc[t] = "queued" \/ Head(lock) = t)
<1>1. PICK i \in 1 .. Len(lock) : lock[i] = t
  BY DEF InChain
<1>2. lock \in Seq(Tenants)
  BY DEF TypeOK
<1>3. Len(lock) \in Nat /\ lock # <<>> /\ Head(lock) = lock[1]
  BY <1>1, <1>2, Places
<1>4. CASE i = 1
  BY <1>1, <1>3, <1>4 DEF Chain
<1>5. CASE i # 1
  <2>1. i \in 2 .. Len(lock)
    BY <1>3, <1>5
  <2> QED
    BY <1>1, <1>3, <2>1 DEF Chain, AtWork
<1> QED
  BY <1>4, <1>5

\* A machine goes on with the lock untouched.
LEMMA ChainGoesOn ==
    ASSUME TypeOK, Chain, NEW t \in Tenants, NEW p,
           pc' = [pc EXCEPT ![t] = p], lock' = lock,
           p = "queued" => pc[t] = "queued",
           pc[t] = "queued" /\ p # "queued" => lock # <<>> /\ Head(lock) = t,
           p \in {"none", "idle"} => ~InChain(t)
    PROVE  Chain'
<1>1. lock \in Seq(Tenants) /\ pc \in [Tenants -> Promises] /\ Len(lock) \in Nat
  BY Places DEF TypeOK
<1>2. lock # <<>> => AtWork(Head(lock))'
  <2>1. ASSUME lock # <<>> PROVE Head(lock) \in Tenants /\ Head(lock) = lock[1] /\ Len(lock) >= 1
    BY <1>1, <2>1, Places
  <2>2. lock # <<>> /\ Head(lock) = t => InChain(t)
    BY <1>1, <2>1 DEF InChain
  <2> QED
    BY <1>1, <2>1, <2>2 DEF Chain, AtWork
<1>3. ASSUME NEW i \in 2 .. Len(lock) PROVE pc'[lock[i]] = "queued"
  <2>1. pc[lock[i]] = "queued" /\ lock[i] \in Tenants /\ i \in 1 .. Len(lock) /\ 1 \in 1 .. Len(lock)
    BY <1>1, <1>3, Places DEF Chain
  <2>2. lock[i] = t => Head(lock) # t
    BY <1>1, <1>3, <2>1, Places DEF Chain
  <2> QED
    BY <1>1, <2>1, <2>2
<1>4. ASSUME NEW u \in Tenants, pc'[u] = "queued" PROVE \E i \in 1 .. Len(lock) : lock[i] = u
  BY <1>1, <1>4 DEF Chain
<1> QED
  BY <1>2, <1>3, <1>4 DEF Chain

\* The flow of a machine that does not queue is over: Release either leaves the
\* chain alone or hands the lock to the next in it.
LEMMA ChainReleased ==
    ASSUME TypeOK, Chain, NEW t \in Tenants, NEW p,
           pc' = [pc EXCEPT ![t] = p], p # "queued", pc[t] # "queued", Release(t),
           p \in {"none", "idle"} \/ (lock # <<>> /\ Head(lock) = t)
    PROVE  Chain'
<1>1. lock \in Seq(Tenants) /\ pc \in [Tenants -> Promises] /\ Len(lock) \in Nat
  BY Places DEF TypeOK
<1>2. CASE lock # <<>> /\ Head(lock) = t
  <2>1. /\ lock' = Tail(lock) /\ Len(lock) \in Nat \ {0} /\ Len(lock') = Len(lock) - 1
        /\ \A i \in 1 .. Len(lock) - 1 : lock'[i] = lock[i + 1]
        /\ lock' # <<>> => Head(lock') = lock[2] /\ Len(lock) >= 2
        /\ lock[1] = t
    BY <1>1, <1>2, TailPlaces DEF Release
  <2>2. \A i \in 2 .. Len(lock) : lock[i] # t /\ lock[i] \in Tenants /\ pc'[lock[i]] = "queued"
    <3> SUFFICES ASSUME NEW i \in 2 .. Len(lock)
                 PROVE  lock[i] # t /\ lock[i] \in Tenants /\ pc'[lock[i]] = "queued"
      OBVIOUS
    <3>1. i \in 1 .. Len(lock) /\ lock[i] \in Tenants /\ pc[lock[i]] = "queued"
      BY <1>1, Places DEF Chain
    <3> QED
      BY <1>1, <3>1
  <2>3. lock' # <<>> => AtWork(Head(lock))'
    BY <2>1, <2>2 DEF AtWork
  <2>4. \A i \in 2 .. Len(lock') : pc'[lock'[i]] = "queued"
    BY <2>1, <2>2
  <2>5. \A i, j \in 1 .. Len(lock') : lock'[i] = lock'[j] => i = j
    <3> SUFFICES ASSUME NEW i \in 1 .. Len(lock'), NEW j \in 1 .. Len(lock'), lock'[i] = lock'[j]
                 PROVE  i = j
      OBVIOUS
    <3>1. i + 1 \in 1 .. Len(lock) /\ j + 1 \in 1 .. Len(lock) /\ lock[i + 1] = lock[j + 1]
      BY <2>1
    <3> QED
      BY <3>1 DEF Chain
  <2>6. \A u \in Tenants : pc'[u] = "queued" => \E i \in 1 .. Len(lock') : lock'[i] = u
    <3> SUFFICES ASSUME NEW u \in Tenants, pc'[u] = "queued"
                 PROVE  \E i \in 1 .. Len(lock') : lock'[i] = u
      OBVIOUS
    <3>1. u # t /\ pc[u] = "queued"
      BY <1>1
    <3>2. PICK i \in 1 .. Len(lock) : lock[i] = u
      BY <3>1 DEF Chain
    <3>3. i - 1 \in 1 .. Len(lock')
      BY <2>1, <3>1, <3>2
    <3>4. lock'[i - 1] = u
      BY <2>1, <3>2, <3>3
    <3> QED
      BY <3>3, <3>4
  <2> QED
    BY <2>3, <2>4, <2>5, <2>6 DEF Chain
<1>3. CASE ~(lock # <<>> /\ Head(lock) = t)
  <2>1. lock' = lock /\ ~InChain(t)
    BY <1>3, ChainAtWork DEF Release
  <2> QED
    BY <1>3, <2>1, ChainGoesOn
<1> QED
  BY <1>2, <1>3

\* A machine outside the chain queues behind it.
LEMMA ChainJoined ==
    ASSUME TypeOK, Chain, NEW t \in Tenants, ~InChain(t),
           pc' = [pc EXCEPT ![t] = "queued"], lock' = Append(lock, t)
    PROVE  Chain'
<1>1. lock \in Seq(Tenants) /\ pc \in [Tenants -> Promises]
  BY DEF TypeOK
<1>2. /\ lock' # <<>> /\ Len(lock') = Len(lock) + 1 /\ Len(lock) \in Nat
      /\ \A i \in 1 .. Len(lock) : lock'[i] = lock[i] /\ lock[i] # t
      /\ lock'[Len(lock) + 1] = t
  BY <1>1, AppendPlaces DEF InChain
<1>3. \A i \in 1 .. Len(lock') : i \in 1 .. Len(lock) \/ (i = Len(lock) + 1 /\ lock'[i] = t)
  BY <1>2
<1>4. AtWork(Head(lock))'
  <2>1. lock' \in Seq(Tenants)
    BY <1>1
  <2>2. Head(lock') = lock'[1]
    BY <1>2, <2>1, Places
  <2>3. CASE lock = <<>>
    <3>1. Len(lock) = 0
      BY <2>3
    <3> QED
      BY <1>1, <1>2, <2>2, <3>1 DEF AtWork
  <2>4. CASE lock # <<>>
    <3>1. 1 \in 1 .. Len(lock) /\ Head(lock) = lock[1] /\ lock[1] \in Tenants
      BY <1>1, <2>4, Places
    <3>2. Head(lock') = Head(lock) /\ Head(lock) # t
      BY <1>2, <2>2, <3>1
    <3> QED
      BY <1>1, <2>4, <3>1, <3>2 DEF Chain, AtWork
  <2> QED
    BY <2>3, <2>4
<1>5. ASSUME NEW i \in 2 .. Len(lock') PROVE pc'[lock'[i]] = "queued"
  <2>1. CASE i \in 1 .. Len(lock)
    <3>1. pc[lock[i]] = "queued" /\ lock[i] \in Tenants
      BY <1>1, <1>2, <1>5, <2>1, Places DEF Chain
    <3> QED
      BY <1>1, <1>2, <2>1, <3>1
  <2>2. CASE lock'[i] = t
    BY <1>1, <2>2
  <2> QED
    BY <1>2, <1>3, <2>1, <2>2
<1>6. ASSUME NEW i \in 1 .. Len(lock'), NEW j \in 1 .. Len(lock'), lock'[i] = lock'[j] PROVE i = j
  BY <1>2, <1>3, <1>6 DEF Chain
<1>7. ASSUME NEW u \in Tenants, pc'[u] = "queued" PROVE \E i \in 1 .. Len(lock') : lock'[i] = u
  <2>1. CASE u = t
    BY <1>2, <2>1
  <2>2. CASE u # t
    <3>1. PICK i \in 1 .. Len(lock) : lock[i] = u
      BY <1>1, <1>7, <2>2 DEF Chain
    <3>2. i \in 1 .. Len(lock') /\ lock'[i] = u
      BY <1>2, <3>1
    <3> QED
      BY <3>2
  <2> QED
    BY <2>1, <2>2
<1> QED
  BY <1>2, <1>4, <1>5, <1>6, <1>7 DEF Chain

\* The chain and what its head has behind it.
Queue == Chain /\ HeadPast

\* A machine still before its backup is not in the chain, nor is one at rest.
Outside(t) ==
    \/ pc[t] \in {"none", "idle", "backup"}
    \/ pc[t] = "saving" /\ state[t] \in {"backing-up", "backed-up"}

\* A machine outside the lock that does not queue has no place in the chain.
LEMMA OutsideChain ==
    ASSUME TypeOK, Queue, NEW t \in Tenants, Outside(t)
    PROVE  ~InChain(t)
  BY ChainAtWork DEF Queue, HeadPast, Outside, AtWork

\* A step that changes what t awaits and its state, of no other machine.
Turn(t) == pc' = [pc EXCEPT ![t] = pc'[t]] /\ state' = [state EXCEPT ![t] = state'[t]]

\* A machine goes on, holding the lock or outside the chain.
LEMMA QueueGoesOn ==
    ASSUME TypeOK, Queue, NEW t \in Tenants, Turn(t), lock' = lock,
           pc'[t] # "queued",
           pc[t] = "queued" => lock # <<>> /\ Head(lock) = t,
           pc'[t] \in {"none", "idle"} \/ Outside(t)' => Outside(t)
    PROVE  Queue'
<1>1. Outside(t) => ~InChain(t)
  BY OutsideChain
<1>2. pc'[t] \in {"none", "idle"} => Outside(t)'
  BY DEF Outside
<1>3. Chain'
  BY <1>1, <1>2, ChainGoesOn DEF Queue, Turn
<1>4. HeadPast'
  <2>1. lock \in Seq(Tenants) /\ pc \in [Tenants -> Promises] /\ state \in [Tenants -> BumpState]
    BY DEF TypeOK
  <2>2. lock # <<>> => Head(lock) \in Tenants /\ InChain(Head(lock))
    BY <2>1, Places DEF InChain
  <2>3. lock # <<>> /\ Head(lock) # t => pc'[Head(lock)] = pc[Head(lock)] /\ state'[Head(lock)] = state[Head(lock)]
    BY <2>1, <2>2 DEF Turn
  <2>4. lock # <<>> /\ Head(lock) = t => ~Outside(t)'
    BY <1>1, <2>2
  <2> QED
    BY <2>3, <2>4 DEF Queue, HeadPast, Outside
<1> QED
  BY <1>3, <1>4 DEF Queue

\* A flow is over, or leaves the lock behind and goes on.
LEMMA QueueReleased ==
    ASSUME TypeOK, Queue, NEW t \in Tenants, Turn(t), Release(t),
           pc[t] # "queued", pc'[t] # "queued",
           pc'[t] \in {"none", "idle"} \/ (lock # <<>> /\ Head(lock) = t)
    PROVE  Queue'
<1>1. Chain'
  BY ChainReleased DEF Queue, Turn
<1>2. HeadPast'
  <2>1. lock \in Seq(Tenants) /\ pc \in [Tenants -> Promises] /\ state \in [Tenants -> BumpState]
    BY DEF TypeOK
  <2>2. CASE lock # <<>> /\ Head(lock) = t
    <3>1. lock' = Tail(lock)
      BY <2>2 DEF Release
    <3>2. ASSUME lock' # <<>> PROVE Head(lock') = lock[2] /\ lock[2] \in Tenants /\ 2 \in 2 .. Len(lock)
      <4>1. Head(lock') = lock[2] /\ Len(lock) >= 2 /\ Len(lock) \in Nat
        BY <2>1, <2>2, <3>1, <3>2, TailPlaces
      <4> QED
        BY <2>1, <4>1
    <3>3. lock' # <<>> => pc[lock[2]] = "queued"
      BY <3>2 DEF Queue, Chain
    <3>4. lock' # <<>> => pc'[Head(lock')] = "queued"
      BY <2>1, <3>2, <3>3 DEF Turn
    <3> QED
      BY <3>4 DEF HeadPast
  <2>3. CASE ~(lock # <<>> /\ Head(lock) = t)
    <3>1. lock' = lock
      BY <2>3 DEF Release
    <3>2. lock # <<>> => Head(lock) \in Tenants /\ Head(lock) # t
      BY <2>1, <2>3, Places
    <3> QED
      BY <2>1, <3>1, <3>2 DEF Queue, HeadPast, Turn
  <2> QED
    BY <2>2, <2>3
<1> QED
  BY <1>1, <1>2 DEF Queue

\* A machine queues on the lock.
LEMMA QueueJoined ==
    ASSUME TypeOK, Queue, NEW t \in Tenants, Turn(t), Outside(t), pc'[t] = "queued",
           lock' = Append(lock, t)
    PROVE  Queue'
<1>1. Chain'
  BY OutsideChain, ChainJoined DEF Queue, Turn
<1>2. HeadPast'
  <2>1. lock \in Seq(Tenants) /\ pc \in [Tenants -> Promises] /\ state \in [Tenants -> BumpState]
    BY DEF TypeOK
  <2>2. CASE lock = <<>>
    <3>1. Head(lock') = t
      BY <2>1, <2>2
    <3> QED
      BY <3>1 DEF HeadPast
  <2>3. CASE lock # <<>>
    <3>1. Head(lock') = Head(lock)
      BY <2>1, <2>3, AppendKeepsHead
    <3>2. Head(lock) \in Tenants
      BY <2>1, <2>3, Places
    <3> QED
      BY <2>1, <2>3, <3>1, <3>2 DEF Queue, HeadPast, Turn
  <2> QED
    BY <2>2, <2>3
<1> QED
  BY <1>1, <1>2 DEF Queue

\* Every step keeps the chain of promises one that somebody resolves.
LEMMA QueueStep ==
    ASSUME TypeOK, PcState, HolderIsHead, Decided, Queue, [Next]_vars
    PROVE  Queue'
<1> USE DEF Enter, Awaits, KeepLock, FlowEnds, Finish, FlowRejects, Running, Others, Turn, Outside
<1>0. pc \in [Tenants -> Promises] /\ state \in [Tenants -> BumpState]
  BY DEF TypeOK
<1>1. ASSUME NEW t \in Tenants, SavedThenCalls(t) PROVE Queue'
  <2>1. PICK call \in CallOf : state[t] = call[1] /\ Awaits(t, call[2])
    BY <1>1 DEF SavedThenCalls
  <2>2. /\ call[2] \in {"backup", "verify", "revert", "stopNew", "stopOld", "page"}
        /\ call[2] = "backup" => state[t] = "backing-up"
    BY <2>1 DEF CallOf
  <2>3. Turn(t) /\ pc'[t] = call[2] /\ lock' = lock
    BY <1>0, <1>1, <2>1 DEF SavedThenCalls
  <2> QED
    BY <1>1, <2>2, <2>3, QueueGoesOn DEF SavedThenCalls
<1>2. ASSUME NEW t \in Tenants, SavedThenRests(t) PROVE Queue'
  BY <1>0, <1>2, QueueReleased DEF SavedThenRests
<1>3. ASSUME NEW t \in Tenants, SavedThenQueues(t) PROVE Queue'
  BY <1>0, <1>3, QueueJoined DEF SavedThenQueues
<1>4. ASSUME NEW t \in Tenants, SavedThenApplies(t) PROVE Queue'
  BY <1>0, <1>4, QueueGoesOn DEF SavedThenApplies
<1>5. ASSUME NEW t \in Tenants, SavedThenReverts(t) PROVE Queue'
  BY <1>0, <1>5, QueueGoesOn DEF SavedThenReverts
<1>6. ASSUME NEW t \in Tenants, SavedPaged(t) PROVE Queue'
  BY <1>0, <1>6, QueueReleased DEF SavedPaged
<1>7. ASSUME NEW t \in Tenants, SaveRejects(t) PROVE Queue'
  BY <1>0, <1>7, QueueReleased DEF SaveRejects
<1>8. ASSUME NEW t \in Tenants, BackupSettles(t) PROVE Queue'
  BY <1>0, <1>8, QueueGoesOn, QueueReleased DEF BackupSettles
<1>9. ASSUME NEW t \in Tenants, LockGranted(t) PROVE Queue'
  BY <1>0, <1>9, QueueGoesOn DEF LockGranted
<1>10. ASSUME NEW t \in Tenants, ApplyResolves(t) PROVE Queue'
  BY <1>0, <1>10, QueueReleased DEF ApplyResolves, HolderIsHead, InsideLock
<1>11. ASSUME NEW t \in Tenants, ApplyRejects(t) PROVE Queue'
  BY <1>0, <1>11, QueueReleased DEF ApplyRejects
<1>12. ASSUME NEW t \in Tenants, ProbeSettles(t) PROVE Queue'
  BY <1>0, <1>12, QueueGoesOn DEF ProbeSettles
<1>13. ASSUME NEW t \in Tenants, VerifySettles(t) PROVE Queue'
  BY <1>0, <1>13, QueueGoesOn DEF VerifySettles
<1>14. ASSUME NEW t \in Tenants, RevertSettles(t) PROVE Queue'
  BY <1>0, <1>14, QueueGoesOn DEF RevertSettles
<1>15. ASSUME NEW t \in Tenants, StopNewSettles(t) PROVE Queue'
  BY <1>0, <1>15, QueueGoesOn, QueueReleased DEF StopNewSettles
<1>16. ASSUME NEW t \in Tenants, RestopSettles(t) PROVE Queue'
  BY <1>0, <1>16, QueueReleased DEF RestopSettles
<1>17. ASSUME NEW t \in Tenants, StopOldSettles(t) PROVE Queue'
  BY <1>0, <1>17, QueueGoesOn, QueueReleased DEF StopOldSettles
<1>18. ASSUME NEW t \in Tenants, PageSettles(t) PROVE Queue'
  BY <1>0, <1>18, QueueGoesOn, QueueReleased DEF PageSettles
<1>19. ASSUME NEW t \in Tenants, NewMachine(t) PROVE Queue'
  BY <1>0, <1>19, QueueGoesOn DEF NewMachine
<1>20. ASSUME NEW t \in Tenants, Run(t) PROVE Queue'
  BY <1>0, <1>20, QueueGoesOn DEF Run
<1>21. ASSUME NEW t \in Tenants, Abort(t) PROVE Queue'
  BY <1>21 DEF Abort, Queue, Chain, HeadPast, AtWork
<1>22. ASSUME NEW t \in Tenants, CloseBakeWindow(t) PROVE Queue'
  BY <1>0, <1>22, QueueGoesOn DEF CloseBakeWindow
<1>23. ASSUME NEW t \in Tenants, AbortAfterDone(t) PROVE Queue'
  BY <1>0, <1>23, QueueGoesOn DEF AbortAfterDone
<1>24. ASSUME NEW t \in Tenants, RecoverNext(t) PROVE Queue'
  <2>1. pc[t] = "none"
    BY <1>24 DEF RecoverNext, Decided
  <2>2. CASE diskState[t] = "applying"
    <3>1. pc' = [pc EXCEPT ![t] = "queued"] /\ state' = [state EXCEPT ![t] = "applying"]
          /\ lock' = Append(lock, t)
      BY <1>24, <2>2 DEF RecoverNext, RecoverySteps, RecoveryCallOf
    <3> QED
      BY <1>0, <2>1, <3>1, QueueJoined
  <2>3. CASE diskState[t] # "applying"
    BY <1>0, <1>24, <2>1, <2>3, QueueGoesOn DEF RecoverNext, RecoverySteps, RecoveryCallOf
  <2> QED
    BY <2>2, <2>3
<1>25. ASSUME NEW t \in Tenants, MigrationEnds(t) PROVE Queue'
  BY <1>25 DEF MigrationEnds, process, Queue, Chain, HeadPast, AtWork
<1>26. CASE Crash
  <2>1. lock' = <<>> /\ \A t \in Tenants : pc'[t] = "none"
    BY <1>26 DEF Crash
  <2>2. Len(lock') = 0
    BY <2>1
  <2> QED
    BY <2>1, <2>2 DEF Queue, Chain, HeadPast, AtWork
<1>27. CASE Restart
  BY <1>27 DEF Restart, Queue, Chain, HeadPast, AtWork
<1>28. CASE UNCHANGED vars
  BY <1>28 DEF vars, Queue, Chain, HeadPast, AtWork
<1> QED
  BY <1>1, <1>2, <1>3, <1>4, <1>5, <1>6, <1>7, <1>8, <1>9, <1>10, <1>11, <1>12, <1>13, <1>14,
     <1>15, <1>16, <1>17, <1>18, <1>19, <1>20, <1>21, <1>22, <1>23, <1>24, <1>25,
     <1>26, <1>27, <1>28
  DEF Next, MachineStep, CallerStep

\* The sweep waits for a recovery that is still at work.
SweepAwaits == recovering # None => AtWork(recovering)

\* The sweep goes on only when the machine it awaits has come to rest.
LEMMA SweepStep ==
    ASSUME TypeOK, Decided, SweepAwaits, [Next]_vars
    PROVE  SweepAwaits'
<1> USE NoneAssumption
    DEF Enter, Awaits, KeepLock, FlowEnds, Finish, FlowRejects, Running, Others, process, world,
        TypeOK, AtWork, SweepAwaits
<1>1. ASSUME NEW t \in Tenants, SavedThenCalls(t) PROVE SweepAwaits'
  <2>1. CallOf \subseteq {"backing-up", "verifying", "reverting", "reverted", "closing", "failed-unsafe"}
                    \X {"backup", "verify", "revert", "stopNew", "stopOld", "page"}
    BY DEF CallOf
  <2> QED
    BY <1>1, <2>1 DEF SavedThenCalls
<1>2. ASSUME NEW t \in Tenants, SavedThenRests(t) PROVE SweepAwaits'
  BY <1>2 DEF SavedThenRests
<1>3. ASSUME NEW t \in Tenants, SavedThenQueues(t) PROVE SweepAwaits'
  BY <1>3 DEF SavedThenQueues
<1>4. ASSUME NEW t \in Tenants, SavedThenApplies(t) PROVE SweepAwaits'
  BY <1>4 DEF SavedThenApplies
<1>5. ASSUME NEW t \in Tenants, SavedThenReverts(t) PROVE SweepAwaits'
  BY <1>5 DEF SavedThenReverts
<1>6. ASSUME NEW t \in Tenants, SavedPaged(t) PROVE SweepAwaits'
  BY <1>6 DEF SavedPaged
<1>7. ASSUME NEW t \in Tenants, SaveRejects(t) PROVE SweepAwaits'
  BY <1>7 DEF SaveRejects
<1>8. ASSUME NEW t \in Tenants, BackupSettles(t) PROVE SweepAwaits'
  BY <1>8 DEF BackupSettles
<1>9. ASSUME NEW t \in Tenants, LockGranted(t) PROVE SweepAwaits'
  BY <1>9 DEF LockGranted
<1>10. ASSUME NEW t \in Tenants, ApplyResolves(t) PROVE SweepAwaits'
  BY <1>10 DEF ApplyResolves
<1>11. ASSUME NEW t \in Tenants, ApplyRejects(t) PROVE SweepAwaits'
  BY <1>11 DEF ApplyRejects
<1>12. ASSUME NEW t \in Tenants, ProbeSettles(t) PROVE SweepAwaits'
  BY <1>12 DEF ProbeSettles
<1>13. ASSUME NEW t \in Tenants, VerifySettles(t) PROVE SweepAwaits'
  BY <1>13 DEF VerifySettles
<1>14. ASSUME NEW t \in Tenants, RevertSettles(t) PROVE SweepAwaits'
  BY <1>14 DEF RevertSettles
<1>15. ASSUME NEW t \in Tenants, StopNewSettles(t) PROVE SweepAwaits'
  BY <1>15 DEF StopNewSettles
<1>16. ASSUME NEW t \in Tenants, RestopSettles(t) PROVE SweepAwaits'
  BY <1>16 DEF RestopSettles
<1>17. ASSUME NEW t \in Tenants, StopOldSettles(t) PROVE SweepAwaits'
  BY <1>17 DEF StopOldSettles
<1>18. ASSUME NEW t \in Tenants, PageSettles(t) PROVE SweepAwaits'
  BY <1>18 DEF PageSettles
<1>19. ASSUME NEW t \in Tenants, NewMachine(t) PROVE SweepAwaits'
  BY <1>19 DEF NewMachine
<1>20. ASSUME NEW t \in Tenants, Run(t) PROVE SweepAwaits'
  BY <1>20 DEF Run
<1>21. ASSUME NEW t \in Tenants, Abort(t) PROVE SweepAwaits'
  BY <1>21 DEF Abort
<1>22. ASSUME NEW t \in Tenants, CloseBakeWindow(t) PROVE SweepAwaits'
  BY <1>22 DEF CloseBakeWindow
<1>23. ASSUME NEW t \in Tenants, AbortAfterDone(t) PROVE SweepAwaits'
  BY <1>23 DEF AbortAfterDone
<1>24. ASSUME NEW t \in Tenants, RecoverNext(t) PROVE SweepAwaits'
  BY <1>24 DEF RecoverNext, RecoverySteps, RecoveryCallOf
<1>25. ASSUME NEW t \in Tenants, MigrationEnds(t) PROVE SweepAwaits'
  BY <1>25 DEF MigrationEnds
<1>26. CASE Crash
  BY <1>26 DEF Crash
<1>27. CASE Restart
  BY <1>27 DEF Restart
<1>28. CASE UNCHANGED vars
  BY <1>28 DEF vars
<1> QED
  BY <1>1, <1>2, <1>3, <1>4, <1>5, <1>6, <1>7, <1>8, <1>9, <1>10, <1>11, <1>12, <1>13, <1>14,
     <1>15, <1>16, <1>17, <1>18, <1>19, <1>20, <1>21, <1>22, <1>23, <1>24, <1>25,
     <1>26, <1>27, <1>28
  DEF Next, MachineStep, CallerStep

\* No step leaves the record more than one decision behind, or takes a colour out
\* of the traffic against it.
LEMMA RecordedStep ==
    ASSUME TypeOK, PcState, MigrationAwaited, ColoursKept, Decided, Recorded, [Next]_vars
    PROVE  Recorded'
<1> USE DEF Enter, Awaits, Release, KeepLock, FlowEnds, Finish, FlowRejects, Resolves, Rejected,
            Running, Others, world, process,
            Landed, NotLanded, DiskStateLanded, DiskPagedLanded, RunningLanded, Stopping,
            TrafficLanded, PagedLanded,
            TypeOK, PcState, MigrationAwaited, ColoursKept, Decided, AtRest,
            Recorded, Behind, Open, Undecided
<1>1. ASSUME NEW t \in Tenants, SavedThenCalls(t) PROVE Recorded'
  BY <1>1 DEF SavedThenCalls, CallOf
<1>2. ASSUME NEW t \in Tenants, SavedThenRests(t) PROVE Recorded'
  BY <1>2 DEF SavedThenRests
<1>3. ASSUME NEW t \in Tenants, SavedThenQueues(t) PROVE Recorded'
  BY <1>3 DEF SavedThenQueues
<1>4. ASSUME NEW t \in Tenants, SavedThenApplies(t) PROVE Recorded'
  BY <1>4 DEF SavedThenApplies
<1>5. ASSUME NEW t \in Tenants, SavedThenReverts(t) PROVE Recorded'
  BY <1>5 DEF SavedThenReverts
<1>6. ASSUME NEW t \in Tenants, SavedPaged(t) PROVE Recorded'
  BY <1>6 DEF SavedPaged
<1>7. ASSUME NEW t \in Tenants, SaveRejects(t) PROVE Recorded'
  BY <1>7 DEF SaveRejects
<1>8. ASSUME NEW t \in Tenants, BackupSettles(t) PROVE Recorded'
  BY <1>8 DEF BackupSettles
<1>9. ASSUME NEW t \in Tenants, LockGranted(t) PROVE Recorded'
  BY <1>9 DEF LockGranted
<1>10. ASSUME NEW t \in Tenants, ApplyResolves(t) PROVE Recorded'
  BY <1>10 DEF ApplyResolves
<1>11. ASSUME NEW t \in Tenants, ApplyRejects(t) PROVE Recorded'
  BY <1>11 DEF ApplyRejects
<1>12. ASSUME NEW t \in Tenants, ProbeSettles(t) PROVE Recorded'
  BY <1>12 DEF ProbeSettles
<1>13. ASSUME NEW t \in Tenants, VerifySettles(t) PROVE Recorded'
  BY <1>13 DEF VerifySettles
<1>14. ASSUME NEW t \in Tenants, RevertSettles(t) PROVE Recorded'
  BY <1>14 DEF RevertSettles
<1>15. ASSUME NEW t \in Tenants, StopNewSettles(t) PROVE Recorded'
  BY <1>15 DEF StopNewSettles
<1>16. ASSUME NEW t \in Tenants, RestopSettles(t) PROVE Recorded'
  BY <1>16 DEF RestopSettles
<1>17. ASSUME NEW t \in Tenants, StopOldSettles(t) PROVE Recorded'
  BY <1>17 DEF StopOldSettles
<1>18. ASSUME NEW t \in Tenants, PageSettles(t) PROVE Recorded'
  BY <1>18 DEF PageSettles
<1>19. ASSUME NEW t \in Tenants, NewMachine(t) PROVE Recorded'
  BY <1>19 DEF NewMachine
<1>20. ASSUME NEW t \in Tenants, Run(t) PROVE Recorded'
  BY <1>20 DEF Run
<1>21. ASSUME NEW t \in Tenants, Abort(t) PROVE Recorded'
  BY <1>21 DEF Abort
<1>22. ASSUME NEW t \in Tenants, CloseBakeWindow(t) PROVE Recorded'
  BY <1>22 DEF CloseBakeWindow
<1>23. ASSUME NEW t \in Tenants, AbortAfterDone(t) PROVE Recorded'
  BY <1>23 DEF AbortAfterDone
<1>24. ASSUME NEW t \in Tenants, RecoverNext(t) PROVE Recorded'
  BY <1>24 DEF RecoverNext, RecoverySteps, RecoveryCallOf
<1>25. ASSUME NEW t \in Tenants, MigrationEnds(t) PROVE Recorded'
  BY <1>25 DEF MigrationEnds
<1>26. CASE Crash
  BY <1>26 DEF Crash
<1>27. CASE Restart
  BY <1>27 DEF Restart
<1>28. CASE UNCHANGED vars
  BY <1>28 DEF vars
<1> QED
  BY <1>1, <1>2, <1>3, <1>4, <1>5, <1>6, <1>7, <1>8, <1>9, <1>10, <1>11, <1>12, <1>13, <1>14,
     <1>15, <1>16, <1>17, <1>18, <1>19, <1>20, <1>21, <1>22, <1>23, <1>24, <1>25,
     <1>26, <1>27, <1>28
  DEF Next, MachineStep, CallerStep

-----------------------------------------------------------------------------
(* Every step is a step of the lifecycle of each bump.                     *)

PromiseInv == IInv /\ HeadPast /\ Chain /\ SweepAwaits /\ Recorded

\* The step BumpLifecycle allows a tenant, and all of them.
LifeStep(t) == \/ Lifecycle!Same(t) \/ Lifecycle!Decide(t) \/ Lifecycle!Join(t)
               \/ Lifecycle!Leave(t) \/ Lifecycle!Tell(t)

\* Where the call t was waiting for has landed.
LandedAt(t) ==
    /\ diskState'[t] = DiskStateLanded(t) /\ diskPaged'[t] = DiskPagedLanded(t)
    /\ running'[t] = RunningLanded(t) /\ traffic'[t] = TrafficLanded(t)
    /\ paged'[t] = PagedLanded(t)

LeftAlone(t) ==
    /\ diskState'[t] = diskState[t] /\ diskPaged'[t] = diskPaged[t]
    /\ running'[t] = running[t] /\ traffic'[t] = traffic[t] /\ paged'[t] = paged[t]

VerdictOf(d, p) ==
    IF d \in {"none", "pending", "backing-up", "backed-up"} THEN "undecided"
    ELSE IF d \in {"applying", "verifying", "done"} THEN "open"
    ELSE IF d \in {"cancelled", "backup-failed"} THEN "dropped"
    ELSE IF d = "failed-unsafe" THEN (IF p THEN "paged" ELSE "unsafe")
    ELSE d
Verdict(t) == VerdictOf(diskState[t], diskPaged[t])

Serving(t) == running[t] \cap traffic[t]

\* The step in terms of the records and the colours.
LEMMA LifeStepIs ==
    ASSUME NEW t \in Tenants,
           \/ Verdict(t)' = Verdict(t) /\ Serving(t)' = Serving(t) /\ paged'[t] = paged[t]
           \/ /\ <<Verdict(t), Verdict(t)'>> \in Lifecycle!Moves
              /\ Serving(t)' = Serving(t) /\ paged'[t] = paged[t]
              /\ Verdict(t)' = "closing" => "new" \in Serving(t)
              /\ Verdict(t)' = "closed" => "old" \notin Serving(t)
              /\ Verdict(t)' = "reverted" => "new" \notin Serving(t)
              /\ Verdict(t)' = "paged" => paged[t]
           \/ /\ Verdict(t) \in {"open", "unsafe", "paged"} /\ Serving(t)' = Serving(t) \cup {"new"}
              /\ Verdict(t)' = Verdict(t) /\ paged'[t] = paged[t]
           \/ /\ \/ Verdict(t) = "closing" /\ Serving(t)' = Serving(t) \ {"old"}
                 \/ Verdict(t) \in {"reverting", "reverted"} /\ Serving(t)' = Serving(t) \ {"new"}
              /\ Verdict(t)' = Verdict(t) /\ paged'[t] = paged[t]
           \/ /\ Verdict(t) = "unsafe" /\ paged'[t] = TRUE
              /\ Verdict(t)' = Verdict(t) /\ Serving(t)' = Serving(t)
    PROVE  LifeStep(t)
  BY DEF LifeStep, Verdict, VerdictOf, Serving, Lifecycle!Same, Lifecycle!Decide, Lifecycle!Join,
         Lifecycle!Leave, Lifecycle!Tell

\* A bump whose variables a step leaves alone stutters.
LEMMA AloneIsSame ==
    ASSUME NEW t \in Tenants, LeftAlone(t)
    PROVE  LifeStep(t)
  BY DEF LeftAlone, LifeStep, Lifecycle!Same

\* The machine is never more than one decision ahead of its record.
LEMMA AheadMoves ==
    ASSUME NEW s \in BumpState, NEW d \in Behind(s), NEW p \in BOOLEAN, NEW q \in BOOLEAN,
           ~(d = "failed-unsafe" /\ p), d \notin {"closed", "cancelled", "backup-failed"},
           q => s = "failed-unsafe" /\ d = "failed-unsafe"
    PROVE  \/ VerdictOf(s, q) = VerdictOf(d, p)
           \/ <<VerdictOf(d, p), VerdictOf(s, q)>> \in Lifecycle!Moves
<1> USE DEF VerdictOf, Behind, Open, Undecided, Lifecycle!Moves
<1>1. CASE s = "failed-unsafe"
  BY <1>1
<1>2. CASE s \in {"closing", "reverting"}
  BY <1>2
<1>3. CASE s \in {"verifying", "done", "closed", "reverted"}
  BY <1>3
<1>4. CASE s \in {"pending", "backing-up", "backed-up", "applying"}
  BY <1>4
<1>5. CASE s \in {"cancelled", "backup-failed"}
  BY <1>5
<1> QED
  BY <1>1, <1>2, <1>3, <1>4, <1>5 DEF BumpState

\* A record that lands decides what its machine has decided.
LEMMA SavedDecides ==
    ASSUME PromiseInv, NEW t \in Tenants, pc[t] \in {"saving", "savingAborted", "savingPaged"},
           LandedAt(t)
    PROVE  LifeStep(t)
<1> USE DEF PromiseInv, IInv, TypeOK
<1>1. /\ diskState'[t] = state[t] /\ diskPaged'[t] = (pc[t] = "savingPaged")
      /\ Serving(t)' = Serving(t) /\ paged'[t] = paged[t]
  BY DEF LandedAt, DiskStateLanded, DiskPagedLanded, RunningLanded, Stopping, TrafficLanded,
         PagedLanded, Serving
<1>2. diskState[t] \in Behind(state[t]) /\ state[t] \in BumpState
  BY DEF Recorded
<1>3. AtRest(t) => FALSE
  BY DEF Decided
<1>4. Verdict(t)' = Verdict(t) \/ <<Verdict(t), Verdict(t)'>> \in Lifecycle!Moves
  <2>1. pc[t] = "savingPaged" => state[t] = "failed-unsafe" /\ diskState[t] = "failed-unsafe"
    BY DEF PcState, Recorded
  <2>2. ~(diskState[t] = "failed-unsafe" /\ diskPaged[t])
    BY <1>3 DEF AtRest
  <2>3. diskState[t] \notin {"closed", "cancelled", "backup-failed"}
    BY <1>3 DEF AtRest
  <2>4. diskPaged[t] \in BOOLEAN /\ diskPaged'[t] \in BOOLEAN
    BY <1>1
  <2>5. diskPaged'[t] => state[t] = "failed-unsafe" /\ diskState[t] = "failed-unsafe"
    BY <1>1, <2>1
  <2> HIDE DEF PromiseInv, IInv, TypeOK
  <2>6. \/ VerdictOf(state[t], diskPaged'[t]) = VerdictOf(diskState[t], diskPaged[t])
        \/ <<VerdictOf(diskState[t], diskPaged[t]), VerdictOf(state[t], diskPaged'[t])>>
              \in Lifecycle!Moves
    BY <1>2, <2>2, <2>3, <2>4, <2>5, AheadMoves
  <2> QED
    BY <1>1, <2>6 DEF Verdict
<1>5. Verdict(t)' = "closing" => "new" \in Serving(t)
  BY <1>1, <1>2 DEF Verdict, VerdictOf, BumpState, ColoursKept, Keeps, ServingNew, Serving
<1>6. Verdict(t)' = "closed" => "old" \notin Serving(t)
  BY <1>1, <1>2 DEF Verdict, VerdictOf, BumpState, Recorded, Serving
<1>7. Verdict(t)' = "reverted" => "new" \notin Serving(t)
  BY <1>1, <1>2 DEF Verdict, VerdictOf, BumpState, Recorded, Serving
<1>8. Verdict(t)' = "paged" => paged[t]
  BY <1>1, <1>2 DEF Verdict, VerdictOf, BumpState, PageAccounted
<1> QED
  BY <1>1, <1>4, <1>5, <1>6, <1>7, <1>8, LifeStepIs

\* Any call that lands, at its return or in a crash.
LEMMA LandedIsStep ==
    ASSUME PromiseInv, NEW t \in Tenants, LandedAt(t)
    PROVE  LifeStep(t)
<1> USE DEF PromiseInv, IInv, TypeOK, LandedAt, DiskStateLanded, DiskPagedLanded, RunningLanded,
            Stopping, TrafficLanded, PagedLanded
<1>1. CASE pc[t] \in {"saving", "savingAborted", "savingPaged"}
  BY <1>1, SavedDecides
<1>2. CASE pc[t] \in {"stopNew", "restop"}
  <2>1. diskState[t] = "reverted" /\ Serving(t)' = Serving(t) \ {"new"} /\ paged'[t] = paged[t]
    BY <1>2 DEF PcState, Serving
  <2>2. Verdict(t) = diskState[t] /\ Verdict(t)' = Verdict(t)
    BY <1>2, <2>1 DEF Verdict, VerdictOf
  <2> QED
    BY ONLY <2>1, <2>2, LifeStepIs, t \in Tenants
<1>3. CASE pc[t] = "stopOld"
  <2>1. diskState[t] = "closing" /\ Serving(t)' = Serving(t) \ {"old"} /\ paged'[t] = paged[t]
    BY <1>3 DEF PcState, Serving
  <2>2. Verdict(t) = diskState[t] /\ Verdict(t)' = Verdict(t)
    BY <1>3, <2>1 DEF Verdict, VerdictOf
  <2> QED
    BY ONLY <2>1, <2>2, LifeStepIs, t \in Tenants
<1>4. CASE pc[t] = "revert"
  <2>1. diskState[t] = "reverting" /\ Serving(t)' = Serving(t) \ {"new"} /\ paged'[t] = paged[t]
    BY <1>4 DEF PcState, Serving
  <2>2. Verdict(t) = diskState[t] /\ Verdict(t)' = Verdict(t)
    BY <1>4, <2>1 DEF Verdict, VerdictOf
  <2> QED
    BY ONLY <2>1, <2>2, LifeStepIs, t \in Tenants
<1>5. CASE pc[t] = "page"
  <2>1. diskState[t] = "failed-unsafe" /\ (diskPaged[t] => paged[t])
    BY <1>5 DEF Recorded, PageAccounted
  <2>2. Verdict(t) \in {"unsafe", "paged"} /\ (Verdict(t) = "paged" => paged[t])
        /\ Verdict(t)' = Verdict(t) /\ Serving(t)' = Serving(t) /\ paged'[t] = TRUE
    BY <1>5, <2>1 DEF Verdict, VerdictOf, Serving
  <2> QED
    BY <2>2, LifeStepIs
<1>6. CASE pc[t] \notin {"saving", "savingAborted", "savingPaged", "stopNew", "restop", "stopOld",
                          "revert", "page"}
  <2>1. LeftAlone(t)
    BY <1>6 DEF LeftAlone
  <2> QED
    BY <2>1, AloneIsSame
<1> QED
  BY <1>1, <1>2, <1>3, <1>4, <1>5, <1>6

\* A step of one machine whose call lands or is left alone.
LEMMA OneMachine ==
    ASSUME PromiseInv, NEW t \in Tenants, Landed(t) \/ NotLanded, NEW u \in Tenants
    PROVE  LifeStep(u)
<1>1. LandedAt(u) \/ LeftAlone(u)
  BY DEF PromiseInv, IInv, TypeOK, Landed, NotLanded, LandedAt, LeftAlone
<1> QED
  BY <1>1, LandedIsStep, AloneIsSame

\* Every step of the controller, the container and the crash, for each tenant.
LEMMA LifeNext ==
    ASSUME PromiseInv, [Next]_vars, NEW u \in Tenants
    PROVE  LifeStep(u)
<1> USE DEF Resolves, Rejected, KeepLock, Others, process, world
<1>1. ASSUME NEW t \in Tenants, SavedThenCalls(t) PROVE LifeStep(u)
  BY <1>1, OneMachine DEF SavedThenCalls
<1>2. ASSUME NEW t \in Tenants, SavedThenRests(t) PROVE LifeStep(u)
  BY <1>2, OneMachine DEF SavedThenRests
<1>3. ASSUME NEW t \in Tenants, SavedThenQueues(t) PROVE LifeStep(u)
  BY <1>3, OneMachine DEF SavedThenQueues
<1>4. ASSUME NEW t \in Tenants, SavedThenApplies(t) PROVE LifeStep(u)
  <2> USE DEF PromiseInv, IInv, TypeOK
  <2>1. CASE u # t
    BY <1>4, <2>1, AloneIsSame DEF SavedThenApplies, LeftAlone
  <2>2. CASE u = t
    <3>1. pc[u] = "saving" /\ state[u] = "applying" /\ mig[u] = "none" /\ "new" \notin traffic[u]
      BY <1>4, <2>2 DEF SavedThenApplies, Running, StartedOnce, Recorded
    <3>2. diskState[u] \in Undecided \cup {"applying"}
      BY <3>1 DEF Recorded, Behind
    <3>3. /\ diskState'[u] = "applying" /\ paged'[u] = paged[u]
          /\ Serving(u)' = Serving(u)
      BY <1>4, <2>2, <3>1 DEF SavedThenApplies, Serving
    <3>4. <<"undecided", "open">> \in Lifecycle!Moves
      BY DEF Lifecycle!Moves
    <3>5. Verdict(u) \in {"undecided", "open"} /\ Verdict(u)' = "open"
      BY <3>2, <3>3 DEF Verdict, VerdictOf, Undecided
    <3>6. CASE Verdict(u) = "open"
      <4>1. Verdict(u)' = Verdict(u) /\ Serving(u)' = Serving(u) /\ paged'[u] = paged[u]
        BY <3>3, <3>5, <3>6
      <4> QED
        BY ONLY <4>1, LifeStepIs, u \in Tenants
    <3>7. CASE Verdict(u) = "undecided"
      <4>1. <<Verdict(u), Verdict(u)'>> \in Lifecycle!Moves
        BY <3>4, <3>5, <3>7
      <4>2. /\ Serving(u)' = Serving(u) /\ paged'[u] = paged[u]
            /\ Verdict(u)' \notin {"closing", "closed", "reverted", "paged"}
        BY <3>3, <3>5
      <4> QED
        BY ONLY <4>1, <4>2, LifeStepIs, u \in Tenants
    <3> QED
      BY <3>5, <3>6, <3>7
  <2> QED
    BY <2>1, <2>2
<1>5. ASSUME NEW t \in Tenants, SavedThenReverts(t) PROVE LifeStep(u)
  BY <1>5, OneMachine DEF SavedThenReverts
<1>6. ASSUME NEW t \in Tenants, SavedPaged(t) PROVE LifeStep(u)
  BY <1>6, OneMachine DEF SavedPaged
<1>7. ASSUME NEW t \in Tenants, SaveRejects(t) PROVE LifeStep(u)
  BY <1>7, OneMachine DEF SaveRejects
<1>8. ASSUME NEW t \in Tenants, BackupSettles(t) PROVE LifeStep(u)
  BY <1>8, OneMachine DEF BackupSettles
<1>9. ASSUME NEW t \in Tenants, LockGranted(t) PROVE LifeStep(u)
  BY <1>9, OneMachine DEF LockGranted
<1>10. ASSUME NEW t \in Tenants, ApplyResolves(t) PROVE LifeStep(u)
  BY <1>10, OneMachine DEF ApplyResolves
<1>11. ASSUME NEW t \in Tenants, ApplyRejects(t) PROVE LifeStep(u)
  BY <1>11, OneMachine DEF ApplyRejects
<1>12. ASSUME NEW t \in Tenants, ProbeSettles(t) PROVE LifeStep(u)
  BY <1>12, OneMachine DEF ProbeSettles
<1>13. ASSUME NEW t \in Tenants, VerifySettles(t) PROVE LifeStep(u)
  BY <1>13, OneMachine DEF VerifySettles
<1>14. ASSUME NEW t \in Tenants, RevertSettles(t) PROVE LifeStep(u)
  BY <1>14, OneMachine DEF RevertSettles
<1>15. ASSUME NEW t \in Tenants, StopNewSettles(t) PROVE LifeStep(u)
  BY <1>15, OneMachine DEF StopNewSettles
<1>16. ASSUME NEW t \in Tenants, RestopSettles(t) PROVE LifeStep(u)
  BY <1>16, OneMachine DEF RestopSettles
<1>17. ASSUME NEW t \in Tenants, StopOldSettles(t) PROVE LifeStep(u)
  BY <1>17, OneMachine DEF StopOldSettles
<1>18. ASSUME NEW t \in Tenants, PageSettles(t) PROVE LifeStep(u)
  BY <1>18, OneMachine DEF PageSettles
<1>19. ASSUME NEW t \in Tenants, NewMachine(t) PROVE LifeStep(u)
  BY <1>19, OneMachine DEF NewMachine, NotLanded
<1>20. ASSUME NEW t \in Tenants, Run(t) PROVE LifeStep(u)
  BY <1>20, OneMachine DEF Run
<1>21. ASSUME NEW t \in Tenants, Abort(t) PROVE LifeStep(u)
  BY <1>21, OneMachine DEF Abort, NotLanded
<1>22. ASSUME NEW t \in Tenants, CloseBakeWindow(t) PROVE LifeStep(u)
  BY <1>22, OneMachine DEF CloseBakeWindow
<1>23. ASSUME NEW t \in Tenants, AbortAfterDone(t) PROVE LifeStep(u)
  BY <1>23, OneMachine DEF AbortAfterDone
<1>24. ASSUME NEW t \in Tenants, RecoverNext(t) PROVE LifeStep(u)
  BY <1>24, OneMachine DEF RecoverNext, NotLanded
<1>25. ASSUME NEW t \in Tenants, MigrationEnds(t) PROVE LifeStep(u)
  <2> USE DEF PromiseInv, IInv, TypeOK
  <2>1. CASE u # t
    BY <1>25, <2>1, AloneIsSame DEF MigrationEnds, LeftAlone
  <2>2. CASE u = t
    <3>1. diskState[t] \in {"applying", "failed-unsafe"}
      BY <1>25 DEF MigrationEnds, MigrationAwaited
    <3>2. /\ diskState'[t] = diskState[t] /\ diskPaged'[t] = diskPaged[t] /\ paged'[t] = paged[t]
          /\ running'[t] = running[t] /\ traffic'[t] \in {traffic[t], traffic[t] \cup {"new"}}
      BY <1>25 DEF MigrationEnds
    <3>3. Serving(t)' \in {Serving(t), Serving(t) \cup {"new"}}
      BY <3>2 DEF Serving
    <3>4. Verdict(t) \in {"open", "unsafe", "paged"} /\ Verdict(t)' = Verdict(t)
      BY <3>1, <3>2 DEF Verdict, VerdictOf
    <3> QED
      BY <2>2, <3>2, <3>3, <3>4, LifeStepIs
  <2> QED
    BY <2>1, <2>2
<1>26. CASE Crash
  <2>1. LandedAt(u) \/ LeftAlone(u)
    BY <1>26 DEF Crash, LandedAt, LeftAlone
  <2> QED
    BY <2>1, LandedIsStep, AloneIsSame
<1>27. CASE Restart
  BY <1>27, AloneIsSame DEF Restart, LeftAlone
<1>28. CASE UNCHANGED vars
  BY <1>28, AloneIsSame DEF vars, LeftAlone
<1> QED
  BY <1>1, <1>2, <1>3, <1>4, <1>5, <1>6, <1>7, <1>8, <1>9, <1>10, <1>11, <1>12, <1>13, <1>14,
     <1>15, <1>16, <1>17, <1>18, <1>19, <1>20, <1>21, <1>22, <1>23, <1>24, <1>25,
     <1>26, <1>27, <1>28
  DEF Next, MachineStep, CallerStep

\* A controller without a bump starts the lifecycle of every tenant.
LEMMA LifeInit == Init => Lifecycle!Init
  BY DEF Init, Lifecycle!Init

\* The strengthening starts and stays.
LEMMA PromiseInit == Init => PromiseInv
<1>1. Init => HeadPast /\ Chain /\ SweepAwaits /\ Recorded
  BY NoneAssumption DEF Init, HeadPast, Chain, SweepAwaits, Recorded
<1> QED
  BY <1>1, InitInv DEF PromiseInv

\* Every step keeps the chain, the sweep and the records.
LEMMA PromiseNext == PromiseInv /\ [Next]_vars => PromiseInv'
  BY NextInv, QueueStep, SweepStep, RecordedStep DEF PromiseInv, IInv, Queue

\* It holds of every behaviour.
LEMMA Promised == Spec => []PromiseInv
  BY PromiseInit, PromiseNext, PTL DEF Spec

-----------------------------------------------------------------------------
(* The theorems.                                                           *)

\* ApplyLock.run and recoverPersistedTenants: whoever queues is in a chain whose
\* head is at work, and the sweep awaits a machine at work, after any rejection
\* and any crash.
THEOREM NoneStranded == Spec => []NobodyStranded
<1>1. PromiseInv => NobodyStranded
  BY DEF PromiseInv, Chain, SweepAwaits, NobodyStranded
<1> QED
  BY <1>1, Promised, PTL

\* Under crashes and rejections of every call, each bump is the change of colour
\* BumpLifecycle describes: recorded before a colour leaves, and decided once.
THEOREM BumpsAreLifecycles == Spec => LifecycleSpec
<1>1. PromiseInv /\ [Next]_vars => [Lifecycle!Next]_(Lifecycle!vars)
  <2> SUFFICES ASSUME PromiseInv, [Next]_vars PROVE Lifecycle!Next
    OBVIOUS
  <2> QED
    BY LifeNext DEF LifeStep, Lifecycle!Next
<1> QED
  BY <1>1, LifeInit, Promised, PTL DEF Spec, LifecycleSpec, Lifecycle!Spec

-----------------------------------------------------------------------------
(* Two promises of the documentation, and the rejections they depend on.   *)

\* A machine in "applying" that neither queues nor has died is inside the lock.
ApplyingInside ==
    \A t \in Tenants : state[t] = "applying" /\ pc[t] \notin {"none", "queued"} => InsideLock(t)

\* With apply() and persist() resolving, a machine leaves the lock only behind "applying".
LEMMA ApplyingStep ==
    ASSUME TypeOK, PcState, Recorded, ApplyingInside, [Next]_vars,
           {"apply", "persist"} \cap Rejects = {}
    PROVE  ApplyingInside'
<1> USE DEF Enter, Awaits, Release, KeepLock, FlowEnds, Finish, FlowRejects, Resolves, Rejected,
            Running, Others, world, process,
            TypeOK, PcState, ApplyingInside, InsideLock
<1>1. ASSUME NEW t \in Tenants, SavedThenCalls(t) PROVE ApplyingInside'
  BY <1>1 DEF SavedThenCalls, CallOf
<1>2. ASSUME NEW t \in Tenants, SavedThenRests(t) PROVE ApplyingInside'
  BY <1>2 DEF SavedThenRests
<1>3. ASSUME NEW t \in Tenants, SavedThenQueues(t) PROVE ApplyingInside'
  BY <1>3 DEF SavedThenQueues
<1>4. ASSUME NEW t \in Tenants, SavedThenApplies(t) PROVE ApplyingInside'
  BY <1>4 DEF SavedThenApplies
<1>5. ASSUME NEW t \in Tenants, SavedThenReverts(t) PROVE ApplyingInside'
  BY <1>5 DEF SavedThenReverts
<1>6. ASSUME NEW t \in Tenants, SavedPaged(t) PROVE ApplyingInside'
  BY <1>6 DEF SavedPaged
<1>7. ASSUME NEW t \in Tenants, SaveRejects(t) PROVE ApplyingInside'
  BY <1>7 DEF SaveRejects
<1>8. ASSUME NEW t \in Tenants, BackupSettles(t) PROVE ApplyingInside'
  BY <1>8 DEF BackupSettles
<1>9. ASSUME NEW t \in Tenants, LockGranted(t) PROVE ApplyingInside'
  BY <1>9 DEF LockGranted
<1>10. ASSUME NEW t \in Tenants, ApplyResolves(t) PROVE ApplyingInside'
  BY <1>10 DEF ApplyResolves
<1>11. ASSUME NEW t \in Tenants, ApplyRejects(t) PROVE ApplyingInside'
  BY <1>11 DEF ApplyRejects
<1>12. ASSUME NEW t \in Tenants, ProbeSettles(t) PROVE ApplyingInside'
  BY <1>12 DEF ProbeSettles
<1>13. ASSUME NEW t \in Tenants, VerifySettles(t) PROVE ApplyingInside'
  BY <1>13 DEF VerifySettles
<1>14. ASSUME NEW t \in Tenants, RevertSettles(t) PROVE ApplyingInside'
  BY <1>14 DEF RevertSettles
<1>15. ASSUME NEW t \in Tenants, StopNewSettles(t) PROVE ApplyingInside'
  BY <1>15 DEF StopNewSettles
<1>16. ASSUME NEW t \in Tenants, RestopSettles(t) PROVE ApplyingInside'
  BY <1>16 DEF RestopSettles
<1>17. ASSUME NEW t \in Tenants, StopOldSettles(t) PROVE ApplyingInside'
  BY <1>17 DEF StopOldSettles
<1>18. ASSUME NEW t \in Tenants, PageSettles(t) PROVE ApplyingInside'
  BY <1>18 DEF PageSettles
<1>19. ASSUME NEW t \in Tenants, NewMachine(t) PROVE ApplyingInside'
  BY <1>19 DEF NewMachine
<1>20. ASSUME NEW t \in Tenants, Run(t) PROVE ApplyingInside'
  BY <1>20 DEF Run
<1>21. ASSUME NEW t \in Tenants, Abort(t) PROVE ApplyingInside'
  BY <1>21 DEF Abort
<1>22. ASSUME NEW t \in Tenants, CloseBakeWindow(t) PROVE ApplyingInside'
  BY <1>22 DEF CloseBakeWindow
<1>23. ASSUME NEW t \in Tenants, AbortAfterDone(t) PROVE ApplyingInside'
  BY <1>23 DEF AbortAfterDone
<1>24. ASSUME NEW t \in Tenants, RecoverNext(t) PROVE ApplyingInside'
  BY <1>24 DEF RecoverNext, RecoverySteps, RecoveryCallOf
<1>25. ASSUME NEW t \in Tenants, MigrationEnds(t) PROVE ApplyingInside'
  BY <1>25 DEF MigrationEnds
<1>26. CASE Crash
  BY <1>26 DEF Crash
<1>27. CASE Restart
  BY <1>27 DEF Restart
<1>28. CASE UNCHANGED vars
  BY <1>28 DEF vars
<1> QED
  BY <1>1, <1>2, <1>3, <1>4, <1>5, <1>6, <1>7, <1>8, <1>9, <1>10, <1>11, <1>12, <1>13, <1>14,
     <1>15, <1>16, <1>17, <1>18, <1>19, <1>20, <1>21, <1>22, <1>23, <1>24, <1>25,
     <1>26, <1>27, <1>28
  DEF Next, MachineStep, CallerStep

\* With a machine gone and the process up, a reverted record is still in the sweep.
RevertedInSweep ==
    \A t \in Tenants : up /\ pc[t] = "none" /\ diskState[t] = "reverted" => t \in sweep

\* With stopColour() and persist() resolving, a reverted record is torn down or still owed to the sweep.
LEMMA RevertedStep ==
    ASSUME TypeOK, PcState, Recorded, RevertedInSweep, [Next]_vars,
           {"stop", "persist"} \cap Rejects = {}
    PROVE  RevertedInSweep'
<1> USE DEF Enter, Awaits, Release, KeepLock, FlowEnds, Finish, FlowRejects, Resolves, Rejected,
            Running, Others, world, process,
            Landed, NotLanded, DiskStateLanded, DiskPagedLanded,
            TypeOK, PcState, Recorded, Behind, Open, Undecided, RevertedInSweep
<1>1. ASSUME NEW t \in Tenants, SavedThenCalls(t) PROVE RevertedInSweep'
  BY <1>1 DEF SavedThenCalls, CallOf
<1>2. ASSUME NEW t \in Tenants, SavedThenRests(t) PROVE RevertedInSweep'
  BY <1>2 DEF SavedThenRests
<1>3. ASSUME NEW t \in Tenants, SavedThenQueues(t) PROVE RevertedInSweep'
  BY <1>3 DEF SavedThenQueues
<1>4. ASSUME NEW t \in Tenants, SavedThenApplies(t) PROVE RevertedInSweep'
  BY <1>4 DEF SavedThenApplies
<1>5. ASSUME NEW t \in Tenants, SavedThenReverts(t) PROVE RevertedInSweep'
  BY <1>5 DEF SavedThenReverts
<1>6. ASSUME NEW t \in Tenants, SavedPaged(t) PROVE RevertedInSweep'
  BY <1>6 DEF SavedPaged
<1>7. ASSUME NEW t \in Tenants, SaveRejects(t) PROVE RevertedInSweep'
  BY <1>7 DEF SaveRejects
<1>8. ASSUME NEW t \in Tenants, BackupSettles(t) PROVE RevertedInSweep'
  BY <1>8 DEF BackupSettles
<1>9. ASSUME NEW t \in Tenants, LockGranted(t) PROVE RevertedInSweep'
  BY <1>9 DEF LockGranted
<1>10. ASSUME NEW t \in Tenants, ApplyResolves(t) PROVE RevertedInSweep'
  BY <1>10 DEF ApplyResolves
<1>11. ASSUME NEW t \in Tenants, ApplyRejects(t) PROVE RevertedInSweep'
  BY <1>11 DEF ApplyRejects
<1>12. ASSUME NEW t \in Tenants, ProbeSettles(t) PROVE RevertedInSweep'
  BY <1>12 DEF ProbeSettles
<1>13. ASSUME NEW t \in Tenants, VerifySettles(t) PROVE RevertedInSweep'
  BY <1>13 DEF VerifySettles
<1>14. ASSUME NEW t \in Tenants, RevertSettles(t) PROVE RevertedInSweep'
  BY <1>14 DEF RevertSettles
<1>15. ASSUME NEW t \in Tenants, StopNewSettles(t) PROVE RevertedInSweep'
  BY <1>15 DEF StopNewSettles
<1>16. ASSUME NEW t \in Tenants, RestopSettles(t) PROVE RevertedInSweep'
  BY <1>16 DEF RestopSettles
<1>17. ASSUME NEW t \in Tenants, StopOldSettles(t) PROVE RevertedInSweep'
  BY <1>17 DEF StopOldSettles
<1>18. ASSUME NEW t \in Tenants, PageSettles(t) PROVE RevertedInSweep'
  BY <1>18 DEF PageSettles
<1>19. ASSUME NEW t \in Tenants, NewMachine(t) PROVE RevertedInSweep'
  BY <1>19 DEF NewMachine
<1>20. ASSUME NEW t \in Tenants, Run(t) PROVE RevertedInSweep'
  BY <1>20 DEF Run
<1>21. ASSUME NEW t \in Tenants, Abort(t) PROVE RevertedInSweep'
  BY <1>21 DEF Abort
<1>22. ASSUME NEW t \in Tenants, CloseBakeWindow(t) PROVE RevertedInSweep'
  BY <1>22 DEF CloseBakeWindow
<1>23. ASSUME NEW t \in Tenants, AbortAfterDone(t) PROVE RevertedInSweep'
  BY <1>23 DEF AbortAfterDone
<1>24. ASSUME NEW t \in Tenants, RecoverNext(t) PROVE RevertedInSweep'
  BY <1>24 DEF RecoverNext, RecoverySteps, RecoveryCallOf
<1>25. ASSUME NEW t \in Tenants, MigrationEnds(t) PROVE RevertedInSweep'
  BY <1>25 DEF MigrationEnds
<1>26. CASE Crash
  BY <1>26 DEF Crash
<1>27. CASE Restart
  BY <1>27 DEF Restart, NeedsRecovery
<1>28. CASE UNCHANGED vars
  BY <1>28 DEF vars
<1> QED
  BY <1>1, <1>2, <1>3, <1>4, <1>5, <1>6, <1>7, <1>8, <1>9, <1>10, <1>11, <1>12, <1>13, <1>14,
     <1>15, <1>16, <1>17, <1>18, <1>19, <1>20, <1>21, <1>22, <1>23, <1>24, <1>25,
     <1>26, <1>27, <1>28
  DEF Next, MachineStep, CallerStep

\* README.md:131 of the service holds of runs whose apply() and persist() never
\* reject: it is those two rejections that leave a machine in "applying" behind.
THEOREM OneApplyingUnlessRejected ==
    {"apply", "persist"} \cap Rejects = {} => (Spec => []OneTenantApplying)
<1> SUFFICES ASSUME {"apply", "persist"} \cap Rejects = {} 
                 PROVE  Spec => []OneTenantApplying
  OBVIOUS
<1>1. Init => ApplyingInside
  BY DEF Init, ApplyingInside
<1>2. PromiseInv /\ ApplyingInside /\ [Next]_vars => ApplyingInside'
  BY ApplyingStep DEF PromiseInv, IInv
<1>3. PromiseInv /\ ApplyingInside => OneTenantApplying
  BY DEF PromiseInv, IInv, HolderIsHead, ApplyingInside, OneTenantApplying
<1> QED
  BY <1>1, <1>2, <1>3, Promised, PTL DEF Spec

\* src/README.md:184 holds of runs whose stopColour() and persist() never reject:
\* a new colour that was to be torn down is still there only behind one of those.
THEOREM TornDownUnlessRejected ==
    {"stop", "persist"} \cap Rejects = {} => (Spec => []RevertedIsTornDown)
<1> SUFFICES ASSUME {"stop", "persist"} \cap Rejects = {} 
                 PROVE  Spec => []RevertedIsTornDown
  OBVIOUS
<1>1. Init => RevertedInSweep
  BY DEF Init, RevertedInSweep
<1>2. PromiseInv /\ RevertedInSweep /\ [Next]_vars => RevertedInSweep'
  BY RevertedStep DEF PromiseInv, IInv
<1>3. RevertedInSweep => RevertedIsTornDown
  BY DEF RevertedInSweep, RevertedIsTornDown, SweepDone
<1> QED
  BY <1>1, <1>2, <1>3, Promised, PTL DEF Spec
=============================================================================
