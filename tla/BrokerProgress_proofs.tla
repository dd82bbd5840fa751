---------------------- MODULE BrokerProgress_proofs ----------------------
(***************************************************************************)
(* What BrokerSlot promises of each request by itself, whatever was asked  *)
(* before it and wherever the broker died: its handler is never stuck, it  *)
(* is at most MaxSteps steps from its answer, retry included, and it       *)
(* leaves the slot at rest unless a call failed.  With the fairness of     *)
(* FairSpec these are what Settles rests on.  Last, the one circumstance   *)
(* under which the hash a recycle is compared with is the active one.      *)
(***************************************************************************)
EXTENDS BrokerSlot_proofs

--------------------------------------------------------------------------
(* A handler is never stuck.                                               *)

\* The steps whose guard is the place in the handler alone.
Unguarded ==
    {"down", "mark", "drain", "start", "lease", "clear", "done", "drainLive", "baseline",
     "swapped"} \cup Clearing \cup Telling \cup Stopping

\* A failed step has somewhere to go back to.
HasWayBack == job.op = "swap" \/ (job.op = "fresh" /\ job.attempt \in {1, 2})

\* Some step of Handler or Recovery is enabled, read off the guards.
CanStep ==
    \/ pc \in Unguarded
    \/ pc \in {"configure", "await"} /\ (Target \in up \/ HasWayBack)
    \/ pc = "recheck" /\ ("b" \in up \/ HasWayBack)
    \/ pc = "entry" /\ (Host[job.descriptor] \notin foreign
                        \/ (job.op = "fresh" /\ job.attempt \in {1, 2}))

NeverStuck == pc # "idle" => CanStep

\* A slot that serves is behind the gate of its own host, and a swap stays on it.
Gated ==
    /\ st.phase \in {"running", "swapping", "stopping"} => entry # None
    /\ pc \in {"lease", "clear", "done"} => entry # None

\* Every step keeps the slot that serves gated.
LEMMA GatedNext ==
    ASSUME IInv, Gated, [Next]_vars
    PROVE  Gated'
<1> USE Absent, RecordFacts DEF Goto, Answer, Write, Event, Fault, Drain, Moved, NotMoved,
    NoteMove, Outside, Inside, disk, host, visitor, history, IInv, Types, RequestTypes, SlotTypes,
    Control, Recorded, Records, Phases, Jobs, OrNone, Gates, Pcs, Building, Swapping, Deploying,
    Clearing, Telling, Stopping, Gated
<1>1. CASE \E d \in Descriptors : ReconcileFresh(d)
  BY <1>1 DEF ReconcileFresh
<1>2. CASE \E d \in Descriptors : ReconcileSwap(d)
  BY <1>2 DEF ReconcileSwap
<1>3. CASE Stop \/ Reset
  BY <1>3 DEF Stop, Reset
<1>4. CASE SwapMark
  BY <1>4 DEF SwapMark, Running
<1>5. CASE FreshDrain \/ Configure \/ SwapReady
  BY <1>5 DEF FreshDrain, Configure, SwapReady, Target
<1>6. CASE Start \/ StartTimesOut
  BY <1>6 DEF Start, StartTimesOut, Started, Target, Recoils
<1>7. CASE WriteEntry
  BY <1>7 DEF WriteEntry, Gate
<1>8. CASE ClearFlag
  BY <1>8 DEF ClearFlag, Target
<1>9. CASE WriteLease
  BY <1>9 DEF WriteLease, Kept
<1>10. CASE FreshDone
  BY <1>10 DEF FreshDone
<1>11. CASE SwapDone
  BY <1>11 DEF SwapDone
<1>12. CASE NeverReady \/ HostConflict \/ SwapRecheck \/ StepFails
  BY <1>12 DEF NeverReady, HostConflict, SwapRecheck, StepFails, Target, Recoils
<1>13. CASE SwapDrainLive \/ SwapBaseline
  BY <1>13 DEF SwapDrainLive, SwapBaseline
<1>14. CASE StopDone
  BY <1>14 DEF StopDone
<1>15. CASE StopOld \/ StopFails
  BY <1>15 DEF StopOld, StopFails, Stopped
<1>16. CASE Revoke \/ RevokeFails \/ Wipe \/ WipeFails \/ DrainBoth \/ Free
  BY <1>16 DEF Revoke, RevokeFails, Wipe, WipeFails, Wiped, Halted, DrainBoth, Free
<1>17. CASE Boot \/ Crash
  BY <1>17 DEF Boot, Crash
<1>18. CASE RecoverTarget \/ RecoverBoth \/ RecoverVerify \/ RecoverSource
  BY <1>18 DEF RecoverTarget, RecoverBoth, RecoverVerify, RecoverSource, Probe
<1>19. CASE RecoverDrain \/ RecoverWrites
  BY <1>19 DEF RecoverDrain, RecoverWrites
<1>20. CASE RecoverStop
  BY <1>20 DEF RecoverStop, Stopped
<1>21. CASE \E c \in Colours : Answering(c)
  BY <1>21 DEF Answering
<1>22. CASE \E c \in Colours : Stalls(c)
  BY <1>22 DEF Stalls
<1>23. CASE \E h \in Contested : OtherSlotTakes(h) \/ OtherSlotLeaves(h)
  BY <1>23 DEF OtherSlotTakes, OtherSlotLeaves, Taken
<1>24. CASE LoginReadsSlots \/ LoginReadsLease \/ Verify
  BY <1>24 DEF LoginReadsSlots, LoginReadsLease, Verify, Admits
<1>25. CASE UNCHANGED vars
  BY <1>25 DEF vars
<1> QED
  BY <1>1, <1>2, <1>3, <1>4, <1>5, <1>6, <1>7, <1>8, <1>9, <1>10, <1>11, <1>12, <1>13,
    <1>14, <1>15, <1>16, <1>17, <1>18, <1>19, <1>20, <1>21, <1>22, <1>23, <1>24, <1>25 DEF
    Next, Handler, Recovery, Failure


\* The recovery or handler of a broker in a state of the invariant can step.
LEMMA StuckNowhere ==
    ASSUME IInv, Gated
    PROVE  NeverStuck
<1> USE DEF IInv, Types, RequestTypes, Control, Swapping, Deploying, Building, Clearing, Telling,
            Stopping, Pcs
<1>1. CASE pc = "entry"
  <2>1. CASE job.op = "fresh"
    BY <1>1, <2>1 DEF NeverStuck, CanStep
  <2>2. CASE job.op = "swap"
    <3>1. entry # None /\ entry.host = site.host /\ site.host = Host[job.descriptor]
      BY <1>1, <2>2 DEF Gated, Housed
    <3>2. Host[job.descriptor] \notin foreign
      BY <3>1 DEF OneSlotPerHost, GateHost
    <3> QED
      BY <1>1, <3>2 DEF NeverStuck, CanStep
  <2> QED
    BY <1>1, <2>1, <2>2
<1>2. CASE pc \in {"configure", "await", "recheck"}
  BY <1>2 DEF NeverStuck, CanStep, HasWayBack
<1>3. CASE pc \in Unguarded \cup {"idle"}
  BY <1>3 DEF NeverStuck, CanStep
<1> QED
  BY <1>1, <1>2, <1>3 DEF Unguarded

--------------------------------------------------------------------------
(* A request is short.                                                     *)

\* How far a place in a handler or a recovery is from the answer.
Distance(at) ==
    CASE at = "idle"      -> 0
      [] at \in {"recAdopt", "recRevert", "recError", "stopped", "recStopped"} -> 2
      [] at \in {"recDrain", "recUndrain", "stop", "recStop"} -> 3
      [] at \in {"recSource", "swapped", "done", "free"} -> 4
      [] at \in {"recVerify", "baseline"} -> 5
      [] at \in {"recBoth", "drainLive"} -> 6
      [] at \in {"recTarget", "recheck"} -> 7
      [] at \in {"clear", "down"} -> 8
      [] at = "lease"     -> 9
      [] at = "entry"     -> 10
      [] at = "await"     -> 11
      [] at = "configure" -> 12
      [] at = "start"     -> 13
      [] at \in {"drain", "mark"} -> 14
      [] at = "drainBoth" -> 15
      [] at = "wipe"      -> 16
      [] at = "revoke"    -> 17

\* A first attempt has the second one still before it.
MaxSteps == 34
StepsLeft ==
    IF job.op = "fresh" /\ job.attempt = 1 /\ pc \notin {"revoke", "wipe", "drainBoth"}
    THEN Distance(pc) + 20 ELSE Distance(pc)

\* Every step of a request takes it nearer to its answer, and only a step of the
\* broker moves it.
Nearer ==
    \/ UNCHANGED <<pc, job>>
    \/ pc = "idle" \/ pc' = "down"
    \/ StepsLeft' < StepsLeft

RequestIsShort == [][Nearer]_vars

\* No place is further than seventeen steps from the answer.
LEMMA DistanceBound == \A at \in Pcs : Distance(at) \in 0 .. 17
  BY DEF Distance, Pcs, Swapping, Deploying, Building, Clearing, Telling, Stopping

\* One step per action: each goes forward, or back to the second attempt it pays for.
LEMMA NearerNext ==
    ASSUME IInv, [Next]_vars
    PROVE  Nearer
<1> USE DEF Goto, Answer, Write, Event, Fault, Drain, Moved, NotMoved,
    NoteMove, Outside, Inside, disk, host, visitor, history, IInv, Types, RequestTypes,
    Control, Jobs, Pcs, Building, Swapping, Deploying, Clearing, Telling, Stopping, Idle,
    Nearer, StepsLeft, Distance
<1>1. CASE \E d \in Descriptors : ReconcileFresh(d)
  BY <1>1 DEF ReconcileFresh
<1>2. CASE \E d \in Descriptors : ReconcileSwap(d)
  BY <1>2 DEF ReconcileSwap
<1>3. CASE Stop \/ Reset
  BY <1>3 DEF Stop, Reset
<1>4. CASE SwapMark
  BY <1>4 DEF SwapMark, Running
<1>5. CASE FreshDrain \/ Configure \/ SwapReady
  BY <1>5 DEF FreshDrain, Configure, SwapReady, Target
<1>6. CASE Start \/ StartTimesOut
  BY <1>6 DEF Start, StartTimesOut, Started, Target, Recoils
<1>7. CASE WriteEntry
  BY <1>7 DEF WriteEntry, Gate
<1>8. CASE ClearFlag
  BY <1>8 DEF ClearFlag, Target
<1>9. CASE WriteLease
  BY <1>9 DEF WriteLease, Kept
<1>10. CASE FreshDone
  BY <1>10 DEF FreshDone
<1>11. CASE SwapDone
  BY <1>11 DEF SwapDone
<1>12. CASE NeverReady \/ HostConflict \/ SwapRecheck \/ StepFails
  BY <1>12 DEF NeverReady, HostConflict, SwapRecheck, StepFails, Target, Recoils
<1>13. CASE SwapDrainLive \/ SwapBaseline
  BY <1>13 DEF SwapDrainLive, SwapBaseline
<1>14. CASE StopDone
  BY <1>14 DEF StopDone
<1>15. CASE StopOld \/ StopFails
  BY <1>15 DEF StopOld, StopFails, Stopped
<1>16. CASE Revoke \/ RevokeFails \/ Wipe \/ WipeFails \/ DrainBoth \/ Free
  BY <1>16 DEF Revoke, RevokeFails, Wipe, WipeFails, Wiped, Halted, DrainBoth, Free
<1>17. CASE Boot \/ Crash
  BY <1>17 DEF Boot, Crash
<1>18. CASE RecoverTarget \/ RecoverBoth \/ RecoverVerify \/ RecoverSource
  BY <1>18 DEF RecoverTarget, RecoverBoth, RecoverVerify, RecoverSource, Probe
<1>19. CASE RecoverDrain \/ RecoverWrites
  BY <1>19 DEF RecoverDrain, RecoverWrites
<1>20. CASE RecoverStop
  BY <1>20 DEF RecoverStop, Stopped
<1>21. CASE \E c \in Colours : Answering(c)
  BY <1>21 DEF Answering
<1>22. CASE \E c \in Colours : Stalls(c)
  BY <1>22 DEF Stalls
<1>23. CASE \E h \in Contested : OtherSlotTakes(h) \/ OtherSlotLeaves(h)
  BY <1>23 DEF OtherSlotTakes, OtherSlotLeaves, Taken
<1>24. CASE LoginReadsSlots \/ LoginReadsLease \/ Verify
  BY <1>24 DEF LoginReadsSlots, LoginReadsLease, Verify, Admits
<1>25. CASE UNCHANGED vars
  BY <1>25 DEF vars
<1> QED
  BY <1>1, <1>2, <1>3, <1>4, <1>5, <1>6, <1>7, <1>8, <1>9, <1>10, <1>11, <1>12, <1>13,
    <1>14, <1>15, <1>16, <1>17, <1>18, <1>19, <1>20, <1>21, <1>22, <1>23, <1>24, <1>25 DEF
    Next, Handler, Recovery, Failure

--------------------------------------------------------------------------
(* A request leaves the slot at rest.                                      *)

\* Between requests a phase of a handler stands on disk only behind a failed call.
RestsUnlessFailed ==
    pc = "idle" /\ ~used.faulty => st.phase \in {"free", "running", "error"}

UsedType == used \in [events : Nat, faulty : BOOLEAN]

\* What the history of events and failures does in a step.
LEMMA UsedSteps ==
    ASSUME UsedType
    PROVE  /\ Event => UsedType' /\ used'.faulty = used.faulty
           /\ Fault => UsedType' /\ used'.faulty
           /\ used' = used => UsedType' /\ used'.faulty = used.faulty
<1>1. Event => UsedType' /\ used'.faulty = used.faulty
  BY DEF UsedType, Event
<1>2. ASSUME Fault PROVE UsedType' /\ used'.faulty
  <2>1. used' = [events |-> used.events + 1, faulty |-> TRUE] /\ used.events \in Nat
    BY <1>2 DEF UsedType, Fault
  <2>2. used'.faulty
    BY <2>1
  <2> QED
    BY <2>1, <2>2 DEF UsedType
<1>3. used' = used => UsedType' /\ used'.faulty = used.faulty
  BY DEF UsedType
<1> QED
  BY <1>1, <1>2, <1>3

\* A handler that ends without a failed call leaves a phase of rest.
LEMMA RestsNext ==
    ASSUME IInv, UsedType, RestsUnlessFailed, [Next]_vars
    PROVE  UsedType' /\ RestsUnlessFailed'
<1> USE Absent, RecordFacts, UsedSteps DEF Goto, Answer, Write, Drain, Moved, NotMoved,
    NoteMove, Outside, Inside, disk, host, visitor, history, IInv, Types, RequestTypes, Records,
    Control, Recorded, Jobs, OrNone, Colours, Phases, Building, Swapping, Deploying, Clearing,
    Telling, Stopping, RestsUnlessFailed
<1>1. CASE \E d \in Descriptors : ReconcileFresh(d)
  BY <1>1 DEF ReconcileFresh
<1>2. CASE \E d \in Descriptors : ReconcileSwap(d)
  BY <1>2 DEF ReconcileSwap
<1>3. CASE Stop \/ Reset
  BY <1>3 DEF Stop, Reset
<1>4. CASE SwapMark
  BY <1>4 DEF SwapMark, Running
<1>5. CASE FreshDrain \/ Configure \/ SwapReady
  BY <1>5 DEF FreshDrain, Configure, SwapReady, Target
<1>6. CASE Start \/ StartTimesOut
  BY <1>6 DEF Start, StartTimesOut, Started, Target, Recoils
<1>7. CASE WriteEntry
  BY <1>7 DEF WriteEntry, Gate
<1>8. CASE ClearFlag
  BY <1>8 DEF ClearFlag, Target
<1>9. CASE WriteLease
  BY <1>9 DEF WriteLease, Kept
<1>10. CASE FreshDone
  BY <1>10 DEF FreshDone
<1>11. CASE SwapDone
  BY <1>11 DEF SwapDone
<1>12. CASE NeverReady \/ HostConflict \/ SwapRecheck \/ StepFails
  BY <1>12 DEF NeverReady, HostConflict, SwapRecheck, StepFails, Target, Recoils
<1>13. CASE SwapDrainLive \/ SwapBaseline
  BY <1>13 DEF SwapDrainLive, SwapBaseline
<1>14. CASE StopDone
  BY <1>14 DEF StopDone
<1>15. CASE StopOld \/ StopFails
  BY <1>15 DEF StopOld, StopFails, Stopped
<1>16. CASE Revoke \/ RevokeFails \/ Wipe \/ WipeFails \/ DrainBoth \/ Free
  BY <1>16 DEF Revoke, RevokeFails, Wipe, WipeFails, Wiped, Halted, DrainBoth, Free
<1>17. CASE Boot \/ Crash
  BY <1>17 DEF Boot, Crash
<1>18. CASE RecoverTarget \/ RecoverBoth \/ RecoverVerify \/ RecoverSource
  BY <1>18 DEF RecoverTarget, RecoverBoth, RecoverVerify, RecoverSource, Probe
<1>19. CASE RecoverDrain \/ RecoverWrites
  BY <1>19 DEF RecoverDrain, RecoverWrites
<1>20. CASE RecoverStop
  BY <1>20 DEF RecoverStop, Stopped
<1>21. CASE \E c \in Colours : Answering(c)
  BY <1>21 DEF Answering
<1>22. CASE \E c \in Colours : Stalls(c)
  BY <1>22 DEF Stalls
<1>23. CASE \E h \in Contested : OtherSlotTakes(h) \/ OtherSlotLeaves(h)
  BY <1>23 DEF OtherSlotTakes, OtherSlotLeaves, Taken
<1>24. CASE LoginReadsSlots \/ LoginReadsLease \/ Verify
  BY <1>24 DEF LoginReadsSlots, LoginReadsLease, Verify, Admits
<1>25. CASE UNCHANGED vars
  BY <1>25 DEF vars
<1> QED
  BY <1>1, <1>2, <1>3, <1>4, <1>5, <1>6, <1>7, <1>8, <1>9, <1>10, <1>11, <1>12, <1>13,
    <1>14, <1>15, <1>16, <1>17, <1>18, <1>19, <1>20, <1>21, <1>22, <1>23, <1>24, <1>25 DEF
    Next, Handler, Recovery, Failure

--------------------------------------------------------------------------
(* The hash of the last tenancy.                                           *)

\* Whoever asks for a host always asks with the same passphrase.
OneHashPerHost == \A d, e \in Descriptors : Host[d] = Host[e] => Hash[d] = Hash[e]

\* The entry has the hash of its host, and the record that of its descriptor.
Hashed ==
    /\ entry # None => \A d \in Descriptors : Host[d] = entry.host => Hash[d] = entry.hash
    /\ st.phase \in {"running", "swapping", "stopping"} =>
          st.lastHashId = Hash[st.descriptor] /\ site # None /\ site.host = Host[st.descriptor]
    /\ st.phase = "swapping" => site.host = Host[st.swapDescriptor]
    /\ pc = "done" => site # None /\ site.host = Host[job.descriptor]

\* The hash a record is written with.
LEMMA HashWritten ==
    ASSUME Types
    PROVE  /\ \A phase \in Phases : Bare(phase).phase = phase
           /\ \A c \in Colours, d \in Descriptors, h \in OrNone(Hashes) :
                 Running(c, d, h).lastHashId = h /\ Running(c, d, h).phase = "running"
                 /\ Running(c, d, h).descriptor = d
  BY DEF Bare, Running, Blank

\* Where the hash and the descriptor of a record that serves come from.
SameRecord == st'.lastHashId = st.lastHashId /\ st'.descriptor = st.descriptor
RecordOf(d) == st'.lastHashId = Hash[d] /\ st'.descriptor = d
PhaseServes(phase) == phase \in {"running", "swapping", "stopping"}

\* A record that serves comes from one that served, or from the request that ends.
LEMMA RecordSteps ==
    ASSUME Types, Control, Recorded, [Next]_vars
    PROVE  /\ PhaseServes(st'.phase) =>
                \/ PhaseServes(st.phase) /\ SameRecord
                \/ pc \in {"done", "swapped"} /\ RecordOf(job.descriptor)
                \/ st.phase = "swapping" /\ RecordOf(st.swapDescriptor)
           /\ st'.phase = "swapping" =>
                \/ st.phase = "swapping" /\ st'.swapDescriptor = st.swapDescriptor
                \/ pc = "mark" /\ st'.swapDescriptor = job.descriptor
<1> USE Absent, HashWritten DEF Goto, Answer, Write, Drain, Outside, Inside, disk, Types, RequestTypes,
    Control, Recorded, Records, Jobs, OrNone, Colours, Phases, Building, Swapping, Deploying,
    Clearing, Telling, Stopping, SameRecord, RecordOf, PhaseServes
<1>1. CASE \E d \in Descriptors : ReconcileFresh(d)
  BY <1>1 DEF ReconcileFresh
<1>2. CASE \E d \in Descriptors : ReconcileSwap(d)
  BY <1>2 DEF ReconcileSwap
<1>3. CASE Stop \/ Reset
  BY <1>3 DEF Stop, Reset
<1>4. CASE SwapMark
  BY <1>4 DEF SwapMark, Running
<1>5. CASE FreshDrain \/ Configure \/ SwapReady
  BY <1>5 DEF FreshDrain, Configure, SwapReady, Target
<1>6. CASE Start \/ StartTimesOut
  BY <1>6 DEF Start, StartTimesOut, Started, Target, Recoils
<1>7. CASE WriteEntry
  BY <1>7 DEF WriteEntry, Gate
<1>8. CASE ClearFlag
  BY <1>8 DEF ClearFlag, Target
<1>9. CASE WriteLease
  BY <1>9 DEF WriteLease, Kept
<1>10. CASE FreshDone
  BY <1>10 DEF FreshDone
<1>11. CASE SwapDone
  BY <1>11 DEF SwapDone
<1>12. CASE NeverReady \/ HostConflict \/ SwapRecheck \/ StepFails
  BY <1>12 DEF NeverReady, HostConflict, SwapRecheck, StepFails, Target, Recoils
<1>13. CASE SwapDrainLive \/ SwapBaseline
  BY <1>13 DEF SwapDrainLive, SwapBaseline
<1>14. CASE StopDone
  BY <1>14 DEF StopDone
<1>15. CASE StopOld \/ StopFails
  BY <1>15 DEF StopOld, StopFails, Stopped
<1>16. CASE Revoke \/ RevokeFails \/ Wipe \/ WipeFails \/ DrainBoth \/ Free
  BY <1>16 DEF Revoke, RevokeFails, Wipe, WipeFails, Wiped, Halted, DrainBoth, Free
<1>17. CASE Boot \/ Crash
  BY <1>17 DEF Boot, Crash
<1>18. CASE RecoverTarget \/ RecoverBoth \/ RecoverVerify \/ RecoverSource
  BY <1>18 DEF RecoverTarget, RecoverBoth, RecoverVerify, RecoverSource, Probe
<1>19. CASE RecoverDrain \/ RecoverWrites
  BY <1>19 DEF RecoverDrain, RecoverWrites
<1>20. CASE RecoverStop
  BY <1>20 DEF RecoverStop, Stopped
<1>21. CASE \E c \in Colours : Answering(c)
  BY <1>21 DEF Answering
<1>22. CASE \E c \in Colours : Stalls(c)
  BY <1>22 DEF Stalls
<1>23. CASE \E h \in Contested : OtherSlotTakes(h) \/ OtherSlotLeaves(h)
  BY <1>23 DEF OtherSlotTakes, OtherSlotLeaves, Taken
<1>24. CASE LoginReadsSlots \/ LoginReadsLease \/ Verify
  BY <1>24 DEF LoginReadsSlots, LoginReadsLease, Verify, Admits
<1>25. CASE UNCHANGED vars
  BY <1>25 DEF vars
<1> QED
  BY <1>1, <1>2, <1>3, <1>4, <1>5, <1>6, <1>7, <1>8, <1>9, <1>10, <1>11, <1>12, <1>13,
    <1>14, <1>15, <1>16, <1>17, <1>18, <1>19, <1>20, <1>21, <1>22, <1>23, <1>24, <1>25 DEF
    Next, Handler, Recovery, Failure

\* What can happen to the entry.
LEMMA EntrySteps ==
    ASSUME Types, Control, [Next]_vars
    PROVE  \/ entry' = entry \/ entry' = None
           \/ entry' = Gate(job.descriptor) /\ job.descriptor \in Descriptors
<1>1. CASE WriteEntry
  BY <1>1 DEF WriteEntry, Types, RequestTypes, Jobs, OrNone, Control, Building, Swapping, Deploying
<1>2. CASE ~WriteEntry
  BY <1>2 DEF Next, Handler, Recovery, Failure, vars, disk, Goto, Answer, Write, Drain, Outside, Inside,
              ReconcileFresh, ReconcileSwap, Stop, Reset, SwapMark, FreshDrain, Start,
              Configure, SwapReady, WriteLease, ClearFlag, FreshDone, NeverReady, HostConflict,
              Recoils, SwapRecheck, SwapDrainLive, SwapBaseline, SwapDone, StopOld, StopDone,
              Revoke, Wipe, DrainBoth, Free, Boot, RecoverTarget, RecoverBoth, RecoverVerify,
              RecoverSource, Probe, RecoverDrain, RecoverWrites, RecoverStop, StepFails,
              StartTimesOut, StopFails, RevokeFails, WipeFails, Crash, Answering, Stalls,
              OtherSlotTakes, OtherSlotLeaves, Taken, LoginReadsSlots, LoginReadsLease, Verify
<1> QED
  BY <1>1, <1>2

\* A fresh deploy is done on the site of its host.
LEMMA DoneSteps ==
    ASSUME Types, Control, [Next]_vars, pc' = "done"
    PROVE  UNCHANGED <<site, job>> /\ (pc = "done" \/ (pc = "clear" /\ job.op = "fresh"))
  BY DEF Next, Handler, Recovery, Failure, vars, disk, host, Goto, Answer, Write, Drain, Outside, Inside,
              ReconcileFresh, ReconcileSwap, Stop, Reset, SwapMark, FreshDrain, Start,
              Configure, SwapReady, WriteEntry, WriteLease, ClearFlag, FreshDone, NeverReady,
              HostConflict, Recoils, SwapRecheck, SwapDrainLive, SwapBaseline, SwapDone, StopOld,
              StopDone, Revoke, Wipe, DrainBoth, Free, Boot, RecoverTarget, RecoverBoth, RecoverVerify,
              RecoverSource, Probe, RecoverDrain, RecoverWrites, RecoverStop, StepFails,
              StartTimesOut, StopFails, RevokeFails, WipeFails, Crash, Answering, Stalls,
              OtherSlotTakes, OtherSlotLeaves, Taken, LoginReadsSlots, LoginReadsLease, Verify

\* With one passphrase per host no step parts the hash on disk from the one in force.
LEMMA HashedNext ==
    ASSUME OneHashPerHost, IInv, Gated, Hashed, [Next]_vars
    PROVE  Hashed'
<1> USE DEF PhaseServes
<1>1. Types /\ Control /\ Recorded /\ Housed
  BY DEF IInv
<1>2. entry' # None => \A d \in Descriptors : Host[d] = entry'.host => Hash[d] = entry'.hash
  BY <1>1, EntrySteps DEF Hashed, Gate, OneHashPerHost
<1>3. ASSUME PhaseServes(st'.phase)
      PROVE  /\ st'.lastHashId = Hash[st'.descriptor] /\ site' # None
             /\ site'.host = Host[st'.descriptor]
             /\ st'.phase = "swapping" => site'.host = Host[st'.swapDescriptor]
  <2>1. PhaseServes(st.phase) \/ pc = "done"
    BY <1>1, <1>3, RecordSteps DEF Control, Swapping
  <2>2. entry # None /\ site # None /\ site' = site
    BY <2>1, SiteSteps DEF Gated, Hashed
  <2>3. pc = "swapped" => site.host = Host[job.descriptor]
    BY <1>1 DEF Housed, Control, Swapping
  <2>4. pc = "mark" => site.host = Host[job.descriptor]
    BY <1>1 DEF Housed, Control
  <2>5. st'.lastHashId = Hash[st'.descriptor] /\ site.host = Host[st'.descriptor]
    BY <1>1, <1>3, <2>3, RecordSteps DEF Hashed, SameRecord, RecordOf
  <2>6. st'.phase = "swapping" => site.host = Host[st'.swapDescriptor]
    BY <1>1, <2>4, RecordSteps DEF Hashed
  <2> QED
    BY <2>2, <2>5, <2>6
<1>4. pc' = "done" => site' # None /\ site'.host = Host[job'.descriptor]
  BY <1>1, DoneSteps DEF Hashed, Housed, Building
<1> QED
  BY <1>2, <1>3, <1>4 DEF Hashed

--------------------------------------------------------------------------
(* The theorems.                                                           *)

ProgressInv == IInv /\ Gated /\ UsedType /\ RestsUnlessFailed

\* The initial state: nothing serves and nothing was used.
LEMMA ProgressInit == Init => ProgressInv
<1> SUFFICES ASSUME Init PROVE ProgressInv
  OBVIOUS
<1>1. Gated
  BY DEF Init, Gated, Blank
<1>2. UsedType
  BY DEF Init, UsedType
<1>3. RestsUnlessFailed
  BY DEF Init, Blank, RestsUnlessFailed
<1> QED
  BY <1>1, <1>2, <1>3, InitInv DEF ProgressInv

\* Every step keeps what the theorems below rest on.
LEMMA ProgressNext == ProgressInv /\ [Next]_vars => ProgressInv'
  BY NextInv, GatedNext, RestsNext DEF ProgressInv

\* It holds of every behaviour.
LEMMA ProgressHolds == Spec => []ProgressInv
  BY ProgressInit, ProgressNext, PTL DEF Spec

\* Wherever a handler or a recovery stands, one of its steps is enabled: above all a
\* swap never finds its host taken by another slot while it holds the entry
\* (upsertSlotEntry), and every failure has somewhere to go back to.
THEOREM HandlersNeverStuck == Spec => []NeverStuck
<1>1. ProgressInv => NeverStuck
  BY StuckNowhere DEF ProgressInv
<1> QED
  BY <1>1, ProgressHolds, PTL

\* Every step of a request or a recovery takes it nearer to its answer, the second
\* attempt of runReconcile included, and nobody else's step takes it further away.
THEOREM RequestsAreShort == Spec => RequestIsShort
<1>1. IInv /\ [Next]_vars => [Nearer]_vars
  BY NearerNext
<1> QED
  BY <1>1, Invariant, PTL DEF Spec, RequestIsShort

\* A request that has begun is at most MaxSteps of its own steps from its answer.
THEOREM StepsBounded == Spec => [](StepsLeft \in 0 .. MaxSteps)
<1>1. IInv => StepsLeft \in 0 .. MaxSteps
  <2> SUFFICES ASSUME IInv PROVE StepsLeft \in 0 .. MaxSteps
    OBVIOUS
  <2>1. pc \in Pcs
    BY DEF IInv, Types, RequestTypes
  <2>2. Distance(pc) \in 0 .. 17
    BY <2>1, DistanceBound
  <2>3. pc \notin {"revoke", "wipe", "drainBoth"} => Distance(pc) \in 0 .. 14
    BY <2>1 DEF Distance, Pcs, Swapping, Deploying, Building, Clearing, Telling, Stopping
  <2> QED
    BY <2>2, <2>3 DEF StepsLeft, MaxSteps
<1> QED
  BY <1>1, Invariant, PTL

\* An answered request, or a finished boot, leaves no phase of a handler on disk,
\* unless a call failed.
THEOREM SlotRests == Spec => []RestsUnlessFailed
<1>1. ProgressInv => RestsUnlessFailed
  BY DEF ProgressInv
<1> QED
  BY <1>1, ProgressHolds, PTL

\* lastHashId is the hash in force, as stateStore.ts says, if every host is always
\* asked for with one passphrase: what breaks it is a swap that changes the
\* passphrase of the host it serves and fails behind its entry.
THEOREM LastHashIfOneHashPerHost ==
    OneHashPerHost => (Spec => []LastHashIsActive)
<1> SUFFICES ASSUME OneHashPerHost
             PROVE  Spec => []LastHashIsActive
  OBVIOUS
<1>1. Init => Hashed
  BY DEF Init, Blank, Hashed
<1>2. ProgressInv /\ Hashed /\ [Next]_vars => Hashed'
  BY HashedNext DEF ProgressInv
<1>3. ProgressInv /\ Hashed => LastHashIsActive
  <2> SUFFICES ASSUME ProgressInv, Hashed, st.phase = "running"
               PROVE  st.lastHashId = entry.hash
    BY DEF LastHashIsActive
  <2>1. entry # None /\ entry.host = site.host /\ site.host = Host[st.descriptor]
    BY DEF ProgressInv, IInv, Housed, Gated, Hashed
  <2>2. st.descriptor \in Descriptors
    BY DEF ProgressInv, IInv, Types, RequestTypes, Records, Recorded, OrNone
  <2> QED
    BY <2>1, <2>2 DEF Hashed
<1> QED
  BY <1>1, <1>2, <1>3, ProgressHolds, PTL DEF Spec
==========================================================================
