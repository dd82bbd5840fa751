---- MODULE BrokerSlot_proofs ----
(***************************************************************************)
(* Proofs about BrokerSlot, for any descriptors, hosts and passphrases,    *)
(* any number of requests, crashes and failures and any number of visits.  *)
(* The invariant follows the broker through its steps: which record stands *)
(* on disk while a handler or a recovery is at each of its awaits, and     *)
(* what the flags, the containers, the site and the gate are by then.      *)
(***************************************************************************)
EXTENDS BrokerSlot, TLAPS

--------------------------------------------------------------------------
(* The invariant.                                                          *)

Phases == {"free", "preparing", "running", "swapping", "stopping", "resetting", "error"}

\* Where a request or a recovery may stand.  A fresh deploy and a swap share
\* the steps of Building.
Building == {"start", "configure", "entry", "lease", "clear"}
Swapping == Building \cup {"await", "recheck", "drainLive", "baseline", "swapped"}
Deploying == Building \cup {"drain", "done"}
Clearing == {"revoke", "wipe", "drainBoth", "free"}
Telling == {"recTarget", "recBoth", "recVerify", "recSource", "recDrain", "recUndrain",
            "recAdopt", "recRevert", "recError"}
Stopping == {"stop", "stopped", "recStop", "recStopped"}
Pcs == {"idle", "down", "mark"} \cup Swapping \cup Deploying \cup Clearing
           \cup Telling \cup Stopping

Records ==
    [phase : Phases, colour : OrNone(Colours), descriptor : OrNone(Descriptors),
     lastHashId : OrNone(Hashes), swapTarget : OrNone(Colours),
     swapDescriptor : OrNone(Descriptors), trafficBaseline : OrNone(0 .. MaxVisits),
     oldColourStopped : BOOLEAN]
Jobs == [op : {None, "fresh", "swap", "stop", "reset", "conflict"},
         descriptor : OrNone(Descriptors), attempt : 0 .. 2,
         baseline : OrNone(0 .. MaxVisits)]
Gates == [host : Hosts, hash : Hashes]
Leases == [id : Nat, hash : Hashes]
Sites == [host : Hosts, number : Nat]
Cookies == [lease : Nat, hash : Hashes, site : Nat]

RequestTypes == st \in Records /\ pc \in Pcs /\ job \in Jobs

SlotTypes ==
    /\ entry \in OrNone(Gates) /\ lease \in OrNone(Leases)
    /\ drained \subseteq Colours /\ up \subseteq Colours
    /\ run \in [Colours -> OrNone(Descriptors)]
    /\ \A c \in up : run[c] # None
    /\ site \in OrNone(Sites) /\ foreign \subseteq Hosts
    /\ lease # None => lease.id \in 1 .. minted
    /\ minted \in Nat /\ built \in Nat

OtherTypes ==
    /\ count \in 0 .. MaxVisits /\ movedAt \in 0 .. count
    /\ login \in OrNone(Hashes) /\ cookie \in OrNone(Cookies)
    /\ wobbled \in BOOLEAN

Types == RequestTypes /\ SlotTypes /\ OtherTypes

\* What the request under way is: a fresh deploy, a swap or a teardown.
Control ==
    /\ pc = "idle" => st.phase \in {"free", "running", "error", "stopping", "resetting"}
    /\ pc \in Building => job.op \in {"fresh", "swap"}
    /\ pc \in {"drain", "done"} => job.op = "fresh"
    /\ pc \in {"mark", "await", "recheck", "drainLive", "baseline", "swapped"} => job.op = "swap"
    /\ pc \in Deploying \cup Swapping \cup {"mark"} => job.descriptor # None
    /\ pc \in Deploying /\ job.op = "fresh" =>
          /\ job.attempt \in {1, 2}
          /\ st.phase = (IF job.attempt = 1 THEN "preparing" ELSE "resetting")
    /\ pc \in Swapping /\ job.op = "swap" =>
          st.phase = "swapping" /\ st.swapDescriptor = job.descriptor
    /\ pc = "mark" => st.phase = "running"
    /\ pc \in Clearing => /\ st.phase = "resetting"
                          /\ job.op \in {"fresh", "reset", "conflict"}
                          /\ job.op = "fresh" => job.descriptor # None
    /\ pc = "drainBoth" => job.op # "conflict"
    /\ pc \in Telling => st.phase = "swapping"
    /\ pc \in Stopping => st.phase = "stopping"

\* What each phase carries with it.
Recorded ==
    /\ st.phase \in {"running", "swapping", "stopping"} =>
          st.colour # None /\ st.descriptor # None
    /\ st.phase = "swapping" => st.swapTarget = Other(st.colour) /\ st.swapDescriptor # None
    /\ st.oldColourStopped => st.phase = "running"

Empty == entry = None /\ lease = None /\ site = None /\ \A c \in Colours : run[c] = None

\* The gate and the lease stand before the site of their host; a slot that is
\* free, or about to be built in, has nothing left; what is built is for the
\* host the request names.
Housed ==
    /\ entry # None => site # None /\ entry.host = site.host
    /\ lease # None => site # None
    /\ st.phase = "free" => Empty
    /\ pc \in {"drainBoth", "free", "drain"} => Empty
    /\ pc = "start" /\ job.op = "fresh" => Empty
    /\ pc = "wipe" => entry = None /\ lease = None
    /\ pc \in Building \ {"start"} /\ job.op = "fresh" =>
          site # None /\ site.host = Host[job.descriptor]
    /\ pc \in {"configure", "entry", "lease"} /\ job.op = "fresh" => lease = None
    /\ pc \in Swapping \cup {"mark"} /\ job.op = "swap" =>
          site # None /\ site.host = Host[job.descriptor]

\* A cookie of the lease on disk is of its site and its passphrase.
Bound ==
    cookie # None =>
        /\ cookie.lease \in 1 .. minted
        /\ lease # None /\ cookie.lease = lease.id =>
              cookie.site = site.number /\ cookie.hash = lease.hash

\* The rest holds as long as no container stops answering by itself.  The
\* recorded colour runs what is recorded, and outside a swap it is not drained
\* while the colour the edge would prefer is.
Ready(c, d) == c \in up /\ run[c] = d

Live ==
    st.phase \in {"running", "swapping", "stopping"} => Ready(st.colour, st.descriptor)

Steady ==
    st.phase \in {"running", "stopping"} =>
        st.colour \notin drained /\ (st.colour = "b" => "a" \in drained)

\* What a fresh deploy has built by now.
Fresh ==
    /\ pc \in {"configure", "entry", "lease", "clear", "done"} /\ job.op = "fresh" =>
          run["a"] = job.descriptor
    /\ pc \in {"entry", "lease", "clear", "done"} /\ job.op = "fresh" => "a" \in up
    /\ pc = "done" => "a" \notin drained

\* A swap: the target is drained until it is ready, and the source is drained
\* only then; what recovery has been told by its probes.
Moving ==
    /\ pc = "mark" => Other(st.colour) \in drained
    /\ st.phase = "swapping" =>
          /\ st.swapTarget \notin drained => Ready(st.swapTarget, st.swapDescriptor)
          /\ st.colour \in drained => st.colour = "a" /\ st.swapTarget \notin drained
    /\ pc \in Building /\ job.op = "swap" => st.swapTarget \in drained
    /\ pc = "await" => st.swapTarget \in drained
    /\ pc \in Swapping \ {"start"} /\ job.op = "swap" => run[st.swapTarget] = job.descriptor
    /\ pc \in Swapping \ {"start", "configure"} /\ job.op = "swap" => st.swapTarget \in up
    /\ pc \in {"recheck", "drainLive"} => st.swapTarget = "b" /\ st.swapTarget \notin drained
    /\ pc \in {"baseline", "swapped", "recAdopt"} =>
          st.swapTarget \notin drained /\ (st.swapTarget = "b" => "a" \in drained)
    /\ pc \in {"recBoth", "recVerify", "recDrain"} => st.swapTarget = "b" /\ "b" \notin drained
    /\ pc \in {"recSource", "recUndrain", "recRevert"} => st.swapTarget \in drained
    /\ pc # "recError"

\* The counter against its value when the edge last changed colour.
Traffic ==
    /\ st.oldColourStopped \/ st.phase = "stopping" => count > movedAt
    /\ st.phase \in {"running", "stopping"} /\ st.trafficBaseline # None =>
          movedAt <= st.trafficBaseline
    /\ pc = "swapped" => job.baseline # None /\ movedAt <= job.baseline

Serves == Live /\ Steady /\ Fresh /\ Moving

Serving == ~wobbled => Serves /\ Traffic

IInv == Types /\ Control /\ Recorded /\ Housed /\ Bound /\ OneSlotPerHost
        /\ Serving

--------------------------------------------------------------------------
(* Values, records and jobs.                                               *)

LEMMA Absent ==
    /\ \A c \in Colours : c # None
    /\ \A d \in Descriptors : d # None /\ Host[d] \in Hosts /\ Hash[d] \in Hashes
    /\ \A h \in Hosts : h # None
    /\ \A h \in Hashes : h # None
    /\ \A n \in Nat : n # None
    /\ None \notin Gates /\ None \notin Leases /\ None \notin Sites /\ None \notin Cookies
    /\ Contested \subseteq Hosts
    /\ \A c \in Colours : Other(c) \in Colours /\ Other(c) # c
  BY DescriptorAssumption, NoneAssumption DEF Colours, Other, Hosts, Hashes, Gates,
      Leases, Sites, Cookies

\* The records the broker writes.
LEMMA RecordFacts ==
    ASSUME Types
    PROVE  /\ \A phase \in Phases :
                 /\ Bare(phase) \in Records /\ Bare(phase).phase = phase
                 /\ Bare(phase).trafficBaseline = None /\ ~Bare(phase).oldColourStopped
           /\ \A c \in Colours, d \in Descriptors, h \in OrNone(Hashes) :
                 /\ Running(c, d, h) \in Records /\ Running(c, d, h).phase = "running"
                 /\ Running(c, d, h).colour = c /\ Running(c, d, h).descriptor = d
                 /\ Running(c, d, h).trafficBaseline = None
                 /\ ~Running(c, d, h).oldColourStopped
           /\ Idle \in Jobs /\ Idle.op = None /\ Idle.descriptor = None
<1>1. st.lastHashId \in OrNone(Hashes) /\ Blank \in Records
  BY DEF Types, RequestTypes, Records, Blank, Phases, OrNone
<1>2. ASSUME NEW phase \in Phases
      PROVE  /\ Bare(phase) \in Records /\ Bare(phase).phase = phase
             /\ Bare(phase).trafficBaseline = None /\ ~Bare(phase).oldColourStopped
  BY <1>1 DEF Bare, Blank, Records
<1>3. ASSUME NEW c \in Colours, NEW d \in Descriptors, NEW h \in OrNone(Hashes)
      PROVE  /\ Running(c, d, h) \in Records /\ Running(c, d, h).phase = "running"
             /\ Running(c, d, h).colour = c /\ Running(c, d, h).descriptor = d
             /\ Running(c, d, h).trafficBaseline = None
             /\ ~Running(c, d, h).oldColourStopped
  BY <1>1 DEF Running, Blank, Records, OrNone, Phases
<1>4. Idle \in Jobs /\ Idle.op = None /\ Idle.descriptor = None
  BY DEF Idle, Jobs, OrNone
<1> QED
  BY <1>2, <1>3, <1>4

\* The requests that change several fields at once.
LEMMA ReconcileTypes ==
    ASSUME Types, NEW d \in Descriptors, ReconcileFresh(d) \/ ReconcileSwap(d)
    PROVE  RequestTypes'
<1>1. ASSUME NEW j \in Jobs, NEW op \in {"fresh", "swap"}, NEW n \in 0 .. 2
      PROVE  /\ [j EXCEPT !.op = op, !.descriptor = d] \in Jobs
             /\ [j EXCEPT !.op = op, !.descriptor = d, !.attempt = n] \in Jobs
  BY DEF Jobs, OrNone
<1>2. 1 \in 0 .. 2 /\ Idle \in Jobs
  BY RecordFacts
<1>3. /\ [Idle EXCEPT !.op = "fresh", !.descriptor = d, !.attempt = 1] \in Jobs
      /\ [Idle EXCEPT !.op = "swap", !.descriptor = d] \in Jobs
  BY <1>1, <1>2, Zenon
<1>4. job' \in Jobs
  BY <1>3 DEF ReconcileFresh, ReconcileSwap
<1>5. Bare("preparing") \in Records
  BY RecordFacts DEF Phases
<1>6. st' \in Records
  BY <1>5 DEF ReconcileFresh, ReconcileSwap, Write, Drain, Types, RequestTypes
<1> QED
  BY <1>4, <1>6 DEF ReconcileFresh, ReconcileSwap, RequestTypes, Pcs, Deploying

LEMMA MarkTypes ==
    ASSUME Types, Control, Recorded, SwapMark
    PROVE  RequestTypes'
<1>1. ASSUME NEW r \in Records, NEW c \in Colours, NEW d \in Descriptors
      PROVE  [r EXCEPT !.phase = "swapping", !.swapTarget = c, !.swapDescriptor = d] \in Records
  BY DEF Records, OrNone, Phases
<1>2. /\ st.colour \in Colours /\ Other(st.colour) \in Colours
      /\ st.descriptor \in Descriptors /\ job.descriptor \in Descriptors
      /\ st.lastHashId \in OrNone(Hashes)
  BY Absent DEF SwapMark, Types, RequestTypes, Control, Recorded, Records, Jobs, OrNone
<1>3. Running(st.colour, st.descriptor, st.lastHashId) \in Records
  BY <1>2, RecordFacts
<1>4. st' \in Records
  BY <1>1, <1>2, <1>3 DEF SwapMark, Write
<1> QED
  BY <1>4 DEF SwapMark, Goto, Types, RequestTypes, Pcs, Swapping, Building

LEMMA StopTypes ==
    ASSUME Types, StopDone
    PROVE  RequestTypes'
<1>1. ASSUME NEW r \in Records
      PROVE  [r EXCEPT !.phase = "running", !.oldColourStopped = TRUE] \in Records
  BY DEF Records, Phases
<1>2. st' \in Records
  BY <1>1 DEF StopDone, Write, Types, RequestTypes
<1>3. job' \in Jobs /\ pc' \in Pcs
  BY RecordFacts DEF StopDone, Answer, Pcs
<1> QED
  BY <1>2, <1>3 DEF RequestTypes

LEMMA InitInv == Init => IInv
<1> SUFFICES ASSUME Init PROVE IInv
  OBVIOUS
<1>1. RequestTypes
  <2>1. Blank \in Records
    BY DEF Blank, Records, Phases, OrNone
  <2>2. Idle \in Jobs
    BY DEF Idle, Jobs, OrNone
  <2> QED
    BY <2>1, <2>2 DEF Init, RequestTypes, Pcs
<1>2. SlotTypes
  BY DEF Init, SlotTypes, OrNone
<1>3. OtherTypes
  <2>1. count = 0 /\ movedAt = 0 /\ login = None /\ cookie = None /\ wobbled = FALSE
    BY DEF Init
  <2>2. count \in 0 .. MaxVisits /\ movedAt \in 0 .. count
    BY <2>1, BoundsAssumption
  <2> QED
    BY <2>1, <2>2 DEF OtherTypes, OrNone
<1>4. Control /\ Recorded
  BY DEF Init, Blank, Control, Recorded, Building, Swapping, Deploying, Clearing, Telling,
      Stopping
<1>5. Housed /\ Bound
  BY DEF Init, Housed, Bound, Empty, Building, Swapping
<1>6. OneSlotPerHost
  BY DEF Init, OneSlotPerHost
<1>7. Serving
  BY DEF Init, Blank, Serving, Serves, Live, Steady, Fresh, Moving, Traffic, Building,
      Swapping
<1> QED
  BY <1>1, <1>2, <1>3, <1>4, <1>5, <1>6, <1>7 DEF IInv, Types

--------------------------------------------------------------------------
(* The steps, part by part.  Each lemma goes through the steps in groups:  *)
(* requests, builds, swaps, failures, stops, teardowns, recovery, the rest. *)

\* Records and jobs.
LEMMA RequestTypesNext ==
    ASSUME Types, Control, Recorded, [Next]_vars
    PROVE  RequestTypes'
<1> USE Absent, RecordFacts, BoundsAssumption DEF Goto, Answer, Write, Event, Fault, Drain,
    Moved, NotMoved, NoteMove, Outside, Inside, disk, host, visitor, history, Types,
    RequestTypes, OtherTypes, Control, Recorded, Records, Phases, Jobs, OrNone, Colours,
    Pcs, Phases, Building, Swapping, Deploying, Clearing, Telling, Stopping
<1>1. CASE \E d \in Descriptors : ReconcileFresh(d)
  BY <1>1, ReconcileTypes
<1>2. CASE \E d \in Descriptors : ReconcileSwap(d)
  BY <1>2, ReconcileTypes
<1>3. CASE Stop \/ Reset
  BY <1>3 DEF Stop, Reset
<1>4. CASE SwapMark
  BY <1>4, MarkTypes
<1>5. CASE FreshDrain \/ Configure \/ SwapReady
  BY <1>5 DEF FreshDrain, Configure, SwapReady, Target
<1>6. CASE Start \/ StartTimesOut
  BY <1>6 DEF Start, StartTimesOut, Started, Target, Recoils
<1>7. CASE WriteEntry
  BY <1>7 DEF WriteEntry, Gate
<1>8. CASE ClearFlag
  BY <1>8 DEF ClearFlag, Target
<1>9. CASE WriteLease
  BY <1>9 DEF WriteLease, Kept
<1>10. CASE FreshDone
  BY <1>10 DEF FreshDone
<1>11. CASE SwapDone
  BY <1>11 DEF SwapDone
<1>12. CASE NeverReady \/ HostConflict \/ SwapRecheck \/ StepFails
  BY <1>12 DEF NeverReady, HostConflict, SwapRecheck, StepFails, Target, Recoils
<1>13. CASE SwapDrainLive \/ SwapBaseline
  BY <1>13 DEF SwapDrainLive, SwapBaseline
<1>14. CASE StopDone
  BY <1>14, StopTypes
<1>15. CASE StopOld \/ StopFails
  BY <1>15 DEF StopOld, StopFails, Stopped
<1>16. CASE Revoke \/ RevokeFails \/ Wipe \/ WipeFails \/ DrainBoth \/ Free
  BY <1>16 DEF Revoke, RevokeFails, Wipe, WipeFails, Wiped, Halted, DrainBoth, Free
<1>17. CASE Boot \/ Crash
  BY <1>17 DEF Boot, Crash
<1>18. CASE RecoverTarget \/ RecoverBoth \/ RecoverVerify \/ RecoverSource
  BY <1>18 DEF RecoverTarget, RecoverBoth, RecoverVerify, RecoverSource, Probe
<1>19. CASE RecoverDrain \/ RecoverWrites
  BY <1>19 DEF RecoverDrain, RecoverWrites
<1>20. CASE RecoverStop
  BY <1>20 DEF RecoverStop, Stopped
<1>21. CASE \E c \in Colours : Answering(c)
  BY <1>21 DEF Answering
<1>22. CASE \E c \in Colours : Stalls(c)
  BY <1>22 DEF Stalls
<1>23. CASE \E h \in Contested : OtherSlotTakes(h) \/ OtherSlotLeaves(h)
  BY <1>23 DEF OtherSlotTakes, OtherSlotLeaves, Taken
<1>24. CASE LoginReadsSlots \/ LoginReadsLease \/ Verify
  BY <1>24 DEF LoginReadsSlots, LoginReadsLease, Verify, Admits
<1>25. CASE UNCHANGED vars
  BY <1>25 DEF vars
<1> QED
  BY <1>1, <1>2, <1>3, <1>4, <1>5, <1>6, <1>7, <1>8, <1>9, <1>10, <1>11, <1>12, <1>13,
    <1>14, <1>15, <1>16, <1>17, <1>18, <1>19, <1>20, <1>21, <1>22, <1>23, <1>24, <1>25 DEF
    Next, Handler, Recovery, Failure

\* A step that leaves the files and the containers alone, but for drain flags.
LEMMA SlotKept ==
    ASSUME SlotTypes, UNCHANGED <<entry, lease, run, up, site, built, minted>>,
           drained' \subseteq Colours, foreign' \subseteq Hosts
    PROVE  SlotTypes'
  BY DEF SlotTypes

\* What is on disk and on the host.
LEMMA SlotTypesNext ==
    ASSUME Types, Control, Recorded, [Next]_vars
    PROVE  SlotTypes'
<1> USE DEF Goto, Answer, Write, Event, Fault, Drain, Moved, NotMoved, NoteMove, Outside, Inside,
    disk, host, visitor, history, Types
<1>1. CASE \E d \in Descriptors : ReconcileFresh(d)
  BY <1>1, SlotKept DEF ReconcileFresh, SlotTypes
<1>2. CASE \E d \in Descriptors : ReconcileSwap(d)
  BY <1>2, Absent DEF ReconcileSwap,
    RequestTypes, SlotTypes, Control, Recorded, Records, OrNone, Colours, Jobs,
    Gates, Leases, Sites, Swapping, Building
<1>3. CASE Stop \/ Reset
  BY <1>3, SlotKept DEF Stop, Reset, SlotTypes
<1>4. CASE SwapMark
  BY <1>4, SlotKept DEF SwapMark, SlotTypes
<1>5. CASE FreshDrain \/ Configure \/ SwapReady
  <2>1. "a" \in Colours
    BY DEF Colours
  <2>2. drained' \subseteq Colours
    BY <1>5, <2>1 DEF FreshDrain, Configure, SwapReady, SlotTypes
  <2> QED
    BY <1>5, <2>2, SlotKept DEF FreshDrain, Configure, SwapReady, SlotTypes
<1>6. CASE Start \/ StartTimesOut
  BY <1>6, Absent DEF Start, StartTimesOut, Started, Target, Recoils,
    RequestTypes, SlotTypes, Control, Recorded, Records, OrNone, Colours, Jobs,
    Gates, Leases, Sites, Swapping, Building
<1>7. CASE WriteEntry
  BY <1>7, Absent DEF WriteEntry, Gate,
    RequestTypes, SlotTypes, Control, Recorded, Records, OrNone, Colours, Jobs,
    Gates, Leases, Sites, Swapping, Building
<1>8. CASE ClearFlag
  BY <1>8, Absent DEF ClearFlag, Target,
    RequestTypes, SlotTypes, Control, Recorded, Records, OrNone, Colours, Jobs,
    Gates, Leases, Sites, Swapping, Building
<1>9. CASE WriteLease
  BY <1>9, Absent DEF WriteLease, Kept,
    RequestTypes, SlotTypes, Control, Recorded, Records, OrNone, Colours, Jobs,
    Gates, Leases, Sites, Swapping, Building
<1>10. CASE FreshDone
  BY <1>10, SlotKept DEF FreshDone, SlotTypes
<1>11. CASE SwapDone
  BY <1>11, SlotKept DEF SwapDone, SlotTypes
<1>12. CASE NeverReady \/ HostConflict \/ SwapRecheck \/ StepFails
  BY <1>12, SlotKept DEF NeverReady, HostConflict, SwapRecheck, StepFails, Recoils,
      SlotTypes
<1>13. CASE SwapDrainLive \/ SwapBaseline
  BY <1>13, Absent DEF SwapDrainLive, SwapBaseline,
    RequestTypes, SlotTypes, Control, Recorded, Records, OrNone, Colours, Jobs,
    Gates, Leases, Sites, Swapping, Building
<1>14. CASE StopDone
  BY <1>14, SlotKept DEF StopDone, SlotTypes
<1>15. CASE StopOld \/ StopFails
  BY <1>15, Absent DEF StopOld, StopFails, Stopped,
    RequestTypes, SlotTypes, Control, Recorded, Records, OrNone, Colours, Jobs,
    Gates, Leases, Sites, Swapping, Building
<1>16. CASE Revoke \/ RevokeFails \/ Wipe \/ WipeFails \/ DrainBoth \/ Free
  BY <1>16, Absent DEF Revoke, RevokeFails, Wipe, WipeFails, Wiped, Halted, DrainBoth, Free,
    RequestTypes, SlotTypes, Control, Recorded, Records, OrNone, Colours, Jobs,
    Gates, Leases, Sites, Swapping, Building
<1>17. CASE Boot \/ Crash
  BY <1>17, Absent DEF Boot, Crash,
    RequestTypes, SlotTypes, Control, Recorded, Records, OrNone, Colours, Jobs,
    Gates, Leases, Sites, Swapping, Building
<1>18. CASE RecoverTarget \/ RecoverBoth \/ RecoverVerify \/ RecoverSource
  BY <1>18, SlotKept
    DEF RecoverTarget, RecoverBoth, RecoverVerify, RecoverSource, Probe, SlotTypes
<1>19. CASE RecoverDrain \/ RecoverWrites
  <2>1. ASSUME RecoverDrain
        PROVE  st.colour \in Colours /\ st.swapTarget \in Colours
    BY <2>1, Absent DEF RecoverDrain, RequestTypes, Control, Recorded, Records, OrNone,
        Telling
  <2>2. drained' \subseteq Colours
    BY <1>19, <2>1 DEF RecoverDrain, RecoverWrites, SlotTypes
  <2> QED
    BY <1>19, <2>2, SlotKept DEF RecoverDrain, RecoverWrites, SlotTypes
<1>20. CASE RecoverStop
  <2>1. st.colour \in Colours /\ Other(st.colour) \in Colours
    BY <1>20, Absent DEF RecoverStop, RequestTypes, Control, Recorded, Records, OrNone,
        Stopping
  <2>2. CASE Stopped
    BY <1>20, <2>1, <2>2 DEF RecoverStop, Stopped, SlotTypes, OrNone
  <2>3. CASE UNCHANGED host
    BY <1>20, <2>3, SlotKept DEF RecoverStop, SlotTypes
  <2> QED
    BY <1>20, <2>2, <2>3 DEF RecoverStop
<1>21. CASE \E c \in Colours : Answering(c)
  BY <1>21 DEF Answering, SlotTypes
<1>22. CASE \E c \in Colours : Stalls(c)
  BY <1>22, Absent DEF Stalls,
    RequestTypes, SlotTypes, Control, Recorded, Records, OrNone, Colours, Jobs,
    Gates, Leases, Sites, Swapping, Building
<1>23. CASE \E h \in Contested : OtherSlotTakes(h) \/ OtherSlotLeaves(h)
  <2>1. foreign' \subseteq Hosts
    BY <1>23, Absent DEF OtherSlotTakes, OtherSlotLeaves, Taken, SlotTypes
  <2> QED
    BY <1>23, <2>1, SlotKept DEF OtherSlotTakes, OtherSlotLeaves, Taken, SlotTypes
<1>24. CASE LoginReadsSlots \/ LoginReadsLease \/ Verify
  BY <1>24, SlotKept DEF LoginReadsSlots, LoginReadsLease, Verify, SlotTypes
<1>25. CASE UNCHANGED vars
  BY <1>25, SlotKept DEF vars, SlotTypes
<1> QED
  BY <1>1, <1>2, <1>3, <1>4, <1>5, <1>6, <1>7, <1>8, <1>9, <1>10, <1>11, <1>12, <1>13,
    <1>14, <1>15, <1>16, <1>17, <1>18, <1>19, <1>20, <1>21, <1>22, <1>23, <1>24, <1>25 DEF
    Next, Handler, Recovery, Failure

\* Visitors and counters; a container's stall is remembered.
LEMMA OtherTypesNext ==
    ASSUME Types, [Next]_vars
    PROVE  OtherTypes' /\ (wobbled => wobbled')
<1> USE Absent, BoundsAssumption DEF Goto, Answer, Write, Event, Fault, Drain, Moved, NotMoved,
    NoteMove, Outside, Inside, disk, host, visitor, history, Types, SlotTypes, OtherTypes,
    Gates, Leases, Sites, Cookies, OrNone
<1>1. CASE \E d \in Descriptors : ReconcileFresh(d)
  BY <1>1 DEF ReconcileFresh
<1>2. CASE \E d \in Descriptors : ReconcileSwap(d)
  BY <1>2 DEF ReconcileSwap
<1>3. CASE Stop \/ Reset
  BY <1>3 DEF Stop, Reset
<1>4. CASE SwapMark
  BY <1>4 DEF SwapMark
<1>5. CASE FreshDrain \/ Configure \/ SwapReady
  BY <1>5 DEF FreshDrain, Configure, SwapReady, Target
<1>6. CASE Start \/ StartTimesOut
  BY <1>6 DEF Start, StartTimesOut, Started, Target, Recoils
<1>7. CASE WriteEntry
  BY <1>7 DEF WriteEntry, Gate
<1>8. CASE ClearFlag
  BY <1>8 DEF ClearFlag, Target
<1>9. CASE WriteLease
  BY <1>9 DEF WriteLease, Kept
<1>10. CASE FreshDone
  BY <1>10 DEF FreshDone
<1>11. CASE SwapDone
  BY <1>11 DEF SwapDone
<1>12. CASE NeverReady \/ HostConflict \/ SwapRecheck \/ StepFails
  BY <1>12 DEF NeverReady, HostConflict, SwapRecheck, StepFails, Target, Recoils
<1>13. CASE SwapDrainLive \/ SwapBaseline
  BY <1>13 DEF SwapDrainLive, SwapBaseline
<1>14. CASE StopDone
  BY <1>14 DEF StopDone
<1>15. CASE StopOld \/ StopFails
  BY <1>15 DEF StopOld, StopFails, Stopped
<1>16. CASE Revoke \/ RevokeFails \/ Wipe \/ WipeFails \/ DrainBoth \/ Free
  BY <1>16 DEF Revoke, RevokeFails, Wipe, WipeFails, Wiped, Halted, DrainBoth, Free
<1>17. CASE Boot \/ Crash
  BY <1>17 DEF Boot, Crash
<1>18. CASE RecoverTarget \/ RecoverBoth \/ RecoverVerify \/ RecoverSource
  BY <1>18 DEF RecoverTarget, RecoverBoth, RecoverVerify, RecoverSource, Probe
<1>19. CASE RecoverDrain \/ RecoverWrites
  BY <1>19 DEF RecoverDrain, RecoverWrites
<1>20. CASE RecoverStop
  BY <1>20 DEF RecoverStop, Stopped
<1>21. CASE \E c \in Colours : Answering(c)
  BY <1>21 DEF Answering
<1>22. CASE \E c \in Colours : Stalls(c)
  BY <1>22 DEF Stalls
<1>23. CASE \E h \in Contested : OtherSlotTakes(h) \/ OtherSlotLeaves(h)
  BY <1>23 DEF OtherSlotTakes, OtherSlotLeaves, Taken
<1>24. CASE LoginReadsSlots \/ LoginReadsLease \/ Verify
  BY <1>24 DEF LoginReadsSlots, LoginReadsLease, Verify, Admits
<1>25. CASE UNCHANGED vars
  BY <1>25 DEF vars
<1> QED
  BY <1>1, <1>2, <1>3, <1>4, <1>5, <1>6, <1>7, <1>8, <1>9, <1>10, <1>11, <1>12, <1>13,
    <1>14, <1>15, <1>16, <1>17, <1>18, <1>19, <1>20, <1>21, <1>22, <1>23, <1>24, <1>25 DEF
    Next, Handler, Recovery, Failure

\* The record on disk is the one the handler's step expects.
LEMMA ControlNext ==
    ASSUME Types, Control, Recorded, [Next]_vars
    PROVE  Control'
<1> USE Absent, RecordFacts DEF Goto, Answer, Write, Event, Fault, Drain, Moved, NotMoved,
    NoteMove, Outside, Inside, disk, host, visitor, history, Types, RequestTypes, Control,
    Recorded, Records, Jobs, OrNone, Colours, Phases, Building, Swapping, Deploying,
    Clearing, Telling, Stopping
<1>1. CASE \E d \in Descriptors : ReconcileFresh(d)
  BY <1>1 DEF ReconcileFresh
<1>2. CASE \E d \in Descriptors : ReconcileSwap(d)
  BY <1>2 DEF ReconcileSwap
<1>3. CASE Stop \/ Reset
  BY <1>3 DEF Stop, Reset
<1>4. CASE SwapMark
  BY <1>4 DEF SwapMark
<1>5. CASE FreshDrain \/ Configure \/ SwapReady
  BY <1>5 DEF FreshDrain, Configure, SwapReady, Target
<1>6. CASE Start \/ StartTimesOut
  BY <1>6 DEF Start, StartTimesOut, Started, Target, Recoils
<1>7. CASE WriteEntry
  BY <1>7 DEF WriteEntry, Gate
<1>8. CASE ClearFlag
  BY <1>8 DEF ClearFlag, Target
<1>9. CASE WriteLease
  BY <1>9 DEF WriteLease, Kept
<1>10. CASE FreshDone
  BY <1>10 DEF FreshDone
<1>11. CASE SwapDone
  BY <1>11 DEF SwapDone
<1>12. CASE NeverReady \/ HostConflict \/ SwapRecheck \/ StepFails
  BY <1>12 DEF NeverReady, HostConflict, SwapRecheck, StepFails, Target, Recoils
<1>13. CASE SwapDrainLive \/ SwapBaseline
  BY <1>13 DEF SwapDrainLive, SwapBaseline
<1>14. CASE StopDone
  BY <1>14 DEF StopDone
<1>15. CASE StopOld \/ StopFails
  BY <1>15 DEF StopOld, StopFails, Stopped
<1>16. CASE Revoke \/ RevokeFails \/ Wipe \/ WipeFails \/ DrainBoth \/ Free
  BY <1>16 DEF Revoke, RevokeFails, Wipe, WipeFails, Wiped, Halted, DrainBoth, Free
<1>17. CASE Boot \/ Crash
  BY <1>17 DEF Boot, Crash
<1>18. CASE RecoverTarget \/ RecoverBoth \/ RecoverVerify \/ RecoverSource
  BY <1>18 DEF RecoverTarget, RecoverBoth, RecoverVerify, RecoverSource, Probe
<1>19. CASE RecoverDrain \/ RecoverWrites
  BY <1>19 DEF RecoverDrain, RecoverWrites
<1>20. CASE RecoverStop
  BY <1>20 DEF RecoverStop, Stopped
<1>21. CASE \E c \in Colours : Answering(c)
  BY <1>21 DEF Answering
<1>22. CASE \E c \in Colours : Stalls(c)
  BY <1>22 DEF Stalls
<1>23. CASE \E h \in Contested : OtherSlotTakes(h) \/ OtherSlotLeaves(h)
  BY <1>23 DEF OtherSlotTakes, OtherSlotLeaves, Taken
<1>24. CASE LoginReadsSlots \/ LoginReadsLease \/ Verify
  BY <1>24 DEF LoginReadsSlots, LoginReadsLease, Verify, Admits
<1>25. CASE UNCHANGED vars
  BY <1>25 DEF vars
<1> QED
  BY <1>1, <1>2, <1>3, <1>4, <1>5, <1>6, <1>7, <1>8, <1>9, <1>10, <1>11, <1>12, <1>13,
    <1>14, <1>15, <1>16, <1>17, <1>18, <1>19, <1>20, <1>21, <1>22, <1>23, <1>24, <1>25 DEF
    Next, Handler, Recovery, Failure

\* Each phase is written with what it carries.
LEMMA RecordedNext ==
    ASSUME Types, Control, Recorded, [Next]_vars
    PROVE  Recorded'
<1> USE Absent, RecordFacts DEF Goto, Answer, Write, Event, Fault, Drain, Moved, NotMoved,
    NoteMove, Outside, Inside, disk, host, visitor, history, Types, RequestTypes, Control,
    Recorded, Records, Jobs, OrNone, Colours, Phases, Building, Swapping, Deploying,
    Clearing, Telling, Stopping
<1>1. CASE \E d \in Descriptors : ReconcileFresh(d)
  BY <1>1 DEF ReconcileFresh
<1>2. CASE \E d \in Descriptors : ReconcileSwap(d)
  BY <1>2 DEF ReconcileSwap
<1>3. CASE Stop \/ Reset
  BY <1>3 DEF Stop, Reset
<1>4. CASE SwapMark
  BY <1>4 DEF SwapMark
<1>5. CASE FreshDrain \/ Configure \/ SwapReady
  BY <1>5 DEF FreshDrain, Configure, SwapReady, Target
<1>6. CASE Start \/ StartTimesOut
  BY <1>6 DEF Start, StartTimesOut, Started, Target, Recoils
<1>7. CASE WriteEntry
  BY <1>7 DEF WriteEntry, Gate
<1>8. CASE ClearFlag
  BY <1>8 DEF ClearFlag, Target
<1>9. CASE WriteLease
  BY <1>9 DEF WriteLease, Kept
<1>10. CASE FreshDone
  BY <1>10 DEF FreshDone
<1>11. CASE SwapDone
  BY <1>11 DEF SwapDone
<1>12. CASE NeverReady \/ HostConflict \/ SwapRecheck \/ StepFails
  BY <1>12 DEF NeverReady, HostConflict, SwapRecheck, StepFails, Target, Recoils
<1>13. CASE SwapDrainLive \/ SwapBaseline
  BY <1>13 DEF SwapDrainLive, SwapBaseline
<1>14. CASE StopDone
  BY <1>14 DEF StopDone
<1>15. CASE StopOld \/ StopFails
  BY <1>15 DEF StopOld, StopFails, Stopped
<1>16. CASE Revoke \/ RevokeFails \/ Wipe \/ WipeFails \/ DrainBoth \/ Free
  BY <1>16 DEF Revoke, RevokeFails, Wipe, WipeFails, Wiped, Halted, DrainBoth, Free
<1>17. CASE Boot \/ Crash
  BY <1>17 DEF Boot, Crash
<1>18. CASE RecoverTarget \/ RecoverBoth \/ RecoverVerify \/ RecoverSource
  BY <1>18 DEF RecoverTarget, RecoverBoth, RecoverVerify, RecoverSource, Probe
<1>19. CASE RecoverDrain \/ RecoverWrites
  BY <1>19 DEF RecoverDrain, RecoverWrites
<1>20. CASE RecoverStop
  BY <1>20 DEF RecoverStop, Stopped
<1>21. CASE \E c \in Colours : Answering(c)
  BY <1>21 DEF Answering
<1>22. CASE \E c \in Colours : Stalls(c)
  BY <1>22 DEF Stalls
<1>23. CASE \E h \in Contested : OtherSlotTakes(h) \/ OtherSlotLeaves(h)
  BY <1>23 DEF OtherSlotTakes, OtherSlotLeaves, Taken
<1>24. CASE LoginReadsSlots \/ LoginReadsLease \/ Verify
  BY <1>24 DEF LoginReadsSlots, LoginReadsLease, Verify, Admits
<1>25. CASE UNCHANGED vars
  BY <1>25 DEF vars
<1> QED
  BY <1>1, <1>2, <1>3, <1>4, <1>5, <1>6, <1>7, <1>8, <1>9, <1>10, <1>11, <1>12, <1>13,
    <1>14, <1>15, <1>16, <1>17, <1>18, <1>19, <1>20, <1>21, <1>22, <1>23, <1>24, <1>25 DEF
    Next, Handler, Recovery, Failure

\* Nothing is built, opened or wiped out of order.
LEMMA HousedNext ==
    ASSUME Types, Control, Recorded, Housed, [Next]_vars
    PROVE  Housed'
<1> USE Absent, RecordFacts DEF Goto, Answer, Write, Event, Fault, Drain, Moved, NotMoved,
    NoteMove, Outside, Inside, disk, host, visitor, history, Types, RequestTypes, SlotTypes,
    Control, Recorded, Housed, Empty, Gates, Leases, Sites, OrNone, GateHost, Records, Jobs,
    Colours, Phases, Building, Swapping, Deploying, Clearing, Telling, Stopping
<1>1. CASE \E d \in Descriptors : ReconcileFresh(d)
  BY <1>1 DEF ReconcileFresh
<1>2. CASE \E d \in Descriptors : ReconcileSwap(d)
  BY <1>2 DEF ReconcileSwap
<1>3. CASE Stop \/ Reset
  BY <1>3 DEF Stop, Reset
<1>4. CASE SwapMark
  BY <1>4 DEF SwapMark
<1>5. CASE FreshDrain \/ Configure \/ SwapReady
  BY <1>5 DEF FreshDrain, Configure, SwapReady, Target
<1>6. CASE Start \/ StartTimesOut
  BY <1>6 DEF Start, StartTimesOut, Started, Target, Recoils
<1>7. CASE WriteEntry
  BY <1>7 DEF WriteEntry, Gate
<1>8. CASE ClearFlag
  BY <1>8 DEF ClearFlag, Target
<1>9. CASE WriteLease
  BY <1>9 DEF WriteLease, Kept
<1>10. CASE FreshDone
  BY <1>10 DEF FreshDone
<1>11. CASE SwapDone
  BY <1>11 DEF SwapDone
<1>12. CASE NeverReady \/ HostConflict \/ SwapRecheck \/ StepFails
  BY <1>12 DEF NeverReady, HostConflict, SwapRecheck, StepFails, Target, Recoils
<1>13. CASE SwapDrainLive \/ SwapBaseline
  BY <1>13 DEF SwapDrainLive, SwapBaseline
<1>14. CASE StopDone
  BY <1>14 DEF StopDone
<1>15. CASE StopOld \/ StopFails
  BY <1>15 DEF StopOld, StopFails, Stopped
<1>16. CASE Revoke \/ RevokeFails \/ Wipe \/ WipeFails \/ DrainBoth \/ Free
  BY <1>16 DEF Revoke, RevokeFails, Wipe, WipeFails, Wiped, Halted, DrainBoth, Free
<1>17. CASE Boot \/ Crash
  BY <1>17 DEF Boot, Crash
<1>18. CASE RecoverTarget \/ RecoverBoth \/ RecoverVerify \/ RecoverSource
  BY <1>18 DEF RecoverTarget, RecoverBoth, RecoverVerify, RecoverSource, Probe
<1>19. CASE RecoverDrain \/ RecoverWrites
  BY <1>19 DEF RecoverDrain, RecoverWrites
<1>20. CASE RecoverStop
  BY <1>20 DEF RecoverStop, Stopped
<1>21. CASE \E c \in Colours : Answering(c)
  BY <1>21 DEF Answering
<1>22. CASE \E c \in Colours : Stalls(c)
  BY <1>22 DEF Stalls
<1>23. CASE \E h \in Contested : OtherSlotTakes(h) \/ OtherSlotLeaves(h)
  BY <1>23 DEF OtherSlotTakes, OtherSlotLeaves, Taken
<1>24. CASE LoginReadsSlots \/ LoginReadsLease \/ Verify
  BY <1>24 DEF LoginReadsSlots, LoginReadsLease, Verify, Admits
<1>25. CASE UNCHANGED vars
  BY <1>25 DEF vars
<1> QED
  BY <1>1, <1>2, <1>3, <1>4, <1>5, <1>6, <1>7, <1>8, <1>9, <1>10, <1>11, <1>12, <1>13,
    <1>14, <1>15, <1>16, <1>17, <1>18, <1>19, <1>20, <1>21, <1>22, <1>23, <1>24, <1>25 DEF
    Next, Handler, Recovery, Failure

\* A lease is minted once, and gone before its site is.
LEMMA BoundNext ==
    ASSUME Types, Control, Recorded, Housed, Bound, [Next]_vars
    PROVE  Bound'
<1> USE Absent, RecordFacts DEF Goto, Answer, Write, Event, Fault, Drain, Moved, NotMoved,
    NoteMove, Outside, Inside, disk, host, visitor, history, Types, SlotTypes, OtherTypes,
    Housed, Bound, Empty, Gates, Leases, Sites, OrNone, Cookies
<1>1. CASE \E d \in Descriptors : ReconcileFresh(d)
  BY <1>1 DEF ReconcileFresh
<1>2. CASE \E d \in Descriptors : ReconcileSwap(d)
  BY <1>2 DEF ReconcileSwap
<1>3. CASE Stop \/ Reset
  BY <1>3 DEF Stop, Reset
<1>4. CASE SwapMark
  BY <1>4 DEF SwapMark
<1>5. CASE FreshDrain \/ Configure \/ SwapReady
  BY <1>5 DEF FreshDrain, Configure, SwapReady, Target
<1>6. CASE Start \/ StartTimesOut
  BY <1>6 DEF Start, StartTimesOut, Started, Target, Recoils
<1>7. CASE WriteEntry
  BY <1>7 DEF WriteEntry, Gate
<1>8. CASE ClearFlag
  BY <1>8 DEF ClearFlag, Target
<1>9. CASE WriteLease
  BY <1>9 DEF WriteLease, Kept
<1>10. CASE FreshDone
  BY <1>10 DEF FreshDone
<1>11. CASE SwapDone
  BY <1>11 DEF SwapDone
<1>12. CASE NeverReady \/ HostConflict \/ SwapRecheck \/ StepFails
  BY <1>12 DEF NeverReady, HostConflict, SwapRecheck, StepFails, Target, Recoils
<1>13. CASE SwapDrainLive \/ SwapBaseline
  BY <1>13 DEF SwapDrainLive, SwapBaseline
<1>14. CASE StopDone
  BY <1>14 DEF StopDone
<1>15. CASE StopOld \/ StopFails
  BY <1>15 DEF StopOld, StopFails, Stopped
<1>16. CASE Revoke \/ RevokeFails \/ Wipe \/ WipeFails \/ DrainBoth \/ Free
  BY <1>16 DEF Revoke, RevokeFails, Wipe, WipeFails, Wiped, Halted, DrainBoth, Free
<1>17. CASE Boot \/ Crash
  BY <1>17 DEF Boot, Crash
<1>18. CASE RecoverTarget \/ RecoverBoth \/ RecoverVerify \/ RecoverSource
  BY <1>18 DEF RecoverTarget, RecoverBoth, RecoverVerify, RecoverSource, Probe
<1>19. CASE RecoverDrain \/ RecoverWrites
  BY <1>19 DEF RecoverDrain, RecoverWrites
<1>20. CASE RecoverStop
  BY <1>20 DEF RecoverStop, Stopped
<1>21. CASE \E c \in Colours : Answering(c)
  BY <1>21 DEF Answering
<1>22. CASE \E c \in Colours : Stalls(c)
  BY <1>22 DEF Stalls
<1>23. CASE \E h \in Contested : OtherSlotTakes(h) \/ OtherSlotLeaves(h)
  BY <1>23 DEF OtherSlotTakes, OtherSlotLeaves, Taken
<1>24. CASE LoginReadsSlots \/ LoginReadsLease \/ Verify
  BY <1>24 DEF LoginReadsSlots, LoginReadsLease, Verify, Admits
<1>25. CASE UNCHANGED vars
  BY <1>25 DEF vars
<1> QED
  BY <1>1, <1>2, <1>3, <1>4, <1>5, <1>6, <1>7, <1>8, <1>9, <1>10, <1>11, <1>12, <1>13,
    <1>14, <1>15, <1>16, <1>17, <1>18, <1>19, <1>20, <1>21, <1>22, <1>23, <1>24, <1>25 DEF
    Next, Handler, Recovery, Failure

\* A host is taken only while nobody else has it.
LEMMA OneNext ==
    ASSUME Types, SlotTypes, OneSlotPerHost, [Next]_vars
    PROVE  OneSlotPerHost'
<1> USE Absent, RecordFacts DEF Goto, Answer, Write, Event, Fault, Drain, Moved, NotMoved,
    NoteMove, Outside, Inside, disk, host, visitor, history, Types, SlotTypes,
    OneSlotPerHost, GateHost, Gates, OrNone
<1>1. CASE \E d \in Descriptors : ReconcileFresh(d)
  BY <1>1 DEF ReconcileFresh
<1>2. CASE \E d \in Descriptors : ReconcileSwap(d)
  BY <1>2 DEF ReconcileSwap
<1>3. CASE Stop \/ Reset
  BY <1>3 DEF Stop, Reset
<1>4. CASE SwapMark
  BY <1>4 DEF SwapMark
<1>5. CASE FreshDrain \/ Configure \/ SwapReady
  BY <1>5 DEF FreshDrain, Configure, SwapReady, Target
<1>6. CASE Start \/ StartTimesOut
  BY <1>6 DEF Start, StartTimesOut, Started, Target, Recoils
<1>7. CASE WriteEntry
  BY <1>7 DEF WriteEntry, Gate
<1>8. CASE ClearFlag
  BY <1>8 DEF ClearFlag, Target
<1>9. CASE WriteLease
  BY <1>9 DEF WriteLease, Kept
<1>10. CASE FreshDone
  BY <1>10 DEF FreshDone
<1>11. CASE SwapDone
  BY <1>11 DEF SwapDone
<1>12. CASE NeverReady \/ HostConflict \/ SwapRecheck \/ StepFails
  BY <1>12 DEF NeverReady, HostConflict, SwapRecheck, StepFails, Target, Recoils
<1>13. CASE SwapDrainLive \/ SwapBaseline
  BY <1>13 DEF SwapDrainLive, SwapBaseline
<1>14. CASE StopDone
  BY <1>14 DEF StopDone
<1>15. CASE StopOld \/ StopFails
  BY <1>15 DEF StopOld, StopFails, Stopped
<1>16. CASE Revoke \/ RevokeFails \/ Wipe \/ WipeFails \/ DrainBoth \/ Free
  BY <1>16 DEF Revoke, RevokeFails, Wipe, WipeFails, Wiped, Halted, DrainBoth, Free
<1>17. CASE Boot \/ Crash
  BY <1>17 DEF Boot, Crash
<1>18. CASE RecoverTarget \/ RecoverBoth \/ RecoverVerify \/ RecoverSource
  BY <1>18 DEF RecoverTarget, RecoverBoth, RecoverVerify, RecoverSource, Probe
<1>19. CASE RecoverDrain \/ RecoverWrites
  BY <1>19 DEF RecoverDrain, RecoverWrites
<1>20. CASE RecoverStop
  BY <1>20 DEF RecoverStop, Stopped
<1>21. CASE \E c \in Colours : Answering(c)
  BY <1>21 DEF Answering
<1>22. CASE \E c \in Colours : Stalls(c)
  BY <1>22 DEF Stalls
<1>23. CASE \E h \in Contested : OtherSlotTakes(h) \/ OtherSlotLeaves(h)
  BY <1>23 DEF OtherSlotTakes, OtherSlotLeaves, Taken
<1>24. CASE LoginReadsSlots \/ LoginReadsLease \/ Verify
  BY <1>24 DEF LoginReadsSlots, LoginReadsLease, Verify, Admits
<1>25. CASE UNCHANGED vars
  BY <1>25 DEF vars
<1> QED
  BY <1>1, <1>2, <1>3, <1>4, <1>5, <1>6, <1>7, <1>8, <1>9, <1>10, <1>11, <1>12, <1>13,
    <1>14, <1>15, <1>16, <1>17, <1>18, <1>19, <1>20, <1>21, <1>22, <1>23, <1>24, <1>25 DEF
    Next, Handler, Recovery, Failure

\* No step takes the recorded colour away.
LEMMA LiveNext ==
    ASSUME Types, Control, Recorded, Serves, ~wobbled, ~wobbled', [Next]_vars
    PROVE  Live'
<1> USE Absent, RecordFacts DEF Goto, Answer, Write, Event, Fault, Drain, Moved, NotMoved,
    NoteMove, Outside, Inside, disk, host, visitor, history, Types, RequestTypes, SlotTypes,
    Control, Recorded, Serves, Live, Fresh, Moving, Ready, Records, Jobs, OrNone, Phases,
    Building, Swapping, Deploying, Clearing, Telling, Stopping
<1>1. CASE \E d \in Descriptors : ReconcileFresh(d)
  BY <1>1 DEF ReconcileFresh
<1>2. CASE \E d \in Descriptors : ReconcileSwap(d)
  BY <1>2 DEF ReconcileSwap
<1>3. CASE Stop \/ Reset
  BY <1>3 DEF Stop, Reset
<1>4. CASE SwapMark
  BY <1>4 DEF SwapMark
<1>5. CASE FreshDrain \/ Configure \/ SwapReady
  BY <1>5 DEF FreshDrain, Configure, SwapReady, Target
<1>6. CASE Start \/ StartTimesOut
  BY <1>6 DEF Start, StartTimesOut, Started, Target, Recoils
<1>7. CASE WriteEntry
  BY <1>7 DEF WriteEntry, Gate
<1>8. CASE ClearFlag
  BY <1>8 DEF ClearFlag, Target
<1>9. CASE WriteLease
  BY <1>9 DEF WriteLease, Kept
<1>10. CASE FreshDone
  BY <1>10 DEF FreshDone
<1>11. CASE SwapDone
  BY <1>11 DEF SwapDone
<1>12. CASE NeverReady \/ HostConflict \/ SwapRecheck \/ StepFails
  BY <1>12 DEF NeverReady, HostConflict, SwapRecheck, StepFails, Target, Recoils
<1>13. CASE SwapDrainLive \/ SwapBaseline
  BY <1>13 DEF SwapDrainLive, SwapBaseline
<1>14. CASE StopDone
  BY <1>14 DEF StopDone
<1>15. CASE StopOld \/ StopFails
  BY <1>15 DEF StopOld, StopFails, Stopped
<1>16. CASE Revoke \/ RevokeFails \/ Wipe \/ WipeFails \/ DrainBoth \/ Free
  BY <1>16 DEF Revoke, RevokeFails, Wipe, WipeFails, Wiped, Halted, DrainBoth, Free
<1>17. CASE Boot \/ Crash
  BY <1>17 DEF Boot, Crash
<1>18. CASE RecoverTarget \/ RecoverBoth \/ RecoverVerify \/ RecoverSource
  BY <1>18 DEF RecoverTarget, RecoverBoth, RecoverVerify, RecoverSource, Probe
<1>19. CASE RecoverDrain \/ RecoverWrites
  BY <1>19 DEF RecoverDrain, RecoverWrites
<1>20. CASE RecoverStop
  BY <1>20 DEF RecoverStop, Stopped
<1>21. CASE \E c \in Colours : Answering(c)
  BY <1>21 DEF Answering
<1>22. CASE \E c \in Colours : Stalls(c)
  BY <1>22 DEF Stalls
<1>23. CASE \E h \in Contested : OtherSlotTakes(h) \/ OtherSlotLeaves(h)
  BY <1>23 DEF OtherSlotTakes, OtherSlotLeaves, Taken
<1>24. CASE LoginReadsSlots \/ LoginReadsLease \/ Verify
  BY <1>24 DEF LoginReadsSlots, LoginReadsLease, Verify, Admits
<1>25. CASE UNCHANGED vars
  BY <1>25 DEF vars
<1> QED
  BY <1>1, <1>2, <1>3, <1>4, <1>5, <1>6, <1>7, <1>8, <1>9, <1>10, <1>11, <1>12, <1>13,
    <1>14, <1>15, <1>16, <1>17, <1>18, <1>19, <1>20, <1>21, <1>22, <1>23, <1>24, <1>25 DEF
    Next, Handler, Recovery, Failure

\* No step moves the edge off it.
LEMMA SteadyNext ==
    ASSUME Types, Control, Recorded, Serves, ~wobbled, ~wobbled', [Next]_vars
    PROVE  Steady'
<1> USE Absent, RecordFacts DEF Goto, Answer, Write, Event, Fault, Drain, Moved, NotMoved,
    NoteMove, Outside, Inside, disk, host, visitor, history, Types, RequestTypes, SlotTypes,
    Control, Recorded, Serves, Live, Steady, Fresh, Moving, Ready, Answers, Records, Jobs,
    OrNone, Colours, Other, Phases, Building, Swapping, Deploying, Clearing, Telling,
    Stopping
<1>1. CASE \E d \in Descriptors : ReconcileFresh(d)
  BY <1>1 DEF ReconcileFresh
<1>2. CASE \E d \in Descriptors : ReconcileSwap(d)
  BY <1>2 DEF ReconcileSwap
<1>3. CASE Stop \/ Reset
  BY <1>3 DEF Stop, Reset
<1>4. CASE SwapMark
  BY <1>4 DEF SwapMark
<1>5. CASE FreshDrain \/ Configure \/ SwapReady
  BY <1>5 DEF FreshDrain, Configure, SwapReady, Target
<1>6. CASE Start \/ StartTimesOut
  BY <1>6 DEF Start, StartTimesOut, Started, Target, Recoils
<1>7. CASE WriteEntry
  BY <1>7 DEF WriteEntry, Gate
<1>8. CASE ClearFlag
  BY <1>8 DEF ClearFlag, Target
<1>9. CASE WriteLease
  BY <1>9 DEF WriteLease, Kept
<1>10. CASE FreshDone
  BY <1>10 DEF FreshDone
<1>11. CASE SwapDone
  BY <1>11 DEF SwapDone
<1>12. CASE NeverReady \/ HostConflict \/ SwapRecheck \/ StepFails
  BY <1>12 DEF NeverReady, HostConflict, SwapRecheck, StepFails, Target, Recoils
<1>13. CASE SwapDrainLive \/ SwapBaseline
  BY <1>13 DEF SwapDrainLive, SwapBaseline
<1>14. CASE StopDone
  BY <1>14 DEF StopDone
<1>15. CASE StopOld \/ StopFails
  BY <1>15 DEF StopOld, StopFails, Stopped
<1>16. CASE Revoke \/ RevokeFails \/ Wipe \/ WipeFails \/ DrainBoth \/ Free
  BY <1>16 DEF Revoke, RevokeFails, Wipe, WipeFails, Wiped, Halted, DrainBoth, Free
<1>17. CASE Boot \/ Crash
  BY <1>17 DEF Boot, Crash
<1>18. CASE RecoverTarget \/ RecoverBoth \/ RecoverVerify \/ RecoverSource
  BY <1>18 DEF RecoverTarget, RecoverBoth, RecoverVerify, RecoverSource, Probe
<1>19. CASE RecoverDrain \/ RecoverWrites
  BY <1>19 DEF RecoverDrain, RecoverWrites
<1>20. CASE RecoverStop
  BY <1>20 DEF RecoverStop, Stopped
<1>21. CASE \E c \in Colours : Answering(c)
  BY <1>21 DEF Answering
<1>22. CASE \E c \in Colours : Stalls(c)
  BY <1>22 DEF Stalls
<1>23. CASE \E h \in Contested : OtherSlotTakes(h) \/ OtherSlotLeaves(h)
  BY <1>23 DEF OtherSlotTakes, OtherSlotLeaves, Taken
<1>24. CASE LoginReadsSlots \/ LoginReadsLease \/ Verify
  BY <1>24 DEF LoginReadsSlots, LoginReadsLease, Verify, Admits
<1>25. CASE UNCHANGED vars
  BY <1>25 DEF vars
<1> QED
  BY <1>1, <1>2, <1>3, <1>4, <1>5, <1>6, <1>7, <1>8, <1>9, <1>10, <1>11, <1>12, <1>13,
    <1>14, <1>15, <1>16, <1>17, <1>18, <1>19, <1>20, <1>21, <1>22, <1>23, <1>24, <1>25 DEF
    Next, Handler, Recovery, Failure

\* A fresh deploy, colour a.
LEMMA FreshNext ==
    ASSUME Types, Control, Recorded, Serves, ~wobbled, ~wobbled', [Next]_vars
    PROVE  Fresh'
<1> USE Absent, RecordFacts DEF Goto, Answer, Write, Event, Fault, Drain, Moved, NotMoved,
    NoteMove, Outside, Inside, disk, host, visitor, history, Types, RequestTypes, SlotTypes,
    Control, Recorded, Serves, Fresh, Records, Jobs, OrNone, Colours, Phases, Building,
    Swapping, Deploying, Clearing, Telling, Stopping
<1>1. CASE \E d \in Descriptors : ReconcileFresh(d)
  BY <1>1 DEF ReconcileFresh
<1>2. CASE \E d \in Descriptors : ReconcileSwap(d)
  BY <1>2 DEF ReconcileSwap
<1>3. CASE Stop \/ Reset
  BY <1>3 DEF Stop, Reset
<1>4. CASE SwapMark
  BY <1>4 DEF SwapMark
<1>5. CASE FreshDrain \/ Configure \/ SwapReady
  BY <1>5 DEF FreshDrain, Configure, SwapReady, Target
<1>6. CASE Start \/ StartTimesOut
  BY <1>6 DEF Start, StartTimesOut, Started, Target, Recoils
<1>7. CASE WriteEntry
  BY <1>7 DEF WriteEntry, Gate
<1>8. CASE ClearFlag
  BY <1>8 DEF ClearFlag, Target
<1>9. CASE WriteLease
  BY <1>9 DEF WriteLease, Kept
<1>10. CASE FreshDone
  BY <1>10 DEF FreshDone
<1>11. CASE SwapDone
  BY <1>11 DEF SwapDone
<1>12. CASE NeverReady \/ HostConflict \/ SwapRecheck \/ StepFails
  BY <1>12 DEF NeverReady, HostConflict, SwapRecheck, StepFails, Target, Recoils
<1>13. CASE SwapDrainLive \/ SwapBaseline
  BY <1>13 DEF SwapDrainLive, SwapBaseline
<1>14. CASE StopDone
  BY <1>14 DEF StopDone
<1>15. CASE StopOld \/ StopFails
  BY <1>15 DEF StopOld, StopFails, Stopped
<1>16. CASE Revoke \/ RevokeFails \/ Wipe \/ WipeFails \/ DrainBoth \/ Free
  BY <1>16 DEF Revoke, RevokeFails, Wipe, WipeFails, Wiped, Halted, DrainBoth, Free
<1>17. CASE Boot \/ Crash
  BY <1>17 DEF Boot, Crash
<1>18. CASE RecoverTarget \/ RecoverBoth \/ RecoverVerify \/ RecoverSource
  BY <1>18 DEF RecoverTarget, RecoverBoth, RecoverVerify, RecoverSource, Probe
<1>19. CASE RecoverDrain \/ RecoverWrites
  BY <1>19 DEF RecoverDrain, RecoverWrites
<1>20. CASE RecoverStop
  BY <1>20 DEF RecoverStop, Stopped
<1>21. CASE \E c \in Colours : Answering(c)
  BY <1>21 DEF Answering
<1>22. CASE \E c \in Colours : Stalls(c)
  BY <1>22 DEF Stalls
<1>23. CASE \E h \in Contested : OtherSlotTakes(h) \/ OtherSlotLeaves(h)
  BY <1>23 DEF OtherSlotTakes, OtherSlotLeaves, Taken
<1>24. CASE LoginReadsSlots \/ LoginReadsLease \/ Verify
  BY <1>24 DEF LoginReadsSlots, LoginReadsLease, Verify, Admits
<1>25. CASE UNCHANGED vars
  BY <1>25 DEF vars
<1> QED
  BY <1>1, <1>2, <1>3, <1>4, <1>5, <1>6, <1>7, <1>8, <1>9, <1>10, <1>11, <1>12, <1>13,
    <1>14, <1>15, <1>16, <1>17, <1>18, <1>19, <1>20, <1>21, <1>22, <1>23, <1>24, <1>25 DEF
    Next, Handler, Recovery, Failure

\* A swap, and what its recovery concludes.
LEMMA MovingNext ==
    ASSUME Types, Control, Recorded, Serves, ~wobbled, ~wobbled', [Next]_vars
    PROVE  Moving'
<1> USE Absent, RecordFacts DEF Goto, Answer, Write, Event, Fault, Drain, Moved, NotMoved,
    NoteMove, Outside, Inside, disk, host, visitor, history, Types, RequestTypes, SlotTypes,
    Control, Recorded, Serves, Live, Steady, Moving, Ready, Answers, Records, Jobs, OrNone,
    Colours, Other, Phases, Building, Swapping, Deploying, Clearing, Telling, Stopping
<1>1. CASE \E d \in Descriptors : ReconcileFresh(d)
  BY <1>1 DEF ReconcileFresh
<1>2. CASE \E d \in Descriptors : ReconcileSwap(d)
  BY <1>2 DEF ReconcileSwap
<1>3. CASE Stop \/ Reset
  BY <1>3 DEF Stop, Reset
<1>4. CASE SwapMark
  BY <1>4 DEF SwapMark
<1>5. CASE FreshDrain \/ Configure \/ SwapReady
  BY <1>5 DEF FreshDrain, Configure, SwapReady, Target
<1>6. CASE Start \/ StartTimesOut
  BY <1>6 DEF Start, StartTimesOut, Started, Target, Recoils
<1>7. CASE WriteEntry
  BY <1>7 DEF WriteEntry, Gate
<1>8. CASE ClearFlag
  BY <1>8 DEF ClearFlag, Target
<1>9. CASE WriteLease
  BY <1>9 DEF WriteLease, Kept
<1>10. CASE FreshDone
  BY <1>10 DEF FreshDone
<1>11. CASE SwapDone
  BY <1>11 DEF SwapDone
<1>12. CASE NeverReady \/ HostConflict \/ SwapRecheck \/ StepFails
  BY <1>12 DEF NeverReady, HostConflict, SwapRecheck, StepFails, Target, Recoils
<1>13. CASE SwapDrainLive \/ SwapBaseline
  BY <1>13 DEF SwapDrainLive, SwapBaseline
<1>14. CASE StopDone
  BY <1>14 DEF StopDone
<1>15. CASE StopOld \/ StopFails
  BY <1>15 DEF StopOld, StopFails, Stopped
<1>16. CASE Revoke \/ RevokeFails \/ Wipe \/ WipeFails \/ DrainBoth \/ Free
  BY <1>16 DEF Revoke, RevokeFails, Wipe, WipeFails, Wiped, Halted, DrainBoth, Free
<1>17. CASE Boot \/ Crash
  BY <1>17 DEF Boot, Crash
<1>18. CASE RecoverTarget \/ RecoverBoth \/ RecoverVerify \/ RecoverSource
  BY <1>18 DEF RecoverTarget, RecoverBoth, RecoverVerify, RecoverSource, Probe
<1>19. CASE RecoverDrain \/ RecoverWrites
  BY <1>19 DEF RecoverDrain, RecoverWrites
<1>20. CASE RecoverStop
  BY <1>20 DEF RecoverStop, Stopped
<1>21. CASE \E c \in Colours : Answering(c)
  BY <1>21 DEF Answering
<1>22. CASE \E c \in Colours : Stalls(c)
  BY <1>22 DEF Stalls
<1>23. CASE \E h \in Contested : OtherSlotTakes(h) \/ OtherSlotLeaves(h)
  BY <1>23 DEF OtherSlotTakes, OtherSlotLeaves, Taken
<1>24. CASE LoginReadsSlots \/ LoginReadsLease \/ Verify
  BY <1>24 DEF LoginReadsSlots, LoginReadsLease, Verify, Admits
<1>25. CASE UNCHANGED vars
  BY <1>25 DEF vars
<1> QED
  BY <1>1, <1>2, <1>3, <1>4, <1>5, <1>6, <1>7, <1>8, <1>9, <1>10, <1>11, <1>12, <1>13,
    <1>14, <1>15, <1>16, <1>17, <1>18, <1>19, <1>20, <1>21, <1>22, <1>23, <1>24, <1>25 DEF
    Next, Handler, Recovery, Failure

\* Where the edge is, at the steps that count visits.
EdgeKnown ==
    /\ st.phase \in {"running", "stopping"} => Edge = st.colour
    /\ pc \in {"baseline", "swapped"} => Edge = st.swapTarget

LEMMA EdgeFacts == Types /\ Control /\ Recorded /\ Serves => EdgeKnown
<1> SUFFICES ASSUME Types, Control, Recorded, Serves PROVE EdgeKnown
  OBVIOUS
<1>1. ASSUME st.phase \in {"running", "stopping"} PROVE Edge = st.colour
  BY <1>1, Absent DEF Types, RequestTypes, SlotTypes, Recorded, Serves, Live, Ready, Steady,
      Edge, Answers, Records, OrNone, Colours
<1>2. ASSUME pc \in {"baseline", "swapped"} PROVE Edge = st.swapTarget
  BY <1>2, Absent DEF Types, RequestTypes, SlotTypes, Control, Recorded, Serves, Moving,
      Live, Ready, Edge, Answers, Records, OrNone, Colours, Swapping, Building
<1> QED
  BY <1>1, <1>2 DEF EdgeKnown

\* Visits counted since the edge moved.
LEMMA TrafficNext ==
    ASSUME Types, Control, Recorded, Serves, Traffic, EdgeKnown, EdgeKnown',
           ~wobbled, ~wobbled', [Next]_vars
    PROVE  Traffic'
<1> USE Absent, RecordFacts, BoundsAssumption DEF Goto, Answer, Write, Event, Fault, Drain,
    Moved, NotMoved, NoteMove, Outside, Inside, disk, host, visitor, history, Types,
    RequestTypes, SlotTypes, OtherTypes, Control, Recorded, Serves, Live, Steady, Traffic,
    EdgeKnown, Answers, Records, Jobs, OrNone, Colours, Phases, Building, Swapping,
    Deploying, Clearing, Telling, Stopping
<1>1. CASE \E d \in Descriptors : ReconcileFresh(d)
  BY <1>1 DEF ReconcileFresh
<1>2. CASE \E d \in Descriptors : ReconcileSwap(d)
  BY <1>2 DEF ReconcileSwap
<1>3. CASE Stop \/ Reset
  BY <1>3 DEF Stop, Reset
<1>4. CASE SwapMark
  BY <1>4 DEF SwapMark
<1>5. CASE FreshDrain \/ Configure \/ SwapReady
  BY <1>5 DEF FreshDrain, Configure, SwapReady, Target
<1>6. CASE Start \/ StartTimesOut
  BY <1>6 DEF Start, StartTimesOut, Started, Target, Recoils
<1>7. CASE WriteEntry
  BY <1>7 DEF WriteEntry, Gate
<1>8. CASE ClearFlag
  BY <1>8 DEF ClearFlag, Target
<1>9. CASE WriteLease
  BY <1>9 DEF WriteLease, Kept
<1>10. CASE FreshDone
  BY <1>10 DEF FreshDone
<1>11. CASE SwapDone
  BY <1>11 DEF SwapDone
<1>12. CASE NeverReady \/ HostConflict \/ SwapRecheck \/ StepFails
  BY <1>12 DEF NeverReady, HostConflict, SwapRecheck, StepFails, Target, Recoils
<1>13. CASE SwapDrainLive \/ SwapBaseline
  BY <1>13 DEF SwapDrainLive, SwapBaseline
<1>14. CASE StopDone
  BY <1>14 DEF StopDone
<1>15. CASE StopOld \/ StopFails
  BY <1>15 DEF StopOld, StopFails, Stopped
<1>16. CASE Revoke \/ RevokeFails \/ Wipe \/ WipeFails \/ DrainBoth \/ Free
  BY <1>16 DEF Revoke, RevokeFails, Wipe, WipeFails, Wiped, Halted, DrainBoth, Free
<1>17. CASE Boot \/ Crash
  BY <1>17 DEF Boot, Crash
<1>18. CASE RecoverTarget \/ RecoverBoth \/ RecoverVerify \/ RecoverSource
  BY <1>18 DEF RecoverTarget, RecoverBoth, RecoverVerify, RecoverSource, Probe
<1>19. CASE RecoverDrain \/ RecoverWrites
  BY <1>19 DEF RecoverDrain, RecoverWrites
<1>20. CASE RecoverStop
  BY <1>20 DEF RecoverStop, Stopped
<1>21. CASE \E c \in Colours : Answering(c)
  BY <1>21 DEF Answering
<1>22. CASE \E c \in Colours : Stalls(c)
  BY <1>22 DEF Stalls
<1>23. CASE \E h \in Contested : OtherSlotTakes(h) \/ OtherSlotLeaves(h)
  BY <1>23 DEF OtherSlotTakes, OtherSlotLeaves, Taken
<1>24. CASE LoginReadsSlots \/ LoginReadsLease \/ Verify
  BY <1>24 DEF LoginReadsSlots, LoginReadsLease, Verify, Admits
<1>25. CASE UNCHANGED vars
  BY <1>25 DEF vars
<1> QED
  BY <1>1, <1>2, <1>3, <1>4, <1>5, <1>6, <1>7, <1>8, <1>9, <1>10, <1>11, <1>12, <1>13,
    <1>14, <1>15, <1>16, <1>17, <1>18, <1>19, <1>20, <1>21, <1>22, <1>23, <1>24, <1>25 DEF
    Next, Handler, Recovery, Failure

LEMMA NextInv ==
    ASSUME IInv, [Next]_vars
    PROVE  IInv'
<1>1. Types /\ Control /\ Recorded /\ Housed /\ Bound /\ OneSlotPerHost /\ Serving
  BY DEF IInv
<1>2. RequestTypes' /\ SlotTypes' /\ OtherTypes' /\ (wobbled => wobbled')
  BY <1>1, RequestTypesNext, SlotTypesNext, OtherTypesNext
<1>3. Types'
  BY <1>2 DEF Types
<1>4. Control' /\ Recorded' /\ Housed' /\ Bound'
  BY <1>1, ControlNext, RecordedNext, HousedNext, BoundNext
<1>5. OneSlotPerHost'
  BY <1>1, OneNext DEF Types
<1>6. Serving'
  <2> SUFFICES ASSUME ~wobbled' PROVE Serves' /\ Traffic'
    BY DEF Serving
  <2>1. ~wobbled /\ Serves /\ Traffic
    BY <1>1, <1>2 DEF Serving
  <2>2. Serves'
    BY <1>1, <2>1, LiveNext, SteadyNext, FreshNext, MovingNext DEF Serves
  <2>3. EdgeKnown /\ EdgeKnown'
    <3>1. EdgeKnown
      BY <1>1, <2>1, EdgeFacts
    <3>2. Types' /\ Control' /\ Recorded' /\ Serves' => EdgeKnown'
      BY EdgeFacts, PTL
    <3> QED
      BY <1>3, <1>4, <2>2, <3>1, <3>2
  <2> QED
    BY <1>1, <2>1, <2>2, <2>3, TrafficNext
<1> QED
  BY <1>3, <1>4, <1>5, <1>6 DEF IInv

LEMMA Invariant == Spec => []IInv
  BY InitInv, NextInv, PTL DEF Spec

--------------------------------------------------------------------------
(* The theorems.                                                           *)

\* Every variable keeps its type: above all a container that answers is one
\* that was started, and a lease on disk is one that was minted.
THEOREM TypeCorrect == Spec => []TypeOK
<1>1. IInv => TypeOK
  <2> SUFFICES ASSUME IInv PROVE TypeOK
    OBVIOUS
  <2>1. RequestTypes /\ SlotTypes /\ OtherTypes
    BY DEF IInv, Types
  <2>2. st \in [phase : {"free", "preparing", "running", "swapping", "stopping",
                          "resetting", "error"},
                colour : OrNone(Colours), descriptor : OrNone(Descriptors),
                lastHashId : OrNone(Hashes), swapTarget : OrNone(Colours),
                swapDescriptor : OrNone(Descriptors),
                trafficBaseline : OrNone(0 .. MaxVisits),
                oldColourStopped : BOOLEAN]
    BY <2>1 DEF RequestTypes, Records, Phases
  <2>3. lease = None \/ (lease.id \in 1 .. minted /\ lease.hash \in Hashes)
    BY <2>1 DEF SlotTypes, Leases, OrNone
  <2> QED
    BY <2>1, <2>2, <2>3 DEF SlotTypes, OtherTypes, Gates, TypeOK
<1> QED
  BY <1>1, Invariant, PTL

\* The edge has a colour to proxy to while the slot is running, swapping or
\* stopping, wherever the broker dies or a call fails, unless a container
\* stopped answering by itself (swapColours, recoverSwapInFlight, /stop).
THEOREM NeverDark == Spec => []KeepsServing
<1>1. IInv => KeepsServing
  <2> SUFFICES ASSUME IInv, st.phase \in {"running", "swapping", "stopping"}, ~wobbled
               PROVE  Edge # None
    BY DEF KeepsServing
  <2>1. Types /\ Control /\ Recorded /\ Serves
    BY DEF IInv, Serving
  <2>2. st.colour \in Colours /\ st.colour \in up
    BY <2>1 DEF Types, RequestTypes, Records, OrNone, Recorded, Serves, Live, Ready
  <2>3. CASE st.colour \notin drained
    BY <2>2, <2>3, Absent DEF Edge, Answers, Colours
  <2>4. CASE st.colour \in drained
    <3>1. st.phase = "swapping"
      BY <2>1, <2>4 DEF Serves, Steady
    <3>2. st.swapTarget \in Colours /\ st.swapTarget \notin drained /\ st.swapTarget \in up
      BY <2>1, <2>2, <2>4, <3>1, Absent DEF Recorded, Serves, Moving, Ready
    <3> QED
      BY <3>2, Absent DEF Edge, Answers, Colours
  <2> QED
    BY <2>3, <2>4
<1> QED
  BY <1>1, Invariant, PTL

\* A slot at rest that is recorded running is served by the recorded colour,
\* which runs the recorded descriptor: no swap, failed swap or recovery
\* leaves the flags and the record at odds.
THEOREM RecordIsServed == Spec => []EdgeFollowsRecord
<1>1. IInv => EdgeFollowsRecord
  <2> SUFFICES ASSUME IInv, st.phase = "running", ~wobbled
               PROVE  Edge = st.colour /\ run[Edge] = st.descriptor
    BY DEF EdgeFollowsRecord
  <2>1. Types /\ Control /\ Recorded /\ Serves
    BY DEF IInv, Serving
  <2>2. Edge = st.colour
    BY <2>1, EdgeFacts DEF EdgeKnown
  <2> QED
    BY <2>1, <2>2 DEF Serves, Live, Ready
<1> QED
  BY <1>1, Invariant, PTL

\* The old colour is stopped only after a visit that was counted since the
\* edge moved, also when recovery completes the stop.
THEOREM TrafficFirst == Spec => []StopAfterTraffic
<1>1. IInv => StopAfterTraffic
  BY DEF IInv, Serving, Traffic, StopAfterTraffic
<1> QED
  BY <1>1, Invariant, PTL

\* A cookie admits only to the site and under the passphrase it was issued
\* for, although a login reads two files at two times.
THEOREM CookieBound == Spec => []CookieOfThisTenancy
<1>1. IInv => CookieOfThisTenancy
  BY DEF IInv, Housed, Bound, Admits, CookieOfThisTenancy
<1> QED
  BY <1>1, Invariant, PTL

\* A slot recorded free has nothing left of its last tenancy.
THEOREM FreeKept == Spec => []FreeIsEmpty
<1>1. IInv => FreeIsEmpty
  BY DEF IInv, Housed, Empty, FreeIsEmpty
<1> QED
  BY <1>1, Invariant, PTL

\* No host is gated by two slots: the file's mutex makes up for the check
\* that is long past when the entry is written (upsertSlotEntry).
THEOREM OneHost == Spec => []OneSlotPerHost
<1>1. IInv => OneSlotPerHost
  BY DEF IInv
<1> QED
  BY <1>1, Invariant, PTL

\* What can happen to a lease record.
LEMMA LeaseSteps ==
    ASSUME IInv, [Next]_vars, lease # None, lease' # lease
    PROVE  st.phase = "resetting" \/ (lease' # None /\ lease'.hash # lease.hash)
<1> USE DEF Goto, Answer, Write, Event, Fault, Drain, Moved, NotMoved, NoteMove, Outside,
            Inside, disk, host, visitor, history
<1>1. CASE WriteLease
  <2>1. lease' = [id |-> minted', hash |-> Hash[job.descriptor]] /\ minted' = minted + 1 /\ ~Kept
    BY <1>1 DEF WriteLease
  <2>2. job.op = "swap" /\ job.descriptor \in Descriptors
    BY <1>1 DEF WriteLease, IInv, Types, RequestTypes, Jobs, OrNone, Control, Housed,
        Building, Swapping, Deploying
  <2>3. lease' # None
    BY <2>1, <2>2, Absent DEF IInv, Types, SlotTypes, Leases
  <2> QED
    BY <2>1, <2>2, <2>3 DEF Kept
<1>2. CASE Revoke \/ Boot
  BY <1>2 DEF Revoke, Boot, IInv, Control, Clearing
<1>3. CASE ~WriteLease /\ ~Revoke /\ ~Boot
  BY <1>3 DEF Next, Handler, Recovery, Failure, vars,
              ReconcileFresh, ReconcileSwap, Stop, Reset, SwapMark, FreshDrain, Start, Started,
              Configure, SwapReady, WriteEntry, ClearFlag, FreshDone, NeverReady, HostConflict,
              Recoils, SwapRecheck, SwapDrainLive, SwapBaseline, SwapDone, StopOld, StopDone,
              Wipe, DrainBoth, Free, RecoverTarget, RecoverBoth, RecoverVerify,
              RecoverSource, Probe, RecoverDrain, RecoverWrites, RecoverStop, StepFails,
              StartTimesOut, StopFails, RevokeFails, WipeFails, Crash, Answering, Stalls,
              OtherSlotTakes, OtherSlotLeaves, Taken, LoginReadsSlots, LoginReadsLease, Verify
<1> QED
  BY <1>1, <1>2, <1>3

\* Nobody is logged out but by a teardown or by a new passphrase.
THEOREM VisitorsStay == Spec => VisitorsKept
<1>1. IInv /\ [Next]_vars =>
        [lease # None /\ lease' # lease =>
            \/ st.phase = "resetting"
            \/ lease' # None /\ lease'.hash # lease.hash]_vars
  BY LeaseSteps
<1> QED
  BY <1>1, Invariant, PTL DEF Spec, VisitorsKept

\* How the site can change: it is built on an empty slot or wiped behind a
\* closed gate.
LEMMA SiteSteps ==
    ASSUME IInv, [Next]_vars
    PROVE  \/ UNCHANGED <<site, built>>
           \/ /\ site = None /\ built' = built + 1
              /\ \E h \in Hosts : site' = [host |-> h, number |-> built']
              /\ UNCHANGED <<entry, lease>>
           \/ /\ entry = None /\ site' = None
              /\ UNCHANGED <<built, entry, lease>>
<1> USE DEF Goto, Answer, Write, Event, Fault, Drain, Moved, NotMoved, NoteMove, Outside,
            Inside, disk, host, visitor, history
<1>1. CASE Start \/ StartTimesOut
  <2>1. Started /\ UNCHANGED <<entry, lease>>
    BY <1>1 DEF Start, StartTimesOut, Recoils
  <2>2. job.descriptor \in Descriptors
    BY <1>1 DEF Start, StartTimesOut, IInv, Types, RequestTypes, Jobs, OrNone, Control,
        Building, Swapping, Deploying
  <2> QED
    BY <2>1, <2>2, Absent DEF Started
<1>2. CASE Wipe \/ WipeFails
  <2>1. (Wiped \/ UNCHANGED <<site, built>>) /\ UNCHANGED <<entry, lease>>
    BY <1>2 DEF Wipe, WipeFails, Halted
  <2>2. entry = None
    BY <1>2 DEF Wipe, WipeFails, IInv, Housed
  <2> QED
    BY <2>1, <2>2 DEF Wiped
<1>3. CASE ~Start /\ ~StartTimesOut /\ ~Wipe /\ ~WipeFails
  BY <1>3 DEF Next, Handler, Recovery, Failure, vars,
              ReconcileFresh, ReconcileSwap, Stop, Reset, SwapMark, FreshDrain,
              Configure, SwapReady, WriteEntry, WriteLease, ClearFlag, FreshDone, NeverReady,
              HostConflict, SwapRecheck, SwapDrainLive, SwapBaseline, SwapDone, StopOld,
              StopDone, Stopped, Revoke, DrainBoth, Free, Boot, RecoverTarget, RecoverBoth,
              RecoverVerify, RecoverSource, Probe, RecoverDrain, RecoverWrites, RecoverStop,
              StepFails, StopFails, RevokeFails, Crash, Answering, Stalls, OtherSlotTakes,
              OtherSlotLeaves, Taken, LoginReadsSlots, LoginReadsLease, Verify
<1> QED
  BY <1>1, <1>2, <1>3

Door == IF Tied THEN GateHost ELSE None

\* An open gate is that of the site's host.
LEMMA DoorFacts == IInv => (Door # None => entry # None /\ site # None /\ Door = site.host)
  BY DEF Door, Tied, GateHost, IInv, Housed

\* The slot, with its colours, files, failures and recoveries, is a sequence
\* of tenancies: one site at a time, wiped behind a closed gate.
THEOREM OneTenancy == Spec => TenancySpec
<1>1. Init => Tenancy!Init
  BY DEF Init, Tied, Tenancy!Init
<1>2. IInv /\ IInv' /\ [Next]_vars => [Tenancy!Next]_(Tenancy!vars)
  <2> SUFFICES ASSUME IInv, IInv', [Next]_vars PROVE [Tenancy!Next]_(Tenancy!vars)
    OBVIOUS
  <2>1. /\ Door # None => entry # None /\ site # None /\ Door = site.host
        /\ Door' # None => entry' # None /\ site' # None /\ Door' = site'.host
    <3>1. (IInv => (Door # None => entry # None /\ site # None /\ Door = site.host))'
      BY DoorFacts, PTL
    <3> QED
      BY <3>1, DoorFacts
  <2>2. CASE UNCHANGED <<site, built>>
    BY <2>1, <2>2 DEF Door, Tenancy!Next, Tenancy!Open, Tenancy!Close, Tenancy!vars
  <2>3. CASE /\ site = None /\ built' = built + 1
             /\ \E h \in Hosts : site' = [host |-> h, number |-> built']
             /\ UNCHANGED <<entry, lease>>
    <3>1. entry = None
      BY <2>3 DEF IInv, Housed
    <3>2. Door = None /\ Door' = None
      BY <2>3, <3>1 DEF Door, Tied
    <3> QED
      BY <2>3, <3>2 DEF Door, Tenancy!Next, Tenancy!Build
  <2>4. CASE entry = None /\ site' = None /\ UNCHANGED <<built, entry, lease>>
    <3>1. Door = None /\ Door' = None
      BY <2>4 DEF Door, Tied
    <3> QED
      BY <2>4, <3>1 DEF Door, Tenancy!Next, Tenancy!Wipe, Tenancy!vars
  <2> QED
    BY <2>2, <2>3, <2>4, SiteSteps
<1> QED
  BY <1>1, <1>2, Invariant, PTL DEF Spec, TenancySpec, Tenancy!Spec

====
