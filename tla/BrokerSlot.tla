------------------------------ MODULE BrokerSlot ------------------------------
(***************************************************************************)
(* One demo slot: the broker that deploys into it, swaps its colours,      *)
(* stops the old one and recycles it (services/broker), what the edge      *)
(* makes of the drain flags (services/drain-sidecar), and the gate that    *)
(* lets visitors in by the two files the broker writes                     *)
(* (services/demo-gate).  The per-slot lock is pc: a request that finds it *)
(* taken is answered 409 before it reads anything.  The other slots share  *)
(* only the slots file, and are the hosts they hold in it.                 *)
(***************************************************************************)
EXTENDS Naturals, FiniteSets

CONSTANTS
    Descriptors,    \* what a reconcile may ask for
    Host,           \* the hostname of a descriptor
    Hash,           \* the passphrase hash of a descriptor
    Contested,      \* hosts another slot may be given
    None,           \* an absent value
    MaxEvents,      \* bound: requests to the broker, deaths of the broker,
                    \* failed calls and stalled containers, all together
    MaxVisits       \* bound: admitted requests the gate counts

ASSUME BoundsAssumption ==
    /\ MaxEvents \in Nat /\ MaxVisits \in Nat
ASSUME DescriptorAssumption ==
    /\ None \notin Descriptors
    /\ None \notin {Host[d] : d \in Descriptors}
    /\ None \notin {Hash[d] : d \in Descriptors}
    /\ Contested \subseteq {Host[d] : d \in Descriptors}
ASSUME NoneAssumption ==
    /\ None \notin Nat /\ None \notin {"a", "b"}
    /\ None \notin [host : {Host[d] : d \in Descriptors},
                    hash : {Hash[d] : d \in Descriptors}]
    /\ None \notin [id : Nat, hash : {Hash[d] : d \in Descriptors}]
    /\ None \notin [host : {Host[d] : d \in Descriptors}, number : Nat]
    /\ None \notin [lease : Nat, hash : {Hash[d] : d \in Descriptors}, site : Nat]

Hosts == {Host[d] : d \in Descriptors}
Hashes == {Hash[d] : d \in Descriptors}
Colours == {"a", "b"}
Gate(d) == [host |-> Host[d], hash |-> Hash[d]]
Other(c) == IF c = "a" THEN "b" ELSE "a"

VARIABLES
    \* On disk: the slot's state file, its entry in the slots file, its
    \* lease record, the colours whose drain flag exists, the counter.
    st, entry, lease, drained, count,
    \* On the host: the descriptor each colour's container runs, the
    \* containers that answer 200, and the site in the database both share.
    run, up, site,
    \* Hosts the other slots hold in the slots file.
    foreign,
    \* In the broker's memory: where the request that holds the lock is.
    pc, job,
    \* A visitor: the hash a login has read in the slots file, the cookie it got.
    login, cookie,
    \* Serial numbers of leases and sites, and what the bounds count.
    minted, built, used,
    \* History: the counter when the edge last changed colour, and whether a
    \* container has stopped answering by itself.
    movedAt, wobbled

disk == <<st, entry, lease, drained>>
host == <<run, up, site, built>>
visitor == <<login, cookie, count>>
history == <<movedAt, wobbled>>
vars == <<disk, host, visitor, history, foreign, pc, job, minted, used>>

-----------------------------------------------------------------------------
(* The edge and the gate.                                                  *)

\* The sidecar answers 200 for a colour that is not drained and whose Ghost
\* answers 200.
Answers(c) == c \notin drained /\ c \in up

\* The edge proxies to the first colour listed that answers.
Edge == IF Answers("a") THEN "a" ELSE IF Answers("b") THEN "b" ELSE None

\* The host the slot's entry gates.
GateHost == IF entry = None THEN None ELSE entry.host

\* The gate can be opened only by an entry and a lease record of one hash.
Tied == entry # None /\ lease # None /\ lease.hash = entry.hash

\* Remembers the counter when the edge changes to another colour.
NoteMove == movedAt' = IF Edge' # Edge /\ Edge' # None THEN count ELSE movedAt

-----------------------------------------------------------------------------
(* The state file.  A write replaces the whole record, so what it does not *)
(* name is gone; lastHashId is what every write carries on.                *)

Blank == [phase |-> "free", colour |-> None, descriptor |-> None,
          lastHashId |-> None, swapTarget |-> None, swapDescriptor |-> None,
          trafficBaseline |-> None, oldColourStopped |-> FALSE]

Bare(phase) == [Blank EXCEPT !.phase = phase, !.lastHashId = st.lastHashId]

Running(c, d, hash) ==
    [Blank EXCEPT !.phase = "running", !.colour = c, !.descriptor = d,
                  !.lastHashId = hash]

Idle == [op |-> None, descriptor |-> None, attempt |-> 0, baseline |-> None]

Init ==
    /\ st = Blank /\ entry = None /\ lease = None /\ drained = {} /\ count = 0
    /\ run = [c \in Colours |-> None] /\ up = {} /\ site = None
    /\ foreign = {}
    /\ pc = "idle" /\ job = Idle
    /\ login = None /\ cookie = None
    /\ minted = 0 /\ built = 0
    /\ used = [events |-> 0, faulty |-> FALSE]
    /\ movedAt = 0 /\ wobbled = FALSE

-----------------------------------------------------------------------------
(* Steps every handler is made of.                                         *)

Goto(at) == pc' = at /\ UNCHANGED job

\* The handler answers, and its finally releases the lock.
Answer == pc' = "idle" /\ job' = Idle

Write(record) == st' = record /\ UNCHANGED <<entry, lease, drained>>

Event == used.events < MaxEvents /\ used' = [used EXCEPT !.events = @ + 1]
Fault ==
    /\ used.events < MaxEvents
    /\ used' = [used EXCEPT !.events = @ + 1, !.faulty = TRUE]

Drain(cs) == drained' = drained \cup cs /\ UNCHANGED <<st, entry, lease>>

NotMoved == UNCHANGED history
Moved == NoteMove /\ UNCHANGED wobbled

\* What no step of the broker touches.
Outside == UNCHANGED <<visitor, foreign>>

-----------------------------------------------------------------------------
(* POST /reconcile.                                                        *)

\* A free slot, a rotated hash, a host no other slot holds: the fresh deploy
\* claims the slot on disk.  Every other answer but the swap changes nothing.
ReconcileFresh(d) ==
    /\ pc = "idle" /\ Event
    /\ st.phase = "free"
    /\ st.lastHashId # Hash[d]
    /\ Host[d] \notin foreign
    /\ Write(Bare("preparing"))
    /\ pc' = "drain"
    /\ job' = [Idle EXCEPT !.op = "fresh", !.descriptor = d, !.attempt = 1]
    /\ NotMoved /\ Outside /\ UNCHANGED <<host, minted>>

ReconcileSwapUndrained(d) ==
    /\ pc = "idle" /\ Event
    /\ st.phase = "running" /\ st.descriptor # d
    /\ Host[d] \notin foreign
    /\ GateHost = Host[d]
    /\ pc' = "mark"
    /\ job' = [Idle EXCEPT !.op = "swap", !.descriptor = d]
    /\ NotMoved /\ Outside /\ UNCHANGED <<disk, host, minted>>

ReconcileSwapAnyHost(d) ==
    /\ pc = "idle" /\ Event
    /\ st.phase = "running" /\ st.descriptor # d
    /\ Host[d] \notin foreign
    /\ Drain({Other(st.colour)})
    /\ pc' = "mark"
    /\ job' = [Idle EXCEPT !.op = "swap", !.descriptor = d]
    /\ Outside /\ UNCHANGED <<host, minted>> /\ Moved

\* A running slot and another descriptor for the same host: the swap drains
\* the colour it will build in before it writes its marker.
ReconcileSwap(d) ==
    /\ pc = "idle" /\ Event
    /\ st.phase = "running" /\ st.descriptor # d
    /\ Host[d] \notin foreign
    /\ GateHost = Host[d]
    /\ Drain({Other(st.colour)})
    /\ pc' = "mark"
    /\ job' = [Idle EXCEPT !.op = "swap", !.descriptor = d]
    /\ Outside /\ UNCHANGED <<host, minted>> /\ Moved

SwapMark ==
    /\ pc = "mark"
    /\ Write([Running(st.colour, st.descriptor, st.lastHashId) EXCEPT
                !.phase = "swapping",
                !.swapTarget = Other(st.colour),
                !.swapDescriptor = job.descriptor])
    /\ Goto("start")
    /\ NotMoved /\ Outside /\ UNCHANGED <<host, minted, used>>

\* The colour the request builds in: a fresh deploy always takes a.
Target == IF job.op = "swap" THEN st.swapTarget ELSE "a"

FreshDrain ==
    /\ pc = "drain"
    /\ Drain({"a"})
    /\ Goto("start")
    /\ Outside /\ UNCHANGED <<host, minted, used>> /\ Moved

\* The container comes to run the descriptor, also where the unit is active
\* already, as the broker's tests take the wrapper's start; it runs on whatever
\* database the slot has, and on a wiped one that is a new site.
Started ==
    /\ run' = [run EXCEPT ![Target] = job.descriptor]
    /\ up' = up \ {Target}
    /\ IF site = None
       THEN /\ built' = built + 1
            /\ site' = [host |-> Host[job.descriptor], number |-> built']
       ELSE UNCHANGED <<site, built>>

Start ==
    /\ pc = "start"
    /\ Started
    /\ Goto("configure")
    /\ Outside /\ UNCHANGED <<disk, minted, used>> /\ Moved

\* The Admin API of the new container is what is configured.
Configure ==
    /\ pc = "configure" /\ Target \in up
    /\ Goto(IF job.op = "swap" THEN "await" ELSE "entry")
    /\ NotMoved /\ Outside /\ UNCHANGED <<disk, host, minted, used>>

SwapReady ==
    /\ pc = "await" /\ Target \in up
    /\ Goto("entry")
    /\ NotMoved /\ Outside /\ UNCHANGED <<disk, host, minted, used>>

WriteEntryUnchecked ==
    /\ pc = "entry"
    /\ entry' = Gate(job.descriptor)
    /\ Goto("lease")
    /\ NotMoved /\ Outside
    /\ UNCHANGED <<st, lease, drained, host, minted, used>>

\* upsertSlotEntry: under the file's mutex, refused when another slot has
\* taken the host meanwhile.
WriteEntry ==
    /\ pc = "entry" /\ Host[job.descriptor] \notin foreign
    /\ entry' = Gate(job.descriptor)
    /\ Goto("lease")
    /\ NotMoved /\ Outside
    /\ UNCHANGED <<st, lease, drained, host, minted, used>>

KeptNever == FALSE

\* A swap keeps the lease that is tied to this very hash; all else mints one.
Kept == job.op = "swap" /\ lease # None /\ lease.hash = Hash[job.descriptor]

WriteLease ==
    /\ pc = "lease"
    /\ IF Kept
       THEN UNCHANGED <<lease, minted>>
       ELSE /\ minted' = minted + 1
            /\ lease' = [id |-> minted', hash |-> Hash[job.descriptor]]
    /\ Goto("clear")
    /\ NotMoved /\ Outside
    /\ UNCHANGED <<st, entry, drained, host, used>>

ClearFlag ==
    /\ pc = "clear"
    /\ drained' = drained \ {Target}
    /\ Goto(IF job.op = "fresh" THEN "done"
            ELSE IF Target = "b" THEN "recheck" ELSE "baseline")
    /\ Outside
    /\ UNCHANGED <<st, entry, lease, host, minted, used>> /\ Moved

FreshDone ==
    /\ pc = "done"
    /\ Write(Running("a", job.descriptor, Hash[job.descriptor]))
    /\ Answer
    /\ NotMoved /\ Outside /\ UNCHANGED <<host, minted, used>>

-----------------------------------------------------------------------------
(* A step of a reconcile that fails.                                       *)

\* The first failure of a fresh deploy resets the slot for one more attempt,
\* the second gives the slot up; a swap goes back to the colour that is live.
Recoils ==
    \/ /\ job.op = "fresh" /\ job.attempt = 1
       /\ Write(Bare("resetting"))
       /\ Goto("revoke")
    \/ /\ job.op = "fresh" /\ job.attempt = 2
       /\ Write(Bare("error"))
       /\ Answer
    \/ /\ job.op = "swap"
       /\ Write(Running(st.colour, st.descriptor, st.lastHashId))
       /\ Answer

StepFails ==
    /\ pc \in {"drain", "start", "configure", "entry", "lease", "clear"} /\ Fault
    /\ Recoils
    /\ NotMoved /\ Outside /\ UNCHANGED <<host, minted>>

\* The wrapper is given up after its timeout: the container has started.
StartTimesOut ==
    /\ pc = "start" /\ Fault
    /\ Started
    /\ Recoils
    /\ Outside /\ UNCHANGED minted /\ Moved

\* The container did not answer in time.
NeverReady ==
    /\ pc \in {"configure", "await"} /\ Target \notin up
    /\ Recoils
    /\ NotMoved /\ Outside /\ UNCHANGED <<host, minted, used>>

\* Another slot won the host: no second attempt, the slot is cleared.
HostConflict ==
    /\ pc = "entry" /\ job.op = "fresh" /\ Host[job.descriptor] \in foreign
    /\ IF job.attempt = 1
       THEN /\ Write(Bare("resetting"))
            /\ pc' = "revoke" /\ job' = [job EXCEPT !.op = "conflict"]
       ELSE Recoils
    /\ NotMoved /\ Outside /\ UNCHANGED <<host, minted, used>>

-----------------------------------------------------------------------------
(* The rest of a swap: moving the traffic.                                 *)

\* Before a is drained b must answer once more; if not, the swap is refused.
SwapRecheck ==
    /\ pc = "recheck"
    /\ IF "b" \in up
       THEN Goto("drainLive") /\ UNCHANGED disk
       ELSE Recoils
    /\ NotMoved /\ Outside /\ UNCHANGED <<host, minted, used>>

SwapDrainLive ==
    /\ pc = "drainLive"
    /\ Drain({st.colour})
    /\ Goto("baseline")
    /\ Outside /\ UNCHANGED <<host, minted, used>> /\ Moved

SwapBaselineUnread ==
    /\ pc = "baseline"
    /\ pc' = "swapped" /\ job' = [job EXCEPT !.baseline = 0]
    /\ NotMoved /\ Outside /\ UNCHANGED <<disk, host, minted, used>>

SwapBaseline ==
    /\ pc = "baseline"
    /\ pc' = "swapped" /\ job' = [job EXCEPT !.baseline = count]
    /\ NotMoved /\ Outside /\ UNCHANGED <<disk, host, minted, used>>

SwapDone ==
    /\ pc = "swapped"
    /\ Write([Running(st.swapTarget, job.descriptor, Hash[job.descriptor]) EXCEPT
                !.trafficBaseline = job.baseline])
    /\ Answer
    /\ NotMoved /\ Outside /\ UNCHANGED <<host, minted, used>>

-----------------------------------------------------------------------------
(* POST /stop: the old colour, once the new one has served a visitor.      *)

Stop ==
    /\ pc = "idle" /\ Event
    /\ st.phase = "running"
    /\ st.trafficBaseline # None /\ ~st.oldColourStopped
    /\ count > st.trafficBaseline
    /\ Answers(st.colour)
    /\ Write([st EXCEPT !.phase = "stopping"])
    /\ pc' = "stop" /\ job' = [Idle EXCEPT !.op = "stop"]
    /\ NotMoved /\ Outside /\ UNCHANGED <<host, minted>>

StoppedNamed ==
    /\ run' = [run EXCEPT ![st.colour] = None]
    /\ up' = up \ {st.colour}
    /\ UNCHANGED <<site, built>>

StoppedStillUp ==
    /\ run' = [run EXCEPT ![Other(st.colour)] = None]
    /\ UNCHANGED <<up, site, built>>

\* The container of the colour the record does not name.
Stopped ==
    /\ run' = [run EXCEPT ![Other(st.colour)] = None]
    /\ up' = up \ {Other(st.colour)}
    /\ UNCHANGED <<site, built>>

StopOld ==
    /\ pc = "stop"
    /\ Stopped
    /\ Goto("stopped")
    /\ Outside /\ UNCHANGED <<disk, minted, used>> /\ Moved

\* wrapper.stop rejects out of the handler: the slot stays stopping on disk.
StopFails ==
    /\ pc = "stop" /\ Fault
    /\ Stopped \/ UNCHANGED host
    /\ Answer
    /\ Outside /\ UNCHANGED <<disk, minted>> /\ Moved

StopDone ==
    /\ pc \in {"stopped", "recStopped"}
    /\ Write([st EXCEPT !.phase = "running", !.oldColourStopped = TRUE])
    /\ Answer
    /\ NotMoved /\ Outside /\ UNCHANGED <<host, minted, used>>

-----------------------------------------------------------------------------
(* POST /reset, and the teardown a failed reconcile shares with it.        *)

Reset ==
    /\ pc = "idle" /\ Event
    /\ Write(Bare("resetting"))
    /\ pc' = "revoke" /\ job' = [Idle EXCEPT !.op = "reset"]
    /\ NotMoved /\ Outside /\ UNCHANGED <<host, minted>>

Revoke ==
    /\ pc = "revoke"
    /\ entry' = None /\ lease' = None
    /\ Goto("wipe")
    /\ NotMoved /\ Outside
    /\ UNCHANGED <<st, drained, host, minted, used>>

\* clearLeaseAndHash throws.  In a reset nothing catches it.
RevokeFails ==
    /\ pc = "revoke" /\ Fault
    /\ entry' \in {entry, None}
    /\ st' = IF job.op = "reset" THEN st ELSE Bare("error")
    /\ Answer
    /\ NotMoved /\ Outside /\ UNCHANGED <<lease, drained, host, minted>>

\* wrapper.reset stops both containers and wipes the database they share.
Wiped ==
    /\ run' = [c \in Colours |-> None] /\ up' = {} /\ site' = None
    /\ UNCHANGED built

Wipe ==
    /\ pc = "wipe"
    /\ Wiped
    /\ Goto(IF job.op = "conflict" THEN "free" ELSE "drainBoth")
    /\ Outside /\ UNCHANGED <<disk, minted, used>> /\ Moved

\* A wipe that broke off between stopping the containers and the volumes.
Halted == run' = [c \in Colours |-> None] /\ up' = {} /\ UNCHANGED <<site, built>>

WipeFailsFree ==
    /\ pc = "wipe" /\ Fault
    /\ Wiped \/ Halted \/ UNCHANGED host
    /\ Write(Bare("free"))
    /\ Answer
    /\ Outside /\ UNCHANGED minted /\ Moved

WipeFails ==
    /\ pc = "wipe" /\ Fault
    /\ Wiped \/ Halted \/ UNCHANGED host
    /\ Write(Bare("error"))
    /\ Answer
    /\ Outside /\ UNCHANGED minted /\ Moved

DrainBoth ==
    /\ pc = "drainBoth"
    /\ Drain(Colours)
    /\ IF job.op = "reset"
       THEN Goto("free")
       ELSE pc' = "drain" /\ job' = [job EXCEPT !.attempt = 2]
    /\ Outside /\ UNCHANGED <<host, minted, used>> /\ Moved

Free ==
    /\ pc = "free"
    /\ Write(Bare("free"))
    /\ Answer
    /\ NotMoved /\ Outside /\ UNCHANGED <<host, minted, used>>

-----------------------------------------------------------------------------
(* The broker dies and starts again: recoverCrashedSlots runs before it    *)
(* listens, and may be cut short like anything else.  A death that finds no *)
(* request and no phase of a handler on disk changes nothing: left out.    *)

Crash ==
    /\ pc # "down" /\ Event
    /\ pc = "idle" => st.phase \in {"stopping", "resetting"}
    /\ pc' = "down" /\ job' = Idle
    /\ NotMoved /\ Outside /\ UNCHANGED <<disk, host, minted>>

BootLeavesSwaps ==
    /\ pc = "down"
    /\ CASE st.phase = "stopping" -> Goto("recStop") /\ UNCHANGED disk
         [] st.phase = "preparing" -> Write(Bare("error")) /\ Answer
         [] st.phase = "resetting" ->
              /\ entry' = None /\ lease' = None /\ st' = Bare("error")
              /\ UNCHANGED drained
              /\ Answer
         [] OTHER -> Answer /\ UNCHANGED disk
    /\ NotMoved /\ Outside /\ UNCHANGED <<host, minted, used>>

\* What the phase found on disk calls for.
Boot ==
    /\ pc = "down"
    /\ CASE st.phase = "swapping" -> Goto("recTarget") /\ UNCHANGED disk
         [] st.phase = "stopping" -> Goto("recStop") /\ UNCHANGED disk
         [] st.phase = "preparing" -> Write(Bare("error")) /\ Answer
         [] st.phase = "resetting" ->
              /\ entry' = None /\ lease' = None /\ st' = Bare("error")
              /\ UNCHANGED drained
              /\ Answer
         [] OTHER -> Answer /\ UNCHANGED disk
    /\ NotMoved /\ Outside /\ UNCHANGED <<host, minted, used>>

\* One probe of the recovery of a swap, and where its answer leads.  For a
\* the cleared flag moved the traffic; for b only the drained source did.
Probe(at, c, yes, no) ==
    /\ pc = at
    /\ Goto(IF Answers(c) THEN yes ELSE no)
    /\ NotMoved /\ Outside /\ UNCHANGED <<disk, host, minted, used>>

RecoverTarget ==
    Probe("recTarget", st.swapTarget,
          IF st.swapTarget = "a" THEN "recAdopt" ELSE "recBoth", "recSource")

RecoverBoth == Probe("recBoth", st.colour, "recVerify", "recAdopt")

RecoverVerify == Probe("recVerify", st.swapTarget, "recDrain", "recSource")

RecoverSource == Probe("recSource", st.colour, "recUndrain", "recError")

RecoverDrain ==
    /\ pc \in {"recDrain", "recUndrain"}
    /\ Drain({IF pc = "recDrain" THEN st.colour ELSE st.swapTarget})
    /\ Goto(IF pc = "recDrain" THEN "recAdopt" ELSE "recRevert")
    /\ Outside /\ UNCHANGED <<host, minted, used>> /\ Moved

RecoverWrites ==
    /\ \/ /\ pc = "recAdopt"
          /\ Write(Running(st.swapTarget, st.swapDescriptor, Hash[st.swapDescriptor]))
       \/ /\ pc = "recRevert"
          /\ Write(Running(st.colour, st.descriptor, st.lastHashId))
       \/ /\ pc = "recError"
          /\ Write(Bare("error"))
    /\ Answer
    /\ NotMoved /\ Outside /\ UNCHANGED <<host, minted, used>>

\* The stop is tried again only if the colour that stays answers now.
RecoverStop ==
    /\ pc = "recStop"
    /\ IF Answers(st.colour)
       THEN Stopped /\ Goto("recStopped") /\ UNCHANGED disk
       ELSE Write(Bare("error")) /\ Answer /\ UNCHANGED host
    /\ Outside /\ UNCHANGED <<minted, used>> /\ Moved

-----------------------------------------------------------------------------
(* The containers, the other slots and the visitors.                       *)

\* A started Ghost comes to answer; one that answers may cease to.
Answering(c) ==
    /\ run[c] # None /\ c \notin up
    /\ up' = up \cup {c}
    /\ Outside
    /\ UNCHANGED <<disk, run, site, built, pc, job, minted, used>> /\ Moved

Stalls(c) ==
    /\ c \in up /\ Fault
    /\ up' = up \ {c}
    /\ wobbled' = TRUE
    /\ Outside /\ UNCHANGED <<disk, run, site, built, pc, job, minted>>
    /\ NoteMove

Taken(hosts) ==
    /\ foreign' = hosts
    /\ NotMoved /\ UNCHANGED <<disk, host, visitor, pc, job, minted, used>>

OtherSlotTakes(h) ==
    /\ h \notin foreign /\ GateHost # h
    /\ Taken(foreign \cup {h})

OtherSlotLeaves(h) == h \in foreign /\ Taken(foreign \ {h})

\* What a visitor's step leaves alone.
Inside == NotMoved /\ UNCHANGED <<disk, host, foreign, pc, job, minted, used>>

\* login() reads the slots file, and the lease record a moment later; the
\* visitor knows the passphrase of the entry it was read from.
LoginReadsSlots ==
    /\ login = None /\ entry # None
    /\ login' = entry.hash
    /\ Inside /\ UNCHANGED <<cookie, count>>

LoginReadsLeaseUntied ==
    /\ login # None
    /\ login' = None
    /\ cookie' = IF lease # None
                 THEN [lease |-> lease.id, hash |-> login,
                       site |-> IF site = None THEN 0 ELSE site.number]
                 ELSE cookie
    /\ Inside /\ UNCHANGED count

LoginReadsLease ==
    /\ login # None
    /\ login' = None
    /\ cookie' = IF lease # None /\ lease.hash = login
                 THEN [lease |-> lease.id, hash |-> login,
                       site |-> IF site = None THEN 0 ELSE site.number]
                 ELSE cookie
    /\ Inside /\ UNCHANGED count

\* verify() admits by the lease on disk, then counts the request.
Admits == entry # None /\ cookie # None /\ lease # None /\ cookie.lease = lease.id

Verify ==
    /\ Admits /\ count < MaxVisits
    /\ count' = count + 1
    /\ Inside /\ UNCHANGED <<login, cookie>>

-----------------------------------------------------------------------------

Handler ==
    \/ SwapMark \/ FreshDrain \/ Start \/ Configure \/ SwapReady
    \/ WriteEntry \/ WriteLease \/ ClearFlag \/ FreshDone \/ NeverReady
    \/ HostConflict \/ SwapRecheck \/ SwapDrainLive \/ SwapBaseline
    \/ SwapDone \/ StopOld \/ StopDone \/ Revoke \/ Wipe \/ DrainBoth
    \/ Free

Recovery ==
    \/ Boot \/ RecoverTarget \/ RecoverBoth \/ RecoverVerify
    \/ RecoverSource \/ RecoverDrain \/ RecoverWrites \/ RecoverStop

Failure == StepFails \/ StartTimesOut \/ StopFails \/ RevokeFails \/ WipeFails

Next ==
    \/ \E d \in Descriptors : ReconcileFresh(d) \/ ReconcileSwap(d)
    \/ Stop \/ Reset
    \/ Handler \/ Recovery \/ Failure \/ Crash
    \/ \E c \in Colours : Answering(c) \/ Stalls(c)
    \/ \E h \in Contested : OtherSlotTakes(h) \/ OtherSlotLeaves(h)
    \/ LoginReadsSlots \/ LoginReadsLease \/ Verify

Spec == Init /\ [][Next]_vars

\* A handler that has begun goes on, and a dead broker is started again.
FairSpec == Spec /\ WF_vars(Handler \/ Recovery) /\ \A c \in Colours : WF_vars(Answering(c))

-----------------------------------------------------------------------------

OrNone(S) == S \cup {None}

\* Every variable keeps its type.
TypeOK ==
    /\ st \in [phase : {"free", "preparing", "running", "swapping", "stopping",
                         "resetting", "error"},
               colour : OrNone(Colours), descriptor : OrNone(Descriptors),
               lastHashId : OrNone(Hashes), swapTarget : OrNone(Colours),
               swapDescriptor : OrNone(Descriptors),
               trafficBaseline : OrNone(0 .. MaxVisits),
               oldColourStopped : BOOLEAN]
    /\ entry \in OrNone([host : Hosts, hash : Hashes])
    /\ lease = None \/ (lease.id \in 1 .. minted /\ lease.hash \in Hashes)
    /\ drained \subseteq Colours /\ up \subseteq Colours
    /\ run \in [Colours -> OrNone(Descriptors)]
    /\ \A c \in up : run[c] # None
    /\ foreign \subseteq Hosts
    /\ count \in 0 .. MaxVisits /\ movedAt \in 0 .. count

\* While a slot is running, swapping or stopping the edge has a colour to
\* proxy to, wherever the broker dies and whatever call of it fails, as long
\* as no container stops answering by itself ("no step may ever leave a
\* tenant with no colour serving", app.md).
KeepsServing ==
    st.phase \in {"running", "swapping", "stopping"} /\ ~wobbled => Edge # None

\* Once a slot is at rest and recorded running, the colour the edge prefers is
\* the recorded one and runs the recorded descriptor (recoverSwapInFlight has
\* to tell that from the flags).
EdgeFollowsRecord ==
    pc = "idle" /\ st.phase = "running" /\ ~wobbled
        => Edge = st.colour /\ run[Edge] = st.descriptor

\* A cookie admits only to the site it was issued for, and only while the
\* passphrase its holder knew is the one in force: a login that straddles a
\* recycle or a swap gets no cookie for the later tenancy.
CookieOfThisTenancy ==
    Admits => /\ site # None /\ cookie.site = site.number
              /\ cookie.hash = lease.hash

\* A slot recorded free has no site, no container, no entry and no lease left
\* of the tenancy before, on every path that ends there.
FreeIsEmpty ==
    st.phase = "free" =>
        /\ entry = None /\ lease = None /\ site = None
        /\ \A c \in Colours : run[c] = None

\* No host is gated by two slots, though the check that refuses it early and
\* the write it guards are apart.
OneSlotPerHost == GateHost \notin foreign

\* The old colour is stopped only when the gate has counted a request since
\* the edge moved to the new one, also by a stop that recovery completes.
StopAfterTraffic == st.oldColourStopped /\ ~wobbled => count > movedAt

\* Nobody is logged out but by a teardown or by a new passphrase: a swap to the
\* same hash, done, undone or cut short, leaves the lease as it is.
VisitorsKept ==
    [][lease # None /\ lease' # lease =>
          \/ st.phase = "resetting"
          \/ lease' # None /\ lease'.hash # lease.hash]_vars

\* The slot implements its tenancies: a site is built on a wiped database, the
\* gate opens onto the site of its own host, and only behind a closed gate is
\* a site wiped.
Tenancy == INSTANCE SlotTenancy WITH door <- IF Tied THEN GateHost ELSE None
TenancySpec == Tenancy!Spec

\* Every request is answered and every boot ends; without a failed call no
\* slot is left in a phase only a handler may hold.
Settles ==
    (pc # "idle") ~>
        /\ pc = "idle"
        /\ ~used.faulty => st.phase \in {"free", "running", "error"}

\* lastHashId is "hashIdOf() of the most recently active tenancy's hash"
\* (stateStore.ts), which is what the next recycle is compared with.
LastHashIsActive ==
    pc = "idle" /\ st.phase = "running" => st.lastHashId = entry.hash
=============================================================================
