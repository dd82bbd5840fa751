---- MODULE HoldRegistry ----
(***************************************************************************)
(* The quarantine of one content (one digest) and the registries that hold *)
(* uploads of it: adapters/scanning-storage (scanning-storage.js, hold.js, *)
(* quarantine.js).  Ghost builds one decorator, hence one registry, per    *)
(* storage feature (an owner); all of them live in one process and share   *)
(* one quarantine directory.  JavaScript runs to the next await without    *)
(* being interrupted, so a step below is the code between two awaits.      *)
(* What is on disk survives a crash; pc, reg and stuck do not.  An upload  *)
(* stands for the path it was promised, too.                               *)
(***************************************************************************)
EXTENDS Integers, FiniteSets

CONSTANTS Uploads,      \* saves of this content that reach the decorator
          Owners,       \* the registries (one per storage feature)
          OwnerOf,      \* the registry each upload belongs to
          MaxFailures,  \* maxConsecutiveFailures of a retry loop
          MaxCrashes    \* bound: crashes of the Ghost process

ASSUME HoldAssumption ==
    /\ OwnerOf \in [Uploads -> Owners]
    /\ MaxFailures \in Nat \ {0}
    /\ MaxCrashes \in Nat

VARIABLES bytes,      \* what is stored under the digest: none, good or bad
          old,        \* those bytes are older than the orphan sweep's minimum
          aside,      \* a copy left under the .releasing. name
          refused,    \* the refusal record exists
          sidecar,    \* the hold sidecar: targets and stuck marks per owner
          served,     \* held uploads whose path a promotion has written
          up,         \* the process runs
          pc,         \* where each save stands
          held,       \* uploads whose caller was told they are held
          reg,        \* each registry's entry: its retry loop
          stuck,      \* registries whose in-memory map says stuck
          crashes, rotted,
          overlapped  \* two holds of one owner were both past the second join

disk == <<bytes, old, aside, refused, sidecar>>
ghost == <<crashes, rotted, overlapped>>
vars == <<bytes, old, aside, refused, sidecar, served, up, pc, held,
          reg, stuck, crashes, rotted, overlapped>>

Contents == {"none", "good", "bad"}

NoEntry == [at |-> "none", holds |-> {}, done |-> {}, cur |-> {}, fails |-> 0]

\* The entry of a registry that waits for its next retry.
Waiting(holds, fails) ==
    [at |-> "waiting", holds |-> holds, done |-> {}, cur |-> {}, fails |-> fails]

NoSidecar == [targets |-> [o \in Owners |-> {}], stuck |-> {}]

HasSidecar(s) == s # NoSidecar

Init ==
    /\ bytes = "none" /\ old = FALSE /\ aside = "none" /\ refused = FALSE
    /\ sidecar = NoSidecar
    /\ served = {}
    /\ up = TRUE
    /\ pc = [u \in Uploads |-> "idle"]
    /\ held = {}
    /\ reg = [o \in Owners |-> NoEntry]
    /\ stuck = {}
    /\ crashes = 0 /\ rotted = FALSE /\ overlapped = FALSE

--------------------------------------------------------------------------
(* One save: the scan, and the hold a pending verdict asks for.            *)

Goes(u, to) == pc' = [pc EXCEPT ![u] = to]

\* The caller is told: that the upload is held, or anything else.
Told(u, what) ==
    /\ Goes(u, "done")
    /\ held' = (IF what = "held" THEN held \cup {u} ELSE held)

\* The registry writes its own list of targets, and no other owner's.
WriteOwnTargets(o, targets) ==
    sidecar' = [sidecar EXCEPT !.targets[o] = targets]

\* A save begins: a digest any feature has refused stays refused.
Scan(u) ==
    /\ up /\ pc[u] = "idle"
    /\ Goes(u, IF refused THEN "sealBytes" ELSE "evaluate")
    /\ UNCHANGED <<disk, served, up, held, reg, stuck, ghost>>

\* A clean verdict: the record is looked up again, as another feature may
\* have sealed the digest while the verdict was in flight.
ScanAllows(u) ==
    /\ up /\ pc[u] = "evaluate"
    /\ Goes(u, IF refused THEN "sealBytes" ELSE "write")
    /\ UNCHANGED <<disk, served, up, held, reg, stuck, ghost>>

ScanRefuses(u) ==
    /\ up /\ pc[u] = "evaluate"
    /\ Goes(u, IF refused THEN "sealBytes" ELSE "sealRecord")
    /\ UNCHANGED <<disk, served, up, held, reg, stuck, ghost>>

\* Joining an entry: the hold is added to it and the whole list is written.
Join(u) ==
    LET o == OwnerOf[u]  joined == reg[o].holds \cup {u}
    IN  /\ reg[o].at # "none"
        /\ reg' = [reg EXCEPT ![o].holds = joined]
        /\ WriteOwnTargets(o, joined)
        /\ Told(u, "held")
        /\ UNCHANGED <<bytes, old, aside, refused, stuck, overlapped>>

\* No verdict yet: join the digest's entry, or begin a hold.
ScanHolds(u) ==
    /\ up /\ pc[u] = "evaluate"
    /\ \/ Join(u)
       \/ /\ reg[OwnerOf[u]].at = "none"
          /\ Goes(u, "match")
          /\ UNCHANGED <<disk, held, reg, stuck, overlapped>>
    /\ UNCHANGED <<served, up, crashes, rotted>>

\* The write of a save the verdict allowed ends, and its caller is answered.
WriteEnds(u) ==
    /\ up /\ pc[u] = "write"
    /\ Told(u, "stored or error")
    /\ UNCHANGED <<disk, served, up, reg, stuck, ghost>>

\* Sealing, first the record, then the bytes it names.
SealRecord(u) ==
    /\ up /\ pc[u] = "sealRecord"
    /\ refused' = TRUE
    /\ Goes(u, "sealBytes")
    /\ UNCHANGED <<bytes, old, aside, sidecar, served, up, held, reg,
                   stuck, ghost>>

SealBytes(u) ==
    /\ up /\ pc[u] = "sealBytes"
    /\ bytes' = "good"
    /\ old' = (IF bytes = "good" THEN old ELSE FALSE)
    /\ Told(u, "refused")
    /\ UNCHANGED <<aside, refused, sidecar, served, up, reg, stuck, ghost>>

\* quarantinedBytesMatch(): the bytes on disk are read.  What was read is
\* acted on in a later step.
Match(u) ==
    /\ up /\ pc[u] = "match"
    /\ Goes(u, IF bytes = "good" THEN "second" ELSE "quarantine")
    /\ UNCHANGED <<disk, served, up, held, reg, stuck, ghost>>

\* quarantineBytes(): the bytes in hand replace what is there.
Quarantine(u) ==
    /\ up /\ pc[u] \in {"quarantine", "rewrite"}
    /\ bytes' = "good" /\ old' = FALSE
    /\ Goes(u, IF pc[u] = "rewrite" THEN "register" ELSE "second")
    /\ UNCHANGED <<aside, refused, sidecar, served, up, held, reg,
                   stuck, ghost>>

Unregistered(v) == pc[v] \in {"reconfirm", "rewrite", "register"}

\* The second join.  Without an entry the hold names its target on disk; in
\* a registry that gave up on the digest, next to those already there.
Second(u) ==
    LET o == OwnerOf[u]
    IN  /\ up /\ pc[u] = "second"
        /\ \/ Join(u)
           \/ /\ reg[o].at = "none" /\ o \in stuck
              /\ WriteOwnTargets(o, sidecar.targets[o] \cup {u})
              /\ Goes(u, "reconfirmStuck")
              /\ UNCHANGED <<bytes, old, aside, refused, held, reg, stuck, overlapped>>
           \/ /\ reg[o].at = "none" /\ o \notin stuck
              /\ WriteOwnTargets(o, {u})
              /\ Goes(u, "reconfirm")
              /\ overlapped' = (overlapped \/ \E v \in Uploads :
                                    OwnerOf[v] = o /\ Unregistered(v))
              /\ UNCHANGED <<bytes, old, aside, refused, held, reg, stuck>>
        /\ UNCHANGED <<served, up, crashes, rotted>>

ReconfirmNothing(u) ==
    /\ up /\ pc[u] = "reconfirm"
    /\ Goes(u, "register")
    /\ UNCHANGED <<disk, served, up, held, reg, stuck, ghost>>

\* With the sidecar in place no sweep takes the bytes; those a sweep took
\* before that are put back.
Reconfirm(u) ==
    /\ up /\ pc[u] = "reconfirm"
    /\ Goes(u, IF bytes = "good" THEN "register" ELSE "rewrite")
    /\ UNCHANGED <<disk, served, up, held, reg, stuck, ghost>>

ReconfirmStuck(u) ==
    /\ up /\ pc[u] = "reconfirmStuck"
    /\ bytes' = "good"
    /\ old' = (IF bytes = "good" THEN old ELSE FALSE)
    /\ Told(u, "held")
    /\ UNCHANGED <<aside, refused, sidecar, served, up, reg, stuck, ghost>>

\* The hold joins an entry that appeared meanwhile, or becomes the entry.
Register(u) ==
    LET o == OwnerOf[u]
    IN  /\ up /\ pc[u] = "register"
        /\ \/ Join(u)
           \/ /\ reg[o].at = "none"
              /\ reg' = [reg EXCEPT ![o] = Waiting({u}, 0)]
              /\ Told(u, "held")
              /\ UNCHANGED <<disk, stuck, overlapped>>
        /\ UNCHANGED <<served, up, crashes, rotted>>

\* A file cannot be written: the caller gets the error.
SaveFails(u) ==
    /\ up
    /\ \/ pc[u] \in {"sealRecord", "sealBytes", "quarantine", "rewrite"}
       \/ pc[u] = "second" /\ reg[OwnerOf[u]].at = "none"
    /\ Told(u, "error")
    /\ UNCHANGED <<disk, served, up, reg, stuck, ghost>>

--------------------------------------------------------------------------
(* The retry loop of one registry.                                         *)

ReleaseUnchecked == bytes' = "none"

\* releaseBytes(): moved aside, put back if a record names them by then.
ReleaseBytes == bytes' = IF refused THEN bytes ELSE "none"

Remaining(o) == [targets |-> [sidecar.targets EXCEPT ![o] = {}],
                 stuck |-> sidecar.stuck \ {o}]

OthersWait(o) == \E p \in Owners \ {o} : sidecar.targets[p] # {}

\* #forget and #release: only the last owner takes the sidecar away, and
\* for a promotion the bytes.
Release(o, keepBytes) ==
    /\ reg' = [reg EXCEPT ![o] = NoEntry]
    /\ IF OthersWait(o)
       THEN sidecar' = Remaining(o) /\ bytes' = bytes
       ELSE /\ sidecar' = NoSidecar
            /\ IF keepBytes THEN bytes' = bytes ELSE ReleaseBytes
    /\ old' = (old /\ bytes' # "none")
    /\ UNCHANGED <<aside, refused, stuck>>

AdvanceUnchecked(o, done) ==
    LET todo == reg[o].holds \ done
    IN  \/ /\ todo = {}
           /\ Release(o, FALSE)
        \/ \E t \in todo :
              /\ reg' = [reg EXCEPT ![o].at = "writing", ![o].done = done,
                                   ![o].cur = {t}]
              /\ UNCHANGED <<disk, stuck>>

\* The promotion loop, after the targets in `done`: the record is looked up
\* before every write, as another owner can seal while one is awaited.
Advance(o, done) ==
    LET todo == reg[o].holds \ done
    IN  \/ /\ todo = {}
           /\ Release(o, FALSE)
        \/ /\ todo # {} /\ refused
           /\ Release(o, TRUE)
        \/ /\ ~refused
           /\ \E t \in todo :
                 reg' = [reg EXCEPT ![o].at = "writing", ![o].done = done,
                                    ![o].cur = {t}]
           /\ UNCHANGED <<disk, stuck>>


\* #markStuck: the entry goes, the mark stays, in memory and in the sidecar.
MarkStuck(o) ==
    /\ reg' = [reg EXCEPT ![o] = NoEntry]
    /\ stuck' = stuck \cup {o}
    /\ sidecar' = [sidecar EXCEPT !.stuck = @ \cup {o}]
    /\ UNCHANGED <<bytes, old, aside, refused>>

RetryFailsOnceMore(o) ==
    IF reg[o].fails + 1 > MaxFailures
    THEN MarkStuck(o)
    ELSE /\ reg' = [reg EXCEPT ![o] = Waiting(@.holds, @.fails + 1)]
         /\ UNCHANGED <<disk, stuck>>

\* #onRetryFailure: back off and try again, a bounded number of times.
RetryFails(o) ==
    IF reg[o].fails + 1 >= MaxFailures
    THEN MarkStuck(o)
    ELSE /\ reg' = [reg EXCEPT ![o] = Waiting(@.holds, @.fails + 1)]
         /\ UNCHANGED <<disk, stuck>>

\* The timer fires.
Retry(o) ==
    /\ up /\ reg[o].at = "waiting"
    /\ \/ /\ refused
          /\ Release(o, TRUE)
       \/ /\ ~refused
          /\ reg' = [reg EXCEPT ![o].at = "read"]
          /\ UNCHANGED <<disk, stuck>>
    /\ UNCHANGED <<served, up, pc, held, ghost>>

\* The bytes are read back: bytes that do not hash to their name are never
\* judged.
ReadBack(o) ==
    /\ up /\ reg[o].at = "read"
    /\ \/ bytes = "none" /\ RetryFails(o)
       \/ bytes = "bad" /\ MarkStuck(o)
       \/ /\ bytes = "good"
          /\ reg' = [reg EXCEPT ![o].at = "evaluate"]
          /\ UNCHANGED <<disk, stuck>>
    /\ UNCHANGED <<served, up, pc, held, ghost>>

\* Still no verdict: back off the interval, never the lifetime.
StillPending(o) ==
    /\ up /\ reg[o].at = "evaluate"
    /\ reg' = [reg EXCEPT ![o] = Waiting(@.holds, 0)]
    /\ UNCHANGED <<disk, served, up, pc, held, stuck, ghost>>

RetryAllows(o) ==
    /\ up /\ reg[o].at = "evaluate"
    /\ Advance(o, {})
    /\ UNCHANGED <<served, up, pc, held, ghost>>

RetryRefuses(o) ==
    /\ up /\ reg[o].at = "evaluate"
    /\ reg' = [reg EXCEPT ![o].at = IF refused THEN "sealBytes" ELSE "sealRecord"]
    /\ UNCHANGED <<disk, served, up, pc, held, stuck, ghost>>

RetrySealsRecord(o) ==
    /\ up /\ reg[o].at = "sealRecord"
    /\ refused' = TRUE
    /\ reg' = [reg EXCEPT ![o].at = "sealBytes"]
    /\ UNCHANGED <<bytes, old, aside, sidecar, served, up, pc, held,
                   stuck, ghost>>

\* The bytes in hand replace what does not match; then the entry resolves
\* as refused, the bytes staying.
RetrySealsBytes(o) ==
    /\ up /\ reg[o].at = "sealBytes"
    /\ reg' = [reg EXCEPT ![o] = NoEntry]
    /\ sidecar' = (IF OthersWait(o) THEN Remaining(o) ELSE NoSidecar)
    /\ bytes' = "good"
    /\ old' = (IF bytes = "good" THEN old ELSE FALSE)
    /\ UNCHANGED <<aside, refused, served, up, pc, held, stuck, ghost>>

\* The bytes cannot be read, or the seal cannot be written.
RetryBreaks(o) ==
    /\ up /\ reg[o].at \in {"read", "sealRecord", "sealBytes"}
    /\ RetryFails(o)
    /\ UNCHANGED <<served, up, pc, held, ghost>>

\* A promotion's write lands, and the loop goes on.
PromoteLands(o) ==
    /\ up /\ reg[o].at = "writing"
    /\ served' = served \cup reg[o].cur
    /\ Advance(o, reg[o].done \cup reg[o].cur)
    /\ UNCHANGED <<up, pc, held, ghost>>

\* It rejects, or runs out of time and lands all the same.
PromoteFails(o) ==
    /\ up /\ reg[o].at = "writing"
    /\ RetryFails(o)
    /\ served' \in {served, served \cup reg[o].cur}
    /\ UNCHANGED <<up, pc, held, ghost>>

--------------------------------------------------------------------------
(* Sweeps, time, and the death of the process.                             *)

YoungOrphaned == bytes # "none" /\ ~old /\ ~refused /\ ~HasSidecar(sidecar)

Orphaned == bytes # "none" /\ old /\ ~refused /\ ~HasSidecar(sidecar)

\* The orphan sweep: old bytes that neither a sidecar nor a record names.
Sweep ==
    /\ up /\ Orphaned
    /\ bytes' = "none" /\ old' = FALSE
    /\ UNCHANGED <<aside, refused, sidecar, served, up, pc, held, reg,
                   stuck, ghost>>

Age ==
    /\ bytes # "none" /\ ~old
    /\ old' = TRUE
    /\ UNCHANGED <<bytes, aside, refused, sidecar, served, up, pc,
                   held, reg, stuck, ghost>>

\* The disk loses the content of the file (at most once).
Rot ==
    /\ bytes = "good" /\ ~rotted
    /\ bytes' = "bad" /\ rotted' = TRUE
    /\ UNCHANGED <<old, aside, refused, sidecar, served, up, pc, held,
                   reg, stuck, crashes, overlapped>>

Promoting == UNION {reg[o].cur : o \in Owners}

InFlight == Promoting \cup {u \in Uploads : pc[u] = "write"}

\* What dies with the process.
Dies ==
    /\ up' = FALSE
    /\ crashes' = crashes + 1
    /\ pc' = [u \in Uploads |-> IF pc[u] = "idle" THEN "idle" ELSE "done"]
    /\ reg' = [o \in Owners |-> NoEntry]
    /\ stuck' = {}
    /\ UNCHANGED <<refused, sidecar, held, rotted, overlapped>>

\* A write under way may land without it.
Crash ==
    /\ up /\ crashes < MaxCrashes
    /\ Dies
    /\ \E landed \in SUBSET Promoting : served' = served \cup landed
    /\ UNCHANGED <<bytes, old, aside>>

\* The process dies inside the release that follows the last write: with
\* the bytes moved aside, or removed, and the sidecar still there.
CrashReleasing(o) ==
    /\ up /\ crashes < MaxCrashes
    /\ reg[o].at = "writing" /\ reg[o].holds = reg[o].done \cup reg[o].cur
    /\ ~OthersWait(o) /\ bytes # "none"
    /\ served' = served \cup reg[o].cur
    /\ bytes' = "none" /\ old' = FALSE
    /\ \/ aside' = bytes
       \/ ~refused /\ aside' = aside
    /\ Dies

\* sweepReleasing(): an aside copy is the bytes again when a record names
\* them and nothing better is there; otherwise it goes.
Restored == IF refused /\ aside # "none" /\ bytes # "good" THEN aside ELSE bytes

ResumedStuck(o, found) ==
    IF found # "none" /\ sidecar.targets[o] # {}
    THEN Waiting(sidecar.targets[o], 0)
    ELSE NoEntry

\* Restart: both sweeps, then each registry takes up its own targets unless
\* it had given up on the digest.
Resumed(o, found) ==
    IF found # "none" /\ sidecar.targets[o] # {} /\ o \notin sidecar.stuck
    THEN Waiting(sidecar.targets[o], 0)
    ELSE NoEntry

Boot ==
    LET found == IF Orphaned THEN "none" ELSE Restored
    IN  /\ ~up
        /\ up' = TRUE
        /\ bytes' = found /\ aside' = "none"
        /\ old' = (old /\ found # "none")
        /\ reg' = [o \in Owners |-> Resumed(o, found)]
        /\ stuck' = {o \in sidecar.stuck : found # "none" /\ sidecar.targets[o] # {}}
        /\ UNCHANGED <<refused, sidecar, served, pc, held, ghost>>

--------------------------------------------------------------------------
SaveStep(u) ==
    \/ ScanAllows(u) \/ ScanRefuses(u) \/ ScanHolds(u) \/ WriteEnds(u)
    \/ SealRecord(u) \/ SealBytes(u) \/ Match(u) \/ Quarantine(u) \/ Second(u)
    \/ Reconfirm(u) \/ ReconfirmStuck(u) \/ Register(u)

Judged(o) == RetryAllows(o) \/ RetryRefuses(o)

LoopStep(o) ==
    \/ Retry(o) \/ ReadBack(o) \/ RetrySealsRecord(o) \/ RetrySealsBytes(o)
    \/ PromoteLands(o) \/ PromoteFails(o)

Upkeep == Boot \/ Age \/ Sweep

Next ==
    \/ \E u \in Uploads : Scan(u) \/ SaveStep(u) \/ SaveFails(u)
    \/ \E o \in Owners : LoopStep(o) \/ Judged(o) \/ StillPending(o)
                        \/ RetryBreaks(o) \/ CrashReleasing(o)
    \/ Upkeep \/ Rot \/ Crash

Spec == Init /\ [][Next]_vars

\* Timers fire, awaits end, the process is restarted, and from some time on
\* the checks answer.
Fairness ==
    /\ \A o \in Owners : WF_vars(LoopStep(o) \/ Judged(o))
    /\ <>[][\A o \in Owners : ~StillPending(o)]_vars
    /\ WF_vars(Upkeep)

FairSpec == Spec /\ Fairness

--------------------------------------------------------------------------
(* Properties.                                                             *)

\* Every variable stays in its set; a retry loop gives up on its
\* MaxFailures-th failure in a row, so the count it carries is below that
\* (#onRetryFailure).
TypeOK ==
    /\ bytes \in Contents /\ aside \in Contents
    /\ old \in BOOLEAN /\ refused \in BOOLEAN /\ up \in BOOLEAN
    /\ rotted \in BOOLEAN /\ overlapped \in BOOLEAN
    /\ sidecar \in [targets : [Owners -> SUBSET Uploads], stuck : SUBSET Owners]
    /\ served \subseteq Uploads
    /\ pc \in [Uploads -> {"idle", "evaluate", "write", "sealRecord", "sealBytes",
                            "match", "quarantine", "second", "reconfirm", "rewrite",
                            "reconfirmStuck", "register", "done"}]
    /\ held \subseteq Uploads
    /\ reg \in [Owners -> [at : {"none", "waiting", "read", "evaluate", "sealRecord",
                                  "sealBytes", "writing"},
                            holds : SUBSET Uploads, done : SUBSET Uploads,
                            cur : SUBSET Uploads, fails : 0 .. MaxFailures - 1]]
    /\ stuck \subseteq Owners
    /\ crashes \in 0 .. MaxCrashes

\* An upload whose caller was told it is held, and that is neither promoted
\* nor refused, is named in the sidecar by its own registry and has bytes
\* behind it: through sweeps, releases by other owners, failed promotions
\* and crashes at any point.  Excepted are two holds of one owner that
\* overlap after the second join: each writes a list of one.
HeldNotLost ==
    ~overlapped =>
        \A u \in Uploads :
            u \in held /\ u \notin served /\ ~refused =>
                u \in sidecar.targets[OwnerOf[u]] /\ bytes # "none"

\* A registry that gave up on the digest runs no retry loop for it, in this
\* process or in one started later, whatever is uploaded meanwhile (#markStuck,
\* resumeFromQuarantine).
StuckStaysStuck ==
    ~overlapped => \A o \in sidecar.stuck : reg[o].at = "none"

\* Once any feature has sealed the digest no save and no promotion begins a
\* write of it, although every one of them looked before it began to wait
\* for a verdict or for a backend.
NoWriteAfterSeal == [][InFlight' \ InFlight # {} => ~refused]_vars

Evidence == bytes # "none" \/ aside # "none"

\* The bytes a refusal record names are never removed, neither by a registry
\* that releases them after its own promotion nor by a sweep, nor by a
\* crash inside a release (releaseBytes, sweepReleasing).
EvidenceKept == [][refused /\ Evidence => Evidence']_vars

Settled(u) == u \in served \/ refused \/ OwnerOf[u] \in sidecar.stuck


\* Bytes that a crash or a failed hold left without a sidecar do not stay
\* (sweepOrphans).
OrphansGo == []<>(bytes = "none" \/ refused \/ HasSidecar(sidecar))

====
