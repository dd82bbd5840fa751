---- MODULE HoldRegistry_proofs ----
(***************************************************************************)
(* Proofs about HoldRegistry, for any uploads, any owners, any number of   *)
(* failures before a hold is stuck and any number of crashes.  Four        *)
(* registries' worth of state meet in one sidecar and one file of bytes:   *)
(* the invariant says of each registry what the others rely on when they   *)
(* remove either of them.                                                  *)
(***************************************************************************)
EXTENDS HoldRegistry, TLAPS

--------------------------------------------------------------------------
(* The invariant.                                                          *)

PcSet == {"idle", "evaluate", "write", "sealRecord", "sealBytes", "match", "quarantine",
          "second", "reconfirm", "rewrite", "reconfirmStuck", "register", "done"}

Entries == [at : {"none", "waiting", "read", "evaluate", "sealRecord", "sealBytes", "writing"},
            holds : SUBSET Uploads, done : SUBSET Uploads, cur : SUBSET Uploads,
            fails : 0 .. MaxFailures - 1]

Sidecars == [targets : [Owners -> SUBSET Uploads], stuck : SUBSET Owners]

\* TypeOK, with names for its larger sets.
Types ==
    /\ bytes \in Contents /\ aside \in Contents
    /\ old \in BOOLEAN /\ refused \in BOOLEAN /\ up \in BOOLEAN
    /\ rotted \in BOOLEAN /\ overlapped \in BOOLEAN
    /\ sidecar \in Sidecars
    /\ served \subseteq Uploads /\ held \subseteq Uploads
    /\ pc \in [Uploads -> PcSet]
    /\ reg \in [Owners -> Entries]
    /\ stuck \subseteq Owners
    /\ crashes \in 0 .. MaxCrashes

\* Nothing of a dead process is left in memory.
Down ==
    ~up => /\ \A o \in Owners : reg[o] = NoEntry
           /\ \A u \in Uploads : pc[u] \in {"idle", "done"}
           /\ stuck = {}

\* A retry writes the bytes of a refusal only after its record.
RecordFirst == \A o \in Owners : reg[o].at = "sealBytes" => refused

\* What a promotion counts as done it has written.
DoneServed == \A o \in Owners : reg[o].done \subseteq served

\* An entry has its targets in the sidecar, and bytes.
EntryBacked(o) ==
    reg[o].at # "none" => /\ reg[o].holds # {}
                          /\ reg[o].holds \subseteq sidecar.targets[o]
                          /\ o \notin stuck
                          /\ bytes # "none"

\* A mark is the same in memory and on disk, and keeps its targets and bytes.
MarkBacked ==
    /\ up => sidecar.stuck = stuck
    /\ \A o \in sidecar.stuck : sidecar.targets[o] # {} /\ bytes # "none"

\* A hold that has written its target and is not yet an entry.
Alone(u) ==
    /\ Unregistered(u) => /\ reg[OwnerOf[u]].at = "none"
                          /\ OwnerOf[u] \notin stuck
                          /\ sidecar.targets[OwnerOf[u]] = {u}
    /\ pc[u] = "register" => bytes # "none"
    /\ pc[u] = "reconfirmStuck" => /\ OwnerOf[u] \in stuck
                                   /\ u \in sidecar.targets[OwnerOf[u]]

\* An upload that was promised is named on disk, and somebody sees to it.
Promised(u) ==
    u \in held /\ u \notin served /\ ~refused =>
        /\ u \in sidecar.targets[OwnerOf[u]] /\ bytes # "none"
        /\ up => \/ OwnerOf[u] \in stuck
                 \/ reg[OwnerOf[u]].at # "none" /\ u \in reg[OwnerOf[u]].holds

Calm ==
    ~overlapped => /\ \A o \in Owners : EntryBacked(o)
                   /\ MarkBacked
                   /\ \A u \in Uploads : Alone(u) /\ Promised(u)

IInv == Types /\ Down /\ RecordFirst /\ DoneServed /\ Calm

--------------------------------------------------------------------------
(* The entries, and the initial state.                                     *)

LEMMA EntryTypes ==
    /\ NoEntry \in Entries
    /\ \A holds \in SUBSET Uploads, fails \in 0 .. MaxFailures - 1 :
          Waiting(holds, fails) \in Entries
    /\ NoSidecar \in Sidecars
    /\ NoEntry.at = "none" /\ NoEntry.done = {}
    /\ \A holds, fails : /\ Waiting(holds, fails).at = "waiting"
                         /\ Waiting(holds, fails).holds = holds
                         /\ Waiting(holds, fails).done = {}
<1>1. 0 \in 0 .. MaxFailures - 1
  BY HoldAssumption
<1> QED
  BY <1>1 DEF NoEntry, Waiting, NoSidecar, Entries, Sidecars

LEMMA InitInv == Init => IInv
<1> SUFFICES ASSUME Init PROVE IInv
  OBVIOUS
<1>1. Types
  <2>1. /\ pc \in [Uploads -> PcSet] /\ reg \in [Owners -> Entries]
        /\ crashes \in 0 .. MaxCrashes
    BY EntryTypes, HoldAssumption DEF Init, PcSet
  <2> QED
    BY <2>1, EntryTypes DEF Init, Contents, Types
<1>2. Down /\ RecordFirst /\ DoneServed
  BY EntryTypes DEF Init, Down, RecordFirst, DoneServed
<1>3. Calm
  BY EntryTypes DEF Init, Calm, EntryBacked, MarkBacked, Alone, Unregistered, Promised, NoSidecar
<1> QED
  BY <1>1, <1>2, <1>3 DEF IInv

--------------------------------------------------------------------------
(* Steps of a save.                                                        *)

\* A save goes on; bytes and records only come, and nothing is promised.
LEMMA SaveMoves ==
    ASSUME NEW u \in Uploads, NEW p \in PcSet, IInv, up,
           pc' = [pc EXCEPT ![u] = p],
           p \in {"reconfirm", "rewrite", "register"} => Unregistered(u),
           p = "register" => bytes' # "none",
           p # "reconfirmStuck",
           bytes' \in {bytes, "good"}, old' \in BOOLEAN,
           refused' \in BOOLEAN, refused => refused',
           UNCHANGED <<aside, sidecar, served, up, held, reg, stuck, ghost>>
    PROVE  IInv'
<1>1. Types'
  BY DEF IInv, Types, ghost, Contents
<1>2. /\ pc'[u] = p
      /\ \A v \in Uploads \ {u} : pc'[v] = pc[v]
      /\ bytes # "none" => bytes' # "none"
  BY DEF IInv, Types
<1>3. Down' /\ RecordFirst' /\ DoneServed'
  BY DEF IInv, Down, RecordFirst, DoneServed
<1>4. Calm'
  <2> SUFFICES ASSUME ~overlapped PROVE /\ \A o \in Owners : EntryBacked(o)'
                                        /\ MarkBacked'
                                        /\ \A v \in Uploads : Alone(v)' /\ Promised(v)'
    BY DEF Calm, ghost
  <2>1. /\ \A o \in Owners : EntryBacked(o)
        /\ MarkBacked
        /\ \A v \in Uploads : Alone(v) /\ Promised(v)
    BY DEF IInv, Calm
  <2>2. (\A o \in Owners : EntryBacked(o)') /\ MarkBacked'
    BY <1>2, <2>1 DEF EntryBacked, MarkBacked
  <2>3. \A v \in Uploads : Promised(v)'
    BY <1>2, <2>1 DEF Promised
  <2>4. \A v \in Uploads \ {u} : Alone(v)'
    BY <1>2, <2>1 DEF Alone, Unregistered
  <2>5. Alone(u)'
    <3>1. p \in {"reconfirm", "rewrite", "register"} => Alone(u) /\ Unregistered(u)
      BY <2>1
    <3> QED
      BY <1>2, <3>1 DEF Alone, Unregistered
  <2> QED
    BY <2>2, <2>3, <2>4, <2>5
<1> QED
  BY <1>1, <1>3, <1>4 DEF IInv

\* A save joins the entry of its registry.
LEMMA JoinKeeps ==
    ASSUME NEW u \in Uploads, IInv, up, Join(u),
           UNCHANGED <<served, up, crashes, rotted>>
    PROVE  IInv'
<1> DEFINE o == OwnerOf[u]
           joined == reg[o].holds \cup {u}
<1>1. /\ o \in Owners /\ reg[o] \in Entries /\ joined \in SUBSET Uploads
      /\ \A v \in Uploads : OwnerOf[v] \in Owners
  BY HoldAssumption DEF IInv, Types, Entries
<1>2. /\ reg' = [reg EXCEPT ![o].holds = joined]
      /\ sidecar' = [sidecar EXCEPT !.targets[o] = joined]
      /\ pc' = [pc EXCEPT ![u] = "done"]
      /\ held' = held \cup {u}
      /\ reg[o].at # "none"
      /\ UNCHANGED <<bytes, old, aside, refused, stuck, overlapped, served, up, crashes, rotted>>
  BY DEF Join, WriteOwnTargets, Told, Goes
<1>3. Types'
  <2>1. [reg EXCEPT ![o].holds = joined] \in [Owners -> Entries]
    BY <1>1 DEF IInv, Types, Entries
  <2>2. [sidecar EXCEPT !.targets[o] = joined] \in Sidecars
    BY <1>1 DEF IInv, Types, Sidecars
  <2> QED
    BY <1>2, <2>1, <2>2 DEF IInv, Types, PcSet
<1>4. /\ reg'[o].holds = joined /\ reg'[o].at = reg[o].at /\ reg'[o].done = reg[o].done
      /\ \A q \in Owners \ {o} : reg'[q] = reg[q]
      /\ sidecar'.targets[o] = joined /\ sidecar'.stuck = sidecar.stuck
      /\ \A q \in Owners \ {o} : sidecar'.targets[q] = sidecar.targets[q]
      /\ pc'[u] = "done"
      /\ \A v \in Uploads \ {u} : pc'[v] = pc[v]
  BY <1>1, <1>2 DEF IInv, Types, Entries, Sidecars
<1> HIDE DEF joined
<1>5. Down' /\ RecordFirst' /\ DoneServed'
  BY <1>2, <1>4 DEF IInv, Down, RecordFirst, DoneServed
<1>6. Calm'
  <2> SUFFICES ASSUME ~overlapped PROVE /\ \A q \in Owners : EntryBacked(q)'
                                        /\ MarkBacked'
                                        /\ \A v \in Uploads : Alone(v)' /\ Promised(v)'
    BY <1>2 DEF Calm
  <2>1. /\ \A q \in Owners : EntryBacked(q)
        /\ MarkBacked
        /\ \A v \in Uploads : Alone(v) /\ Promised(v)
    BY DEF IInv, Calm
  <2>2. u \in joined /\ reg[o].holds \subseteq joined /\ bytes # "none" /\ o \notin stuck
    BY <1>1, <1>2, <2>1 DEF joined, EntryBacked
  <2>3. \A q \in Owners : EntryBacked(q)'
    BY <1>2, <1>4, <2>1, <2>2 DEF EntryBacked
  <2>4. MarkBacked'
    BY <1>2, <1>4, <2>1, <2>2 DEF MarkBacked
  <2>5. ASSUME NEW v \in Uploads PROVE Alone(v)'
    <3>1. CASE OwnerOf[v] = o
      BY <1>2, <1>4, <2>1, <2>2, <3>1 DEF Alone, Unregistered
    <3>2. CASE OwnerOf[v] # o
      BY <1>1, <1>2, <1>4, <2>1, <3>2 DEF Alone, Unregistered
    <3> QED
      BY <3>1, <3>2
  <2>6. ASSUME NEW v \in Uploads PROVE Promised(v)'
    <3>1. CASE OwnerOf[v] = o
      <4>1. v \in held' /\ v \notin served /\ ~refused => v \in joined
        BY <1>2, <2>1, <2>2, <3>1 DEF Promised
      <4> QED
        BY <1>2, <1>4, <2>2, <3>1, <4>1 DEF Promised
    <3>2. CASE OwnerOf[v] # o
      BY <1>1, <1>2, <1>4, <2>1, <3>2 DEF Promised
    <3> QED
      BY <3>1, <3>2
  <2> QED
    BY <2>3, <2>4, <2>5, <2>6
<1> QED
  BY <1>3, <1>5, <1>6 DEF IInv

\* What follows from the invariant without an overlap.
LEMMA CalmFacts ==
    ASSUME IInv, ~overlapped
    PROVE  /\ \A o \in Owners : EntryBacked(o)
           /\ MarkBacked
           /\ \A v \in Uploads : Alone(v) /\ Promised(v)
           /\ \A v \in Uploads : OwnerOf[v] \in Owners
  BY HoldAssumption DEF IInv, Calm

LEMMA CalmNext ==
    ASSUME ~overlapped' => /\ \A o \in Owners : EntryBacked(o)'
                           /\ MarkBacked'
                           /\ \A v \in Uploads : Alone(v)' /\ Promised(v)'
    PROVE  Calm'
  BY DEF Calm

\* The second look finds no entry: the target is written.
LEMMA SecondKeeps ==
    ASSUME NEW u \in Uploads, IInv, Second(u)
    PROVE  IInv'
<1> DEFINE o == OwnerOf[u]
<1>1. CASE Join(u)
  BY <1>1, JoinKeeps DEF Second
<1>2. ASSUME NEW targets \in SUBSET Uploads, NEW p \in PcSet, up, reg[o].at = "none",
             pc[u] = "second",
             WriteOwnTargets(o, targets), Goes(u, p), u \in targets,
             UNCHANGED <<bytes, old, aside, refused, held, reg, stuck,
                         served, up, crashes, rotted>>,
             overlapped' \in BOOLEAN, overlapped => overlapped',
             \/ p = "reconfirmStuck" /\ o \in stuck /\ sidecar.targets[o] \subseteq targets
             \/ /\ p = "reconfirm" /\ o \notin stuck /\ targets = {u}
                /\ ~overlapped' => \A v \in Uploads : OwnerOf[v] = o => ~Unregistered(v)
      PROVE  IInv'
  <2>1. o \in Owners /\ \A v \in Uploads : OwnerOf[v] \in Owners
    BY HoldAssumption
  <2>2. /\ sidecar'.targets[o] = targets /\ sidecar'.stuck = sidecar.stuck
        /\ \A q \in Owners \ {o} : sidecar'.targets[q] = sidecar.targets[q]
        /\ sidecar' \in Sidecars /\ sidecar.stuck \subseteq Owners
    BY <1>2, <2>1 DEF IInv, Types, Sidecars, WriteOwnTargets
  <2>3. /\ pc'[u] = p /\ pc' \in [Uploads -> PcSet]
        /\ \A v \in Uploads \ {u} : pc'[v] = pc[v]
    BY <1>2 DEF IInv, Types, Goes
  <2>4. Types'
    BY <1>2, <2>2, <2>3 DEF IInv, Types
  <2>5. Down' /\ RecordFirst' /\ DoneServed'
    BY <1>2 DEF IInv, Down, RecordFirst, DoneServed
  <2>6. Calm'
    <3> SUFFICES ASSUME ~overlapped' PROVE /\ \A q \in Owners : EntryBacked(q)'
                                           /\ MarkBacked'
                                           /\ \A v \in Uploads : Alone(v)' /\ Promised(v)'
      BY CalmNext
    <3>1. ~overlapped
      BY <1>2
    <3>2. /\ \A q \in Owners : EntryBacked(q)
          /\ MarkBacked
          /\ \A v \in Uploads : Alone(v) /\ Promised(v)
      BY <3>1, CalmFacts
    <3>3. \A q \in Owners : EntryBacked(q)'
      BY <1>2, <2>1, <2>2, <3>2 DEF EntryBacked
    <3>4. MarkBacked'
      BY <1>2, <2>1, <2>2, <3>2 DEF MarkBacked
    <3>5. ASSUME NEW v \in Uploads PROVE Alone(v)'
      <4>1. CASE v = u
        BY <1>2, <2>2, <2>3, <4>1 DEF Alone, Unregistered
      <4>2. CASE v # u /\ OwnerOf[v] # o
        BY <1>2, <2>1, <2>2, <2>3, <3>2, <4>2 DEF Alone, Unregistered
      <4>3. CASE v # u /\ OwnerOf[v] = o
        BY <1>2, <2>1, <2>2, <2>3, <3>2, <4>3 DEF Alone, Unregistered
      <4> QED
        BY <4>1, <4>2, <4>3
    <3>6. ASSUME NEW v \in Uploads PROVE Promised(v)'
      <4>1. CASE OwnerOf[v] # o
        BY <1>2, <2>1, <2>2, <3>2, <4>1 DEF Promised
      <4>2. CASE OwnerOf[v] = o
        BY <1>2, <2>1, <2>2, <3>2, <4>2 DEF Promised
      <4> QED
        BY <4>1, <4>2
    <3> QED
      BY <3>3, <3>4, <3>5, <3>6
  <2> QED
    BY <2>4, <2>5, <2>6 DEF IInv
<1>3. CASE /\ reg[o].at = "none" /\ o \in stuck
           /\ WriteOwnTargets(o, sidecar.targets[o] \cup {u})
           /\ Goes(u, "reconfirmStuck")
           /\ UNCHANGED <<bytes, old, aside, refused, held, reg, stuck, overlapped>>
  <2>1. sidecar.targets[o] \cup {u} \in SUBSET Uploads /\ overlapped \in BOOLEAN
    BY HoldAssumption DEF IInv, Types, Sidecars
  <2>2. "reconfirmStuck" \in PcSet
    BY DEF PcSet
  <2> QED
    BY <1>2, <1>3, <2>1, <2>2 DEF Second
<1>4. CASE /\ reg[o].at = "none" /\ o \notin stuck
           /\ WriteOwnTargets(o, {u})
           /\ Goes(u, "reconfirm")
           /\ overlapped' = (overlapped \/ \E v \in Uploads :
                                 OwnerOf[v] = o /\ Unregistered(v))
           /\ UNCHANGED <<bytes, old, aside, refused, held, reg, stuck>>
  <2>1. /\ {u} \in SUBSET Uploads /\ overlapped' \in BOOLEAN
        /\ overlapped => overlapped'
        /\ ~overlapped' => \A v \in Uploads : OwnerOf[v] = o => ~Unregistered(v)
    BY <1>4 DEF IInv, Types
  <2>2. "reconfirm" \in PcSet
    BY DEF PcSet
  <2> QED
    BY <1>2, <1>4, <2>1, <2>2 DEF Second
<1> QED
  BY <1>1, <1>3, <1>4 DEF Second

\* A registry that gave up takes one more upload.
LEMMA ReconfirmStuckKeeps ==
    ASSUME NEW u \in Uploads, IInv, ReconfirmStuck(u)
    PROVE  IInv'
<1>1. /\ pc[u] = "reconfirmStuck" /\ bytes' = "good" /\ held' = held \cup {u}
      /\ pc' = [pc EXCEPT ![u] = "done"] /\ old' \in BOOLEAN
      /\ UNCHANGED <<aside, refused, sidecar, served, up, reg, stuck, ghost>>
  BY DEF ReconfirmStuck, Told, Goes, IInv, Types
<1>2. /\ pc'[u] = "done" /\ pc' \in [Uploads -> PcSet]
      /\ \A v \in Uploads \ {u} : pc'[v] = pc[v]
  BY <1>1 DEF IInv, Types, PcSet
<1>3. Types'
  BY <1>1, <1>2 DEF IInv, Types, ghost, Contents
<1>4. Down' /\ RecordFirst' /\ DoneServed'
  BY <1>1, <1>2 DEF IInv, Down, RecordFirst, DoneServed
<1>5. Calm'
  <2> SUFFICES ASSUME ~overlapped' PROVE /\ \A q \in Owners : EntryBacked(q)'
                                         /\ MarkBacked'
                                         /\ \A v \in Uploads : Alone(v)' /\ Promised(v)'
    BY CalmNext
  <2>1. /\ \A q \in Owners : EntryBacked(q)
        /\ MarkBacked
        /\ \A v \in Uploads : Alone(v) /\ Promised(v)
    BY <1>1, CalmFacts DEF ghost
  <2>2. (\A q \in Owners : EntryBacked(q)') /\ MarkBacked'
    BY <1>1, <2>1 DEF EntryBacked, MarkBacked
  <2>3. \A v \in Uploads : Alone(v)'
    BY <1>1, <1>2, <2>1 DEF Alone, Unregistered
  <2>4. \A v \in Uploads : Promised(v)'
    BY <1>1, <2>1 DEF Promised, Alone
  <2> QED
    BY <2>2, <2>3, <2>4
<1> QED
  BY <1>3, <1>4, <1>5 DEF IInv

\* A hold becomes its registry's entry.
LEMMA RegisterKeeps ==
    ASSUME NEW u \in Uploads, IInv, Register(u)
    PROVE  IInv'
<1> DEFINE o == OwnerOf[u]
<1>1. CASE Join(u)
  BY <1>1, JoinKeeps DEF Register
<1>2. CASE ~Join(u)
  <2>1. /\ up /\ pc[u] = "register" /\ reg[o].at = "none"
        /\ reg' = [reg EXCEPT ![o] = Waiting({u}, 0)]
        /\ pc' = [pc EXCEPT ![u] = "done"] /\ held' = held \cup {u}
        /\ UNCHANGED <<bytes, old, aside, refused, sidecar, stuck, overlapped,
                       served, up, crashes, rotted>>
    BY <1>2 DEF Register, Told, Goes, disk
  <2>2. o \in Owners /\ \A v \in Uploads : OwnerOf[v] \in Owners
    BY HoldAssumption
  <2>3. /\ Waiting({u}, 0) \in Entries
        /\ Waiting({u}, 0).at = "waiting" /\ Waiting({u}, 0).holds = {u}
        /\ Waiting({u}, 0).done = {}
    BY EntryTypes, HoldAssumption
  <2>4. /\ pc'[u] = "done" /\ pc' \in [Uploads -> PcSet]
        /\ \A v \in Uploads \ {u} : pc'[v] = pc[v]
        /\ reg'[o] = Waiting({u}, 0) /\ reg' \in [Owners -> Entries]
        /\ \A q \in Owners \ {o} : reg'[q] = reg[q]
    BY <2>1, <2>2, <2>3 DEF IInv, Types, PcSet
  <2>5. Types'
    BY <2>1, <2>4 DEF IInv, Types
  <2>6. Down' /\ RecordFirst' /\ DoneServed'
    BY <2>1, <2>3, <2>4 DEF IInv, Down, RecordFirst, DoneServed
  <2>7. Calm'
    <3> SUFFICES ASSUME ~overlapped' PROVE /\ \A q \in Owners : EntryBacked(q)'
                                           /\ MarkBacked'
                                           /\ \A v \in Uploads : Alone(v)' /\ Promised(v)'
      BY CalmNext
    <3>1. /\ \A q \in Owners : EntryBacked(q)
          /\ MarkBacked
          /\ \A v \in Uploads : Alone(v) /\ Promised(v)
      BY <2>1, CalmFacts
    <3>2. o \notin stuck /\ sidecar.targets[o] = {u} /\ bytes # "none"
      BY <2>1, <3>1 DEF Alone, Unregistered
    <3>3. \A q \in Owners : EntryBacked(q)'
      BY <2>1, <2>3, <2>4, <3>1, <3>2 DEF EntryBacked
    <3>4. MarkBacked'
      BY <2>1, <3>1 DEF MarkBacked
    <3>5. \A v \in Uploads : Alone(v)'
      BY <2>1, <2>2, <2>4, <3>1, <3>2 DEF Alone, Unregistered
    <3>6. \A v \in Uploads : Promised(v)'
      BY <2>1, <2>2, <2>3, <2>4, <3>1, <3>2 DEF Promised
    <3> QED
      BY <3>3, <3>4, <3>5, <3>6
  <2> QED
    BY <2>5, <2>6, <2>7 DEF IInv
<1> QED
  BY <1>1, <1>2

--------------------------------------------------------------------------
(* Steps of a retry loop.                                                *)

\* The entry goes on with the same uploads; bytes and records only come.
LEMMA EntryMoves ==
    ASSUME NEW o \in Owners, NEW e \in Entries, IInv, up,
           reg[o].at # "none", reg' = [reg EXCEPT ![o] = e],
           e.at # "none", e.holds = reg[o].holds, e.done \subseteq served',
           e.at = "sealBytes" => refused',
           served' \subseteq Uploads, served \subseteq served',
           refused' \in BOOLEAN, refused => refused',
           UNCHANGED <<bytes, old, aside, sidecar, stuck, up, pc, held, ghost>>
    PROVE  IInv'
<1>1. /\ reg'[o] = e /\ reg' \in [Owners -> Entries]
      /\ \A q \in Owners \ {o} : reg'[q] = reg[q]
  BY DEF IInv, Types
<1>2. Types'
  BY <1>1 DEF IInv, Types, ghost
<1>3. Down' /\ RecordFirst' /\ DoneServed'
  BY <1>1 DEF IInv, Down, RecordFirst, DoneServed
<1>4. Calm'
  <2> SUFFICES ASSUME ~overlapped' PROVE /\ \A q \in Owners : EntryBacked(q)'
                                         /\ MarkBacked'
                                         /\ \A v \in Uploads : Alone(v)' /\ Promised(v)'
    BY CalmNext
  <2>1. /\ \A q \in Owners : EntryBacked(q)
        /\ MarkBacked
        /\ \A v \in Uploads : Alone(v) /\ Promised(v)
        /\ \A v \in Uploads : OwnerOf[v] \in Owners
    BY CalmFacts DEF ghost
  <2>2. (\A q \in Owners : EntryBacked(q)') /\ MarkBacked'
    BY <1>1, <2>1 DEF EntryBacked, MarkBacked
  <2>3. \A v \in Uploads : Alone(v)'
    BY <1>1, <2>1 DEF Alone, Unregistered
  <2>4. \A v \in Uploads : Promised(v)'
    BY <1>1, <2>1 DEF Promised
  <2> QED
    BY <2>2, <2>3, <2>4
<1> QED
  BY <1>2, <1>3, <1>4 DEF IInv

\* An entry is given up.
LEMMA MarkStuckKeeps ==
    ASSUME NEW o \in Owners, IInv, up, reg[o].at # "none", MarkStuck(o),
           served' \subseteq Uploads, served \subseteq served',
           UNCHANGED <<up, pc, held, ghost>>
    PROVE  IInv'
<1>1. /\ reg' = [reg EXCEPT ![o] = NoEntry] /\ stuck' = stuck \cup {o}
      /\ sidecar' = [sidecar EXCEPT !.stuck = @ \cup {o}]
      /\ UNCHANGED <<bytes, old, aside, refused>>
  BY DEF MarkStuck
<1>2. /\ reg'[o] = NoEntry /\ reg' \in [Owners -> Entries]
      /\ \A q \in Owners \ {o} : reg'[q] = reg[q]
      /\ sidecar' \in Sidecars /\ sidecar'.targets = sidecar.targets
      /\ sidecar'.stuck = sidecar.stuck \cup {o}
  BY <1>1, EntryTypes DEF IInv, Types, Sidecars
<1>3. Types'
  BY <1>1, <1>2 DEF IInv, Types, ghost
<1>4. Down' /\ RecordFirst' /\ DoneServed'
  BY <1>1, <1>2, EntryTypes DEF IInv, Down, RecordFirst, DoneServed
<1>5. Calm'
  <2> SUFFICES ASSUME ~overlapped' PROVE /\ \A q \in Owners : EntryBacked(q)'
                                         /\ MarkBacked'
                                         /\ \A v \in Uploads : Alone(v)' /\ Promised(v)'
    BY CalmNext
  <2>1. /\ \A q \in Owners : EntryBacked(q)
        /\ MarkBacked
        /\ \A v \in Uploads : Alone(v) /\ Promised(v)
        /\ \A v \in Uploads : OwnerOf[v] \in Owners
    BY CalmFacts DEF ghost
  <2>2. sidecar.targets[o] # {} /\ bytes # "none"
    BY <2>1 DEF EntryBacked
  <2>3. (\A q \in Owners : EntryBacked(q)') /\ MarkBacked'
    BY <1>1, <1>2, <2>1, <2>2, EntryTypes DEF EntryBacked, MarkBacked
  <2>4. \A v \in Uploads : Alone(v)'
    BY <1>1, <1>2, <2>1, EntryTypes DEF Alone, Unregistered
  <2>5. \A v \in Uploads : Promised(v)'
    BY <1>1, <1>2, <2>1 DEF Promised
  <2> QED
    BY <2>3, <2>4, <2>5
<1> QED
  BY <1>3, <1>4, <1>5 DEF IInv

LEMMA RetryFailsKeeps ==
    ASSUME NEW o \in Owners, IInv, up, reg[o].at # "none", RetryFails(o),
           served' \subseteq Uploads, served \subseteq served',
           UNCHANGED <<up, pc, held, ghost>>
    PROVE  IInv'
<1>1. CASE reg[o].fails + 1 >= MaxFailures
  BY <1>1, MarkStuckKeeps DEF RetryFails
<1>2. CASE ~(reg[o].fails + 1 >= MaxFailures)
  <2> DEFINE e == Waiting(reg[o].holds, reg[o].fails + 1)
  <2>1. /\ reg[o].fails + 1 \in 0 .. MaxFailures - 1
        /\ reg[o].holds \in SUBSET Uploads /\ refused \in BOOLEAN
    BY <1>2, HoldAssumption DEF IInv, Types, Entries
  <2>2. e \in Entries /\ e.at = "waiting" /\ e.holds = reg[o].holds /\ e.done = {}
    BY <2>1, EntryTypes
  <2>3. /\ reg' = [reg EXCEPT ![o] = e]
        /\ UNCHANGED <<bytes, old, aside, refused, sidecar, stuck>>
    BY <1>2 DEF RetryFails, disk
  <2> HIDE DEF e
  <2> QED
    BY <2>1, <2>2, <2>3, EntryMoves
<1> QED
  BY <1>1, <1>2

\* An entry is resolved: all its uploads are served, or the digest is refused.
LEMMA DropKeeps ==
    ASSUME NEW o \in Owners, IInv, up, reg[o].at # "none",
           reg' = [reg EXCEPT ![o] = NoEntry],
           sidecar' = (IF OthersWait(o) THEN Remaining(o) ELSE NoSidecar),
           bytes' \in Contents, old' \in BOOLEAN,
           OthersWait(o) /\ bytes # "none" => bytes' # "none",
           refused \/ reg[o].holds \subseteq served',
           served' \subseteq Uploads, served \subseteq served',
           UNCHANGED <<aside, refused, stuck, up, pc, held, ghost>>
    PROVE  IInv'
<1>1. /\ reg'[o] = NoEntry /\ reg' \in [Owners -> Entries]
      /\ \A q \in Owners \ {o} : reg'[q] = reg[q]
  BY EntryTypes DEF IInv, Types
<1>2. /\ sidecar' \in Sidecars
      /\ sidecar'.targets[o] = {}
      /\ \A q \in Owners \ {o} : sidecar'.targets[q] = sidecar.targets[q]
  <2>1. CASE OthersWait(o)
    BY <2>1 DEF Remaining, IInv, Types, Sidecars
  <2>2. CASE ~OthersWait(o)
    BY <2>2, EntryTypes DEF OthersWait, NoSidecar, IInv, Types, Sidecars
  <2> QED
    BY <2>1, <2>2
<1>3. Types'
  BY <1>1, <1>2 DEF IInv, Types, ghost
<1>4. Down' /\ RecordFirst' /\ DoneServed'
  BY <1>1, EntryTypes DEF IInv, Down, RecordFirst, DoneServed
<1>5. Calm'
  <2> SUFFICES ASSUME ~overlapped' PROVE /\ \A q \in Owners : EntryBacked(q)'
                                         /\ MarkBacked'
                                         /\ \A v \in Uploads : Alone(v)' /\ Promised(v)'
    BY CalmNext
  <2>1. /\ \A q \in Owners : EntryBacked(q)
        /\ MarkBacked
        /\ \A v \in Uploads : Alone(v) /\ Promised(v)
        /\ \A v \in Uploads : OwnerOf[v] \in Owners
    BY CalmFacts DEF ghost
  <2>2. o \notin stuck /\ stuck = sidecar.stuck /\ stuck \subseteq Owners
    BY <2>1 DEF EntryBacked, MarkBacked, IInv, Types
  <2>3. sidecar'.stuck = sidecar.stuck
    <3>1. CASE OthersWait(o)
      BY <2>2, <3>1 DEF Remaining
    <3>2. CASE ~OthersWait(o)
      <4>1. \A q \in sidecar.stuck : q = o \/ sidecar.targets[q] = {}
        BY <2>2, <3>2 DEF OthersWait
      <4>2. sidecar.stuck = {}
        BY <2>1, <2>2, <4>1 DEF MarkBacked
      <4> QED
        BY <3>2, <4>2 DEF NoSidecar
    <3> QED
      BY <3>1, <3>2
  <2>4. ASSUME NEW q \in Owners \ {o}, sidecar.targets[q] # {}, bytes # "none"
        PROVE  bytes' # "none"
    BY <2>4 DEF OthersWait
  <2>5. \A q \in Owners : EntryBacked(q)'
    BY <1>1, <1>2, <2>1, <2>4, EntryTypes DEF EntryBacked
  <2>6. MarkBacked'
    BY <1>1, <1>2, <2>1, <2>2, <2>3, <2>4 DEF MarkBacked
  <2>7. ASSUME NEW v \in Uploads PROVE Alone(v)'
    <3>1. CASE OwnerOf[v] = o
      BY <2>1, <2>2, <3>1 DEF Alone, Unregistered
    <3>2. CASE OwnerOf[v] # o
      BY <1>1, <1>2, <2>1, <2>4, <3>2 DEF Alone, Unregistered
    <3> QED
      BY <3>1, <3>2
  <2>8. ASSUME NEW v \in Uploads PROVE Promised(v)'
    <3>1. CASE OwnerOf[v] = o
      BY <2>1, <2>2, <3>1 DEF Promised
    <3>2. CASE OwnerOf[v] # o
      BY <1>1, <1>2, <2>1, <2>4, <3>2 DEF Promised
    <3> QED
      BY <3>1, <3>2
  <2> QED
    BY <2>5, <2>6, <2>7, <2>8
<1> QED
  BY <1>3, <1>4, <1>5 DEF IInv

LEMMA ReleaseKeeps ==
    ASSUME NEW o \in Owners, NEW keepBytes \in BOOLEAN, IInv, up, reg[o].at # "none",
           Release(o, keepBytes),
           refused \/ reg[o].holds \subseteq served',
           served' \subseteq Uploads, served \subseteq served',
           UNCHANGED <<up, pc, held, ghost>>
    PROVE  IInv'
<1>1. /\ reg' = [reg EXCEPT ![o] = NoEntry]
      /\ sidecar' = (IF OthersWait(o) THEN Remaining(o) ELSE NoSidecar)
      /\ OthersWait(o) => bytes' = bytes
      /\ UNCHANGED <<aside, refused, stuck>>
  BY DEF Release
<1>2. bytes' \in Contents
  BY DEF Release, ReleaseBytes, IInv, Types, Contents
<1>3. old' \in BOOLEAN
  BY DEF Release, IInv, Types
<1> QED
  BY <1>1, <1>2, <1>3, DropKeeps

\* The promotion loop goes on, after the targets in done.
LEMMA AdvanceKeeps ==
    ASSUME NEW o \in Owners, NEW done, IInv, up, reg[o].at # "none",
           Advance(o, done), done \subseteq served',
           served' \subseteq Uploads, served \subseteq served',
           UNCHANGED <<up, pc, held, ghost>>
    PROVE  IInv'
<1>1. CASE reg[o].holds \ done = {} /\ Release(o, FALSE)
  BY <1>1, ReleaseKeeps
<1>2. CASE refused /\ Release(o, TRUE)
  BY <1>2, ReleaseKeeps
<1>3. CASE \E t \in reg[o].holds \ done :
              /\ reg' = [reg EXCEPT ![o].at = "writing", ![o].done = done, ![o].cur = {t}]
              /\ UNCHANGED <<disk, stuck>>
  <2>1. PICK t \in reg[o].holds \ done :
              /\ reg' = [reg EXCEPT ![o].at = "writing", ![o].done = done, ![o].cur = {t}]
              /\ UNCHANGED <<disk, stuck>>
    BY <1>3
  <2> DEFINE e == [reg[o] EXCEPT !.at = "writing", !.done = done, !.cur = {t}]
  <2>2. reg[o] \in Entries /\ t \in Uploads
    BY DEF IInv, Types, Entries
  <2>3. reg' = [reg EXCEPT ![o] = e]
    BY <2>1, <2>2 DEF IInv, Types, Entries
  <2>4. e \in Entries /\ e.at = "writing" /\ e.holds = reg[o].holds /\ e.done = done
    BY <2>2 DEF Entries
  <2>5. UNCHANGED <<bytes, old, aside, refused, sidecar, stuck>> /\ refused \in BOOLEAN
    BY <2>1 DEF disk, IInv, Types
  <2> HIDE DEF e
  <2> QED
    BY <2>3, <2>4, <2>5, EntryMoves
<1> QED
  BY <1>1, <1>2, <1>3 DEF Advance

--------------------------------------------------------------------------
(* Every step keeps the invariant.                                       *)

LEMMA SaveKeeps ==
    ASSUME NEW u \in Uploads, IInv, Scan(u) \/ SaveStep(u) \/ SaveFails(u)
    PROVE  IInv'
<1>1. pc \in [Uploads -> PcSet] /\ bytes \in Contents /\ old \in BOOLEAN /\ refused \in BOOLEAN
  BY DEF IInv, Types
<1>2. CASE Scan(u) \/ ScanAllows(u) \/ ScanRefuses(u) \/ WriteEnds(u) \/ SaveFails(u)
  <2>1. PICK p \in {"evaluate", "write", "sealRecord", "sealBytes", "done"} :
            pc' = [pc EXCEPT ![u] = p]
    BY <1>2 DEF Scan, ScanAllows, ScanRefuses, WriteEnds, SaveFails, Goes, Told
  <2>2. up /\ UNCHANGED <<disk, served, up, held, reg, stuck, ghost>>
    BY <1>2 DEF Scan, ScanAllows, ScanRefuses, WriteEnds, SaveFails, Told
  <2> QED
    BY <1>1, <2>1, <2>2, SaveMoves DEF PcSet, disk
<1>3. CASE SealRecord(u) \/ SealBytes(u)
  <2>1. PICK p \in {"sealBytes", "done"} : pc' = [pc EXCEPT ![u] = p]
    BY <1>3 DEF SealRecord, SealBytes, Goes, Told
  <2>2. /\ up /\ bytes' \in {bytes, "good"} /\ old' \in BOOLEAN
        /\ refused' \in BOOLEAN /\ (refused => refused')
        /\ UNCHANGED <<aside, sidecar, served, up, held, reg, stuck, ghost>>
    BY <1>1, <1>3 DEF SealRecord, SealBytes, Told
  <2> QED
    BY <2>1, <2>2, SaveMoves DEF PcSet
<1>4. CASE Match(u)
  <2>1. PICK p \in {"second", "quarantine"} : pc' = [pc EXCEPT ![u] = p]
    BY <1>4 DEF Match, Goes
  <2>2. up /\ UNCHANGED <<disk, served, up, held, reg, stuck, ghost>>
    BY <1>4 DEF Match
  <2> QED
    BY <1>1, <2>1, <2>2, SaveMoves DEF PcSet, disk
<1>5. CASE Quarantine(u)
  <2>1. PICK p \in {"second", "register"} :
            pc' = [pc EXCEPT ![u] = p] /\ (p = "register" => Unregistered(u))
    BY <1>5 DEF Quarantine, Goes, Unregistered
  <2>2. /\ up /\ bytes' = "good" /\ old' = FALSE
        /\ UNCHANGED <<aside, refused, sidecar, served, up, held, reg, stuck, ghost>>
    BY <1>5 DEF Quarantine
  <2> QED
    BY <1>1, <2>1, <2>2, SaveMoves DEF PcSet
<1>6. CASE Reconfirm(u)
  <2>1. PICK p \in {"rewrite", "register"} :
            pc' = [pc EXCEPT ![u] = p] /\ (p = "register" => bytes # "none")
    BY <1>6 DEF Reconfirm, Goes
  <2>2. /\ up /\ Unregistered(u)
        /\ UNCHANGED <<disk, served, up, held, reg, stuck, ghost>>
    BY <1>6 DEF Reconfirm, Unregistered
  <2> QED
    BY <1>1, <2>1, <2>2, SaveMoves DEF PcSet, disk
<1>7. CASE ScanHolds(u)
  <2>1. CASE Join(u)
    BY <1>7, <2>1, JoinKeeps DEF ScanHolds
  <2>2. CASE ~Join(u)
    <3>1. up /\ pc' = [pc EXCEPT ![u] = "match"]
      BY <1>7, <2>2 DEF ScanHolds, Goes
    <3>2. UNCHANGED <<disk, served, up, held, reg, stuck, ghost>>
      BY <1>7, <2>2 DEF ScanHolds, ghost
    <3> QED
      BY <1>1, <3>1, <3>2, SaveMoves DEF PcSet, disk
  <2> QED
    BY <2>1, <2>2
<1>8. CASE Second(u) \/ ReconfirmStuck(u) \/ Register(u)
  BY <1>8, SecondKeeps, ReconfirmStuckKeeps, RegisterKeeps
<1> QED
  BY <1>2, <1>3, <1>4, <1>5, <1>6, <1>7, <1>8 DEF SaveStep

LEMMA LoopKeeps ==
    ASSUME NEW o \in Owners, IInv,
           LoopStep(o) \/ Judged(o) \/ StillPending(o) \/ RetryBreaks(o)
    PROVE  IInv'
<1>1. /\ reg \in [Owners -> Entries] /\ reg[o] \in Entries
      /\ served \subseteq Uploads /\ refused \in BOOLEAN /\ bytes \in Contents
      /\ reg[o].done \subseteq served
      /\ 0 \in 0 .. MaxFailures - 1
  BY HoldAssumption DEF IInv, Types, DoneServed
<1>2. reg[o].holds \in SUBSET Uploads /\ reg[o].cur \in SUBSET Uploads
  BY <1>1 DEF Entries
\* A step that only moves the entry on.
<1>3. ASSUME NEW at \in {"read", "evaluate", "sealRecord", "sealBytes"}, up, reg[o].at # "none",
             reg' = [reg EXCEPT ![o].at = at],
             refused' \in BOOLEAN, refused => refused', at = "sealBytes" => refused',
             UNCHANGED <<bytes, old, aside, sidecar, served, up, pc, held, stuck, ghost>>
      PROVE  IInv'
  <2> DEFINE e == [reg[o] EXCEPT !.at = at]
  <2>1. /\ e \in Entries /\ e.at = at /\ e.holds = reg[o].holds /\ e.done = reg[o].done
        /\ reg' = [reg EXCEPT ![o] = e]
    BY <1>1, <1>3 DEF Entries
  <2>2. e.at # "none" /\ (e.at = "sealBytes" => refused')
    BY <1>3, <2>1
  <2> HIDE DEF e
  <2> QED
    BY <1>1, <1>3, <2>1, <2>2, EntryMoves
<1>4. CASE Retry(o)
  <2>1. CASE refused /\ Release(o, TRUE)
    BY <1>1, <1>4, <2>1, ReleaseKeeps DEF Retry
  <2>2. CASE /\ ~refused /\ reg' = [reg EXCEPT ![o].at = "read"]
             /\ UNCHANGED <<disk, stuck>>
    BY <1>1, <1>3, <1>4, <2>2 DEF Retry, disk
  <2> QED
    BY <1>4, <2>1, <2>2 DEF Retry
<1>5. CASE ReadBack(o)
  <2>1. CASE RetryFails(o)
    BY <1>1, <1>5, <2>1, RetryFailsKeeps DEF ReadBack
  <2>2. CASE MarkStuck(o)
    BY <1>1, <1>5, <2>2, MarkStuckKeeps DEF ReadBack
  <2>3. CASE reg' = [reg EXCEPT ![o].at = "evaluate"] /\ UNCHANGED <<disk, stuck>>
    BY <1>1, <1>3, <1>5, <2>3 DEF ReadBack, disk
  <2> QED
    BY <1>5, <2>1, <2>2, <2>3 DEF ReadBack
<1>6. CASE StillPending(o)
  <2> DEFINE e == Waiting(reg[o].holds, 0)
  <2>1. e \in Entries /\ e.at = "waiting" /\ e.holds = reg[o].holds /\ e.done = {}
    BY <1>1, <1>2, EntryTypes
  <2>2. /\ up /\ reg[o].at # "none" /\ reg' = [reg EXCEPT ![o] = e]
        /\ UNCHANGED <<bytes, old, aside, refused, sidecar, served, up, pc, held, stuck, ghost>>
    BY <1>6 DEF StillPending, disk
  <2> HIDE DEF e
  <2> QED
    BY <1>1, <2>1, <2>2, EntryMoves
<1>7. CASE RetryAllows(o)
  BY <1>1, <1>7, AdvanceKeeps DEF RetryAllows
<1>8. CASE RetryRefuses(o)
  <2>1. PICK at \in {"sealBytes", "sealRecord"} :
            /\ reg' = [reg EXCEPT ![o].at = at] /\ (at = "sealBytes" => refused)
    BY <1>8 DEF RetryRefuses
  <2>2. /\ up /\ reg[o].at # "none"
        /\ UNCHANGED <<bytes, old, aside, refused, sidecar, served, up, pc, held, stuck, ghost>>
    BY <1>8 DEF RetryRefuses, disk
  <2> QED
    BY <1>1, <1>3, <2>1, <2>2
<1>9. CASE RetrySealsRecord(o)
  BY <1>1, <1>3, <1>9 DEF RetrySealsRecord
<1>10. CASE RetrySealsBytes(o)
  <2>1. refused /\ up /\ reg[o].at # "none"
    BY <1>10 DEF RetrySealsBytes, IInv, RecordFirst
  <2>2. /\ reg' = [reg EXCEPT ![o] = NoEntry]
        /\ sidecar' = (IF OthersWait(o) THEN Remaining(o) ELSE NoSidecar)
        /\ bytes' = "good"
        /\ UNCHANGED <<aside, refused, served, up, pc, held, stuck, ghost>>
    BY <1>10 DEF RetrySealsBytes
  <2>3. old' \in BOOLEAN
    BY <1>10 DEF RetrySealsBytes, IInv, Types
  <2>4. bytes' \in Contents /\ bytes' # "none"
    BY <2>2 DEF Contents
  <2> QED
    BY <1>1, <2>1, <2>2, <2>3, <2>4, DropKeeps
<1>11. CASE RetryBreaks(o)
  BY <1>1, <1>11, RetryFailsKeeps DEF RetryBreaks
<1>12. CASE PromoteLands(o)
  BY <1>1, <1>2, <1>12, AdvanceKeeps DEF PromoteLands
<1>13. CASE PromoteFails(o)
  BY <1>1, <1>2, <1>13, RetryFailsKeeps DEF PromoteFails
<1> QED
  BY <1>4, <1>5, <1>6, <1>7, <1>8, <1>9, <1>10, <1>11, <1>12, <1>13 DEF LoopStep, Judged

\* Sweeps, time and decay: only the bytes change.
LEMMA UpkeepKeeps ==
    ASSUME IInv, Sweep \/ Age \/ Rot
    PROVE  IInv'
<1>1. /\ UNCHANGED <<aside, refused, sidecar, served, up, pc, held, reg, stuck,
                     crashes, overlapped>>
      /\ bytes' \in Contents /\ old' \in BOOLEAN /\ rotted' \in BOOLEAN
      /\ bytes' # "none" \/ bytes = "none" \/ sidecar = NoSidecar
  BY DEF Sweep, Orphaned, HasSidecar, Age, Rot, ghost, IInv, Types, Contents
<1>2. Types' /\ Down' /\ RecordFirst' /\ DoneServed'
  BY <1>1 DEF IInv, Types, Down, RecordFirst, DoneServed
<1>3. Calm'
  <2> SUFFICES ASSUME ~overlapped' PROVE /\ \A q \in Owners : EntryBacked(q)'
                                         /\ MarkBacked'
                                         /\ \A v \in Uploads : Alone(v)' /\ Promised(v)'
    BY CalmNext
  <2>1. /\ \A q \in Owners : EntryBacked(q)
        /\ MarkBacked
        /\ \A v \in Uploads : Alone(v) /\ Promised(v)
        /\ \A v \in Uploads : OwnerOf[v] \in Owners
    BY <1>1, CalmFacts
  <2>2. CASE bytes' # "none" \/ bytes = "none"
    <3>1. (\A q \in Owners : EntryBacked(q)') /\ MarkBacked'
      BY <1>1, <2>1, <2>2 DEF EntryBacked, MarkBacked
    <3>2. \A v \in Uploads : Alone(v)' /\ Promised(v)'
      BY <1>1, <2>1, <2>2 DEF Alone, Unregistered, Promised
    <3> QED
      BY <3>1, <3>2
  <2>3. CASE sidecar = NoSidecar
    <3>1. sidecar.stuck = {} /\ \A q \in Owners : sidecar.targets[q] = {}
      BY <2>3 DEF NoSidecar
    <3>2. (\A q \in Owners : EntryBacked(q)') /\ MarkBacked'
      BY <1>1, <2>1, <3>1 DEF EntryBacked, MarkBacked
    <3>3. \A v \in Uploads : Alone(v)' /\ Promised(v)'
      BY <1>1, <2>1, <3>1 DEF Alone, Unregistered, Promised
    <3> QED
      BY <3>2, <3>3
  <2> QED
    BY <1>1, <2>2, <2>3
<1> QED
  BY <1>2, <1>3 DEF IInv

\* The process dies, perhaps between the two removals of a release.
LEMMA CrashKeeps ==
    ASSUME IInv, Crash \/ \E o \in Owners : CrashReleasing(o)
    PROVE  IInv'
<1>1. /\ up /\ up' = FALSE /\ stuck' = {}
      /\ pc' = [u \in Uploads |-> IF pc[u] = "idle" THEN "idle" ELSE "done"]
      /\ reg' = [o \in Owners |-> NoEntry]
      /\ crashes < MaxCrashes /\ crashes' = crashes + 1
      /\ UNCHANGED <<refused, sidecar, held, rotted, overlapped>>
  BY DEF Crash, CrashReleasing, Dies
<1>2. \A o \in Owners : reg[o] \in Entries /\ reg[o].cur \in SUBSET Uploads
  BY DEF IInv, Types, Entries
<1>3. served' \subseteq Uploads /\ served \subseteq served'
  <2>1. CASE Crash
    <3>1. Promoting \subseteq Uploads
      BY <1>2 DEF Promoting
    <3> QED
      BY <2>1, <3>1 DEF Crash, IInv, Types
  <2>2. CASE \E o \in Owners : CrashReleasing(o)
    BY <1>2, <2>2 DEF CrashReleasing, IInv, Types
  <2> QED
    BY <2>1, <2>2
<1>4. /\ bytes' \in Contents /\ aside' \in Contents /\ old' \in BOOLEAN
  BY DEF Crash, CrashReleasing, IInv, Types, Contents
<1>5. crashes' \in 0 .. MaxCrashes
  BY <1>1, HoldAssumption DEF IInv, Types
<1>6. /\ \A o \in Owners : reg'[o] = NoEntry
      /\ \A u \in Uploads : pc'[u] \in {"idle", "done"}
      /\ reg' \in [Owners -> Entries] /\ pc' \in [Uploads -> PcSet]
  BY <1>1, EntryTypes DEF PcSet
<1>7. Types'
  BY <1>1, <1>3, <1>4, <1>5, <1>6 DEF IInv, Types
<1>8. Down' /\ RecordFirst' /\ DoneServed'
  BY <1>1, <1>6, EntryTypes DEF Down, RecordFirst, DoneServed
<1>9. Calm'
  <2> SUFFICES ASSUME ~overlapped' PROVE /\ \A q \in Owners : EntryBacked(q)'
                                         /\ MarkBacked'
                                         /\ \A v \in Uploads : Alone(v)' /\ Promised(v)'
    BY CalmNext
  <2>1. /\ \A q \in Owners : EntryBacked(q)
        /\ MarkBacked
        /\ \A v \in Uploads : Alone(v) /\ Promised(v)
        /\ \A v \in Uploads : OwnerOf[v] \in Owners
    BY <1>1, CalmFacts
  <2>2. \A q \in Owners : EntryBacked(q)'
    BY <1>6, EntryTypes DEF EntryBacked
  <2>3. \A v \in Uploads : Alone(v)'
    BY <1>6 DEF Alone, Unregistered
  <2>4. CASE Crash
    <3>1. bytes' = bytes
      BY <2>4 DEF Crash
    <3>2. MarkBacked'
      BY <1>1, <2>1, <3>1 DEF MarkBacked
    <3>3. \A v \in Uploads : Promised(v)'
      BY <1>1, <1>3, <2>1, <3>1 DEF Promised
    <3> QED
      BY <2>2, <2>3, <3>2, <3>3
  <2>5. CASE \E o \in Owners : CrashReleasing(o)
    <3>1. PICK o \in Owners : CrashReleasing(o)
      BY <2>5
    <3>2. /\ reg[o].at # "none" /\ reg[o].holds = reg[o].done \cup reg[o].cur
          /\ served' = served \cup reg[o].cur
          /\ \A q \in Owners \ {o} : sidecar.targets[q] = {}
      BY <3>1 DEF CrashReleasing, OthersWait
    <3>3. o \notin stuck /\ sidecar.stuck = stuck /\ stuck \subseteq Owners
      BY <1>1, <2>1, <3>2 DEF EntryBacked, MarkBacked, IInv, Types
    <3>4. sidecar.stuck = {}
      BY <2>1, <3>2, <3>3 DEF MarkBacked
    <3>5. MarkBacked'
      BY <1>1, <3>4 DEF MarkBacked
    <3>6. reg[o].holds \subseteq served'
      BY <3>2 DEF IInv, DoneServed
    <3>7. ASSUME NEW v \in Uploads PROVE Promised(v)'
      <4>1. CASE OwnerOf[v] = o
        BY <1>1, <1>3, <2>1, <3>3, <3>6, <4>1 DEF Promised
      <4>2. CASE OwnerOf[v] # o
        BY <1>1, <1>3, <2>1, <3>2, <4>2 DEF Promised
      <4> QED
        BY <4>1, <4>2
    <3> QED
      BY <2>2, <2>3, <3>5, <3>7
  <2> QED
    BY <2>4, <2>5
<1> QED
  BY <1>7, <1>8, <1>9 DEF IInv

\* Restart: each registry finds its own targets in the sidecar.
LEMMA BootKeeps ==
    ASSUME IInv, Boot
    PROVE  IInv'
<1> DEFINE found == IF Orphaned THEN "none" ELSE Restored
<1>1. /\ ~up /\ up' /\ bytes' = found /\ aside' = "none"
      /\ reg' = [o \in Owners |-> Resumed(o, found)]
      /\ stuck' = {o \in sidecar.stuck : found # "none" /\ sidecar.targets[o] # {}}
      /\ UNCHANGED <<refused, sidecar, served, pc, held, ghost>>
  BY DEF Boot
<1>2. found \in Contents /\ old' \in BOOLEAN
  BY DEF Boot, Restored, IInv, Types, Contents
<1>3. bytes # "none" /\ sidecar # NoSidecar => found # "none"
  BY DEF Orphaned, HasSidecar, Restored
<1> HIDE DEF found
<1>4. 0 \in 0 .. MaxFailures - 1
  BY HoldAssumption
<1>5. ASSUME NEW o \in Owners PROVE /\ reg'[o] = Resumed(o, found)
                                    /\ reg'[o] \in Entries
                                    /\ reg'[o].done = {}
                                    /\ reg'[o].at \in {"none", "waiting"}
  <2>1. sidecar.targets[o] \in SUBSET Uploads
    BY DEF IInv, Types, Sidecars
  <2> QED
    BY <1>1, <1>4, <2>1, EntryTypes DEF Resumed
<1>6. Types'
  <2>1. reg' \in [Owners -> Entries]
    BY <1>1, <1>5
  <2> QED
    BY <1>1, <1>2, <2>1 DEF IInv, Types, ghost, Contents, Sidecars
<1>7. Down' /\ RecordFirst' /\ DoneServed'
  BY <1>1, <1>5 DEF Down, RecordFirst, DoneServed
<1>8. Calm'
  <2> SUFFICES ASSUME ~overlapped' PROVE /\ \A q \in Owners : EntryBacked(q)'
                                         /\ MarkBacked'
                                         /\ \A v \in Uploads : Alone(v)' /\ Promised(v)'
    BY CalmNext
  <2>1. /\ MarkBacked
        /\ \A v \in Uploads : Alone(v) /\ Promised(v)
        /\ \A v \in Uploads : OwnerOf[v] \in Owners
    BY <1>1, CalmFacts DEF ghost
  <2>2. ASSUME NEW o \in Owners, sidecar.targets[o] # {}, bytes # "none"
        PROVE  found # "none"
    BY <1>3, <2>2 DEF NoSidecar
  <2>3. /\ stuck' = sidecar.stuck
        /\ \A o \in sidecar.stuck : sidecar.targets[o] # {} /\ found # "none"
    BY <1>1, <2>1, <2>2 DEF MarkBacked, IInv, Types, Sidecars
  <2>4. ASSUME NEW o \in Owners PROVE EntryBacked(o)'
    <3>1. CASE found # "none" /\ sidecar.targets[o] # {} /\ o \notin sidecar.stuck
      BY <1>1, <1>5, <2>3, <3>1, EntryTypes DEF EntryBacked, Resumed, Waiting
    <3>2. CASE ~(found # "none" /\ sidecar.targets[o] # {} /\ o \notin sidecar.stuck)
      BY <1>5, <3>2, EntryTypes DEF EntryBacked, Resumed
    <3> QED
      BY <3>1, <3>2
  <2>5. MarkBacked'
    BY <1>1, <2>3 DEF MarkBacked
  <2>6. \A v \in Uploads : Alone(v)'
    BY <1>1 DEF IInv, Down, Alone, Unregistered
  <2>7. ASSUME NEW v \in Uploads, v \in held, v \notin served, ~refused
        PROVE  /\ v \in sidecar.targets[OwnerOf[v]] /\ found # "none"
               /\ \/ OwnerOf[v] \in sidecar.stuck
                  \/ reg'[OwnerOf[v]].at # "none" /\ v \in reg'[OwnerOf[v]].holds
    <3>1. v \in sidecar.targets[OwnerOf[v]] /\ found # "none"
      BY <2>1, <2>2, <2>7 DEF Promised
    <3>2. CASE OwnerOf[v] \notin sidecar.stuck
      <4>1. reg'[OwnerOf[v]] = Waiting(sidecar.targets[OwnerOf[v]], 0)
        BY <1>5, <2>1, <3>1, <3>2 DEF Resumed
      <4> QED
        BY <3>1, <4>1 DEF Waiting
    <3> QED
      BY <3>1, <3>2
  <2>8. \A v \in Uploads : Promised(v)'
    BY <1>1, <2>3, <2>7 DEF Promised
  <2> QED
    BY <2>4, <2>5, <2>6, <2>8
<1> QED
  BY <1>6, <1>7, <1>8 DEF IInv

LEMMA NextInv ==
    ASSUME IInv, [Next]_vars
    PROVE  IInv'
<1>1. CASE UNCHANGED vars
  <2>1. Types' /\ Down' /\ RecordFirst' /\ DoneServed'
    BY <1>1 DEF IInv, vars, Types, Down, RecordFirst, DoneServed
  <2>2. Calm'
    BY <1>1 DEF IInv, vars, Calm, EntryBacked, MarkBacked, Alone, Unregistered, Promised
  <2> QED
    BY <2>1, <2>2 DEF IInv
<1>2. CASE \E u \in Uploads : Scan(u) \/ SaveStep(u) \/ SaveFails(u)
  BY <1>2, SaveKeeps
<1>3. CASE \E o \in Owners : LoopStep(o) \/ Judged(o) \/ StillPending(o) \/ RetryBreaks(o)
  BY <1>3, LoopKeeps
<1>4. CASE Crash \/ \E o \in Owners : CrashReleasing(o)
  BY <1>4, CrashKeeps
<1>5. CASE Upkeep \/ Rot
  BY <1>5, UpkeepKeeps, BootKeeps DEF Upkeep
<1> QED
  BY <1>1, <1>2, <1>3, <1>4, <1>5 DEF Next

LEMMA Invariant == Spec => []IInv
  BY InitInv, NextInv, PTL DEF Spec

--------------------------------------------------------------------------
(* The theorems.                                                           *)

\* Every variable stays in its set; above all no loop carries as many
\* failures as make it give up (#onRetryFailure).
THEOREM TypeCorrect == Spec => []TypeOK
<1>1. IInv => TypeOK
  BY DEF IInv, Types, TypeOK, Entries, Sidecars, PcSet
<1> QED
  BY <1>1, Invariant, PTL

\* A held upload stays named on disk, with bytes behind it, until it is
\* promoted or refused, whatever sweeps, other registries, failures and
\* crashes do; holds of one owner that overlap are excepted.
THEOREM HeldKept == Spec => []HeldNotLost
<1>1. IInv => HeldNotLost
  BY DEF IInv, Calm, Promised, HeldNotLost
<1> QED
  BY <1>1, Invariant, PTL

\* A registry that gave up on the digest runs no loop for it again, before
\* or after a restart (#markStuck, resumeFromQuarantine).
THEOREM StuckKept == Spec => []StuckStaysStuck
<1>1. IInv => StuckStaysStuck
  <2> SUFFICES ASSUME IInv, ~overlapped, NEW o \in sidecar.stuck PROVE reg[o].at = "none"
    BY DEF StuckStaysStuck
  <2>1. o \in Owners
    BY DEF IInv, Types, Sidecars
  <2>2. CASE up
    BY <2>1, <2>2, CalmFacts DEF MarkBacked, EntryBacked
  <2>3. CASE ~up
    BY <2>1, <2>3, EntryTypes DEF IInv, Down
  <2> QED
    BY <2>2, <2>3
<1> QED
  BY <1>1, Invariant, PTL

\* With the digest sealed, a step of a loop begins no write, and takes no
\* bytes away.
LEMMA LoopSealed ==
    ASSUME NEW o \in Owners, IInv, refused,
           LoopStep(o) \/ Judged(o) \/ StillPending(o) \/ RetryBreaks(o)
    PROVE  /\ \A q \in Owners : reg'[q].cur \subseteq reg[q].cur
           /\ pc' = pc /\ aside' = aside
           /\ bytes' \in {bytes, "good"}
<1>1. reg \in [Owners -> Entries] /\ NoEntry.cur = {}
      /\ \A holds, fails : Waiting(holds, fails).cur = {}
  BY DEF IInv, Types, NoEntry, Waiting
<1>2. ASSUME NEW keepBytes \in BOOLEAN, Release(o, keepBytes)
      PROVE  reg' = [reg EXCEPT ![o] = NoEntry] /\ bytes' = bytes /\ aside' = aside
  BY <1>2 DEF Release, ReleaseBytes
<1>3. ASSUME NEW done, Advance(o, done)
      PROVE  reg' = [reg EXCEPT ![o] = NoEntry] /\ bytes' = bytes /\ aside' = aside
  BY <1>2, <1>3 DEF Advance
<1>4. ASSUME RetryFails(o)
      PROVE  /\ reg'[o].cur = {} /\ \A q \in Owners \ {o} : reg'[q] = reg[q]
             /\ bytes' = bytes /\ aside' = aside
  <2>1. PICK e \in {NoEntry, Waiting(reg[o].holds, reg[o].fails + 1)} :
            reg' = [reg EXCEPT ![o] = e]
    BY <1>4 DEF RetryFails, MarkStuck
  <2>2. reg'[o] = e /\ \A q \in Owners \ {o} : reg'[q] = reg[q]
    BY <1>1, <2>1
  <2>3. e.cur = {}
    BY <2>1 DEF NoEntry, Waiting
  <2>4. bytes' = bytes /\ aside' = aside
    BY <1>4 DEF RetryFails, MarkStuck, disk
  <2> QED
    BY <2>2, <2>3, <2>4
<1>5. ASSUME reg' = [reg EXCEPT ![o] = NoEntry]
      PROVE  \A q \in Owners : reg'[q].cur \subseteq reg[q].cur
  BY <1>1, <1>5
<1>6. ASSUME NEW at, reg' = [reg EXCEPT ![o].at = at]
      PROVE  \A q \in Owners : reg'[q].cur \subseteq reg[q].cur
  BY <1>1, <1>6 DEF Entries
<1>7. CASE Retry(o) \/ RetryAllows(o) \/ PromoteLands(o) \/ RetrySealsBytes(o)
  BY <1>2, <1>3, <1>5, <1>7 DEF Retry, RetryAllows, PromoteLands, RetrySealsBytes
<1>8. CASE RetryRefuses(o) \/ RetrySealsRecord(o)
  BY <1>6, <1>8 DEF RetryRefuses, RetrySealsRecord, disk
<1>9. CASE ReadBack(o)
  <2>1. CASE RetryFails(o)
    BY <1>1, <1>4, <1>9, <2>1 DEF ReadBack
  <2>2. CASE MarkStuck(o)
    BY <1>5, <1>9, <2>2 DEF ReadBack, MarkStuck
  <2>3. CASE reg' = [reg EXCEPT ![o].at = "evaluate"] /\ UNCHANGED <<disk, stuck>>
    BY <1>6, <1>9, <2>3 DEF ReadBack, disk
  <2> QED
    BY <1>9, <2>1, <2>2, <2>3 DEF ReadBack
<1>10. CASE StillPending(o)
  BY <1>1, <1>10 DEF StillPending, disk
<1>11. CASE RetryBreaks(o) \/ PromoteFails(o)
  BY <1>1, <1>4, <1>11 DEF RetryBreaks, PromoteFails
<1> QED
  BY <1>7, <1>8, <1>9, <1>10, <1>11 DEF LoopStep, Judged

\* The same of a step of a save.
LEMMA SaveSealed ==
    ASSUME NEW u \in Uploads, IInv, refused, Scan(u) \/ SaveStep(u) \/ SaveFails(u)
    PROVE  /\ \A q \in Owners : reg'[q].cur \subseteq reg[q].cur
           /\ \A v \in Uploads : pc'[v] = "write" => pc[v] = "write"
           /\ aside' = aside /\ bytes' \in {bytes, "good"}
<1>1. reg \in [Owners -> Entries] /\ pc \in [Uploads -> PcSet] /\ OwnerOf[u] \in Owners
  BY HoldAssumption DEF IInv, Types
<1>2. ASSUME NEW p, p # "write", pc' = [pc EXCEPT ![u] = p]
      PROVE  \A v \in Uploads : pc'[v] = "write" => pc[v] = "write"
  BY <1>1, <1>2
<1>3. CASE Join(u)
  <2>1. \A q \in Owners : reg'[q].cur \subseteq reg[q].cur
    BY <1>1, <1>3 DEF Join, Entries
  <2> QED
    BY <1>2, <1>3, <2>1 DEF Join, Told, Goes
<1>4. CASE Scan(u) \/ ScanAllows(u) \/ ScanRefuses(u) \/ WriteEnds(u) \/ SaveFails(u)
  BY <1>2, <1>4 DEF Scan, ScanAllows, ScanRefuses, WriteEnds, SaveFails, Goes, Told, disk
<1>5. CASE SealRecord(u) \/ SealBytes(u) \/ Match(u) \/ Quarantine(u)
  BY <1>2, <1>5 DEF SealRecord, SealBytes, Match, Quarantine, Goes, Told, disk
<1>6. CASE Reconfirm(u) \/ ReconfirmStuck(u)
  BY <1>2, <1>6 DEF Reconfirm, ReconfirmStuck, Goes, Told, disk
<1>7. CASE ~Join(u) /\ (ScanHolds(u) \/ Second(u))
  BY <1>2, <1>7 DEF ScanHolds, Second, Goes, disk
<1>8. CASE ~Join(u) /\ Register(u)
  <2>1. \A q \in Owners : reg'[q].cur \subseteq reg[q].cur
    BY <1>1, <1>8 DEF Register, Waiting
  <2> QED
    BY <1>2, <1>8, <2>1 DEF Register, Goes, Told, disk
<1> QED
  BY <1>3, <1>4, <1>5, <1>6, <1>7, <1>8 DEF SaveStep

\* With the digest sealed, no step begins a write or loses the bytes.
LEMMA Sealed ==
    ASSUME IInv, refused, [Next]_vars
    PROVE  /\ InFlight' \subseteq InFlight
           /\ Evidence => Evidence'
<1>1. ASSUME \A q \in Owners : reg'[q].cur \subseteq reg[q].cur,
             \A v \in Uploads : pc'[v] = "write" => pc[v] = "write"
      PROVE  InFlight' \subseteq InFlight
  BY <1>1 DEF InFlight, Promoting
<1>2. ASSUME aside' = aside, bytes' \in {bytes, "good"}
      PROVE  Evidence => Evidence'
  BY <1>2 DEF Evidence
<1>3. CASE UNCHANGED vars
  BY <1>3 DEF vars, InFlight, Promoting, Evidence
<1>4. CASE \E u \in Uploads : Scan(u) \/ SaveStep(u) \/ SaveFails(u)
  BY <1>1, <1>2, <1>4, SaveSealed
<1>5. CASE \E o \in Owners : LoopStep(o) \/ Judged(o) \/ StillPending(o) \/ RetryBreaks(o)
  BY <1>1, <1>2, <1>5, LoopSealed
<1>6. CASE Crash \/ \E o \in Owners : CrashReleasing(o)
  <2>1. /\ pc' = [u \in Uploads |-> IF pc[u] = "idle" THEN "idle" ELSE "done"]
        /\ reg' = [o \in Owners |-> NoEntry]
    BY <1>6 DEF Crash, CrashReleasing, Dies
  <2>2. InFlight' \subseteq InFlight
    BY <1>1, <2>1 DEF NoEntry
  <2>3. Evidence => Evidence'
    BY <1>6 DEF Crash, CrashReleasing, Evidence
  <2> QED
    BY <2>2, <2>3
<1>7. CASE Boot
  <2>1. \A q \in Owners : reg'[q].cur = {}
    BY <1>7 DEF Boot, Resumed, Waiting, NoEntry
  <2>2. Evidence => Evidence'
    BY <1>7 DEF Boot, Orphaned, Restored, Evidence
  <2> QED
    BY <1>1, <1>7, <2>1, <2>2 DEF Boot
<1>8. CASE Age \/ Sweep \/ Rot
  <2>1. reg' = reg /\ pc' = pc
    BY <1>8 DEF Age, Sweep, Rot
  <2>2. Evidence => Evidence'
    BY <1>8 DEF Age, Sweep, Orphaned, Rot, Evidence
  <2> QED
    BY <1>1, <2>1, <2>2
<1> QED
  BY <1>3, <1>4, <1>5, <1>6, <1>7, <1>8 DEF Next, Upkeep

\* No save and no promotion begins a write of a digest any feature has
\* sealed: both look the record up after what they waited for.
THEOREM NoneAfterSeal == Spec => NoWriteAfterSeal
<1>1. IInv /\ [Next]_vars => [InFlight' \ InFlight # {} => ~refused]_vars
  BY Sealed
<1> QED
  BY <1>1, Invariant, PTL DEF Spec, NoWriteAfterSeal

\* What a refusal record names stays, under its own name or beside it:
\* through releases, sweeps, a crash inside a release and the restart.
THEOREM EvidenceStays == Spec => EvidenceKept
<1>1. IInv /\ [Next]_vars => [refused /\ Evidence => Evidence']_vars
  BY Sealed
<1> QED
  BY <1>1, Invariant, PTL DEF Spec, EvidenceKept

--------------------------------------------------------------------------
(* What an upload that was promised can count on.                          *)

\* A promise is never left to a retry nobody makes: while the process runs, a
\* held upload that is not settled is in the entry of its own registry, whose
\* timer is set or whose retry is under way.  What remains of Resolves is that
\* retries end.
THEOREM NobodyForgotten ==
    Spec => [](up /\ ~overlapped =>
                 \A u \in held : ~Settled(u) => /\ u \in reg[OwnerOf[u]].holds
                                                /\ reg[OwnerOf[u]].at # "none")
<1> DEFINE SeenTo == up /\ ~overlapped =>
                       \A u \in held : ~Settled(u) => /\ u \in reg[OwnerOf[u]].holds
                                                      /\ reg[OwnerOf[u]].at # "none"
<1>1. IInv => SeenTo
  <2> SUFFICES ASSUME IInv, up, ~overlapped, NEW u \in held, ~Settled(u)
               PROVE  u \in reg[OwnerOf[u]].holds /\ reg[OwnerOf[u]].at # "none"
    OBVIOUS
  <2>1. u \in Uploads /\ Promised(u) /\ sidecar.stuck = stuck
    BY CalmFacts DEF MarkBacked, IInv, Types
  <2> QED
    BY <2>1 DEF Promised, Settled
<1> QED
  BY <1>1, Invariant, PTL

\* A registry that resolves its entry takes no other registry's mark away.
LEMMA DropKeepsMarks ==
    ASSUME NEW o \in Owners, IInv, ~overlapped, up, reg[o].at # "none",
           sidecar' = (IF OthersWait(o) THEN Remaining(o) ELSE NoSidecar)
    PROVE  sidecar.stuck \subseteq sidecar'.stuck
<1>1. o \notin sidecar.stuck
  BY CalmFacts DEF EntryBacked, MarkBacked
<1>2. CASE OthersWait(o)
  BY <1>1, <1>2 DEF Remaining
<1>3. CASE ~OthersWait(o)
  <2>1. \A p \in sidecar.stuck : p \in Owners /\ sidecar.targets[p] # {}
    BY CalmFacts DEF MarkBacked, IInv, Types, Sidecars
  <2> QED
    BY <1>1, <1>3, <2>1 DEF OthersWait
<1> QED
  BY <1>2, <1>3

\* A step of a save leaves the marks alone.
LEMMA SaveMarks ==
    ASSUME NEW u \in Uploads, IInv, Scan(u) \/ SaveStep(u) \/ SaveFails(u)
    PROVE  sidecar.stuck \subseteq sidecar'.stuck /\ served' = served /\ (refused => refused')
<1>1. ASSUME NEW o, NEW targets, WriteOwnTargets(o, targets)
      PROVE  sidecar'.stuck = sidecar.stuck
  BY <1>1 DEF WriteOwnTargets, IInv, Types, Sidecars
<1>2. CASE ScanHolds(u) \/ Second(u) \/ Register(u)
  BY <1>1, <1>2 DEF ScanHolds, Second, Register, Join, disk
<1>3. CASE \/ Scan(u) \/ ScanAllows(u) \/ ScanRefuses(u) \/ WriteEnds(u) \/ SaveFails(u)
           \/ Match(u) \/ Quarantine(u) \/ Reconfirm(u) \/ ReconfirmStuck(u) \/ SealBytes(u)
  <2>1. sidecar' = sidecar /\ served' = served
    BY <1>3 DEF Scan, ScanAllows, ScanRefuses, WriteEnds, SaveFails, Match, Quarantine,
           Reconfirm, ReconfirmStuck, SealBytes, disk
  <2>2. refused' = refused
    BY <1>3 DEF Scan, ScanAllows, ScanRefuses, WriteEnds, SaveFails, Match, Quarantine,
           Reconfirm, ReconfirmStuck, SealBytes, disk
  <2> QED
    BY <2>1, <2>2
<1>4. CASE SealRecord(u)
  <2>1. sidecar' = sidecar /\ served' = served
    BY <1>4 DEF SealRecord
  <2>2. refused'
    BY <1>4 DEF SealRecord
  <2> QED
    BY <2>1, <2>2
<1> QED
  BY <1>2, <1>3, <1>4 DEF SaveStep

\* A step of a loop adds a mark, or resolves an entry.
LEMMA LoopMarks ==
    ASSUME NEW o \in Owners, IInv, ~overlapped,
           LoopStep(o) \/ Judged(o) \/ StillPending(o) \/ RetryBreaks(o)
    PROVE  /\ sidecar.stuck \subseteq sidecar'.stuck
           /\ served \subseteq served' /\ (refused => refused')
<1>1. sidecar \in Sidecars
  BY DEF IInv, Types
<1>2. ASSUME NEW keepBytes, Release(o, keepBytes), up, reg[o].at # "none"
      PROVE  sidecar.stuck \subseteq sidecar'.stuck /\ refused' = refused
  <2>1. sidecar' = (IF OthersWait(o) THEN Remaining(o) ELSE NoSidecar) /\ refused' = refused
    BY <1>2 DEF Release
  <2> QED
    BY <1>2, <2>1, DropKeepsMarks
<1>3. ASSUME NEW done, Advance(o, done), up, reg[o].at # "none"
      PROVE  sidecar.stuck \subseteq sidecar'.stuck /\ refused' = refused
  BY <1>2, <1>3 DEF Advance, disk
<1>4. ASSUME MarkStuck(o)
      PROVE  sidecar.stuck \subseteq sidecar'.stuck /\ refused' = refused
  BY <1>1, <1>4 DEF MarkStuck, Sidecars
<1>5. ASSUME RetryFails(o)
      PROVE  sidecar.stuck \subseteq sidecar'.stuck /\ refused' = refused
  BY <1>4, <1>5 DEF RetryFails, disk
<1>6. CASE Retry(o) \/ RetryAllows(o) \/ PromoteLands(o)
  BY <1>2, <1>3, <1>6 DEF Retry, RetryAllows, PromoteLands, disk
<1>7. CASE ReadBack(o) \/ RetryBreaks(o) \/ PromoteFails(o)
  BY <1>4, <1>5, <1>7 DEF ReadBack, RetryBreaks, PromoteFails, disk
<1>8. CASE RetryRefuses(o) \/ RetrySealsRecord(o) \/ StillPending(o)
  BY <1>8 DEF RetryRefuses, RetrySealsRecord, StillPending, disk
<1>9. CASE RetrySealsBytes(o)
  <2>1. /\ sidecar' = (IF OthersWait(o) THEN Remaining(o) ELSE NoSidecar)
        /\ up /\ reg[o].at # "none" /\ UNCHANGED <<served, refused>>
    BY <1>9 DEF RetrySealsBytes
  <2> QED
    BY <2>1, DropKeepsMarks
<1> QED
  BY <1>6, <1>7, <1>8, <1>9 DEF LoopStep, Judged

\* An upload that is promoted, refused or marked stuck for good stays so, whatever is
\* uploaded, resolved or restarted later: no registry that removes the sidecar
\* takes another's mark with it (#forget, #markStuck).
THEOREM SettledForGood ==
    Spec => [][~overlapped => \A u \in Uploads : Settled(u) => Settled(u)']_vars
<1>1. IInv /\ [Next]_vars =>
        [~overlapped => \A u \in Uploads : Settled(u) => Settled(u)']_vars
  <2> SUFFICES ASSUME IInv, Next, ~overlapped
               PROVE  /\ sidecar.stuck \subseteq sidecar'.stuck
                      /\ served \subseteq served' /\ (refused => refused')
    BY DEF Settled
  <2>1. CASE \E u \in Uploads : Scan(u) \/ SaveStep(u) \/ SaveFails(u)
    BY <2>1, SaveMarks
  <2>2. CASE \E o \in Owners : LoopStep(o) \/ Judged(o) \/ StillPending(o) \/ RetryBreaks(o)
    BY <2>2, LoopMarks
  <2>3. CASE Crash \/ \E o \in Owners : CrashReleasing(o)
    BY <2>3 DEF Crash, CrashReleasing, Dies
  <2>4. CASE Upkeep \/ Rot
    BY <2>4 DEF Upkeep, Boot, Age, Sweep, Rot
  <2> QED
    BY <2>1, <2>2, <2>3, <2>4 DEF Next
<1> QED
  BY <1>1, Invariant, PTL DEF Spec

\* Two holds of one owner have to overlap for a promise to be at risk: if no
\* feature is given the content twice, every upload that was promised is named on
\* disk, with bytes, until it is promoted or refused, without exception.
THEOREM OncePerOwnerIsSafe ==
    ASSUME \A u, v \in Uploads : OwnerOf[u] = OwnerOf[v] => u = v
    PROVE  Spec => [](\A u \in Uploads : u \in held /\ u \notin served /\ ~refused =>
                         u \in sidecar.targets[OwnerOf[u]] /\ bytes # "none")
<1> DEFINE Kept == \A u \in Uploads : u \in held /\ u \notin served /\ ~refused =>
                      u \in sidecar.targets[OwnerOf[u]] /\ bytes # "none"
<1>1. Init => ~overlapped
  BY DEF Init
<1>2. ~overlapped /\ [Next]_vars => ~overlapped'
  <2> SUFFICES ASSUME ~overlapped, [Next]_vars PROVE ~overlapped'
    OBVIOUS
  <2>1. ASSUME NEW u \in Uploads, Second(u) PROVE ~overlapped'
    <3>1. \A v \in Uploads : OwnerOf[v] = OwnerOf[u] => ~Unregistered(v)
      BY <2>1 DEF Second, Unregistered
    <3> QED
      BY <2>1, <3>1 DEF Second, Join
  <2>2. ASSUME NEW u \in Uploads, ~Second(u), Scan(u) \/ SaveStep(u) \/ SaveFails(u)
        PROVE  ~overlapped'
    BY <2>2 DEF SaveStep, Scan, ScanAllows, ScanRefuses, ScanHolds, Join, WriteEnds, SaveFails,
           SealRecord, SealBytes, Match, Quarantine, Reconfirm, ReconfirmStuck, Register, ghost
  <2>3. ASSUME NEW o \in Owners,
               LoopStep(o) \/ Judged(o) \/ StillPending(o) \/ RetryBreaks(o) \/ CrashReleasing(o)
        PROVE  ~overlapped'
    BY <2>3 DEF LoopStep, Judged, Retry, ReadBack, RetrySealsRecord, RetrySealsBytes, PromoteLands,
           PromoteFails, RetryAllows, RetryRefuses, StillPending, RetryBreaks, CrashReleasing,
           Dies, ghost
  <2>4. CASE Upkeep \/ Rot \/ Crash \/ UNCHANGED vars
    BY <2>4 DEF Upkeep, Boot, Age, Sweep, Rot, Crash, Dies, ghost, vars
  <2> QED
    BY <2>1, <2>2, <2>3, <2>4 DEF Next
<1>3. ~overlapped /\ HeldNotLost => Kept
  BY DEF HeldNotLost
<1> QED
  BY <1>1, <1>2, <1>3, HeldKept, PTL DEF Spec

====
