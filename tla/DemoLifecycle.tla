---- MODULE DemoLifecycle ----
(***************************************************************************)
(* The demo's history, its term and the hostname register: portal/data     *)
(* (demoStates.ts, demoLifecycle.ts, provisioner/index.ts, the tables of   *)
(* schema.ts).  The tables are append-only.  Every operation is one        *)
(* transaction at READ COMMITTED that reads, decides and then inserts, and *)
(* several may run at once: what they decided on may be old when they      *)
(* insert.  now() is the time the transaction began.  A row's place in the *)
(* history is its sequence number; an insert is committed in the step that *)
(* makes it, as another one of the same key waits for its outcome.         *)
(***************************************************************************)
EXTENDS Integers, Sequences

CONSTANTS Demos, Labels,
          Workers,        \* transactions that may be open at once
          Null,           \* SQL's NULL, and no demo
          LeaseDays,      \* LEASE_DAYS
          ExtensionDays,  \* EXTENSION_DAYS
          MaxRows,        \* bound: rows of one demo's history
          MaxClock        \* bound: the database's clock

ASSUME DemoAssumption ==
    /\ LeaseDays \in Nat \ {0} /\ ExtensionDays \in Nat \ {0}
    /\ MaxRows \in Nat /\ MaxClock \in Nat
    /\ Null \notin Demos /\ Null \notin Int

VARIABLES history,   \* portal.demo_state_event: the rows of one demo
          register,  \* portal.hostname_register: the demo of each label
          retired,   \* portal.hostname_retirement
          clock,
          pc, job,   \* where each transaction stands, and what it has read
          rejected   \* a check or a foreign key of the tables refused a row

vars == <<history, register, retired, clock, pc, job, rejected>>

--------------------------------------------------------------------------
(* demoStates.ts: the states and the one closed set of moves.              *)

DemoStates == {"VERIFIED", "WAITING", "CLAIMED", "PROVISIONING", "LIVE",
               "EXTENDED", "EXPIRING", "REBUILDING", "PROMOTING", "PROMOTED",
               "FAILED", "KILLED", "FROZEN", "PURGED"}

SlotHolding == {"CLAIMED", "PROVISIONING", "LIVE", "EXTENDED", "EXPIRING",
                "REBUILDING", "PROMOTING"}

SafetyExits == {"KILLED", "FROZEN"}

Exits ==
    [VERIFIED     |-> {"CLAIMED", "WAITING"},
     WAITING      |-> {"CLAIMED"},
     CLAIMED      |-> {"PROVISIONING", "WAITING"},
     PROVISIONING |-> {"LIVE", "FAILED"},
     LIVE         |-> {"EXPIRING", "EXTENDED", "PROMOTING", "REBUILDING"},
     EXTENDED     |-> {"EXPIRING", "PROMOTING", "REBUILDING"},
     EXPIRING     |-> {"PURGED", "EXTENDED", "PROMOTING"},
     REBUILDING   |-> {"LIVE", "EXTENDED", "FAILED"},
     PROMOTING    |-> {"PROMOTED", "LIVE", "EXTENDED", "EXPIRING"},
     PROMOTED |-> {}, FAILED |-> {}, KILLED |-> {}, FROZEN |-> {}, PURGED |-> {}]

NextStates ==
    [s \in DemoStates |-> Exits[s] \cup (IF s \in SlotHolding THEN SafetyExits ELSE {})]

BeforeLease == {"VERIFIED", "WAITING", "CLAIMED"}

WithLease == {"PROVISIONING", "LIVE", "EXTENDED", "EXPIRING", "REBUILDING",
              "PROMOTING", "PROMOTED", "PURGED"}

AllowedAnywhere(row, to) ==
    /\ to \in NextStates[row.to]
    /\ to = "EXTENDED" => row.to \in {"PROMOTING", "REBUILDING"}

\* assertTransitionAllowed(): an extension is extend's, and a promotion or a
\* rebuild that does not complete returns to the state it came from.
TransitionAllowed(row, to) ==
    /\ to \in NextStates[row.to]
    /\ to = "EXTENDED" => row.to \in {"PROMOTING", "REBUILDING"}
    /\ row.to = "PROMOTING" => to \in {"PROMOTED", row.from} \cup SafetyExits
    /\ row.to = "REBUILDING" => to \in {"FAILED", row.from} \cup SafetyExits

--------------------------------------------------------------------------
(* The tables, and what they refuse by themselves.                         *)

Row(from, to, issued, ends, ext) ==
    [from |-> from, to |-> to, issued |-> issued, ends |-> ends, ext |-> ext]

FirstRow == Row("none", "VERIFIED", Null, Null, 0)

Latest(d) == history[d][Len(history[d])]

\* The checks of demo_state_event and its foreign key to the previous row.
Accepted(d, row) ==
    /\ IF history[d] = <<>>
       THEN row.from = "none" /\ row.to = "VERIFIED"
       ELSE row.from = Latest(d).to /\ row.to \in NextStates[row.from]
    /\ (row.issued = Null) <=> (row.ends = Null)
    /\ row.issued # Null => row.ends > row.issued
    /\ row.to \in BeforeLease => row.ends = Null
    /\ row.to \in WithLease => row.ends # Null
    /\ row.to = "PROVISIONING" => row.ends = row.issued + LeaseDays
    /\ row.ext = 0 \/ row.to = "EXTENDED"

Idle == [op |-> "none", demo |-> Null, start |-> 0, seen |-> 0, row |-> FirstRow]

Init ==
    /\ history = [d \in Demos |-> <<>>]
    /\ register = [l \in Labels |-> Null]
    /\ retired = {}
    /\ clock = 0
    /\ pc = [w \in Workers |-> "idle"]
    /\ job = [w \in Workers |-> Idle]
    /\ rejected = FALSE

--------------------------------------------------------------------------
(* One transaction: begun, read, decided, inserted.                        *)

Goes(w, to) == pc' = [pc EXCEPT ![w] = to]

Ends(w) == Goes(w, "idle") /\ job' = [job EXCEPT ![w] = Idle]

Tables == <<history, register, retired, rejected>>

\* run(): the transaction begins, and its now() with it.
Run(w, d, op) ==
    /\ pc[w] = "idle"
    /\ Goes(w, IF op = "beginDemo" THEN "insert" ELSE "begun")
    /\ job' = [job EXCEPT ![w] = [Idle EXCEPT !.op = op, !.demo = d, !.start = clock]]
    /\ UNCHANGED <<Tables, clock>>

\* The row to append, after the latest one that was read.
Appends(w, d, to, row) ==
    /\ Goes(w, to)
    /\ job' = [job EXCEPT ![w] = [Idle EXCEPT !.demo = d, !.seen = Len(history[d]),
                                              !.row = row]]

\* issuedNow(): the term starts at the time the transaction began.
Issued(w, row) ==
    Row(row.to, "PROVISIONING", job[w].start, job[w].start + LeaseDays, 0)

\* The previous row's term, unchanged.
Carried(row, to) == Row(row.to, to, row.issued, row.ends, 0)

\* transition(): the latest row is read and the move decided on it.
ReadTransition(w, to) ==
    LET d == job[w].demo
    IN  /\ pc[w] = "begun" /\ job[w].op = "transition"
        /\ IF history[d] # <<>> /\ TransitionAllowed(Latest(d), to)
           THEN Appends(w, d, "insert", IF to = "PROVISIONING"
                                        THEN Issued(w, Latest(d))
                                        ELSE Carried(Latest(d), to))
           ELSE Ends(w)
        /\ UNCHANGED <<Tables, clock>>

ExtendedByHours(row) ==
    Row(row.to, "EXTENDED", row.issued, row.ends + ExtensionDays, ExtensionDays * 24)

\* The end of the term moved on, and nothing else about it.
Extended(row) ==
    Row(row.to, "EXTENDED", row.issued, row.ends + ExtensionDays, ExtensionDays)

\* extend(): the latest row is read.
ReadExtend(w) ==
    LET d == job[w].demo
    IN  /\ pc[w] = "begun" /\ job[w].op = "extend"
        /\ IF history[d] # <<>> /\ Latest(d).to \in {"LIVE", "EXPIRING"}
           THEN Appends(w, d, "count", Extended(Latest(d)))
           ELSE Ends(w)
        /\ UNCHANGED <<Tables, clock>>

ExtendedBy(h, n) == \E k \in 1 .. n : h[k].ext > 0

Taken(d) == ExtendedBy(history[d], Len(history[d]))

ExtendUncounted(w) ==
    /\ pc[w] = "count"
    /\ Goes(w, "insert") /\ UNCHANGED job
    /\ UNCHANGED <<Tables, clock>>

\* extend(): the extensions taken are counted, in a statement of its own.
CountExtensions(w) ==
    /\ pc[w] = "count"
    /\ IF Taken(job[w].demo) THEN Ends(w) ELSE Goes(w, "insert") /\ UNCHANGED job
    /\ UNCHANGED <<Tables, clock>>

InsertUnkeyed(w) ==
    LET d == job[w].demo  row == job[w].row
    IN  /\ pc[w] = "insert" /\ Len(history[d]) < MaxRows
        /\ IF Accepted(d, row)
           THEN history' = [history EXCEPT ![d] = Append(@, row)] /\ rejected' = rejected
           ELSE history' = history /\ rejected' = TRUE
        /\ Ends(w)
        /\ UNCHANGED <<register, retired, clock>>

\* append() and beginDemo(): the insert.  The primary key lets one row take
\* a position; the other operation is told so (ConcurrentTransitionError,
\* DemoExistsError).
Insert(w) ==
    LET d == job[w].demo  row == job[w].row
    IN  /\ pc[w] = "insert" /\ Len(history[d]) < MaxRows
        /\ IF Len(history[d]) # job[w].seen
           THEN history' = history /\ rejected' = rejected
           ELSE IF Accepted(d, row)
           THEN history' = [history EXCEPT ![d] = Append(@, row)] /\ rejected' = rejected
           ELSE history' = history /\ rejected' = TRUE
        /\ Ends(w)
        /\ UNCHANGED <<register, retired, clock>>

\* allocateHostname(): only a CLAIMED demo gets one, by what was read.
ReadAllocate(w) ==
    LET d == job[w].demo
    IN  /\ pc[w] = "begun" /\ job[w].op = "allocateHostname"
        /\ IF history[d] # <<>> /\ Latest(d).to = "CLAIMED"
           THEN Goes(w, "name") /\ UNCHANGED job
           ELSE Ends(w)
        /\ UNCHANGED <<Tables, clock>>

\* A random label, kept if neither it nor the demo is in the register.
InsertLabel(w) ==
    /\ pc[w] = "name"
    /\ \E l \in Labels :
          register' = IF register[l] = Null /\ \A k \in Labels : register[k] # job[w].demo
                      THEN [register EXCEPT ![l] = job[w].demo] ELSE register
    /\ Ends(w)
    /\ UNCHANGED <<history, retired, rejected, clock>>

\* retireHostname(): a row of its own, once, for a label in the register.
RetireHostname(l) ==
    /\ register[l] # Null /\ l \notin retired
    /\ retired' = retired \cup {l}
    /\ UNCHANGED <<history, register, rejected, clock, pc, job>>

\* The connection or the worker is lost: the transaction is rolled back.
Rollback(w) ==
    /\ pc[w] # "idle"
    /\ Ends(w)
    /\ UNCHANGED <<Tables, clock>>

Tick ==
    /\ clock < MaxClock
    /\ clock' = clock + 1
    /\ UNCHANGED <<Tables, pc, job>>

Ops == {"beginDemo", "transition", "extend", "allocateHostname"}

WorkerStep(w) ==
    \/ \E d \in Demos, op \in Ops : Run(w, d, op)
    \/ \E to \in DemoStates : ReadTransition(w, to)
    \/ ReadExtend(w) \/ CountExtensions(w) \/ Insert(w)
    \/ ReadAllocate(w) \/ InsertLabel(w) \/ Rollback(w)

Next ==
    \/ \E w \in Workers : WorkerStep(w)
    \/ \E l \in Labels : RetireHostname(l)
    \/ Tick

Spec == Init /\ [][Next]_vars

--------------------------------------------------------------------------
(* Properties.                                                             *)

Times == Int \cup {Null}

Rows == [from : DemoStates \cup {"none"}, to : DemoStates, issued : Times,
         ends : Times, ext : {0, ExtensionDays}]

\* Every variable stays in its set; a row holds the extension in the unit its
\* column is read in (schema.ts).
TypeOK ==
    /\ history \in [Demos -> Seq(Rows)]
    /\ register \in [Labels -> Demos \cup {Null}]
    /\ retired \subseteq {l \in Labels : register[l] # Null}
    /\ clock \in Nat
    /\ pc \in [Workers -> {"idle", "begun", "count", "insert", "name"}]
    /\ job \in [Workers -> [op : Ops \cup {"none"}, demo : Demos \cup {Null},
                            start : Nat, seen : Nat, row : Rows]]
    /\ rejected \in BOOLEAN

SameStart(h) ==
    \A i, j \in 1 .. Len(h) : i < j /\ h[i].issued # Null => h[j].issued = h[i].issued

OneExtension(h) ==
    \A i, j \in 1 .. Len(h) :
        i < j /\ h[i].ext > 0 => h[j].ext = 0 /\ h[j].ends = h[i].ends

ExactEnd(h) ==
    \A i \in 1 .. Len(h) :
        h[i].issued # Null =>
            h[i].ends = h[i].issued + LeaseDays
                        + (IF ExtendedBy(h, i) THEN ExtensionDays ELSE 0)

\* All rows of a demo that carry a term carry one: the same start, an end
\* LeaseDays later before the one extension and ExtensionDays more from it
\* on, however operations on the demo race (issuedNow, carried, extend).
TermKept ==
    \A d \in Demos : /\ SameStart(history[d])
                     /\ OneExtension(history[d])
                     /\ ExactEnd(history[d])

\* No operation ever sends a row that a check or the foreign key of the
\* table refuses: the rules of the code are within those of the database,
\* also for rows decided on a state that is gone (schema.ts).
NeverRejected == ~rejected

--------------------------------------------------------------------------
(* The promise of DemoRegister.                                            *)

Promise == INSTANCE DemoRegister WITH
    Moves    <- NextStates,
    state    <- [d \in Demos |-> IF history[d] = <<>> THEN "none" ELSE Latest(d).to],
    issued   <- [d \in Demos |-> IF history[d] = <<>> THEN Null ELSE Latest(d).issued],
    ends     <- [d \in Demos |-> IF history[d] = <<>> THEN Null ELSE Latest(d).ends],
    extended <- [d \in Demos |-> Taken(d)],
    hostname <- register

\* The history and the register, written by racing transactions, are one
\* object with one state, one term and one name per demo, changed in single
\* steps (ProvisionerDb).
PromiseSpec == Promise!Spec

====
