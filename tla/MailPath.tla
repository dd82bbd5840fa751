------------------------------ MODULE MailPath ------------------------------
(***************************************************************************)
(* The road of a mail from Ghost to mx1 and of its outcome back.           *)
(*                                                                         *)
(* services/mailgun-shim runs beside each tenant and keeps the spool, an   *)
(* SQLite table of recipients (status, drain_count, held_until).           *)
(* services/mail-collector drains it over HTTP: it leases a batch, submits *)
(* every message to mx1 over SMTP, remembers the ids it submitted, and     *)
(* acks.  mx1's delivery notifications land in a directory, from which the *)
(* collector reports the outcome of each message to the spool.             *)
(*                                                                         *)
(* The shim's handlers are synchronous transactions: one action each.  The *)
(* collector's loop is cut at its awaits.  One spool and one collector.    *)
(* A message is a recipient row, numbered in the order of the queue; an    *)
(* offer is an id with the generation (drainCount) it was handed out under.*)
(***************************************************************************)
EXTENDS Naturals, FiniteSets, Sequences

CONSTANTS
    Size,        \* messages sent during a behaviour
    BatchOf,     \* the batch (one request of Ghost) each message belongs to
    Recipient,   \* the address each message goes to
    Unsafe,      \* messages whose address isSafeRecipientAddress refuses
    BatchLimit,  \* options.batchLimit of the drain route
    Faults,      \* the kinds of fault that may strike
    MaxFaults    \* bound on the faults of a behaviour

Messages  == 1 .. Size
Batches   == {BatchOf[m] : m \in Messages}
Addresses == {Recipient[m] : m \in Messages}

FaultKinds == {"crash",      \* the collector's process dies
               "refused",    \* mx1 or the way to it refuses a submission
               "unclear",    \* deliver() rejects although mx1 took the message
               "lostAck",    \* an ack request fails; it may still arrive, later
               "orphan",     \* a batch leased to a client that has gone
               "slow",       \* the collector outlives a lease or a grace period
               "forget",     \* an id outlives the dedupe TTL
               "disk",       \* the dedupe file cannot be written
               "delayed",    \* mx1 sends a notice of delay
               "lostAnswer", \* the answer to a report of outcomes is lost
               "retire"}     \* a notice cannot be moved to processed/

ASSUME SizeAssumption    == Size \in Nat
ASSUME UnsafeAssumption  == Unsafe \subseteq Messages
ASSUME LimitAssumption   == BatchLimit \in Nat \ {0}
ASSUME FaultsAssumption  == Faults \subseteq FaultKinds /\ MaxFaults \in Nat

VARIABLES
    \* the spool of the tenant
    status,     \* queue_recipients.status, "none" before the message is queued
    gen,        \* queue_recipients.drain_count
    lapsed,     \* held rows whose held_until has come
    completed,  \* batches with a completed_at
    deleted,    \* batches cleanup removed with their rows
    suppressed, \* addresses in the suppressions table
    told,       \* the final outcome events Ghost can poll, per message
    \* the collector's process, and the ids it persists
    pc,         \* what its drain loop awaits
    batch,      \* offers of the drained batch it has still to submit
    acks,       \* offers of the batch it has to ack
    seen,       \* ids the dedupe tracker holds
    listed,     \* notices of the outcome pass it has still to retire or keep
    unknown,    \* ids the spool answered "unknown" to in that pass
    seenDisk,   \* ids in the dedupe file
    \* outside
    lateAcks,   \* ack requests the collector gave up on that may still arrive
    accepted,   \* offers mx1 took over
    delivered,  \* offers that reached their recipient
    bounced,    \* offers mx1 gave up on
    mailbox,    \* delivery notifications not yet retired
    stale,      \* notifications older than unknownGraceMs
    gaps,       \* reasons there were to submit a message once more
    faults

spool     == <<status, gen, lapsed, completed, deleted, suppressed, told>>
drainLoop == <<pc, batch, acks>>
outcomes  == <<listed, unknown>>
mx1       == <<accepted, delivered, bounced>>
vars      == <<status, gen, lapsed, completed, deleted, suppressed, told,
               pc, batch, acks, seen, listed, unknown, seenDisk, lateAcks,
               accepted, delivered, bounced, mailbox, stale, gaps, faults>>

QueueRecipientStatus == {"none", "pending", "held", "sent", "delivered", "failed", "suppressed"}
Terminal == {"sent", "delivered", "failed", "suppressed"}
Offers  == [id : Messages, drainCount : Nat]
Notices == [id : Messages, drainCount : Nat, outcome : {"delivered", "bounced", "delayed"}]

TypeOK ==
    /\ status \in [Messages -> QueueRecipientStatus]
    /\ gen \in [Messages -> Nat]
    /\ lapsed \subseteq {m \in Messages : status[m] = "held"}
    /\ completed \subseteq Batches /\ deleted \subseteq completed
    /\ suppressed \subseteq Addresses
    /\ told \in [Messages -> Seq({"delivered", "failed"})]
    /\ pc \in {"idle", "submitting", "accepted", "acking"}
    /\ batch \subseteq Offers /\ acks \subseteq Offers
    /\ (pc = "idle" => batch = {} /\ acks = {}) /\ (pc = "acking" => batch = {} /\ acks # {})
    /\ (pc \in {"submitting", "accepted"} => batch # {})
    /\ seen \subseteq Messages /\ seenDisk \subseteq Messages
    /\ listed \subseteq mailbox /\ unknown \subseteq Messages
    /\ \A request \in lateAcks : request \subseteq Offers
    /\ accepted \subseteq Offers
    /\ delivered \subseteq accepted /\ bounced \subseteq accepted
    /\ mailbox \subseteq Notices /\ stale \subseteq mailbox
    /\ gaps \in [Messages -> Nat]
    /\ faults \in 0 .. MaxFaults

Init ==
    /\ status = [m \in Messages |-> "none"] /\ gen = [m \in Messages |-> 0]
    /\ lapsed = {} /\ completed = {} /\ deleted = {} /\ suppressed = {}
    /\ told = [m \in Messages |-> <<>>]
    /\ pc = "idle" /\ batch = {} /\ acks = {} /\ seen = {} /\ seenDisk = {}
    /\ listed = {} /\ unknown = {} /\ lateAcks = {}
    /\ accepted = {} /\ delivered = {} /\ bounced = {}
    /\ mailbox = {} /\ stale = {}
    /\ gaps = [m \in Messages |-> 0] /\ faults = 0

Fault(kind) == kind \in Faults /\ faults < MaxFaults /\ faults' = faults + 1

HasRow(m) == status[m] # "none" /\ BatchOf[m] \notin deleted
Offer(m) == [id |-> m, drainCount |-> gen[m]]
Ids(S) == {c.id : c \in S}

-----------------------------------------------------------------------------
(* The spool: store.ts and the routes that call it.                        *)

\* Mutant: a batch is complete once anything in it is.
CompletedByAny(b, st) == {b}

\* maybeCompleteBatch: no row of the batch is outstanding.
CompletedWith(b, st) ==
    IF \A m \in Messages : BatchOf[m] = b => st[m] \in Terminal THEN {b} ELSE {}

\* The batches completed by resolving the rows R, whose statuses are now st.
Completes(R, st) == completed \cup UNION {CompletedWith(BatchOf[m], st) : m \in R}

\* POST /v3/:domain/messages: all the rows of a batch in one transaction.
\* Message numbers are queue positions, so the next batch has the next numbers.
Enqueue(b) ==
    LET rows == {m \in Messages : BatchOf[m] = b} IN
    /\ \A m \in rows : status[m] = "none"
    /\ \A m \in rows, k \in Messages \ rows : k < m => status[k] # "none"
    /\ status' = [m \in Messages |-> IF m \in rows THEN "pending" ELSE status[m]]
    /\ UNCHANGED <<gen, lapsed, completed, deleted, suppressed, told, drainLoop, seen,
                   outcomes, seenDisk, lateAcks, mx1, mailbox, stale, gaps, faults>>

\* Mutant: a leased row is not offered again.
DueOnce == {m \in Messages : status[m] = "pending"}

\* The rows a claim looks at, in queue order.
Due == {m \in Messages : status[m] = "pending" \/ m \in lapsed}
Candidates == {m \in Due : Cardinality({k \in Due : k < m}) < BatchLimit}
Suppressed(m) == Recipient[m] \in suppressed
Sendable(m) == ~Suppressed(m) /\ m \notin Unsafe

\* claimForDrain: the candidates up to the first sendable one the throttle
\* refuses.  What may not be mailed is resolved in place, the rest is leased.
Claim(P) ==
    LET leased == {m \in P : Sendable(m)}
        st == [m \in Messages |-> IF m \notin P THEN status[m]
                                  ELSE IF Suppressed(m) THEN "suppressed"
                                  ELSE IF m \in Unsafe THEN "failed" ELSE "held"]
    IN  /\ P # {}
        /\ \/ P = Candidates
           \/ \E stop \in Candidates : Sendable(stop) /\ P = {m \in Candidates : m < stop}
        /\ status' = st
        /\ gen' = [m \in Messages |-> IF m \in leased THEN gen[m] + 1 ELSE gen[m]]
        /\ lapsed' = lapsed \ P
        /\ completed' = Completes(P \ leased, st)
        /\ told' = [m \in Messages |-> IF m \in P /\ st[m] = "failed"
                                       THEN Append(told[m], "failed") ELSE told[m]]
        /\ UNCHANGED <<deleted, suppressed>>

\* Offers made by a claim of P.
Leased(P) == {[id |-> m, drainCount |-> gen[m] + 1] : m \in {k \in P : Sendable(k)}}

\* ackDrain: only a row still held at the generation named becomes "sent".
AckDrain(request) ==
    LET rows == {c.id : c \in {d \in request :
                   HasRow(d.id) /\ status[d.id] = "held" /\ gen[d.id] = d.drainCount}}
        st == [m \in Messages |-> IF m \in rows THEN "sent" ELSE status[m]]
    IN  /\ status' = st
        /\ lapsed' = lapsed \ rows
        /\ completed' = Completes(rows, st)
        /\ UNCHANGED <<gen, deleted, suppressed, told>>

\* now reaches held_until.  A collector that still works on the message is slow.
LeaseLapses(m) ==
    /\ status[m] = "held" /\ m \notin lapsed
    /\ IF Offer(m) \in batch \cup acks THEN Fault("slow") ELSE UNCHANGED faults
    /\ lapsed' = lapsed \cup {m}
    /\ UNCHANGED <<status, gen, completed, deleted, suppressed, told, drainLoop, seen,
                   outcomes, seenDisk, lateAcks, mx1, mailbox, stale, gaps>>

\* DELETE /v3/:domain/:type/:address.
RemoveSuppression(a) ==
    /\ a \in suppressed
    /\ suppressed' = suppressed \ {a}
    /\ UNCHANGED <<status, gen, lapsed, completed, deleted, told, drainLoop, seen,
                   outcomes, seenDisk, lateAcks, mx1, mailbox, stale, gaps, faults>>

\* cleanupCompletedBatches, once the retention of the batch is over.
Cleanup(b) ==
    /\ b \in completed \ deleted
    /\ deleted' = deleted \cup {b}
    /\ UNCHANGED <<status, gen, lapsed, completed, suppressed, told, drainLoop, seen,
                   outcomes, seenDisk, lateAcks, mx1, mailbox, stale, gaps, faults>>

-----------------------------------------------------------------------------
(* The collector's drain loop: collectorLoop.ts, dedupe.ts.                *)

\* GET /drain: the held request returns the offers of a claim.
Drain ==
    /\ pc = "idle"
    /\ \E P \in SUBSET Candidates :
         /\ Claim(P)
         /\ batch' = Leased(P)
         /\ pc' = IF Leased(P) = {} THEN "idle" ELSE "submitting"
    /\ UNCHANGED <<acks, seen, outcomes, seenDisk, lateAcks, mx1, mailbox, stale, gaps, faults>>

\* The client closed the connection after the loop looked at clientGone: the
\* claim stands and nobody works on it.
OrphanClaim ==
    /\ Fault("orphan")
    /\ \E P \in SUBSET Candidates : Claim(P)
    /\ UNCHANGED <<drainLoop, seen, outcomes, seenDisk, lateAcks, mx1, mailbox, stale, gaps>>

\* Offers are submitted in the order of the batch.
Head1 == CHOOSE c \in batch : \A d \in batch : c.id <= d.id

\* The head is done with, and will be acked if it was submitted.
Advance(done) ==
    /\ batch' = batch \ {Head1}
    /\ acks' = acks \cup done
    /\ pc' = IF batch' # {} THEN "submitting" ELSE IF acks' # {} THEN "acking" ELSE "idle"

\* Mutant: the rest of the batch survives the break.
BreakOffKeepingBatch ==
    /\ UNCHANGED <<batch, acks>>
    /\ pc' = IF acks = {} THEN "idle" ELSE "acking"

\* The loop breaks: the head and the rest of the batch stay unacked.
BreakOff ==
    /\ batch' = {} /\ UNCHANGED acks
    /\ pc' = IF acks = {} THEN "idle" ELSE "acking"

\* dedupe.has(id): the id was submitted before, and is only acked.
SkipSubmitted ==
    /\ pc = "submitting" /\ Head1.id \in seen
    /\ Advance({Head1})
    /\ UNCHANGED <<spool, seen, outcomes, seenDisk, lateAcks, mx1, mailbox, stale, gaps, faults>>

\* Mutant: the loop does not ask the dedupe tracker.
Mx1AcceptsUnasked ==
    /\ pc = "submitting"
    /\ accepted' = accepted \cup {Head1}
    /\ pc' = "accepted"
    /\ UNCHANGED <<spool, batch, acks, seen, outcomes, seenDisk, lateAcks, delivered,
                   bounced, mailbox, stale, gaps, faults>>

\* mx1 takes the message deliver() is submitting; the promise is still pending.
Mx1Accepts ==
    /\ pc = "submitting" /\ Head1.id \notin seen
    /\ accepted' = accepted \cup {Head1}
    /\ pc' = "accepted"
    /\ UNCHANGED <<spool, batch, acks, seen, outcomes, seenDisk, lateAcks, delivered,
                   bounced, mailbox, stale, gaps, faults>>

Gap(M) == gaps' = [m \in Messages |-> IF m \in M THEN gaps[m] + 1 ELSE gaps[m]]

\* deliver() resolves: markSubmitted() remembers the id and writes the file.
SubmitResolves ==
    /\ pc = "accepted"
    /\ seen' = seen \cup {Head1.id}
    /\ \/ seenDisk' = seen' /\ UNCHANGED <<gaps, faults>>
       \/ Fault("disk") /\ Gap({Head1.id}) /\ UNCHANGED seenDisk
    /\ Advance({Head1})
    /\ UNCHANGED <<spool, outcomes, lateAcks, mx1, mailbox, stale>>

\* Mutant: an offer mx1 refused is acked with the others.
SubmitFailsAcked ==
    /\ pc \in {"submitting", "accepted"} /\ Head1.id \notin seen
    /\ IF pc = "submitting" THEN Fault("refused") /\ UNCHANGED gaps
                            ELSE Fault("unclear") /\ Gap({Head1.id})
    /\ Advance({Head1})
    /\ UNCHANGED <<spool, seen, outcomes, seenDisk, lateAcks, mx1, mailbox, stale>>

\* deliver() rejects, before mx1 took the message or ("unclear") after.
SubmitFails ==
    /\ pc \in {"submitting", "accepted"} /\ Head1.id \notin seen
    /\ IF pc = "submitting" THEN Fault("refused") /\ UNCHANGED gaps
                            ELSE Fault("unclear") /\ Gap({Head1.id})
    /\ BreakOff
    /\ UNCHANGED <<spool, seen, outcomes, seenDisk, lateAcks, mx1, mailbox, stale>>

\* POST /drain/ack reaches the spool.
AckHandled ==
    /\ pc = "acking"
    /\ AckDrain(acks)
    /\ pc' = "idle" /\ acks' = {}
    /\ UNCHANGED <<batch, seen, outcomes, seenDisk, lateAcks, mx1, mailbox, stale, gaps, faults>>

\* The request fails for the collector, which drains on.
AckFails ==
    /\ pc = "acking" /\ Fault("lostAck")
    /\ lateAcks' = lateAcks \cup {acks}
    /\ pc' = "idle" /\ acks' = {}
    /\ UNCHANGED <<spool, batch, seen, outcomes, seenDisk, mx1, mailbox, stale, gaps>>

\* A request given up on arrives after all; otherwise it is lost.
LateAck(request) ==
    /\ request \in lateAcks
    /\ AckDrain(request)
    /\ lateAcks' = lateAcks \ {request}
    /\ UNCHANGED <<drainLoop, seen, outcomes, seenDisk, mx1, mailbox, stale, gaps, faults>>

\* sweep(): the entry of an id has outlived the TTL.
SweepForgets(m) ==
    /\ m \in seen /\ Fault("forget")
    /\ seen' = seen \ {m}
    /\ seenDisk' = seen'
    /\ Gap({m})
    /\ UNCHANGED <<spool, drainLoop, outcomes, lateAcks, mx1, mailbox, stale>>

\* Mutant: whatever the spool answered, the notice is retired.
KeptNever(n) == FALSE

\* Mutant: it is kept however old it is.
KeptForever(n) == n.id \in unknown

\* A notice whose id the spool does not place is kept for an hour.
Kept(n) == n.id \in unknown /\ n \notin stale

\* What the outcome pass may move to processed/ of the notices it reported.
Retirable == {n \in listed : ~Kept(n)}
Retire(S) == mailbox' = mailbox \ S /\ stale' = stale \ S

\* The process dies and starts again with the ids of the file.  What mx1 has
\* taken by then without markSubmitted() having run will be submitted again,
\* and an outcome pass has got through some of its notices.
CollectorCrash ==
    /\ Fault("crash")
    /\ pc' = "idle" /\ batch' = {} /\ acks' = {} /\ listed' = {} /\ unknown' = {}
    /\ lateAcks' = IF pc = "acking" THEN lateAcks \cup {acks} ELSE lateAcks
    /\ seen' = seenDisk
    /\ Gap(IF pc = "accepted" THEN {Head1.id} ELSE {})
    /\ \E S \in SUBSET Retirable : Retire(S)
    /\ UNCHANGED <<spool, seenDisk, mx1>>

-----------------------------------------------------------------------------
(* mx1 and its notifications, external.                                    *)

Notify(c, outcome) ==
    mailbox' = mailbox \cup {[id |-> c.id, drainCount |-> c.drainCount, outcome |-> outcome]}

Fateless(c) == c \in accepted \ (delivered \cup bounced)

Mx1Delivers(c) ==
    /\ Fateless(c)
    /\ delivered' = delivered \cup {c}
    /\ Notify(c, "delivered")
    /\ UNCHANGED <<spool, drainLoop, seen, outcomes, seenDisk, lateAcks, accepted,
                   bounced, stale, gaps, faults>>

Mx1Bounces(c) ==
    /\ Fateless(c)
    /\ bounced' = bounced \cup {c}
    /\ Notify(c, "bounced")
    /\ UNCHANGED <<spool, drainLoop, seen, outcomes, seenDisk, lateAcks, accepted,
                   delivered, stale, gaps, faults>>

Mx1Delays(c) ==
    /\ Fateless(c) /\ Fault("delayed")
    /\ Notify(c, "delayed")
    /\ UNCHANGED <<spool, drainLoop, seen, outcomes, seenDisk, lateAcks, mx1, stale, gaps>>

-----------------------------------------------------------------------------
(* The outcome pass: outcomeRunner.ts and recordOutcomes of the spool.     *)

\* Mutant: any generation of the row will do.
KnownAnyGeneration(n) == HasRow(n.id) /\ status[n.id] \in {"sent", "delivered", "failed"}

\* The spool can place a notice: it names the current generation of a row that
\* was acked.
Known(n) == /\ HasRow(n.id) /\ gen[n.id] = n.drainCount
            /\ status[n.id] \in {"sent", "delivered", "failed"}

\* The final outcomes the spool records: of rows that have none yet.
Recorded(outcome) ==
    {n.id : n \in {k \in mailbox : k.outcome = outcome /\ Known(k) /\ status[k.id] = "sent"}}

RecordOutcomes ==
    LET fell == Recorded("bounced")
        came == Recorded("delivered")
    IN  /\ status' = [m \in Messages |-> IF m \in came THEN "delivered"
                                         ELSE IF m \in fell THEN "failed" ELSE status[m]]
        /\ told' = [m \in Messages |-> IF m \in came THEN Append(told[m], "delivered")
                                       ELSE IF m \in fell THEN Append(told[m], "failed")
                                       ELSE told[m]]
        /\ suppressed' = suppressed \cup {Recipient[m] : m \in fell}
        /\ UNCHANGED <<gen, lapsed, completed, deleted>>

\* POST /drain/outcomes with all that list() found.  Without its answer the
\* pass retires nothing.
ReportOutcomes ==
    /\ listed = {} /\ mailbox # {}
    /\ RecordOutcomes
    /\ \/ listed' = mailbox /\ unknown' = Ids({n \in mailbox : ~Known(n)}) /\ UNCHANGED faults
       \/ Fault("lostAnswer") /\ UNCHANGED outcomes
    /\ UNCHANGED <<drainLoop, seen, seenDisk, lateAcks, mx1, mailbox, stale, gaps>>

\* The pass ends: what is not kept moves to processed/.
SettleNotices ==
    /\ listed # {} /\ listed' = {} /\ unknown' = {}
    /\ \/ Retire(Retirable) /\ UNCHANGED faults
       \/ Fault("retire") /\ \E n \in Retirable : Retire(Retirable \ {n})
    /\ UNCHANGED <<spool, drainLoop, seen, seenDisk, lateAcks, mx1, gaps>>

\* A notice outlives unknownGraceMs: an hour, while a lease lasts half a minute.
\* Its age is asked only while the spool does not place a notice of its message.
NoticeAges(n) ==
    /\ n \in mailbox \ stale /\ \E k \in mailbox : k.id = n.id /\ ~Known(k)
    /\ IF status[n.id] \in {"pending", "held"} THEN Fault("slow") ELSE UNCHANGED faults
    /\ stale' = stale \cup {n}
    /\ UNCHANGED <<spool, drainLoop, seen, outcomes, seenDisk, lateAcks, mx1, mailbox, gaps>>

-----------------------------------------------------------------------------
SubmitEnds == SkipSubmitted \/ Mx1Accepts \/ SubmitResolves
CollectorStep == Drain \/ SubmitEnds \/ AckHandled

Next ==
    \/ \E b \in Batches : Enqueue(b) \/ Cleanup(b)
    \/ \E a \in Addresses : RemoveSuppression(a)
    \/ \E m \in Messages : LeaseLapses(m) \/ SweepForgets(m)
    \/ Drain \/ OrphanClaim
    \/ SkipSubmitted \/ Mx1Accepts \/ SubmitResolves \/ SubmitFails
    \/ AckHandled \/ AckFails \/ CollectorCrash
    \/ \E request \in lateAcks : LateAck(request)
    \/ \E c \in accepted : Mx1Delivers(c) \/ Mx1Bounces(c) \/ Mx1Delays(c)
    \/ ReportOutcomes \/ SettleNotices
    \/ \E n \in mailbox : NoticeAges(n)

Spec == Init /\ [][Next]_vars

\* The collector polls as long as its process runs, a lease runs out by the
\* clock, and the outcome timer comes round; Ghost, mx1's outcomes, cleanup and
\* requests on their way owe nothing.
Fairness ==
    /\ WF_vars(CollectorStep)
    /\ \A m \in Messages : WF_vars(LeaseLapses(m))
    /\ WF_vars(ReportOutcomes)
    /\ WF_vars(SettleNotices)
    /\ WF_vars(\E n \in mailbox : NoticeAges(n))

FairSpec == Spec /\ Fairness

-----------------------------------------------------------------------------
(* What must hold.                                                         *)

Copies(m) == {c \in accepted : c.id = m}
Final(n) == n.outcome # "delayed"

\* Whatever the spool takes for sent was taken over by mx1: no failed
\* submission, late ack or crash makes the spool give up a message the
\* collector did not hand on (ackDrain, collectorLoop.ts:151-163).
NoMailLost ==
    \A m \in Messages :
        status[m] \in {"sent", "delivered"} \/ (status[m] = "failed" /\ m \notin Unsafe)
        => Copies(m) # {}

\* Ghost finds at most one final event of a message, however often a notice is
\* reported again because an answer was lost or the collector died before it was
\* retired; the event says what became of the copy of the row's generation, or
\* that the address was refused (recordOutcomes, claimForDrain).
OutcomeTrue ==
    \A m \in Messages : told[m] # <<>> =>
        \/ told[m] = <<"delivered">> /\ Offer(m) \in delivered
        \/ told[m] = <<"failed">> /\ (m \in Unsafe \/ Offer(m) \in bounced)

\* mx1 gets a message once, and once more for each of the reasons the dedupe
\* tracker documents: a death or a rejection between mx1's acceptance and
\* markSubmitted(), a file that was not written, an id older than the TTL.
BoundedCopies == \A m \in Messages : Cardinality(Copies(m)) <= 1 + gaps[m]

\* A batch is removed only when none of its rows is outstanding.
CompletedSettled ==
    \A m \in Messages : BatchOf[m] \in completed => status[m] \in Terminal

\* The path keeps the promise of MailHandover.
Handover == INSTANCE MailHandover WITH
    queued  <- {m \in Messages : status[m] # "none"},
    spool   <- {m \in Messages : HasRow(m) /\ status[m] \notin Terminal},
    relayed <- Ids(accepted),
    refused <- {m \in Messages : status[m] = "suppressed" \/ (status[m] = "failed" /\ m \in Unsafe)},
    barred  <- {m \in Messages : Suppressed(m) \/ m \in Unsafe}
HandoverSpec == Handover!Spec

\* A notice of a final outcome is not thrown away within the hour unless Ghost
\* was told: not when it beats the ack, nor when the collector dies in a pass.
FreshOutcomeKept ==
    [][\A n \in mailbox \ mailbox' : Final(n) /\ n \notin stale => told[n.id] # <<>>]_vars

\* Every queued message is handed over or refused in the end.
Resolved ==
    \A m \in Messages : status[m] = "pending" ~> status[m] \in Terminal

\* Notifications do not pile up: each is answered for, or grows too old.
MailboxDrains == mailbox # {} ~> mailbox = {}

-----------------------------------------------------------------------------
(* The inductive invariant behind the safety properties.                   *)

\* While deliver() is pending on a message mx1 took, dedupe does not know it.
HeadTaken == pc = "accepted" => Head1 \in accepted /\ Head1.id \notin seen

\* Whatever is, or may still be, acked was taken by mx1; the file of the dedupe
\* tracker never knows more than its memory, which knows accepted ids only.
HandedOn ==
    /\ seenDisk \subseteq seen /\ seen \subseteq Ids(accepted)
    /\ Ids(acks) \subseteq Ids(accepted)
    /\ \A request \in lateAcks : Ids(request) \subseteq Ids(accepted)

\* Only queued messages to safe addresses are ever handed out.
OffersSafe == \A c \in batch \cup accepted : c.id \notin Unsafe /\ status[c.id] # "none"

\* A row has its final event exactly when its status says so.
ToldByStatus ==
    \A m \in Messages : told[m] = <<>> <=> status[m] \notin {"delivered", "failed"}

\* A notice says what became of the copy it names.
NoticesTrue ==
    \A n \in mailbox :
        LET c == [id |-> n.id, drainCount |-> n.drainCount] IN
        /\ c \in accepted
        /\ n.outcome = "delivered" => c \in delivered
        /\ n.outcome = "bounced" => c \in bounced

\* What an outcome pass does not have to keep has been told.
Answered == \A n \in listed : Final(n) /\ n.id \notin unknown => told[n.id] # <<>>

\* Every copy but one is paid for by a gap, and that one is remembered, or is
\* being submitted.
CopiesPaid ==
    /\ IsFiniteSet(accepted)
    /\ \A m \in Messages : Cardinality(Copies(m)) <=
         gaps[m] + (IF m \in seenDisk \/ (pc = "accepted" /\ Head1.id = m) THEN 1 ELSE 0)

IInv == /\ TypeOK /\ HeadTaken /\ HandedOn /\ OffersSafe /\ NoMailLost /\ ToldByStatus
        /\ OutcomeTrue /\ NoticesTrue /\ CompletedSettled /\ Answered /\ CopiesPaid

-----------------------------------------------------------------------------
(* A promise of the documentation that the code does not keep.             *)

\* README.md:52-55 of the collector: nothing about a message in flight is held
\* in memory, so a restart loses nothing.  A restart between markSubmitted() and
\* the ack has the row offered again and, being known to the dedupe tracker,
\* acked at a generation mx1 was never given: the notice of its one copy names
\* the generation before, and no other will come.  (Rows that cleanup has
\* removed are left aside.)
NoOutcomeLost ==
    [][\A n \in mailbox \ mailbox' :
           Final(n) /\ HasRow(n.id) /\ Offer(n.id) \notin accepted => told[n.id] # <<>>]_vars

=============================================================================
