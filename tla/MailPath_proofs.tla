-------------------------- MODULE MailPath_proofs ---------------------------
(***************************************************************************)
(* Proofs about MailPath, for any number of messages, any split into       *)
(* batches, any addresses, and any kinds and number of faults.             *)
(*                                                                         *)
(* The inductive invariant IInv is stated in MailPath.  Its conjuncts are  *)
(* proved in the order in which they need each other: the types, what the  *)
(* collector holds, what the spool believes, what the notices say, and the *)
(* count of copies.                                                        *)
(***************************************************************************)
EXTENDS MailPath, FiniteSetTheorems, WellFoundedInduction, TLAPS

-----------------------------------------------------------------------------
(* The building blocks of the actions.                                     *)

\* An event that was appended can be read.
LEMMA AppendNotEmpty ==
    ASSUME NEW S, NEW s \in Seq(S), NEW x \in S
    PROVE  Append(s, x) # <<>> /\ (s = <<>> => Append(s, x) = <<x>>)
<1>1. Len(Append(s, x)) = Len(s) + 1 /\ Len(s) \in Nat
  OBVIOUS
<1>2. Len(<<>>) = 0
  OBVIOUS
<1>3. Append(s, x) # <<>>
  BY <1>1, <1>2
<1>4. s = <<>> => Append(s, x) = <<x>>
  OBVIOUS
<1> QED
  BY <1>3, <1>4

\* A batch that is not empty has a head.
LEMMA HeadInBatch ==
    ASSUME TypeOK, batch # {}
    PROVE  Head1 \in batch /\ Head1 \in Offers
<1> DEFINE T == {c.id : c \in batch}
<1>1. T \subseteq Nat /\ T # {}
  <2>1. batch \subseteq [id : 1 .. Size, drainCount : Nat]
    BY DEF TypeOK, Offers, Messages
  <2>2. \A c \in batch : c.id \in Nat
    BY ONLY <2>1, SizeAssumption
  <2> QED
    BY ONLY <2>2, batch # {}
<1>2. PICK x \in T : \A y \in T : ~(<<y, x>> \in OpToRel(<, Nat))
  <2> HIDE DEF T
  <2> QED BY <1>1, WFMin, NatLessThanWellFounded
<1>3. \A y \in T : x <= y
  <2> HIDE DEF T
  <2>1. SUFFICES ASSUME NEW y \in T, ~(x <= y) PROVE FALSE
    OBVIOUS
  <2>2. <<y, x>> \in OpToRel(<, Nat)
    BY <2>1, <1>1 DEF OpToRel
  <2> QED BY <2>1, <2>2, <1>2
<1>4. \E c \in batch : \A d \in batch : c.id <= d.id
  BY <1>3
<1> QED
  BY <1>4 DEF Head1, TypeOK

SpoolOK ==
    /\ status \in [Messages -> QueueRecipientStatus]
    /\ gen \in [Messages -> Nat]
    /\ lapsed \subseteq {m \in Messages : status[m] = "held"}
    /\ completed \subseteq Batches /\ deleted \subseteq completed
    /\ suppressed \subseteq Addresses
    /\ told \in [Messages -> Seq({"delivered", "failed"})]

LoopOK ==
    /\ pc \in {"idle", "submitting", "accepted", "acking"}
    /\ batch \subseteq Offers /\ acks \subseteq Offers
    /\ (pc = "idle" => batch = {} /\ acks = {}) /\ (pc = "acking" => batch = {} /\ acks # {})
    /\ (pc \in {"submitting", "accepted"} => batch # {})

\* Completing batches adds batches only.
LEMMA CompletesTyped ==
    ASSUME NEW R \in SUBSET Messages, NEW st, completed \subseteq Batches
    PROVE  Completes(R, st) \subseteq Batches /\ completed \subseteq Completes(R, st)
  BY DEF Completes, CompletedWith, Batches

\* A claim and an ack keep the spool typed.
LEMMA ClaimTyped ==
    ASSUME TypeOK, NEW P \in SUBSET Candidates, Claim(P)
    PROVE  SpoolOK' /\ Leased(P) \subseteq Offers
<1>1. P \subseteq Messages
  BY DEF Candidates, Due
<1>2. status' \in [Messages -> QueueRecipientStatus] /\ gen' \in [Messages -> Nat]
  BY DEF Claim, TypeOK, QueueRecipientStatus
<1>3. lapsed' \subseteq {m \in Messages : status'[m] = "held"}
  BY <1>1 DEF Claim, TypeOK
<1>4. completed' \subseteq Batches /\ deleted' \subseteq completed'
  BY <1>1, CompletesTyped DEF Claim, TypeOK
<1>5. told' \in [Messages -> Seq({"delivered", "failed"})]
  BY DEF Claim, TypeOK
<1>6. Leased(P) \subseteq Offers
  BY <1>1 DEF Leased, Offers, TypeOK
<1> QED
  BY <1>2, <1>3, <1>4, <1>5, <1>6 DEF SpoolOK, Claim, TypeOK

\* An ack leaves the spool typed.
LEMMA AckTyped ==
    ASSUME TypeOK, NEW request \in SUBSET Offers, AckDrain(request)
    PROVE  SpoolOK'
<1> DEFINE rows == {c.id : c \in {d \in request :
                     HasRow(d.id) /\ status[d.id] = "held" /\ gen[d.id] = d.drainCount}}
           st == [m \in Messages |-> IF m \in rows THEN "sent" ELSE status[m]]
<1>1. rows \subseteq Messages
  BY DEF Offers
<1>2. status' = st /\ lapsed' = lapsed \ rows /\ completed' = Completes(rows, st)
      /\ UNCHANGED <<gen, deleted, suppressed, told>>
  BY DEF AckDrain
<1> HIDE DEF rows
<1>3. status' \in [Messages -> QueueRecipientStatus]
  BY <1>2 DEF TypeOK, QueueRecipientStatus
<1>4. lapsed' \subseteq {m \in Messages : status'[m] = "held"}
  BY <1>2 DEF TypeOK
<1>5. completed' \subseteq Batches /\ deleted' \subseteq completed'
  BY <1>1, <1>2, CompletesTyped DEF TypeOK
<1> QED
  BY <1>2, <1>3, <1>4, <1>5 DEF SpoolOK, TypeOK

\* What is outside the spool and the loop.
OutsideOK ==
    /\ seen \subseteq Messages /\ seenDisk \subseteq Messages
    /\ listed \subseteq mailbox /\ unknown \subseteq Messages
    /\ \A request \in lateAcks : request \subseteq Offers
    /\ accepted \subseteq Offers
    /\ delivered \subseteq accepted /\ bounced \subseteq accepted
    /\ mailbox \subseteq Notices /\ stale \subseteq mailbox
    /\ gaps \in [Messages -> Nat]
    /\ faults \in 0 .. MaxFaults

\* A fault stays within its bound, and a gap is counted in Nat.
LEMMA FaultTyped == ASSUME TypeOK, NEW k, Fault(k) PROVE faults' \in 0 .. MaxFaults
  BY FaultsAssumption DEF TypeOK, Fault

\* Counting a gap keeps the counters natural numbers.
LEMMA GapTyped == ASSUME TypeOK, NEW M, Gap(M) PROVE gaps' \in [Messages -> Nat]
  BY DEF TypeOK, Gap

\* Moving on in the batch, and breaking it off, keep the loop typed.
LEMMA AdvanceTyped ==
    ASSUME TypeOK, batch # {}, NEW done \in SUBSET {Head1}, Advance(done)
    PROVE  LoopOK'
<1>1. batch' \subseteq Offers /\ acks' \subseteq Offers
  BY HeadInBatch DEF Advance, TypeOK
<1>2. pc' = IF batch' # {} THEN "submitting" ELSE IF acks' # {} THEN "acking" ELSE "idle"
  BY DEF Advance
<1> QED
  BY <1>1, <1>2 DEF LoopOK

\* Breaking off leaves the loop with nothing to submit.
LEMMA BreakOffTyped == ASSUME TypeOK, BreakOff PROVE LoopOK'
  BY DEF TypeOK, BreakOff, LoopOK

\* Recording outcomes keeps the spool typed.
LEMMA RecordTyped ==
    ASSUME TypeOK, RecordOutcomes
    PROVE  SpoolOK'
<1>1. Recorded("bounced") \subseteq Messages /\ Recorded("delivered") \subseteq Messages
  BY DEF Recorded, TypeOK, Notices
<1>2. {Recipient[m] : m \in Recorded("bounced")} \subseteq Addresses
  BY <1>1 DEF Addresses
<1>3. status' \in [Messages -> QueueRecipientStatus]
  BY DEF RecordOutcomes, TypeOK, QueueRecipientStatus
<1>4. told' \in [Messages -> Seq({"delivered", "failed"})]
  BY DEF RecordOutcomes, TypeOK
<1>5. \A m \in lapsed : status'[m] = "held"
  <2>1. \A m \in lapsed : m \notin Recorded("bounced") /\ m \notin Recorded("delivered")
    BY DEF Recorded, TypeOK
  <2> QED
    BY <2>1 DEF RecordOutcomes, TypeOK
<1> QED
  BY <1>2, <1>3, <1>4, <1>5 DEF RecordOutcomes, SpoolOK, TypeOK

\* A notification is a notice of an offer mx1 took.
LEMMA NotifyTyped ==
    ASSUME TypeOK, NEW c \in accepted, NEW o \in {"delivered", "bounced", "delayed"}, Notify(c, o)
    PROVE  mailbox' \subseteq Notices /\ mailbox \subseteq mailbox'
<1>1. [id |-> c.id, drainCount |-> c.drainCount, outcome |-> o] \in Notices
  BY DEF TypeOK, Offers, Notices
<1> QED
  BY <1>1 DEF Notify, TypeOK

-----------------------------------------------------------------------------
(* TypeOK.                                                                 *)

\* Every initial state is typed.
LEMMA TypeInit == Init => TypeOK
  BY FaultsAssumption DEF Init, TypeOK, QueueRecipientStatus

\* Every step keeps the state typed.
LEMMA TypeStep == TypeOK /\ [Next]_vars => TypeOK'
<1> SUFFICES ASSUME TypeOK, [Next]_vars PROVE TypeOK'
  OBVIOUS
<1> USE DEF spool, drainLoop, outcomes, mx1
<1>1. ASSUME NEW b \in Batches, Enqueue(b) PROVE TypeOK'
  BY <1>1 DEF TypeOK, Enqueue, QueueRecipientStatus
<1>2. ASSUME NEW b \in Batches, Cleanup(b) PROVE TypeOK'
  BY <1>2 DEF TypeOK, Cleanup
<1>3. ASSUME NEW a \in Addresses, RemoveSuppression(a) PROVE TypeOK'
  BY <1>3 DEF TypeOK, RemoveSuppression
<1>4. ASSUME NEW m \in Messages, LeaseLapses(m) PROVE TypeOK'
  <2>1. faults' \in 0 .. MaxFaults
    BY <1>4, FaultTyped DEF LeaseLapses, TypeOK
  <2> QED BY <1>4, <2>1 DEF TypeOK, LeaseLapses
<1>5. ASSUME NEW m \in Messages, SweepForgets(m) PROVE TypeOK'
  <2>1. faults' \in 0 .. MaxFaults /\ gaps' \in [Messages -> Nat]
    BY <1>5, FaultTyped, GapTyped DEF SweepForgets
  <2> QED BY <1>5, <2>1 DEF TypeOK, SweepForgets
<1>6. CASE Drain
  <2>1. PICK P \in SUBSET Candidates : /\ Claim(P) /\ batch' = Leased(P)
                                       /\ pc' = IF Leased(P) = {} THEN "idle" ELSE "submitting"
    BY <1>6 DEF Drain
  <2>2. SpoolOK' /\ Leased(P) \subseteq Offers
    BY <2>1, ClaimTyped
  <2>3. LoopOK'
    BY <1>6, <2>1, <2>2 DEF Drain, TypeOK, LoopOK
  <2>4. OutsideOK'
    BY <1>6 DEF Drain, TypeOK, OutsideOK
  <2> QED BY <2>2, <2>3, <2>4 DEF TypeOK, SpoolOK, LoopOK, OutsideOK
<1>7. CASE OrphanClaim
  <2>1. PICK P \in SUBSET Candidates : Claim(P)
    BY <1>7 DEF OrphanClaim
  <2>2. SpoolOK' /\ faults' \in 0 .. MaxFaults
    BY <1>7, <2>1, ClaimTyped, FaultTyped DEF OrphanClaim
  <2> QED BY <1>7, <2>2 DEF OrphanClaim, TypeOK, SpoolOK
<1>8. CASE SkipSubmitted
  <2>1. LoopOK'
    BY <1>8, AdvanceTyped DEF SkipSubmitted, TypeOK
  <2> QED BY <1>8, <2>1 DEF SkipSubmitted, TypeOK, LoopOK
<1>9. CASE Mx1Accepts
  BY <1>9, HeadInBatch DEF Mx1Accepts, TypeOK
<1>10. CASE SubmitResolves
  <2>1. LoopOK' /\ Head1 \in Offers
    BY <1>10, AdvanceTyped, HeadInBatch DEF SubmitResolves, TypeOK
  <2>2. seen' \subseteq Messages /\ seenDisk' \subseteq Messages
    BY <1>10, <2>1 DEF SubmitResolves, TypeOK, Offers
  <2>3. gaps' \in [Messages -> Nat] /\ faults' \in 0 .. MaxFaults
    BY <1>10, FaultTyped, GapTyped DEF SubmitResolves, TypeOK
  <2> QED BY <1>10, <2>1, <2>2, <2>3 DEF SubmitResolves, TypeOK, LoopOK
<1>11. CASE SubmitFails
  <2>1. LoopOK' /\ gaps' \in [Messages -> Nat] /\ faults' \in 0 .. MaxFaults
    BY <1>11, BreakOffTyped, FaultTyped, GapTyped DEF SubmitFails, TypeOK
  <2> QED BY <1>11, <2>1 DEF SubmitFails, TypeOK, LoopOK
<1>12. CASE AckHandled
  <2>1. SpoolOK'
    BY <1>12, AckTyped DEF AckHandled, TypeOK
  <2>2. LoopOK' /\ OutsideOK'
    BY <1>12 DEF AckHandled, TypeOK, LoopOK, OutsideOK
  <2> QED BY <2>1, <2>2 DEF TypeOK, SpoolOK, LoopOK, OutsideOK
<1>13. CASE AckFails
  BY <1>13, FaultTyped DEF AckFails, TypeOK
<1>14. CASE CollectorCrash
  <2>1. gaps' \in [Messages -> Nat] /\ faults' \in 0 .. MaxFaults
    BY <1>14, FaultTyped, GapTyped DEF CollectorCrash
  <2>2. mailbox' \subseteq Notices /\ stale' \subseteq mailbox'
    BY <1>14 DEF CollectorCrash, Retire, TypeOK
  <2>3. \A request \in lateAcks' : request \subseteq Offers
    BY <1>14 DEF CollectorCrash, TypeOK
  <2> QED BY <1>14, <2>1, <2>2, <2>3 DEF CollectorCrash, TypeOK
<1>15. ASSUME NEW r \in lateAcks, LateAck(r) PROVE TypeOK'
  <2>1. SpoolOK'
    BY <1>15, AckTyped DEF LateAck, TypeOK
  <2>2. LoopOK' /\ OutsideOK'
    BY <1>15 DEF LateAck, TypeOK, LoopOK, OutsideOK
  <2> QED BY <2>1, <2>2 DEF TypeOK, SpoolOK, LoopOK, OutsideOK
<1>16. ASSUME NEW c \in accepted, Mx1Delivers(c) \/ Mx1Bounces(c) PROVE TypeOK'
  <2>1. mailbox' \subseteq Notices /\ mailbox \subseteq mailbox'
    BY <1>16, NotifyTyped DEF Mx1Delivers, Mx1Bounces
  <2> QED BY <1>16, <2>1 DEF Mx1Delivers, Mx1Bounces, TypeOK
<1>17. ASSUME NEW c \in accepted, Mx1Delays(c) PROVE TypeOK'
  <2>1. mailbox' \subseteq Notices /\ mailbox \subseteq mailbox' /\ faults' \in 0 .. MaxFaults
    BY <1>17, NotifyTyped, FaultTyped DEF Mx1Delays
  <2> QED BY <1>17, <2>1 DEF Mx1Delays, TypeOK
<1>18. CASE ReportOutcomes
  <2>1. SpoolOK'
    BY <1>18, RecordTyped DEF ReportOutcomes
  <2>2. listed' \subseteq mailbox' /\ unknown' \subseteq Messages /\ faults' \in 0 .. MaxFaults
    BY <1>18, FaultTyped DEF ReportOutcomes, TypeOK, Ids, Notices
  <2> QED BY <1>18, <2>1, <2>2 DEF ReportOutcomes, TypeOK, SpoolOK
<1>19. CASE SettleNotices
  <2>1. mailbox' \subseteq Notices /\ stale' \subseteq mailbox' /\ faults' \in 0 .. MaxFaults
    BY <1>19, FaultTyped DEF SettleNotices, Retire, TypeOK
  <2> QED BY <1>19, <2>1 DEF SettleNotices, TypeOK
<1>20. ASSUME NEW n \in mailbox, NoticeAges(n) PROVE TypeOK'
  <2>1. faults' \in 0 .. MaxFaults
    BY <1>20, FaultTyped DEF NoticeAges, TypeOK
  <2> QED BY <1>20, <2>1 DEF NoticeAges, TypeOK
<1>21. CASE UNCHANGED vars
  BY <1>21 DEF TypeOK, vars
<1> QED
  BY <1>1, <1>2, <1>3, <1>4, <1>5, <1>6, <1>7, <1>8, <1>9, <1>10, <1>11, <1>12, <1>13,
     <1>14, <1>15, <1>16, <1>17, <1>18, <1>19, <1>20, <1>21 DEF Next

\* What is told of a message, and what would be after one more event.
LEMMA EventTyped ==
    ASSUME TypeOK, NEW m \in Messages, NEW e \in {"delivered", "failed"}
    PROVE  /\ told[m] \in Seq({"delivered", "failed"})
           /\ Append(told[m], e) # <<>>
           /\ told[m] = <<>> => Append(told[m], e) = <<e>>
<1>1. told[m] \in Seq({"delivered", "failed"})
  BY DEF TypeOK
<1> QED
  BY <1>1, AppendNotEmpty

\* The spool, the collector and mx1 keep their types.
THEOREM TypeCorrect == Spec => []TypeOK
  BY TypeInit, TypeStep, PTL DEF Spec

-----------------------------------------------------------------------------
(* What a step can do to the spool, and to what mx1 took.                  *)

\* A step leaves the spool alone or is one of its transactions.
LEMMA SpoolSteps ==
    ASSUME [Next]_vars
    PROVE  \/ UNCHANGED spool
           \/ \E b \in Batches : Enqueue(b) \/ Cleanup(b)
           \/ \E a \in Addresses : RemoveSuppression(a)
           \/ \E m \in Messages : LeaseLapses(m)
           \/ \E P \in SUBSET Candidates : Claim(P)
           \/ \E r \in lateAcks \cup {acks} : AckDrain(r)
           \/ RecordOutcomes
  BY DEF Next, vars, spool, SweepForgets, Drain, OrphanClaim, SkipSubmitted, Mx1Accepts,
         SubmitResolves, SubmitFails, AckHandled, AckFails, CollectorCrash, LateAck,
         Mx1Delivers, Mx1Bounces, Mx1Delays, ReportOutcomes, SettleNotices, NoticeAges

\* mx1 never gives a message back, and takes only what the loop submits.
LEMMA AcceptedGrows ==
    ASSUME [Next]_vars
    PROVE  accepted' = accepted \/ Mx1Accepts
  BY DEF Next, vars, mx1, Enqueue, Cleanup, RemoveSuppression, LeaseLapses, SweepForgets,
         Drain, OrphanClaim, SkipSubmitted, SubmitResolves, SubmitFails, AckHandled,
         AckFails, CollectorCrash, LateAck, Mx1Delivers, Mx1Bounces, Mx1Delays,
         ReportOutcomes, SettleNotices, NoticeAges

\* The ids mx1 knows stay known.
LEMMA IdsGrow ==
    ASSUME [Next]_vars
    PROVE  accepted \subseteq accepted' /\ Ids(accepted) \subseteq Ids(accepted')
  BY AcceptedGrows DEF Mx1Accepts, Ids

\* The head depends on the batch only.
LEMMA HeadKept == batch' = batch => Head1' = Head1
  BY DEF Head1

\* The rows a claim or an ack touches.
LEMMA ClaimRows ==
    ASSUME TypeOK, NEW P \in SUBSET Candidates
    PROVE  /\ P \subseteq Messages
           /\ \A m \in P : status[m] \in {"pending", "held"}
  BY DEF Candidates, Due, TypeOK

\* After a claim a row of it is leased, refused for its address, or suppressed.
LEMMA ClaimStatus ==
    ASSUME TypeOK, NEW P \in SUBSET Candidates, Claim(P), NEW m \in Messages
    PROVE  /\ m \notin P => status'[m] = status[m] /\ gen'[m] = gen[m] /\ told'[m] = told[m]
           /\ m \in P => \/ status'[m] = "suppressed" /\ Suppressed(m) /\ ~Sendable(m)
                         \/ status'[m] = "failed" /\ m \in Unsafe /\ ~Sendable(m)
                         \/ status'[m] = "held" /\ Sendable(m)
           /\ m \in P => told'[m] = IF status'[m] = "failed" THEN Append(told[m], "failed")
                                                            ELSE told[m]
  BY ClaimRows DEF Claim, Sendable

\* After an ack a row is sent, at the generation named, or as before.
LEMMA AckStatus ==
    ASSUME TypeOK, NEW r \in SUBSET Offers, AckDrain(r), NEW m \in Messages
    PROVE  \/ status'[m] = status[m]
           \/ status'[m] = "sent" /\ status[m] = "held" /\ m \in Ids(r)
  BY DEF AckDrain, Ids

\* The requests that reach the spool are typed.
LEMMA RequestTyped == TypeOK => \A r \in lateAcks \cup {acks} : r \in SUBSET Offers
  BY DEF TypeOK

\* A row that was queued stays queued.
LEMMA QueuedStays ==
    ASSUME TypeOK, [Next]_vars, NEW m \in Messages, status[m] # "none"
    PROVE  status'[m] # "none"
<1>1. CASE UNCHANGED spool \/ (\E b \in Batches : Cleanup(b))
           \/ (\E a \in Addresses : RemoveSuppression(a)) \/ (\E k \in Messages : LeaseLapses(k))
  BY <1>1 DEF spool, Cleanup, RemoveSuppression, LeaseLapses
<1>2. ASSUME NEW b \in Batches, Enqueue(b) PROVE status'[m] # "none"
  BY <1>2 DEF Enqueue
<1>3. ASSUME NEW P \in SUBSET Candidates, Claim(P) PROVE status'[m] # "none"
  BY <1>3, ClaimStatus
<1>4. ASSUME NEW r \in lateAcks \cup {acks}, AckDrain(r) PROVE status'[m] # "none"
  BY <1>4, AckStatus, RequestTyped
<1>5. CASE RecordOutcomes
  BY <1>5 DEF RecordOutcomes
<1> QED
  BY <1>1, <1>2, <1>3, <1>4, <1>5, SpoolSteps

-----------------------------------------------------------------------------
(* What the collector holds.                                               *)

\* What the loop does with the dedupe tracker, the batch, the acks and the gaps.
LEMMA LoopSteps ==
    ASSUME [Next]_vars
    PROVE  \/ UNCHANGED <<drainLoop, seen, seenDisk, lateAcks, gaps>>
           \/ Drain \/ SkipSubmitted \/ Mx1Accepts \/ SubmitResolves \/ SubmitFails
           \/ AckHandled \/ AckFails \/ CollectorCrash
           \/ \E r \in lateAcks : LateAck(r)
           \/ \E m \in Messages : SweepForgets(m)
  BY DEF Next, vars, drainLoop, Enqueue, Cleanup, RemoveSuppression, LeaseLapses,
         OrphanClaim, Mx1Delivers, Mx1Bounces, Mx1Delays, ReportOutcomes, SettleNotices,
         NoticeAges

\* A step keeps the head unknown to the dedupe tracker while deliver() is pending.
LEMMA HeadTakenStep == TypeOK /\ HeadTaken /\ [Next]_vars => HeadTaken'
<1> SUFFICES ASSUME TypeOK, HeadTaken, [Next]_vars, pc' = "accepted"
             PROVE  Head1' \in accepted' /\ Head1'.id \notin seen'
  BY DEF HeadTaken
<1>1. CASE UNCHANGED <<drainLoop, seen, seenDisk, lateAcks, gaps>>
  BY <1>1, HeadKept, IdsGrow DEF HeadTaken, drainLoop
<1>2. CASE Mx1Accepts
  BY <1>2, HeadKept DEF Mx1Accepts
<1>3. ASSUME NEW r \in lateAcks, LateAck(r) PROVE Head1' \in accepted' /\ Head1'.id \notin seen'
  BY <1>3, HeadKept, IdsGrow DEF HeadTaken, LateAck, drainLoop
<1>4. ASSUME NEW m \in Messages, SweepForgets(m)
      PROVE  Head1' \in accepted' /\ Head1'.id \notin seen'
  BY <1>4, HeadKept, IdsGrow DEF HeadTaken, SweepForgets, drainLoop
<1>5. ~(Drain \/ SkipSubmitted \/ SubmitResolves \/ SubmitFails \/ AckHandled \/ AckFails
        \/ CollectorCrash)
  BY DEF Drain, SkipSubmitted, SubmitResolves, SubmitFails, AckHandled, AckFails,
         CollectorCrash, Advance, BreakOff
<1> QED
  BY <1>1, <1>2, <1>3, <1>4, <1>5, LoopSteps

\* A step lets nothing be acked or remembered that mx1 did not take.
LEMMA HandedOnStep == TypeOK /\ HeadTaken /\ HandedOn /\ [Next]_vars => HandedOn'
<1> SUFFICES ASSUME TypeOK, HeadTaken, HandedOn, [Next]_vars PROVE HandedOn'
  OBVIOUS
<1> USE IdsGrow DEF drainLoop
<1>1. CASE UNCHANGED <<drainLoop, seen, seenDisk, lateAcks, gaps>>
  BY <1>1 DEF HandedOn
<1>2. CASE Drain \/ Mx1Accepts \/ SubmitFails \/ AckHandled
  BY <1>2 DEF Drain, Mx1Accepts, SubmitFails, BreakOff, AckHandled, HandedOn, Ids
<1>3. CASE SkipSubmitted
  <2>1. acks' \subseteq acks \cup {Head1} /\ Head1.id \in Ids(accepted)
    BY <1>3 DEF SkipSubmitted, Advance, HandedOn
  <2>2. Ids(acks') \subseteq Ids(accepted)
    BY <2>1 DEF Ids, HandedOn
  <2> QED BY <1>3, <2>2 DEF SkipSubmitted, HandedOn
<1>4. CASE SubmitResolves
  <2>1. acks' = acks \cup {Head1} /\ Head1 \in accepted
    BY <1>4 DEF SubmitResolves, Advance, HeadTaken
  <2>2. Ids(acks') \subseteq Ids(accepted) /\ Head1.id \in Ids(accepted)
    BY <2>1 DEF Ids, HandedOn
  <2>3. seenDisk' \subseteq seen' /\ seen' = seen \cup {Head1.id}
    BY <1>4 DEF SubmitResolves, HandedOn
  <2> QED BY <1>4, <2>2, <2>3 DEF SubmitResolves, HandedOn
<1>5. CASE AckFails
  BY <1>5 DEF AckFails, HandedOn, Ids
<1>6. CASE CollectorCrash
  <2>1. acks' = {} /\ seen' = seenDisk /\ seenDisk' = seenDisk
        /\ lateAcks' \subseteq lateAcks \cup {acks}
    BY <1>6 DEF CollectorCrash
  <2> QED BY <2>1 DEF HandedOn, Ids
<1>7. ASSUME NEW r \in lateAcks, LateAck(r) PROVE HandedOn'
  BY <1>7 DEF LateAck, HandedOn
<1>8. ASSUME NEW m \in Messages, SweepForgets(m) PROVE HandedOn'
  BY <1>8 DEF SweepForgets, HandedOn
<1> QED
  BY <1>1, <1>2, <1>3, <1>4, <1>5, <1>6, <1>7, <1>8, LoopSteps

\* A step hands out no message to an unsafe address.
LEMMA OffersSafeStep == TypeOK /\ OffersSafe /\ [Next]_vars => OffersSafe'
<1> SUFFICES ASSUME TypeOK, OffersSafe, [Next]_vars PROVE OffersSafe'
  OBVIOUS
<1>1. \A c \in accepted' : c \in accepted \cup batch
  BY AcceptedGrows, HeadInBatch DEF Mx1Accepts, TypeOK
<1>2. \A c \in batch' : c \in batch \/ (c.id \notin Unsafe /\ status'[c.id] # "none")
  <2>1. CASE Drain
    <3>1. PICK P \in SUBSET Candidates : Claim(P) /\ batch' = Leased(P)
      BY <2>1 DEF Drain
    <3>2. \A m \in P : m \in Messages /\ (Sendable(m) => m \notin Unsafe /\ status'[m] = "held")
      BY <3>1, ClaimStatus, ClaimRows DEF Sendable
    <3> QED BY <3>1, <3>2 DEF Leased
  <2>2. CASE ~Drain
    <3>1. batch' \subseteq batch
      <4>1. SkipSubmitted \/ SubmitResolves \/ SubmitFails => batch' \subseteq batch
        BY DEF SkipSubmitted, SubmitResolves, SubmitFails, Advance, BreakOff
      <4>2. AckHandled \/ AckFails \/ CollectorCrash \/ Mx1Accepts => batch' \subseteq batch
        BY DEF AckHandled, AckFails, CollectorCrash, Mx1Accepts
      <4>3. UNCHANGED <<drainLoop, seen, seenDisk, lateAcks, gaps>> => batch' \subseteq batch
        BY DEF drainLoop
      <4>4. \A r : LateAck(r) => batch' \subseteq batch
        BY DEF LateAck, drainLoop
      <4>5. \A m : SweepForgets(m) => batch' \subseteq batch
        BY DEF SweepForgets, drainLoop
      <4> QED BY <2>2, <4>1, <4>2, <4>3, <4>4, <4>5, LoopSteps
    <3> QED BY <3>1
  <2> QED BY <2>1, <2>2
<1>3. \A c \in batch \cup accepted : c.id \in Messages
  BY DEF TypeOK, Offers
<1> QED
  BY <1>1, <1>2, <1>3, QueuedStays DEF OffersSafe

-----------------------------------------------------------------------------
(* What the spool believes.                                                *)

\* A message mx1 holds a copy of, in the two ways it is said.
LEMMA CopyHeld == ASSUME NEW m PROVE Copies(m) # {} <=> m \in Ids(accepted)
  BY DEF Copies, Ids

\* A step makes a row "sent" only for a message mx1 has taken.
LEMMA NoMailLostStep == TypeOK /\ HandedOn /\ NoMailLost /\ [Next]_vars => NoMailLost'
<1> SUFFICES ASSUME TypeOK, HandedOn, NoMailLost, [Next]_vars, NEW m \in Messages,
                    \/ status'[m] \in {"sent", "delivered"}
                    \/ status'[m] = "failed" /\ m \notin Unsafe
             PROVE  m \in Ids(accepted)
  <2>1. [Next]_vars => \A k : k \in Ids(accepted) => Copies(k)' # {}
    BY IdsGrow DEF Copies, Ids
  <2> QED BY <2>1 DEF NoMailLost
<1>0. \/ status[m] \in {"sent", "delivered"}
      \/ status[m] = "failed" /\ m \notin Unsafe
      => m \in Ids(accepted)
  BY CopyHeld DEF NoMailLost
<1>1. CASE UNCHANGED spool \/ (\E b \in Batches : Cleanup(b) \/ Enqueue(b))
           \/ (\E a \in Addresses : RemoveSuppression(a)) \/ (\E k \in Messages : LeaseLapses(k))
  BY <1>0, <1>1 DEF spool, Cleanup, Enqueue, RemoveSuppression, LeaseLapses
<1>3. ASSUME NEW P \in SUBSET Candidates, Claim(P) PROVE m \in Ids(accepted)
  BY <1>0, <1>3, ClaimStatus
<1>4. ASSUME NEW r \in lateAcks \cup {acks}, AckDrain(r) PROVE m \in Ids(accepted)
  BY <1>0, <1>4, AckStatus, RequestTyped DEF HandedOn
<1>5. CASE RecordOutcomes
  <2>1. m \in Recorded("bounced") \/ m \in Recorded("delivered") => status[m] = "sent"
    BY DEF Recorded
  <2> QED BY <1>0, <1>5, <2>1 DEF RecordOutcomes
<1> QED
  BY <1>1, <1>3, <1>4, <1>5, SpoolSteps

\* A step writes the final event together with the final status.
LEMMA ToldByStatusStep == TypeOK /\ ToldByStatus /\ [Next]_vars => ToldByStatus'
<1> SUFFICES ASSUME TypeOK, ToldByStatus, [Next]_vars, NEW m \in Messages
             PROVE  told'[m] = <<>> <=> status'[m] \notin {"delivered", "failed"}
  BY DEF ToldByStatus
<1>0. told[m] = <<>> <=> status[m] \notin {"delivered", "failed"}
  BY DEF ToldByStatus
<1>1. CASE UNCHANGED spool \/ (\E b \in Batches : Cleanup(b))
           \/ (\E a \in Addresses : RemoveSuppression(a)) \/ (\E k \in Messages : LeaseLapses(k))
  BY <1>0, <1>1 DEF spool, Cleanup, RemoveSuppression, LeaseLapses
<1>2. ASSUME NEW b \in Batches, Enqueue(b)
      PROVE  told'[m] = <<>> <=> status'[m] \notin {"delivered", "failed"}
  BY <1>0, <1>2 DEF Enqueue
<1>3. ASSUME NEW P \in SUBSET Candidates, Claim(P)
      PROVE  told'[m] = <<>> <=> status'[m] \notin {"delivered", "failed"}
  <2>1. Append(told[m], "failed") # <<>>
    BY EventTyped
  <2>2. m \in P => status[m] \in {"pending", "held"}
    BY ClaimRows
  <2> QED BY <1>0, <1>3, <2>1, <2>2, ClaimStatus
<1>4. ASSUME NEW r \in lateAcks \cup {acks}, AckDrain(r)
      PROVE  told'[m] = <<>> <=> status'[m] \notin {"delivered", "failed"}
  <2>1. told' = told
    BY <1>4 DEF AckDrain
  <2> QED BY <1>0, <1>4, <2>1, AckStatus, RequestTyped
<1>5. CASE RecordOutcomes
  <2>1. Append(told[m], "failed") # <<>> /\ Append(told[m], "delivered") # <<>>
    BY EventTyped
  <2> QED BY <1>0, <1>5, <2>1 DEF RecordOutcomes
<1> QED
  BY <1>1, <1>2, <1>3, <1>4, <1>5, SpoolSteps

\* A batch that is complete has no row outstanding, and none comes back.
LEMMA CompletesSettled ==
    ASSUME NEW R \in SUBSET Messages, NEW st, NEW m \in Messages,
           BatchOf[m] \in Completes(R, st), BatchOf[m] \notin completed
    PROVE  st[m] \in Terminal
  BY DEF Completes, CompletedWith

\* A step neither completes an outstanding row nor reopens a completed one.
LEMMA CompletedSettledStep == TypeOK /\ CompletedSettled /\ [Next]_vars => CompletedSettled'
<1> SUFFICES ASSUME TypeOK, CompletedSettled, [Next]_vars, NEW m \in Messages,
                    BatchOf[m] \in completed'
             PROVE  status'[m] \in Terminal
  BY DEF CompletedSettled
<1>0. BatchOf[m] \in completed => status[m] \in Terminal
  BY DEF CompletedSettled
<1>1. CASE UNCHANGED spool \/ (\E b \in Batches : Cleanup(b))
           \/ (\E a \in Addresses : RemoveSuppression(a)) \/ (\E k \in Messages : LeaseLapses(k))
  BY <1>0, <1>1 DEF spool, Cleanup, RemoveSuppression, LeaseLapses
<1>2. ASSUME NEW b \in Batches, Enqueue(b) PROVE status'[m] \in Terminal
  BY <1>0, <1>2 DEF Enqueue, Terminal
<1>3. ASSUME NEW P \in SUBSET Candidates, Claim(P) PROVE status'[m] \in Terminal
  <2>1. \A k \in Messages : k \in P => status[k] \notin Terminal
    BY ClaimRows DEF Terminal
  <2>2. completed' = Completes(P \ {k \in P : Sendable(k)}, status')
    BY <1>3 DEF Claim
  <2>3. CASE BatchOf[m] \in completed
    BY <1>0, <1>3, <2>1, <2>3, ClaimStatus
  <2>4. CASE BatchOf[m] \notin completed
    BY <2>2, <2>4, CompletesSettled, ClaimRows
  <2> QED BY <2>3, <2>4
<1>4. ASSUME NEW r \in lateAcks \cup {acks}, AckDrain(r) PROVE status'[m] \in Terminal
  <2>1. PICK R \in SUBSET Messages : completed' = Completes(R, status')
    <3> DEFINE R == {c.id : c \in {d \in r :
                        HasRow(d.id) /\ status[d.id] = "held" /\ gen[d.id] = d.drainCount}}
    <3>1. R \in SUBSET Messages
      BY RequestTyped DEF Offers
    <3> QED BY <1>4, <3>1 DEF AckDrain
  <2>2. CASE BatchOf[m] \in completed
    BY <1>0, <1>4, <2>2, AckStatus, RequestTyped DEF Terminal
  <2>3. CASE BatchOf[m] \notin completed
    BY <2>1, <2>3, CompletesSettled
  <2> QED BY <2>2, <2>3
<1>5. CASE RecordOutcomes
  BY <1>0, <1>5 DEF RecordOutcomes, Terminal
<1> QED
  BY <1>1, <1>2, <1>3, <1>4, <1>5, SpoolSteps

-----------------------------------------------------------------------------
(* What the notices say, and what is told.                                 *)

\* The offer a notice is about.
About(n) == [id |-> n.id, drainCount |-> n.drainCount]

\* What is still in the mailbox, or has just come.
LEMMA MailboxSteps ==
    ASSUME [Next]_vars
    PROVE  \/ mailbox' \subseteq mailbox /\ UNCHANGED <<delivered, bounced>>
           \/ \E c \in accepted : \/ Mx1Delivers(c) /\ Notify(c, "delivered")
                                  \/ Mx1Bounces(c) /\ Notify(c, "bounced")
                                  \/ Mx1Delays(c) /\ Notify(c, "delayed")
<1> USE DEF mx1
<1>1. CASE \E c \in accepted : Mx1Delivers(c) \/ Mx1Bounces(c) \/ Mx1Delays(c)
  BY <1>1 DEF Mx1Delivers, Mx1Bounces, Mx1Delays
<1>2. CASE CollectorCrash \/ SettleNotices
  BY <1>2 DEF CollectorCrash, SettleNotices, Retire
<1>3. CASE UNCHANGED vars \/ Drain \/ OrphanClaim \/ SkipSubmitted \/ Mx1Accepts
           \/ SubmitResolves \/ SubmitFails \/ AckHandled \/ AckFails \/ ReportOutcomes
  BY <1>3 DEF vars, Drain, OrphanClaim, SkipSubmitted, Mx1Accepts, SubmitResolves, SubmitFails,
         AckHandled, AckFails, ReportOutcomes
<1>4. ASSUME NEW x, Enqueue(x) \/ Cleanup(x) \/ RemoveSuppression(x) \/ LeaseLapses(x)
                    \/ SweepForgets(x) \/ LateAck(x) \/ NoticeAges(x)
      PROVE  mailbox' \subseteq mailbox /\ UNCHANGED <<delivered, bounced>>
  BY <1>4 DEF Enqueue, Cleanup, RemoveSuppression, LeaseLapses, SweepForgets, LateAck, NoticeAges
<1> QED
  BY <1>1, <1>2, <1>3, <1>4 DEF Next

\* A step adds only notices of copies mx1 has taken.
LEMMA NoticesTrueStep == TypeOK /\ NoticesTrue /\ [Next]_vars => NoticesTrue'
<1> SUFFICES ASSUME TypeOK, NoticesTrue, [Next]_vars, NEW n \in mailbox'
             PROVE  /\ About(n) \in accepted'
                    /\ n.outcome = "delivered" => About(n) \in delivered'
                    /\ n.outcome = "bounced" => About(n) \in bounced'
  BY DEF NoticesTrue, About
<1>0. n \in mailbox => /\ About(n) \in accepted
                       /\ n.outcome = "delivered" => About(n) \in delivered
                       /\ n.outcome = "bounced" => About(n) \in bounced
  BY DEF NoticesTrue, About
<1>1. CASE mailbox' \subseteq mailbox /\ UNCHANGED <<delivered, bounced>>
  BY <1>0, <1>1, IdsGrow
<1>2. ASSUME NEW c \in accepted, NEW o \in {"delivered", "bounced", "delayed"},
             Notify(c, o), delivered \subseteq delivered', bounced \subseteq bounced',
             o = "delivered" => c \in delivered', o = "bounced" => c \in bounced'
      PROVE  /\ About(n) \in accepted'
             /\ n.outcome = "delivered" => About(n) \in delivered'
             /\ n.outcome = "bounced" => About(n) \in bounced'
  <2>1. [id |-> c.id, drainCount |-> c.drainCount] = c
    BY DEF TypeOK, Offers
  <2>2. CASE n \in mailbox
    BY <1>0, <1>2, <2>2, IdsGrow
  <2>3. CASE n = [id |-> c.id, drainCount |-> c.drainCount, outcome |-> o]
    BY <1>2, <2>1, <2>3, IdsGrow DEF About
  <2> QED BY <1>2, <2>2, <2>3 DEF Notify
<1>3. ASSUME NEW c \in accepted, \/ Mx1Delivers(c) /\ Notify(c, "delivered")
                                 \/ Mx1Bounces(c) /\ Notify(c, "bounced")
                                 \/ Mx1Delays(c) /\ Notify(c, "delayed")
      PROVE  /\ About(n) \in accepted'
             /\ n.outcome = "delivered" => About(n) \in delivered'
             /\ n.outcome = "bounced" => About(n) \in bounced'
  BY <1>2, <1>3 DEF Mx1Delivers, Mx1Bounces, Mx1Delays, mx1
<1> QED
  BY <1>1, <1>3, MailboxSteps

\* What became of a copy stays so.
LEMMA FatesStay == ASSUME [Next]_vars PROVE delivered \subseteq delivered' /\ bounced \subseteq bounced'
  BY MailboxSteps DEF Mx1Delivers, Mx1Bounces, Mx1Delays, mx1

\* A step tells Ghost of a message once, and the truth.
LEMMA OutcomeTrueStep ==
    TypeOK /\ ToldByStatus /\ NoticesTrue /\ OutcomeTrue /\ [Next]_vars => OutcomeTrue'
<1> SUFFICES ASSUME TypeOK, ToldByStatus, NoticesTrue, OutcomeTrue, [Next]_vars,
                    NEW m \in Messages, told'[m] # <<>>
             PROVE  \/ told'[m] = <<"delivered">> /\ Offer(m)' \in delivered'
                    \/ told'[m] = <<"failed">> /\ (m \in Unsafe \/ Offer(m)' \in bounced')
  BY DEF OutcomeTrue
<1>0. \/ told[m] = <<>> /\ status[m] \notin {"delivered", "failed"}
      \/ /\ status[m] \in {"delivered", "failed"}
         /\ \/ told[m] = <<"delivered">> /\ Offer(m) \in delivered
            \/ told[m] = <<"failed">> /\ (m \in Unsafe \/ Offer(m) \in bounced)
  BY DEF OutcomeTrue, ToldByStatus
<1>1. CASE told'[m] = told[m] /\ gen'[m] = gen[m]
  BY <1>0, <1>1, FatesStay DEF Offer
<1>2. CASE \/ UNCHANGED spool \/ (\E b \in Batches : Enqueue(b) \/ Cleanup(b))
           \/ (\E a \in Addresses : RemoveSuppression(a)) \/ (\E k \in Messages : LeaseLapses(k))
           \/ (\E r \in lateAcks \cup {acks} : AckDrain(r))
  BY <1>1, <1>2 DEF spool, Enqueue, Cleanup, RemoveSuppression, LeaseLapses, AckDrain
<1>3. ASSUME NEW P \in SUBSET Candidates, Claim(P), m \in P
      PROVE  told'[m] = <<"failed">> /\ m \in Unsafe
  <2>1. told[m] = <<>>
    BY <1>0, <1>3, ClaimRows
  <2> QED BY <1>3, <2>1, ClaimStatus, EventTyped
<1>4. ASSUME NEW P \in SUBSET Candidates, Claim(P), m \notin P
      PROVE  told'[m] = told[m] /\ gen'[m] = gen[m]
  BY <1>4, ClaimStatus
<1>5. CASE RecordOutcomes
  <2>1. gen' = gen /\ told'[m] = IF m \in Recorded("delivered") THEN Append(told[m], "delivered")
                                 ELSE IF m \in Recorded("bounced") THEN Append(told[m], "failed")
                                 ELSE told[m]
    BY <1>5 DEF RecordOutcomes
  <2>2. ASSUME NEW o, m \in Recorded(o)
        PROVE  \E n \in mailbox : n.outcome = o /\ About(n) = Offer(m) /\ told[m] = <<>>
    BY <1>0, <2>2 DEF Recorded, Known, About, Offer
  <2>3. \A n \in mailbox : /\ n.outcome = "delivered" => About(n) \in delivered
                           /\ n.outcome = "bounced" => About(n) \in bounced
    BY DEF NoticesTrue, About
  <2>4. CASE m \in Recorded("delivered")
    <3>1. Offer(m) \in delivered /\ told[m] = <<>>
      BY <2>2, <2>3, <2>4
    <3> QED BY <2>1, <2>4, <3>1, EventTyped, FatesStay DEF Offer
  <2>5. CASE m \notin Recorded("delivered") /\ m \in Recorded("bounced")
    <3>1. Offer(m) \in bounced /\ told[m] = <<>>
      BY <2>2, <2>3, <2>5
    <3> QED BY <2>1, <2>5, <3>1, EventTyped, FatesStay DEF Offer
  <2> QED BY <1>1, <2>1, <2>4, <2>5
<1> QED
  BY <1>1, <1>2, <1>3, <1>4, <1>5, SpoolSteps

\* What was told stays told.
LEMMA ToldStays ==
    ASSUME TypeOK, [Next]_vars, NEW m \in Messages, told[m] # <<>>
    PROVE  told'[m] # <<>>
<1>1. CASE \/ UNCHANGED spool \/ (\E b \in Batches : Enqueue(b) \/ Cleanup(b))
           \/ (\E a \in Addresses : RemoveSuppression(a)) \/ (\E k \in Messages : LeaseLapses(k))
           \/ (\E r \in lateAcks \cup {acks} : AckDrain(r))
  BY <1>1 DEF spool, Enqueue, Cleanup, RemoveSuppression, LeaseLapses, AckDrain
<1>2. ASSUME NEW P \in SUBSET Candidates, Claim(P) PROVE told'[m] # <<>>
  BY <1>2, ClaimStatus, EventTyped
<1>3. CASE RecordOutcomes
  BY <1>3, EventTyped DEF RecordOutcomes
<1> QED
  BY <1>1, <1>2, <1>3, SpoolSteps

\* What a step does to the pass in progress.
LEMMA PassSteps ==
    ASSUME [Next]_vars
    PROVE  \/ UNCHANGED outcomes
           \/ listed' = {}
           \/ ReportOutcomes /\ listed' = mailbox /\ unknown' = Ids({n \in mailbox : ~Known(n)})
<1> USE DEF outcomes
<1>1. CASE CollectorCrash \/ SettleNotices
  BY <1>1 DEF CollectorCrash, SettleNotices
<1>2. CASE UNCHANGED vars \/ Drain \/ OrphanClaim \/ SkipSubmitted \/ Mx1Accepts
           \/ SubmitResolves \/ SubmitFails \/ AckHandled \/ AckFails
  BY <1>2 DEF vars, Drain, OrphanClaim, SkipSubmitted, Mx1Accepts, SubmitResolves, SubmitFails,
         AckHandled, AckFails
<1>3. CASE ReportOutcomes
  BY <1>3 DEF ReportOutcomes
<1>4. ASSUME NEW x, Enqueue(x) \/ Cleanup(x) \/ RemoveSuppression(x) \/ LeaseLapses(x)
                    \/ SweepForgets(x) \/ LateAck(x) \/ NoticeAges(x)
                    \/ Mx1Delivers(x) \/ Mx1Bounces(x) \/ Mx1Delays(x)
      PROVE  UNCHANGED outcomes
  BY <1>4 DEF Enqueue, Cleanup, RemoveSuppression, LeaseLapses, SweepForgets, LateAck, NoticeAges,
         Mx1Delivers, Mx1Bounces, Mx1Delays
<1> QED
  BY <1>1, <1>2, <1>3, <1>4 DEF Next

\* A step lists for retirement only what the spool answered for.
LEMMA AnsweredStep ==
    TypeOK /\ ToldByStatus /\ Answered /\ [Next]_vars => Answered'
<1> SUFFICES ASSUME TypeOK, ToldByStatus, Answered, [Next]_vars,
                    NEW n \in listed', Final(n), n.id \notin unknown'
             PROVE  told'[n.id] # <<>>
  BY DEF Answered, Final
<1>1. CASE UNCHANGED outcomes
  <2>1. n \in listed /\ told[n.id] # <<>> /\ n.id \in Messages
    BY <1>1 DEF outcomes, Answered, TypeOK, Notices
  <2> QED BY <2>1, ToldStays
<1>2. CASE ReportOutcomes /\ listed' = mailbox /\ unknown' = Ids({k \in mailbox : ~Known(k)})
  <2>1. n \in mailbox /\ Known(n) /\ n.id \in Messages
    BY <1>2 DEF Ids, TypeOK, Notices
  <2>2. CASE status[n.id] = "sent"
    <3>1. n.outcome \in {"delivered", "bounced"}
      BY <2>1 DEF TypeOK, Notices, Final
    <3>2. n.id \in Recorded("delivered") \/ n.id \in Recorded("bounced")
      BY <2>1, <2>2, <3>1 DEF Recorded
    <3> QED BY <1>2, <2>1, <3>2, EventTyped DEF ReportOutcomes, RecordOutcomes
  <2>3. CASE status[n.id] # "sent"
    <3>1. told[n.id] # <<>>
      BY <2>1, <2>3 DEF Known, ToldByStatus
    <3> QED BY <2>1, <3>1, ToldStays
  <2> QED BY <2>2, <2>3
<1> QED
  BY <1>1, <1>2, PassSteps

-----------------------------------------------------------------------------
(* The count of copies.                                                    *)

\* The copies of a message after mx1 takes an offer of it, or of another.
LEMMA CopyTaken ==
    ASSUME IsFiniteSet(accepted), NEW c, NEW m, accepted' = accepted \cup {c}
    PROVE  /\ IsFiniteSet(accepted')
           /\ Cardinality(Copies(m)) \in Nat
           /\ c.id # m => Copies(m)' = Copies(m)
           /\ c.id = m => Cardinality(Copies(m)') <= Cardinality(Copies(m)) + 1
<1>1. IsFiniteSet(accepted')
  BY FS_AddElement
<1>2. IsFiniteSet(Copies(m))
  BY FS_Subset DEF Copies
<1>3. Cardinality(Copies(m)) \in Nat
  BY <1>2, FS_CardinalityType
<1>4. c.id # m => Copies(m)' = Copies(m)
  BY DEF Copies
<1>5. c.id = m => Copies(m)' = Copies(m) \cup {c}
  BY DEF Copies
<1>6. Cardinality(Copies(m) \cup {c}) <= Cardinality(Copies(m)) + 1
  BY <1>2, <1>3, FS_AddElement
<1> QED
  BY <1>1, <1>3, <1>4, <1>5, <1>6

\* The copy of m that no gap has to pay for.
Free(m) == IF m \in seenDisk \/ (pc = "accepted" /\ Head1.id = m) THEN 1 ELSE 0

\* A step adds a copy only of a message nobody remembers, or counts a gap.
LEMMA CopiesPaidStep ==
    TypeOK /\ HeadTaken /\ HandedOn /\ CopiesPaid /\ [Next]_vars => CopiesPaid'
<1> SUFFICES ASSUME TypeOK, HeadTaken, HandedOn, CopiesPaid, [Next]_vars
             PROVE  /\ IsFiniteSet(accepted)'
                    /\ \A m \in Messages : Cardinality(Copies(m))' <= gaps'[m] + Free(m)'
  BY DEF CopiesPaid, Free
<1>1. IsFiniteSet(accepted) /\ \A m \in Messages : Cardinality(Copies(m)) <= gaps[m] + Free(m)
  BY DEF CopiesPaid, Free
<1>2. CASE Mx1Accepts
  <2>1. accepted' = accepted \cup {Head1} /\ Head1' = Head1 /\ Head1.id \notin seenDisk
    BY <1>2, HeadKept DEF Mx1Accepts, HandedOn
  <2>2. IsFiniteSet(accepted')
    BY <1>1, <2>1, CopyTaken
  <2>3. ASSUME NEW m \in Messages PROVE Cardinality(Copies(m)') <= gaps'[m] + Free(m)'
    <3>1. Cardinality(Copies(m)) \in Nat /\ gaps[m] \in Nat /\ gaps'[m] = gaps[m]
      BY <1>1, <1>2, <2>1, CopyTaken DEF TypeOK, Mx1Accepts
    <3>2. CASE m = Head1.id
      <4>1. Free(m) = 0 /\ Free(m)' = 1
        BY <1>2, <2>1, <3>2 DEF Free, Mx1Accepts
      <4>2. Cardinality(Copies(m)') <= Cardinality(Copies(m)) + 1
        BY <1>1, <2>1, <3>2, CopyTaken
      <4>3. Cardinality(Copies(m)') \in Nat
        BY <2>2, FS_Subset, FS_CardinalityType DEF Copies
      <4> QED BY <1>1, <3>1, <4>1, <4>2, <4>3
    <3>3. CASE m # Head1.id
      <4>1. Free(m)' = Free(m)
        BY <1>2, <2>1, <3>3 DEF Free, Mx1Accepts
      <4>2. Copies(m)' = Copies(m)
        BY <1>1, <2>1, <3>3, CopyTaken
      <4> QED BY <1>1, <3>1, <4>1, <4>2
    <3> QED BY <3>2, <3>3
  <2> QED BY <2>2, <2>3
<1>3. CASE ~Mx1Accepts
  <2>1. accepted' = accepted
    BY <1>3, AcceptedGrows
  <2>2. ASSUME NEW m \in Messages
        PROVE  \/ gaps'[m] = gaps[m] /\ (Free(m)' = Free(m) \/ Free(m)' = 1)
               \/ gaps'[m] = gaps[m] + 1
    <3>1. CASE UNCHANGED <<drainLoop, seen, seenDisk, lateAcks, gaps>>
      BY <3>1, HeadKept DEF Free, drainLoop
    <3>2. CASE Drain \/ SkipSubmitted \/ AckHandled \/ AckFails
      BY <3>2 DEF Free, Drain, SkipSubmitted, AckHandled, AckFails, Advance
    <3>3. CASE SubmitResolves
      <4>1. m # Head1.id => (gaps'[m] = gaps[m] /\ (Free(m)' = Free(m) \/ Free(m)' = 1))
        BY <3>3 DEF SubmitResolves, Advance, Gap, TypeOK, Free, HandedOn
      <4>2. m = Head1.id => (gaps'[m] = gaps[m] /\ Free(m)' = 1) \/ gaps'[m] = gaps[m] + 1
        BY <3>3 DEF SubmitResolves, Gap, TypeOK, Free
      <4> QED BY <4>1, <4>2
    <3>4. CASE SubmitFails
      <4>1. m # Head1.id \/ pc = "submitting" =>
              (gaps'[m] = gaps[m] /\ Free(m)' = Free(m))
        BY <3>4 DEF SubmitFails, BreakOff, Gap, TypeOK, Free
      <4>2. m = Head1.id /\ pc = "accepted" => gaps'[m] = gaps[m] + 1
        BY <3>4 DEF SubmitFails, Gap, TypeOK
      <4> QED BY <3>4, <4>1, <4>2 DEF SubmitFails
    <3>5. CASE CollectorCrash
      <4>1. ~(pc = "accepted" /\ Head1.id = m) =>
              (gaps'[m] = gaps[m] /\ Free(m)' = Free(m))
        BY <3>5 DEF CollectorCrash, Gap, TypeOK, Free
      <4>2. pc = "accepted" /\ Head1.id = m => gaps'[m] = gaps[m] + 1
        BY <3>5 DEF CollectorCrash, Gap, TypeOK
      <4> QED BY <4>1, <4>2
    <3>6. ASSUME NEW r, LateAck(r)
          PROVE  gaps'[m] = gaps[m] /\ Free(m)' = Free(m)
      BY <3>6, HeadKept DEF LateAck, drainLoop, Free
    <3>7. ASSUME NEW k \in Messages, SweepForgets(k)
          PROVE  \/ gaps'[m] = gaps[m] /\ (Free(m)' = Free(m) \/ Free(m)' = 1)
                 \/ gaps'[m] = gaps[m] + 1
      BY <3>7, HeadKept DEF SweepForgets, Gap, TypeOK, drainLoop, Free, HandedOn
    <3> QED BY <1>3, <3>1, <3>2, <3>3, <3>4, <3>5, <3>6, <3>7, LoopSteps
  <2>3. ASSUME NEW m \in Messages PROVE Cardinality(Copies(m)') <= gaps'[m] + Free(m)'
    <3>1. Copies(m)' = Copies(m) /\ Cardinality(Copies(m)) \in Nat /\ gaps[m] \in Nat
      <4>1. IsFiniteSet(Copies(m))
        BY <1>1, FS_Subset DEF Copies
      <4> QED BY <2>1, <4>1, FS_CardinalityType DEF Copies, TypeOK
    <3>2. Free(m) \in {0, 1} /\ Free(m)' \in {0, 1}
      BY DEF Free
    <3> QED BY <1>1, <2>2, <3>1, <3>2
  <2> QED BY <1>1, <2>1, <2>3
<1> QED
  BY <1>2, <1>3

-----------------------------------------------------------------------------
(* The theorems.                                                           *)

\* The initial states satisfy the strengthening.
LEMMA IInvInit == Init => IInv
<1> SUFFICES ASSUME Init PROVE IInv
  OBVIOUS
<1>1. /\ HeadTaken /\ HandedOn /\ OffersSafe /\ NoticesTrue /\ Answered
  BY DEF Init, HeadTaken, HandedOn, OffersSafe, NoticesTrue, Answered, Ids
<1>4. NoMailLost /\ ToldByStatus /\ OutcomeTrue /\ CompletedSettled
  BY DEF Init, NoMailLost, ToldByStatus, OutcomeTrue, CompletedSettled
<1>2. \A m \in Messages : Copies(m) = {} /\ gaps[m] = 0
  BY DEF Init, Copies
<1>3. CopiesPaid
  <2>1. IsFiniteSet(accepted) /\ Cardinality({}) = 0
    BY FS_EmptySet DEF Init
  <2>2. \A m \in Messages : m \notin seenDisk /\ pc # "accepted"
    BY DEF Init
  <2>3. ASSUME NEW m \in Messages
        PROVE  Cardinality(Copies(m)) <=
                 gaps[m] + (IF m \in seenDisk \/ (pc = "accepted" /\ Head1.id = m) THEN 1 ELSE 0)
    <3>1. Cardinality(Copies(m)) = 0 /\ gaps[m] = 0
      BY <1>2, <2>1
    <3> QED BY <2>2, <3>1
  <2> QED BY <2>1, <2>3 DEF CopiesPaid
<1> QED
  BY <1>1, <1>3, <1>4, TypeInit DEF IInv

\* Every step preserves the strengthening.
LEMMA IInvStep == IInv /\ [Next]_vars => IInv'
<1> SUFFICES ASSUME IInv, [Next]_vars PROVE IInv'
  OBVIOUS
<1> USE DEF IInv
<1>1. TypeOK'
  BY TypeStep
<1>2. HeadTaken' /\ HandedOn' /\ OffersSafe'
  BY HeadTakenStep, HandedOnStep, OffersSafeStep
<1>3. NoMailLost' /\ ToldByStatus' /\ CompletedSettled'
  BY NoMailLostStep, ToldByStatusStep, CompletedSettledStep
<1>4. NoticesTrue' /\ OutcomeTrue' /\ Answered'
  BY NoticesTrueStep, OutcomeTrueStep, AnsweredStep
<1>5. CopiesPaid'
  BY CopiesPaidStep
<1> QED
  BY <1>1, <1>2, <1>3, <1>4, <1>5

\* The strengthening from which the theorems below follow is an invariant.
THEOREM Inductive == Spec => []IInv
  BY IInvInit, IInvStep, PTL DEF Spec

\* What the spool takes for sent, mx1 has.
THEOREM MailNotLost == Spec => []NoMailLost
<1>1. IInv => NoMailLost
  BY DEF IInv
<1> QED BY <1>1, Inductive, PTL

\* The one final event of a message tells what became of it.
THEOREM OutcomesTrue == Spec => []OutcomeTrue
<1>1. IInv => OutcomeTrue
  BY DEF IInv
<1> QED BY <1>1, Inductive, PTL

\* Cleanup removes no row that is outstanding.
THEOREM CompletedAreSettled == Spec => []CompletedSettled
<1>1. IInv => CompletedSettled
  BY DEF IInv
<1> QED BY <1>1, Inductive, PTL

\* Each copy beyond the first has one of the documented reasons of its own.
THEOREM CopiesBounded == Spec => []BoundedCopies
<1>1. IInv => BoundedCopies
  <2> SUFFICES ASSUME IInv, NEW m \in Messages PROVE Cardinality(Copies(m)) <= 1 + gaps[m]
    BY DEF BoundedCopies
  <2>1. Cardinality(Copies(m)) <= gaps[m] + Free(m) /\ Free(m) \in {0, 1}
    BY DEF IInv, CopiesPaid, Free
  <2>2. gaps[m] \in Nat /\ Cardinality(Copies(m)) \in Nat
    <3>1. IsFiniteSet(Copies(m))
      BY FS_Subset DEF IInv, CopiesPaid, Copies
    <3> QED BY <3>1, FS_CardinalityType DEF IInv, TypeOK
  <2> QED BY <2>1, <2>2
<1> QED BY <1>1, Inductive, PTL

\* Only the end of a pass, or a death in it, takes notices out of the mailbox.
LEMMA KeptElsewhere ==
    ASSUME [Next]_vars, ~(CollectorCrash \/ SettleNotices)
    PROVE  mailbox \subseteq mailbox'
<1>1. CASE UNCHANGED vars \/ Drain \/ OrphanClaim \/ SkipSubmitted \/ Mx1Accepts
           \/ SubmitResolves \/ SubmitFails \/ AckHandled \/ AckFails \/ ReportOutcomes
  BY <1>1 DEF vars, Drain, OrphanClaim, SkipSubmitted, Mx1Accepts, SubmitResolves, SubmitFails,
         AckHandled, AckFails, ReportOutcomes
<1>2. ASSUME NEW x, Enqueue(x) \/ Cleanup(x) \/ RemoveSuppression(x) \/ LeaseLapses(x)
                    \/ SweepForgets(x) \/ LateAck(x) \/ NoticeAges(x)
                    \/ Mx1Delivers(x) \/ Mx1Bounces(x) \/ Mx1Delays(x)
      PROVE  mailbox \subseteq mailbox'
  BY <1>2 DEF Enqueue, Cleanup, RemoveSuppression, LeaseLapses, SweepForgets, LateAck, NoticeAges,
         Mx1Delivers, Mx1Bounces, Mx1Delays, Notify
<1> QED
  BY <1>1, <1>2 DEF Next

\* A fresh notice of a final outcome is retired only once Ghost can read of it.
THEOREM OutcomesKept == Spec => FreshOutcomeKept
<1>1. IInv /\ [Next]_vars => [\A n \in mailbox \ mailbox' :
                                 Final(n) /\ n \notin stale => told[n.id] # <<>>]_vars
  <2> SUFFICES ASSUME IInv, [Next]_vars, NEW n \in mailbox \ mailbox', Final(n), n \notin stale
               PROVE  told[n.id] # <<>>
    OBVIOUS
  <2>1. CollectorCrash \/ SettleNotices
    BY KeptElsewhere
  <2>2. n \in Retirable
    BY <2>1 DEF CollectorCrash, SettleNotices, Retire
  <2> QED BY <2>2 DEF Retirable, Kept, IInv, Answered
<1> QED BY <1>1, Inductive, PTL DEF Spec, FreshOutcomeKept

-----------------------------------------------------------------------------
(* The path implements MailHandover.                                       *)

HQueued  == {m \in Messages : status[m] # "none"}
HSpool   == {m \in Messages : HasRow(m) /\ status[m] \notin Terminal}
HRelayed == Ids(accepted)
HRefused == {m \in Messages : status[m] = "suppressed" \/ (status[m] = "failed" /\ m \in Unsafe)}
HBarred  == {m \in Messages : Suppressed(m) \/ m \in Unsafe}

\* Initially nothing is queued.
LEMMA HandoverInit == Init => Handover!Init
  BY DEF Init, Handover!Init, HasRow, Ids

\* A row that is not settled has not been removed.
LEMMA OutstandingRow ==
    ASSUME TypeOK, CompletedSettled, NEW m \in Messages, status[m] \notin Terminal
    PROVE  BatchOf[m] \notin deleted
  BY DEF TypeOK, CompletedSettled

\* What the abstract state becomes when the spool is left alone.
LEMMA HandoverKept ==
    ASSUME UNCHANGED <<status, deleted>>
    PROVE  HQueued' = HQueued /\ HSpool' = HSpool /\ HRefused' = HRefused
  BY DEF HQueued, HSpool, HRefused, HasRow

\* Each transaction of the spool is a step of the abstract one, or a stutter.
LEMMA EnqueueQueues ==
    ASSUME IInv, NEW b \in Batches, Enqueue(b)
    PROVE  \E M \in SUBSET Messages :
             /\ M \cap HQueued = {} /\ HQueued' = HQueued \cup M /\ HSpool' = HSpool \cup M
             /\ HRefused' = HRefused /\ HBarred' = HBarred
<1> DEFINE M == {m \in Messages : BatchOf[m] = b}
<1>1. \A m \in M : status[m] = "none" /\ BatchOf[m] \notin deleted
  BY OutstandingRow DEF Enqueue, IInv, Terminal
<1>2. /\ deleted' = deleted /\ suppressed' = suppressed
      /\ \A m \in Messages : status'[m] = IF m \in M THEN "pending" ELSE status[m]
  BY DEF Enqueue
<1>3. M \cap HQueued = {} /\ HQueued' = HQueued \cup M
  BY <1>1, <1>2 DEF HQueued
<1>4. HSpool' = HSpool \cup M
  BY <1>1, <1>2 DEF HSpool, HasRow, Terminal
<1>5. HRefused' = HRefused /\ HBarred' = HBarred
  BY <1>1, <1>2 DEF HRefused, HBarred, Suppressed
<1> QED
  BY <1>3, <1>4, <1>5

\* A claim refuses rows of barred recipients and takes nothing else out of the spool.
LEMMA ClaimRefuses ==
    ASSUME IInv, NEW P \in SUBSET Candidates, Claim(P)
    PROVE  \E M \in SUBSET Messages :
             /\ M \subseteq HSpool \cap HBarred /\ HSpool' = HSpool \ M
             /\ HRefused' = HRefused \cup M /\ HQueued' = HQueued /\ HBarred' = HBarred
<1> DEFINE M == {m \in P : ~Sendable(m)}
<1>1. M \in SUBSET Messages /\ P \subseteq Messages /\ TypeOK
  BY ClaimRows DEF IInv
<1>2. \A m \in P : status[m] \in {"pending", "held"} /\ BatchOf[m] \notin deleted
  BY <1>1, ClaimRows, OutstandingRow DEF IInv, Terminal
<1>3. M \subseteq HSpool \cap HBarred
  BY <1>1, <1>2 DEF HSpool, HBarred, HasRow, Terminal, Sendable
<1>4. deleted' = deleted /\ suppressed' = suppressed
  BY DEF Claim
<1>5. \A m \in Messages :
        /\ m \notin P => status'[m] = status[m]
        /\ m \in M => \/ status'[m] = "suppressed"
                      \/ status'[m] = "failed" /\ m \in Unsafe
        /\ m \in P \ M => status'[m] = "held"
  BY <1>1, ClaimStatus
<1>6. HSpool' = HSpool \ M
  BY <1>1, <1>2, <1>4, <1>5 DEF HSpool, HasRow, Terminal
<1>7. HRefused' = HRefused \cup M /\ HQueued' = HQueued
  BY <1>1, <1>2, <1>5 DEF HRefused, HQueued
<1>8. HBarred' = HBarred
  BY <1>4 DEF HBarred, Suppressed
<1> QED
  BY <1>1, <1>3, <1>6, <1>7, <1>8

\* An ack releases only rows whose message mx1 has taken.
LEMMA AckReleases ==
    ASSUME IInv, NEW r \in lateAcks \cup {acks}, AckDrain(r)
    PROVE  \E M \in SUBSET Messages :
             /\ M \subseteq HSpool \cap HRelayed /\ HSpool' = HSpool \ M
             /\ HRefused' = HRefused /\ HQueued' = HQueued /\ HBarred' = HBarred
<1> DEFINE M == {m \in Messages : status'[m] # status[m]}
<1>1. TypeOK /\ r \in SUBSET Offers /\ Ids(r) \subseteq Ids(accepted)
  BY RequestTyped DEF IInv, HandedOn
<1>2. \A m \in M : status'[m] = "sent" /\ status[m] = "held" /\ m \in Ids(accepted)
                  /\ BatchOf[m] \notin deleted
  BY <1>1, AckStatus, OutstandingRow DEF IInv, Terminal
<1>3. M \subseteq HSpool \cap HRelayed
  BY <1>2 DEF HSpool, HRelayed, HasRow, Terminal
<1>4. deleted' = deleted /\ suppressed' = suppressed
  BY DEF AckDrain
<1>5. HSpool' = HSpool \ M
  BY <1>2, <1>4 DEF HSpool, HasRow, Terminal
<1>6. HRefused' = HRefused /\ HQueued' = HQueued /\ HBarred' = HBarred
  BY <1>2, <1>4 DEF HRefused, HQueued, HBarred, Suppressed
<1> QED
  BY <1>3, <1>5, <1>6

\* An outcome takes no row out of the spool: it was acked before.
LEMMA RecordBars ==
    ASSUME IInv, RecordOutcomes
    PROVE  HSpool' = HSpool /\ HRefused' = HRefused /\ HQueued' = HQueued
<1>1. \A m \in Messages : m \in Recorded("bounced") \/ m \in Recorded("delivered") =>
                           status[m] = "sent" /\ m \notin Unsafe
  <2>1. ASSUME NEW n \in mailbox PROVE n.id \notin Unsafe
    <3> DEFINE c == [id |-> n.id, drainCount |-> n.drainCount]
    <3>1. c \in accepted /\ c.id = n.id
      BY DEF IInv, NoticesTrue
    <3> HIDE DEF c
    <3> QED BY <3>1 DEF IInv, OffersSafe
  <2> QED BY <2>1 DEF Recorded
<1>2. deleted' = deleted
  BY DEF RecordOutcomes
<1>3. \A m \in Messages :
        \/ status'[m] = status[m]
        \/ status[m] = "sent" /\ status'[m] \in {"delivered", "failed"} /\ m \notin Unsafe
  BY <1>1 DEF RecordOutcomes
<1> QED
  BY <1>2, <1>3 DEF HSpool, HRefused, HQueued, HasRow, Terminal

\* A step of the path is a step of MailHandover or changes nothing it shows.
LEMMA HandoverStep == IInv /\ [Next]_vars => [Handover!Next]_(Handover!vars)
<1> SUFFICES ASSUME IInv, [Next]_vars PROVE [Handover!Next]_(Handover!vars)
  OBVIOUS
<1> USE DEF Handover!Next, Handover!vars, Handover!Queue, Handover!Relay, Handover!Release,
            Handover!Refuse, Handover!Bar
<1>1. CASE Mx1Accepts
  <2>1. Head1 \in batch /\ Head1.id \in Messages /\ Head1.id \in HQueued
    BY <1>1, HeadInBatch DEF Mx1Accepts, IInv, TypeOK, Offers, OffersSafe, HQueued
  <2>2. HRelayed' = HRelayed \cup {Head1.id}
    BY <1>1 DEF Mx1Accepts, HRelayed, Ids
  <2>3. HQueued' = HQueued /\ HSpool' = HSpool /\ HRefused' = HRefused /\ HBarred' = HBarred
    BY <1>1, HandoverKept DEF Mx1Accepts, spool, HBarred, Suppressed
  <2> QED BY <2>1, <2>2, <2>3 DEF HQueued, HSpool, HRelayed, HRefused, HBarred
<1>2. CASE ~Mx1Accepts
  <2>1. HRelayed' = HRelayed
    BY <1>2, AcceptedGrows DEF HRelayed
  <2>2. CASE UNCHANGED spool \/ (\E m \in Messages : LeaseLapses(m))
    <3>1. HQueued' = HQueued /\ HSpool' = HSpool /\ HRefused' = HRefused /\ HBarred' = HBarred
      BY <2>2, HandoverKept DEF spool, LeaseLapses, HBarred, Suppressed
    <3> QED BY <2>1, <3>1 DEF HQueued, HSpool, HRelayed, HRefused, HBarred
  <2>3. ASSUME NEW b \in Batches, Enqueue(b) PROVE [Handover!Next]_(Handover!vars)
    BY <2>1, <2>3, EnqueueQueues DEF HQueued, HSpool, HRelayed, HRefused, HBarred
  <2>4. ASSUME NEW b \in Batches, Cleanup(b) PROVE [Handover!Next]_(Handover!vars)
    <3>1. HSpool' = HSpool
      BY <2>4 DEF Cleanup, HSpool, HasRow, IInv, CompletedSettled
    <3>2. HQueued' = HQueued /\ HRefused' = HRefused /\ HBarred' = HBarred
      BY <2>4 DEF Cleanup, HQueued, HRefused, HBarred, Suppressed
    <3> QED BY <2>1, <3>1, <3>2 DEF HQueued, HSpool, HRelayed, HRefused, HBarred
  <2>5. ASSUME HQueued' = HQueued, HSpool' = HSpool, HRefused' = HRefused
        PROVE  [Handover!Next]_(Handover!vars)
    <3>1. HBarred' \in SUBSET Messages
      BY DEF HBarred
    <3> QED BY <2>1, <2>5, <3>1 DEF HQueued, HSpool, HRelayed, HRefused, HBarred
  <2>6. ASSUME NEW a \in Addresses, RemoveSuppression(a) PROVE [Handover!Next]_(Handover!vars)
    BY <2>5, <2>6, HandoverKept DEF RemoveSuppression
  <2>7. ASSUME NEW P \in SUBSET Candidates, Claim(P) PROVE [Handover!Next]_(Handover!vars)
    BY <2>1, <2>7, ClaimRefuses DEF HQueued, HSpool, HRelayed, HRefused, HBarred
  <2>8. ASSUME NEW r \in lateAcks \cup {acks}, AckDrain(r)
        PROVE  [Handover!Next]_(Handover!vars)
    BY <2>1, <2>8, AckReleases DEF HQueued, HSpool, HRelayed, HRefused, HBarred
  <2>9. CASE RecordOutcomes
    BY <2>5, <2>9, RecordBars
  <2> QED BY <2>2, <2>3, <2>4, <2>6, <2>7, <2>8, <2>9, SpoolSteps
<1> QED
  BY <1>1, <1>2

\* Whatever fails on the way, a queued message leaves the spool only to mx1 or
\* because its recipient may not be mailed.
THEOREM PathImplementsHandover == Spec => HandoverSpec
  BY HandoverInit, HandoverStep, Inductive, PTL DEF Spec, HandoverSpec, Handover!Spec

\* The promise of MailHandover, in its own words: whatever left the spool was taken
\* over by mx1 or refused because of its recipient.
THEOREM EverythingAccounted == Spec => []Handover!Accounted
<1>1. IInv => Handover!Accounted
  <2> SUFFICES ASSUME IInv, NEW m \in Messages, m \in HQueued, m \notin HSpool
               PROVE  m \in HRelayed \/ m \in HRefused
    BY DEF Handover!Accounted, HQueued, HSpool, HRelayed, HRefused
  <2>1. status[m] \in Terminal
    BY OutstandingRow DEF IInv, HQueued, HSpool, HasRow
  <2>2. status[m] \in {"sent", "delivered"} \/ (status[m] = "failed" /\ m \notin Unsafe)
        => m \in Ids(accepted)
    BY CopyHeld DEF IInv, NoMailLost
  <2> QED
    BY <2>1, <2>2 DEF Terminal, HRelayed, HRefused
<1> QED BY <1>1, Inductive, PTL

-----------------------------------------------------------------------------
(* What the faults are to blame for.                                       *)

\* Nothing parts a copy from the lease it was submitted under: the collector does
\* not die, outlive a lease, lose an ack or be refused a message mx1 has taken.
Undisturbed == Faults \cap {"crash", "slow", "lostAck", "unclear"} = {}

\* What the collector has in hand is leased to it still.
InHand ==
    /\ lateAcks = {}
    /\ \A c \in batch \cup acks :
         c.drainCount = gen[c.id] /\ status[c.id] = "held" /\ c.id \notin lapsed

\* mx1 has copies of the current generation only, and of a row that is still
\* leased only the copy that is about to be acked.
Current ==
    \A c \in accepted :
        /\ c.drainCount = gen[c.id]
        /\ status[c.id] \in {"held", "sent", "delivered", "failed"}
        /\ status[c.id] = "held" => c \in acks \/ (pc = "accepted" /\ c = Head1)

\* Only the notices of rows that cleanup removed grow old.
StaleGone == \A n \in stale : BatchOf[n.id] \in deleted

\* The steps the faults left aside would have allowed.
LEMMA UndisturbedSteps ==
    ASSUME Undisturbed
    PROVE  /\ ~CollectorCrash /\ ~AckFails
           /\ \A m : LeaseLapses(m) => Offer(m) \notin batch \cup acks
           /\ SubmitFails => pc = "submitting"
           /\ \A n : NoticeAges(n) => status[n.id] \notin {"pending", "held"}
  BY DEF Undisturbed, CollectorCrash, AckFails, LeaseLapses, SubmitFails, NoticeAges, Fault

\* A claim takes no row of the collector's, and none mx1 has a copy of.
LEMMA ClaimPassesBy ==
    ASSUME TypeOK, InHand, Current, NEW P \in SUBSET Candidates, Claim(P),
           pc \in {"submitting", "accepted"} => batch # {}
    PROVE  \A c \in batch \cup acks \cup accepted :
             /\ c.id \in Messages /\ c.id \notin P
             /\ status'[c.id] = status[c.id] /\ gen'[c.id] = gen[c.id]
             /\ c.id \in lapsed' => c.id \in lapsed
<1> SUFFICES ASSUME NEW c \in batch \cup acks \cup accepted
             PROVE  /\ c.id \in Messages /\ c.id \notin P
                    /\ status'[c.id] = status[c.id] /\ gen'[c.id] = gen[c.id]
                    /\ c.id \in lapsed' => c.id \in lapsed
  OBVIOUS
<1>1. c.id \in Messages
  BY DEF TypeOK, Offers
<1>2. c.id \notin lapsed /\ status[c.id] # "pending"
  <2>1. CASE c \in batch \cup acks
    BY <2>1 DEF InHand
  <2>2. CASE c \in accepted /\ c = Head1 /\ pc = "accepted"
    BY <2>1, <2>2, HeadInBatch
  <2>3. CASE c \in accepted /\ status[c.id] # "held"
    BY <1>1, <2>3 DEF Current, TypeOK
  <2> QED
    BY <2>1, <2>2, <2>3 DEF Current
<1>3. c.id \notin P
  BY <1>2 DEF Candidates, Due
<1>4. lapsed' \subseteq lapsed
  BY DEF Claim
<1> QED
  BY <1>1, <1>3, <1>4, ClaimStatus

\* What a step of the loop, or of mx1, leaves in hand if the spool is left alone.
LEMMA InHandLoop ==
    ASSUME Undisturbed, TypeOK, InHand, Current, [Next]_vars, UNCHANGED spool,
           ~Drain, ~AckHandled
    PROVE  InHand' /\ Current'
<1>1. CASE SkipSubmitted
  <2>1. /\ Head1 \in batch /\ batch' = batch \ {Head1} /\ acks' = acks \cup {Head1}
        /\ pc = "submitting" /\ UNCHANGED <<lateAcks, accepted>>
    BY <1>1, HeadInBatch DEF SkipSubmitted, Advance, mx1, TypeOK
  <2> QED BY <2>1 DEF InHand, Current, spool
<1>2. CASE Mx1Accepts
  <2>1. /\ Head1 \in batch /\ accepted' = accepted \cup {Head1} /\ pc = "submitting"
        /\ pc' = "accepted" /\ UNCHANGED <<batch, acks, lateAcks>> /\ Head1' = Head1
    BY <1>2, HeadInBatch, HeadKept DEF Mx1Accepts, TypeOK
  <2> QED BY <2>1 DEF InHand, Current, spool
<1>3. CASE SubmitResolves
  <2>1. /\ Head1 \in batch /\ batch' = batch \ {Head1} /\ acks' = acks \cup {Head1}
        /\ UNCHANGED <<lateAcks, accepted>>
    BY <1>3, HeadInBatch DEF SubmitResolves, Advance, mx1, TypeOK
  <2> QED BY <2>1 DEF InHand, Current, spool
<1>4. CASE SubmitFails
  <2>1. batch' = {} /\ pc = "submitting" /\ UNCHANGED <<acks, lateAcks, accepted>>
    BY <1>4, UndisturbedSteps DEF SubmitFails, BreakOff, mx1
  <2> QED BY <2>1 DEF InHand, Current, spool
<1>5. CASE \E m \in Messages : SweepForgets(m)
  BY <1>5, HeadKept DEF SweepForgets, drainLoop, mx1, InHand, Current, spool
<1>6. CASE UNCHANGED <<drainLoop, seen, seenDisk, lateAcks, gaps>> /\ ~Mx1Accepts
  <2>1. UNCHANGED <<batch, acks, pc, lateAcks, accepted>> /\ Head1' = Head1
    BY <1>6, AcceptedGrows, HeadKept DEF drainLoop
  <2> QED BY <2>1 DEF InHand, Current, spool
<1>7. ~CollectorCrash /\ ~AckFails /\ ~(\E r \in lateAcks : LateAck(r))
  BY UndisturbedSteps DEF InHand
<1> QED
  BY <1>1, <1>2, <1>3, <1>4, <1>5, <1>6, <1>7, LoopSteps

\* A claim changes nothing of what is in hand; one that is handed out adds to it.
LEMMA InHandClaim ==
    ASSUME TypeOK, InHand, Current, NEW P \in SUBSET Candidates, Claim(P),
           UNCHANGED <<acks, lateAcks, accepted>>,
           \/ UNCHANGED <<batch, pc>>
           \/ pc = "idle" /\ pc' # "accepted" /\ batch' = Leased(P)
    PROVE  InHand' /\ Current'
<1>1. \A c \in batch \cup acks \cup accepted :
        /\ status'[c.id] = status[c.id] /\ gen'[c.id] = gen[c.id]
        /\ c.id \in lapsed' => c.id \in lapsed
  BY ClaimPassesBy DEF TypeOK
<1>2. \A c \in Leased(P) : /\ c.drainCount = gen'[c.id] /\ status'[c.id] = "held"
                           /\ c.id \notin lapsed'
  <2> SUFFICES ASSUME NEW m \in P, Sendable(m)
               PROVE  gen'[m] = gen[m] + 1 /\ status'[m] = "held" /\ m \notin lapsed'
    BY DEF Leased
  <2> QED BY ClaimRows, ClaimStatus DEF Claim
<1>3. InHand'
  BY <1>1, <1>2 DEF InHand
<1>4. pc = "idle" => acks = {}
  BY DEF TypeOK
<1>5. Current'
  BY <1>1, <1>4, HeadKept DEF Current
<1> QED
  BY <1>3, <1>5

\* An ack settles all the collector had to ack.
LEMMA InHandAcked ==
    ASSUME TypeOK, CompletedSettled, InHand, Current, AckHandled
    PROVE  InHand' /\ Current'
<1>1. /\ batch = {} /\ batch' = {} /\ acks' = {} /\ pc = "acking"
      /\ AckDrain(acks) /\ UNCHANGED <<lateAcks, accepted, gen>>
  BY DEF AckHandled, AckDrain, TypeOK, mx1
<1>2. \A c \in acks : c.id \in Messages /\ HasRow(c.id) /\ status'[c.id] = "sent"
  <2> SUFFICES ASSUME NEW c \in acks
               PROVE  c.id \in Messages /\ HasRow(c.id) /\ status'[c.id] = "sent"
    OBVIOUS
  <2>1. c.id \in Messages /\ status[c.id] = "held" /\ gen[c.id] = c.drainCount
    BY DEF InHand, TypeOK, Offers
  <2>2. HasRow(c.id)
    BY <2>1, OutstandingRow DEF HasRow, Terminal
  <2> QED BY <1>1, <2>1, <2>2 DEF AckDrain
<1>3. \A c \in accepted : status'[c.id] = "sent" \/ status'[c.id] = status[c.id]
  <2> SUFFICES ASSUME NEW c \in accepted
               PROVE  status'[c.id] = "sent" \/ status'[c.id] = status[c.id]
    OBVIOUS
  <2>1. c.id \in Messages
    BY DEF TypeOK, Offers
  <2> QED BY <1>1, <2>1, AckStatus, RequestTyped
<1>4. InHand'
  BY <1>1 DEF InHand
<1>5. Current'
  <2> SUFFICES ASSUME NEW c \in accepted
               PROVE  /\ c.drainCount = gen'[c.id]
                      /\ status'[c.id] \in {"sent", "delivered", "failed"}
    BY <1>1 DEF Current
  <2>1. status[c.id] = "held" => c \in acks
    BY <1>1 DEF Current
  <2> QED BY <1>1, <1>2, <1>3, <2>1 DEF Current
<1> QED
  BY <1>4, <1>5

\* The steps that matter to what is in hand.
LEMMA StepShapes ==
    ASSUME [Next]_vars
    PROVE  \/ AckHandled \/ Drain \/ OrphanClaim \/ UNCHANGED spool
           \/ \E b \in Batches : Enqueue(b) \/ Cleanup(b)
           \/ \E a \in Addresses : RemoveSuppression(a)
           \/ \E m \in Messages : LeaseLapses(m)
           \/ ReportOutcomes
           \/ \E r \in lateAcks : LateAck(r)
  BY DEF Next, vars, spool, SkipSubmitted, Mx1Accepts, SubmitResolves, SubmitFails, AckFails,
         CollectorCrash, Mx1Delivers, Mx1Bounces, Mx1Delays, SweepForgets, SettleNotices,
         NoticeAges

\* Every step keeps what is in hand leased, and mx1's copies current.
LEMMA InHandStep ==
    ASSUME Undisturbed, TypeOK, CompletedSettled, InHand, Current, [Next]_vars
    PROVE  InHand' /\ Current'
<1>1. CASE AckHandled
  BY <1>1, InHandAcked
<1>2. CASE Drain
  BY <1>2, InHandClaim DEF Drain, mx1
<1>3. CASE OrphanClaim
  BY <1>3, InHandClaim DEF OrphanClaim, drainLoop, mx1
<1>4. CASE UNCHANGED spool /\ ~Drain /\ ~AckHandled
  BY <1>4, InHandLoop
<1>5. ASSUME NEW b \in Batches, Enqueue(b) PROVE InHand' /\ Current'
  <2>1. \A m \in Messages : status[m] # "none" => status'[m] = status[m]
    BY <1>5 DEF Enqueue
  <2>2. \A c \in batch \cup acks \cup accepted : c.id \in Messages /\ status[c.id] # "none"
    BY DEF TypeOK, Offers, InHand, Current
  <2> QED BY <1>5, <2>1, <2>2, HeadKept DEF Enqueue, drainLoop, mx1, InHand, Current
<1>6. CASE (\E b \in Batches : Cleanup(b)) \/ (\E a \in Addresses : RemoveSuppression(a))
  BY <1>6, HeadKept DEF Cleanup, RemoveSuppression, drainLoop, mx1, InHand, Current
<1>7. ASSUME NEW m \in Messages, LeaseLapses(m) PROVE InHand' /\ Current'
  <2>1. \A c \in batch \cup acks : c.id # m
    <3> SUFFICES ASSUME NEW c \in batch \cup acks, c.id = m PROVE FALSE
      OBVIOUS
    <3>1. c \in Offers /\ c.drainCount = gen[m]
      BY DEF TypeOK, InHand
    <3>2. c = Offer(m)
      BY <3>1 DEF Offers, Offer
    <3> QED BY <1>7, <3>2, UndisturbedSteps
  <2> QED BY <1>7, <2>1, HeadKept DEF LeaseLapses, drainLoop, mx1, InHand, Current
<1>8. CASE ReportOutcomes
  <2>1. \A m \in Messages :
          \/ status'[m] = status[m]
          \/ status[m] = "sent" /\ status'[m] \in {"delivered", "failed"}
    <3>1. \A m \in Recorded("bounced") \cup Recorded("delivered") : status[m] = "sent"
      BY DEF Recorded
    <3>2. status' = [m \in Messages |-> IF m \in Recorded("delivered") THEN "delivered"
                                        ELSE IF m \in Recorded("bounced") THEN "failed"
                                        ELSE status[m]]
      BY <1>8 DEF ReportOutcomes, RecordOutcomes
    <3> QED BY <3>1, <3>2
  <2>2. \A c \in batch \cup acks \cup accepted : c.id \in Messages
    BY DEF TypeOK, Offers
  <2> QED BY <1>8, <2>1, <2>2, HeadKept DEF ReportOutcomes, RecordOutcomes, drainLoop, mx1, InHand, Current
<1>9. ~(\E r \in lateAcks : LateAck(r))
  BY DEF InHand
<1> QED
  BY <1>1, <1>2, <1>3, <1>4, <1>5, <1>6, <1>7, <1>8, <1>9, StepShapes

\* A notice that grows old is one of a removed row.
LEMMA StaleGoneStep ==
    ASSUME Undisturbed, IInv, Current, StaleGone, [Next]_vars
    PROVE  StaleGone'
<1>1. ASSUME NEW n \in mailbox, NoticeAges(n) PROVE BatchOf[n.id] \in deleted
  <2>1. PICK k \in mailbox : k.id = n.id /\ ~Known(k)
    BY <1>1 DEF NoticeAges
  <2> DEFINE c == [id |-> k.id, drainCount |-> k.drainCount]
  <2>2. c \in accepted /\ c.id = k.id /\ c.drainCount = k.drainCount
    BY DEF IInv, NoticesTrue
  <2> HIDE DEF c
  <2>3. k.drainCount = gen[k.id] /\ status[k.id] \in {"sent", "delivered", "failed"}
    BY <1>1, <2>1, <2>2, UndisturbedSteps DEF Current
  <2> QED BY <2>1, <2>3 DEF Known, HasRow
<1>2. deleted \subseteq deleted'
  BY SpoolSteps DEF spool, Enqueue, Cleanup, RemoveSuppression, LeaseLapses, Claim, AckDrain,
         RecordOutcomes
<1>3. stale' \subseteq stale \/ (\E n \in mailbox : NoticeAges(n) /\ stale' = stale \cup {n})
  <2>1. CASE UNCHANGED vars \/ Drain \/ OrphanClaim \/ SkipSubmitted \/ Mx1Accepts
             \/ SubmitResolves \/ SubmitFails \/ AckHandled \/ AckFails \/ ReportOutcomes
    BY <2>1 DEF vars, Drain, OrphanClaim, SkipSubmitted, Mx1Accepts, SubmitResolves, SubmitFails,
           AckHandled, AckFails, ReportOutcomes
  <2>2. ASSUME NEW x, Enqueue(x) \/ Cleanup(x) \/ RemoveSuppression(x) \/ LeaseLapses(x)
                      \/ SweepForgets(x) \/ LateAck(x)
                      \/ Mx1Delivers(x) \/ Mx1Bounces(x) \/ Mx1Delays(x)
        PROVE  stale' = stale
    BY <2>2 DEF Enqueue, Cleanup, RemoveSuppression, LeaseLapses, SweepForgets, LateAck,
           Mx1Delivers, Mx1Bounces, Mx1Delays
  <2>3. CASE CollectorCrash \/ SettleNotices
    BY <2>3 DEF CollectorCrash, SettleNotices, Retire
  <2>4. ASSUME NEW n \in mailbox, NoticeAges(n) PROVE stale' = stale \cup {n}
    BY <2>4 DEF NoticeAges
  <2> QED
    BY <2>1, <2>2, <2>3, <2>4 DEF Next
<1> QED
  BY <1>1, <1>2, <1>3 DEF StaleGone

\* Without those faults no outcome is lost: a notice of a final outcome leaves the
\* mailbox only once Ghost can read of it, unless cleanup removed the row.
THEOREM NoneLostUndisturbed ==
    ASSUME Undisturbed
    PROVE  /\ Spec => [][\A n \in mailbox \ mailbox' :
                           Final(n) /\ HasRow(n.id) => told[n.id] # <<>>]_vars
           /\ Spec => NoOutcomeLost
<1> DEFINE Told == \A n \in mailbox \ mailbox' : Final(n) /\ HasRow(n.id) => told[n.id] # <<>>
           UInv == InHand /\ Current /\ StaleGone
<1>1. Init => UInv
  BY DEF Init, InHand, Current, StaleGone
<1>2. IInv /\ UInv /\ [Next]_vars => UInv'
  BY InHandStep, StaleGoneStep DEF IInv
<1>3. Spec => []UInv
  BY <1>1, <1>2, Inductive, PTL DEF Spec
<1>4. UInv /\ [\A n \in mailbox \ mailbox' : Final(n) /\ n \notin stale => told[n.id] # <<>>]_vars
      => [Told]_vars
  BY DEF StaleGone, HasRow
<1>5. Spec => [][Told]_vars
  BY <1>3, <1>4, OutcomesKept, PTL DEF FreshOutcomeKept
<1>6. [Told]_vars => [\A n \in mailbox \ mailbox' :
                        Final(n) /\ HasRow(n.id) /\ Offer(n.id) \notin accepted => told[n.id] # <<>>]_vars
  OBVIOUS
<1> QED
  BY <1>5, <1>6, PTL DEF NoOutcomeLost

\* Without a reason to submit a message once more mx1 gets it once.
THEOREM OnceUnlessForgotten ==
    ASSUME Faults \cap {"crash", "unclear", "disk", "forget"} = {}
    PROVE  Spec => [](\A m \in Messages : Cardinality(Copies(m)) <= 1)
<1> DEFINE NoGap == gaps = [m \in Messages |-> 0]
<1>1. Init => NoGap
  BY DEF Init
<1>2. NoGap /\ [Next]_vars => NoGap'
  BY LoopSteps DEF SkipSubmitted, Mx1Accepts, SubmitResolves, SubmitFails, Drain,
         AckHandled, AckFails, CollectorCrash, LateAck, SweepForgets, Fault
<1>3. NoGap /\ BoundedCopies => \A m \in Messages : Cardinality(Copies(m)) <= 1
  BY DEF BoundedCopies
<1> QED
  BY <1>1, <1>2, <1>3, CopiesBounded, PTL DEF Spec

=============================================================================
