---------------------------- MODULE MailHandover ----------------------------
(***************************************************************************)
(* What the mail path promises of a message Ghost was told is queued: it   *)
(* stays in the tenant's spool until mx1 has taken it over, or until it is *)
(* refused because its recipient may not be mailed.  Nothing else takes it *)
(* out of the spool, whatever fails on the way.                            *)
(***************************************************************************)
CONSTANT Messages

VARIABLES
    queued,   \* messages Ghost was told are queued
    spool,    \* those the tenant's spool still answers for
    relayed,  \* those mx1 accepted at least once
    refused,  \* those dropped because of their recipient
    barred    \* those whose recipient may not be mailed now

vars == <<queued, spool, relayed, refused, barred>>

Init ==
    /\ queued = {} /\ spool = {} /\ relayed = {} /\ refused = {}
    /\ barred \subseteq Messages

Queue(M) ==
    /\ M \cap queued = {}
    /\ queued' = queued \cup M
    /\ spool' = spool \cup M
    /\ UNCHANGED <<relayed, refused, barred>>

\* mx1 may take a copy the spool has already stopped answering for.
Relay(m) ==
    /\ m \in queued
    /\ relayed' = relayed \cup {m}
    /\ UNCHANGED <<queued, spool, refused, barred>>

Release(M) ==
    /\ M \subseteq spool \cap relayed
    /\ spool' = spool \ M
    /\ UNCHANGED <<queued, relayed, refused, barred>>

Refuse(M) ==
    /\ M \subseteq spool \cap barred
    /\ spool' = spool \ M
    /\ refused' = refused \cup M
    /\ UNCHANGED <<queued, relayed, barred>>

Bar(B) ==
    /\ barred' = B
    /\ UNCHANGED <<queued, spool, relayed, refused>>

Next ==
    \/ \E M \in SUBSET Messages : Queue(M) \/ Release(M) \/ Refuse(M) \/ Bar(M)
    \/ \E m \in Messages : Relay(m)

Spec == Init /\ [][Next]_vars

\* Whatever left the spool was handed to mx1 or refused.
Accounted == queued \ spool \subseteq relayed \cup refused
=============================================================================
