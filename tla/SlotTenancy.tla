----------------------------- MODULE SlotTenancy -----------------------------
(***************************************************************************)
(* What a demo slot promises, without colours, phases or files: a site is  *)
(* built for one host, its gate is opened onto that site and no other, and *)
(* it is wiped, behind a closed gate, before the next one is built.        *)
(***************************************************************************)
EXTENDS Naturals

CONSTANTS Hosts, None

VARIABLES
    \* The site on the slot: its host and its number, or None.
    site,
    \* How many sites the slot has had.
    built,
    \* The host whose visitors the gate admits, or None.
    door

vars == <<site, built, door>>

Init == site = None /\ built = 0 /\ door = None

Build(h) ==
    /\ site = None /\ door = None
    /\ built' = built + 1
    /\ site' = [host |-> h, number |-> built']
    /\ UNCHANGED door

Open == site # None /\ door = None /\ door' = site.host /\ UNCHANGED <<site, built>>

Close == door # None /\ door' = None /\ UNCHANGED <<site, built>>

Wipe == site # None /\ door = None /\ site' = None /\ UNCHANGED <<built, door>>

Next == (\E h \in Hosts : Build(h)) \/ Open \/ Close \/ Wipe

Spec == Init /\ [][Next]_vars
=============================================================================
