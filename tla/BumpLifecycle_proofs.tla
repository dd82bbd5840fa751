------------------------ MODULE BumpLifecycle_proofs ------------------------
(***************************************************************************)
(* What the change of colour of BumpLifecycle promises by itself.  The     *)
(* controller implements it (RingPromises_proofs, BumpsAreLifecycles), so  *)
(* every bump of the controller keeps these promises.                      *)
(***************************************************************************)
EXTENDS BumpLifecycle, TLAPS

\* The colour that stays and the page that was sent.
Inv == Carried /\ ToldWhenPaged

\* Before the bump the old colour serves and nobody was told.
LEMMA InvInit == Init => Inv
  BY DEF Init, Inv, Carried, ToldWhenPaged

\* A colour leaves only behind the decision against it, and no decision made for
\* good is taken back.
LEMMA InvStep ==
    ASSUME Inv, Next
    PROVE  Inv'
<1> SUFFICES ASSUME NEW t \in Tenants
             PROVE  /\ IF verdict'[t] \in {"closing", "closed"}
                       THEN "new" \in serving'[t] ELSE "old" \in serving'[t]
                    /\ verdict'[t] = "paged" => told'[t]
  BY DEF Inv, Carried, ToldWhenPaged
<1> USE DEF Inv, Carried, ToldWhenPaged
<1>1. CASE Same(t)
  BY <1>1 DEF Same
<1>2. CASE Decide(t)
  BY <1>2 DEF Decide, Moves
<1>3. CASE Join(t)
  BY <1>3 DEF Join
<1>4. CASE Leave(t)
  BY <1>4 DEF Leave
<1>5. CASE Tell(t)
  BY <1>5 DEF Tell
<1> QED
  BY <1>1, <1>2, <1>3, <1>4, <1>5 DEF Next

\* The same of a stutter.
LEMMA InvNext == Inv /\ [Next]_vars => Inv'
<1>1. Inv /\ UNCHANGED vars => Inv'
  BY DEF vars, Inv, Carried, ToldWhenPaged
<1> QED
  BY <1>1, InvStep

\* It holds of every behaviour.
LEMMA InvHolds == Spec => []Inv
  BY InvInit, InvNext, PTL DEF Spec

\* The colour that stays carries the traffic: the new one of a bump that closes,
\* the old one of any other.
THEOREM StayingColourCarries == Spec => []Carried
<1>1. Inv => Carried
  BY DEF Inv
<1> QED
  BY <1>1, InvHolds, PTL

\* A bump serves from some colour at every instant.
THEOREM LifecycleServes == Spec => []Served
<1>1. Inv => Served
  BY DEF Inv, Carried, Served
<1> QED
  BY <1>1, InvHolds, PTL

\* Nobody is recorded as told who was not.
THEOREM LifecycleTells == Spec => []ToldWhenPaged
<1>1. Inv => ToldWhenPaged
  BY DEF Inv
<1> QED
  BY <1>1, InvHolds, PTL

\* A decision made for good stays, and a closing bump can only close.
THEOREM LifecycleDecidesOnce == Spec => DecidedOnce
<1>1. [Next]_vars => [\A t \in Tenants : Final(verdict[t]) # {} => verdict'[t] \in Final(verdict[t])]_vars
  <2> SUFFICES ASSUME Next, NEW t \in Tenants, Final(verdict[t]) # {}
               PROVE  verdict'[t] \in Final(verdict[t])
    OBVIOUS
  <2> USE DEF Final
  <2>1. CASE Same(t)
    BY <2>1 DEF Same
  <2>2. CASE Decide(t)
    BY <2>2 DEF Decide, Moves
  <2>3. CASE Join(t)
    BY <2>3 DEF Join
  <2>4. CASE Leave(t)
    BY <2>4 DEF Leave
  <2>5. CASE Tell(t)
    BY <2>5 DEF Tell
  <2> QED
    BY <2>1, <2>2, <2>3, <2>4, <2>5 DEF Next
<1> QED
  BY <1>1, PTL DEF Spec, DecidedOnce
=============================================================================
