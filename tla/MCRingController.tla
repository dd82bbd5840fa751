-------------------------- MODULE MCRingController --------------------------
(* Instances of RingController for TLC. *)
EXTENDS RingController, TLC

Symmetry == Permutations(Tenants)
=============================================================================
