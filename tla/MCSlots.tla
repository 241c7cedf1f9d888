------------------------------ MODULE MCSlots ------------------------------
(***************************************************************************)
(* Slots for TLC: descriptors may be exchanged for one another.            *)
(***************************************************************************)
EXTENDS Slots, TLC

Symmetry == Permutations(Descriptor)
=============================================================================
