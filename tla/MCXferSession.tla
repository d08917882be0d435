-------------------------- MODULE MCXferSession --------------------------
(* Instances of XferSession for TLC. *)
EXTENDS XferSession, TLC

Symmetry == Permutations(Slots)
=============================================================================
