------------------------------ MODULE MCLibmem ------------------------------
(***************************************************************************)
(* Libmem for TLC: nothing orders the registers, so they are symmetric.    *)
(***************************************************************************)
EXTENDS Libmem

Registers == Permutations(Reg)
=============================================================================
