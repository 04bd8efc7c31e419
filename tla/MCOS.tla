-------------------------------- MODULE MCOS --------------------------------
(* Instances of OS small enough for TLC. *)
EXTENDS OS

Symmetry == Permutations(Pcb) \cup Permutations(Cpu)
=============================================================================
