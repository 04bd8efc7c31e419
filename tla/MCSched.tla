------------------------------ MODULE MCSched ------------------------------
(* Instances of Sched small enough for TLC. *)
EXTENDS Sched

\* pcbs and cpus are interchangeable: nothing orders addresses or threads.
Symmetry == Permutations(Pcb) \cup Permutations(Cpu)
=============================================================================
