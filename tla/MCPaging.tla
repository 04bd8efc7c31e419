------------------------------ MODULE MCPaging ------------------------------
(***************************************************************************)
(* Paging for TLC: nothing orders the processes, so they are symmetric.    *)
(* Past the storage every entry refers to frame 1.                         *)
(***************************************************************************)
EXTENDS Paging

MCHeap == [f \in 0 .. FPN_MASK |-> [i \in Index |-> Entry(1)]]

Processes == Permutations(Proc)
=============================================================================
