---------------------------- MODULE SlotBarrier ----------------------------
(***************************************************************************)
(* What timer.c promises its devices (the cpus and the loader): time       *)
(* advances by one slot when every device has arrived at the end of the    *)
(* slot or has detached, and every device that arrived works in the next.  *)
(***************************************************************************)
EXTENDS Naturals

CONSTANTS Device,
          MAX_TIME   \* bound: the slot number stops counting here

VARIABLES time,      \* the number of the current slot
          stage      \* stage[d]: "working", "arrived" or "detached"

vars == << time, stage >>

Init ==
    /\ time = 0
    /\ stage = [d \in Device |-> "working"]

Arrive(d) ==
    /\ stage[d] = "working"
    /\ stage' = [stage EXCEPT ![d] = "arrived"]
    /\ UNCHANGED time

Detach(d) ==
    /\ stage[d] = "working"
    /\ stage' = [stage EXCEPT ![d] = "detached"]
    /\ UNCHANGED time

Tick ==
    /\ \A d \in Device : stage[d] # "working"
    /\ time' = IF time < MAX_TIME THEN time + 1 ELSE time
    /\ stage' = [d \in Device |->
                   IF stage[d] = "arrived" THEN "working" ELSE stage[d]]

Next == Tick \/ \E d \in Device : Arrive(d) \/ Detach(d)

Spec == Init /\ [][Next]_vars

\* A device that waits for the next slot gets it once nobody works in this one.
FairSpec == Spec /\ WF_vars(Tick /\ \E d \in Device : stage[d] = "arrived")
=============================================================================
