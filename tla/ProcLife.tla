------------------------------ MODULE ProcLife ------------------------------
(***************************************************************************)
(* What the scheduler promises about a process, whatever its policy: a pcb *)
(* that has been allocated is held by the loader, or waits to be chosen,   *)
(* or sits on one cpu, and it leaves the system only from a cpu.  No queue *)
(* has an order or a capacity here, and no level has a quota.              *)
(***************************************************************************)
CONSTANTS Pcb, Cpu, NULL

VARIABLES loaded,   \* pcbs the loader holds and has not added yet
          ready,    \* pcbs that wait for a cpu
          on        \* on[c]: the pcb on cpu c, or NULL

vars == << loaded, ready, on >>

OnCpu == { on[c] : c \in Cpu } \ {NULL}

Init ==
    /\ loaded = {}
    /\ ready = {}
    /\ on = [c \in Cpu |-> NULL]

Load(p) ==
    /\ p \notin loaded \cup ready \cup OnCpu
    /\ loaded' = loaded \cup {p}
    /\ UNCHANGED << ready, on >>

Admit(p) ==
    /\ p \in loaded
    /\ loaded' = loaded \ {p}
    /\ ready' = ready \cup {p}
    /\ UNCHANGED on

Dispatch(c, p) ==
    /\ on[c] = NULL
    /\ p \in ready
    /\ ready' = ready \ {p}
    /\ on' = [on EXCEPT ![c] = p]
    /\ UNCHANGED loaded

Preempt(c) ==
    /\ on[c] # NULL
    /\ ready' = ready \cup {on[c]}
    /\ on' = [on EXCEPT ![c] = NULL]
    /\ UNCHANGED loaded

Exit(c) ==
    /\ on[c] # NULL
    /\ on' = [on EXCEPT ![c] = NULL]
    /\ UNCHANGED << loaded, ready >>

Next ==
    \/ \E p \in Pcb : Load(p) \/ Admit(p)
    \/ \E c \in Cpu : Preempt(c) \/ Exit(c) \/ \E p \in Pcb : Dispatch(c, p)

Spec == Init /\ [][Next]_vars
=============================================================================
