------------------------------ MODULE FramePool ------------------------------
(***************************************************************************)
(* mm-memphy.c: MEMPHY_get_freefp statement by statement.  No lock guards  *)
(* free_fp_list, and several threads take frames from it: the loader in    *)
(* init_mm, every cpu in SYSMEM_MAP_OP.  Nothing in the program puts one   *)
(* back while they do.  Following or freeing a node that is already freed  *)
(* is undefined; the model stops there.                                    *)
(***************************************************************************)
EXTENDS Naturals, FiniteSets

CONSTANTS Thread,    \* loader and cpus
          numfp      \* frames MEMPHY_format lists, maxsz / pagesz

ASSUME FramePoolAssumption == numfp \in Nat \ {0, 1}

NULL == numfp        \* the end of the list

Frame == 0 .. (numfp - 1)

VARIABLES
    free_fp_list,    \* head of the list: a node is named by its fpn
    freed,           \* nodes freed
    tpc, fp,         \* tpc[t]: the next statement of t; fp[t]: its local fp
    fault,           \* a freed node was used
    takes,           \* history: takes[f] counts the calls frame f was returned by
    overlapped       \* history: a call began while another was under way

vars == << free_fp_list, freed, tpc, fp, fault, takes, overlapped >>

\* MEMPHY_format lists the frames in ascending order
fp_next(f) == f + 1

Init ==
    /\ free_fp_list = 0
    /\ freed = {}
    /\ tpc = [t \in Thread |-> "idle"]
    /\ fp = [t \in Thread |-> NULL]
    /\ fault = FALSE
    /\ takes = [f \in Frame |-> 0]
    /\ overlapped = FALSE

At(t, here, next) == ~fault /\ tpc[t] = here /\ tpc' = [tpc EXCEPT ![t] = next]

\* fp = mp->free_fp_list; a call on an empty list returns -1
Enter(t) ==
    /\ free_fp_list # NULL
    /\ At(t, "idle", "fpn")
    /\ fp' = [fp EXCEPT ![t] = free_fp_list]
    /\ overlapped' = (overlapped \/ \E u \in Thread : tpc[u] # "idle")
    /\ UNCHANGED << free_fp_list, freed, fault, takes >>

\* *retfpn = fp->fpn
ReadFpn(t) ==
    /\ At(t, "fpn", "next")
    /\ IF fp[t] \in freed
       THEN fault' = TRUE /\ UNCHANGED takes
       ELSE takes' = [takes EXCEPT ![fp[t]] = @ + 1] /\ UNCHANGED fault
    /\ UNCHANGED << free_fp_list, freed, fp, overlapped >>

\* (Faulty: the head moves on from where it is now, not from fp.)
UnlinkHead(t) ==
    /\ At(t, "next", "free")
    /\ IF fp[t] \in freed \/ free_fp_list = NULL
       THEN fault' = TRUE /\ UNCHANGED free_fp_list
       ELSE free_fp_list' = fp_next(free_fp_list) /\ UNCHANGED fault
    /\ UNCHANGED << freed, fp, takes, overlapped >>

\* (Faulty: the head stays.)
UnlinkForgotten(t) ==
    /\ At(t, "next", "free")
    /\ UNCHANGED << free_fp_list, freed, fp, fault, takes, overlapped >>

\* mp->free_fp_list = fp->fp_next
Unlink(t) ==
    /\ At(t, "next", "free")
    /\ IF fp[t] \in freed
       THEN fault' = TRUE /\ UNCHANGED free_fp_list
       ELSE free_fp_list' = fp_next(fp[t]) /\ UNCHANGED fault
    /\ UNCHANGED << freed, fp, takes, overlapped >>

\* free(fp)
FreeNode(t) ==
    /\ At(t, "free", "idle")
    /\ IF fp[t] \in freed
       THEN fault' = TRUE /\ UNCHANGED freed
       ELSE freed' = freed \cup {fp[t]} /\ UNCHANGED fault
    /\ UNCHANGED << free_fp_list, fp, takes, overlapped >>

Next == \E t \in Thread : Enter(t) \/ ReadFpn(t) \/ Unlink(t) \/ FreeNode(t)

Spec == Init /\ [][Next]_vars

-----------------------------------------------------------------------------
(* Properties *)

\* The type invariant: only frames already returned are freed.
TypeOK ==
    /\ free_fp_list \in Frame \cup {NULL}
    /\ freed \subseteq {f \in Frame : takes[f] > 0}
    /\ tpc \in [Thread -> {"idle", "fpn", "next", "free"}]
    /\ fp \in [Thread -> Frame \cup {NULL}]
    /\ \A t \in Thread : tpc[t] # "idle" => fp[t] \in Frame
    /\ fault \in BOOLEAN
    /\ takes \in [Frame -> Nat]
    /\ overlapped \in BOOLEAN

\* Calls that overlap may take the list back to a node it has left, but they
\* never skip one: every frame is still listed or was returned by a call.
NoneSkipped == \A f \in Frame : f >= free_fp_list \/ takes[f] > 0

HandedOutOnce == \A f \in Frame : takes[f] <= 1

\* While no two calls overlap, no frame is given out twice and no freed node
\* is used: mutual exclusion of the callers is all that is missing.
SoundAlone == overlapped \/ (HandedOutOnce /\ ~fault)
=============================================================================
