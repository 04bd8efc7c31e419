----------------------------- MODULE RegionHeap -----------------------------
(***************************************************************************)
(* What an allocator of memory regions promises, whatever lists it keeps:  *)
(* every byte it ever obtained has one owner.  A byte is <<g, b>>, byte b  *)
(* of the g-th stretch of fresh memory.                                    *)
(***************************************************************************)
EXTENDS Naturals

CONSTANTS Reg,    \* symbols a program names its regions by
          Size    \* sizes it may ask for

Free == "free"    \* owner of a byte that may be given out
Lost == "lost"    \* owner of a byte whose symbol was allocated over

VARIABLE owner

HInit == owner = << >>

Stretches == {x[1] : x \in DOMAIN owner}

\* n free bytes in a row, all of one stretch
FreeRuns(n) ==
    {run \in {{<<x[1], x[2] + k>> : k \in 0 .. (n - 1)} : x \in DOMAIN owner} :
        \A y \in run : y \in DOMAIN owner /\ owner[y] = Free}

Reuse(r, n) ==
    \E run \in IF n = 0 THEN {{}} ELSE FreeRuns(n) :
        owner' = [x \in DOMAIN owner |->
                    CASE x \in run -> r
                      [] x \notin run /\ owner[x] = r -> Lost
                      [] OTHER -> owner[x]]

\* the n bytes of stretch g are new, and go to r
Obtain(r, n, g) ==
    LET fresh == {<<g, b>> : b \in 0 .. (n - 1)}
    IN  owner' = [x \in DOMAIN owner \cup fresh |->
                    CASE x \in fresh -> r
                      [] x \notin fresh /\ owner[x] = r -> Lost
                      [] OTHER -> owner[x]]

\* a new stretch has the number after one there is, or is the first
Extend(r, n) ==
    \E g \in ({1} \cup {h + 1 : h \in Stretches}) \ Stretches : Obtain(r, n, g)

Release(r) ==
    owner' = [x \in DOMAIN owner |-> IF owner[x] = r THEN Free ELSE owner[x]]

HNext == \E r \in Reg :
            \/ Release(r)
            \/ \E n \in Size : Reuse(r, n) \/ Extend(r, n)

HSpec == HInit /\ [][HNext]_owner
=============================================================================
