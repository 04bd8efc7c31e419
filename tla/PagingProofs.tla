---------------------------- MODULE PagingProofs ----------------------------
(***************************************************************************)
(* Theorems of Paging for any RAM, any number of processes and tables of   *)
(* any depth and width.                                                    *)
(*                                                                         *)
(* The tables of all processes form a forest: at[<<p, l, q>>] is the frame *)
(* of table q of level l of process p, no frame is there twice, and what   *)
(* the last level holds is what the history says was mapped.  Sound adds   *)
(* that no frame is lost and that the free frames a table could be put     *)
(* into are blank; it is kept by every step down of pte_set_fpn, also by   *)
(* one that fails for want of a frame.                                     *)
(*                                                                         *)
(* The forest is there as long as the program is Sane: no frame was taken  *)
(* from the free list that lies past the storage, whose number reads as    *)
(* negative, or that IO_WRITE changed, and IO_WRITE changed no table.  The *)
(* properties say so themselves; EntryReadBack, a claim of the source      *)
(* without reservation, is proved under Sane (ReadsBack).                  *)
(*                                                                         *)
(* The walk and the loop of vmap are recursive functions; what holds of    *)
(* all their values is proved from the smallest number at which it would   *)
(* not (Least, Climb).                                                     *)
(***************************************************************************)
EXTENDS Paging, TLAPS, SequenceTheorems, WellFoundedInduction

-----------------------------------------------------------------------------
(* Numbers *)

LEMMA Sizes ==
  /\ LEVELS \in Nat \ {0} /\ FANOUT \in Nat \ {0}
  /\ FPN_MASK \in Nat /\ BYTE \in Nat \ {0, 1}
  /\ maxsz \in Nat /\ PAGING_PAGESZ \in Nat \ {0} /\ PAGING64_PAGESZ \in Nat \ {0}
  /\ SwapFrames \in Nat /\ MaxRange \in Nat /\ MaxCalls \in Nat
BY PagingAssumption

LEMMA Least ==
  ASSUME NEW S \in SUBSET Nat, S # {}
  PROVE  \E n \in S : \A k \in S : n <= k
<1> DEFINE Less == OpToRel(<, Nat)
<1>1. IsWellFoundedOn(Less, Nat)
  BY NatLessThanWellFounded
<1>2. \A k, n \in Nat : k < n => <<k, n>> \in Less
  BY DEF OpToRel
<1> HIDE DEF Less
<1>3. PICK n \in S : \A k \in S : <<k, n>> \notin Less
  BY <1>1, WFMin
<1>4. ASSUME NEW k \in S PROVE n <= k
  <2>1. k \in Nat /\ n \in Nat
    OBVIOUS
  <2>2. ~ (k < n)
    BY <1>2, <1>3, <2>1
  <2>3. QED
    BY <2>1, <2>2
<1>5. QED
  BY <1>4

\* Induction, for what holds of the numbers in a set.
LEMMA Climb ==
  ASSUME NEW a \in Nat, NEW b \in Nat, NEW S,
         a <= b => a \in S,
         \A i \in a .. (b - 1) : i \in S => i + 1 \in S
  PROVE  a .. b \subseteq S
<1> DEFINE Rest == {i \in a .. b : i \notin S}
<1> SUFFICES ASSUME Rest # {} PROVE FALSE
  OBVIOUS
<1>1. Rest \in SUBSET Nat
  OBVIOUS
<1>2. PICK n \in Rest : \A k \in Rest : n <= k
  BY <1>1, Least
<1>3. n # a
  OBVIOUS
<1>4. n - 1 \in a .. (b - 1) /\ n - 1 \notin Rest
  BY <1>2, <1>3
<1>5. n - 1 \in S
  BY <1>4
<1>6. (n - 1) + 1 = n
  BY <1>1
<1>7. QED
  BY <1>4, <1>5, <1>6

LEMMA Division ==
  ASSUME NEW a \in Nat, NEW b \in Nat \ {0}
  PROVE  /\ a \div b \in Nat /\ a % b \in 0 .. (b - 1)
         /\ a = b * (a \div b) + (a % b)
OBVIOUS

LEMMA DivisionUnique ==
  ASSUME NEW a \in Nat, NEW b \in Nat \ {0}, NEW q \in Nat, NEW r \in 0 .. (b - 1),
         a = b * q + r
  PROVE  q = a \div b
<1> DEFINE d == a \div b
<1>1. d \in Nat /\ a % b \in 0 .. (b - 1) /\ a = b * d + (a % b)
  BY Division
<1> HIDE DEF d
<1>2. CASE q < d
  <2>1. d >= q + 1
    BY <1>1, <1>2
  <2>2. b * d >= b * (q + 1)
    BY <1>1, <2>1
  <2>3. QED
    BY <1>1, <2>2
<1>3. CASE q > d
  <2>1. q >= d + 1
    BY <1>1, <1>3
  <2>2. b * q >= b * (d + 1)
    BY <1>1, <2>1
  <2>3. QED
    BY <1>1, <2>2
<1>4. QED
  BY <1>1, <1>2, <1>3 DEF d

LEMMA DivisionOf ==
  ASSUME NEW b \in Nat \ {0}, NEW q \in Nat, NEW r \in 0 .. (b - 1)
  PROVE  /\ b * q \in Nat /\ b * q + r \in Nat
         /\ (b * q + r) \div b = q /\ (b * q + r) % b = r
<1> DEFINE x == b * q
           a == x + r
           s == a % b
<1>1. x \in Nat /\ a \in Nat
  OBVIOUS
<1>2. q = a \div b
  BY <1>1, DivisionUnique
<1>3. a = b * (a \div b) + s /\ s \in 0 .. (b - 1)
  BY <1>1, Division
<1> HIDE DEF s
<1>4. a = x + s
  BY <1>2, <1>3
<1> HIDE DEF x
<1>5. r = s
  BY <1>1, <1>3, <1>4
<1>6. QED
  BY <1>1, <1>2, <1>5 DEF x, s

LEMMA DivTwice ==
  ASSUME NEW a \in Nat, NEW b \in Nat \ {0}, NEW c \in Nat \ {0}
  PROVE  a \div (c * b) = (a \div b) \div c
<1> DEFINE q == a \div b
           r == a % b
           s == q \div c
           t == q % c
<1>1. q \in Nat /\ r \in 0 .. (b - 1) /\ a = b * q + r
  BY Division
<1>2. s \in Nat /\ t \in 0 .. (c - 1) /\ q = c * s + t
  BY <1>1, Division
<1> HIDE DEF q, r, s, t
<1>3. a = (c * b) * s + (b * t + r)
  BY <1>1, <1>2
<1>4. b * t + r \in Nat /\ b * t + r <= c * b - 1
  <2>1. t <= c - 1 /\ t \in Nat
    BY <1>2
  <2>2. b * t <= b * (c - 1) /\ b * t \in Nat
    BY <2>1
  <2>3. b * (c - 1) = c * b - b
    OBVIOUS
  <2>4. QED
    BY <1>1, <2>2, <2>3
<1>5. c * b \in Nat \ {0}
  OBVIOUS
<1>6. s = a \div (c * b)
  BY <1>2, <1>3, <1>4, <1>5, DivisionUnique
<1>7. QED
  BY <1>6 DEF q, s

-----------------------------------------------------------------------------
(* Page numbers *)

LEMMA ReachDef ==
  /\ Reach[0] = 1
  /\ \A k \in 1 .. LEVELS : Reach[k] = FANOUT * Reach[k - 1]
<1> DEFINE Wider(r, k) == FANOUT * r
<1>1. LEVELS \in Nat
  BY Sizes
<1>2. FiniteNatInductiveDefHypothesis(Reach, 1, Wider, 0, LEVELS)
  BY DEF FiniteNatInductiveDefHypothesis, Reach
<1> HIDE DEF Wider
<1>3. FiniteNatInductiveDefConclusion(Reach, 1, Wider, 0, LEVELS)
  BY <1>1, <1>2, FiniteNatInductiveDef
<1>4. Reach = [k \in 0 .. LEVELS |-> IF k = 0 THEN 1 ELSE FANOUT * Reach[k - 1]]
  BY <1>3 DEF FiniteNatInductiveDefConclusion, Wider
<1> HIDE DEF Reach
<1>5. QED
  BY <1>1, <1>4

LEMMA ReachType == \A k \in 0 .. LEVELS : Reach[k] \in Nat \ {0}
<1> DEFINE S == {k \in 0 .. LEVELS : Reach[k] \in Nat \ {0}}
<1>1. LEVELS \in Nat /\ FANOUT \in Nat \ {0}
  BY Sizes
<1>2. 0 \in S
  BY <1>1, ReachDef
<1>3. ASSUME NEW k \in 0 .. (LEVELS - 1), k \in S PROVE k + 1 \in S
  <2>1. Reach[k + 1] = FANOUT * Reach[k]
    BY <1>1, ReachDef
  <2>2. FANOUT * Reach[k] \in Nat \ {0}
    BY <1>1, <1>3
  <2>3. QED
    BY <1>1, <2>1, <2>2
<1> HIDE DEF S
<1>4. 0 .. LEVELS \subseteq S
  BY <1>1, <1>2, <1>3, Climb
<1>5. QED
  BY <1>4 DEF S

\* The number of the table of level l on the way to page n, among those of
\* its level.
Prefix(n, l) == n \div Reach[LEVELS - l + 1]

LEMMA PrefixType ==
  ASSUME NEW n \in Nat, NEW l \in 1 .. LEVELS
  PROVE  Prefix(n, l) \in Nat
<1>1. Reach[LEVELS - l + 1] \in Nat \ {0}
  BY ReachType, Sizes
<1>2. QED
  BY <1>1, Division DEF Prefix

LEMMA PrefixTop == \A n \in Pgn : n \in Nat /\ Prefix(n, 1) = 0
<1> SUFFICES ASSUME NEW n \in Pgn PROVE n \in Nat /\ Prefix(n, 1) = 0
  OBVIOUS
<1>1. LEVELS \in Nat \ {0} /\ Reach[LEVELS] \in Nat \ {0}
  BY ReachType, Sizes
<1>2. n \in Nat /\ n \in 0 .. (Reach[LEVELS] - 1)
  BY <1>1 DEF Pgn
<1>3. n = Reach[LEVELS] * 0 + n
  BY <1>1, <1>2
<1>4. 0 = n \div Reach[LEVELS]
  BY <1>1, <1>2, <1>3, DivisionUnique
<1>5. LEVELS - 1 + 1 = LEVELS
  BY <1>1
<1>6. QED
  BY <1>2, <1>4, <1>5 DEF Prefix

\* One level down: the prefix of the parent and the index in it.
LEMMA PrefixDown ==
  ASSUME NEW n \in Nat, NEW l \in 1 .. LEVELS, l # LEVELS
  PROVE  /\ Prefix(n, l) = Prefix(n, l + 1) \div FANOUT
         /\ get_pd(n, l) = Prefix(n, l + 1) % FANOUT
<1>1. LEVELS \in Nat /\ FANOUT \in Nat \ {0} /\ LEVELS - l \in 0 .. LEVELS
      /\ LEVELS - (l + 1) + 1 = LEVELS - l /\ LEVELS - l + 1 \in 1 .. LEVELS
      /\ (LEVELS - l + 1) - 1 = LEVELS - l
  BY Sizes
<1>2. Reach[LEVELS - l + 1] = FANOUT * Reach[LEVELS - l]
  BY <1>1, ReachDef
<1>3. Reach[LEVELS - l] \in Nat \ {0}
  BY <1>1, ReachType
<1>4. Prefix(n, l + 1) = n \div Reach[LEVELS - l]
  BY <1>1 DEF Prefix
<1>5. Prefix(n, l) = (n \div Reach[LEVELS - l]) \div FANOUT
  BY <1>1, <1>2, <1>3, DivTwice DEF Prefix
<1>6. QED
  BY <1>4, <1>5 DEF get_pd

LEMMA PrefixLast ==
  ASSUME NEW n \in Nat
  PROVE  Prefix(n, LEVELS) = n \div FANOUT /\ get_pd(n, LEVELS) = n % FANOUT
<1>1. LEVELS \in Nat \ {0} /\ FANOUT \in Nat \ {0} /\ LEVELS - LEVELS = 0
      /\ LEVELS - LEVELS + 1 = 1 /\ 1 \in 1 .. LEVELS /\ 1 - 1 = 0
  BY Sizes
<1>2. Reach[0] = 1 /\ Reach[1] = FANOUT
  BY <1>1, ReachDef
<1>3. n = 1 * n + 0 /\ 0 \in 0 .. (1 - 1) /\ 1 \in Nat \ {0}
  OBVIOUS
<1>4. n = n \div 1
  BY <1>3, DivisionUnique
<1>5. QED
  BY <1>1, <1>2, <1>4 DEF Prefix, get_pd

LEMMA Indices ==
  ASSUME NEW n \in Nat
  PROVE  /\ n \div FANOUT \in Nat /\ n % FANOUT \in Index
         /\ n = FANOUT * (n \div FANOUT) + (n % FANOUT)
<1>1. FANOUT \in Nat \ {0}
  BY Sizes
<1>2. QED
  BY <1>1, Division DEF Index

\* The index into any table is one of its entries.
LEMMA IndexType == \A n \in Nat, l \in 1 .. LEVELS : get_pd(n, l) \in Index
<1> SUFFICES ASSUME NEW n \in Nat, NEW l \in 1 .. LEVELS PROVE get_pd(n, l) \in Index
  OBVIOUS
<1>1. Reach[LEVELS - l] \in Nat \ {0}
  BY ReachType, Sizes
<1>2. n \div Reach[LEVELS - l] \in Nat
  BY <1>1, Division
<1>3. QED
  BY <1>2, Indices DEF get_pd

-----------------------------------------------------------------------------
(* The recursive definitions, unfolded *)

LEMMA TablesDef ==
  ASSUME NEW mem, NEW root, NEW n
  PROVE  /\ Tables(mem, root, n)[1] = root
         /\ \A l \in 2 .. LEVELS :
               Tables(mem, root, n)[l] = Child(mem, Tables(mem, root, n)[l - 1], get_pd(n, l - 1))
<1> DEFINE T == Tables(mem, root, n)
           Below(f, l) == Child(mem, f, get_pd(n, l - 1))
<1>1. LEVELS \in Nat \ {0}
  BY Sizes
<1>2. FiniteNatInductiveDefHypothesis(T, root, Below, 1, LEVELS)
  BY DEF FiniteNatInductiveDefHypothesis, Tables
<1> HIDE DEF Below, T
<1>3. FiniteNatInductiveDefConclusion(T, root, Below, 1, LEVELS)
  BY <1>1, <1>2, FiniteNatInductiveDef
<1>4. T = [l \in 1 .. LEVELS |-> IF l = 1 THEN root ELSE Below(T[l - 1], l)]
  BY <1>3 DEF FiniteNatInductiveDefConclusion
<1>5. T[1] = root /\ \A l \in 2 .. LEVELS : T[l] = Below(T[l - 1], l)
  BY <1>1, <1>4
<1>6. QED
  BY <1>5 DEF Below, T

\* The walk of pte_set_fpn.
Down(m, root, n) ==
    LET down[l \in 1 .. LEVELS] ==
            IF l = 1 THEN [m EXCEPT !.base = root]
            ELSE StepDown(down[l - 1], get_pd(n, l - 1))
    IN  down

LEMMA DownDef ==
  ASSUME NEW m, NEW root, NEW n
  PROVE  /\ Down(m, root, n)[1] = [m EXCEPT !.base = root]
         /\ \A l \in 2 .. LEVELS :
               Down(m, root, n)[l] = StepDown(Down(m, root, n)[l - 1], get_pd(n, l - 1))
<1> DEFINE T == Down(m, root, n)
           first == [m EXCEPT !.base = root]
           Below(d, l) == StepDown(d, get_pd(n, l - 1))
<1>1. LEVELS \in Nat \ {0}
  BY Sizes
<1>2. FiniteNatInductiveDefHypothesis(T, first, Below, 1, LEVELS)
  BY DEF FiniteNatInductiveDefHypothesis, Down
<1> HIDE DEF Below, T, first
<1>3. FiniteNatInductiveDefConclusion(T, first, Below, 1, LEVELS)
  BY <1>1, <1>2, FiniteNatInductiveDef
<1>4. T = [l \in 1 .. LEVELS |-> IF l = 1 THEN first ELSE Below(T[l - 1], l)]
  BY <1>3 DEF FiniteNatInductiveDefConclusion
<1>5. T[1] = first /\ \A l \in 2 .. LEVELS : T[l] = Below(T[l - 1], l)
  BY <1>1, <1>4
<1>6. QED
  BY <1>5 DEF Below, T, first

LEMMA SetFpnDef ==
  ASSUME NEW m, NEW root, NEW n, NEW fpn
  PROVE  LET last == Down(m, root, n)[LEVELS]
         IN  pte_set_fpn(m, root, n, fpn) =
                IF last.ok
                THEN [last EXCEPT !.ram[last.base][get_pd(n, LEVELS)] = Entry(fpn)]
                ELSE last
BY DEF pte_set_fpn, Down

\* The loop of vmap.
Before(free, root) == [ram |-> ram, free |-> free, base |-> root, ok |-> TRUE, done |-> 0]

MapOne(v, k, root, n, fpns) ==
    LET m == pte_set_fpn(v, root, n + k - 1, fpns[k])
    IN  IF v.ok /\ m.ok THEN [m EXCEPT !.done = k] ELSE m

Loop(free, root, n, fpns) ==
    LET after[k \in 0 .. Len(fpns)] ==
            IF k = 0
            THEN Before(free, root)
            ELSE MapOne(after[k - 1], k, root, n, fpns)
    IN  after

LEMMA LoopDef ==
  ASSUME NEW free, NEW root, NEW n, NEW fpns, Len(fpns) \in Nat
  PROVE  LET after == Loop(free, root, n, fpns)
         IN  /\ after[0] = Before(free, root)
             /\ \A k \in 1 .. Len(fpns) : after[k] = MapOne(after[k - 1], k, root, n, fpns)
<1> DEFINE T == Loop(free, root, n, fpns)
           first == Before(free, root)
           Then(v, k) == MapOne(v, k, root, n, fpns)
<1>2. FiniteNatInductiveDefHypothesis(T, first, Then, 0, Len(fpns))
  BY DEF FiniteNatInductiveDefHypothesis, Loop
<1> HIDE DEF Then, T, first
<1>3. FiniteNatInductiveDefConclusion(T, first, Then, 0, Len(fpns))
  BY <1>2, FiniteNatInductiveDef
<1>4. T = [k \in 0 .. Len(fpns) |-> IF k = 0 THEN first ELSE Then(T[k - 1], k)]
  BY <1>3 DEF FiniteNatInductiveDefConclusion
<1>5. T[0] = first /\ \A k \in 1 .. Len(fpns) : T[k] = Then(T[k - 1], k)
  BY <1>4
<1>6. QED
  BY <1>5 DEF Then, T, first

LEMMA vmapDef ==
  ASSUME NEW free, NEW root, NEW n, NEW fpns
  PROVE  vmap(free, root, n, fpns) = Loop(free, root, n, fpns)[Len(fpns)]
BY DEF vmap, Loop, Before, MapOne

-----------------------------------------------------------------------------
(* Types *)

Bits == [pre : BOOLEAN, fpn : 0 .. FPN_MASK]

Memory == [0 .. FPN_MASK -> [Index -> Bits]]

\* States of a walk whose free frames are among those of room, none twice.
Walk(room) ==
    {m \in [ram : Memory, free : Seq(Frame), base : 0 .. FPN_MASK, ok : BOOLEAN, done : Nat] :
        IsInjective(m.free) /\ Range(m.free) \subseteq room}

LEMMA FrameType ==
  /\ FPN_MASK \in Nat
  /\ \A f \in Frame : f \in 0 .. FPN_MASK /\ f # NoFrame /\ f % (FPN_MASK + 1) = f
  /\ 0 \in Frame
<1> DEFINE n == maxsz \div PAGING_PAGESZ
<1>1. FPN_MASK \in Nat /\ n \in 1 .. (FPN_MASK + 1)
  BY PagingAssumption
<1> HIDE DEF n
<1>2. ASSUME NEW f \in 0 .. (n - 1) PROVE f \in 0 .. FPN_MASK /\ f % (FPN_MASK + 1) = f
  <2> DEFINE d == FPN_MASK + 1
  <2>1. f \in 0 .. FPN_MASK /\ f \in Nat /\ d \in Nat \ {0} /\ f \in 0 .. (d - 1)
    BY <1>1
  <2> HIDE DEF d
  <2>2. f = d * 0 + f
    BY <2>1
  <2>3. 0 = f \div d
    BY <2>1, <2>2, DivisionUnique
  <2>4. f = d * (f \div d) + (f % d) /\ f % d \in 0 .. (d - 1)
    BY <2>1, Division
  <2>5. f % d = f
    BY <2>1, <2>3, <2>4
  <2>6. QED
    BY <2>1, <2>5 DEF d
<1>3. Frame = 0 .. (n - 1)
  BY DEF Frame, n
<1>4. QED
  BY <1>1, <1>2, <1>3 DEF NoFrame

LEMMA EntryType == \A f \in Nat : Entry(f) \in Bits
<1> SUFFICES ASSUME NEW f \in Nat PROVE Entry(f) \in Bits
  OBVIOUS
<1>1. FPN_MASK + 1 \in Nat \ {0} /\ FPN_MASK \in Nat
  BY FrameType
<1>2. f % (FPN_MASK + 1) \in 0 .. FPN_MASK
  BY <1>1, Division
<1>3. QED
  BY <1>2 DEF Entry, Bits

LEMMA ReadType == \A e \in Bits : get_32bit_entry(e) \in Bits
<1> SUFFICES ASSUME NEW e \in Bits PROVE get_32bit_entry(e) \in Bits
  OBVIOUS
<1> DEFINE low == e.fpn % BYTE
           all == FPN_MASK + 1
<1>1. BYTE \in Nat \ {0} /\ all \in Nat \ {0} /\ FPN_MASK \in Nat /\ all % BYTE = 0
  BY FrameType, PagingAssumption
<1>2. e.fpn \in Nat
  BY DEF Bits
<1>3. low \in 0 .. (BYTE - 1)
  BY <1>1, <1>2, Division
<1>4. all >= BYTE
  <2>1. all = BYTE * (all \div BYTE) + 0 /\ all \div BYTE \in Nat
    BY <1>1, Division
  <2>2. all \div BYTE # 0
    BY <1>1, <2>1
  <2> DEFINE k == all \div BYTE
  <2>3. k \in Nat \ {0} /\ all = BYTE * k
    BY <1>1, <2>1, <2>2
  <2> HIDE DEF k
  <2>4. BYTE * k >= BYTE * 1
    BY <1>1, <2>3
  <2>5. QED
    BY <1>1, <2>3, <2>4
<1>5. (FPN_MASK + 1 - BYTE) + low \in 0 .. FPN_MASK
  BY <1>1, <1>3, <1>4
<1>6. QED
  BY <1>5 DEF get_32bit_entry, Bits

LEMMA HeadTail ==
  ASSUME NEW s \in Seq(Frame), IsInjective(s), s # << >>
  PROVE  /\ Head(s) \in Frame /\ Head(s) \in Range(s)
         /\ Tail(s) \in Seq(Frame) /\ IsInjective(Tail(s))
         /\ Range(Tail(s)) = Range(s) \ {Head(s)}
<1> DEFINE t == Tail(s)
           n == Len(s)
<1>1. /\ n \in Nat \ {0} /\ Head(s) = s[1] /\ DOMAIN s = 1 .. n
      /\ t \in Seq(Frame) /\ DOMAIN t = 1 .. (n - 1)
      /\ \A k \in 1 .. (n - 1) : t[k] = s[k + 1]
      /\ \A k \in 1 .. n : s[k] \in Frame
  <2>1. n \in Nat \ {0} /\ Head(s) = s[1] /\ DOMAIN s = 1 .. n
    OBVIOUS
  <2>2. t \in Seq(Frame) /\ Len(t) = n - 1
    OBVIOUS
  <2>3. DOMAIN t = 1 .. (n - 1)
    BY <2>2
  <2>4. \A k \in 1 .. (n - 1) : t[k] = s[k + 1]
    OBVIOUS
  <2>5. \A k \in 1 .. n : s[k] \in Frame
    OBVIOUS
  <2>6. QED
    BY <2>1, <2>2, <2>3, <2>4, <2>5
<1> HIDE DEF t, n
<1>2. IsInjective(t)
  <2>1. ASSUME NEW j \in 1 .. (n - 1), NEW k \in 1 .. (n - 1), t[j] = t[k]
        PROVE  j = k
    <3>1. j + 1 \in DOMAIN s /\ k + 1 \in DOMAIN s /\ s[j + 1] = s[k + 1]
      BY <1>1, <2>1
    <3>2. j + 1 = k + 1
      BY <3>1 DEF IsInjective
    <3>3. QED
      BY <1>1, <3>2
  <2>2. QED
    BY <1>1, <2>1 DEF IsInjective
<1>3. ASSUME NEW k \in 1 .. n, k # 1
      PROVE  k - 1 \in 1 .. (n - 1) /\ s[k] = t[k - 1] /\ s[k] # s[1]
  <2>1. k - 1 \in 1 .. (n - 1) /\ (k - 1) + 1 = k
    BY <1>1, <1>3
  <2>2. s[k] # s[1]
    <3>1. k \in DOMAIN s /\ 1 \in DOMAIN s
      BY <1>1
    <3>2. QED
      BY <1>3, <3>1 DEF IsInjective
  <2>3. QED
    BY <1>1, <2>1, <2>2
<1>4. ASSUME NEW k \in 1 .. (n - 1) PROVE k + 1 \in 1 .. n /\ k + 1 # 1 /\ t[k] = s[k + 1]
  BY <1>1
<1>5. Range(t) = Range(s) \ {s[1]}
  <2>1. Range(s) = {s[k] : k \in 1 .. n} /\ Range(t) = {t[k] : k \in 1 .. (n - 1)}
    BY <1>1 DEF Range
  <2>2. QED
    BY <1>3, <1>4, <2>1
<1>6. s[1] \in Frame /\ s[1] \in Range(s)
  BY <1>1 DEF Range
<1>7. QED
  BY <1>1, <1>2, <1>5, <1>6 DEF t

LEMMA StoreType ==
  ASSUME NEW mem \in Memory, NEW f \in 0 .. FPN_MASK, NEW i \in Index, NEW e \in Bits
  PROVE  [mem EXCEPT ![f][i] = e] \in Memory
BY DEF Memory

LEMMA StepDownType ==
  ASSUME NEW room, NEW m \in Walk(room), NEW i \in Index
  PROVE  StepDown(m, i) \in Walk(room) /\ StepDown(m, i).done = m.done
<1> DEFINE e == get_32bit_entry(m.ram[m.base][i])
<1>1. /\ m \in [ram : Memory, free : Seq(Frame), base : 0 .. FPN_MASK, ok : BOOLEAN, done : Nat]
      /\ IsInjective(m.free) /\ Range(m.free) \subseteq room
  BY DEF Walk
<1>2. e.pre \in BOOLEAN /\ e.fpn \in 0 .. FPN_MASK
  <2>1. m.ram[m.base][i] \in Bits
    BY <1>1 DEF Memory
  <2>2. e \in Bits
    BY <2>1, ReadType
  <2> HIDE DEF e
  <2>3. QED
    BY <2>2 DEF Bits
<1> HIDE DEF e
<1>3. CASE m.ok /\ ~ e.pre /\ m.free # << >>
  <2> DEFINE h == Head(m.free)
  <2>1. /\ h \in Frame /\ Tail(m.free) \in Seq(Frame) /\ IsInjective(Tail(m.free))
        /\ Range(Tail(m.free)) \subseteq room
    BY <1>1, <1>3, HeadTail
  <2> HIDE DEF h
  <2>2. h \in 0 .. FPN_MASK /\ h \in Nat
    BY <2>1, FrameType
  <2>3. Entry(h) \in Bits
    BY <2>2, EntryType
  <2>4. [m.ram EXCEPT ![m.base][i] = Entry(h)] \in Memory
    BY <1>1, <2>2, <2>3, StoreType
  <2>5. StepDown(m, i) = [m EXCEPT !.base = h, !.free = Tail(@), !.ram[m.base][i] = Entry(h)]
    BY <1>1, <1>2, <1>3 DEF StepDown, e, h
  <2>6. QED
    BY <1>1, <2>1, <2>2, <2>4, <2>5 DEF Walk
<1>4. CASE m.ok /\ e.pre
  <2>1. StepDown(m, i) = [m EXCEPT !.base = e.fpn]
    BY <1>1, <1>4 DEF StepDown, e
  <2>2. QED
    BY <1>1, <1>2, <2>1 DEF Walk
<1>5. CASE m.ok /\ ~ e.pre /\ m.free = << >>
  <2>1. StepDown(m, i) = [m EXCEPT !.ok = FALSE]
    BY <1>1, <1>5 DEF StepDown, e
  <2>2. QED
    BY <1>1, <2>1 DEF Walk
<1>6. CASE ~ m.ok
  <2>1. StepDown(m, i) = m
    BY <1>6 DEF StepDown
  <2>2. QED
    BY <2>1
<1>7. QED
  BY <1>1, <1>2, <1>3, <1>4, <1>5, <1>6

LEMMA SetFpnType ==
  ASSUME NEW room, NEW m \in Walk(room), NEW root \in 0 .. FPN_MASK, NEW n \in Nat,
         NEW fpn \in Nat
  PROVE  /\ pte_set_fpn(m, root, n, fpn) \in Walk(room)
         /\ pte_set_fpn(m, root, n, fpn).done = m.done
<1> DEFINE down == Down(m, root, n)
           last == down[LEVELS]
           S == {l \in 1 .. LEVELS : down[l] \in Walk(room) /\ down[l].done = m.done}
<1>1. LEVELS \in Nat \ {0}
  BY Sizes
<1>2. /\ down[1] = [m EXCEPT !.base = root]
      /\ \A l \in 2 .. LEVELS : down[l] = StepDown(down[l - 1], get_pd(n, l - 1))
  BY DownDef
<1> HIDE DEF down
<1>3. 1 \in S
  BY <1>1, <1>2 DEF Walk
<1>4. ASSUME NEW l \in 1 .. (LEVELS - 1), l \in S PROVE l + 1 \in S
  <2>1. l + 1 \in 2 .. LEVELS /\ l \in 1 .. LEVELS /\ (l + 1) - 1 = l
    BY <1>1
  <2>2. down[l + 1] = StepDown(down[l], get_pd(n, l)) /\ get_pd(n, l) \in Index
    BY <1>2, <2>1, IndexType
  <2>3. down[l + 1] \in Walk(room) /\ down[l + 1].done = down[l].done
    BY <1>4, <2>2, StepDownType
  <2>4. QED
    BY <1>4, <2>1, <2>3
<1>5. 1 .. LEVELS \subseteq S
  <2> HIDE DEF S
  <2>1. QED
    BY <1>1, <1>3, <1>4, Climb
<1>6. last \in Walk(room) /\ last.done = m.done
  BY <1>1, <1>5
<1> DEFINE i == get_pd(n, LEVELS)
<1>7. i \in Index /\ Entry(fpn) \in Bits
  BY <1>1, IndexType, EntryType
<1>8. pte_set_fpn(m, root, n, fpn) =
         IF last.ok THEN [last EXCEPT !.ram[last.base][i] = Entry(fpn)] ELSE last
  BY SetFpnDef DEF down
<1> HIDE DEF last, i
<1>9. [last.ram EXCEPT ![last.base][i] = Entry(fpn)] \in Memory
  BY <1>6, <1>7, StoreType DEF Walk
<1>10. [last EXCEPT !.ram[last.base][i] = Entry(fpn)] \in Walk(room)
  BY <1>6, <1>9 DEF Walk
<1>11. [last EXCEPT !.ram[last.base][i] = Entry(fpn)].done = last.done
  BY <1>6 DEF Walk
<1>12. QED
  BY <1>6, <1>8, <1>10, <1>11

\* Frames are taken from the free list and none is put there.
LEMMA Shrinks ==
  ASSUME NEW room, NEW m \in Walk(room)
  PROVE  /\ \A i \in Index : Range(StepDown(m, i).free) \subseteq Range(m.free)
         /\ \A root \in 0 .. FPN_MASK, n, fpn \in Nat :
               Range(pte_set_fpn(m, root, n, fpn).free) \subseteq Range(m.free)
<1> DEFINE own == Range(m.free)
<1>1. m \in Walk(own)
  BY DEF Walk
<1> HIDE DEF own
<1>2. \A i \in Index : StepDown(m, i) \in Walk(own)
  BY <1>1, StepDownType
<1>3. \A root \in 0 .. FPN_MASK, n, fpn \in Nat : pte_set_fpn(m, root, n, fpn) \in Walk(own)
  BY <1>1, SetFpnType
<1>4. QED
  BY <1>2, <1>3 DEF Walk, own

LEMMA DoneType ==
  ASSUME NEW room, NEW m \in Walk(room), NEW k \in Nat
  PROVE  [m EXCEPT !.done = k] \in Walk(room) /\ [m EXCEPT !.done = k].done = k
BY DEF Walk

LEMMA LoopType ==
  ASSUME NEW room, ram \in Memory, NEW free \in Seq(Frame), IsInjective(free),
         Range(free) \subseteq room,
         NEW root \in 0 .. FPN_MASK, NEW n \in Nat, NEW fpns \in Seq(Frame)
  PROVE  \A k \in 0 .. Len(fpns) :
            /\ Loop(free, root, n, fpns)[k] \in Walk(room)
            /\ Loop(free, root, n, fpns)[k].done <= k
<1> DEFINE after == Loop(free, root, n, fpns)
           S == {k \in 0 .. Len(fpns) : after[k] \in Walk(room) /\ after[k].done <= k}
<1>1. Len(fpns) \in Nat
  OBVIOUS
<1>2. /\ after[0] = Before(free, root)
      /\ \A k \in 1 .. Len(fpns) : after[k] = MapOne(after[k - 1], k, root, n, fpns)
  BY <1>1, LoopDef
<1> HIDE DEF after
<1>3. 0 \in S
  <2>1. Before(free, root) \in Walk(room) /\ Before(free, root).done = 0
    BY DEF Before, Walk
  <2>2. QED
    BY <1>1, <1>2, <2>1
<1>4. ASSUME NEW k \in 0 .. (Len(fpns) - 1), k \in S PROVE k + 1 \in S
  <2> DEFINE m == pte_set_fpn(after[k], root, n + (k + 1) - 1, fpns[k + 1])
  <2>1. /\ k + 1 \in 1 .. Len(fpns) /\ k + 1 \in 0 .. Len(fpns) /\ (k + 1) - 1 = k
        /\ n + (k + 1) - 1 \in Nat /\ k \in Nat /\ k + 1 \in Nat
    BY <1>1
  <2>2. after[k + 1] = MapOne(after[k], k + 1, root, n, fpns)
    BY <1>2, <2>1
  <2>3. fpns[k + 1] \in Nat
    <3>1. fpns[k + 1] \in Frame
      BY <2>1
    <3>2. QED
      BY <3>1, FrameType
  <2>4. after[k] \in Walk(room) /\ after[k].done <= k
    BY <1>4
  <2>5. after[k + 1] = IF after[k].ok /\ m.ok THEN [m EXCEPT !.done = k + 1] ELSE m
    BY <2>2 DEF MapOne
  <2>6. m \in Walk(room) /\ m.done = after[k].done
    <3>1. \A v \in Walk(room), j, f \in Nat :
             /\ pte_set_fpn(v, root, j, f) \in Walk(room)
             /\ pte_set_fpn(v, root, j, f).done = v.done
      BY SetFpnType
    <3>2. QED
      BY <2>1, <2>3, <2>4, <3>1
  <2> HIDE DEF m
  <2>7. [m EXCEPT !.done = k + 1] \in Walk(room) /\ [m EXCEPT !.done = k + 1].done = k + 1
    BY <2>1, <2>6, DoneType
  <2>8. m.done \in Nat
    BY <2>6 DEF Walk
  <2>9. after[k + 1] \in Walk(room) /\ after[k + 1].done <= k + 1
    BY <2>1, <2>4, <2>5, <2>6, <2>7, <2>8
  <2>10. QED
    BY <2>1, <2>9
<1>5. 0 .. Len(fpns) \subseteq S
  <2> HIDE DEF S
  <2>1. QED
    BY <1>1, <1>3, <1>4, Climb
<1>6. QED
  BY <1>5 DEF after

-----------------------------------------------------------------------------
(* Lists of frames *)

LEMMA SplitAt ==
  ASSUME NEW s \in Seq(Frame), IsInjective(s), NEW k \in 0 .. Len(s)
  PROVE  LET a == SubSeq(s, 1, k)
             b == SubSeq(s, k + 1, Len(s))
         IN  /\ a \in Seq(Frame) /\ IsInjective(a) /\ Len(a) = k
             /\ b \in Seq(Frame) /\ IsInjective(b)
             /\ Range(a) \cap Range(b) = {} /\ Range(s) = Range(a) \cup Range(b)
<1> DEFINE a == SubSeq(s, 1, k)
           b == SubSeq(s, k + 1, Len(s))
           n == Len(s)
<1>1. n \in Nat /\ k \in Nat /\ DOMAIN s = 1 .. n /\ \A i \in 1 .. n : s[i] \in Frame
  OBVIOUS
<1>2. a \in Seq(Frame) /\ Len(a) = k /\ DOMAIN a = 1 .. k /\ \A i \in 1 .. k : a[i] = s[i]
  OBVIOUS
<1>3. b \in Seq(Frame) /\ DOMAIN b = 1 .. (n - k) /\ \A i \in 1 .. (n - k) : b[i] = s[k + i]
  <2>1. \A i \in k + 1 .. n : s[i] \in Frame
    BY <1>1
  <2>2. b = [i \in 1 .. (n - k) |-> s[k + i]]
    OBVIOUS
  <2> HIDE DEF b
  <2>3. \A i \in 1 .. (n - k) : k + i \in 1 .. n
    BY <1>1
  <2>4. n - k \in Nat
    BY <1>1
  <2>5. b \in Seq(Frame)
    BY <1>1, <2>2, <2>3, <2>4
  <2>6. QED
    BY <2>2, <2>5
<1> HIDE DEF a, b, n
<1>4. /\ \A i \in 1 .. k : i \in 1 .. n
      /\ \A i \in 1 .. (n - k) : k + i \in 1 .. n /\ k + i \notin 1 .. k
      /\ \A i \in 1 .. n : i \in 1 .. k \/ (i - k \in 1 .. (n - k) /\ k + (i - k) = i)
  BY <1>1 DEF n
<1>5. \A i, j \in 1 .. n : s[i] = s[j] => i = j
  BY <1>1 DEF IsInjective
<1>6. IsInjective(a)
  BY <1>2, <1>4, <1>5 DEF IsInjective
<1>7. IsInjective(b)
  <2>1. \A i, j \in 1 .. (n - k) : k + i = k + j => i = j
    BY <1>1
  <2>2. QED
    BY <1>3, <1>4, <1>5, <2>1 DEF IsInjective
<1>8. /\ Range(s) = {s[i] : i \in 1 .. n}
      /\ Range(a) = {a[i] : i \in 1 .. k}
      /\ Range(b) = {b[i] : i \in 1 .. (n - k)}
  BY <1>1, <1>2, <1>3 DEF Range
<1>9. Range(a) \cap Range(b) = {}
  <2> SUFFICES ASSUME NEW i \in 1 .. k, NEW j \in 1 .. (n - k), a[i] = b[j] PROVE FALSE
    BY <1>8
  <2>1. s[i] = s[k + j]
    BY <1>2, <1>3
  <2>2. QED
    BY <1>4, <1>5, <2>1
<1>10. Range(s) = Range(a) \cup Range(b)
  <2>1. ASSUME NEW i \in 1 .. n PROVE s[i] \in Range(a) \cup Range(b)
    BY <1>2, <1>3, <1>4, <1>8
  <2>2. Range(a) \subseteq Range(s) /\ Range(b) \subseteq Range(s)
    BY <1>2, <1>3, <1>4, <1>8
  <2>3. QED
    BY <1>8, <2>1, <2>2
<1>11. QED
  BY <1>2, <1>3, <1>6, <1>7, <1>9, <1>10 DEF a, b

LEMMA ReverseType ==
  ASSUME NEW X, NEW s \in Seq(X)
  PROVE  /\ Reverse(s) \in Seq(X) /\ Range(Reverse(s)) = Range(s)
         /\ IsInjective(s) => IsInjective(Reverse(s))
<1> DEFINE n == Len(s)
           r == Reverse(s)
<1>1. n \in Nat /\ DOMAIN s = 1 .. n /\ \A i \in 1 .. n : s[i] \in X
  OBVIOUS
<1>2. r = [i \in 1 .. n |-> s[(n - i) + 1]]
  BY DEF Reverse
<1> HIDE DEF n, r
<1>3. \A i \in 1 .. n : (n - i) + 1 \in 1 .. n /\ (n - ((n - i) + 1)) + 1 = i
  BY <1>1
<1>4. r \in Seq(X) /\ DOMAIN r = 1 .. n /\ \A i \in 1 .. n : r[i] = s[(n - i) + 1]
  BY <1>1, <1>2, <1>3
<1>5. Range(r) = Range(s)
  <2>1. Range(r) = {r[i] : i \in 1 .. n} /\ Range(s) = {s[i] : i \in 1 .. n}
    BY <1>1, <1>4 DEF Range
  <2>2. QED
    BY <1>3, <1>4, <2>1
<1>6. ASSUME IsInjective(s) PROVE IsInjective(r)
  <2>1. \A i, j \in 1 .. n : (n - i) + 1 = (n - j) + 1 => i = j
    BY <1>1
  <2>2. \A i, j \in 1 .. n : s[i] = s[j] => i = j
    BY <1>1, <1>6 DEF IsInjective
  <2>3. QED
    BY <1>3, <1>4, <2>1, <2>2 DEF IsInjective
<1>7. QED
  BY <1>4, <1>5, <1>6 DEF r

LEMMA JoinType ==
  ASSUME NEW a \in Seq(Frame), NEW b \in Seq(Frame), IsInjective(a), IsInjective(b),
         Range(a) \cap Range(b) = {}
  PROVE  a \o b \in Seq(Frame) /\ IsInjective(a \o b) /\ Range(a \o b) = Range(a) \cup Range(b)
<1> DEFINE c == a \o b
           n == Len(a)
           k == Len(b)
<1>1. n \in Nat /\ k \in Nat /\ DOMAIN a = 1 .. n /\ DOMAIN b = 1 .. k
  OBVIOUS
<1>2. /\ c \in Seq(Frame) /\ DOMAIN c = 1 .. (n + k)
      /\ \A i \in 1 .. (n + k) : c[i] = IF i <= n THEN a[i] ELSE b[i - n]
  OBVIOUS
<1> HIDE DEF c, n, k
<1>3. /\ \A i \in 1 .. (n + k) : i \in 1 .. n \/ (~ (i <= n) /\ i - n \in 1 .. k)
      /\ \A i \in 1 .. n : i \in 1 .. (n + k) /\ i <= n
      /\ \A i \in 1 .. k : n + i \in 1 .. (n + k) /\ ~ (n + i <= n) /\ (n + i) - n = i
  BY <1>1
<1>4. /\ Range(a) = {a[i] : i \in 1 .. n} /\ Range(b) = {b[i] : i \in 1 .. k}
      /\ Range(c) = {c[i] : i \in 1 .. (n + k)}
  BY <1>1, <1>2 DEF Range
<1>5. Range(c) = Range(a) \cup Range(b)
  <2>1. ASSUME NEW i \in 1 .. (n + k) PROVE c[i] \in Range(a) \cup Range(b)
    BY <1>2, <1>3, <1>4
  <2>2. ASSUME NEW i \in 1 .. n PROVE a[i] \in Range(c)
    BY <1>2, <1>3, <1>4
  <2>3. ASSUME NEW i \in 1 .. k PROVE b[i] \in Range(c)
    <3>1. c[n + i] = b[i]
      BY <1>2, <1>3
    <3>2. QED
      BY <1>3, <1>4, <3>1
  <2>4. QED
    BY <1>4, <2>1, <2>2, <2>3
<1>6. IsInjective(c)
  <2> SUFFICES ASSUME NEW i \in 1 .. (n + k), NEW j \in 1 .. (n + k), c[i] = c[j]
               PROVE  i = j
    BY <1>2 DEF IsInjective
  <2>1. /\ \A x, y \in 1 .. n : a[x] = a[y] => x = y
        /\ \A x, y \in 1 .. k : b[x] = b[y] => x = y
    BY <1>1 DEF IsInjective
  <2>2. \A x \in 1 .. n, y \in 1 .. k : a[x] # b[y]
    BY <1>4
  <2>3. CASE i <= n /\ j <= n
    BY <1>2, <1>3, <2>1, <2>3
  <2>4. CASE ~ (i <= n) /\ ~ (j <= n)
    <3>1. i - n \in 1 .. k /\ j - n \in 1 .. k /\ b[i - n] = b[j - n]
      BY <1>2, <1>3, <2>4
    <3>2. i - n = j - n
      BY <2>1, <3>1
    <3>3. QED
      BY <1>1, <3>2
  <2>5. CASE i <= n /\ ~ (j <= n)
    <3>1. i \in 1 .. n /\ j - n \in 1 .. k /\ c[i] = a[i] /\ c[j] = b[j - n]
      BY <1>2, <1>3, <2>5
    <3>2. QED
      BY <2>2, <3>1
  <2>6. CASE ~ (i <= n) /\ j <= n
    <3>1. j \in 1 .. n /\ i - n \in 1 .. k /\ c[j] = a[j] /\ c[i] = b[i - n]
      BY <1>2, <1>3, <2>6
    <3>2. QED
      BY <2>2, <3>1
  <2>7. QED
    BY <2>3, <2>4, <2>5, <2>6
<1>7. QED
  BY <1>2, <1>5, <1>6 DEF c

\* Frames taken from the front of a list and given back, one by one.
LEMMA GiveBack ==
  ASSUME NEW s \in Seq(Frame), IsInjective(s), NEW k \in 0 .. Len(s),
         NEW free \in Seq(Frame), IsInjective(free),
         Range(free) \subseteq Range(SubSeq(s, k + 1, Len(s)))
  PROVE  LET fpns == SubSeq(s, 1, k)
             r == Reverse(fpns) \o free
         IN  r \in Seq(Frame) /\ IsInjective(r) /\ Range(r) = Range(fpns) \cup Range(free)
<1> DEFINE fpns == SubSeq(s, 1, k)
<1>1. /\ fpns \in Seq(Frame) /\ IsInjective(fpns)
      /\ Range(fpns) \cap Range(SubSeq(s, k + 1, Len(s))) = {}
  BY SplitAt
<1> HIDE DEF fpns
<1>2. /\ Reverse(fpns) \in Seq(Frame) /\ IsInjective(Reverse(fpns))
      /\ Range(Reverse(fpns)) = Range(fpns)
  BY <1>1, ReverseType
<1>3. QED
  BY <1>1, <1>2, JoinType DEF fpns

\* The pages a call adds to the FIFO.
LEMMA FifoType ==
  ASSUME NEW n \in Pgn, NEW pgnum \in Nat, n + pgnum - 1 \in Pgn,
         NEW done \in 0 .. pgnum, NEW fifo \in Seq(Pgn)
  PROVE  Reverse([k \in 1 .. done |-> n + k - 1]) \o fifo \in Seq(Pgn)
<1> DEFINE new == [k \in 1 .. done |-> n + k - 1]
<1>1. LEVELS \in 0 .. LEVELS
  BY Sizes
<1>2. Reach[LEVELS] \in Nat
  BY <1>1, ReachType
<1>3. \A k \in 1 .. done : n + k - 1 \in Pgn
  BY <1>2 DEF Pgn
<1>4. new \in Seq(Pgn)
  BY <1>3
<1> HIDE DEF new
<1>5. Reverse(new) \in Seq(Pgn)
  BY <1>4, ReverseType
<1>6. QED
  BY <1>5 DEF new

-----------------------------------------------------------------------------
(* Type correctness *)

LEMMA vmapType ==
  ASSUME TypeOK, NEW free \in Seq(Frame), IsInjective(free),
         NEW root \in Frame, NEW n \in Pgn, NEW fpns \in Seq(Frame)
  PROVE  LET m == vmap(free, root, n, fpns)
         IN  /\ m \in Walk(Range(free)) /\ m.done \in 0 .. Len(fpns)
             /\ m.ram \in Memory /\ m.free \in Seq(Frame) /\ IsInjective(m.free)
             /\ Range(m.free) \subseteq Range(free)
<1> DEFINE m == vmap(free, root, n, fpns)
<1>1. ram \in Memory /\ root \in 0 .. FPN_MASK /\ n \in Nat
  BY FrameType, PrefixTop DEF TypeOK, Memory, Bits
<1>2. Len(fpns) \in 0 .. Len(fpns)
  OBVIOUS
<1>3. m \in Walk(Range(free)) /\ m.done <= Len(fpns)
  BY <1>1, <1>2, LoopType, vmapDef
<1> HIDE DEF m
<1>4. QED
  BY <1>2, <1>3 DEF Walk, m

LEMMA ZerosType ==
  ASSUME NEW k \in Nat
  PROVE  [i \in 1 .. k |-> 0] \in Seq(Frame) /\ Len([i \in 1 .. k |-> 0]) = k
BY FrameType

LEMMA TypeInit == Init => TypeOK
<1> SUFFICES ASSUME Init PROVE TypeOK
  OBVIOUS
<1> DEFINE n == maxsz \div PAGING_PAGESZ
<1>1. n \in Nat
  BY Sizes
<1> HIDE DEF n
<1>2. free_fp_list = [k \in 1 .. n |-> k - 1] /\ Frame = 0 .. (n - 1)
  BY DEF Init, Frame, n
<1>3. free_fp_list \in Seq(Frame)
  <2>1. \A k \in 1 .. n : k - 1 \in Frame
    BY <1>1, <1>2
  <2>2. QED
    BY <1>1, <1>2, <2>1
<1>4. IsInjective(free_fp_list)
  BY <1>1, <1>2 DEF IsInjective
<1>5. SwapFrames \in Nat /\ MaxCalls \in Nat
  BY Sizes
<1>6. ram \in Memory
  <2>1. [i \in Index |-> Zero] \in [Index -> Bits]
    BY FrameType DEF Zero, Bits
  <2>2. \A f \in 0 .. FPN_MASK : Heap[f] \in [Index -> Bits]
    BY StorageAssumption DEF Index, Bits
  <2>3. ram = [f \in 0 .. FPN_MASK |-> IF f \in Stored THEN [i \in Index |-> Zero] ELSE Heap[f]]
    BY DEF Init
  <2> HIDE DEF Init
  <2>4. QED
    BY <2>1, <2>2, <2>3 DEF Memory
<1>7. QED
  BY <1>3, <1>4, <1>5, <1>6 DEF Init, TypeOK, Memory, Bits

LEMMA TypeStep == TypeOK /\ [Next]_vars => TypeOK'
<1> SUFFICES ASSUME TypeOK, [Next]_vars PROVE TypeOK'
  OBVIOUS
<1>1. /\ ram \in [0 .. FPN_MASK -> [Index -> [pre : BOOLEAN, fpn : 0 .. FPN_MASK]]]
      /\ free_fp_list \in Seq(Frame) /\ IsInjective(free_fp_list)
      /\ swap_free \in 0 .. SwapFrames
      /\ loaded \subseteq Proc
      /\ pgd \in [Proc -> Frame \cup {NoFrame}]
      /\ fifo_pgn \in [Proc -> Seq(Pgn)]
      /\ fault \in {"none", "mm", "victim"}
      /\ calls \in 0 .. MaxCalls
  BY DEF TypeOK
<1>2. ASSUME NEW p \in Proc, Call(p)
      PROVE  /\ UNCHANGED << loaded, pgd >> /\ calls' \in 0 .. MaxCalls
             /\ pgd[p] # NoFrame => pgd[p] \in Frame
  <2>1. MaxCalls \in Nat
    BY Sizes
  <2>2. QED
    BY <1>1, <1>2, <2>1 DEF Call
<1>3. ASSUME NEW p \in Proc, InitMm(p) PROVE TypeOK'
  <2>1. CASE free_fp_list = << >>
    BY <1>1, <1>3, <2>1 DEF InitMm, TypeOK
  <2>2. CASE free_fp_list # << >>
    <3> DEFINE h == Head(free_fp_list)
    <3>1. h \in Frame /\ Tail(free_fp_list) \in Seq(Frame) /\ IsInjective(Tail(free_fp_list))
      BY <1>1, <2>2, HeadTail
    <3>2. Zero \in [pre : BOOLEAN, fpn : 0 .. FPN_MASK] /\ h \in 0 .. FPN_MASK
      BY <3>1, FrameType DEF Zero
    <3>3. /\ loaded' = loaded \cup {p} /\ pgd' = [pgd EXCEPT ![p] = h]
          /\ ram' = [ram EXCEPT ![h] = [i \in Index |-> Zero]]
          /\ free_fp_list' = Tail(free_fp_list)
          /\ UNCHANGED << swap_free, fifo_pgn, fault, calls >>
      BY <1>3, <2>2 DEF InitMm
    <3> HIDE DEF h
    <3>4. QED
      BY <1>1, <3>1, <3>2, <3>3 DEF TypeOK
  <2>3. QED
    BY <2>1, <2>2
<1>4. ASSUME NEW p \in Proc, NEW pgnum \in 1 .. MaxRange, VmMapRamNoFrames(p, pgnum) PROVE TypeOK'
  <2>1. Reverse(free_fp_list) \in Seq(Frame) /\ IsInjective(Reverse(free_fp_list))
    BY <1>1, ReverseType
  <2>2. QED
    BY <1>1, <1>2, <1>4, <2>1 DEF VmMapRamNoFrames, TypeOK
<1>5. ASSUME NEW p \in Proc, NEW pgnum \in 1 .. MaxRange, NEW pgn \in Pgn, MapOp(p, pgn, pgnum)
      PROVE  TypeOK'
  <2> DEFINE zeros == [k \in 1 .. pgnum |-> 0]
             m == vmap(free_fp_list, pgd[p], pgn, zeros)
  <2>1. zeros \in Seq(Frame)
    BY ZerosType
  <2>2. Call(p) /\ pgd[p] # NoFrame /\ ram' = m.ram /\ free_fp_list' = m.free
        /\ UNCHANGED << swap_free, fifo_pgn, fault >>
    BY <1>5 DEF MapOp
  <2>3. pgd[p] \in Frame
    BY <1>2, <2>2
  <2> HIDE DEF zeros
  <2>4. m.ram \in Memory /\ m.free \in Seq(Frame) /\ IsInjective(m.free)
    BY <1>1, <2>1, <2>3, vmapType
  <2> HIDE DEF m
  <2>5. QED
    BY <1>1, <1>2, <2>2, <2>4 DEF TypeOK, Memory, Bits
<1>6. ASSUME NEW p \in Proc, NEW pgnum \in 1 .. MaxRange, NEW pgn \in Pgn,
             pgn + pgnum - 1 \in Pgn, VmMapRam(p, pgn, pgnum)
      PROVE  TypeOK'
  <2> DEFINE fpns == SubSeq(free_fp_list, 1, pgnum)
             free == SubSeq(free_fp_list, pgnum + 1, Len(free_fp_list))
             m == vmap(free, pgd[p], pgn, fpns)
             new == [k \in 1 .. m.done |-> pgn + k - 1]
  <2>1. /\ Call(p) /\ pgd[p] # NoFrame /\ pgnum <= Len(free_fp_list)
        /\ ram' = m.ram
        /\ free_fp_list' = IF m.done = pgnum THEN m.free ELSE Reverse(fpns) \o m.free
        /\ fifo_pgn' = [fifo_pgn EXCEPT ![p] = Reverse(new) \o @]
        /\ UNCHANGED << swap_free, fault >>
    BY <1>6 DEF VmMapRam
  <2>2. pgnum \in Nat /\ pgnum \in 0 .. Len(free_fp_list)
    BY <1>1, <2>1, Sizes
  <2>3. pgd[p] \in Frame
    BY <1>2, <2>1
  <2>4. /\ fpns \in Seq(Frame) /\ Len(fpns) = pgnum
        /\ free \in Seq(Frame) /\ IsInjective(free)
    BY <1>1, <2>2, SplitAt
  <2> HIDE DEF m
  <2>5. /\ m.done \in 0 .. pgnum /\ m.ram \in Memory
        /\ m.free \in Seq(Frame) /\ IsInjective(m.free) /\ Range(m.free) \subseteq Range(free)
    <3> HIDE DEF fpns, free
    <3>1. QED
      BY <2>3, <2>4, vmapType DEF m
  <2>6. Reverse(fpns) \o m.free \in Seq(Frame) /\ IsInjective(Reverse(fpns) \o m.free)
    BY <1>1, <2>2, <2>5, GiveBack
  <2>7. Reverse(new) \o fifo_pgn[p] \in Seq(Pgn)
    BY <1>1, <1>6, <2>2, <2>5, FifoType
  <2> HIDE DEF fpns, free, new
  <2>8. free_fp_list' \in Seq(Frame) /\ IsInjective(free_fp_list')
    BY <2>1, <2>5, <2>6
  <2>9. fifo_pgn' \in [Proc -> Seq(Pgn)]
    BY <1>1, <2>1, <2>7
  <2>10. QED
    BY <1>1, <1>2, <2>1, <2>5, <2>8, <2>9 DEF TypeOK, Memory, Bits
<1>7. ASSUME NEW p \in Proc, NEW pgn \in Pgn, GetPresent(p, pgn) PROVE TypeOK'
  BY <1>1, <1>2, <1>7 DEF GetPresent, TypeOK
<1>8. ASSUME NEW p \in Proc, NEW pgn \in Pgn, GetAbsent(p, pgn) PROVE TypeOK'
  <2> DEFINE fifo == fifo_pgn[p]
             short == fifo_pgn' = [fifo_pgn EXCEPT ![p] = Front(fifo)]
             n == Len(fifo)
             turn == fifo_pgn' = [fifo_pgn EXCEPT ![p] = << pgn >> \o Front(fifo)]
  <2>1. fifo \in Seq(Pgn) /\ n \in Nat /\ SwapFrames \in Nat
    BY <1>1, Sizes
  <2>2. Call(p) /\ UNCHANGED << ram, free_fp_list >>
    BY <1>8 DEF GetAbsent, find_victim_page
  <2>3. /\ n = 0 => UNCHANGED << fifo_pgn, swap_free, fault >>
        /\ n = 1 => fault' = "victim" /\ UNCHANGED << fifo_pgn, swap_free >>
        /\ n > 1 /\ swap_free = 0 => short /\ UNCHANGED << swap_free, fault >>
        /\ n > 1 /\ swap_free # 0 => turn /\ swap_free' = swap_free - 1 /\ UNCHANGED fault
    <3>1. (CASE n = 0 -> UNCHANGED << fifo_pgn, swap_free, fault >>
            [] n = 1 -> /\ fault' = "victim"
                        /\ UNCHANGED << fifo_pgn, swap_free >>
            [] n > 1 /\ swap_free = 0 -> short /\ UNCHANGED << swap_free, fault >>
            [] OTHER -> /\ swap_free' = swap_free - 1
                        /\ turn
                        /\ UNCHANGED fault)
      BY <1>8 DEF GetAbsent, find_victim_page
    <3> HIDE DEF short, turn, n
    <3>2. QED
      BY <2>1, <3>1
  <2>4. n > 1 => Front(fifo) \in Seq(Pgn) /\ << pgn >> \o Front(fifo) \in Seq(Pgn)
    BY <2>1 DEF Front
  <2> HIDE DEF n, fifo
  <2>5. n = 0 \/ n = 1 \/ n > 1
    BY <2>1
  <2>6. fifo_pgn' \in [Proc -> Seq(Pgn)]
    BY <1>1, <2>3, <2>4, <2>5
  <2>7. swap_free' \in 0 .. SwapFrames
    BY <1>1, <2>1, <2>3, <2>5
  <2>8. fault' \in {"none", "mm", "victim"}
    BY <1>1, <2>3, <2>5
  <2>9. QED
    BY <1>1, <1>2, <2>2, <2>6, <2>7, <2>8 DEF TypeOK
<1>9. ASSUME NEW p \in Proc, CallWild(p) PROVE TypeOK'
  BY <1>1, <1>2, <1>9 DEF CallWild, TypeOK
<1>10. ASSUME NEW p \in Proc, NEW f \in IoFrames, NEW i \in Index,
              NEW new \in [pre : BOOLEAN, fpn : IoFpns], IoWrite(p, f, i, new)
       PROVE  TypeOK'
  <2>1. f \in 0 .. FPN_MASK /\ new \in Bits
    BY StorageAssumption DEF Bits
  <2>2. ram \in Memory
    BY <1>1 DEF Memory, Bits
  <2>3. ram' \in Memory
    BY <1>10, <2>1, <2>2, StoreType DEF IoWrite
  <2>4. QED
    BY <1>1, <1>2, <1>10, <2>3 DEF IoWrite, TypeOK, Memory, Bits
<1>11. CASE UNCHANGED vars
  BY <1>1, <1>11 DEF vars, TypeOK
<1>12. QED
  BY <1>3, <1>4, <1>5, <1>6, <1>7, <1>8, <1>9, <1>10, <1>11 DEF Next

\* The free list holds frames of RAM, none twice, and every entry, top table
\* and FIFO stays within its type, for RAM and tables of any size.
THEOREM TypeCorrect == Spec => []TypeOK
<1>1. Init => TypeOK
  BY TypeInit
<1>2. TypeOK /\ [Next]_vars => TypeOK'
  BY TypeStep
<1>3. QED
  BY <1>1, <1>2, PTL DEF Spec

-----------------------------------------------------------------------------
(* The tables of all processes as a forest *)

\* Table q of level l of process p, present or not.
Node == Proc \X (1 .. LEVELS) \X Nat

\* at[<<p, l, q>>] is the frame of that table.
Forest(mem, root, at) ==
    /\ at \in [Node -> Frame \cup {NoFrame}]
    /\ \A p \in Proc, q \in Nat : at[<<p, 1, q>>] = IF q = 0 THEN root[p] ELSE NoFrame
    /\ \A p \in Proc, l \in 2 .. LEVELS, q \in Nat :
          at[<<p, l, q>>] = Child(mem, at[<<p, l - 1, q \div FANOUT>>], q % FANOUT)
    /\ \A x, y \in Node : at[x] = at[y] /\ at[x] # NoFrame => x = y

Used(at) == {at[x] : x \in Node} \ {NoFrame}

\* Nothing is stored in these frames.
Blank(mem, frames) == \A f \in frames : mem[f] = [i \in Index |-> Zero]

\* What the entry of page n is, given the frame it is mapped to.
Mapping(f) == IF f = NoFrame THEN Zero ELSE Entry(f)

Leaves(mem, map, at) ==
    \A p \in Proc, n \in Pgn :
        LET f == at[<<p, LEVELS, n \div FANOUT>>]
        IN  IF f = NoFrame THEN map[p][n] = NoFrame
                           ELSE mem[f][n % FANOUT] = Mapping(map[p][n])

LEMMA ReadPlain ==
  /\ get_32bit_entry(Zero) = Zero
  /\ \A f \in Frame : Entry(f) = [pre |-> TRUE, fpn |-> f]
  /\ \A f \in PlainFrame : get_32bit_entry(Entry(f)) = Entry(f)
<1>1. BYTE \in Nat \ {0} /\ BYTE \in Nat \ {0, 1}
  BY Sizes
<1>2. 0 \in PlainFrame
  <2>1. 0 % BYTE = 0
    <3>1. 0 = BYTE * 0 + 0
      BY <1>1
    <3>2. QED
      BY <1>1, DivisionOf
  <2>2. BYTE \div 2 # 0
    <3>1. BYTE = 2 * (BYTE \div 2) + (BYTE % 2) /\ BYTE % 2 \in 0 .. (2 - 1)
          /\ BYTE \div 2 \in Nat
      BY <1>1, Division
    <3>2. QED
      BY <1>1, <3>1
  <2>3. BYTE \div 2 \in Nat
    BY <1>1, Division
  <2>4. QED
    BY <2>1, <2>2, <2>3, FrameType DEF PlainFrame
<1>3. ASSUME NEW f \in PlainFrame PROVE f \in Frame /\ ~ (f % BYTE >= BYTE \div 2)
  <2>1. f % BYTE < BYTE \div 2 /\ f \in Frame /\ f \in Nat
    BY FrameType DEF PlainFrame
  <2>2. f % BYTE \in Nat /\ BYTE \div 2 \in Nat
    BY <1>1, <2>1, Division
  <2>3. QED
    BY <2>1, <2>2
<1>4. Zero.fpn = 0 /\ ~ (0 % BYTE >= BYTE \div 2)
  BY <1>2, <1>3 DEF Zero
<1>5. ASSUME NEW f \in Frame PROVE Entry(f) = [pre |-> TRUE, fpn |-> f]
  BY FrameType DEF Entry
<1>6. ASSUME NEW f \in PlainFrame PROVE get_32bit_entry(Entry(f)) = Entry(f)
  <2>1. Entry(f).fpn = f
    BY <1>3, <1>5
  <2>2. QED
    BY <1>3, <2>1 DEF get_32bit_entry
<1>7. get_32bit_entry(Zero) = Zero
  BY <1>4 DEF get_32bit_entry
<1>8. QED
  BY <1>5, <1>6, <1>7

LEMMA ChildOf ==
  /\ \A mem, i : Child(mem, NoFrame, i) = NoFrame
  /\ \A mem, f, i : f # NoFrame => Child(mem, f, i) =
        IF get_32bit_entry(mem[f][i]).pre THEN get_32bit_entry(mem[f][i]).fpn ELSE NoFrame
BY DEF Child

LEMMA ChildPlain ==
  ASSUME NEW mem, NEW f, NEW i, f # NoFrame
  PROVE  /\ mem[f][i] = Zero => Child(mem, f, i) = NoFrame
         /\ \A h \in PlainFrame : mem[f][i] = Entry(h) => Child(mem, f, i) = h
<1>1. CASE mem[f][i] = Zero
  <2>1. ~ get_32bit_entry(mem[f][i]).pre
    BY <1>1, ReadPlain DEF Zero
  <2>2. \A h : mem[f][i] # Entry(h)
    BY <1>1 DEF Zero, Entry
  <2>3. QED
    BY <2>1, <2>2 DEF Child
<1>2. ASSUME NEW h \in PlainFrame, mem[f][i] = Entry(h) PROVE Child(mem, f, i) = h
  <2>1. get_32bit_entry(mem[f][i]) = [pre |-> TRUE, fpn |-> h]
    BY <1>2, ReadPlain DEF PlainFrame
  <2>2. QED
    BY <2>1 DEF Child
<1>3. QED
  BY <1>1, <1>2

LEMMA NodeType ==
  /\ \A p \in Proc, l \in 1 .. LEVELS, q \in Nat : <<p, l, q>> \in Node
  /\ \A x \in Node : \E p \in Proc, l \in 1 .. LEVELS, q \in Nat : x = <<p, l, q>>
BY DEF Node

\* Entry i of the table in frame base refers to table h, the c-th of level l.
Linked(mem, base, i, h) == [mem EXCEPT ![base][i] = Entry(h)]

Planted(at, p, l, c, h) == [at EXCEPT ![<<p, l, c>>] = h]

\* A new table h for the absent entry c % FANOUT of a table.
LEMMA Grow ==
  ASSUME NEW mem \in Memory, NEW root, NEW at, Forest(mem, root, at),
         NEW p \in Proc, NEW l \in 1 .. LEVELS, l # LEVELS, NEW c \in Nat,
         NEW base, base = at[<<p, l, c \div FANOUT>>], base # NoFrame,
         ~ get_32bit_entry(mem[base][c % FANOUT]).pre,
         NEW h \in PlainFrame, h \notin Used(at), mem[h] = [i \in Index |-> Zero],
         NEW mem2, mem2 = Linked(mem, base, c % FANOUT, h),
         NEW at2, at2 = Planted(at, p, l + 1, c, h)
  PROVE  /\ Forest(mem2, root, at2)
         /\ Used(at2) = Used(at) \cup {h}
         /\ \A map : Leaves(mem, map, at) => Leaves(mem2, map, at2)
         /\ at2[<<p, l + 1, c>>] = h
         /\ \A x \in Node : at[x] # NoFrame => at2[x] = at[x]
<1> DEFINE x == <<p, l, c \div FANOUT>>
           y == <<p, l + 1, c>>
           i == c % FANOUT
<1>1. /\ c \div FANOUT \in Nat /\ i \in Index /\ LEVELS \in Nat
      /\ l + 1 \in 2 .. LEVELS /\ l + 1 \in 1 .. LEVELS /\ (l + 1) - 1 = l
  <2>1. LEVELS \in Nat
    BY Sizes
  <2>2. c \div FANOUT \in Nat /\ i \in Index
    BY Indices
  <2>3. QED
    BY <2>1, <2>2
<1>2. x \in Node /\ y \in Node /\ x # y
  BY <1>1, NodeType
<1>3. /\ at \in [Node -> Frame \cup {NoFrame}]
      /\ \A q1 \in Proc, q \in Nat : at[<<q1, 1, q>>] = IF q = 0 THEN root[q1] ELSE NoFrame
      /\ \A q1 \in Proc, k \in 2 .. LEVELS, q \in Nat :
            at[<<q1, k, q>>] = Child(mem, at[<<q1, k - 1, q \div FANOUT>>], q % FANOUT)
      /\ \A v, w \in Node : at[v] = at[w] /\ at[v] # NoFrame => v = w
  BY DEF Forest
<1>4. at[y] = NoFrame
  BY <1>1, <1>3, ChildOf
<1>5. /\ base \in Frame /\ base \in Used(at) /\ base # h
      /\ base \in 0 .. FPN_MASK /\ h \in Frame /\ h \in 0 .. FPN_MASK /\ h # NoFrame
  BY <1>2, <1>3, FrameType DEF Used, PlainFrame
<1>6. /\ at2 \in [Node -> Frame \cup {NoFrame}]
      /\ at2[y] = h
      /\ \A v \in Node : v # y => at2[v] = at[v]
  BY <1>2, <1>3, <1>5 DEF Planted
<1>7. /\ mem2[base][i] = Entry(h)
      /\ \A j \in Index : j # i => mem2[base][j] = mem[base][j]
      /\ \A f \in 0 .. FPN_MASK : f # base => mem2[f] = mem[f]
      /\ mem2[h] = [j \in Index |-> Zero]
  BY <1>1, <1>5 DEF Memory, Linked
<1> HIDE DEF x, y, i
<1>8. Used(at2) = Used(at) \cup {h}
  BY <1>2, <1>4, <1>5, <1>6 DEF Used
<1>9. Forest(mem2, root, at2)
  <2>1. ASSUME NEW q1 \in Proc, NEW q \in Nat
        PROVE  at2[<<q1, 1, q>>] = IF q = 0 THEN root[q1] ELSE NoFrame
    <3>1. <<q1, 1, q>> \in Node /\ <<q1, 1, q>> # y
      BY <1>1, NodeType DEF y
    <3>2. QED
      BY <1>3, <1>6, <3>1
  <2>2. ASSUME NEW q1 \in Proc, NEW k \in 2 .. LEVELS, NEW q \in Nat
        PROVE  at2[<<q1, k, q>>] = Child(mem2, at2[<<q1, k - 1, q \div FANOUT>>], q % FANOUT)
    <3> DEFINE z == <<q1, k, q>>
               w == <<q1, k - 1, q \div FANOUT>>
               j == q % FANOUT
    <3>1. /\ z \in Node /\ w \in Node /\ z # w /\ j \in Index
      <4>1. q \div FANOUT \in Nat /\ j \in Index /\ k \in 1 .. LEVELS /\ k - 1 \in 1 .. LEVELS
            /\ k # k - 1
        BY <1>1, Indices
      <4>2. QED
        BY <4>1, NodeType
    <3>2. at[z] = Child(mem, at[w], j)
      BY <1>3
    <3>3. z = y => w = x /\ j = i
      BY <1>1 DEF x, y, i
    <3>4. z # y => w # x \/ j # i
      <4>1. ASSUME w = x, j = i PROVE z = y
        <5>1. q1 = p /\ k - 1 = l /\ q \div FANOUT = c \div FANOUT /\ q % FANOUT = c % FANOUT
          BY <4>1 DEF x, i
        <5>2. q = c
          BY <5>1, Indices
        <5>3. k = l + 1
          BY <1>1, <5>1
        <5>4. QED
          BY <5>1, <5>2, <5>3 DEF y
      <4>2. QED
        BY <4>1
    <3> HIDE DEF z, w, j
    <3>5. CASE z = y
      <4>1. at2[w] = base
        BY <1>2, <1>6, <3>1, <3>3, <3>5 DEF x
      <4>2. Child(mem2, base, i) = h
        <5>1. mem2[base][i] = Entry(h) /\ base # NoFrame
          BY <1>7
        <5>2. get_32bit_entry(mem2[base][i]) = [pre |-> TRUE, fpn |-> h]
          BY <1>5, <5>1, ReadPlain
        <5>3. QED
          BY <5>1, <5>2 DEF Child
      <4>3. QED
        BY <1>6, <3>3, <3>5, <4>1, <4>2 DEF z, w, j
    <3>6. CASE z # y /\ w = y
      <4>1. at[z] = NoFrame
        BY <1>4, <3>2, <3>6, ChildOf
      <4>2. mem2[h][j] = Zero
        BY <1>7, <3>1
      <4>3. Child(mem2, h, j) = NoFrame
        BY <1>5, <4>2, ChildPlain
      <4>4. QED
        BY <1>6, <3>1, <3>6, <4>1, <4>3 DEF z, w, j
    <3>7. CASE z # y /\ w # y /\ w = x
      <4>1. at2[w] = base /\ at[w] = base
        BY <1>6, <3>1, <3>7 DEF x
      <4>2. mem2[base][j] = mem[base][j]
        BY <1>7, <3>1, <3>4, <3>7
      <4>3. Child(mem2, base, j) = Child(mem, base, j)
        BY <4>2 DEF Child
      <4>4. QED
        BY <1>6, <3>1, <3>2, <3>7, <4>1, <4>3 DEF z, w, j
    <3>8. CASE z # y /\ w # y /\ w # x
      <4>1. at2[w] = at[w] /\ at2[z] = at[z]
        BY <1>6, <3>1, <3>8
      <4>2. at[w] = NoFrame \/ (at[w] \in 0 .. FPN_MASK /\ at[w] # base /\ at[w] # NoFrame)
        BY <1>2, <1>3, <3>1, <3>8, FrameType DEF x
      <4>3. Child(mem2, at[w], j) = Child(mem, at[w], j)
        <5>1. at[w] = NoFrame \/ mem2[at[w]][j] = mem[at[w]][j]
          BY <1>7, <4>2
        <5>2. QED
          BY <5>1 DEF Child
      <4>4. QED
        BY <3>2, <4>1, <4>3 DEF z, w, j
    <3>9. QED
      BY <3>5, <3>6, <3>7, <3>8
  <2>3. ASSUME NEW v \in Node, NEW w \in Node, at2[v] = at2[w], at2[v] # NoFrame PROVE v = w
    <3>1. \A u \in Node : at[u] # h
      BY <1>5 DEF Used
    <3>2. QED
      BY <1>3, <1>6, <2>3, <3>1
  <2>4. QED
    BY <1>6, <2>1, <2>2, <2>3 DEF Forest
<1>10. ASSUME NEW map, Leaves(mem, map, at) PROVE Leaves(mem2, map, at2)
  <2> SUFFICES ASSUME NEW q1 \in Proc, NEW n \in Pgn
               PROVE  LET f == at2[<<q1, LEVELS, n \div FANOUT>>]
                      IN  IF f = NoFrame THEN map[q1][n] = NoFrame
                          ELSE mem2[f][n % FANOUT] = Mapping(map[q1][n])
    BY DEF Leaves
  <2> DEFINE z == <<q1, LEVELS, n \div FANOUT>>
             j == n % FANOUT
  <2>1. z \in Node /\ z # x /\ j \in Index
    <3>1. n \in Nat
      BY PrefixTop
    <3>2. n \div FANOUT \in Nat /\ j \in Index /\ LEVELS \in 1 .. LEVELS
      BY <1>1, <3>1, Indices
    <3>3. QED
      BY <3>2, NodeType DEF x
  <2>2. IF at[z] = NoFrame THEN map[q1][n] = NoFrame
        ELSE mem[at[z]][j] = Mapping(map[q1][n])
    BY <1>10 DEF Leaves
  <2> HIDE DEF z, j
  <2>3. CASE z = y
    <3>1. map[q1][n] = NoFrame
      BY <1>4, <2>2, <2>3
    <3>2. mem2[h][j] = Mapping(map[q1][n])
      BY <1>7, <2>1, <3>1 DEF Mapping
    <3>3. QED
      BY <1>5, <1>6, <2>3, <3>2 DEF z, j
  <2>4. CASE z # y
    <3>1. at2[z] = at[z]
      BY <1>6, <2>1, <2>4
    <3>2. at[z] # NoFrame => at[z] \in 0 .. FPN_MASK /\ at[z] # base
      BY <1>2, <1>3, <2>1, FrameType DEF x
    <3>3. QED
      BY <1>7, <2>2, <3>1, <3>2 DEF z, j
  <2>5. QED
    BY <2>3, <2>4
<1>11. QED
  BY <1>4, <1>6, <1>8, <1>9, <1>10 DEF y

\* map2 is map but for page n of p.
SameBut(map, map2, p, n) ==
    \A q \in Proc, k \in Pgn : q # p \/ k # n => map2[q][k] = map[q][k]

\* The entry of a page is set in its table of the last level.
LEMMA SetLeaf ==
  ASSUME NEW mem \in Memory, NEW root, NEW at, Forest(mem, root, at),
         NEW p \in Proc, NEW n \in Pgn,
         NEW base, base = at[<<p, LEVELS, n \div FANOUT>>], base # NoFrame,
         NEW e \in Bits,
         NEW mem2, mem2 = [mem EXCEPT ![base][n % FANOUT] = e]
  PROVE  /\ Forest(mem2, root, at)
         /\ \A map, map2 :
               /\ Leaves(mem, map, at)
               /\ Mapping(map2[p][n]) = e
               /\ SameBut(map, map2, p, n)
               => Leaves(mem2, map2, at)
<1> DEFINE x == <<p, LEVELS, n \div FANOUT>>
           i == n % FANOUT
<1>1. LEVELS \in Nat \ {0} /\ LEVELS \in 1 .. LEVELS
  BY Sizes
<1>2. n \in Nat /\ n \div FANOUT \in Nat /\ i \in Index
  BY PrefixTop, Indices
<1>3. x \in Node
  BY <1>1, <1>2, NodeType
<1>4. /\ at \in [Node -> Frame \cup {NoFrame}]
      /\ \A q1 \in Proc, q \in Nat : at[<<q1, 1, q>>] = IF q = 0 THEN root[q1] ELSE NoFrame
      /\ \A q1 \in Proc, k \in 2 .. LEVELS, q \in Nat :
            at[<<q1, k, q>>] = Child(mem, at[<<q1, k - 1, q \div FANOUT>>], q % FANOUT)
      /\ \A v, w \in Node : at[v] = at[w] /\ at[v] # NoFrame => v = w
  BY DEF Forest
<1> HIDE DEF x
<1>5. base = at[x] /\ base \in Used(at) /\ base \in 0 .. FPN_MASK
  BY <1>3, <1>4, FrameType DEF Used, x
<1>6. /\ mem2[base][i] = e
      /\ \A j \in Index : j # i => mem2[base][j] = mem[base][j]
      /\ \A f \in 0 .. FPN_MASK : f # base => mem2[f] = mem[f]
  BY <1>2, <1>5 DEF Memory
<1> HIDE DEF i
<1>7. Forest(mem2, root, at)
  <2>1. ASSUME NEW q1 \in Proc, NEW k \in 2 .. LEVELS, NEW q \in Nat
        PROVE  at[<<q1, k, q>>] = Child(mem2, at[<<q1, k - 1, q \div FANOUT>>], q % FANOUT)
    <3> DEFINE w == <<q1, k - 1, q \div FANOUT>>
               j == q % FANOUT
    <3>1. q \div FANOUT \in Nat /\ k - 1 \in 1 .. LEVELS /\ k - 1 # LEVELS
      BY <1>1, Indices
    <3>2. w \in Node /\ w # x
      BY <3>1, NodeType DEF x
    <3>3. at[<<q1, k, q>>] = Child(mem, at[w], j)
      BY <1>4
    <3> HIDE DEF w, j
    <3>4. at[w] = NoFrame \/ mem2[at[w]][j] = mem[at[w]][j]
      BY <1>3, <1>4, <1>5, <1>6, <3>2, FrameType
    <3>5. Child(mem2, at[w], j) = Child(mem, at[w], j)
      BY <3>4 DEF Child
    <3>6. QED
      BY <3>3, <3>5 DEF w, j
  <2>2. QED
    BY <1>4, <2>1 DEF Forest
<1>8. ASSUME NEW map, NEW map2, Leaves(mem, map, at), Mapping(map2[p][n]) = e,
             SameBut(map, map2, p, n)
      PROVE  Leaves(mem2, map2, at)
  <2> SUFFICES ASSUME NEW q1 \in Proc, NEW k \in Pgn
               PROVE  LET f == at[<<q1, LEVELS, k \div FANOUT>>]
                      IN  IF f = NoFrame THEN map2[q1][k] = NoFrame
                          ELSE mem2[f][k % FANOUT] = Mapping(map2[q1][k])
    BY DEF Leaves
  <2> DEFINE z == <<q1, LEVELS, k \div FANOUT>>
             j == k % FANOUT
  <2>1. k \in Nat /\ k \div FANOUT \in Nat /\ j \in Index
    BY PrefixTop, Indices
  <2>2. z \in Node
    BY <1>1, <2>1, NodeType
  <2>3. z = x /\ j = i <=> q1 = p /\ k = n
    BY <1>2, <2>1, Indices DEF x, i
  <2>4. IF at[z] = NoFrame THEN map[q1][k] = NoFrame
        ELSE mem[at[z]][j] = Mapping(map[q1][k])
    BY <1>8 DEF Leaves
  <2> HIDE DEF z, j
  <2>5. CASE q1 = p /\ k = n
    BY <1>5, <1>6, <1>8, <2>3, <2>5 DEF z, j
  <2>6. CASE q1 # p \/ k # n
    <3>1. map2[q1][k] = map[q1][k]
      BY <1>8, <2>6 DEF SameBut
    <3>2. at[z] = NoFrame \/ mem2[at[z]][j] = mem[at[z]][j]
      BY <1>3, <1>4, <1>5, <1>6, <2>1, <2>2, <2>3, <2>6, FrameType DEF j
    <3>3. QED
      BY <2>4, <3>1, <3>2 DEF z, j
  <2>7. QED
    BY <2>5, <2>6
<1>9. QED
  BY <1>7, <1>8

-----------------------------------------------------------------------------
(* What a call keeps *)

\* The tables of m form a forest at, with the entries of the pages as in map;
\* every frame is free, held by the call, a table, or in rest; those of the free
\* and the held ones that are in clean are blank.
Sound(m, clean, held, rest, root, map, at) ==
    /\ Forest(m.ram, root, at) /\ Leaves(m.ram, map, at)
    /\ Blank(m.ram, (Range(m.free) \cup held) \cap clean)
    /\ (Range(m.free) \cup held) \cap Used(at) = {}
    /\ Frame \subseteq Range(m.free) \cup held \cup Used(at) \cup rest

\* The tables of the other processes are as they were before the call.
Apart(mem, at, p) ==
    \A x \in Node : x[1] # p /\ at[x] # NoFrame => mem[at[x]] = ram[at[x]]

LEMMA SoundSame ==
  ASSUME NEW m, NEW m2, m2.ram = m.ram, m2.free = m.free,
         NEW clean, NEW held, NEW rest, NEW root, NEW map, NEW at
  PROVE  Sound(m, clean, held, rest, root, map, at) <=> Sound(m2, clean, held, rest, root, map, at)
BY DEF Sound

\* A table of p changes: the free frames stay blank, and the tables of the
\* others as they are.
LEMMA StoreElsewhere ==
  ASSUME NEW mem, NEW mem2, NEW root, NEW at, Forest(mem, root, at),
         NEW x \in Node, at[x] # NoFrame,
         \A f \in Frame : f # at[x] => mem2[f] = mem[f]
  PROVE  /\ \A frames \in SUBSET Frame : Blank(mem, frames) /\ at[x] \notin frames
               => Blank(mem2, frames)
         /\ Apart(mem, at, x[1]) => Apart(mem2, at, x[1])
<1>1. /\ at \in [Node -> Frame \cup {NoFrame}]
      /\ \A v, w \in Node : at[v] = at[w] /\ at[v] # NoFrame => v = w
  BY DEF Forest
<1>2. QED
  BY <1>1 DEF Blank, Apart

LEMMA StepDownSound ==
  ASSUME NEW room, NEW clean \in SUBSET Frame,
         NEW held, room \cap held = {}, NEW m \in Walk(room), m.ok,
         NEW rest, NEW root, NEW map, NEW at, Sound(m, clean, held, rest, root, map, at),
         NEW p \in Proc, NEW l \in 1 .. LEVELS, l # LEVELS, NEW c \in Nat,
         m.base = at[<<p, l, c \div FANOUT>>], Apart(m.ram, at, p),
         room \ Range(StepDown(m, c % FANOUT).free) \subseteq PlainFrame \cap clean
  PROVE  LET d == StepDown(m, c % FANOUT)
         IN  \E at2 : /\ Sound(d, clean, held, rest, root, map, at2)
                      /\ Apart(d.ram, at2, p)
                      /\ d.ok => d.base = at2[<<p, l + 1, c>>]
<1> DEFINE i == c % FANOUT
           d == StepDown(m, i)
           e == get_32bit_entry(m.ram[m.base][i])
           y == <<p, l + 1, c>>
<1>1. /\ m \in [ram : Memory, free : Seq(Frame), base : 0 .. FPN_MASK, ok : BOOLEAN, done : Nat]
      /\ IsInjective(m.free) /\ Range(m.free) \subseteq room
  BY DEF Walk
<1>2. /\ Forest(m.ram, root, at) /\ Leaves(m.ram, map, at)
      /\ Blank(m.ram, (Range(m.free) \cup held) \cap clean)
      /\ (Range(m.free) \cup held) \cap Used(at) = {}
      /\ Frame \subseteq Range(m.free) \cup held \cup Used(at) \cup rest
  BY DEF Sound
<1>3. m.base # NoFrame
  BY <1>1, FrameType DEF NoFrame
<1>4. CASE e.pre
  <2>1. d = [m EXCEPT !.base = e.fpn]
    BY <1>4 DEF StepDown
  <2>2. d.ram = m.ram /\ d.free = m.free /\ d.base = e.fpn
    BY <1>1, <2>1
  <2>3. at[y] = Child(m.ram, m.base, i)
    <3>1. LEVELS \in Nat /\ l + 1 \in 2 .. LEVELS /\ (l + 1) - 1 = l
      BY Sizes
    <3>2. QED
      BY <1>2, <3>1 DEF Forest
  <2>4. at[y] = e.fpn
    BY <1>3, <1>4, <2>3 DEF Child
  <2>5. Sound(d, clean, held, rest, root, map, at)
    BY <2>2, SoundSame
  <2> HIDE DEF d, y, e
  <2>6. QED
    BY <2>2, <2>4, <2>5 DEF d, y
<1>5. CASE ~ e.pre /\ m.free = << >>
  <2>1. d = [m EXCEPT !.ok = FALSE]
    BY <1>1, <1>5 DEF StepDown
  <2>2. d.ram = m.ram /\ d.free = m.free /\ ~ d.ok
    BY <1>1, <2>1
  <2>3. Sound(d, clean, held, rest, root, map, at)
    BY <2>2, SoundSame
  <2> HIDE DEF d, y, e
  <2>4. QED
    BY <2>2, <2>3 DEF d
<1>6. CASE ~ e.pre /\ m.free # << >>
  <2> DEFINE h == Head(m.free)
             at2 == Planted(at, p, l + 1, c, h)
             mem2 == Linked(m.ram, m.base, i, h)
  <2>1. d = [m EXCEPT !.base = h, !.free = Tail(@), !.ram[m.base][i] = Entry(h)]
    BY <1>1, <1>6 DEF StepDown
  <2>2. d.ram = mem2 /\ d.free = Tail(m.free) /\ d.base = h
    BY <1>1, <2>1 DEF Linked
  <2>3. /\ h \in Frame /\ h \in Range(m.free)
        /\ Range(Tail(m.free)) = Range(m.free) \ {h}
    BY <1>1, <1>6, HeadTail
  <2>4. h \notin Used(at) /\ h \notin held /\ h \in PlainFrame /\ h \in clean
    BY <1>1, <1>2, <2>2, <2>3
  <2>5. m.ram[h] = [j \in Index |-> Zero]
    BY <1>2, <2>3, <2>4 DEF Blank
  <2>6. m.ram \in Memory /\ ~ get_32bit_entry(m.ram[m.base][c % FANOUT]).pre
    BY <1>1, <1>6
  <2> HIDE DEF h, d
  <2>7. /\ Forest(mem2, root, at2)
        /\ Used(at2) = Used(at) \cup {h}
        /\ Leaves(m.ram, map, at) => Leaves(mem2, map, at2)
        /\ at2[y] = h
    BY <1>2, <1>3, <2>3, <2>4, <2>5, <2>6, Grow
  <2>8. /\ <<p, l, c \div FANOUT>> \in Node /\ y \in Node
        /\ at \in [Node -> Frame \cup {NoFrame}]
    <3>1. l + 1 \in 1 .. LEVELS /\ c \div FANOUT \in Nat
      BY Sizes, Indices
    <3>2. QED
      BY <1>2, <3>1, NodeType DEF Forest
  <2> DEFINE bare == (Range(Tail(m.free)) \cup held) \cap clean
  <2>9. Blank(m.ram, bare) /\ m.base \notin bare /\ bare \in SUBSET Frame
    <3>1. m.base \in Used(at)
      BY <1>3, <2>8 DEF Used
    <3>2. QED
      BY <1>2, <2>3, <3>1 DEF Blank
  <2> HIDE DEF bare
  <2>10. Blank(mem2, bare) /\ Apart(mem2, at, p)
    <3> DEFINE x == <<p, l, c \div FANOUT>>
    <3>1. x \in Node /\ at[x] = m.base /\ x[1] = p
      BY <2>8
    <3>2. \A f \in Frame : f # at[x] => mem2[f] = m.ram[f]
      BY <2>6, <3>1, FrameType DEF Linked, Memory
    <3> HIDE DEF x, mem2
    <3>3. /\ \A frames \in SUBSET Frame : Blank(m.ram, frames) /\ at[x] \notin frames
               => Blank(mem2, frames)
          /\ Apart(m.ram, at, x[1]) => Apart(mem2, at, x[1])
      BY <1>2, <1>3, <3>1, <3>2, StoreElsewhere
    <3>4. QED
      BY <2>9, <3>1, <3>3
  <2>11. Apart(mem2, at2, p)
    <3>1. \A x \in Node : x[1] # p => at2[x] = at[x]
      BY <2>8 DEF Planted
    <3> HIDE DEF at2, mem2
    <3>2. QED
      BY <2>10, <3>1 DEF Apart
  <2> HIDE DEF at2, mem2, y
  <2>12. Sound(d, clean, held, rest, root, map, at2)
    BY <1>2, <2>2, <2>3, <2>4, <2>7, <2>10 DEF Sound, bare
  <2>13. QED
    BY <2>2, <2>7, <2>11, <2>12 DEF d, y
<1>7. QED
  BY <1>4, <1>5, <1>6

LEMMA SetFpnSound ==
  ASSUME NEW room, NEW clean \in SUBSET Frame, NEW held, room \cap held = {}, NEW m \in Walk(room), m.ok,
         NEW rest, NEW root, NEW map, NEW at, Sound(m, clean, held, rest, root, map, at),
         NEW p \in Proc, root[p] \in Frame, Apart(m.ram, at, p),
         NEW n \in Pgn, NEW fpn \in Frame,
         NEW map2, map2[p][n] = fpn, SameBut(map, map2, p, n),
         room \ Range(pte_set_fpn(m, root[p], n, fpn).free) \subseteq PlainFrame \cap clean
  PROVE  LET d == pte_set_fpn(m, root[p], n, fpn)
         IN  \E at2 : /\ Sound(d, clean, held, rest, root, IF d.ok THEN map2 ELSE map, at2)
                      /\ Apart(d.ram, at2, p)
<1> DEFINE down == Down(m, root[p], n)
           last == down[LEVELS]
           Fit == PlainFrame \cap clean
           Reached(d, l) == \E a : /\ Sound(d, clean, held, rest, root, map, a)
                                   /\ Apart(d.ram, a, p)
                                   /\ d.ok => d.base = a[<<p, l, Prefix(n, l)>>]
           Taken(d) == room \ Range(d.free)
           S == {l \in 1 .. LEVELS :
                   /\ down[l] \in Walk(room)
                   /\ Taken(down[l]) \subseteq Fit => Reached(down[l], l)}
<1> HIDE DEF Fit
<1>1. LEVELS \in Nat \ {0} /\ n \in Nat /\ root[p] \in 0 .. FPN_MASK
  BY Sizes, PrefixTop, FrameType
<1>2. /\ down[1] = [m EXCEPT !.base = root[p]]
      /\ \A l \in 2 .. LEVELS : down[l] = StepDown(down[l - 1], get_pd(n, l - 1))
  BY DownDef
<1> HIDE DEF down
<1>3. 1 \in S
  <2>1. down[1] \in Walk(room) /\ down[1].ram = m.ram /\ down[1].free = m.free
        /\ down[1].base = root[p]
    BY <1>1, <1>2 DEF Walk
  <2>2. Sound(down[1], clean, held, rest, root, map, at)
    BY <2>1, SoundSame
  <2>3. at[<<p, 1, Prefix(n, 1)>>] = root[p]
    BY PrefixTop DEF Sound, Forest
  <2>4. Reached(down[1], 1)
    BY <2>1, <2>2, <2>3
  <2> HIDE DEF Reached
  <2>5. QED
    BY <1>1, <2>1, <2>4
<1>4. ASSUME NEW l \in 1 .. (LEVELS - 1), l \in S PROVE l + 1 \in S
  <2> DEFINE c == Prefix(n, l + 1)
  <2>1. /\ l + 1 \in 2 .. LEVELS /\ l + 1 \in 1 .. LEVELS /\ l \in 1 .. LEVELS /\ l # LEVELS
        /\ (l + 1) - 1 = l
    BY <1>1
  <2>2. c \in Nat /\ Prefix(n, l) = c \div FANOUT /\ get_pd(n, l) = c % FANOUT
    BY <1>1, <2>1, PrefixType, PrefixDown
  <2> HIDE DEF c
  <2>3. c % FANOUT \in Index
    BY <2>2, Indices
  <2>4. down[l + 1] = StepDown(down[l], c % FANOUT)
    BY <1>2, <2>1, <2>2
  <2>5. down[l] \in Walk(room) /\ (Taken(down[l]) \subseteq Fit => Reached(down[l], l))
    BY <1>4
  <2>6. down[l + 1] \in Walk(room) /\ Range(down[l + 1].free) \subseteq Range(down[l].free)
    BY <2>3, <2>4, <2>5, StepDownType, Shrinks
  <2> SUFFICES ASSUME Taken(down[l + 1]) \subseteq Fit PROVE Reached(down[l + 1], l + 1)
    BY <2>1, <2>6
  <2>7. PICK a : /\ Sound(down[l], clean, held, rest, root, map, a)
                 /\ Apart(down[l].ram, a, p)
                 /\ down[l].ok => down[l].base = a[<<p, l, Prefix(n, l)>>]
    BY <2>5, <2>6
  <2>8. CASE down[l].ok
    <3>1. down[l].base = a[<<p, l, c \div FANOUT>>]
      BY <2>2, <2>7, <2>8
    <3> DEFINE v == down[l]
    <3>2. /\ v \in Walk(room) /\ v.ok /\ v.base = a[<<p, l, c \div FANOUT>>]
          /\ Sound(v, clean, held, rest, root, map, a) /\ Apart(v.ram, a, p)
          /\ room \ Range(StepDown(v, c % FANOUT).free) \subseteq PlainFrame \cap clean
      BY <2>4, <2>5, <2>7, <2>8, <3>1 DEF Fit
    <3> HIDE DEF v, Taken, Reached
    <3>3. LET d == StepDown(v, c % FANOUT)
          IN  \E b : /\ Sound(d, clean, held, rest, root, map, b)
                     /\ Apart(d.ram, b, p)
                     /\ d.ok => d.base = b[<<p, l + 1, c>>]
      BY <2>1, <2>2, <3>2, StepDownSound
    <3>4. QED
      BY <2>4, <3>3 DEF c, v, Reached
  <2>9. CASE ~ down[l].ok
    <3>1. down[l + 1] = down[l]
      BY <2>4, <2>9 DEF StepDown
    <3>2. QED
      BY <2>7, <2>9, <3>1
  <2>10. QED
    BY <2>8, <2>9
<1>5. 1 .. LEVELS \subseteq S
  <2> HIDE DEF S
  <2>1. QED
    BY <1>1, <1>3, <1>4, Climb
<1>6. last \in Walk(room) /\ (Taken(last) \subseteq Fit => Reached(last, LEVELS))
  BY <1>1, <1>5
<1> DEFINE i == get_pd(n, LEVELS)
<1>7. pte_set_fpn(m, root[p], n, fpn) =
         IF last.ok THEN [last EXCEPT !.ram[last.base][i] = Entry(fpn)] ELSE last
  BY SetFpnDef DEF down
<1> HIDE DEF last, i, S
<1>8. Reached(last, LEVELS)
  <2>1. pte_set_fpn(m, root[p], n, fpn).free = last.free
    BY <1>6, <1>7 DEF Walk
  <2>2. Taken(last) \subseteq Fit
    BY <2>1 DEF Fit
  <2> HIDE DEF Taken, Reached
  <2>3. QED
    BY <1>6, <2>2
<1>9. PICK a : /\ Sound(last, clean, held, rest, root, map, a)
               /\ Apart(last.ram, a, p)
               /\ last.ok => last.base = a[<<p, LEVELS, Prefix(n, LEVELS)>>]
  BY <1>8
<1> HIDE DEF Reached, Taken
<1>10. CASE last.ok
  <2> DEFINE d == pte_set_fpn(m, root[p], n, fpn)
             mem2 == [last.ram EXCEPT ![last.base][i] = Entry(fpn)]
  <2>1. d = [last EXCEPT !.ram[last.base][i] = Entry(fpn)]
    BY <1>7, <1>10
  <2>2. d.ram = mem2 /\ d.free = last.free /\ d.ok
    BY <1>6, <1>10, <2>1 DEF Walk
  <2>3. i = n % FANOUT /\ last.base = a[<<p, LEVELS, n \div FANOUT>>]
    BY <1>1, <1>9, <1>10, PrefixLast DEF i
  <2>4. last.ram \in Memory /\ last.base # NoFrame
    BY <1>6, FrameType DEF Walk, NoFrame
  <2>5. Entry(fpn) \in Bits /\ Mapping(map2[p][n]) = Entry(fpn)
    BY FrameType, EntryType DEF Mapping
  <2> HIDE DEF d
  <2> DEFINE bare == (Range(last.free) \cup held) \cap clean
             x == <<p, LEVELS, n \div FANOUT>>
  <2>6. /\ Forest(last.ram, root, a) /\ Leaves(last.ram, map, a) /\ Blank(last.ram, bare)
        /\ (Range(last.free) \cup held) \cap Used(a) = {}
        /\ Frame \subseteq Range(last.free) \cup held \cup Used(a) \cup rest
    BY <1>9 DEF Sound
  <2>7. Forest(mem2, root, a) /\ Leaves(mem2, map2, a)
    BY <2>3, <2>4, <2>5, <2>6, SetLeaf
  <2>8. x \in Node /\ x[1] = p /\ a[x] = last.base
    <3>1. n \div FANOUT \in Nat /\ LEVELS \in 1 .. LEVELS
      BY <1>1, Indices
    <3>2. QED
      BY <2>3, <3>1, NodeType
  <2> HIDE DEF x
  <2>9. last.base \notin bare /\ bare \in SUBSET Frame
    BY <2>4, <2>6, <2>8 DEF Used
  <2> HIDE DEF bare
  <2>10. Blank(mem2, bare) /\ Apart(mem2, a, p)
    <3>1. \A f \in Frame : f # a[x] => mem2[f] = last.ram[f]
      BY <2>4, <2>8, FrameType DEF Memory
    <3> HIDE DEF mem2
    <3>2. /\ \A frames \in SUBSET Frame : Blank(last.ram, frames) /\ a[x] \notin frames
               => Blank(mem2, frames)
          /\ Apart(last.ram, a, x[1]) => Apart(mem2, a, x[1])
      BY <2>4, <2>6, <2>8, <3>1, StoreElsewhere
    <3>3. QED
      BY <1>9, <2>6, <2>8, <2>9, <3>2
  <2> HIDE DEF mem2
  <2>11. Sound(d, clean, held, rest, root, map2, a)
    BY <2>2, <2>6, <2>7, <2>10 DEF Sound, bare
  <2>12. QED
    BY <2>2, <2>10, <2>11 DEF d
<1>11. CASE ~ last.ok
  BY <1>7, <1>9, <1>11
<1>12. QED
  BY <1>10, <1>11

\* After a failure nothing is written.
LEMMA SetFpnStuck ==
  ASSUME NEW room, NEW m \in Walk(room), ~ m.ok, NEW root, NEW n, NEW fpn
  PROVE  LET d == pte_set_fpn(m, root, n, fpn)
         IN  d.ram = m.ram /\ d.free = m.free /\ ~ d.ok /\ d.done = m.done
<1> DEFINE down == Down(m, root, n)
           S == {l \in 1 .. LEVELS : down[l] = [m EXCEPT !.base = root]}
<1>1. LEVELS \in Nat \ {0}
  BY Sizes
<1>2. /\ down[1] = [m EXCEPT !.base = root]
      /\ \A l \in 2 .. LEVELS : down[l] = StepDown(down[l - 1], get_pd(n, l - 1))
  BY DownDef
<1>3. pte_set_fpn(m, root, n, fpn) =
         IF down[LEVELS].ok
         THEN [down[LEVELS] EXCEPT !.ram[down[LEVELS].base][get_pd(n, LEVELS)] = Entry(fpn)]
         ELSE down[LEVELS]
  BY SetFpnDef
<1> HIDE DEF down
<1> DEFINE d == [m EXCEPT !.base = root]
<1>4. ~ d.ok /\ d.ram = m.ram /\ d.free = m.free /\ d.done = m.done
  BY DEF Walk
<1> HIDE DEF d
<1>5. 1 \in S
  BY <1>1, <1>2
<1>6. ASSUME NEW l \in 1 .. (LEVELS - 1), l \in S PROVE l + 1 \in S
  <2>1. l + 1 \in 2 .. LEVELS /\ l + 1 \in 1 .. LEVELS /\ (l + 1) - 1 = l
    BY <1>1
  <2>2. down[l] = d
    BY <1>6 DEF d
  <2>3. down[l + 1] = StepDown(d, get_pd(n, l))
    BY <1>2, <2>1, <2>2
  <2>4. down[l + 1] = d
    BY <1>4, <2>3 DEF StepDown
  <2>5. QED
    BY <2>1, <2>4 DEF d
<1>7. 1 .. LEVELS \subseteq S
  <2> HIDE DEF S
  <2>1. QED
    BY <1>1, <1>5, <1>6, Climb
<1>8. down[LEVELS] = d
  BY <1>1, <1>7 DEF d
<1>9. QED
  BY <1>3, <1>4, <1>8

\* The history after the first done pages of a call.
Mapped(map, p, n, fpns, done) ==
    [map EXCEPT ![p] =
        [k \in Pgn |-> IF k \in n .. (n + done - 1) THEN fpns[k - n + 1] ELSE @[k]]]

\* Setting an entry keeps a walk a walk, and only takes frames.
LEMMA SetFpnWalks ==
  ASSUME NEW room
  PROVE  \A u \in Walk(room), r \in 0 .. FPN_MASK, i, f \in Nat :
            /\ pte_set_fpn(u, r, i, f) \in Walk(room)
            /\ pte_set_fpn(u, r, i, f).done = u.done
            /\ Range(pte_set_fpn(u, r, i, f).free) \subseteq Range(u.free)
<1>1. \A u \in Walk(room), r \in 0 .. FPN_MASK, i, f \in Nat :
         /\ pte_set_fpn(u, r, i, f) \in Walk(room)
         /\ pte_set_fpn(u, r, i, f).done = u.done
  BY SetFpnType
<1>2. \A u \in Walk(room) : \A r \in 0 .. FPN_MASK, i, f \in Nat :
         Range(pte_set_fpn(u, r, i, f).free) \subseteq Range(u.free)
  BY Shrinks
<1>3. QED
  BY <1>1, <1>2

\* After each round of the loop: m is sound with the pages mapped so far, if the
\* frames taken are such that they may be.
LoopFits(room, clean, held, rest, root, map, p, free, n, fpns) ==
    \A k \in 0 .. Len(fpns) :
        LET m == Loop(free, root[p], n, fpns)[k]
        IN  /\ room \ Range(m.free) \subseteq PlainFrame \cap clean =>
                  \E a : /\ Sound(m, clean, held, rest, root, Mapped(map, p, n, fpns, m.done), a)
                         /\ Apart(m.ram, a, p)
            /\ m.ok => m.done = k
            /\ ~ m.ok => m.done < k

LEMMA LoopSound ==
  ASSUME NEW room, NEW clean \in SUBSET Frame, NEW held, room \cap held = {}, ram \in Memory,
         NEW free \in Seq(Frame), IsInjective(free), Range(free) \subseteq room,
         NEW root, NEW map, map \in [Proc -> [Pgn -> Frame \cup {NoFrame}]],
         NEW p \in Proc, root[p] \in Frame,
         NEW rest, NEW at, Sound(Before(free, root[p]), clean, held, rest, root, map, at),
         NEW n \in Pgn, NEW fpns \in Seq(Frame), n + Len(fpns) - 1 \in Pgn
  PROVE  LoopFits(room, clean, held, rest, root, map, p, free, n, fpns)
<1> DEFINE after == Loop(free, root[p], n, fpns)
           Fit == PlainFrame \cap clean
           Kept(m) == \E a : /\ Sound(m, clean, held, rest, root, Mapped(map, p, n, fpns, m.done), a)
                             /\ Apart(m.ram, a, p)
           Taken(m) == room \ Range(m.free)
           S == {k \in 0 .. Len(fpns) : /\ Taken(after[k]) \subseteq Fit => Kept(after[k])
                                        /\ after[k].ok => after[k].done = k
                                        /\ ~ after[k].ok => after[k].done < k}
<1> HIDE DEF Fit
<1>1. Len(fpns) \in Nat /\ n \in Nat /\ root[p] \in 0 .. FPN_MASK
  BY PrefixTop, FrameType
<1>2. /\ after[0] = Before(free, root[p])
      /\ \A k \in 1 .. Len(fpns) : after[k] = MapOne(after[k - 1], k, root[p], n, fpns)
  BY <1>1, LoopDef
<1>3. \A k \in 0 .. Len(fpns) : after[k] \in Walk(room) /\ after[k].done <= k
  BY <1>1, LoopType
<1> HIDE DEF after
<1>4. 0 \in S
  <2>1. Mapped(map, p, n, fpns, 0) = map
    <3>1. n .. (n + 0 - 1) = {}
      BY <1>1
    <3>2. [k \in Pgn |-> IF k \in n .. (n + 0 - 1) THEN fpns[k - n + 1] ELSE map[p][k]] = map[p]
      BY <3>1
    <3>3. QED
      BY <3>2 DEF Mapped
  <2>2. after[0].done = 0 /\ after[0].ok
    BY <1>2 DEF Before
  <2>3. Sound(after[0], clean, held, rest, root, Mapped(map, p, n, fpns, after[0].done), at)
    BY <1>2, <2>1, <2>2
  <2>4. Kept(after[0])
    <3>1. Apart(after[0].ram, at, p)
      BY <1>2 DEF Before, Apart
    <3>2. QED
      BY <2>3, <3>1
  <2> HIDE DEF Kept, Taken
  <2>5. QED
    BY <1>1, <2>2, <2>4
<1>5. ASSUME NEW k \in 0 .. (Len(fpns) - 1), k \in S PROVE k + 1 \in S
  <2> DEFINE j == k + 1
             v == after[k]
             m == pte_set_fpn(v, root[p], n + j - 1, fpns[j])
             map1 == Mapped(map, p, n, fpns, k)
             map2 == Mapped(map, p, n, fpns, j)
  <2>1. /\ j \in 1 .. Len(fpns) /\ j \in 0 .. Len(fpns) /\ j - 1 = k /\ k \in 0 .. Len(fpns)
        /\ k \in Nat /\ j \in Nat /\ n + j - 1 = n + k
    BY <1>1
  <2>2. /\ Taken(v) \subseteq Fit => Kept(v)
        /\ v.ok => v.done = k
        /\ ~ v.ok => v.done < k
    BY <1>5
  <2>3. v \in Walk(room) /\ v.done \in Nat
    BY <1>3, <2>1 DEF Walk
  <2>4. after[j] = IF v.ok /\ m.ok THEN [m EXCEPT !.done = j] ELSE m
    BY <1>2, <2>1 DEF MapOne
  <2>5. fpns[j] \in Frame /\ fpns[j] \in Nat
    BY <2>1, FrameType
  <2>6. m \in Walk(room) /\ m.done = v.done /\ Range(m.free) \subseteq Range(v.free)
    <3>1. \A u \in Walk(room), r \in 0 .. FPN_MASK, i, f \in Nat :
             /\ pte_set_fpn(u, r, i, f) \in Walk(room)
             /\ pte_set_fpn(u, r, i, f).done = u.done
             /\ Range(pte_set_fpn(u, r, i, f).free) \subseteq Range(u.free)
      BY SetFpnWalks
    <3> DEFINE i == n + j - 1
               f == fpns[j]
               r == root[p]
    <3>2. i \in Nat /\ f \in Nat /\ r \in 0 .. FPN_MASK
      BY <1>1, <2>1, <2>5
    <3> HIDE DEF i, f, r, v
    <3>3. /\ pte_set_fpn(v, r, i, f) \in Walk(room) /\ pte_set_fpn(v, r, i, f).done = v.done
          /\ Range(pte_set_fpn(v, r, i, f).free) \subseteq Range(v.free)
      BY <2>3, <3>1, <3>2
    <3>4. QED
      BY <3>3 DEF i, f, r
  <2>7. n + k \in Pgn
    <3>1. LEVELS \in 0 .. LEVELS
      BY Sizes
    <3>2. Reach[LEVELS] \in Nat
      BY <3>1, ReachType
    <3>3. QED
      BY <1>1, <2>1, <3>2 DEF Pgn
  <2>8. map2[p][n + k] = fpns[j] /\ SameBut(map1, map2, p, n + k)
    <3>1. /\ map1[p] = [i \in Pgn |-> IF i \in n .. (n + k - 1) THEN fpns[i - n + 1] ELSE map[p][i]]
          /\ map2[p] = [i \in Pgn |-> IF i \in n .. (n + j - 1) THEN fpns[i - n + 1] ELSE map[p][i]]
          /\ \A q \in Proc : q # p => map1[q] = map[q] /\ map2[q] = map[q]
      BY DEF Mapped
    <3> HIDE DEF map1, map2, j
    <3>2. map2[p][n + k] = fpns[j]
      <4>1. n + k \in n .. (n + j - 1) /\ (n + k) - n + 1 = j
        BY <1>1, <2>1
      <4>2. QED
        BY <2>7, <3>1, <4>1
    <3>3. ASSUME NEW i \in Pgn, i # n + k PROVE map2[p][i] = map1[p][i]
      <4>1. i \in Nat
        BY PrefixTop
      <4>2. i \in n .. (n + j - 1) <=> i \in n .. (n + k - 1)
        BY <1>1, <2>1, <3>3, <4>1
      <4>3. QED
        BY <3>1, <4>2
    <3>4. QED
      BY <3>1, <3>2, <3>3 DEF SameBut
  <2> HIDE DEF map1, map2, m, v, Kept
  <2>9. CASE v.ok
    <3>1. ASSUME Taken(m) \subseteq Fit
          PROVE  \E b : /\ Sound(m, clean, held, rest, root, IF m.ok THEN map2 ELSE map1, b)
                        /\ Apart(m.ram, b, p)
      <4>1. v.done = k /\ \E a : /\ Sound(v, clean, held, rest, root, Mapped(map, p, n, fpns, v.done), a)
                                  /\ Apart(v.ram, a, p)
        BY <2>2, <2>6, <2>9, <3>1 DEF Kept
      <4>2. PICK a : Sound(v, clean, held, rest, root, map1, a) /\ Apart(v.ram, a, p)
        BY <4>1 DEF map1
      <4>3. room \ Range(pte_set_fpn(v, root[p], n + k, fpns[j]).free) \subseteq PlainFrame \cap clean
        BY <2>1, <3>1 DEF m, Fit
      <4>4. \E b : LET d == pte_set_fpn(v, root[p], n + k, fpns[j])
                   IN  /\ Sound(d, clean, held, rest, root, IF d.ok THEN map2 ELSE map1, b)
                       /\ Apart(d.ram, b, p)
        BY <2>3, <2>5, <2>7, <2>8, <2>9, <4>2, <4>3, SetFpnSound
      <4>5. QED
        BY <2>1, <4>4 DEF m
    <3>2. CASE m.ok
      <4>1. after[j] = [m EXCEPT !.done = j]
        BY <2>4, <2>9, <3>2
      <4>2. after[j].ram = m.ram /\ after[j].free = m.free /\ after[j].done = j /\ after[j].ok
        BY <2>6, <3>2, <4>1 DEF Walk
      <4>3. ASSUME Taken(after[j]) \subseteq Fit PROVE Kept(after[j])
        <5>1. PICK b : Sound(m, clean, held, rest, root, map2, b) /\ Apart(m.ram, b, p)
          BY <3>1, <3>2, <4>2, <4>3
        <5>2. Sound(after[j], clean, held, rest, root, map2, b)
          BY <4>2, <5>1, SoundSame
        <5>3. QED
          BY <4>2, <5>1, <5>2 DEF Kept, map2
      <4>4. QED
        BY <2>1, <4>2, <4>3
    <3>3. CASE ~ m.ok
      <4>1. after[j] = m /\ m.done = k
        BY <2>2, <2>4, <2>6, <2>9, <3>3
      <4>2. ASSUME Taken(after[j]) \subseteq Fit PROVE Kept(after[j])
        <5>1. PICK b : Sound(m, clean, held, rest, root, map1, b) /\ Apart(m.ram, b, p)
          BY <3>1, <3>3, <4>1, <4>2
        <5>2. QED
          BY <4>1, <5>1 DEF Kept, map1
      <4>3. k < j
        BY <2>1
      <4>4. QED
        BY <2>1, <3>3, <4>1, <4>2, <4>3
    <3>4. QED
      BY <3>2, <3>3
  <2>10. CASE ~ v.ok
    <3>1. m.ram = v.ram /\ m.free = v.free /\ ~ m.ok /\ m.done = v.done
      BY <2>3, <2>10, SetFpnStuck DEF m
    <3>2. after[j] = m
      BY <2>4, <2>10
    <3>3. ASSUME Taken(after[j]) \subseteq Fit PROVE Kept(after[j])
      <4>1. PICK a : /\ Sound(v, clean, held, rest, root, Mapped(map, p, n, fpns, v.done), a)
                     /\ Apart(v.ram, a, p)
        BY <2>2, <3>1, <3>2, <3>3 DEF Kept
      <4>2. Sound(after[j], clean, held, rest, root, Mapped(map, p, n, fpns, after[j].done), a)
        BY <3>1, <3>2, <4>1, SoundSame
      <4>3. QED
        BY <3>1, <3>2, <4>1, <4>2 DEF Kept
    <3>4. after[j].done < j
      BY <2>1, <2>2, <2>3, <2>10, <3>1, <3>2
    <3>5. QED
      BY <2>1, <3>1, <3>2, <3>3, <3>4
  <2>11. QED
    BY <2>9, <2>10
<1>6. 0 .. Len(fpns) \subseteq S
  <2> HIDE DEF S
  <2>1. QED
    BY <1>1, <1>4, <1>5, Climb
<1>7. QED
  BY <1>6 DEF LoopFits, after, Fit

-----------------------------------------------------------------------------
(* The forest and the tables the walk finds *)

\* The walk of get_pte_address finds the tables of the forest.
LEMMA WalkTo ==
  ASSUME NEW mem, NEW root, NEW at, Forest(mem, root, at), NEW p \in Proc, NEW n \in Pgn
  PROVE  \A l \in 1 .. LEVELS : Tables(mem, root[p], n)[l] = at[<<p, l, Prefix(n, l)>>]
<1> DEFINE T == Tables(mem, root[p], n)
           S == {l \in 1 .. LEVELS : T[l] = at[<<p, l, Prefix(n, l)>>]}
<1>1. LEVELS \in Nat \ {0} /\ n \in Nat
  BY Sizes, PrefixTop
<1>2. T[1] = root[p] /\ \A l \in 2 .. LEVELS : T[l] = Child(mem, T[l - 1], get_pd(n, l - 1))
  BY TablesDef
<1> HIDE DEF T
<1>3. 1 \in S
  BY <1>1, <1>2, PrefixTop DEF Forest
<1>4. ASSUME NEW l \in 1 .. (LEVELS - 1), l \in S PROVE l + 1 \in S
  <2> DEFINE c == Prefix(n, l + 1)
  <2>1. /\ l + 1 \in 2 .. LEVELS /\ l + 1 \in 1 .. LEVELS /\ l \in 1 .. LEVELS /\ l # LEVELS
        /\ (l + 1) - 1 = l
    BY <1>1
  <2>2. c \in Nat /\ Prefix(n, l) = c \div FANOUT /\ get_pd(n, l) = c % FANOUT
    BY <1>1, <2>1, PrefixType, PrefixDown
  <2>3. T[l + 1] = Child(mem, at[<<p, l, c \div FANOUT>>], c % FANOUT)
    BY <1>2, <1>4, <2>1, <2>2
  <2> HIDE DEF c
  <2>4. at[<<p, l + 1, c>>] = Child(mem, at[<<p, l, c \div FANOUT>>], c % FANOUT)
    BY <2>1, <2>2 DEF Forest
  <2>5. T[l + 1] = at[<<p, l + 1, c>>]
    BY <2>3, <2>4
  <2>6. QED
    BY <2>1, <2>5 DEF c
<1> HIDE DEF S
<1>5. 1 .. LEVELS \subseteq S
  BY <1>1, <1>3, <1>4, Climb
<1>6. QED
  BY <1>5 DEF S, T

\* Every table of the forest is on the way to some page.
LEMMA NodeUsed ==
  ASSUME NEW mem, NEW root, NEW at, Forest(mem, root, at),
         NEW p \in Proc, NEW l \in 1 .. LEVELS, NEW q \in Nat, at[<<p, l, q>>] # NoFrame
  PROVE  root[p] # NoFrame /\ \E n \in Pgn : Prefix(n, l) = q
<1> DEFINE all == Reach[LEVELS]
           S == {k \in 1 .. LEVELS :
                   \A c \in Nat : at[<<p, k, c>>] # NoFrame =>
                      root[p] # NoFrame /\ (c + 1) * Reach[LEVELS - k + 1] <= all}
<1>1. LEVELS \in Nat \ {0} /\ FANOUT \in Nat \ {0}
  BY Sizes
<1>2. all \in Nat \ {0}
  BY <1>1, ReachType
<1>3. 1 \in S
  <2>1. LEVELS - 1 + 1 = LEVELS
    BY <1>1
  <2>2. ASSUME NEW c \in Nat, at[<<p, 1, c>>] # NoFrame
        PROVE  root[p] # NoFrame /\ (c + 1) * all <= all
    <3>1. c = 0 /\ root[p] # NoFrame
      BY <2>2 DEF Forest
    <3>2. (0 + 1) * all = all
      BY <1>2
    <3>3. QED
      BY <1>2, <3>1, <3>2
  <2>3. QED
    BY <1>1, <2>1, <2>2
<1> HIDE DEF all
<1>4. ASSUME NEW k \in 1 .. (LEVELS - 1), k \in S PROVE k + 1 \in S
  <2> DEFINE r == Reach[LEVELS - k]
  <2>1. /\ k + 1 \in 2 .. LEVELS /\ k + 1 \in 1 .. LEVELS /\ k \in 1 .. LEVELS /\ (k + 1) - 1 = k
        /\ LEVELS - (k + 1) + 1 = LEVELS - k /\ LEVELS - k \in 0 .. LEVELS
        /\ LEVELS - k + 1 \in 1 .. LEVELS /\ (LEVELS - k + 1) - 1 = LEVELS - k
    BY <1>1
  <2>2. r \in Nat \ {0} /\ Reach[LEVELS - k + 1] = FANOUT * r
    BY <2>1, ReachType, ReachDef
  <2> HIDE DEF r
  <2>3. ASSUME NEW c \in Nat, at[<<p, k + 1, c>>] # NoFrame
        PROVE  root[p] # NoFrame /\ (c + 1) * r <= all
    <3> DEFINE d == c \div FANOUT
    <3>1. d \in Nat /\ c % FANOUT \in Index /\ c = FANOUT * d + (c % FANOUT)
      BY Indices
    <3>2. at[<<p, k + 1, c>>] = Child(mem, at[<<p, k, d>>], c % FANOUT)
      BY <2>1 DEF Forest
    <3> HIDE DEF d
    <3>3. at[<<p, k, d>>] # NoFrame
      BY <2>3, <3>2, ChildOf
    <3>4. root[p] # NoFrame /\ (d + 1) * (FANOUT * r) <= all
      BY <1>4, <2>2, <3>1, <3>3
    <3>5. c + 1 <= FANOUT * d + FANOUT
      BY <1>1, <3>1 DEF Index
    <3>6. FANOUT * d + FANOUT \in Nat /\ (c + 1) * r <= (FANOUT * d + FANOUT) * r
      BY <1>1, <2>2, <3>1, <3>5
    <3>7. (FANOUT * d + FANOUT) * r = (d + 1) * (FANOUT * r)
      BY <1>1, <2>2, <3>1
    <3>8. (c + 1) * r \in Nat /\ (FANOUT * d + FANOUT) * r \in Nat
      BY <2>2, <3>6
    <3>9. QED
      BY <1>2, <3>4, <3>6, <3>7, <3>8
  <2>4. QED
    BY <2>1, <2>3 DEF r
<1>5. 1 .. LEVELS \subseteq S
  <2> HIDE DEF S
  <2>1. QED
    BY <1>1, <1>3, <1>4, Climb
<1> DEFINE r == Reach[LEVELS - l + 1]
<1>6. root[p] # NoFrame /\ (q + 1) * r <= all
  BY <1>5
<1>7. r \in Nat \ {0}
  BY <1>1, ReachType
<1> HIDE DEF r
<1>8. r * q \in Nat /\ r * q + 0 = r * q /\ r * q <= all - 1
  <2>1. (q + 1) * r = r * q + r
    BY <1>7
  <2>2. r * q \in Nat
    BY <1>7
  <2>3. QED
    BY <1>2, <1>6, <1>7, <2>1, <2>2
<1>9. r * q \in Pgn
  BY <1>2, <1>8 DEF Pgn, all
<1>10. q = (r * q) \div r
  BY <1>7, <1>8, DivisionUnique
<1>11. QED
  BY <1>6, <1>9, <1>10 DEF Prefix, r

\* TableNodes is the forest of the processes.
LEMMA NodesAre ==
  ASSUME NEW at, Forest(ram, pgd, at)
  PROVE  /\ \A nd \in TableNodes :
               /\ nd.p \in Proc /\ nd.l \in 1 .. LEVELS /\ nd.prefix \in Nat
               /\ nd = [p |-> nd.p, l |-> nd.l, prefix |-> nd.prefix, frame |-> nd.frame]
               /\ nd.frame = at[<<nd.p, nd.l, nd.prefix>>]
               /\ nd.frame \in Used(at)
         /\ Used(at) = {nd.frame : nd \in TableNodes}
<1> DEFINE Nd(p, n, l) == [p |-> p, l |-> l, prefix |-> n \div Reach[LEVELS - l + 1],
                           frame |-> Tables(ram, pgd[p], n)[l]]
<1>1. ASSUME NEW nd \in TableNodes
      PROVE  \E p \in Proc, n \in Pgn, l \in 1 .. LEVELS : nd = Nd(p, n, l) /\ nd.frame # NoFrame
  BY DEF TableNodes
<1>2. ASSUME NEW p \in Proc, NEW n \in Pgn, NEW l \in 1 .. LEVELS
      PROVE  /\ Prefix(n, l) \in Nat
             /\ Nd(p, n, l) = [p |-> p, l |-> l, prefix |-> Prefix(n, l),
                               frame |-> at[<<p, l, Prefix(n, l)>>]]
  <2>1. n \in Nat
    BY PrefixTop
  <2>2. Prefix(n, l) \in Nat
    BY <2>1, PrefixType
  <2>3. Tables(ram, pgd[p], n)[l] = at[<<p, l, Prefix(n, l)>>]
    BY WalkTo
  <2>4. QED
    BY <2>2, <2>3 DEF Prefix
<1>3. ASSUME NEW p \in Proc, NEW n \in Pgn, NEW l \in 1 .. LEVELS,
             pgd[p] # NoFrame, Nd(p, n, l).frame # NoFrame
      PROVE  Nd(p, n, l) \in TableNodes
  BY <1>3 DEF TableNodes
<1> HIDE DEF Nd
<1>4. ASSUME NEW nd \in TableNodes
      PROVE  /\ nd.p \in Proc /\ nd.l \in 1 .. LEVELS /\ nd.prefix \in Nat
             /\ nd = [p |-> nd.p, l |-> nd.l, prefix |-> nd.prefix, frame |-> nd.frame]
             /\ nd.frame = at[<<nd.p, nd.l, nd.prefix>>]
             /\ nd.frame \in Used(at)
  <2>1. PICK p \in Proc, n \in Pgn, l \in 1 .. LEVELS :
           nd = Nd(p, n, l) /\ nd.frame # NoFrame
    BY <1>1
  <2>2. /\ Prefix(n, l) \in Nat /\ nd.frame # NoFrame
        /\ nd = [p |-> p, l |-> l, prefix |-> Prefix(n, l), frame |-> at[<<p, l, Prefix(n, l)>>]]
    BY <1>2, <2>1
  <2>3. <<p, l, Prefix(n, l)>> \in Node
    BY <2>2, NodeType
  <2>4. nd.frame = at[<<p, l, Prefix(n, l)>>] /\ nd.frame \in Used(at)
    BY <2>2, <2>3 DEF Used
  <2>5. QED
    BY <2>2, <2>4
<1>5. ASSUME NEW f \in Used(at) PROVE \E nd \in TableNodes : f = nd.frame
  <2>1. PICK x \in Node : f = at[x] /\ at[x] # NoFrame
    BY DEF Used
  <2>2. PICK p \in Proc, l \in 1 .. LEVELS, q \in Nat : x = <<p, l, q>>
    BY NodeType
  <2>3. PICK n \in Pgn : Prefix(n, l) = q
    BY <2>1, <2>2, NodeUsed
  <2>4. pgd[p] # NoFrame
    BY <2>1, <2>2, NodeUsed
  <2>5. Nd(p, n, l).frame = f
    BY <1>2, <2>1, <2>2, <2>3
  <2>6. Nd(p, n, l) \in TableNodes
    BY <1>3, <2>1, <2>4, <2>5
  <2>7. QED
    BY <2>5, <2>6
<1>6. QED
  BY <1>4, <1>5

-----------------------------------------------------------------------------
(* The invariant, and what follows from it *)

Now == [ram |-> ram, free |-> free_fp_list]

Clean == Stored \ written

\* The forest is there as long as the program is sane.
Inv ==
    /\ TypeOK
    /\ mapped \in [Proc -> [Pgn -> Frame \cup {NoFrame}]]
    /\ \A p \in Proc \ loaded : pgd[p] = NoFrame
    /\ Sane => \E at : Sound(Now, Clean, {}, Known, pgd, mapped, at)

LEMMA InvForest ==
  ASSUME Inv, Sane
  PROVE  \E at : /\ Forest(ram, pgd, at) /\ Leaves(ram, mapped, at)
                 /\ Blank(ram, Range(free_fp_list) \cap Clean)
                 /\ Range(free_fp_list) \cap Used(at) = {}
                 /\ Frame \subseteq Range(free_fp_list) \cup Used(at) \cup Known
BY DEF Inv, Sound, Now

LEMMA InvTablesPrivate ==
  ASSUME Inv, Sane
  PROVE  TablesPrivate
<1>1. PICK at : /\ Forest(ram, pgd, at) /\ Range(free_fp_list) \cap Used(at) = {}
  BY InvForest
<1>2. \A x, y \in Node : at[x] = at[y] /\ at[x] # NoFrame => x = y
  BY <1>1 DEF Forest
<1>3. ASSUME NEW a \in TableNodes, NEW b \in TableNodes, a.frame = b.frame PROVE a = b
  <2>1. /\ <<a.p, a.l, a.prefix>> \in Node /\ <<b.p, b.l, b.prefix>> \in Node
        /\ a.frame = at[<<a.p, a.l, a.prefix>>] /\ b.frame = at[<<b.p, b.l, b.prefix>>]
        /\ a.frame # NoFrame
    BY <1>1, NodesAre, NodeType DEF Used
  <2>2. a.p = b.p /\ a.l = b.l /\ a.prefix = b.prefix
    BY <1>2, <1>3, <2>1
  <2>3. QED
    BY <1>1, <1>3, <2>2, NodesAre
<1>4. \A a \in TableNodes : a.frame \notin Range(free_fp_list)
  BY <1>1, NodesAre
<1>5. QED
  BY <1>3, <1>4 DEF TablesPrivate

LEMMA InvPagesAsMapped ==
  ASSUME Inv, Sane
  PROVE  \A p \in Proc, n \in Pgn : pte_get_entry(p, n) = Mapping(mapped[p][n])
<1> SUFFICES ASSUME NEW p \in Proc, NEW n \in Pgn
             PROVE  pte_get_entry(p, n) = Mapping(mapped[p][n])
  OBVIOUS
<1>1. PICK at : Forest(ram, pgd, at) /\ Leaves(ram, mapped, at)
  BY InvForest
<1> DEFINE base == at[<<p, LEVELS, n \div FANOUT>>]
<1>2. /\ LEVELS \in 1 .. LEVELS /\ Prefix(n, LEVELS) = n \div FANOUT
      /\ get_pd(n, LEVELS) = n % FANOUT
  BY Sizes, PrefixTop, PrefixLast
<1>3. Tables(ram, pgd[p], n)[LEVELS] = base
  BY <1>1, <1>2, WalkTo
<1>4. IF base = NoFrame THEN mapped[p][n] = NoFrame
                        ELSE ram[base][n % FANOUT] = Mapping(mapped[p][n])
  BY <1>1 DEF Leaves
<1> HIDE DEF base
<1>5. mapped[p][n] \in Frame \cup {NoFrame}
  BY DEF Inv
<1>6. get_32bit_entry(Mapping(mapped[p][n])) = Mapping(mapped[p][n])
  <2>1. mapped[p][n] \in Frame => mapped[p][n] \in PlainFrame
    BY DEF Sane, Known
  <2>2. QED
    BY <1>5, <2>1, ReadPlain DEF Mapping
<1>7. QED
  BY <1>2, <1>3, <1>4, <1>6 DEF pte_get_entry, Mapping

LEMMA InvFramesAccounted ==
  ASSUME Inv, Sane
  PROVE  FramesAccounted
<1>1. PICK at : /\ Forest(ram, pgd, at)
                /\ Frame \subseteq Range(free_fp_list) \cup Used(at) \cup Known
  BY InvForest
<1>2. Used(at) = {nd.frame : nd \in TableNodes}
  BY <1>1, NodesAre
<1> DEFINE all == UNION {{mapped[p][n] : n \in Pgn} : p \in Proc}
<1>3. \A p \in Proc, n \in Pgn : mapped[p][n] \in all
  OBVIOUS
<1> HIDE DEF all
<1>4. Known \subseteq all \cup lost
  BY <1>3 DEF Known
<1>5. QED
  BY <1>1, <1>2, <1>4 DEF FramesAccounted, all

\* Every entry of a table is absent or refers to a frame.
LEMMA InvEntryReadBack ==
  ASSUME Inv, Sane
  PROVE  EntryReadBack
<1>1. PICK at : /\ Forest(ram, pgd, at) /\ Leaves(ram, mapped, at)
                /\ Range(free_fp_list) \cap Used(at) = {}
  BY InvForest
<1> SUFFICES ASSUME NEW nd \in TableNodes, NEW i \in Index
             PROVE  get_32bit_entry(ram[nd.frame][i]) = ram[nd.frame][i]
  BY DEF EntryReadBack
<1> DEFINE f == nd.frame
           e == ram[f][i]
           c == FANOUT * nd.prefix + i
<1>2. /\ nd.p \in Proc /\ nd.l \in 1 .. LEVELS /\ nd.prefix \in Nat
      /\ f = at[<<nd.p, nd.l, nd.prefix>>] /\ f \in Used(at)
  BY <1>1, NodesAre
<1>3. f \in Frame /\ f # NoFrame /\ f \in 0 .. FPN_MASK
  BY <1>1, <1>2, FrameType DEF Used, Forest
<1>4. FANOUT \in Nat \ {0} /\ LEVELS \in Nat \ {0} /\ BYTE \in Nat \ {0} /\ FPN_MASK \in Nat
      /\ (FPN_MASK + 1) % BYTE = 0
  BY PagingAssumption
<1>5. c \in Nat /\ nd.prefix = c \div FANOUT /\ i = c % FANOUT
  <2>1. i \in 0 .. (FANOUT - 1)
    BY DEF Index
  <2>2. FANOUT * nd.prefix \in Nat /\ FANOUT * nd.prefix + i \in Nat
        /\ (FANOUT * nd.prefix + i) \div FANOUT = nd.prefix
        /\ (FANOUT * nd.prefix + i) % FANOUT = i
    <3> DEFINE q == nd.prefix
    <3>1. q \in Nat
      BY <1>2
    <3> HIDE DEF q, f, e, c
    <3>2. FANOUT * q \in Nat /\ FANOUT * q + i \in Nat
          /\ (FANOUT * q + i) \div FANOUT = q /\ (FANOUT * q + i) % FANOUT = i
      BY <1>4, <2>1, <3>1, DivisionOf
    <3>3. QED
      BY <3>2 DEF q
  <2>3. QED
    BY <2>2
<1>6. e \in Bits
  BY <1>3 DEF Inv, TypeOK, Bits
<1> HIDE DEF f, e, c
<1>7. CASE nd.l = LEVELS
  <2>1. c \in Pgn
    <3>1. PICK n \in Pgn : Prefix(n, LEVELS) = nd.prefix
      BY <1>1, <1>2, <1>3, <1>7, NodeUsed
    <3> DEFINE k == n % FANOUT
    <3>2. n \in Nat /\ n = FANOUT * nd.prefix + k /\ k \in Index
      BY <3>1, PrefixTop, PrefixLast, Indices
    <3> HIDE DEF k
    <3> DEFINE R == Reach[LEVELS - 1]
    <3>3. R \in Nat \ {0} /\ Reach[LEVELS] = FANOUT * R
      BY <1>4, ReachType, ReachDef
    <3> HIDE DEF R
    <3>4. FANOUT * R \in Nat /\ n < FANOUT * R
      BY <1>4, <3>2, <3>3 DEF Pgn
    <3>5. FANOUT * nd.prefix \in Nat /\ FANOUT * nd.prefix <= n
      BY <1>2, <1>4, <3>2 DEF Index
    <3>6. nd.prefix < R
      <4>1. ASSUME nd.prefix >= R PROVE FALSE
        <5>1. FANOUT * nd.prefix >= FANOUT * R
          BY <1>2, <1>4, <3>3, <4>1
        <5>2. QED
          BY <3>2, <3>4, <3>5, <5>1
      <4>2. QED
        BY <1>2, <3>3, <4>1
    <3>7. FANOUT * (nd.prefix + 1) <= FANOUT * R
      BY <1>2, <1>4, <3>3, <3>6
    <3>8. FANOUT * (nd.prefix + 1) = FANOUT * nd.prefix + FANOUT
      BY <1>2, <1>4
    <3>9. c < FANOUT * R
      BY <1>2, <1>4, <3>4, <3>5, <3>7, <3>8 DEF c, Index
    <3>10. QED
      BY <1>5, <3>3, <3>4, <3>9 DEF Pgn
  <2>2. e = Mapping(mapped[nd.p][c])
    BY <1>1, <1>2, <1>3, <1>5, <1>7, <2>1 DEF Leaves, e
  <2>3. mapped[nd.p][c] \in Frame \cup {NoFrame}
    BY <1>2, <2>1 DEF Inv
  <2>4. mapped[nd.p][c] \in Frame => mapped[nd.p][c] \in PlainFrame
    BY <1>2, <2>1 DEF Sane, Known
  <2>5. get_32bit_entry(e) = e
    BY <2>2, <2>3, <2>4, ReadPlain DEF Mapping
  <2>6. QED
    BY <2>5 DEF e, f
<1>8. CASE nd.l # LEVELS
  <2> DEFINE l == nd.l + 1
             h == at[<<nd.p, l, c>>]
             low == e.fpn % BYTE
             up == FPN_MASK + 1 - BYTE
  <2>1. l \in 2 .. LEVELS /\ l \in 1 .. LEVELS /\ l - 1 = nd.l
    BY <1>2, <1>4, <1>8
  <2>2. h = Child(ram, f, i)
    BY <1>1, <1>2, <1>5, <2>1 DEF Forest
  <2>3. h \in PlainFrame \cup {NoFrame}
    <3>1. <<nd.p, l, c>> \in Node
      BY <1>2, <1>5, <2>1, NodeType
    <3>2. h \in Frame \cup {NoFrame} /\ (h # NoFrame => h \in Used(at))
      BY <1>1, <3>1 DEF Forest, Used
    <3>3. QED
      BY <1>1, <3>2 DEF Sane
  <2> HIDE DEF h
  <2>4. ASSUME low >= BYTE \div 2 PROVE FALSE
    <3>1. get_32bit_entry(e) = [pre |-> TRUE, fpn |-> up + low]
      BY <2>4 DEF get_32bit_entry
    <3>2. h = up + low
      BY <1>3, <2>2, <3>1 DEF Child, e
    <3>3. e.fpn \in Nat
      BY <1>4, <1>6 DEF Bits
    <3>4. low \in 0 .. (BYTE - 1)
      BY <1>4, <3>3, Division
    <3> DEFINE k == (FPN_MASK + 1) \div BYTE
    <3>5. k \in Nat /\ FPN_MASK + 1 = BYTE * k + 0
      <4>1. FPN_MASK + 1 \in Nat
        BY <1>4
      <4>2. QED
        BY <1>4, <4>1, Division
    <3> HIDE DEF k, low
    <3>6. k # 0
      BY <1>4, <3>5
    <3>7. up = BYTE * (k - 1) /\ k - 1 \in Nat
      BY <1>4, <3>5, <3>6
    <3>8. h = BYTE * (k - 1) + low /\ h \in Nat
      BY <1>4, <3>2, <3>4, <3>7
    <3>9. h \in PlainFrame
      BY <2>3, <3>8 DEF NoFrame
    <3>10. h % BYTE = low
      BY <1>4, <3>4, <3>7, <3>8, DivisionOf
    <3>11. low < BYTE \div 2
      BY <3>9, <3>10 DEF PlainFrame
    <3>12. BYTE \div 2 \in Nat
      BY <1>4, Division
    <3>13. QED
      BY <2>4, <3>4, <3>11, <3>12
  <2>5. ~ (low >= BYTE \div 2)
    BY <2>4
  <2>6. get_32bit_entry(e) = e
    BY <2>5 DEF get_32bit_entry
  <2>7. QED
    BY <2>6 DEF e, f
<1>9. QED
  BY <1>7, <1>8

-----------------------------------------------------------------------------
(* The invariant holds in every state *)

LEMMA InvInit == Init => Inv
<1> SUFFICES ASSUME Init PROVE Inv
  OBVIOUS
<1> DEFINE at == [x \in Node |-> NoFrame]
           n == maxsz \div PAGING_PAGESZ
<1>1. TypeOK
  BY TypeInit
<1>2. mapped = [p \in Proc |-> [k \in Pgn |-> NoFrame]] /\ pgd = [p \in Proc |-> NoFrame]
      /\ \A f \in Stored : ram[f] = [i \in Index |-> Zero]
  <2>1. \A f \in Stored : f \in 0 .. FPN_MASK
    BY FrameType DEF Stored
  <2>2. QED
    BY <2>1 DEF Init
<1>3. \A x \in Node : at[x] = NoFrame
  OBVIOUS
<1>4. Forest(ram, pgd, at)
  <2>1. \A p \in Proc, q \in Nat : at[<<p, 1, q>>] = IF q = 0 THEN pgd[p] ELSE NoFrame
    <3>1. 1 \in 1 .. LEVELS
      BY Sizes
    <3>2. QED
      BY <1>2, <1>3, <3>1, NodeType
  <2>2. ASSUME NEW p \in Proc, NEW l \in 2 .. LEVELS, NEW q \in Nat
        PROVE  at[<<p, l, q>>] = Child(ram, at[<<p, l - 1, q \div FANOUT>>], q % FANOUT)
    <3>1. LEVELS \in Nat \ {0}
      BY Sizes
    <3>2. l \in 1 .. LEVELS /\ l - 1 \in 1 .. LEVELS
      BY <3>1
    <3>3. q \div FANOUT \in Nat
      BY Indices
    <3>4. <<p, l, q>> \in Node /\ <<p, l - 1, q \div FANOUT>> \in Node
      BY <3>2, <3>3, NodeType
    <3> HIDE DEF at
    <3>5. QED
      BY <1>3, <3>4, ChildOf
  <2>3. at \in [Node -> Frame \cup {NoFrame}]
    OBVIOUS
  <2> HIDE DEF at
  <2>4. QED
    BY <1>3, <2>1, <2>2, <2>3 DEF Forest
<1>5. Leaves(ram, mapped, at)
  <2>1. ASSUME NEW p \in Proc, NEW k \in Pgn PROVE at[<<p, LEVELS, k \div FANOUT>>] = NoFrame
    <3>1. LEVELS \in 1 .. LEVELS
      BY Sizes
    <3>2. k \div FANOUT \in Nat
      BY PrefixTop, Indices
    <3>3. QED
      BY <1>3, <3>1, <3>2, NodeType
  <2> HIDE DEF at
  <2>2. QED
    BY <1>2, <2>1 DEF Leaves
<1>6. Used(at) = {}
  BY <1>3 DEF Used
<1> HIDE DEF at
<1>7. Blank(ram, Range(free_fp_list) \cap Clean)
  BY <1>2 DEF Blank, Clean
<1>8. Frame \subseteq Range(free_fp_list)
  <2>1. n \in Nat
    BY Sizes
  <2> HIDE DEF n
  <2>2. free_fp_list = [k \in 1 .. n |-> k - 1] /\ Frame = 0 .. (n - 1)
    BY DEF Init, Frame, n
  <2>3. \A f \in Frame : f + 1 \in 1 .. n /\ (f + 1) - 1 = f
    BY <2>1, <2>2
  <2>4. QED
    BY <2>2, <2>3 DEF Range
<1>9. Sound(Now, Clean, {}, Known, pgd, mapped, at)
  BY <1>4, <1>5, <1>6, <1>7, <1>8 DEF Sound, Now
<1>10. mapped \in [Proc -> [Pgn -> Frame \cup {NoFrame}]] /\ \A p \in Proc : pgd[p] = NoFrame
  BY <1>2
<1>11. QED
  BY <1>1, <1>9, <1>10 DEF Inv

\* A process gets its top table.
LEMMA Plant ==
  ASSUME NEW mem, NEW root, NEW at, Forest(mem, root, at),
         NEW p \in Proc, root[p] = NoFrame,
         NEW h \in Frame, h \notin Used(at), mem[h] = [i \in Index |-> Zero],
         NEW root2, root2[p] = h, \A q \in Proc : q # p => root2[q] = root[q],
         NEW at2, at2 = Planted(at, p, 1, 0, h)
  PROVE  /\ Forest(mem, root2, at2)
         /\ Used(at2) = Used(at) \cup {h}
         /\ \A map : Leaves(mem, map, at) => Leaves(mem, map, at2)
         /\ \A x \in Node : x[1] # p => at2[x] = at[x]
<1> DEFINE y == <<p, 1, 0>>
<1>1. 1 \in 1 .. LEVELS /\ LEVELS \in 1 .. LEVELS /\ LEVELS \in Nat
  BY Sizes
<1>2. y \in Node
  BY <1>1, NodeType
<1>3. /\ at \in [Node -> Frame \cup {NoFrame}]
      /\ \A q1 \in Proc, q \in Nat : at[<<q1, 1, q>>] = IF q = 0 THEN root[q1] ELSE NoFrame
      /\ \A q1 \in Proc, k \in 2 .. LEVELS, q \in Nat :
            at[<<q1, k, q>>] = Child(mem, at[<<q1, k - 1, q \div FANOUT>>], q % FANOUT)
      /\ \A v, w \in Node : at[v] = at[w] /\ at[v] # NoFrame => v = w
  BY DEF Forest
<1>4. at[y] = NoFrame
  BY <1>3
<1>5. h \in 0 .. FPN_MASK /\ h # NoFrame /\ \A i \in Index : mem[h][i] = Zero
  BY FrameType
<1>6. /\ at2 \in [Node -> Frame \cup {NoFrame}]
      /\ at2[y] = h
      /\ \A v \in Node : v # y => at2[v] = at[v]
  BY <1>2, <1>3 DEF Planted
<1>7. root2[p] = h /\ \A q \in Proc : q # p => root2[q] = root[q]
  OBVIOUS
<1>8. Used(at2) = Used(at) \cup {h}
  <2> HIDE DEF y
  <2>1. QED
    BY <1>2, <1>4, <1>5, <1>6 DEF Used
<1>9. \A x \in Node : x[1] # p => at2[x] = at[x]
  BY <1>6
<1>10. ASSUME NEW map, Leaves(mem, map, at) PROVE Leaves(mem, map, at2)
  <2> SUFFICES ASSUME NEW q1 \in Proc, NEW n \in Pgn
               PROVE  LET f == at2[<<q1, LEVELS, n \div FANOUT>>]
                      IN  IF f = NoFrame THEN map[q1][n] = NoFrame
                          ELSE mem[f][n % FANOUT] = Mapping(map[q1][n])
    BY DEF Leaves
  <2> DEFINE z == <<q1, LEVELS, n \div FANOUT>>
  <2>1. z \in Node /\ n % FANOUT \in Index
    BY <1>1, PrefixTop, Indices, NodeType
  <2>2. IF at[z] = NoFrame THEN map[q1][n] = NoFrame
        ELSE mem[at[z]][n % FANOUT] = Mapping(map[q1][n])
    BY <1>10 DEF Leaves
  <2> HIDE DEF z, y
  <2>3. CASE z = y
    <3>1. map[q1][n] = NoFrame /\ mem[h][n % FANOUT] = Zero
      BY <1>4, <1>5, <2>1, <2>2, <2>3
    <3>2. QED
      BY <1>5, <1>6, <2>3, <3>1 DEF z, Mapping
  <2>4. CASE z # y
    BY <1>6, <2>1, <2>2, <2>4 DEF z
  <2>5. QED
    BY <2>3, <2>4
<1>11. Forest(mem, root2, at2)
  <2>1. ASSUME NEW q1 \in Proc, NEW q \in Nat
        PROVE  at2[<<q1, 1, q>>] = IF q = 0 THEN root2[q1] ELSE NoFrame
    <3>1. <<q1, 1, q>> \in Node
      BY <1>1, NodeType
    <3>2. CASE q1 = p /\ q = 0
      BY <1>6, <1>7, <3>2
    <3>3. CASE q1 # p \/ q # 0
      <4>1. <<q1, 1, q>> # y
        BY <3>3
      <4>2. at2[<<q1, 1, q>>] = at[<<q1, 1, q>>]
        BY <1>6, <3>1, <4>1
      <4>3. QED
        BY <1>3, <1>7, <3>3, <4>2
    <3>4. QED
      BY <3>2, <3>3
  <2>2. ASSUME NEW q1 \in Proc, NEW k \in 2 .. LEVELS, NEW q \in Nat
        PROVE  at2[<<q1, k, q>>] = Child(mem, at2[<<q1, k - 1, q \div FANOUT>>], q % FANOUT)
    <3> DEFINE z == <<q1, k, q>>
               w == <<q1, k - 1, q \div FANOUT>>
               j == q % FANOUT
    <3>1. z \in Node /\ w \in Node /\ z # y /\ j \in Index
      <4>1. q \div FANOUT \in Nat /\ j \in Index /\ k \in 1 .. LEVELS /\ k - 1 \in 1 .. LEVELS
            /\ k # 1
        BY <1>1, Indices
      <4>2. QED
        BY <4>1, NodeType
    <3>2. at[z] = Child(mem, at[w], j)
      BY <1>3
    <3> HIDE DEF z, w, j, y
    <3>3. at2[z] = at[z]
      BY <1>6, <3>1
    <3>4. CASE w = y
      <4>1. at[z] = NoFrame
        BY <1>4, <3>2, <3>4, ChildOf
      <4>2. Child(mem, h, j) = NoFrame
        BY <1>5, <3>1, ChildPlain
      <4>3. QED
        BY <1>6, <3>3, <3>4, <4>1, <4>2 DEF z, w, j
    <3>5. CASE w # y
      <4>1. at2[w] = at[w]
        BY <1>6, <3>1, <3>5
      <4>2. QED
        BY <3>2, <3>3, <4>1 DEF z, w, j
    <3>6. QED
      BY <3>4, <3>5
  <2>3. ASSUME NEW v \in Node, NEW w \in Node, at2[v] = at2[w], at2[v] # NoFrame PROVE v = w
    <3> HIDE DEF y
    <3>1. \A u \in Node : at[u] # h
      BY <1>5 DEF Used
    <3>2. QED
      BY <1>3, <1>6, <2>3, <3>1
  <2>4. QED
    BY <1>6, <2>1, <2>2, <2>3 DEF Forest
<1>12. QED
  BY <1>8, <1>9, <1>10, <1>11

\* What is stored outside the tables does not matter.
LEMMA ForestElsewhere ==
  ASSUME NEW mem, NEW mem2, NEW root, NEW at, Forest(mem, root, at),
         \A f \in Used(at) : mem2[f] = mem[f]
  PROVE  /\ Forest(mem2, root, at)
         /\ \A map : Leaves(mem, map, at) => Leaves(mem2, map, at)
<1>1. \A x \in Node : at[x] # NoFrame => mem2[at[x]] = mem[at[x]]
  BY DEF Used
<1>2. \A x \in Node : \A i : Child(mem2, at[x], i) = Child(mem, at[x], i)
  BY <1>1 DEF Child
<1>3. ASSUME NEW q1 \in Proc, NEW k \in 2 .. LEVELS, NEW q \in Nat
      PROVE  <<q1, k - 1, q \div FANOUT>> \in Node
  <2>1. LEVELS \in Nat \ {0}
    BY Sizes
  <2>2. k - 1 \in 1 .. LEVELS /\ q \div FANOUT \in Nat
    BY <2>1, Indices
  <2>3. QED
    BY <2>2, NodeType
<1>4. Forest(mem2, root, at)
  BY <1>2, <1>3 DEF Forest
<1>5. ASSUME NEW q1 \in Proc, NEW n \in Pgn PROVE <<q1, LEVELS, n \div FANOUT>> \in Node
  <2>1. n \in Nat
    BY PrefixTop
  <2>2. n \div FANOUT \in Nat
    BY <2>1, Indices
  <2>3. LEVELS \in 1 .. LEVELS
    BY Sizes
  <2>4. QED
    BY <2>2, <2>3, NodeType
<1>6. ASSUME NEW map, Leaves(mem, map, at) PROVE Leaves(mem2, map, at)
  BY <1>1, <1>5, <1>6 DEF Leaves
<1>7. QED
  BY <1>4, <1>6

\* Frames only leave the free list, and what IO_WRITE changed stays so unless
\* it was free and is no longer.
LEMMA SaneBefore ==
  ASSUME Sane', Range(free_fp_list') \subseteq Range(free_fp_list), Known \subseteq Known',
         \A f \in written : f \in written' \/ f \in Range(free_fp_list)
  PROVE  Sane
<1> DEFINE gone == Frame \ Range(free_fp_list)
           gone2 == Frame \ Range(free_fp_list')
<1>1. gone2 \cup Known' \subseteq PlainFrame /\ gone2 \subseteq Stored \ written'
  BY DEF Sane, PlainFrame, Stored, Frame
<1>2. gone \subseteq gone2
  OBVIOUS
<1>3. gone \cup Known \subseteq PlainFrame /\ gone \subseteq Stored \ written
  BY <1>1, <1>2
<1>4. QED
  BY <1>3 DEF Sane

\* The forest after a step of p, with the tables of the others untouched.
After(p) == \E at : Sound(Now', Clean', {}, Known', pgd', mapped', at) /\ Apart(ram', at, p)

\* A step that keeps RAM, the history and the set of free frames.
LEMMA InvSame ==
  ASSUME Inv, TypeOK', ram' = ram, Range(free_fp_list') = Range(free_fp_list),
         loaded \subseteq loaded', pgd' = pgd, UNCHANGED history
  PROVE  Inv' /\ \A p \in Proc : Sane' => After(p)
<1>1. Known' = Known /\ Clean' = Clean
  BY DEF Known, Frame, Clean, Stored, history
<1>2. ASSUME Sane' PROVE \E at : /\ Sound(Now', Clean', {}, Known', pgd', mapped', at)
                                 /\ \A p \in Proc : Apart(ram', at, p)
  <2>1. Sane
    BY <1>1, <1>2, SaneBefore DEF history
  <2>2. PICK at : Sound(Now, Clean, {}, Known, pgd, mapped, at)
    BY <2>1 DEF Inv
  <2>3. Sound(Now', Clean', {}, Known', pgd', mapped', at)
    BY <1>1, <2>2 DEF Sound, Now, history
  <2>4. \A p \in Proc : Apart(ram', at, p)
    BY DEF Apart
  <2>5. QED
    BY <2>3, <2>4
<1>3. Sane' => \E at : Sound(Now', Clean', {}, Known', pgd', mapped', at)
  BY <1>2
<1>4. \A p \in Proc : Sane' => After(p)
  BY <1>2 DEF After
<1>5. Inv'
  BY <1>3 DEF Inv, history
<1>6. QED
  BY <1>4, <1>5

LEMMA InvInitMm ==
  ASSUME Inv, TypeOK', NEW p \in Proc, InitMm(p)
  PROVE  Inv' /\ (Sane' => After(p))
<1>1. /\ p \notin loaded /\ pgd[p] = NoFrame /\ loaded' = loaded \cup {p}
      /\ mapped' = mapped /\ lost' = lost
  BY DEF Inv, InitMm
<1>2. /\ pgd \in [Proc -> Frame \cup {NoFrame}] /\ ram \in Memory
      /\ free_fp_list \in Seq(Frame) /\ IsInjective(free_fp_list)
  BY DEF Inv, TypeOK, Memory, Bits
<1>3. CASE free_fp_list = << >>
  <2>1. UNCHANGED << ram, pgd, free_fp_list, written >>
    BY <1>3 DEF InitMm
  <2>2. QED
    BY <1>1, <2>1, InvSame DEF history
<1>4. CASE free_fp_list # << >>
  <2> DEFINE h == Head(free_fp_list)
  <2>1. /\ pgd' = [pgd EXCEPT ![p] = h] /\ free_fp_list' = Tail(free_fp_list)
        /\ ram' = [ram EXCEPT ![h] = [i \in Index |-> Zero]]
        /\ written' = written \ {h}
    BY <1>4 DEF InitMm
  <2>2. /\ h \in Frame /\ h \in Range(free_fp_list)
        /\ Range(Tail(free_fp_list)) = Range(free_fp_list) \ {h}
    BY <1>2, <1>4, HeadTail
  <2> HIDE DEF h
  <2>3. Known' = Known
    BY <1>1 DEF Known, Frame
  <2>4. ASSUME Sane' PROVE After(p)
    <3>1. Sane
      BY <2>1, <2>2, <2>3, <2>4, SaneBefore
    <3>2. PICK at : /\ Forest(ram, pgd, at) /\ Leaves(ram, mapped, at)
                    /\ Blank(ram, Range(free_fp_list) \cap Clean)
                    /\ Range(free_fp_list) \cap Used(at) = {}
                    /\ Frame \subseteq Range(free_fp_list) \cup Used(at) \cup Known
      BY <3>1, InvForest
    <3>3. h \notin Used(at)
      BY <2>2, <3>2
    <3> DEFINE mem == [ram EXCEPT ![h] = [i \in Index |-> Zero]]
    <3>4. mem[h] = [i \in Index |-> Zero] /\ \A f \in Frame : f # h => mem[f] = ram[f]
      BY <1>2, <2>2, FrameType DEF Memory
    <3> HIDE DEF mem
    <3>5. at \in [Node -> Frame \cup {NoFrame}] /\ Used(at) \subseteq Frame
      BY <3>2 DEF Forest, Used
    <3>6. Forest(mem, pgd, at) /\ Leaves(mem, mapped, at)
      BY <3>2, <3>3, <3>4, <3>5, ForestElsewhere
    <3> DEFINE at2 == Planted(at, p, 1, 0, h)
    <3>7. at2 = Planted(at, p, 1, 0, h)
      OBVIOUS
    <3> HIDE DEF at2
    <3>8. /\ pgd[p] = NoFrame /\ pgd'[p] = h /\ \A q \in Proc : q # p => pgd'[q] = pgd[q]
          /\ h \in Frame /\ h \notin Used(at) /\ Forest(mem, pgd, at)
      BY <1>1, <1>2, <2>1, <2>2, <3>3, <3>6
    <3>9. /\ Forest(mem, pgd', at2)
          /\ Used(at2) = Used(at) \cup {h}
          /\ \A map : Leaves(mem, map, at) => Leaves(mem, map, at2)
          /\ \A x \in Node : x[1] # p => at2[x] = at[x]
      BY <3>4, <3>7, <3>8, Plant
    <3>10. Range(free_fp_list') \cap Used(at2) = {}
           /\ Frame \subseteq Range(free_fp_list') \cup Used(at2) \cup Known
      BY <2>1, <2>2, <3>2, <3>9
    <3>11. Blank(mem, Range(free_fp_list') \cap Clean')
      <4>1. ASSUME NEW f \in Range(free_fp_list'), f \in Clean'
            PROVE  f \in Frame /\ f # h /\ f \in Range(free_fp_list) \cap Clean
        BY <2>1, <2>2, <4>1 DEF Clean, Stored, Frame
      <4>2. QED
        BY <3>2, <3>4, <4>1 DEF Blank
    <3>12. Sound(Now', Clean', {}, Known', pgd', mapped', at2)
      BY <1>1, <2>1, <2>3, <3>6, <3>9, <3>10, <3>11 DEF Sound, Now, mem
    <3>13. Apart(mem, at2, p)
      <4>1. ASSUME NEW x \in Node, x[1] # p, at2[x] # NoFrame PROVE mem[at2[x]] = ram[at2[x]]
        <5>1. at2[x] \in Used(at)
          BY <3>9, <4>1 DEF Used
        <5>2. QED
          BY <3>3, <3>4, <3>5, <5>1
      <4>2. QED
        BY <4>1 DEF Apart
    <3>14. QED
      BY <2>1, <3>12, <3>13 DEF After, mem
  <2>5. \A q \in Proc \ loaded' : pgd'[q] = NoFrame
    BY <1>1, <1>2, <2>1 DEF Inv
  <2>6. QED
    BY <1>1, <2>4, <2>5 DEF Inv, After
<1>5. QED
  BY <1>3, <1>4

\* As long as the program stays sane, IO_WRITE has hit no table.
LEMMA InvIoWrite ==
  ASSUME Inv, TypeOK', NEW p \in Proc, NEW f \in IoFrames, NEW i \in Index,
         NEW new \in [pre : BOOLEAN, fpn : IoFpns], IoWrite(p, f, i, new)
  PROVE  Inv' /\ (Sane' => After(p))
<1> DEFINE nodes == {nd.frame : nd \in TableNodes}
<1>1. /\ ram' = [ram EXCEPT ![f][i] = new]
      /\ written' = IF f \in Range(free_fp_list) \cup nodes THEN written \cup {f} ELSE written
      /\ loaded' = loaded /\ pgd' = pgd /\ free_fp_list' = free_fp_list
      /\ mapped' = mapped /\ lost' = lost
  BY DEF IoWrite, Call
<1> HIDE DEF nodes
<1>2. ram \in Memory /\ f \in 0 .. FPN_MASK
  BY StorageAssumption DEF Inv, TypeOK, Memory, Bits
<1>3. Known' = Known
  BY <1>1 DEF Known, Frame
<1>4. \A g \in Frame : g # f => ram'[g] = ram[g]
  BY <1>1, <1>2, FrameType DEF Memory
<1>5. ASSUME Sane' PROVE After(p)
  <2>1. Sane
    BY <1>1, <1>3, <1>5, SaneBefore
  <2>2. PICK at : /\ Forest(ram, pgd, at) /\ Leaves(ram, mapped, at)
                  /\ Blank(ram, Range(free_fp_list) \cap Clean)
                  /\ Range(free_fp_list) \cap Used(at) = {}
                  /\ Frame \subseteq Range(free_fp_list) \cup Used(at) \cup Known
    BY <2>1, InvForest
  <2>3. Used(at) = nodes /\ Used(at) \subseteq Frame
    <3>1. Used(at) = nodes
      BY <2>2, NodesAre DEF nodes
    <3>2. Used(at) \subseteq Frame
      BY <2>2 DEF Forest, Used
    <3>3. QED
      BY <3>1, <3>2
  <2>4. f \notin Used(at)
    <3>1. ASSUME f \in Used(at) PROVE FALSE
      <4>1. f \in Frame /\ f \notin Range(free_fp_list') /\ f \in written'
        BY <1>1, <2>2, <2>3, <3>1
      <4>2. Frame \ Range(free_fp_list') \subseteq Stored \ written'
        BY <1>5 DEF Sane, Stored, Frame
      <4>3. QED
        BY <4>1, <4>2
    <3>2. QED
      BY <3>1
  <2>5. Forest(ram', pgd, at) /\ Leaves(ram', mapped, at)
    BY <1>4, <2>2, <2>3, <2>4, ForestElsewhere
  <2>6. Blank(ram', Range(free_fp_list) \cap Clean')
    <3>1. ASSUME NEW g \in Range(free_fp_list), g \in Clean'
          PROVE  g \in Frame /\ g # f /\ g \in Clean
      BY <1>1, <3>1 DEF Clean, Stored, Frame
    <3>2. QED
      BY <1>4, <2>2, <3>1 DEF Blank
  <2>7. Sound(Now', Clean', {}, Known', pgd', mapped', at)
    BY <1>1, <1>3, <2>2, <2>5, <2>6 DEF Sound, Now
  <2>8. Apart(ram', at, p)
    <3>1. \A x \in Node : at[x] # NoFrame => at[x] \in Used(at)
      BY DEF Used
    <3>2. QED
      BY <1>4, <2>3, <2>4, <3>1 DEF Apart
  <2>9. QED
    BY <2>7, <2>8 DEF After
<1>6. QED
  BY <1>1, <1>5 DEF Inv, After

\* What a call that maps pages does to the forest; the frames in held are on
\* the call's own list.
LEMMA vmapSound ==
  ASSUME Inv, Sane, NEW p \in Proc, pgd[p] # NoFrame,
         NEW free \in Seq(Frame), IsInjective(free),
         NEW held, Range(free) \cap held = {}, Range(free) \cup held = Range(free_fp_list),
         NEW n \in Pgn, NEW fpns \in Seq(Frame), n + Len(fpns) - 1 \in Pgn
  PROVE  LET m == vmap(free, pgd[p], n, fpns)
         IN  Range(free) \ Range(m.free) \subseteq PlainFrame \cap Clean =>
                \E a : /\ Sound(m, Clean, held, Known, pgd, Mapped(mapped, p, n, fpns, m.done), a)
                       /\ Apart(m.ram, a, p)
<1>1. PICK at : Sound(Now, Clean, {}, Known, pgd, mapped, at)
  BY DEF Inv
<1>2. Sound(Before(free, pgd[p]), Clean, held, Known, pgd, mapped, at)
  BY <1>1 DEF Sound, Now, Before
<1>3. /\ ram \in Memory /\ pgd[p] \in Frame
      /\ mapped \in [Proc -> [Pgn -> Frame \cup {NoFrame}]]
  BY DEF Inv, TypeOK, Memory, Bits
<1> DEFINE room == Range(free)
<1>4. Range(free) \subseteq room /\ room \cap held = {}
  OBVIOUS
<1>5. Clean \in SUBSET Frame
  BY DEF Clean, Stored
<1> HIDE DEF room
<1>6. LoopFits(room, Clean, held, Known, pgd, mapped, p, free, n, fpns)
  BY <1>2, <1>3, <1>4, <1>5, LoopSound
<1>7. Len(fpns) \in 0 .. Len(fpns)
  OBVIOUS
<1> DEFINE m == Loop(free, pgd[p], n, fpns)[Len(fpns)]
<1>8. room \ Range(m.free) \subseteq PlainFrame \cap Clean =>
         \E a : /\ Sound(m, Clean, held, Known, pgd, Mapped(mapped, p, n, fpns, m.done), a)
                /\ Apart(m.ram, a, p)
  BY <1>6, <1>7 DEF LoopFits
<1> HIDE DEF m
<1>9. m = vmap(free, pgd[p], n, fpns)
  BY vmapDef DEF m
<1>10. QED
  BY <1>8, <1>9 DEF room

\* The call hands back what it held, or the pages that got it are on record.
LEMMA SoundNext ==
  ASSUME NEW m, NEW clean, NEW held, NEW rest, NEW root, NEW map, NEW a,
         Sound(m, clean, held, rest, root, map, a),
         NEW m2, m2.ram = m.ram, NEW rest2, rest \subseteq rest2,
         \/ Range(m2.free) = held \cup Range(m.free)
         \/ m2.free = m.free /\ held \subseteq rest2
  PROVE  Sound(m2, clean, {}, rest2, root, map, a)
BY DEF Sound, Blank

\* The history after a call: nothing it knew is forgotten.
LEMMA RecordsKeep ==
  ASSUME Inv, NEW p \in Proc, NEW n \in Pgn, NEW fpns \in Seq(Frame), n + Len(fpns) - 1 \in Pgn,
         NEW done \in 0 .. Len(fpns), Records(p, n, fpns, done)
  PROVE  /\ mapped' = Mapped(mapped, p, n, fpns, done)
         /\ mapped' \in [Proc -> [Pgn -> Frame \cup {NoFrame}]]
         /\ Known \subseteq Known'
         /\ done = Len(fpns) => Range(fpns) \subseteq Known'
         /\ written' = written
<1> DEFINE range == n .. (n + done - 1)
           L == Len(fpns)
<1>1. /\ mapped' = [mapped EXCEPT ![p] =
                      [k \in Pgn |-> IF k \in range THEN fpns[k - n + 1] ELSE mapped[p][k]]]
      /\ lost' = lost \cup ({mapped[p][k] : k \in range} \ {NoFrame})
      /\ written' = written
  BY DEF Records
<1>2. mapped \in [Proc -> [Pgn -> Frame \cup {NoFrame}]]
  BY DEF Inv
<1>3. L \in Nat /\ n \in Nat /\ done \in Nat /\ done <= L /\ \A i \in 1 .. L : fpns[i] \in Frame
  BY PrefixTop
<1>4. Range(fpns) = {fpns[i] : i \in 1 .. L}
  BY DEF Range
<1>5. \A k \in Pgn : k \in Nat
  BY PrefixTop
<1>6. \A k \in range : k \in Pgn /\ k - n + 1 \in 1 .. L
  <2>1. LEVELS \in 0 .. LEVELS
    BY Sizes
  <2>2. Reach[LEVELS] \in Nat
    BY <2>1, ReachType
  <2>3. QED
    BY <1>3, <2>2 DEF Pgn
<1>7. \A i \in 1 .. done : n + i - 1 \in range /\ (n + i - 1) - n + 1 = i
  BY <1>3
<1>8. mapped' = Mapped(mapped, p, n, fpns, done)
  BY <1>1 DEF Mapped
<1> HIDE DEF range, L
<1>9. /\ \A k \in range : mapped'[p][k] = fpns[k - n + 1]
      /\ \A q \in Proc, k \in Pgn : q # p \/ k \notin range => mapped'[q][k] = mapped[q][k]
  BY <1>1, <1>2, <1>6
<1>10. mapped' \in [Proc -> [Pgn -> Frame \cup {NoFrame}]]
  <2>1. \A k \in Pgn : (IF k \in range THEN fpns[k - n + 1] ELSE mapped[p][k])
                          \in Frame \cup {NoFrame}
    BY <1>2, <1>3, <1>6
  <2> DEFINE line == [k \in Pgn |-> IF k \in range THEN fpns[k - n + 1] ELSE mapped[p][k]]
  <2>2. line \in [Pgn -> Frame \cup {NoFrame}] /\ mapped' = [mapped EXCEPT ![p] = line]
    BY <1>1, <2>1
  <2> HIDE DEF line
  <2>3. QED
    BY <1>2, <2>2
<1>11. Known' = {f \in Frame : f \in lost' \/ \E q \in Proc, k \in Pgn : f = mapped'[q][k]}
  BY DEF Known, Frame
<1>12. Known \subseteq Known'
  <2> SUFFICES ASSUME NEW f \in Known PROVE f \in lost' \/ \E q \in Proc, k \in Pgn : f = mapped'[q][k]
    BY <1>11 DEF Known
  <2>1. f # NoFrame
    BY FrameType DEF Known
  <2>2. ASSUME NEW q \in Proc, NEW k \in Pgn, f = mapped[q][k]
        PROVE  f \in lost' \/ f = mapped'[q][k]
    BY <1>1, <1>9, <2>1, <2>2
  <2>3. QED
    BY <1>1, <2>2 DEF Known
<1>13. ASSUME done = L PROVE Range(fpns) \subseteq Known'
  <2>1. \A i \in 1 .. L : fpns[i] \in Known'
    <3> SUFFICES ASSUME NEW i \in 1 .. L PROVE fpns[i] \in Known'
      OBVIOUS
    <3> DEFINE k == n + i - 1
    <3>1. k \in range /\ k - n + 1 = i
      BY <1>7, <1>13
    <3> HIDE DEF k
    <3>2. k \in Pgn /\ mapped'[p][k] = fpns[i]
      BY <1>6, <1>9, <3>1
    <3>3. QED
      BY <1>3, <1>11, <3>2
  <2>2. QED
    BY <1>4, <2>1
<1>14. QED
  BY <1>1, <1>8, <1>10, <1>12, <1>13 DEF L

LEMMA InvMapOp ==
  ASSUME Inv, TypeOK', NEW p \in Proc, NEW n \in Pgn, NEW pgnum \in 1 .. MaxRange,
         n + pgnum - 1 \in Pgn, MapOp(p, n, pgnum)
  PROVE  Inv' /\ (Sane' => After(p))
<1> DEFINE zeros == [k \in 1 .. pgnum |-> 0]
           m == vmap(free_fp_list, pgd[p], n, zeros)
<1>1. /\ pgd[p] # NoFrame /\ loaded' = loaded /\ pgd' = pgd
      /\ ram' = m.ram /\ free_fp_list' = m.free
      /\ Records(p, n, zeros, m.done)
  BY DEF MapOp, Call
<1>2. /\ free_fp_list \in Seq(Frame) /\ IsInjective(free_fp_list)
      /\ TypeOK /\ pgd[p] \in Frame
  BY <1>1 DEF Inv, TypeOK
<1>3. pgnum \in Nat
  BY Sizes
<1>4. zeros \in Seq(Frame) /\ Len(zeros) = pgnum /\ Range(zeros) \subseteq {0}
  BY <1>3, ZerosType DEF Range
<1>5. n + Len(zeros) - 1 \in Pgn
  BY <1>4
<1> HIDE DEF zeros
<1>6. m.done \in 0 .. Len(zeros) /\ Range(m.free) \subseteq Range(free_fp_list)
  BY <1>2, <1>4, vmapType
<1> HIDE DEF m
<1>7. /\ mapped' = Mapped(mapped, p, n, zeros, m.done)
      /\ mapped' \in [Proc -> [Pgn -> Frame \cup {NoFrame}]]
      /\ Known \subseteq Known'
      /\ written' = written
  BY <1>1, <1>4, <1>5, <1>6, RecordsKeep
<1>8. ASSUME Sane' PROVE After(p)
  <2>1. Sane
    BY <1>1, <1>6, <1>7, <1>8, SaneBefore
  <2>2. Range(free_fp_list) \ Range(m.free) \subseteq PlainFrame \cap Clean
    <3>1. Range(free_fp_list) \subseteq Frame
      BY <1>2 DEF Range
    <3>2. Frame \ Range(free_fp_list') \subseteq PlainFrame \cap (Stored \ written')
      BY <1>8 DEF Sane, PlainFrame, Stored, Frame
    <3>3. QED
      BY <1>1, <1>7, <3>1, <3>2 DEF Clean
  <2>3. \E a : /\ Sound(m, Clean, {}, Known, pgd, Mapped(mapped, p, n, zeros, m.done), a)
              /\ Apart(m.ram, a, p)
    BY <1>1, <1>2, <1>4, <1>5, <2>1, <2>2, vmapSound DEF m
  <2>4. PICK a : /\ Sound(m, Clean, {}, Known, pgd, Mapped(mapped, p, n, zeros, m.done), a)
                 /\ Apart(m.ram, a, p)
    BY <2>3
  <2>5. Now'.ram = m.ram /\ Now'.free = m.free
    BY <1>1 DEF Now
  <2>6. Clean' = Clean
    BY <1>7 DEF Clean, Stored, Frame
  <2>7. Sound(Now', Clean', {}, Known', pgd, mapped', a)
    BY <1>7, <2>4, <2>5, <2>6, SoundNext
  <2>8. QED
    BY <1>1, <2>4, <2>7 DEF After
<1>9. QED
  BY <1>1, <1>7, <1>8 DEF Inv, After

LEMMA InvVmMapRam ==
  ASSUME Inv, TypeOK', NEW p \in Proc, NEW n \in Pgn, NEW pgnum \in 1 .. MaxRange,
         n + pgnum - 1 \in Pgn, VmMapRam(p, n, pgnum)
  PROVE  Inv' /\ (Sane' => After(p))
<1> DEFINE fpns == SubSeq(free_fp_list, 1, pgnum)
           free == SubSeq(free_fp_list, pgnum + 1, Len(free_fp_list))
           m == vmap(free, pgd[p], n, fpns)
<1>1. /\ pgd[p] # NoFrame /\ loaded' = loaded /\ pgd' = pgd /\ pgnum <= Len(free_fp_list)
      /\ ram' = m.ram
      /\ free_fp_list' = IF m.done = pgnum THEN m.free ELSE Reverse(fpns) \o m.free
      /\ Records(p, n, fpns, m.done)
  BY DEF VmMapRam, Call
<1>2. /\ free_fp_list \in Seq(Frame) /\ IsInjective(free_fp_list)
      /\ TypeOK /\ pgd[p] \in Frame
  BY <1>1 DEF Inv, TypeOK
<1>3. pgnum \in Nat /\ pgnum \in 0 .. Len(free_fp_list)
  BY <1>1, <1>2, Sizes
<1>4. /\ fpns \in Seq(Frame) /\ Len(fpns) = pgnum
      /\ free \in Seq(Frame) /\ IsInjective(free)
      /\ Range(fpns) \cap Range(free) = {}
      /\ Range(free_fp_list) = Range(fpns) \cup Range(free)
  BY <1>2, <1>3, SplitAt
<1> HIDE DEF m
<1>5. \A f \in Seq(Frame) : IsInjective(f) /\ Range(f) \subseteq Range(free)
         => Range(Reverse(fpns) \o f) = Range(fpns) \cup Range(f)
  BY <1>2, <1>3, GiveBack
<1> HIDE DEF fpns, free
<1>6. n + Len(fpns) - 1 \in Pgn
  BY <1>4
<1>7. /\ m.done \in 0 .. Len(fpns) /\ Range(m.free) \subseteq Range(free)
      /\ m.free \in Seq(Frame) /\ IsInjective(m.free)
  BY <1>2, <1>4, vmapType DEF m
<1>8. /\ mapped' = Mapped(mapped, p, n, fpns, m.done)
      /\ mapped' \in [Proc -> [Pgn -> Frame \cup {NoFrame}]]
      /\ Known \subseteq Known'
      /\ m.done = Len(fpns) => Range(fpns) \subseteq Known'
      /\ written' = written
  BY <1>1, <1>4, <1>6, <1>7, RecordsKeep
<1>9. \/ m.done = Len(fpns) /\ free_fp_list' = m.free
      \/ m.done < Len(fpns) /\ Range(free_fp_list') = Range(fpns) \cup Range(m.free)
  BY <1>1, <1>3, <1>4, <1>5, <1>7
<1>10. Range(free_fp_list') \subseteq Range(free_fp_list)
  BY <1>4, <1>7, <1>9
<1>11. ASSUME Sane' PROVE After(p)
  <2>1. Sane
    BY <1>8, <1>10, <1>11, SaneBefore
  <2>2. Range(free) \ Range(m.free) \subseteq PlainFrame \cap Clean
    <3>1. Range(free) \subseteq Frame
      BY <1>4 DEF Range
    <3>2. \A f \in Range(free) \ Range(m.free) : f \notin Range(free_fp_list')
      BY <1>4, <1>9
    <3>3. Frame \ Range(free_fp_list') \subseteq PlainFrame \cap (Stored \ written')
      BY <1>11 DEF Sane, PlainFrame, Stored, Frame
    <3>4. QED
      BY <1>8, <3>1, <3>2, <3>3 DEF Clean
  <2>3. Range(free) \cap Range(fpns) = {} /\ Range(free) \cup Range(fpns) = Range(free_fp_list)
    BY <1>4
  <2>4. \E a : /\ Sound(m, Clean, Range(fpns), Known, pgd, Mapped(mapped, p, n, fpns, m.done), a)
              /\ Apart(m.ram, a, p)
    BY <1>1, <1>4, <1>6, <2>1, <2>2, <2>3, vmapSound DEF m
  <2>5. PICK a : /\ Sound(m, Clean, Range(fpns), Known, pgd, Mapped(mapped, p, n, fpns, m.done), a)
                 /\ Apart(m.ram, a, p)
    BY <2>4
  <2>6. Now'.ram = m.ram /\ Now'.free = free_fp_list'
    BY <1>1 DEF Now
  <2>7. Clean' = Clean
    BY <1>8 DEF Clean, Stored, Frame
  <2>8. Sound(Now', Clean', {}, Known', pgd, mapped', a)
    BY <1>8, <1>9, <2>5, <2>6, <2>7, SoundNext
  <2>9. QED
    BY <1>1, <2>5, <2>8 DEF After
<1>12. QED
  BY <1>1, <1>8, <1>11 DEF Inv, After

\* Every action keeps the invariant, and the tables of all processes but one.
LEMMA Steps ==
  ASSUME Inv, Next
  PROVE  Inv' /\ \E p \in Proc : Sane' => After(p)
<1>1. TypeOK'
  BY TypeStep DEF Inv
<1>2. ASSUME NEW p \in Proc, InitMm(p) PROVE Inv' /\ (Sane' => After(p))
  BY <1>1, <1>2, InvInitMm
<1>3. ASSUME NEW p \in Proc, NEW pgnum \in 1 .. MaxRange, VmMapRamNoFrames(p, pgnum)
      PROVE  Inv' /\ (Sane' => After(p))
  <2>1. Range(Reverse(free_fp_list)) = Range(free_fp_list)
    BY ReverseType DEF Inv, TypeOK
  <2>2. QED
    BY <1>1, <1>3, <2>1, InvSame DEF VmMapRamNoFrames, Call
<1>4. ASSUME NEW p \in Proc, NEW pgnum \in 1 .. MaxRange, NEW pgn \in Pgn,
             pgn + pgnum - 1 \in Pgn, MapOp(p, pgn, pgnum)
      PROVE  Inv' /\ (Sane' => After(p))
  BY <1>1, <1>4, InvMapOp
<1>5. ASSUME NEW p \in Proc, NEW pgnum \in 1 .. MaxRange, NEW pgn \in Pgn,
             pgn + pgnum - 1 \in Pgn, VmMapRam(p, pgn, pgnum)
      PROVE  Inv' /\ (Sane' => After(p))
  BY <1>1, <1>5, InvVmMapRam
<1>6. ASSUME NEW p \in Proc, NEW pgn \in Pgn, GetPresent(p, pgn) \/ GetAbsent(p, pgn)
      PROVE  Inv' /\ (Sane' => After(p))
  BY <1>1, <1>6, InvSame DEF GetPresent, GetAbsent, Call
<1>7. ASSUME NEW p \in Proc, CallWild(p) PROVE Inv' /\ (Sane' => After(p))
  BY <1>1, <1>7, InvSame DEF CallWild, Call
<1>8. ASSUME NEW p \in Proc, NEW f \in IoFrames, NEW i \in Index,
             NEW new \in [pre : BOOLEAN, fpn : IoFpns], IoWrite(p, f, i, new)
      PROVE  Inv' /\ (Sane' => After(p))
  BY <1>1, <1>8, InvIoWrite
<1> HIDE DEF After
<1>9. QED
  BY <1>2, <1>3, <1>4, <1>5, <1>6, <1>7, <1>8 DEF Next

LEMMA InvStep ==
  ASSUME Inv, [Next]_vars
  PROVE  Inv'
<1>1. CASE Next
  BY <1>1, Steps
<1>2. CASE UNCHANGED vars
  <2>1. TypeOK'
    BY TypeStep DEF Inv
  <2>2. QED
    BY <1>2, <2>1, InvSame DEF vars
<1>3. QED
  BY <1>1, <1>2

LEMMA Always == Spec => []Inv
<1>1. Init => Inv
  BY InvInit
<1>2. Inv /\ [Next]_vars => Inv'
  BY InvStep
<1>3. QED
  BY <1>1, <1>2, PTL DEF Spec

-----------------------------------------------------------------------------
(* Safety *)

\* A frame that holds a page table holds only that one and is not free,
\* whatever calls failed half-way, for RAM, storage and tables of any size,
\* wherever IO_WRITE stores and whatever lies past the storage.
THEOREM PrivateTables == Spec => []TablesPrivate
<1>1. Inv => TablesPrivate
  BY InvTablesPrivate DEF TablesPrivate
<1>2. QED
  BY <1>1, Always, PTL

\* Reading the entry of a page gives the frame it was last mapped to, whatever
\* was mapped for other pages and processes since, and nothing for a page that
\* was never mapped.
THEOREM ReadAsMapped == Spec => []PagesAsMapped
<1>1. Inv => PagesAsMapped
  BY InvPagesAsMapped DEF PagesAsMapped, Mapping
<1>2. QED
  BY <1>1, Always, PTL

\* No frame disappears: each is free, a table, mapped, or was mapped over.
THEOREM EveryFrameAccounted == Spec => []FramesAccounted
<1>1. Inv => FramesAccounted
  BY InvFramesAccounted DEF FramesAccounted
<1>2. QED
  BY <1>1, Always, PTL

\* Every entry of a table is read as it was stored, as long as the program is
\* sane.
THEOREM ReadsBack == Spec => [](Sane => EntryReadBack)
<1>1. Inv => (Sane => EntryReadBack)
  BY InvEntryReadBack
<1>2. QED
  BY <1>1, Always, PTL

\* TableNodes lists the tables of the forest, whichever it is.
Listed ==
    \A at : Forest(ram, pgd, at) =>
        \A nd \in TableNodes : /\ nd.frame # NoFrame
                               /\ <<nd.p, nd.l, nd.prefix>> \in Node
                               /\ nd.frame = at[<<nd.p, nd.l, nd.prefix>>]

LEMMA AlwaysListed == Listed
<1> SUFFICES ASSUME NEW at, Forest(ram, pgd, at), NEW nd \in TableNodes
             PROVE  /\ nd.frame # NoFrame
                    /\ <<nd.p, nd.l, nd.prefix>> \in Node
                    /\ nd.frame = at[<<nd.p, nd.l, nd.prefix>>]
  BY DEF Listed
<1>1. QED
  BY NodesAre, NodeType DEF Used

\* No step changes the tables of two processes, nor a table two have in common.
THEOREM TablesIsolated == Spec => Isolation
<1> DEFINE Alone == Sane' => \E p \in Proc : \A nd \in TableNodes' :
                       ram'[nd.frame] # ram[nd.frame] => nd.p = p
<1>1. Inv /\ Listed' /\ [Next]_vars => [Alone]_vars
  <2> SUFFICES ASSUME Inv, Listed', Next, Sane'
               PROVE  \E p \in Proc : \A nd \in TableNodes' :
                         ram'[nd.frame] # ram[nd.frame] => nd.p = p
    OBVIOUS
  <2>1. PICK p \in Proc : After(p)
    BY Steps
  <2>2. PICK at : Sound(Now', Clean', {}, Known', pgd', mapped', at) /\ Apart(ram', at, p)
    BY <2>1 DEF After
  <2>3. Forest(ram', pgd', at)
    BY <2>2 DEF Sound, Now
  <2>4. \A nd \in TableNodes' : /\ nd.frame # NoFrame
                                 /\ <<nd.p, nd.l, nd.prefix>> \in Node
                                 /\ nd.frame = at[<<nd.p, nd.l, nd.prefix>>]
    BY <2>3 DEF Listed
  <2>5. ASSUME NEW nd \in TableNodes', ram'[nd.frame] # ram[nd.frame] PROVE nd.p = p
    BY <2>2, <2>4, <2>5 DEF Apart
  <2>6. QED
    BY <2>5
<1>2. Spec => []Listed
  BY AlwaysListed, PTL
<1>3. QED
  BY <1>1, <1>2, Always, PTL DEF Spec, Isolation

=============================================================================
