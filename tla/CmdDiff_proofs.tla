--------------------------- MODULE CmdDiff_proofs ---------------------------
(***************************************************************************)
(* The verdict and the report of `vmdk diff`, for all pairs of images whose *)
(* reads are cut at the same offsets.                                      *)
(***************************************************************************)
EXTENDS CmdDiff, Image_proofs

----------------------------------------------------------------------------
(* Numbers and finite sets                                                 *)

\* A multiple of m is followed by the next one, and by none in between.
LEMMA Multiples ==
    ASSUME NEW m \in Nat \ {0}, NEW p \in Nat, p % m = 0
    PROVE  /\ (p + m) % m = 0
           /\ \A k \in 1..(m - 1) : (p + k) % m # 0
<1> DEFINE q == p \div m
<1>1. q \in Nat /\ p = q * m
  <2>1. p \div m \in Nat /\ p = (p \div m) * m + (p % m)
    OBVIOUS
  <2> QED
    BY <2>1
<1> HIDE DEF q
<1>2. \A a \in Nat, r \in 0..(m - 1) : (a * m + r) % m = r
  OBVIOUS
<1>3. (p + m) % m = 0
  <2>1. p + m = (q + 1) * m + 0 /\ 0 \in 0..(m - 1) /\ q + 1 \in Nat
    BY <1>1
  <2> QED
    BY <1>2, <2>1
<1>4. ASSUME NEW k \in 1..(m - 1) PROVE (p + k) % m # 0
  <2>1. p + k = q * m + k /\ k \in 0..(m - 1)
    BY <1>1
  <2>2. (p + k) % m = k
    BY <1>1, <1>2, <2>1
  <2> QED
    BY <2>2
<1> QED
  BY <1>3, <1>4

\* No set has more than m members with fewer than m smaller ones.
LEMMA FirstMembers ==
    ASSUME NEW top \in Nat, NEW D \in SUBSET (0..top), NEW m \in Nat,
           NEW S, S = {j \in D : Cardinality({k \in D : k < j}) < m}
    PROVE  IsFiniteSet(S) /\ Cardinality(S) \in Nat /\ Cardinality(S) <= m
<1>1. IsFiniteSet(D) /\ IsFiniteSet(S)
  <2>1. IsFiniteSet(0..top)
    <3>1. 0 \in Int /\ top \in Int
      OBVIOUS
    <3> QED
      BY <3>1, FS_Interval
  <2>2. D \in SUBSET (0..top) /\ S \in SUBSET (0..top)
    OBVIOUS
  <2> QED
    BY <2>1, <2>2, FS_Subset
<1>2. Cardinality(S) \in Nat
  BY <1>1, FS_CardinalityType
<1>3. CASE S = {}
  <2>1. Cardinality(S) = 0
    BY <1>3, FS_EmptySet
  <2> QED
    BY <1>1, <2>1
<1>4. CASE S # {}
  <2>1. S \in SUBSET (0..top)
    OBVIOUS
  <2>2. PICK j \in S : \A y \in S : y <= j
    BY <1>4, <2>1, Greatest
  <2> DEFINE T == {k \in D : k < j}
  <2>3. T \in SUBSET D /\ IsFiniteSet(T)
    <3>1. T \in SUBSET D
      OBVIOUS
    <3> QED
      BY <1>1, <3>1, FS_Subset
  <2>4. Cardinality(T) \in Nat /\ Cardinality(T) < m
    BY <2>3, FS_CardinalityType
  <2>5. j \notin T
    BY <2>1
  <2>6. S \in SUBSET (T \cup {j})
    BY <2>1, <2>2
  <2> HIDE DEF T
  <2>7. IsFiniteSet(T \cup {j}) /\ Cardinality(T \cup {j}) = Cardinality(T) + 1
    BY <2>3, <2>5, FS_AddElement
  <2>8. Cardinality(S) <= Cardinality(T \cup {j})
    BY <2>6, <2>7, FS_Subset
  <2> QED
    BY <1>2, <1>1, <2>4, <2>7, <2>8
<1> QED
  BY <1>3, <1>4

IsMoved(T, S, c) == T = {c + i : i \in S}

\* Moving a set of numbers does not change how many there are.
LEMMA Moved ==
    ASSUME NEW S \in SUBSET Int, IsFiniteSet(S), NEW c \in Int,
           NEW T, IsMoved(T, S, c)
    PROVE  IsFiniteSet(T) /\ Cardinality(T) = Cardinality(S)
<1> DEFINE f == [i \in S |-> c + i]
<1>1. f \in Surjection(S, T)
  BY DEF Surjection, IsMoved
<1>2. f \in Injection(S, T)
  <2>1. f \in [S -> T]
    BY DEF IsMoved
  <2>2. \A x, y \in S : f[x] = f[y] => x = y
    OBVIOUS
  <2> HIDE DEF f
  <2> QED
    BY <2>1, <2>2 DEF Injection, IsInjective
<1>3. ExistsBijection(S, T)
  BY <1>1, <1>2 DEF ExistsBijection, Bijection
<1> QED
  BY <1>3, FS_Bijection

----------------------------------------------------------------------------
(* One turn                                                                *)

\* The reader is at a cell it cannot read, and stays there.
Stuck(v, p) == p < v.size /\ ~HasCell(v, p)

\* What a turn takes from one image.
Got(v, p) == IF ReadErr(v, p, BUF) THEN 0 ELSE ReadLen(v, p, BUF)

\* The places before k at which the disks of p differ.
Diffs(p, k) == {o \in 0..(k - 1) : p.a.cells[o].val # p.b.cells[o].val}

\* A reader that is stuck returns nothing, and one that returns less than the
\* buffer has met an end, the end of the disk, or is stuck.
LEMMA GotStops ==
    ASSUME NEW v, IsView(v), NEW p \in Nat, p <= v.size,
           NEW k, k = Got(v, p)
    PROVE  /\ k \in 0..BUF /\ p + k <= v.size
           /\ \A o \in (p + 1)..(p + k - 1) : o \notin v.ends
           /\ k < BUF => \/ p + k = v.size \/ Stuck(v, p + k)
                         \/ k > 0 /\ p + k \in v.ends
           /\ Stuck(v, p) => k = 0
<1>0. BUF \in Nat \ {0} /\ v.size \in Nat
  BY DiffAssumption DEF IsView
<1>1. CASE ReadErr(v, p, BUF)
  <2>1. k = 0 /\ Stuck(v, p)
    BY <1>1 DEF Got, ReadErr, Stuck, HasCell
  <2>2. (p + 1)..(p + k - 1) = {} /\ p + k = p /\ k \in 0..BUF
    BY <1>0, <2>1
  <2> QED
    BY <2>1, <2>2
<1>2. CASE ~ReadErr(v, p, BUF)
  <2>1. k = ReadLen(v, p, BUF)
    BY <1>2 DEF Got
  <2>2. /\ k \in 0..BUF /\ p + k <= v.size
        /\ \A o \in p..(p + k - 1) : HasCell(v, o)
        /\ \A o \in (p + 1)..(p + k - 1) : o \notin v.ends
        /\ (k < BUF /\ p + k < v.size) =>
               ~HasCell(v, p + k) \/ (k > 0 /\ p + k \in v.ends)
    BY <1>0, <2>1, ReadStops
  <2>3. k < BUF => p + k = v.size \/ Stuck(v, p + k) \/ (k > 0 /\ p + k \in v.ends)
    BY <1>0, <2>2 DEF Stuck
  <2>4. ASSUME Stuck(v, p), k # 0 PROVE FALSE
    <3>1. p \in p..(p + k - 1)
      BY <1>0, <2>2, <2>4
    <3> QED
      BY <2>2, <2>4, <3>1 DEF Stuck
  <2> QED
    BY <2>2, <2>3, <2>4
<1> QED
  BY <1>1, <1>2

\* Where the next read may begin: anywhere if the ends are the same, else at a
\* multiple of the buffer or the end of the disk.
Aligned(p, o) == p.a.ends = p.b.ends \/ o % BUF = 0 \/ o = p.a.size

\* Readers in step stay in step until one of them is stuck.
LEMMA TurnInStep ==
    ASSUME NEW p, IsView(p.a), IsView(p.b), p.a.size = p.b.size, CutAlike(p),
           NEW o \in Nat, o <= p.a.size, Aligned(p, o),
           NEW ka, ka = Got(p.a, o), NEW kb, kb = Got(p.b, o)
    PROVE  \/ Stuck(p.a, o + ka)
           \/ Stuck(p.b, o + kb)
           \/ ka = kb /\ Aligned(p, o + ka)
<1>0. BUF \in Nat \ {0} /\ p.a.size \in Nat
  BY DiffAssumption DEF IsView
<1> SUFFICES ASSUME ~Stuck(p.a, o + ka), ~Stuck(p.b, o + kb)
             PROVE  ka = kb /\ Aligned(p, o + ka)
  OBVIOUS
<1>1. /\ ka \in 0..BUF /\ o + ka <= p.a.size
      /\ \A x \in (o + 1)..(o + ka - 1) : x \notin p.a.ends
      /\ ka < BUF => o + ka = p.a.size \/ (ka > 0 /\ o + ka \in p.a.ends)
  BY GotStops
<1>2. /\ kb \in 0..BUF /\ o + kb <= p.a.size
      /\ \A x \in (o + 1)..(o + kb - 1) : x \notin p.b.ends
      /\ kb < BUF => o + kb = p.a.size \/ (kb > 0 /\ o + kb \in p.b.ends)
  BY GotStops
<1>3. CASE p.a.ends = p.b.ends
  <2>1. ~(ka < kb)
    <3> SUFFICES ASSUME ka < kb PROVE FALSE
      OBVIOUS
    <3>1. ka < BUF /\ o + ka # p.a.size
      BY <1>0, <1>1, <1>2
    <3>2. ka > 0 /\ o + ka \in p.b.ends
      BY <1>1, <1>3, <3>1
    <3>3. o + ka \in (o + 1)..(o + kb - 1)
      BY <1>1, <1>2, <3>2
    <3> QED
      BY <1>2, <3>2, <3>3
  <2>2. ~(kb < ka)
    <3> SUFFICES ASSUME kb < ka PROVE FALSE
      OBVIOUS
    <3>1. kb < BUF /\ o + kb # p.a.size
      BY <1>0, <1>1, <1>2
    <3>2. kb > 0 /\ o + kb \in p.a.ends
      BY <1>2, <1>3, <3>1
    <3>3. o + kb \in (o + 1)..(o + ka - 1)
      BY <1>1, <1>2, <3>2
    <3> QED
      BY <1>1, <3>2, <3>3
  <2>3. ka = kb
    BY <1>1, <1>2, <2>1, <2>2
  <2> QED
    BY <1>3, <2>3 DEF Aligned
<1>4. CASE p.a.ends # p.b.ends
  <2>0. \A e \in p.a.ends \cup p.b.ends : e % BUF = 0
    BY <1>4 DEF CutAlike
  <2>1. CASE o = p.a.size
    <3>1. ka = 0 /\ kb = 0 /\ o + ka = o
      BY <1>0, <1>1, <1>2, <2>1
    <3> QED
      BY <3>1, <2>1 DEF Aligned
  <2>2. CASE o % BUF = 0
    <3>1. (o + BUF) % BUF = 0 /\ \A k \in 1..(BUF - 1) : (o + k) % BUF # 0
      BY <1>0, <2>2, Multiples
    <3>2. ka = BUF \/ o + ka = p.a.size
      <4> SUFFICES ASSUME ka # BUF, o + ka # p.a.size PROVE FALSE
        OBVIOUS
      <4>1. ka > 0 /\ (o + ka) % BUF = 0 /\ ka \in 1..(BUF - 1)
        BY <1>0, <1>1, <2>0
      <4> QED
        BY <3>1, <4>1
    <3>3. kb = BUF \/ o + kb = p.a.size
      <4> SUFFICES ASSUME kb # BUF, o + kb # p.a.size PROVE FALSE
        OBVIOUS
      <4>1. kb > 0 /\ (o + kb) % BUF = 0 /\ kb \in 1..(BUF - 1)
        BY <1>0, <1>2, <2>0
      <4> QED
        BY <3>1, <4>1
    <3>4. ka = kb
      BY <1>0, <1>1, <1>2, <3>2, <3>3
    <3> QED
      BY <3>1, <3>2, <3>4 DEF Aligned
  <2> QED
    BY <1>4, <2>1, <2>2 DEF Aligned
<1> QED
  BY <1>3, <1>4

\* A union has at most as many members as its parts together.
LEMMA UnionAtMost ==
    ASSUME NEW S, IsFiniteSet(S), NEW T, IsFiniteSet(T)
    PROVE  Cardinality(S \cup T) \in Nat /\ Cardinality(S \cup T) <= Cardinality(S) + Cardinality(T)
<1>1. /\ IsFiniteSet(S \cup T)
      /\ Cardinality(S \cup T) = Cardinality(S) + Cardinality(T) - Cardinality(S \cap T)
  BY FS_Union
<1>2. IsFiniteSet(S \cap T)
  BY FS_Intersection
<1>3. /\ Cardinality(S) \in Nat /\ Cardinality(T) \in Nat
      /\ Cardinality(S \cap T) \in Nat /\ Cardinality(S \cup T) \in Nat
  BY <1>1, <1>2, FS_CardinalityType
<1>4. \A u, s, x, i \in Nat : u = s + x - i => u <= s + x
  OBVIOUS
<1> QED
  BY <1>1, <1>3, <1>4

\* Places of a disk are finitely many.
LEMMA DiffsFinite ==
    ASSUME NEW p, NEW k \in Nat
    PROVE  IsFiniteSet(Diffs(p, k)) /\ Cardinality(Diffs(p, k)) \in Nat
<1>1. 0 \in Int /\ k - 1 \in Int
  OBVIOUS
<1>2. IsFiniteSet(0..(k - 1)) /\ Diffs(p, k) \in SUBSET (0..(k - 1))
  BY <1>1, FS_Interval DEF Diffs
<1> QED
  BY <1>2, FS_Subset, FS_CardinalityType

\* The names of the sets of a turn of k cells at o with c differences before it.
IsDifferent(D, p, o, k) ==
    D = {i \in 0..(k - 1) : p.a.cells[o + i].val # p.b.cells[o + i].val}
IsFirst(F, D, c) == F = {j \in D : c + Cardinality({i \in D : i < j}) < REPORTS}

\* What a turn of k cells at o counts and prints: the count stays that of the
\* differing places so far, and at most REPORTS of them are printed.
LEMMA TurnCounts ==
    ASSUME NEW p, NEW o \in Nat, NEW k \in Nat,
           NEW c, c = Cardinality(Diffs(p, o)),
           NEW rep \in SUBSET Diffs(p, o), Cardinality(rep) <= c, Cardinality(rep) <= REPORTS,
           NEW D, IsDifferent(D, p, o, k), NEW F, IsFirst(F, D, c), NEW P, IsMoved(P, F, o)
    PROVE  /\ Cardinality(Diffs(p, o + k)) = c + Cardinality(D)
           /\ rep \cup P \in SUBSET Diffs(p, o + k)
           /\ Cardinality(rep \cup P) <= c + Cardinality(D)
           /\ Cardinality(rep \cup P) <= REPORTS
<1> DEFINE M == {o + i : i \in D}
<1>0. /\ REPORTS \in Nat /\ c \in Nat /\ IsFiniteSet(Diffs(p, o))
      /\ IsFiniteSet(rep) /\ Cardinality(rep) \in Nat
  BY DiffAssumption, DiffsFinite, FS_Subset, FS_CardinalityType
<1>1. IsFiniteSet(D) /\ Cardinality(D) \in Nat /\ D \in SUBSET (0..k) /\ D \in SUBSET Int
  <2>1. D \in SUBSET (0..k) /\ 0 \in Int /\ k \in Int /\ D \in SUBSET Int
    BY DEF IsDifferent
  <2>2. IsFiniteSet(0..k)
    BY <2>1, FS_Interval
  <2> QED
    BY <2>1, <2>2, FS_Subset, FS_CardinalityType
<1>2. Diffs(p, o + k) = Diffs(p, o) \cup M /\ Diffs(p, o) \cap M = {}
  <2>1. ASSUME NEW x \in Diffs(p, o + k), x \notin Diffs(p, o) PROVE x \in M
    <3>1. x - o \in 0..(k - 1) /\ o + (x - o) = x
      BY <2>1 DEF Diffs
    <3>2. x - o \in D
      BY <2>1, <3>1 DEF Diffs, IsDifferent
    <3> QED
      BY <3>1, <3>2
  <2>2. ASSUME NEW i \in D PROVE o + i \in Diffs(p, o + k) /\ o + i \notin Diffs(p, o)
    BY DEF Diffs, IsDifferent
  <2>3. Diffs(p, o) \subseteq Diffs(p, o + k)
    BY DEF Diffs
  <2> QED
    BY <2>1, <2>2, <2>3
<1>3. IsFiniteSet(M) /\ Cardinality(M) = Cardinality(D)
  <2>1. o \in Int /\ IsMoved(M, D, o)
    BY DEF IsMoved
  <2> HIDE DEF M
  <2> QED
    BY <1>1, <2>1, Moved
<1>4. P \subseteq M
  BY DEF IsMoved, IsFirst
<1>5. F \in SUBSET D /\ IsFiniteSet(F) /\ F \in SUBSET Int
  <2>1. F \in SUBSET D
    BY DEF IsFirst
  <2> QED
    BY <1>1, <2>1, FS_Subset
<1>6. IsFiniteSet(P) /\ Cardinality(P) = Cardinality(F) /\ Cardinality(P) \in Nat
  <2>1. o \in Int /\ IsMoved(P, F, o)
    OBVIOUS
  <2>2. IsFiniteSet(P) /\ Cardinality(P) = Cardinality(F)
    BY <1>5, <2>1, Moved
  <2> QED
    BY <2>2, FS_CardinalityType
<1>7. Cardinality(P) <= Cardinality(D)
  BY <1>1, <1>5, <1>6, FS_Subset
<1>8. c + Cardinality(P) <= REPORTS \/ Cardinality(P) = 0
  <2>0. \A j \in D : Cardinality({i \in D : i < j}) \in Nat
    <3> SUFFICES ASSUME NEW j \in D PROVE Cardinality({i \in D : i < j}) \in Nat
      OBVIOUS
    <3>1. {i \in D : i < j} \in SUBSET D
      OBVIOUS
    <3> QED
      BY <1>1, <3>1, FS_Subset, FS_CardinalityType
  <2>1. CASE c < REPORTS
    <3>1. REPORTS - c \in Nat
      BY <1>0, <2>1
    <3>2. F = {j \in D : Cardinality({i \in D : i < j}) < REPORTS - c}
      BY <1>0, <2>0 DEF IsFirst
    <3>3. Cardinality(F) <= REPORTS - c
      BY <1>1, <3>1, <3>2, FirstMembers
    <3> QED
      BY <1>0, <1>6, <3>3
  <2>2. CASE ~(c < REPORTS)
    <3>1. F = {}
      BY <1>0, <2>0, <2>2 DEF IsFirst
    <3> QED
      BY <1>6, <3>1, FS_EmptySet
  <2> QED
    BY <2>1, <2>2
<1> HIDE DEF M
<1>9. Cardinality(Diffs(p, o + k)) = c + Cardinality(D)
  <2>1. Cardinality(Diffs(p, o) \cup M) = c + Cardinality(M) - Cardinality(Diffs(p, o) \cap M)
    BY <1>0, <1>3, FS_Union
  <2>2. Cardinality(Diffs(p, o) \cap M) = 0
    BY <1>2, FS_EmptySet
  <2>3. Cardinality(Diffs(p, o + k)) = Cardinality(Diffs(p, o) \cup M)
    BY <1>2
  <2> QED
    BY <1>0, <1>1, <1>3, <2>1, <2>2, <2>3
<1>10. /\ Cardinality(rep \cup P) \in Nat
       /\ Cardinality(rep \cup P) <= Cardinality(rep) + Cardinality(P)
  BY <1>0, <1>6, UnionAtMost
<1>11. rep \cup P \in SUBSET Diffs(p, o + k)
  BY <1>2, <1>4
<1>12. /\ Cardinality(rep \cup P) <= c + Cardinality(D)
       /\ Cardinality(rep \cup P) <= REPORTS
  <2>1. ASSUME NEW u \in Nat, NEW r \in Nat, NEW q \in Nat, NEW d \in Nat,
               u <= r + q, r <= c, r <= REPORTS, q <= d, c + q <= REPORTS \/ q = 0
        PROVE  u <= c + d /\ u <= REPORTS
    BY <1>0, <2>1
  <2> QED
    BY <1>0, <1>1, <1>6, <1>7, <1>8, <1>10, <2>1
<1> QED
  BY <1>9, <1>11, <1>12

----------------------------------------------------------------------------
(* The inductive invariant                                                 *)

Fresh == pa = 0 /\ pb = 0 /\ offset = 0 /\ diff_count = 0 /\ reported = {}

\* Both images are open.
Opened == IsView(A) /\ IsView(B)

\* The cursors and the offset are on the disk.
OnDisk ==
    /\ pa \in Nat /\ pa <= A.size
    /\ pb \in Nat /\ pb <= A.size
    /\ offset \in Nat /\ offset <= A.size

\* The readers stand where the comparison stands, or one of them is stuck and
\* nothing is compared any more.
InTurn ==
    \/ Stuck(A, pa)
    \/ Stuck(B, pb)
    \/ pa = offset /\ pb = offset /\ Aligned(pair, offset)

\* What has been counted and printed.
Counted ==
    /\ diff_count = Cardinality(Diffs(pair, offset))
    /\ reported \in SUBSET Diffs(pair, offset)
    /\ Cardinality(reported) <= diff_count
    /\ Cardinality(reported) <= REPORTS

Compared ==
    /\ Opened
    /\ A.size = B.size
    /\ CutAlike(pair) => OnDisk /\ InTurn /\ Counted

IInv ==
    /\ pair \in Pairs
    /\ \/ st \in {"start", "failed"} /\ Fresh
       \/ st = "differ" /\ Fresh /\ Opened /\ A.size # B.size
       \/ st = "comparing" /\ Compared
       \/ /\ st \in {"identical", "differ"}
          /\ Compared
          /\ Exhausted
          /\ st = "identical" <=> diff_count = 0

\* What the two reads of a turn return.
LEMMA TurnReads == na = Got(A, pa) /\ nb = Got(B, pb)
BY DEF na, nb, Got

LEMMA InitInv == Init => IInv
BY DEF Init, IInv, Fresh

\* Nothing is counted before the first turn.
LEMMA FreshCounted ==
    ASSUME Fresh, Opened, A.size = B.size
    PROVE  OnDisk /\ InTurn /\ Counted
<1>1. A.size \in Nat /\ BUF \in Nat \ {0} /\ REPORTS \in Nat
  BY DiffAssumption DEF Opened, IsView
<1>2. OnDisk
  BY <1>1 DEF Fresh, OnDisk
<1>3. InTurn
  <2>1. 0 % BUF = 0
    BY <1>1
  <2> QED
    BY <2>1 DEF Fresh, InTurn, Aligned
<1>4. Counted
  <2>1. Diffs(pair, 0) = {}
    BY DEF Diffs
  <2>2. Cardinality({}) = 0
    BY FS_EmptySet
  <2> QED
    BY <1>1, <2>1, <2>2 DEF Fresh, Counted
<1> QED
  BY <1>2, <1>3, <1>4

LEMMA OpenInv == IInv /\ OpenBoth => IInv'
<1> SUFFICES ASSUME IInv, OpenBoth PROVE IInv'
  OBVIOUS
<1>1. st = "start" /\ Fresh /\ pair \in Pairs
  BY DEF IInv, OpenBoth
<1>2. UNCHANGED <<pair, pa, pb, offset, diff_count, reported>>
  BY DEF OpenBoth
<1>3. Fresh' /\ pair' \in Pairs
  BY <1>1, <1>2 DEF Fresh
<1>4. CASE A.size = -1 \/ B.size = -1
  <2>1. st' = "failed"
    BY <1>4 DEF OpenBoth
  <2> QED
    BY <1>3, <2>1 DEF IInv
<1>5. CASE ~(A.size = -1 \/ B.size = -1)
  <2>1. Opened
    BY <1>1, <1>5, DiffAssumption DEF Opened, A, B
  <2>2. Opened' /\ A' = A /\ B' = B
    BY <1>2, <2>1 DEF Opened, A, B
  <2>3. CASE A.size # B.size
    <3>1. st' = "differ"
      BY <1>5, <2>3 DEF OpenBoth
    <3> QED
      BY <1>3, <2>2, <2>3, <3>1 DEF IInv
  <2>4. CASE A.size = B.size
    <3>1. st' = "comparing"
      BY <1>5, <2>4 DEF OpenBoth
    <3>2. Compared
      BY <1>1, <2>1, <2>4, FreshCounted DEF Compared
    <3>3. Compared'
      BY <3>2, <1>2 DEF Compared, Opened, OnDisk, InTurn, Counted, A, B
    <3> QED
      BY <1>3, <3>1, <3>3 DEF IInv
  <2> QED
    BY <2>3, <2>4
<1> QED
  BY <1>4, <1>5

\* A turn of the loop.
LEMMA TurnInv ==
    ASSUME Compared, Compare, ~Exhausted
    PROVE  Compared'
<1>1. /\ pa' = pa + na /\ pb' = pb + nb /\ offset' = offset + n
      /\ diff_count' = diff_count + Cardinality(Different)
      /\ reported' = reported \cup Printed
      /\ pair' = pair
  BY DEF Compare
<1>2. Opened /\ A.size = B.size /\ A' = A /\ B' = B
  BY <1>1 DEF Compared, A, B
<1>3. Opened' /\ (A.size = B.size)'
  BY <1>2 DEF Opened
<1> SUFFICES ASSUME CutAlike(pair) PROVE OnDisk' /\ InTurn' /\ Counted'
  BY <1>1, <1>3 DEF Compared
<1>4. OnDisk /\ InTurn /\ Counted
  BY DEF Compared
<1>5. A.size \in Nat /\ BUF \in Nat
  BY <1>2, DiffAssumption DEF Opened, IsView
<1>6. /\ na \in 0..BUF /\ pa + na <= A.size
      /\ Stuck(A, pa) => na = 0
  BY <1>2, <1>4, TurnReads, GotStops DEF Opened, OnDisk
<1>7. /\ nb \in 0..BUF /\ pb + nb <= A.size
      /\ Stuck(B, pb) => nb = 0
  BY <1>2, <1>4, TurnReads, GotStops DEF Opened, OnDisk
<1>8. n \in Nat /\ n <= na /\ n <= nb /\ (n = na \/ n = nb)
  BY <1>6, <1>7 DEF n
<1>9. CASE Stuck(A, pa) \/ Stuck(B, pb)
  <2>1. n = 0
    BY <1>6, <1>7, <1>8, <1>9
  <2>2. Different = {}
    BY <2>1 DEF Different
  <2>3. Printed = {}
    BY <2>2 DEF Printed
  <2>4. Cardinality(Different) = 0
    BY <2>2, FS_EmptySet
  <2>5. diff_count \in Nat
    BY <1>4, DiffsFinite DEF Counted, OnDisk
  <2>6. offset' = offset /\ diff_count' = diff_count /\ reported' = reported
    BY <1>1, <1>4, <2>1, <2>3, <2>4, <2>5 DEF OnDisk
  <2>7. Counted'
    BY <1>1, <1>4, <2>6 DEF Counted
  <2>8. OnDisk'
    BY <1>1, <1>2, <1>4, <1>6, <1>7, <2>6 DEF OnDisk
  <2>9. InTurn'
    <3>1. CASE Stuck(A, pa)
      <4>1. pa' = pa
        BY <1>1, <1>4, <1>6, <3>1 DEF OnDisk
      <4> QED
        BY <1>2, <3>1, <4>1 DEF InTurn
    <3>2. CASE Stuck(B, pb)
      <4>1. pb' = pb
        BY <1>1, <1>4, <1>7, <3>2 DEF OnDisk
      <4> QED
        BY <1>2, <3>2, <4>1 DEF InTurn
    <3> QED
      BY <1>9, <3>1, <3>2
  <2> QED
    BY <2>7, <2>8, <2>9
<1>10. CASE ~(Stuck(A, pa) \/ Stuck(B, pb))
  <2>1. pa = offset /\ pb = offset /\ Aligned(pair, offset)
    BY <1>4, <1>10 DEF InTurn
  <2>2. OnDisk'
    BY <1>1, <1>2, <1>4, <1>5, <1>6, <1>7, <1>8, <2>1 DEF OnDisk
  <2>3. \/ Stuck(A, offset + na)
        \/ Stuck(B, offset + nb)
        \/ na = nb /\ Aligned(pair, offset + na)
    BY <1>2, <1>4, <2>1, TurnReads, TurnInStep DEF Opened, OnDisk, A, B
  <2>4. InTurn'
    <3>1. CASE Stuck(A, offset + na)
      BY <1>1, <1>2, <2>1, <3>1 DEF InTurn
    <3>2. CASE Stuck(B, offset + nb)
      BY <1>1, <1>2, <2>1, <3>2 DEF InTurn
    <3>3. CASE na = nb /\ Aligned(pair, offset + na)
      <4>1. n = na
        BY <1>8, <3>3
      <4> QED
        BY <1>1, <2>1, <3>3, <4>1 DEF InTurn
    <3> QED
      BY <2>3, <3>1, <3>2, <3>3
  <2>5. Counted'
    <3> DEFINE F == {j \in Different :
                        diff_count + Cardinality({i \in Different : i < j}) < REPORTS}
    <3>1. IsDifferent(Different, pair, offset, n)
      BY <2>1 DEF IsDifferent, Different, A, B
    <3>2. IsFirst(F, Different, diff_count) /\ IsMoved(Printed, F, offset)
      BY DEF Printed, IsFirst, IsMoved
    <3>3. /\ offset \in Nat /\ diff_count = Cardinality(Diffs(pair, offset))
          /\ reported \in SUBSET Diffs(pair, offset)
          /\ Cardinality(reported) <= diff_count
          /\ Cardinality(reported) <= REPORTS
      BY <1>4 DEF Counted, OnDisk
    <3> HIDE DEF F
    <3>4. /\ Cardinality(Diffs(pair, offset + n)) = diff_count + Cardinality(Different)
          /\ reported \cup Printed \in SUBSET Diffs(pair, offset + n)
          /\ Cardinality(reported \cup Printed) <= diff_count + Cardinality(Different)
          /\ Cardinality(reported \cup Printed) <= REPORTS
      BY <1>8, <3>1, <3>2, <3>3, TurnCounts
    <3> QED
      BY <1>1, <3>4 DEF Counted
  <2> QED
    BY <2>2, <2>4, <2>5
<1> QED
  BY <1>9, <1>10

LEMMA CompareInv == IInv /\ Compare => IInv'
<1> SUFFICES ASSUME IInv, Compare PROVE IInv'
  OBVIOUS
<1>1. st = "comparing" /\ Compared /\ pair \in Pairs /\ pair' = pair
  BY DEF IInv, Compare
<1>2. CASE ~Exhausted
  <2>1. st' = st
    BY <1>2 DEF Compare
  <2>2. Compared'
    BY <1>1, <1>2, TurnInv
  <2> QED
    BY <1>1, <2>1, <2>2 DEF IInv
<1>3. CASE Exhausted
  <2>1. /\ st' = IF diff_count = 0 THEN "identical" ELSE "differ"
        /\ UNCHANGED <<pair, pa, pb, offset, diff_count, reported>>
    BY <1>3 DEF Compare
  <2>2. Compared'
    BY <1>1, <2>1 DEF Compared, Opened, OnDisk, InTurn, Counted, A, B
  <2>3. Exhausted'
    BY <1>3, <2>1 DEF Exhausted, na, nb, A, B
  <2>4. st' \in {"identical", "differ"} /\ (st' = "identical" <=> diff_count' = 0)
    BY <2>1
  <2> QED
    BY <1>1, <2>2, <2>3, <2>4 DEF IInv
<1> QED
  BY <1>2, <1>3

LEMMA NextInv == IInv /\ [Next]_vars => IInv'
<1>1. IInv /\ UNCHANGED vars => IInv'
  BY DEF vars, IInv, Fresh, Compared, Opened, OnDisk, InTurn, Counted, Exhausted, na, nb, A, B
<1> QED
  BY <1>1, OpenInv, CompareInv DEF Next

LEMMA Invariance == Spec => []IInv
BY InitInv, NextInv, PTL DEF Spec

----------------------------------------------------------------------------
(* The results                                                             *)

\* When neither of two readable images returns anything, all has been compared.
LEMMA AllCompared ==
    ASSUME Compared, CutAlike(pair), Exhausted, Whole(A), Whole(B)
    PROVE  offset = A.size
<1>1. /\ IsView(A) /\ IsView(B) /\ A.size = B.size
      /\ pa \in Nat /\ pa <= A.size /\ pb \in Nat /\ pb <= A.size
  BY DEF Compared, Opened, OnDisk
<1>2. A.size \in Nat /\ BUF \in Nat \ {0}
  BY <1>1, DiffAssumption DEF IsView
<1>3. ~Stuck(A, pa) /\ ~Stuck(B, pb)
  <2>1. \A x \in Nat : x < A.size => x \in 0..(A.size - 1)
    BY <1>2
  <2> QED
    BY <1>1, <2>1 DEF Stuck, Whole
<1>4. pa = offset
  BY <1>3 DEF Compared, InTurn
<1>5. na = 0 /\ na = Got(A, pa)
  BY TurnReads DEF Exhausted
<1>6. na < BUF => pa + na = A.size \/ Stuck(A, pa + na) \/ (na > 0 /\ pa + na \in A.ends)
  BY <1>1, <1>5, GotStops
<1>7. pa + na = pa /\ na < BUF /\ ~(na > 0)
  BY <1>1, <1>2, <1>5
<1> QED
  BY <1>3, <1>4, <1>6, <1>7

\* The verdict of diff is right for all readable images whose reads are cut at
\* the same offsets, and the count is the number of differing cells.
THEOREM DiffVerdictIsRight == Spec => [](CutAlike(pair) => VerdictRight)
<1>1. ASSUME IInv, CutAlike(pair) PROVE VerdictRight
  <2> SUFFICES ASSUME st \in {"identical", "differ"}, Whole(A), Whole(B)
               PROVE  /\ st = "identical" <=> SameDisk
                      /\ A.size = B.size =>
                             diff_count = Cardinality({o \in DOMAIN A.cells :
                                              A.cells[o].val # B.cells[o].val})
    BY DEF VerdictRight
  <2>1. CASE st = "differ" /\ A.size # B.size
    BY <2>1 DEF SameDisk
  <2>2. CASE ~(st = "differ" /\ A.size # B.size)
    <3>1. Compared /\ Exhausted /\ (st = "identical" <=> diff_count = 0)
      BY <1>1, <2>2 DEF IInv
    <3>2. offset = A.size /\ A.size = B.size /\ IsView(A)
      BY <1>1, <3>1, AllCompared DEF Compared, Opened
    <3>3. DOMAIN A.cells = 0..(A.size - 1) /\ A.size \in Nat
      BY <3>2 DEF IsView
    <3>4. diff_count = Cardinality(Diffs(pair, A.size))
      BY <1>1, <3>1, <3>2 DEF Compared, Counted
    <3>5. Diffs(pair, A.size) = {o \in DOMAIN A.cells : A.cells[o].val # B.cells[o].val}
      BY <3>3 DEF Diffs, A, B
    <3>6. diff_count = 0 <=> Diffs(pair, A.size) = {}
      BY <3>3, <3>4, DiffsFinite, FS_EmptySet
    <3>7. SameDisk <=> Diffs(pair, A.size) = {}
      BY <3>2, <3>5 DEF SameDisk
    <3> QED
      BY <3>1, <3>4, <3>5, <3>6, <3>7
  <2> QED
    BY <2>1, <2>2
<1>2. IInv => (CutAlike(pair) => VerdictRight)
  BY <1>1
<1> QED
  BY <1>2, Invariance, PTL

\* Every offset diff prints for such images, readable or not, is one at which
\* they differ, and no more than REPORTS are printed.
THEOREM DiffReportsAreReal == Spec => [](CutAlike(pair) => ReportsAreReal)
<1>1. ASSUME IInv, CutAlike(pair) PROVE ReportsAreReal
  <2>1. CASE Fresh
    <3>1. REPORTS \in Nat /\ Cardinality({}) = 0
      BY DiffAssumption, FS_EmptySet
    <3> QED
      BY <2>1, <3>1 DEF Fresh, ReportsAreReal
  <2>2. CASE Compared
    <3>1. /\ reported \in SUBSET Diffs(pair, offset) /\ Cardinality(reported) <= REPORTS
          /\ offset \in Nat /\ offset <= A.size /\ IsView(A)
      BY <1>1, <2>2 DEF Compared, Counted, OnDisk, Opened
    <3>2. DOMAIN A.cells = 0..(A.size - 1) /\ A.size \in Nat
      BY <3>1 DEF IsView
    <3>3. 0..(offset - 1) \subseteq DOMAIN A.cells
      BY <3>1, <3>2
    <3> QED
      BY <3>1, <3>3 DEF Diffs, ReportsAreReal, A, B
  <2> QED
    BY <1>1, <2>1, <2>2 DEF IInv
<1>2. IInv => (CutAlike(pair) => ReportsAreReal)
  BY <1>1
<1> QED
  BY <1>2, Invariance, PTL
=============================================================================
