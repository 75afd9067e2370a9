------------------------- MODULE ChainReader_proofs -------------------------
(***************************************************************************)
(* A snapshot chain, for every directory of files, any number of layers    *)
(* and any grain sizes: what open leaves behind, and that a chain whose    *)
(* layers fit together (Layered) implements the one disk they stand for.   *)
(***************************************************************************)
EXTENDS ChainReader, WellFoundedInduction, TLAPS

----------------------------------------------------------------------------
(* Numbers                                                                 *)

\* A nonempty set of natural numbers has a least one.
LEMMA LeastNatural ==
    ASSUME NEW T \in SUBSET Nat, T # {}
    PROVE  \E x \in T : \A y \in T : x <= y
<1> DEFINE R == OpToRel(<, Nat)
<1>1. IsWellFoundedOn(R, Nat)
  BY NatLessThanWellFounded
<1>2. \A x, y \in Nat : <<y, x>> \in R <=> y < x
  BY DEF OpToRel
<1> HIDE DEF R
<1>3. PICK x \in T : \A y \in T : ~ (<<y, x>> \in R)
  BY <1>1, WFMin
<1>4. ASSUME NEW y \in T PROVE x <= y
  <2>1. x \in Nat /\ y \in Nat /\ ~(<<y, x>> \in R)
    BY <1>3
  <2>2. ~(y < x)
    BY <1>2, <2>1
  <2> QED
    BY <2>1, <2>2
<1> QED
  BY <1>4

\* Quotient and remainder, and that their bounds determine them.
LEMMA DivMod ==
    ASSUME NEW a \in Nat, NEW b \in Nat \ {0}
    PROVE  a \div b \in Nat /\ a % b \in 0..(b - 1) /\ a = (a \div b) * b + (a % b)
OBVIOUS

LEMMA DivUnique ==
    ASSUME NEW q \in Nat, NEW b \in Nat \ {0}, NEW r \in 0..(b - 1)
    PROVE  (q * b + r) \div b = q
OBVIOUS

\* Two offsets in one grain of g cells; g is a multiple of c.
Together(a, b, g) == a \div g = b \div g
Divides(c, g) == \E m \in Nat \ {0} : g = m * c

\* An offset below the next multiple of c has the quotient of the one it began at.
LEMMA SameQuotient ==
    ASSUME NEW a \in Nat, NEW c \in Nat \ {0}, NEW i \in Nat, i < c - (a % c)
    PROVE  Together(a + i, a, c)
<1> DEFINE q == a \div c
           r == a % c
<1>1. q \in Nat /\ r \in 0..(c - 1) /\ a = q * c + r
  BY DivMod
<1>2. r + i \in 0..(c - 1)
  BY <1>1
<1>3. q * c \in Nat
  BY <1>1
<1> HIDE DEF q, r
<1>4. a + i = q * c + (r + i)
  BY <1>1, <1>3
<1>5. (q * c + (r + i)) \div c = q
  BY <1>1, <1>2, DivUnique
<1> QED
  BY <1>4, <1>5 DEF q, Together

\* What lies in one grain of c cells lies in one of any multiple of c.
LEMMA CoarserQuotient ==
    ASSUME NEW a \in Nat, NEW b \in Nat, NEW c \in Nat \ {0}, NEW g \in Nat \ {0},
           Divides(c, g), Together(a, b, c)
    PROVE  Together(a, b, g)
<1> USE DEF Together
<1> PICK m \in Nat \ {0} : g = m * c
  BY DEF Divides
<1> DEFINE k == a \div c
           Q == k \div m
           R == k % m
<1>1. k \in Nat
  BY DivMod
<1>2. Q \in Nat /\ R \in 0..(m - 1) /\ k = Q * m + R
  BY <1>1, DivMod
<1>3. m * c \in Nat \ {0}
  OBVIOUS
<1>4. ASSUME NEW x \in Nat, x \div c = k PROVE x \div (m * c) = Q
  <2> DEFINE r == x % c
  <2>1. r \in 0..(c - 1) /\ x = k * c + r
    BY <1>4, DivMod
  <2> HIDE DEF r, k, Q, R
  <2>2. k * c = Q * (m * c) + R * c
    BY <1>1, <1>2
  <2>3. R * c \in Nat /\ R * c <= (m - 1) * c /\ (m - 1) * c = m * c - c
    BY <1>2
  <2>4. R * c + r \in 0..(m * c - 1)
    BY <1>3, <2>1, <2>3
  <2>5. Q * (m * c) \in Nat
    BY <1>2, <1>3
  <2>6. x = Q * (m * c) + (R * c + r)
    BY <2>1, <2>2, <2>3, <2>5
  <2>7. (Q * (m * c) + (R * c + r)) \div (m * c) = Q
    BY <1>2, <1>3, <2>4, DivUnique
  <2> QED
    BY <2>6, <2>7
<1> QED
  BY <1>4

----------------------------------------------------------------------------
(* The inductive invariant                                                 *)

\* The readers open_path can make of the files of the directory.
Readers == {open_path(sc.files[n]) : n \in DOMAIN sc.files}

\* While it is being opened, a chain has not been used, and it has room for the
\* layer to come.
IInv ==
    /\ sc \in Scenarios
    /\ TypeOK
    /\ layers \in Seq(Readers)
    /\ st = "opening" => /\ Len(layers) <= MAX_CHAIN_DEPTH
                         /\ virtual_disk_size = 0 /\ pos = 0 /\ out.op = "none"

\* A reader has a size and a grain, which is 0 only in a Flat reader.
LEMMA ReaderType ==
    ASSUME sc \in Scenarios, NEW r \in Readers
    PROVE  /\ r.size \in Nat /\ r.grain \in Nat
           /\ r.flat \in BOOLEAN /\ (r.flat \/ r.grain > 0)
<1>1. PICK n \in DOMAIN sc.files : r = open_path(sc.files[n])
  BY DEF Readers
<1>2. sc.files[n].size \in Nat /\ sc.files[n].grain \in Nat \ {0}
  BY ChainAssumption DEF IsScenario
<1> DEFINE f == sc.files[n]
<1>3. /\ r.size = f.size
      /\ r.flat = (f.route \in {"flat", "multi"})
      /\ r.grain = IF f.route \in {"flat", "multi"} THEN 0 ELSE f.grain
  BY <1>1 DEF open_path
<1> HIDE DEF f
<1>4. CASE f.route \in {"flat", "multi"}
  <2>1. r.flat = TRUE /\ r.grain = 0
    BY <1>3, <1>4
  <2> QED
    BY <1>2, <1>3, <2>1 DEF f
<1>5. CASE f.route \notin {"flat", "multi"}
  <2>1. r.flat = FALSE /\ r.grain = f.grain
    <3>1. (f.route \in {"flat", "multi"}) = FALSE
      BY <1>5
    <3>2. r.flat = FALSE
      BY <1>3, <3>1
    <3> QED
      BY <1>3, <1>5, <3>2
  <2>2. f.grain \in Nat /\ f.grain > 0
    BY <1>2 DEF f
  <2> QED
    BY <1>2, <1>3, <2>1, <2>2 DEF f
<1> QED
  BY <1>4, <1>5

\* The clamp is the least grain of the sparse layers, or 0 where all are flat.
LEMMA MinGrainIs ==
    ASSUME sc \in Scenarios, NEW ls \in Seq(Readers)
    PROVE  /\ MinGrain(ls) \in Nat
           /\ \A i \in 1..Len(ls) : ls[i].grain > 0 => 0 < MinGrain(ls) /\ MinGrain(ls) <= ls[i].grain
           /\ MinGrain(ls) > 0 => \E i \in 1..Len(ls) : MinGrain(ls) = ls[i].grain
<1> DEFINE grains == {ls[i].grain : i \in 1..Len(ls)} \ {0}
<1>1. \A i \in 1..Len(ls) : ls[i].grain \in Nat
  <2> SUFFICES ASSUME NEW i \in 1..Len(ls) PROVE ls[i].grain \in Nat
    OBVIOUS
  <2>1. ls[i] \in Readers
    OBVIOUS
  <2> QED
    BY <2>1, ReaderType
<1>2. grains \in SUBSET Nat /\ 0 \notin grains
  BY <1>1
<1>3. \A i \in 1..Len(ls) : ls[i].grain > 0 => ls[i].grain \in grains
  BY <1>1
<1>4. \A g \in grains : \E i \in 1..Len(ls) : g = ls[i].grain
  OBVIOUS
<1>5. MinGrain(ls) = IF grains = {} THEN 0 ELSE CHOOSE g \in grains : \A h \in grains : g <= h
  BY DEF MinGrain
<1> HIDE DEF grains
<1>6. CASE grains = {}
  BY <1>3, <1>5, <1>6
<1>7. CASE grains # {}
  <2>1. \E g \in grains : \A h \in grains : g <= h
    BY <1>2, <1>7, LeastNatural
  <2>2. MinGrain(ls) \in grains /\ \A h \in grains : MinGrain(ls) <= h
    BY <1>5, <1>7, <2>1
  <2>3. MinGrain(ls) \in Nat /\ MinGrain(ls) > 0
    <3>1. \A g \in grains : g \in Nat /\ g > 0
      <4> SUFFICES ASSUME NEW g \in grains PROVE g \in Nat /\ g > 0
        OBVIOUS
      <4>1. g \in Nat /\ g # 0
        BY <1>2
      <4> QED
        BY <4>1
    <3> QED
      BY <2>2, <3>1
  <2> QED
    BY <1>3, <1>4, <2>2, <2>3
<1> QED
  BY <1>6, <1>7

LEMMA InitIInv == Init => IInv
<1> SUFFICES ASSUME Init PROVE IInv
  OBVIOUS
<1>1. Len(layers) = 0 /\ layers \in Seq(Readers) /\ MAX_CHAIN_DEPTH \in Nat
  BY ChainAssumption DEF Init
<1> QED
  BY <1>1 DEF Init, IInv, TypeOK, Answer

\* The loop of open leaves one layer more.
LEMMA OpenLayerInv == IInv /\ OpenLayer => IInv'
<1> SUFFICES ASSUME IInv, OpenLayer PROVE IInv'
  OBVIOUS
<1> DEFINE r == open_path(sc.files[current_path])
<1>1. /\ st = "opening" /\ sc' = sc /\ pos' = pos /\ out' = out
      /\ layers' = Append(layers, r) /\ r \in Readers
      /\ \/ /\ st' = "open" /\ virtual_disk_size' = layers'[1].size /\ clamp_bytes' = MinGrain(layers')
         \/ /\ st' = "refused" /\ UNCHANGED <<virtual_disk_size, clamp_bytes>>
         \/ /\ st' = "opening" /\ ~TooDeep /\ UNCHANGED <<virtual_disk_size, clamp_bytes>>
  BY DEF OpenLayer, Exists, Readers
<1>2. sc \in Scenarios /\ TypeOK /\ layers \in Seq(Readers) /\ Len(layers) <= MAX_CHAIN_DEPTH
      /\ virtual_disk_size = 0 /\ pos = 0 /\ out.op = "none"
  BY <1>1 DEF IInv
<1> HIDE DEF r
<1>3. layers' \in Seq(Readers) /\ Len(layers') = Len(layers) + 1 /\ layers'[1] \in Readers
      /\ layers' # << >>
  BY <1>1, <1>2
<1>4. layers' \in Seq(Readers')
  BY <1>1, <1>3 DEF Readers
<1>5. layers'[1].size \in Nat /\ MinGrain(layers') \in Nat
  BY <1>2, <1>3, ReaderType, MinGrainIs
<1>6. /\ Len(layers') <= MAX_CHAIN_DEPTH + 1
      /\ ~TooDeep => Len(layers') <= MAX_CHAIN_DEPTH
  <2>1. Len(layers) \in Nat /\ MAX_CHAIN_DEPTH \in Nat
    BY <1>2, ChainAssumption
  <2> QED
    BY <1>2, <1>3, <2>1 DEF TooDeep
<1> QED
  BY <1>1, <1>2, <1>3, <1>4, <1>5, <1>6 DEF IInv, TypeOK

\* How much a read asks for: something, on the disk and inside the clamp.
LEMMA ToReadBounds ==
    ASSUME TypeOK, NEW len \in Nat \ {0}, pos < virtual_disk_size
    PROVE  /\ ToRead(len) \in Nat \ {0} /\ ToRead(len) <= len
           /\ ToRead(len) <= virtual_disk_size - pos
           /\ clamp_bytes > 0 => ToRead(len) <= clamp_bytes - (pos % clamp_bytes)
<1>1. virtual_disk_size \in Nat /\ pos \in Nat /\ clamp_bytes \in Nat
  BY DEF TypeOK
<1> DEFINE n == Min2(len, virtual_disk_size - pos)
<1>2. n \in Nat \ {0} /\ n <= len /\ n <= virtual_disk_size - pos
  BY <1>1 DEF Min2
<1>3. CASE clamp_bytes = 0
  BY <1>1, <1>2, <1>3 DEF ToRead
<1>4. CASE clamp_bytes > 0
  <2> DEFINE room == clamp_bytes - (pos % clamp_bytes)
  <2>1. room \in Nat \ {0}
    BY <1>1, <1>4, DivMod
  <2>2. ToRead(len) = Min2(n, room)
    BY <1>4 DEF ToRead
  <2> HIDE DEF n, room
  <2>3. Min2(n, room) \in Nat \ {0} /\ Min2(n, room) <= n /\ Min2(n, room) <= room
    BY <1>2, <2>1 DEF Min2
  <2> QED
    BY <1>1, <1>2, <2>2, <2>3 DEF room
<1> QED
  BY <1>1, <1>3, <1>4

\* The owner is a layer that has the sector, and no newer layer has it.
LEMMA OwnerIs ==
    ASSUME NEW lba, Len(layers) \in Nat
    PROVE  /\ Owner(lba) \in 0..Len(layers)
           /\ Owner(lba) = 0 => \A i \in 1..Len(layers) : ~is_allocated(layers[i], lba)
           /\ Owner(lba) # 0 => /\ is_allocated(layers[Owner(lba)], lba)
                                /\ \A i \in 1..(Owner(lba) - 1) : ~is_allocated(layers[i], lba)
<1> DEFINE n == Len(layers)
           own == {i \in 1..n : is_allocated(layers[i], lba)}
<1>1. Owner(lba) = IF own = {} THEN 0 ELSE CHOOSE i \in own : \A j \in own : i <= j
  BY DEF Owner
<1>2. CASE own = {}
  BY <1>1, <1>2
<1>3. CASE own # {}
  <2>1. own \in SUBSET Nat
    OBVIOUS
  <2>2. \A i \in 1..n : i \in own <=> is_allocated(layers[i], lba)
    OBVIOUS
  <2>3. own \subseteq 1..n
    OBVIOUS
  <2> HIDE DEF own
  <2>4. \E x \in own : \A y \in own : x <= y
    BY <1>3, <2>1, LeastNatural
  <2>5. Owner(lba) \in own /\ \A y \in own : Owner(lba) <= y
    BY <1>1, <1>3, <2>4
  <2>6. Owner(lba) \in 1..n
    BY <2>3, <2>5
  <2>7. ASSUME NEW i \in 1..(Owner(lba) - 1) PROVE ~is_allocated(layers[i], lba)
    <3>1. i \in 1..n /\ ~(Owner(lba) <= i)
      BY <2>6
    <3> QED
      BY <2>2, <2>5, <3>1
  <2> QED
    BY <2>2, <2>5, <2>6, <2>7
<1> QED
  BY <1>2, <1>3

\* What a layer may return: nothing where its storage ends, otherwise cells of
\* the layer, all of them stored, of one grain if the layer has grains.
LEMMA LayerRunsIs ==
    ASSUME NEW l, l.size \in Nat, l.grain \in Nat, l.flat \in BOOLEAN, l.flat \/ l.grain > 0,
           pos \in Nat, pos < l.size, NEW n \in Nat, NEW k \in LayerRuns(l, n)
    PROVE  /\ k \in 0..n
           /\ k = 0 => l.cells[pos].kind = "end"
           /\ k > 0 => /\ pos + k <= l.size
                       /\ l.flat \/ k <= l.grain - (pos % l.grain)
                       /\ \A i \in 0..(k - 1) : l.cells[pos + i].kind \notin {"end", "err"}
<1> DEFINE room == IF l.flat THEN n ELSE l.grain - (pos % l.grain)
           m == Min2(Min2(n, l.size - pos), room)
<1>1. CASE l.cells[pos].kind = "end"
  <2>1. k = 0
    BY <1>1 DEF LayerRuns
  <2> QED
    BY <1>1, <2>1
<1>2. CASE l.cells[pos].kind # "end"
  <2>1. /\ k \in 1..m
        /\ \A i \in 0..(k - 1) : l.cells[pos + i].kind \notin {"end", "err"}
    BY <1>2 DEF LayerRuns
  <2>2. room \in Nat /\ (l.flat \/ room = l.grain - (pos % l.grain))
    <3>1. CASE l.flat
      BY <3>1
    <3>2. CASE ~l.flat
      <4>1. l.grain \in Nat \ {0}
        BY <3>2
      <4>2. pos % l.grain \in 0..(l.grain - 1)
        BY <4>1, DivMod
      <4> QED
        BY <3>2, <4>1, <4>2
    <3> QED
      BY <3>1, <3>2
  <2> HIDE DEF room
  <2>3. m \in Int /\ m <= n /\ m <= l.size - pos /\ m <= room
    BY <2>2 DEF Min2
  <2> HIDE DEF m
  <2>4. k \in Nat /\ k > 0 /\ k <= m
    BY <2>1, <2>3
  <2>5. k \in 0..n /\ pos + k <= l.size /\ k <= room
    BY <2>3, <2>4, <2>2
  <2> QED
    BY <2>1, <2>2, <2>4, <2>5
<1> QED
  BY <1>1, <1>2

----------------------------------------------------------------------------
(* Types                                                                   *)

\* A seek leaves the cursor where it was or at a natural number.
LEMMA SeekInv == IInv /\ Seek => pos' \in Nat /\ st = "open"
                    /\ UNCHANGED <<sc, st, current_path, layers, virtual_disk_size, clamp_bytes>>
                    /\ out'.op = "seek" /\ (~out'.ok => pos' = pos)
<1> SUFFICES ASSUME IInv, Seek
             PROVE  /\ pos' \in Nat /\ st = "open"
                    /\ UNCHANGED <<sc, st, current_path, layers, virtual_disk_size, clamp_bytes>>
                    /\ out'.op = "seek" /\ (~out'.ok => pos' = pos)
  OBVIOUS
<1>1. \A x \in Int : AsI64(x) \in Int
  BY WordAssumption DEF AsI64
<1>2. pos \in Nat /\ virtual_disk_size \in Nat
  BY DEF IInv, TypeOK
<1>3. SeekStarts \subseteq Int /\ SeekDeltas \subseteq Int
  BY ChainAssumption, WordAssumption
<1>4. PICK x \in Int : SeekTo(AsI64(x))
  BY <1>2, <1>3 DEF Seek
<1>5. PICK a \in Int : SeekTo(a)
  BY <1>1, <1>4
<1>6. /\ st = "open" /\ pos' = IF a < 0 THEN pos ELSE a
      /\ out' = Answer("seek", a >= 0, pos, 0, << >>)
      /\ UNCHANGED <<sc, st, current_path, layers, virtual_disk_size, clamp_bytes>>
  BY <1>5 DEF SeekTo
<1>7. pos' \in Nat
  BY <1>2, <1>6
<1>8. out'.op = "seek" /\ (out'.ok <=> a >= 0)
  BY <1>6 DEF Answer
<1>9. ~out'.ok => pos' = pos
  BY <1>6, <1>8
<1> QED
  BY <1>6, <1>7, <1>8, <1>9

\* The four ways a read can end.
LEMMA ReadCases ==
    ASSUME NEW len \in Lengths, Read(len)
    PROVE  /\ st = "open"
           /\ UNCHANGED <<sc, st, current_path, layers, virtual_disk_size, clamp_bytes>>
           /\ LET own == Owner(pos \div SECTOR_SIZE)
              IN  \/ /\ len = 0 \/ pos >= virtual_disk_size
                     /\ out' = Answer("read", TRUE, pos, len, << >>) /\ pos' = pos
                  \/ /\ len > 0 /\ pos < virtual_disk_size /\ own = 0
                     /\ out' = Answer("read", TRUE, pos, len, [i \in 1..ToRead(len) |-> 0])
                     /\ pos' = pos + ToRead(len)
                  \/ /\ len > 0 /\ pos < virtual_disk_size /\ own # 0
                     /\ \E k \in LayerRuns(layers[own], ToRead(len)) :
                            /\ out' = Answer("read", TRUE, pos, len,
                                             [i \in 1..k |-> layers[own].cells[pos + i - 1].val])
                            /\ pos' = pos + k
                  \/ out' = Answer("read", FALSE, pos, len, << >>) /\ pos' = pos
BY DEF Read

\* A read that is given a layer is given one that holds the sector.
LEMMA OwnerHolds ==
    ASSUME IInv, pos < virtual_disk_size, NEW own, own = Owner(pos \div SECTOR_SIZE), own # 0
    PROVE  /\ own \in 1..Len(layers) /\ layers[own] \in Readers
           /\ is_allocated(layers[own], pos \div SECTOR_SIZE) /\ pos < layers[own].size
<1>1. layers \in Seq(Readers) /\ Len(layers) \in Nat /\ sc \in Scenarios
      /\ pos \in Nat /\ SECTOR_SIZE \in Nat \ {0}
  BY ChainAssumption DEF IInv, TypeOK
<1>2. own \in 1..Len(layers) /\ is_allocated(layers[own], pos \div SECTOR_SIZE)
  BY <1>1, OwnerIs
<1>3. layers[own] \in Readers
  BY <1>1, <1>2
<1> DEFINE l == layers[own]
<1>4. l.size \in Nat /\ pos \div SECTOR_SIZE < l.size \div SECTOR_SIZE
  BY <1>1, <1>2, <1>3, ReaderType DEF is_allocated
<1> HIDE DEF l
<1>5. pos < l.size
  <2>1. PICK p \in Nat, z \in Nat, c \in Nat \ {0} : p = pos /\ z = l.size /\ c = SECTOR_SIZE
    BY <1>1, <1>4
  <2> SUFFICES p < z
    BY <2>1
  <2>2. p \div c < z \div c
    BY <1>4, <2>1
  <2>3. p \div c \in Nat /\ p % c \in 0..(c - 1) /\ p = (p \div c) * c + (p % c)
    BY DivMod
  <2>4. z \div c \in Nat /\ z % c \in 0..(c - 1) /\ z = (z \div c) * c + (z % c)
    BY DivMod
  <2>5. PICK a \in Nat, b \in Nat : a = p \div c /\ b = z \div c
    BY <2>3, <2>4
  <2>6. PICK d \in Nat : b = a + 1 + d
    <3>1. b - a - 1 \in Nat
      BY <2>2, <2>5
    <3> QED
      BY <3>1
  <2>7. b * c = a * c + c + d * c /\ a * c \in Nat /\ d * c \in Nat
    BY <2>6
  <2> QED
    BY <2>3, <2>4, <2>5, <2>7
<1> QED
  BY <1>2, <1>3, <1>5 DEF l

\* A read moves the cursor forward, if at all.
LEMMA ReadInv ==
    ASSUME IInv, NEW len \in Lengths, Read(len)
    PROVE  pos' \in Nat
<1>1. /\ TypeOK /\ pos \in Nat /\ len \in Nat /\ sc \in Scenarios
  BY ChainAssumption DEF IInv, TypeOK
<1> DEFINE own == Owner(pos \div SECTOR_SIZE)
<1>2. CASE pos' = pos
  BY <1>1, <1>2
<1>3. CASE len > 0 /\ pos < virtual_disk_size
  <2>1. ToRead(len) \in Nat
    BY <1>1, <1>3, ToReadBounds
  <2>2. CASE pos' = pos + ToRead(len)
    BY <1>1, <2>1, <2>2
  <2>3. CASE own # 0 /\ \E k \in LayerRuns(layers[own], ToRead(len)) : pos' = pos + k
    <3>1. PICK k \in LayerRuns(layers[own], ToRead(len)) : pos' = pos + k
      BY <2>3
    <3>2. layers[own] \in Readers /\ pos < layers[own].size
      BY <1>3, <2>3, OwnerHolds
    <3>3. k \in 0..ToRead(len)
      BY <1>1, <2>1, <3>2, ReaderType, LayerRunsIs
    <3> QED
      BY <1>1, <2>1, <3>1, <3>3
  <2> QED
    BY <1>2, <1>3, <2>2, <2>3, ReadCases
<1> QED
  BY <1>2, <1>3, ReadCases

\* The invariant holds initially, and every action keeps it.
LEMMA NextIInv == IInv /\ [Next]_vars => IInv'
<1> SUFFICES ASSUME IInv, [Next]_vars PROVE IInv'
  OBVIOUS
<1>1. CASE OpenFails
  BY <1>1 DEF OpenFails, IInv, TypeOK, Readers
<1>2. CASE OpenLayer
  BY <1>2, OpenLayerInv
<1>3. ASSUME pos' \in Nat, st = "open",
             UNCHANGED <<sc, st, current_path, layers, virtual_disk_size, clamp_bytes>>
      PROVE  IInv'
  BY <1>3 DEF IInv, TypeOK, Readers
<1>4. ASSUME NEW len \in Lengths, Read(len) PROVE IInv'
  BY <1>3, <1>4, ReadCases, ReadInv
<1>5. CASE Seek
  BY <1>3, <1>5, SeekInv
<1>6. CASE UNCHANGED vars
  BY <1>6 DEF vars, IInv, TypeOK, Readers
<1> QED
  BY <1>1, <1>2, <1>4, <1>5, <1>6 DEF Next

LEMMA Invariance == Spec => []IInv
BY InitIInv, NextIInv, PTL DEF Spec

\* For every directory, limit and layer size: a chain is opened to at most one
\* layer more than the limit of its depth, an open one has a layer, its size and
\* its clamp are numbers, and no call sends the cursor below 0 (open_with_depth,
\* Read and Seek for VmdkChainReader).
THEOREM TypeCorrect == Spec => []TypeOK
<1>1. IInv => TypeOK
  BY DEF IInv
<1> QED
  BY <1>1, Invariance, PTL

----------------------------------------------------------------------------
(* A chain whose layers fit together                                       *)

\* The reader of the i-th file of the chain, and whether it has a grain at o.
Layer(i) == open_path(sc.files[sc.chain[i]])
Stored(l, o) == l.cells[o].kind \in {"data", "end", "err"}

\* The layers opened so far are those of the chain, in its order; all of them
\* once the chain is open.
Followed ==
    /\ Len(layers) <= Len(sc.chain)
    /\ \A i \in 1..Len(layers) : layers[i] = Layer(i)
    /\ st = "opening" => /\ Len(layers) < Len(sc.chain)
                         /\ current_path = sc.chain[Len(layers) + 1]
    /\ st = "open" => /\ Len(layers) = Len(sc.chain)
                      /\ virtual_disk_size = Layer(1).size
                      /\ clamp_bytes = MinGrain(layers)

\* What is known of the layers of a chain, layer by layer.
LEMMA LayersAre ==
    ASSUME sc \in Scenarios
    PROVE  /\ Len(sc.chain) \in Nat
           /\ \A i \in 1..Len(sc.chain) :
                  /\ sc.chain[i] \in DOMAIN sc.files /\ Layer(i) \in Readers
                  /\ Layer(i).size = sc.files[sc.chain[i]].size
                  /\ Layer(i).cells = sc.files[sc.chain[i]].cells
                  /\ \A o \in 0..(Layer(i).size - 1) : Layer(i).cells[o].kind \in CellKinds
<1>1. sc.chain \in Seq(DOMAIN sc.files)
  BY ChainAssumption DEF IsScenario
<1>2. ASSUME NEW i \in 1..Len(sc.chain)
      PROVE  /\ sc.chain[i] \in DOMAIN sc.files /\ Layer(i) \in Readers
             /\ Layer(i).size = sc.files[sc.chain[i]].size
             /\ Layer(i).cells = sc.files[sc.chain[i]].cells
             /\ \A o \in 0..(Layer(i).size - 1) : Layer(i).cells[o].kind \in CellKinds
  <2>1. sc.chain[i] \in DOMAIN sc.files
    BY <1>1
  <2>2. Layer(i) \in Readers
    BY <2>1 DEF Layer, Readers
  <2>3. Layer(i).size = sc.files[sc.chain[i]].size /\ Layer(i).cells = sc.files[sc.chain[i]].cells
    BY DEF Layer, open_path
  <2>4. \A o \in 0..(sc.files[sc.chain[i]].size - 1) : sc.files[sc.chain[i]].cells[o].kind \in CellKinds
    BY <2>1, ChainAssumption DEF IsScenario
  <2> QED
    BY <2>1, <2>2, <2>3, <2>4
<1> QED
  BY <1>1, <1>2

\* What it means that they fit together, layer by layer.
LEMMA LayeredIs ==
    ASSUME Layered(sc)
    PROVE  /\ Len(sc.chain) > 0 /\ sc.top = sc.chain[1]
           /\ \A i \in 1..Len(sc.chain) :
                  /\ (Layer(i).parent_cid = NO_PARENT \/ Layer(i).hint = "") <=> i = Len(sc.chain)
                  /\ i < Len(sc.chain) => Layer(i).hint = sc.chain[i + 1]
                  /\ Layer(i).size % SECTOR_SIZE = 0 /\ Layer(i).grain % SECTOR_SIZE = 0
                  /\ \A j \in 1..Len(sc.chain) : Layer(i).grain > 0 /\ Layer(j).grain > 0 =>
                         \/ Layer(i).grain % Layer(j).grain = 0
                         \/ Layer(j).grain % Layer(i).grain = 0
                  /\ \A o \in 0..(Layer(i).size - 1) :
                         /\ Layer(i).flat => Layer(i).cells[o].kind # "hole"
                         /\ ~Layer(i).flat =>
                               /\ Layer(i).cells[o].kind = "zero" =>
                                      i = Len(sc.chain) /\ Layer(i).cells[o].val = 0
                               /\ \A p \in 0..(Layer(i).size - 1) :
                                      p \div Layer(i).grain = o \div Layer(i).grain =>
                                          (Stored(Layer(i), p) <=> Stored(Layer(i), o))
<1>1. Len(sc.chain) > 0 /\ sc.top = sc.chain[1]
  BY Zenon DEF Layered
<1>2. ASSUME NEW i \in 1..Len(sc.chain)
      PROVE  (Layer(i).parent_cid = NO_PARENT \/ Layer(i).hint = "") <=> i = Len(sc.chain)
  BY Zenon DEF Layered, Layer
<1>3. ASSUME NEW i \in 1..Len(sc.chain), i < Len(sc.chain)
      PROVE  Layer(i).hint = sc.chain[i + 1]
  BY <1>3, Zenon DEF Layered, Layer
<1>4. ASSUME NEW i \in 1..Len(sc.chain)
      PROVE  Layer(i).size % SECTOR_SIZE = 0 /\ Layer(i).grain % SECTOR_SIZE = 0
  BY Zenon DEF Layered, Layer
<1>5. ASSUME NEW i \in 1..Len(sc.chain), NEW j \in 1..Len(sc.chain),
             Layer(i).grain > 0, Layer(j).grain > 0
      PROVE  Layer(i).grain % Layer(j).grain = 0 \/ Layer(j).grain % Layer(i).grain = 0
  BY <1>5, Zenon DEF Layered, Layer
<1>6. ASSUME NEW i \in 1..Len(sc.chain), NEW o \in 0..(Layer(i).size - 1), Layer(i).flat
      PROVE  Layer(i).cells[o].kind # "hole"
  BY <1>6, Zenon DEF Layered, Layer
<1>7. ASSUME NEW i \in 1..Len(sc.chain), NEW o \in 0..(Layer(i).size - 1), ~Layer(i).flat,
             Layer(i).cells[o].kind = "zero"
      PROVE  i = Len(sc.chain) /\ Layer(i).cells[o].val = 0
  BY <1>7, Zenon DEF Layered, Layer
<1>8. ASSUME NEW i \in 1..Len(sc.chain), NEW o \in 0..(Layer(i).size - 1), ~Layer(i).flat,
             NEW p \in 0..(Layer(i).size - 1), p \div Layer(i).grain = o \div Layer(i).grain
      PROVE  Stored(Layer(i), p) <=> Stored(Layer(i), o)
  BY <1>8, Zenon DEF Layered, Layer, Stored
<1> QED
  BY <1>1, <1>2, <1>3, <1>4, <1>5, <1>6, <1>7, <1>8, Zenon

\* The chain is followed file by file, and open ends with its last one.
LEMMA InitFollowed == Init /\ Layered(sc) => Followed
<1> SUFFICES ASSUME Init, Layered(sc) PROVE Followed
  OBVIOUS
<1>1. Len(layers) = 0 /\ st = "opening" /\ current_path = sc.chain[1] /\ sc \in Scenarios
  BY LayeredIs DEF Init
<1>2. Len(sc.chain) \in Nat /\ Len(sc.chain) > 0
  BY <1>1, LayersAre, LayeredIs
<1>3. Len(layers) + 1 = 1
  BY <1>1
<1> QED
  BY <1>1, <1>2, <1>3 DEF Followed

\* One layer more, and the others where they were.
LEMMA AppendIs ==
    ASSUME NEW S, NEW s \in Seq(S), NEW e \in S
    PROVE  /\ Len(Append(s, e)) = Len(s) + 1
           /\ Append(s, e)[Len(s) + 1] = e
           /\ \A i \in 1..Len(s) : Append(s, e)[i] = s[i]
OBVIOUS

\* A layer more is the next file of the chain.
LEMMA OpenLayerFollowed == IInv /\ Layered(sc) /\ Followed /\ OpenLayer => Followed'
<1> SUFFICES ASSUME IInv, Layered(sc), Followed, OpenLayer PROVE Followed'
  OBVIOUS
<1>1. PICK n \in Nat, m \in Nat : n = Len(sc.chain) /\ m = Len(layers)
  BY LayersAre DEF IInv
<1>2. /\ st = "opening" /\ sc' = sc /\ sc \in Scenarios /\ layers \in Seq(Readers)
      /\ m < n /\ current_path = sc.chain[m + 1]
      /\ \A i \in 1..m : layers[i] = Layer(i)
  BY <1>1 DEF OpenLayer, IInv, Followed
<1> DEFINE r == Layer(m + 1)
<1>3. m + 1 \in 1..n
  BY <1>2
<1>4. /\ layers' = Append(layers, r)
      /\ \/ /\ r.parent_cid = NO_PARENT \/ r.hint = ""
            /\ st' = "open" /\ virtual_disk_size' = layers'[1].size /\ clamp_bytes' = MinGrain(layers')
         \/ st' = "refused"
         \/ /\ ~(r.parent_cid = NO_PARENT \/ r.hint = "")
            /\ st' = "opening" /\ current_path' = r.hint
  <2>1. r = open_path(sc.files[current_path])
    BY <1>2 DEF Layer
  <2> HIDE DEF r
  <2> QED
    BY <1>2, <2>1 DEF OpenLayer
<1>5. /\ (r.parent_cid = NO_PARENT \/ r.hint = "") <=> m + 1 = n
      /\ m + 1 < n => r.hint = sc.chain[(m + 1) + 1]
  BY <1>1, <1>3, LayeredIs
<1>6. r \in Readers
  BY <1>1, <1>2, <1>3, LayersAre
<1> HIDE DEF r
<1>7. /\ Len(layers') = m + 1 /\ layers'[m + 1] = r
      /\ \A i \in 1..m : layers'[i] = layers[i]
  <2>1. layers' = Append(layers, r)
    BY <1>4
  <2>2. layers \in Seq(Readers) /\ m = Len(layers)
    BY <1>1, <1>2
  <2>3. /\ Len(Append(layers, r)) = m + 1 /\ Append(layers, r)[m + 1] = r
        /\ \A i \in 1..m : Append(layers, r)[i] = layers[i]
    BY <1>6, <2>2, AppendIs
  <2> QED
    BY <2>1, <2>3
<1>8. \A i \in 1..(m + 1) : layers'[i] = Layer(i)
  <2> SUFFICES ASSUME NEW i \in 1..(m + 1) PROVE layers'[i] = Layer(i)
    OBVIOUS
  <2>1. CASE i = m + 1
    BY <1>7, <2>1 DEF r
  <2>2. CASE i # m + 1
    <3>1. i \in 1..m
      BY <2>2
    <3> QED
      BY <1>2, <1>7, <3>1
  <2> QED
    BY <2>1, <2>2
<1>9. /\ m + 1 <= n
      /\ st' = "opening" => m + 1 < n /\ current_path' = sc.chain[(m + 1) + 1]
      /\ st' = "open" => /\ m + 1 = n /\ virtual_disk_size' = layers'[1].size
                         /\ clamp_bytes' = MinGrain(layers')
  <2>1. m + 1 <= n /\ (m + 1 # n => m + 1 < n)
    BY <1>3
  <2>2. CASE st' = "opening"
    <3>1. ~(r.parent_cid = NO_PARENT \/ r.hint = "") /\ current_path' = r.hint
      BY <1>4, <2>2
    <3>2. m + 1 < n
      BY <1>5, <2>1, <3>1
    <3> QED
      BY <1>5, <2>1, <2>2, <3>1, <3>2
  <2>3. CASE st' = "open"
    <3>1. /\ r.parent_cid = NO_PARENT \/ r.hint = ""
          /\ virtual_disk_size' = layers'[1].size /\ clamp_bytes' = MinGrain(layers')
      BY <1>4, <2>3
    <3> QED
      BY <1>5, <2>1, <2>3, <3>1
  <2> QED
    BY <2>1, <2>2, <2>3
<1>10. layers'[1] = Layer(1)
  BY <1>8
<1>11. \A i : Layer(i)' = Layer(i)
  BY <1>2 DEF Layer
<1>12. Len(sc'.chain) = n /\ sc'.chain = sc.chain
  BY <1>1, <1>2
<1> QED
  BY <1>7, <1>8, <1>9, <1>10, <1>11, <1>12 DEF Followed

\* No other action moves along the chain.
LEMMA NextFollowed == IInv /\ Layered(sc) /\ Followed /\ [Next]_vars => (Layered(sc) /\ Followed)'
<1> SUFFICES ASSUME IInv, Layered(sc), Followed, [Next]_vars PROVE (Layered(sc) /\ Followed)'
  OBVIOUS
<1>1. sc' = sc
  BY ReadCases, SeekInv DEF Next, OpenFails, OpenLayer, vars
<1>2. Layered(sc)'
  BY <1>1
<1> SUFFICES Followed'
  BY <1>2
<1>3. CASE OpenFails
  BY <1>3 DEF OpenFails, Followed, Layer
<1>4. CASE OpenLayer
  BY <1>4, OpenLayerFollowed
<1>5. ASSUME UNCHANGED <<sc, st, current_path, layers, virtual_disk_size, clamp_bytes>>
      PROVE  Followed'
  BY <1>5 DEF Followed, Layer
<1>6. ASSUME NEW len \in Lengths, Read(len) PROVE Followed'
  BY <1>5, <1>6, ReadCases
<1>7. CASE Seek
  BY <1>5, <1>7, SeekInv
<1>8. CASE UNCHANGED vars
  BY <1>5, <1>8 DEF vars
<1> QED
  BY <1>3, <1>4, <1>6, <1>7, <1>8 DEF Next

----------------------------------------------------------------------------
(* Which layers have the sector, and what the chain holds there            *)

\* An open chain: its layers are all of the described ones.
OpenChain == IInv /\ Layered(sc) /\ Followed /\ st = "open"

LEMMA OpenChainIs ==
    ASSUME OpenChain
    PROVE  /\ sc \in Scenarios /\ TypeOK /\ pos \in Nat /\ virtual_disk_size \in Nat /\ clamp_bytes \in Nat
           /\ SECTOR_SIZE \in Nat \ {0}
           /\ Len(layers) = Len(sc.chain) /\ Len(layers) \in Nat \ {0} /\ layers \in Seq(Readers)
           /\ virtual_disk_size = Layer(1).size /\ clamp_bytes = MinGrain(layers)
           /\ \A i \in 1..Len(layers) :
                  /\ layers[i] = Layer(i) /\ Layer(i) \in Readers
                  /\ Layer(i).size \in Nat /\ Layer(i).grain \in Nat /\ Layer(i).flat \in BOOLEAN
                  /\ Layer(i).flat \/ Layer(i).grain > 0
<1>1. sc \in Scenarios /\ TypeOK /\ layers \in Seq(Readers)
  BY DEF OpenChain, IInv
<1>2. pos \in Nat /\ virtual_disk_size \in Nat /\ clamp_bytes \in Nat
  BY <1>1 DEF TypeOK
<1>3. SECTOR_SIZE \in Nat \ {0}
  BY ChainAssumption
<1>4. /\ Len(layers) = Len(sc.chain) /\ \A i \in 1..Len(layers) : layers[i] = Layer(i)
      /\ virtual_disk_size = Layer(1).size /\ clamp_bytes = MinGrain(layers)
  BY DEF OpenChain, Followed
<1>5. Len(layers) \in Nat \ {0}
  <2>1. Len(sc.chain) \in Nat
    BY <1>1, LayersAre
  <2>2. Len(sc.chain) > 0
    BY LayeredIs DEF OpenChain
  <2> QED
    BY <1>4, <2>1, <2>2
<1>6. \A i \in 1..Len(layers) : Layer(i) \in Readers
  BY <1>1, <1>4, LayersAre
<1>7. \A i \in 1..Len(layers) :
          /\ Layer(i).size \in Nat /\ Layer(i).grain \in Nat /\ Layer(i).flat \in BOOLEAN
          /\ Layer(i).flat \/ Layer(i).grain > 0
  BY <1>1, <1>6, ReaderType
<1> QED
  BY <1>1, <1>2, <1>3, <1>4, <1>5, <1>6, <1>7

\* A remainder of 0 makes a multiple.
LEMMA MultipleOf ==
    ASSUME NEW a \in Nat \ {0}, NEW b \in Nat \ {0}, a % b = 0
    PROVE  Divides(b, a)
<1>1. a \div b \in Nat /\ a = (a \div b) * b + (a % b)
  BY DivMod
<1>2. PICK m \in Nat : m = a \div b
  BY <1>1
<1>3. a = m * b
  BY <1>1, <1>2
<1>4. m # 0
  BY <1>3
<1> QED
  BY <1>3, <1>4 DEF Divides

\* The clamp is in whole sectors, and every grain in whole clamps.
LEMMA ClampDivides ==
    ASSUME OpenChain, NEW i \in 1..Len(layers), Layer(i).grain > 0
    PROVE  /\ clamp_bytes > 0
           /\ Divides(clamp_bytes, Layer(i).grain) /\ Divides(SECTOR_SIZE, clamp_bytes)
<1>1. /\ clamp_bytes \in Nat /\ 0 < clamp_bytes /\ clamp_bytes <= Layer(i).grain
      /\ \E j \in 1..Len(layers) : clamp_bytes = Layer(j).grain
      /\ Layer(i).grain \in Nat \ {0}
  BY OpenChainIs, MinGrainIs
<1>2. PICK j \in 1..Len(layers) : clamp_bytes = Layer(j).grain
  BY <1>1
<1>3. /\ Layer(i).grain % Layer(j).grain = 0 \/ Layer(j).grain % Layer(i).grain = 0
      /\ Layer(j).grain % SECTOR_SIZE = 0
  <2>1. i \in 1..Len(sc.chain) /\ j \in 1..Len(sc.chain)
    BY OpenChainIs
  <2> QED
    BY <1>1, <1>2, <2>1, LayeredIs DEF OpenChain
<1>4. PICK g \in Nat \ {0}, c \in Nat \ {0} : g = Layer(i).grain /\ c = clamp_bytes
  BY <1>1
<1>5. c <= g /\ (g % c = 0 \/ c % g = 0)
  BY <1>1, <1>2, <1>3, <1>4
<1>6. Divides(c, g)
  <2>1. CASE g % c = 0
    BY <2>1, MultipleOf DEF Divides
  <2>2. CASE c % g = 0
    <3>1. PICK m \in Nat \ {0} : c = m * g
      BY <2>2, MultipleOf DEF Divides
    <3>2. m = 1
      <4>1. PICK d \in Nat : m = 1 + d
        <5>1. m - 1 \in Nat
          OBVIOUS
        <5> QED
          BY <5>1
      <4>2. d * g + g <= g
        BY <1>5, <3>1, <4>1
      <4>3. d = 0
        BY <4>2
      <4> QED
        BY <4>1, <4>3
    <3>3. g = 1 * c
      BY <3>1, <3>2
    <3> QED
      BY <3>3 DEF Divides
  <2> QED
    BY <1>5, <2>1, <2>2
<1>7. Divides(SECTOR_SIZE, c)
  <2>1. SECTOR_SIZE \in Nat \ {0}
    BY ChainAssumption
  <2> QED
    BY <1>2, <1>3, <1>4, <2>1, MultipleOf
<1> QED
  BY <1>1, <1>4, <1>6, <1>7

\* A read stays inside the grain of every sparse layer, and that grain is also
\* the one of the sector the cursor is in.
LEMMA SameGrain ==
    ASSUME OpenChain, NEW i \in 1..Len(layers), Layer(i).grain > 0, pos < virtual_disk_size,
           NEW len \in Nat \ {0}, NEW k \in Nat, k < ToRead(len)
    PROVE  /\ Together(pos + k, pos, Layer(i).grain)
           /\ Together((pos \div SECTOR_SIZE) * SECTOR_SIZE, pos, Layer(i).grain)
<1>1. TypeOK /\ pos \in Nat /\ clamp_bytes \in Nat /\ SECTOR_SIZE \in Nat \ {0}
  BY OpenChainIs
<1>2. PICK p \in Nat, c \in Nat \ {0}, s \in Nat \ {0} : p = pos /\ c = clamp_bytes /\ s = SECTOR_SIZE
  BY <1>1, ClampDivides
<1>3. PICK g \in Nat \ {0} : g = Layer(i).grain
  BY OpenChainIs
<1>4. Divides(c, g) /\ Divides(s, c)
  BY <1>2, <1>3, ClampDivides
<1>5. k < c - (p % c)
  <2>1. ToRead(len) <= c - (p % c) /\ ToRead(len) \in Nat
    BY <1>1, <1>2, ToReadBounds
  <2>2. p % c \in 0..(c - 1)
    BY DivMod
  <2> QED
    BY <2>1, <2>2
<1>6. Together(p + k, p, c)
  BY <1>5, SameQuotient
<1>7. Together(p + k, p, g)
  <2>1. PICK x \in Nat : x = p + k
    OBVIOUS
  <2> QED
    BY <1>4, <1>6, <2>1, CoarserQuotient
<1> DEFINE b == (p \div s) * s
<1>8. b \in Nat /\ Together(b, p, s)
  <2>1. p \div s \in Nat
    BY DivMod
  <2>2. PICK a \in Nat : a = p \div s
    BY <2>1
  <2>3. a * s \in Nat /\ (a * s + 0) \div s = a
    BY DivUnique
  <2> QED
    BY <2>2, <2>3 DEF Together
<1> HIDE DEF b
<1>9. Together(b, p, c)
  BY <1>4, <1>8, CoarserQuotient
<1>10. Together(b, p, g)
  BY <1>4, <1>8, <1>9, CoarserQuotient
<1> QED
  BY <1>2, <1>3, <1>7, <1>10 DEF b

\* A cursor on a layer of whole sectors is in one of its sectors.
LEMMA SectorOf ==
    ASSUME NEW p \in Nat, NEW s \in Nat \ {0}, NEW z \in Nat, z % s = 0, p < z
    PROVE  /\ p \div s < z \div s
           /\ (p \div s) * s \in Nat /\ (p \div s) * s <= p
<1>1. p \div s \in Nat /\ p % s \in 0..(s - 1) /\ p = (p \div s) * s + (p % s)
  BY DivMod
<1>2. z \div s \in Nat /\ z % s \in 0..(s - 1) /\ z = (z \div s) * s + (z % s)
  BY DivMod
<1>3. PICK a \in Nat, b \in Nat, r \in Nat : a = p \div s /\ b = z \div s /\ r = p % s
  BY <1>1, <1>2
<1>4. p = a * s + r /\ z = b * s /\ a * s + r < b * s
  BY <1>1, <1>2, <1>3
<1>5. a < b
  <2> SUFFICES ASSUME b <= a PROVE FALSE
    OBVIOUS
  <2>1. PICK d \in Nat : a = b + d
    <3>1. a - b \in Nat
      OBVIOUS
    <3> QED
      BY <3>1
  <2>2. a * s = b * s + d * s /\ d * s \in Nat /\ b * s \in Nat
    BY <2>1
  <2> QED
    BY <1>4, <2>2
<1>6. a * s \in Nat /\ a * s <= p
  BY <1>4
<1> QED
  BY <1>3, <1>5, <1>6

\* What a layer holds in the cells a read may return, by whether it has the
\* sector the cursor is in.
LEMMA LayerHolds ==
    ASSUME OpenChain, pos < virtual_disk_size, NEW len \in Nat \ {0},
           NEW k \in Nat, k < ToRead(len),
           NEW i \in 1..Len(layers), pos + k < Layer(i).size
    PROVE  LET cell == Layer(i).cells[pos + k]
           IN  /\ is_allocated(layers[i], pos \div SECTOR_SIZE) => cell.kind # "hole"
               /\ ~is_allocated(layers[i], pos \div SECTOR_SIZE) =>
                      \/ cell.kind = "hole"
                      \/ i = Len(layers) /\ cell.kind = "zero" /\ cell.val = 0
<1> DEFINE l == Layer(i)
           lba == pos \div SECTOR_SIZE
           sec == lba * SECTOR_SIZE
           cell == l.cells[pos + k]
<1>1. /\ sc \in Scenarios /\ pos \in Nat /\ SECTOR_SIZE \in Nat \ {0}
      /\ l.size \in Nat /\ l.grain \in Nat /\ l.flat \in BOOLEAN /\ (l.flat \/ l.grain > 0)
      /\ layers[i] = l /\ i \in 1..Len(sc.chain) /\ Len(layers) = Len(sc.chain)
  BY OpenChainIs
<1>2. pos + k \in 0..(l.size - 1) /\ pos < l.size
  BY <1>1
<1>3. l.size % SECTOR_SIZE = 0
  BY <1>1, LayeredIs DEF OpenChain
<1>4. lba < l.size \div SECTOR_SIZE /\ sec \in 0..(l.size - 1)
  <2>1. PICK z \in Nat : z = l.size
    BY <1>1
  <2>2. PICK b \in Nat : b = sec /\ b <= pos /\ lba < z \div SECTOR_SIZE
    BY <1>1, <1>2, <1>3, <2>1, SectorOf
  <2>3. b \in 0..(z - 1)
    BY <1>1, <1>2, <2>1, <2>2
  <2> QED
    BY <2>1, <2>2, <2>3
<1>5. cell.kind \in CellKinds
  BY <1>1, <1>2, LayersAre
<1>6. is_allocated(layers[i], lba) <=> (l.flat \/ Stored(l, sec))
  BY <1>1, <1>4 DEF is_allocated, Stored
<1>7. CASE l.flat
  <2>1. cell.kind # "hole"
    BY <1>1, <1>2, <1>7, LayeredIs DEF OpenChain
  <2> QED
    BY <1>6, <1>7, <2>1
<1>8. CASE ~l.flat
  <2>1. l.grain > 0
    BY <1>1, <1>8
  <2>2. (pos + k) \div l.grain = sec \div l.grain
    BY <2>1, SameGrain DEF Together
  <2>3. Stored(l, pos + k) <=> Stored(l, sec)
    BY <1>1, <1>2, <1>4, <1>8, <2>2, LayeredIs DEF OpenChain
  <2>4. cell.kind = "zero" => i = Len(layers) /\ cell.val = 0
    BY <1>1, <1>2, <1>8, LayeredIs DEF OpenChain
  <2>5. Stored(l, pos + k) <=> cell.kind \in {"data", "end", "err"}
    BY DEF Stored
  <2> HIDE DEF cell, l, sec
  <2>6. is_allocated(layers[i], lba) => cell.kind # "hole"
    BY <1>6, <1>8, <2>3, <2>5
  <2>7. ~is_allocated(layers[i], lba) => cell.kind \in {"zero", "hole"}
    BY <1>5, <1>6, <2>3, <2>5 DEF CellKinds
  <2> QED
    BY <2>4, <2>6, <2>7 DEF cell, l
<1> QED
  BY <1>7, <1>8

\* The newest layer that has a cell decides what the chain holds there.
LEMMA MergedIs ==
    ASSUME OpenChain, NEW o \in Nat, NEW own \in 1..Len(layers),
           o < Layer(own).size, Layer(own).cells[o].kind # "hole",
           \A i \in 1..(own - 1) : o < Layer(i).size => Layer(i).cells[o].kind = "hole"
    PROVE  Merged(o) = Layer(own).cells[o]
<1> DEFINE f(i) == sc.files[sc.chain[i]]
           n == Len(sc.chain)
           has == {i \in 1..n : o < f(i).size /\ f(i).cells[o].kind # "hole"}
<1>1. n \in Nat /\ own \in 1..n
  BY OpenChainIs
<1>2. \A i \in 1..n : Layer(i).size = f(i).size /\ Layer(i).cells = f(i).cells
  BY OpenChainIs, LayersAre
<1>3. own \in has
  BY <1>1, <1>2
<1>4. ASSUME NEW i \in has PROVE own <= i
  <2>1. i \in 1..n /\ o < Layer(i).size /\ Layer(i).cells[o].kind # "hole"
    BY <1>2
  <2>2. i \notin 1..(own - 1)
    BY <2>1
  <2> QED
    BY <1>1, <2>1, <2>2
<1>5. has \subseteq Nat
  BY <1>1
<1>6. Merged(o) = IF has = {} THEN [kind |-> "zero", val |-> 0]
                  ELSE f(CHOOSE i \in has : \A j \in has : i <= j).cells[o]
  BY DEF Merged, MergedOf
<1> HIDE DEF has, f
<1>7. (CHOOSE i \in has : \A j \in has : i <= j) = own
  <2>1. own \in has /\ \A j \in has : own <= j
    BY <1>3, <1>4
  <2>2. \A x, y \in has : (\A j \in has : x <= j) /\ (\A j \in has : y <= j) => x = y
    <3> SUFFICES ASSUME NEW x \in has, NEW y \in has, \A j \in has : x <= j, \A j \in has : y <= j
                 PROVE  x = y
      OBVIOUS
    <3>1. x \in Nat /\ y \in Nat /\ x <= y /\ y <= x
      BY <1>5
    <3> QED
      BY <3>1
  <2> QED
    BY <2>1, <2>2
<1>8. Merged(o) = f(own).cells[o]
  BY <1>3, <1>6, <1>7
<1> QED
  BY <1>1, <1>2, <1>8

\* Where no layer stores anything, the chain reads zero.
LEMMA MergedIsZero ==
    ASSUME OpenChain, NEW o \in Nat,
           \A i \in 1..Len(layers) : o < Layer(i).size =>
               \/ Layer(i).cells[o].kind = "hole"
               \/ /\ i = Len(layers)
                  /\ Layer(i).cells[o].kind = "zero" /\ Layer(i).cells[o].val = 0
    PROVE  Merged(o).kind = "zero" /\ Merged(o).val = 0
<1> DEFINE n == Len(layers)
<1>1. n \in Nat \ {0} /\ n = Len(sc.chain)
  BY OpenChainIs
<1>2. CASE \A i \in 1..n : o < Layer(i).size => Layer(i).cells[o].kind = "hole"
  <2>1. \A i \in 1..n : Layer(i).size = sc.files[sc.chain[i]].size
                        /\ Layer(i).cells = sc.files[sc.chain[i]].cells
    BY <1>1, OpenChainIs, LayersAre
  <2>2. {i \in 1..Len(sc.chain) : /\ o < sc.files[sc.chain[i]].size
                                  /\ sc.files[sc.chain[i]].cells[o].kind # "hole"} = {}
    BY <1>1, <1>2, <2>1
  <2>3. Merged(o) = [kind |-> "zero", val |-> 0]
    BY <2>2 DEF Merged, MergedOf
  <2> QED
    BY <2>3
<1>3. CASE ~\A i \in 1..n : o < Layer(i).size => Layer(i).cells[o].kind = "hole"
  <2>1. /\ n \in 1..n
        /\ o < Layer(n).size /\ Layer(n).cells[o].kind = "zero" /\ Layer(n).cells[o].val = 0
    BY <1>1, <1>3
  <2>2. ASSUME NEW i \in 1..(n - 1), o < Layer(i).size PROVE Layer(i).cells[o].kind = "hole"
    <3>1. i \in 1..n /\ i # n
      BY <1>1
    <3> QED
      BY <2>2, <3>1
  <2>3. Layer(n).cells[o].kind # "hole"
    BY <2>1
  <2>4. Merged(o) = Layer(n).cells[o]
    BY <2>1, <2>2, <2>3, MergedIs
  <2> QED
    BY <2>1, <2>4
<1> QED
  BY <1>2, <1>3

----------------------------------------------------------------------------
(* The chain implements one virtual disk                                   *)

\* A function on 1..n is a sequence of length n; without arguments, the empty one.
LEMMA FunctionIsSeq ==
    ASSUME NEW S, NEW n \in Nat, NEW f \in [1..n -> S]
    PROVE  f \in Seq(S) /\ Len(f) = n
<1>1. f \in Seq(S)
  BY SMT
<1>2. DOMAIN f = 1..n
  OBVIOUS
<1>3. Len(f) \in Nat /\ DOMAIN f = 1..Len(f)
  BY <1>1
<1> QED
  BY <1>1, <1>2, <1>3

LEMMA EmptyRun ==
    ASSUME NEW f, DOMAIN f = 1..0, f = [i \in DOMAIN f |-> f[i]]
    PROVE  f = << >>
OBVIOUS

\* An answer with the cells of the chain at the cursor, none only where it may
\* be, is a read of the disk.
LEMMA RunIsRead ==
    ASSUME OpenChain, NEW len \in Nat, NEW n \in 0..len, NEW data,
           data = [i \in 1..n |-> Merged(pos + i - 1).val],
           n = 0 \/ pos + n <= virtual_disk_size,
           \A i \in 0..(n - 1) : Merged(pos + i).kind \in {"zero", "data"},
           n = 0 => len = 0 \/ pos >= virtual_disk_size \/ Merged(pos).kind = "end",
           out' = Answer("read", TRUE, pos, len, data), pos' = pos + n,
           sc' = sc, virtual_disk_size' = virtual_disk_size
    PROVE  Disk!ReadOk
<1> DEFINE disk == [o \in 0..(virtual_disk_size - 1) |-> Merged(o)]
<1>1. pos \in Nat /\ virtual_disk_size \in Nat
  BY OpenChainIs
<1>2. Len(data) = n
  <2> DEFINE S == {Merged(pos + i - 1).val : i \in 1..n}
  <2>1. data \in [1..n -> S]
    OBVIOUS
  <2> HIDE DEF S
  <2> QED
    BY <2>1, FunctionIsSeq
<1>3. \A o \in 0..(virtual_disk_size - 1) : disk[o] = Merged(o)
  OBVIOUS
<1>4. \A i \in 0..(n - 1) : pos + i \in 0..(virtual_disk_size - 1)
  BY <1>1
<1>5. data = Disk!Run(pos, n)
  <2>1. \A i \in 1..n : disk[pos + i - 1] = Merged(pos + i - 1)
    <3> SUFFICES ASSUME NEW i \in 1..n PROVE disk[pos + i - 1] = Merged(pos + i - 1)
      OBVIOUS
    <3>1. pos + i - 1 \in 0..(virtual_disk_size - 1)
      BY <1>1
    <3> QED
      BY <1>3, <3>1
  <2>2. Disk!Run(pos, n) = [i \in 1..n |-> disk[pos + i - 1].val]
    BY DEF Disk!Run
  <2> HIDE DEF disk
  <2> QED
    BY <2>1, <2>2
<1>6. n \in Disk!Runs(pos, len)
  <2>1. \A i \in 0..(n - 1) : Disk!Has(pos + i)
    <3> SUFFICES ASSUME NEW i \in 0..(n - 1) PROVE Disk!Has(pos + i)
      OBVIOUS
    <3>1. pos + i < virtual_disk_size /\ disk[pos + i] = Merged(pos + i)
      BY <1>1, <1>3, <1>4
    <3> QED
      BY <3>1 DEF Disk!Has
  <2>2. n = 0 => len = 0 \/ Disk!Stops(pos)
    <3> SUFFICES ASSUME n = 0, len # 0, ~(pos >= virtual_disk_size)
                 PROVE  disk[pos].kind = "end"
      BY DEF Disk!Stops
    <3>1. pos \in 0..(virtual_disk_size - 1)
      BY <1>1
    <3> QED
      BY <1>3, <3>1
  <2> QED
    BY <2>1, <2>2 DEF Disk!Runs
<1>7. UNCHANGED disk
  <2>1. \A o : Merged(o)' = Merged(o)
    BY DEF Merged
  <2> QED
    BY <2>1
<1>8. /\ out'.op = "read" /\ out'.ok /\ out'.data = data /\ out'.arg = len
  BY DEF Answer
<1> HIDE DEF disk
<1> QED
  BY <1>2, <1>5, <1>6, <1>7, <1>8 DEF Disk!ReadOk, disk

\* A read of sectors that no layer has.
LEMMA ZerosAreRead ==
    ASSUME OpenChain, NEW len \in Nat \ {0}, pos < virtual_disk_size,
           Owner(pos \div SECTOR_SIZE) = 0,
           out' = Answer("read", TRUE, pos, len, [i \in 1..ToRead(len) |-> 0]),
           pos' = pos + ToRead(len),
           sc' = sc, virtual_disk_size' = virtual_disk_size
    PROVE  Disk!ReadOk
<1> DEFINE n == ToRead(len)
<1>1. pos \in Nat /\ virtual_disk_size \in Nat /\ Len(layers) \in Nat
  BY OpenChainIs
<1>2. n \in Nat \ {0} /\ n <= len /\ n <= virtual_disk_size - pos
  BY OpenChainIs, ToReadBounds
<1>3. \A i \in 1..Len(layers) : ~is_allocated(layers[i], pos \div SECTOR_SIZE)
  BY <1>1, OwnerIs
<1>4. ASSUME NEW k \in 0..(n - 1)
      PROVE  Merged(pos + k).kind = "zero" /\ Merged(pos + k).val = 0
  <2>1. k \in Nat /\ k < n /\ pos + k \in Nat
    BY <1>1, <1>2
  <2>2. ASSUME NEW i \in 1..Len(layers), pos + k < Layer(i).size
        PROVE  \/ Layer(i).cells[pos + k].kind = "hole"
               \/ /\ i = Len(layers)
                  /\ Layer(i).cells[pos + k].kind = "zero" /\ Layer(i).cells[pos + k].val = 0
    BY <1>3, <2>1, <2>2, LayerHolds
  <2> QED
    BY <2>1, <2>2, MergedIsZero
<1> HIDE DEF n
<1>5. [i \in 1..n |-> 0] = [i \in 1..n |-> Merged(pos + i - 1).val]
  <2> SUFFICES ASSUME NEW i \in 1..n PROVE Merged(pos + i - 1).val = 0
    OBVIOUS
  <2>1. i - 1 \in 0..(n - 1) /\ pos + (i - 1) = pos + i - 1
    BY <1>1, <1>2
  <2> QED
    BY <1>4, <2>1
<1>6. \A i \in 0..(n - 1) : Merged(pos + i).kind \in {"zero", "data"}
  BY <1>4
<1>7. n \in 0..len /\ n # 0 /\ pos + n <= virtual_disk_size
  BY <1>1, <1>2
<1> QED
  BY <1>5, <1>6, <1>7, RunIsRead DEF n

\* A read of the newest layer that has the sector.
LEMMA LayerIsRead ==
    ASSUME OpenChain, NEW len \in Nat \ {0}, pos < virtual_disk_size,
           NEW own, own = Owner(pos \div SECTOR_SIZE), own # 0,
           NEW n \in LayerRuns(layers[own], ToRead(len)),
           out' = Answer("read", TRUE, pos, len,
                         [i \in 1..n |-> layers[own].cells[pos + i - 1].val]),
           pos' = pos + n,
           sc' = sc, virtual_disk_size' = virtual_disk_size
    PROVE  Disk!ReadOk
<1> DEFINE l == Layer(own)
           m == ToRead(len)
<1>1. pos \in Nat /\ virtual_disk_size \in Nat /\ Len(layers) \in Nat
  BY OpenChainIs
<1>2. m \in Nat \ {0} /\ m <= len /\ m <= virtual_disk_size - pos
  BY OpenChainIs, ToReadBounds
<1>3. /\ own \in 1..Len(layers) /\ pos < layers[own].size
      /\ is_allocated(layers[own], pos \div SECTOR_SIZE)
  BY OwnerHolds DEF OpenChain
<1>4. /\ layers[own] = l /\ l.size \in Nat /\ l.grain \in Nat /\ l.flat \in BOOLEAN
      /\ l.flat \/ l.grain > 0
  BY <1>3, OpenChainIs
<1>5. \A i \in 1..(own - 1) : ~is_allocated(layers[i], pos \div SECTOR_SIZE)
  BY <1>1, <1>3, OwnerIs
<1> HIDE DEF l, m
<1>6. /\ n \in 0..m
      /\ n = 0 => l.cells[pos].kind = "end"
      /\ n > 0 => /\ pos + n <= l.size
                  /\ \A i \in 0..(n - 1) : l.cells[pos + i].kind \notin {"end", "err"}
  BY <1>1, <1>2, <1>3, <1>4, LayerRunsIs DEF m
<1>7. ASSUME NEW k \in Nat, k < m, pos + k < l.size
      PROVE  Merged(pos + k) = l.cells[pos + k] /\ l.cells[pos + k].kind # "hole"
  <2>1. l.cells[pos + k].kind # "hole"
    BY <1>3, <1>7, LayerHolds DEF l, m
  <2>2. ASSUME NEW i \in 1..(own - 1), pos + k < Layer(i).size
        PROVE  Layer(i).cells[pos + k].kind = "hole"
    <3>1. i \in 1..Len(layers) /\ i # Len(layers)
      BY <1>1, <1>3
    <3>2. ~is_allocated(layers[i], pos \div SECTOR_SIZE)
      BY <1>5
    <3> QED
      BY <1>7, <2>2, <3>1, <3>2, LayerHolds DEF m
  <2>3. pos + k \in Nat
    BY <1>1
  <2> QED
    BY <1>3, <1>7, <2>1, <2>2, <2>3, MergedIs DEF l
<1>8. \A k \in 0..(n - 1) : /\ Merged(pos + k) = l.cells[pos + k]
                            /\ Merged(pos + k).kind \in {"zero", "data"}
  <2> SUFFICES ASSUME NEW k \in 0..(n - 1)
               PROVE  /\ Merged(pos + k) = l.cells[pos + k]
                      /\ Merged(pos + k).kind \in {"zero", "data"}
    OBVIOUS
  <2>1. k \in Nat /\ k < m /\ n > 0 /\ pos + k < l.size /\ pos + k \in 0..(l.size - 1)
    BY <1>1, <1>2, <1>4, <1>6
  <2>2. Merged(pos + k) = l.cells[pos + k] /\ l.cells[pos + k].kind # "hole"
    BY <1>7, <2>1
  <2>3. l.cells[pos + k].kind \in CellKinds
    BY <1>3, <2>1, OpenChainIs, LayersAre DEF l
  <2>4. l.cells[pos + k].kind \notin {"end", "err"}
    BY <1>6, <2>1
  <2> QED
    BY <2>2, <2>3, <2>4 DEF CellKinds
<1>9. [i \in 1..n |-> layers[own].cells[pos + i - 1].val] = [i \in 1..n |-> Merged(pos + i - 1).val]
  <2> SUFFICES ASSUME NEW i \in 1..n
               PROVE  layers[own].cells[pos + i - 1].val = Merged(pos + i - 1).val
    OBVIOUS
  <2>1. i - 1 \in 0..(n - 1) /\ pos + (i - 1) = pos + i - 1
    BY <1>1, <1>6, <1>2
  <2> QED
    BY <1>4, <1>8, <2>1
<1>10. n = 0 => Merged(pos).kind = "end"
  <2> SUFFICES ASSUME n = 0 PROVE Merged(pos).kind = "end"
    OBVIOUS
  <2>1. pos + 0 = pos /\ 0 < m /\ pos + 0 < l.size
    BY <1>1, <1>2, <1>3, <1>4
  <2>2. Merged(pos) = l.cells[pos]
    BY <1>7, <2>1
  <2> QED
    BY <1>6, <2>2
<1>11. n \in 0..len /\ pos + n <= virtual_disk_size
  BY <1>1, <1>2, <1>6
<1> QED
  BY <1>8, <1>9, <1>10, <1>11, RunIsRead

\* Before it is open, a chain has answered nothing; and it has no size.
LEMMA Closed == IInv /\ st = "opening" => virtual_disk_size = 0 /\ pos = 0 /\ out.op = "none"
BY DEF IInv

LEMMA InitImplements == Init => Disk!Init
BY DEF Init, Disk!Init, Answer

\* Every read is a read of the disk, or an error that moves nothing.
LEMMA ReadImplements ==
    ASSUME OpenChain, NEW len \in Lengths, Read(len)
    PROVE  Disk!Next
<1> DEFINE own == Owner(pos \div SECTOR_SIZE)
<1>1. /\ len \in Nat /\ pos \in Nat /\ sc' = sc /\ virtual_disk_size' = virtual_disk_size
      /\ virtual_disk_size \in Nat
  BY ChainAssumption, OpenChainIs, ReadCases
<1>2. CASE (len = 0 \/ pos >= virtual_disk_size)
           /\ out' = Answer("read", TRUE, pos, len, << >>) /\ pos' = pos
  <2> DEFINE none == [i \in 1..0 |-> Merged(pos + i - 1).val]
  <2>1. none = << >>
    <3>1. DOMAIN none = 1..0 /\ none = [i \in DOMAIN none |-> none[i]]
      OBVIOUS
    <3> HIDE DEF none
    <3> QED
      BY <3>1, EmptyRun
  <2>2. out' = Answer("read", TRUE, pos, len, none) /\ pos' = pos + 0
    BY <1>1, <1>2, <2>1
  <2>3. 0 \in 0..len /\ 0..(0 - 1) = {}
    BY <1>1
  <2>4. len = 0 \/ pos >= virtual_disk_size
    BY <1>2
  <2>5. Disk!ReadOk
    BY <1>1, <2>2, <2>3, <2>4, RunIsRead
  <2> QED
    BY <2>5 DEF Disk!Next
<1>3. CASE len > 0 /\ pos < virtual_disk_size /\ own = 0
           /\ out' = Answer("read", TRUE, pos, len, [i \in 1..ToRead(len) |-> 0])
           /\ pos' = pos + ToRead(len)
  <2>1. len \in Nat \ {0}
    BY <1>1, <1>3
  <2>2. Disk!ReadOk
    BY <1>1, <1>3, <2>1, ZerosAreRead
  <2> QED
    BY <2>2 DEF Disk!Next
<1>4. CASE len > 0 /\ pos < virtual_disk_size /\ own # 0
           /\ \E k \in LayerRuns(layers[own], ToRead(len)) :
                  /\ out' = Answer("read", TRUE, pos, len,
                                   [i \in 1..k |-> layers[own].cells[pos + i - 1].val])
                  /\ pos' = pos + k
  <2>1. len \in Nat \ {0}
    BY <1>1, <1>4
  <2>2. PICK k \in LayerRuns(layers[own], ToRead(len)) :
            /\ out' = Answer("read", TRUE, pos, len,
                             [i \in 1..k |-> layers[own].cells[pos + i - 1].val])
            /\ pos' = pos + k
    BY <1>4
  <2>3. PICK w : w = own /\ w # 0
    BY <1>4
  <2>4. Disk!ReadOk
    BY <1>1, <1>4, <2>1, <2>2, LayerIsRead
  <2> QED
    BY <2>4 DEF Disk!Next
<1>5. CASE out' = Answer("read", FALSE, pos, len, << >>) /\ pos' = pos
  <2>1. out'.op = "read" /\ ~out'.ok
    BY <1>5 DEF Answer
  <2>2. \A o : Merged(o)' = Merged(o)
    BY <1>1 DEF Merged
  <2>3. Disk!ReadErr
    BY <1>1, <1>5, <2>1, <2>2 DEF Disk!ReadErr
  <2> QED
    BY <2>3 DEF Disk!Next
<1> QED
  BY <1>2, <1>3, <1>4, <1>5, ReadCases

\* Every step of the chain is a step of the disk: the last file opens it.
LEMMA NextImplements ==
    IInv /\ Layered(sc) /\ Followed /\ [Next]_vars => [Disk!Next]_(Disk!vars)
<1> SUFFICES ASSUME IInv, Layered(sc), Followed, [Next]_vars
             PROVE  [Disk!Next]_(Disk!vars)
  OBVIOUS
<1>1. ASSUME sc' = sc, UNCHANGED <<virtual_disk_size, pos, out>> PROVE UNCHANGED Disk!vars
  <2>1. \A o : Merged(o)' = Merged(o)
    BY <1>1 DEF Merged
  <2> QED
    BY <1>1, <2>1 DEF Disk!vars
<1>2. CASE OpenFails
  BY <1>1, <1>2 DEF OpenFails
<1>3. CASE OpenLayer
  <2>1. st = "opening" /\ UNCHANGED <<sc, pos, out>>
    BY <1>3 DEF OpenLayer
  <2>2. virtual_disk_size = 0 /\ pos = 0 /\ out.op = "none"
    BY <2>1, Closed
  <2>3. Disk!Open
    BY <2>1, <2>2 DEF Disk!Open
  <2> QED
    BY <2>3 DEF Disk!Next
<1>4. ASSUME NEW len \in Lengths, Read(len) PROVE Disk!Next
  <2>1. OpenChain
    BY <1>4, ReadCases DEF OpenChain
  <2> QED
    BY <1>4, <2>1, ReadImplements
<1>5. CASE Seek
  <2>1. /\ pos' \in Nat /\ sc' = sc /\ virtual_disk_size' = virtual_disk_size
        /\ out'.op = "seek" /\ (~out'.ok => pos' = pos)
    BY <1>5, SeekInv
  <2>2. \A o : Merged(o)' = Merged(o)
    BY <2>1 DEF Merged
  <2>3. Disk!Seek
    BY <2>1, <2>2 DEF Disk!Seek
  <2> QED
    BY <2>3 DEF Disk!Next
<1>6. CASE UNCHANGED vars
  BY <1>1, <1>6 DEF vars
<1> QED
  BY <1>2, <1>3, <1>4, <1>5, <1>6 DEF Next

\* A chain whose files fit together is one virtual disk, for any number and size
\* of layers and grains: whatever the medium does and wherever the calls seek, a
\* read returns what the newest file that stores a cell holds there, over as many
\* cells as one layer may answer for, and an error moves nothing (open, Read and
\* Seek for VmdkChainReader).
THEOREM ChainIsDisk == Spec /\ Layered(sc) => ImplementsDisk
<1>1. Init /\ Layered(sc) => Layered(sc) /\ Followed
  BY InitFollowed
<1>2. Spec /\ Layered(sc) => [](Layered(sc) /\ Followed)
  BY <1>1, NextFollowed, Invariance, PTL DEF Spec
<1>3. Spec /\ Layered(sc) => Disk!Init /\ [][Disk!Next]_(Disk!vars)
  BY <1>2, InitImplements, NextImplements, Invariance, PTL DEF Spec
<1> QED
  BY <1>3 DEF ImplementsDisk, Disk!Spec
=============================================================================
