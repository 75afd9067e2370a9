---------------------------- MODULE Image_proofs ----------------------------
(***************************************************************************)
(* Facts about images, for every header and every file: the operators of   *)
(* SparseImage; what open keeps of a header it has accepted, a well-formed *)
(* image whose grain directory covers the disk (SparseOpen); and what the  *)
(* verdicts of vmdk-forensic mean for the reader, the second parser        *)
(* agreeing with the first (Integrity); and the reads of the commands      *)
(* (DiskView).                                                             *)
(***************************************************************************)
EXTENDS Integrity, DiskView, FiniteSetTheorems, WellFoundedInduction, TLAPS

\* A cache that holds, for each of its sectors, the table the file has there.
Coherent(im, cache) ==
    \A sec \in DOMAIN cache :
        /\ sec # 0
        /\ TableInFile(im, sec)
        /\ cache[sec] = GrainTable(im, sec)

\* A function on 1..n is a sequence of length n.
LEMMA FunctionIsSeq ==
    ASSUME NEW S, NEW n \in Nat, NEW f \in [1..n -> S]
    PROVE  f \in Seq(S) /\ Len(f) = n
<1>1. f \in Seq(S)
  BY SMT
<1>2. DOMAIN f = 1..n
  OBVIOUS
<1>3. Len(f) \in Nat /\ DOMAIN f = 1..Len(f)
  BY <1>1
<1> QED
  BY <1>1, <1>2, <1>3

\* A function without arguments is the empty sequence.
LEMMA EmptyRun ==
    ASSUME NEW f, DOMAIN f = 1..0, f = [i \in DOMAIN f |-> f[i]]
    PROVE  f = << >>
OBVIOUS

\* A read_exact that stays in the file returns that many cells.
LEMMA CellsType ==
    ASSUME NEW im, im.file \in Seq(Nat), NEW off \in Nat, NEW n \in Nat, InFile(im, off, n)
    PROVE  Cells(im, off, n) \in Seq(Nat) /\ Len(Cells(im, off, n)) = n
<1>1. \A i \in 1..n : im.file[off + i] \in Nat
  BY DEF InFile
<1>2. Cells(im, off, n) \in [1..n -> Nat]
  BY <1>1 DEF Cells
<1> QED
  BY <1>2, FunctionIsSeq

\* Directory and table indices of an offset are in range for their table.
LEMMA IndexType ==
    ASSUME NEW im \in Image, NEW off \in Nat
    PROVE  /\ GrainIdx(im, off) \in Nat
           /\ GdIdx(im, off) \in Nat
           /\ GteIdx(im, off) \in 0..(im.num_gtes_per_gt - 1)
<1>1. im.grain_size \in Nat \ {0} /\ im.num_gtes_per_gt \in Nat \ {0}
  BY DEF Image
<1>2. GrainIdx(im, off) \in Nat
  BY <1>1 DEF GrainIdx
<1>3. GdIdx(im, off) \in Nat
  BY <1>1, <1>2 DEF GdIdx
<1>4. GteIdx(im, off) \in 0..(im.num_gtes_per_gt - 1)
  BY <1>1, <1>2 DEF GteIdx
<1> QED
  BY <1>2, <1>3, <1>4

\* Every sector number the lookup uses is a natural number.
LEMMA SectorType ==
    ASSUME NEW im \in Image, NEW gd \in Nat, NEW fb \in BOOLEAN
    PROVE  /\ PrimaryGt(im, gd) \in Nat
           /\ rgd_dir_entry(im, gd) \in Nat
           /\ GtSector(im, fb, gd) \in Nat
<1>1. im.file \in Seq(Nat) /\ im.grain_dir \in Seq(Nat) /\ im.rgd_offset \in Nat
  BY DEF Image
<1>2. PrimaryGt(im, gd) \in Nat
  BY <1>1 DEF PrimaryGt
<1>3. rgd_dir_entry(im, gd) \in Nat
  <2>1. im.rgd_offset * SECTOR_SIZE \in Nat
    BY <1>1, ImageAssumption
  <2> QED
    BY <1>1, <2>1 DEF rgd_dir_entry, InFile
<1>4. GtSector(im, fb, gd) \in Nat
  BY <1>2, <1>3 DEF GtSector, resilient_gt_sector
<1> QED
  BY <1>2, <1>3, <1>4

\* A grain table in the file has one natural number per entry.
LEMMA TableType ==
    ASSUME NEW im \in Image, NEW sec \in Nat, TableInFile(im, sec)
    PROVE  /\ GrainTable(im, sec) \in Seq(Nat)
           /\ Len(GrainTable(im, sec)) = im.num_gtes_per_gt
<1>1. im.file \in Seq(Nat) /\ im.num_gtes_per_gt \in Nat /\ sec * SECTOR_SIZE \in Nat
  BY ImageAssumption DEF Image
<1> QED
  BY <1>1, CellsType DEF TableInFile, GrainTable

\* A coherent cache answers as the file would: whatever was read before, the
\* lookup has a table at hand or not, and finds an entry, independently of it.
LEMMA CacheTransparent ==
    ASSUME NEW im \in Image, NEW fb \in BOOLEAN, NEW cache, Coherent(im, cache),
           NEW off \in Nat
    PROVE  /\ TableAtHand(im, fb, cache, off) <=> TableAtHand(im, fb, << >>, off)
           /\ TableGte(im, fb, cache, off) = TableGte(im, fb, << >>, off)
           /\ EntryLost(im, fb, cache, off) <=> EntryLost(im, fb, << >>, off)
           /\ Gte(im, fb, cache, off) = Gte(im, fb, << >>, off)
           /\ grain_location(im, fb, cache, off) = grain_location(im, fb, << >>, off)
<1> DEFINE sec == GtSector(im, fb, GdIdx(im, off))
<1>1. DOMAIN << >> = {}
  OBVIOUS
<1>2. sec \in DOMAIN cache =>
         sec # 0 /\ TableInFile(im, sec) /\ cache[sec] = GrainTable(im, sec)
  BY DEF Coherent
<1> HIDE DEF sec
<1>3. TableAtHand(im, fb, cache, off) <=> TableAtHand(im, fb, << >>, off)
  BY <1>1, <1>2 DEF TableAtHand, sec
<1>4. TableGte(im, fb, cache, off) = TableGte(im, fb, << >>, off)
  BY <1>1, <1>2 DEF TableGte, sec
<1>5. EntryLost(im, fb, cache, off) <=> EntryLost(im, fb, << >>, off)
  BY <1>4 DEF EntryLost
<1>6. Gte(im, fb, cache, off) = Gte(im, fb, << >>, off)
  BY <1>4, <1>5 DEF Gte
<1>7. grain_location(im, fb, cache, off) = grain_location(im, fb, << >>, off)
  BY <1>3, <1>6 DEF grain_location
<1> QED
  BY <1>3, <1>4, <1>5, <1>6, <1>7

\* Recovery mode leaves a grain that is found without it where it was found:
\* the primary table is readable, so it is used; its entry is no hole, so the
\* redundant one is not consulted.
LEMMA RecoveryKeepsLocation ==
    ASSUME NEW im \in Image, NEW off \in Nat,
           grain_location(im, FALSE, << >>, off).kind \in {"FileOffset", "Compressed"}
    PROVE  grain_location(im, TRUE, << >>, off) = grain_location(im, FALSE, << >>, off)
<1> DEFINE gd == GdIdx(im, off)
           sec == PrimaryGt(im, gd)
<1>1. GtSector(im, FALSE, gd) = sec
  BY DEF GtSector
<1>2. sec # 0 /\ TableAtHand(im, FALSE, << >>, off) /\ ~(Gte(im, FALSE, << >>, off) <= 1)
  BY <1>1 DEF grain_location, Location
<1>3. usable(im, sec)
  <2>1. DOMAIN << >> = {}
    OBVIOUS
  <2>2. sec \in DOMAIN << >> \/ TableInFile(im, sec)
    BY <1>1, <1>2 DEF TableAtHand
  <2> QED
    BY <1>2, <2>1, <2>2 DEF usable
<1>4. GtSector(im, TRUE, gd) = sec
  BY <1>3 DEF GtSector, resilient_gt_sector
<1>5. /\ TableGte(im, TRUE, << >>, off) = TableGte(im, FALSE, << >>, off)
      /\ TableAtHand(im, TRUE, << >>, off)
  BY <1>1, <1>2, <1>4 DEF TableGte, TableAtHand
<1>6. Gte(im, FALSE, << >>, off) = TableGte(im, FALSE, << >>, off)
  BY DEF Gte, EntryLost
<1>7. Gte(im, TRUE, << >>, off) = Gte(im, FALSE, << >>, off)
  BY <1>2, <1>5, <1>6 DEF Gte, EntryLost
<1> QED
  BY <1>1, <1>2, <1>4, <1>5, <1>7 DEF grain_location

\* Hence a cell that reads as data reads the same in recovery mode.
LEMMA RecoveryKeepsCell ==
    ASSUME NEW im \in Image, NEW off \in Nat, CellAt(im, FALSE, off).kind = "data"
    PROVE  CellAt(im, TRUE, off) = CellAt(im, FALSE, off)
<1> DEFINE loc == grain_location(im, FALSE, << >>, off)
<1>1. loc.kind # "Err" /\ loc.kind # "Sparse"
  BY DEF CellAt, CellOf, Readable
<1>2. loc.kind \in {"Err", "Sparse", "FileOffset", "Compressed"}
  BY DEF grain_location, Location, CompressedAt
<1>3. grain_location(im, TRUE, << >>, off) = loc
  BY <1>1, <1>2, RecoveryKeepsLocation
<1> QED
  BY <1>3 DEF CellAt

\* The entry a lookup acts on is a natural number once its table is at hand.
LEMMA GteType ==
    ASSUME NEW im \in Image, NEW fb \in BOOLEAN, NEW off \in Nat,
           TableAtHand(im, fb, << >>, off)
    PROVE  /\ TableGte(im, fb, << >>, off) \in Nat
           /\ rgd_gte(im, GdIdx(im, off), GteIdx(im, off)) \in Nat
           /\ Gte(im, fb, << >>, off) \in Nat
<1> DEFINE gd == GdIdx(im, off)
           gi == GteIdx(im, off)
           sec == GtSector(im, fb, gd)
           rsec == rgd_dir_entry(im, gd)
<1>1. gd \in Nat /\ gi \in 0..(im.num_gtes_per_gt - 1) /\ im.num_gtes_per_gt \in Nat
  BY IndexType DEF Image
<1>2. sec \in Nat /\ rsec \in Nat
  BY <1>1, SectorType
<1>3. TableInFile(im, sec)
  <2>1. DOMAIN << >> = {}
    OBVIOUS
  <2> QED
    BY <2>1 DEF TableAtHand
<1>4. TableGte(im, fb, << >>, off) = GrainTable(im, sec)[gi + 1]
  <2>1. DOMAIN << >> = {}
    OBVIOUS
  <2> QED
    BY <2>1 DEF TableGte
<1> HIDE DEF gd, gi, sec, rsec
<1>5. GrainTable(im, sec)[gi + 1] \in Nat
  BY <1>1, <1>2, <1>3, TableType
<1>6. rgd_gte(im, gd, gi) \in Nat
  <2>1. CASE rsec = 0 \/ ~TableInFile(im, rsec)
    BY <2>1 DEF rgd_gte, rsec
  <2>2. CASE rsec # 0 /\ TableInFile(im, rsec)
    <3>1. rgd_gte(im, gd, gi) = GrainTable(im, rsec)[gi + 1]
      <4>1. gi + 1 \in 1..im.num_gtes_per_gt
        BY <1>1
      <4>2. rsec * SECTOR_SIZE + (gi + 1) = rsec * SECTOR_SIZE + gi + 1
        BY <1>1, <1>2, ImageAssumption
      <4> QED
        BY <2>2, <4>1, <4>2 DEF rgd_gte, rsec, GrainTable, Cells
    <3> QED
      BY <1>1, <1>2, <2>2, <3>1, TableType
  <2> QED
    BY <2>1, <2>2
<1> QED
  BY <1>4, <1>5, <1>6 DEF Gte, gd, gi

\* A location that can be read names a place in terms of natural numbers.
LEMMA LocationType ==
    ASSUME NEW im \in Image, NEW fb \in BOOLEAN, NEW off \in Nat
    PROVE  LET loc == grain_location(im, fb, << >>, off)
           IN  /\ loc.kind \in {"Err", "Sparse", "FileOffset", "Compressed"}
               /\ loc.offset \in Nat /\ loc.size \in Nat /\ loc.skip \in Nat
<1> DEFINE sec == GtSector(im, fb, GdIdx(im, off))
           gte == Gte(im, fb, << >>, off)
           skip == off % im.grain_size
           loc == grain_location(im, fb, << >>, off)
<1>1. CASE sec = 0 \/ ~TableAtHand(im, fb, << >>, off) \/ gte <= 1
  BY <1>1 DEF grain_location, Location
<1>2. CASE sec # 0 /\ TableAtHand(im, fb, << >>, off) /\ ~(gte <= 1)
  <2>1. gte \in Nat /\ gte * SECTOR_SIZE \in Nat
    BY <1>2, GteType, ImageAssumption
  <2>2. skip \in Nat
    BY DEF Image
  <2>3. CASE ~im.compressed
    <3>1. loc = Location("FileOffset", gte * SECTOR_SIZE + skip, 0, 0)
      BY <1>2, <2>3 DEF grain_location
    <3> QED
      BY <2>1, <2>2, <3>1 DEF Location
  <2>4. CASE im.compressed
    <3> DEFINE marker == gte * SECTOR_SIZE
    <3>1. loc = CompressedAt(im, marker, skip)
      BY <1>2, <2>4 DEF grain_location
    <3>2. InFile(im, marker, MARKER) => im.file[marker + 3] \in Nat
      <4>1. im.file \in Seq(Nat) /\ marker \in Nat
        BY <2>1 DEF Image
      <4> HIDE DEF marker
      <4>2. Len(im.file) \in Nat /\ \A j \in 1..Len(im.file) : im.file[j] \in Nat
        BY <4>1
      <4>3. InFile(im, marker, MARKER) => marker + 3 \in 1..Len(im.file)
        BY <4>1, <4>2 DEF InFile, MARKER
      <4> QED
        BY <4>2, <4>3
    <3> HIDE DEF marker, skip, loc
    <3>3. marker \in Nat
      BY <2>1 DEF marker
    <3> QED
      BY <2>2, <3>1, <3>2, <3>3 DEF CompressedAt, Location, MARKER, loc
  <2> QED
    BY <2>3, <2>4
<1> QED
  BY <1>1, <1>2

\* As many cells as are available at a readable location can be taken from it.
LEMMA ContentsType ==
    ASSUME NEW im \in Image, NEW fb \in BOOLEAN, NEW off \in Nat,
           NEW loc, loc = grain_location(im, fb, << >>, off), Readable(im, loc),
           NEW n \in Nat
    PROVE  /\ Available(im, loc, n) \in 0..n
           /\ \A k \in 0..Available(im, loc, n) :
                  Contents(im, loc, k) \in Seq(Nat) /\ Len(Contents(im, loc, k)) = k
<1>1. /\ loc.kind \in {"Sparse", "FileOffset", "Compressed"}
      /\ loc.offset \in Nat /\ loc.size \in Nat /\ loc.skip \in Nat
  BY LocationType DEF Readable
<1>2. im.file \in Seq(Nat) /\ Len(im.file) \in Nat
  BY DEF Image
<1>3. CASE loc.kind = "Sparse"
  <2>1. Available(im, loc, n) = n
    BY <1>3 DEF Available
  <2>2. ASSUME NEW k \in Nat PROVE Contents(im, loc, k) \in [1..k -> Nat]
    BY <1>3 DEF Contents
  <2> QED
    BY <2>1, <2>2, FunctionIsSeq
<1>4. CASE loc.kind = "FileOffset"
  <2>1. Available(im, loc, n) = IF loc.offset < Len(im.file)
                                THEN Min2(n, Len(im.file) - loc.offset) ELSE 0
    BY <1>4 DEF Available
  <2>2. /\ Available(im, loc, n) \in 0..n
        /\ \A k \in 0..Available(im, loc, n) : k = 0 \/ InFile(im, loc.offset, k)
    BY <1>1, <1>2, <2>1 DEF Min2, InFile
  <2>3. ASSUME NEW k \in 0..Available(im, loc, n)
        PROVE  Contents(im, loc, k) \in [1..k -> Nat]
    <3>1. Contents(im, loc, k) = Cells(im, loc.offset, k)
      BY <1>4 DEF Contents
    <3>2. k \in Nat /\ (k = 0 \/ loc.offset + k <= Len(im.file))
      BY <2>2 DEF InFile
    <3>3. \A i \in 1..k : loc.offset + i \in 1..Len(im.file)
      <4> DEFINE o == loc.offset
                 n1 == Len(im.file)
      <4>1. o \in Nat /\ n1 \in Nat /\ k \in Nat /\ (k = 0 \/ o + k <= n1)
        BY <1>1, <1>2, <3>2
      <4> HIDE DEF o, n1
      <4>2. \A i \in 1..k : o + i \in 1..n1
        BY <4>1
      <4> QED
        BY <4>2 DEF o, n1
    <3>4. \A i \in 1..k : im.file[loc.offset + i] \in Nat
      <4>1. \A j \in 1..Len(im.file) : im.file[j] \in Nat
        BY <1>2
      <4> QED
        BY <3>3, <4>1
    <3> QED
      BY <3>1, <3>4 DEF Cells
  <2> QED
    BY <2>2, <2>3, FunctionIsSeq
<1>5. CASE loc.kind = "Compressed"
  <2> DEFINE z == Inflated(im, loc)
  <2>1. z \in Seq(Nat)
    BY <1>5, ImageAssumption DEF Readable, Decodes, Inflated
  <2>2. Available(im, loc, n) = IF loc.skip < Len(z) THEN Min2(n, Len(z) - loc.skip) ELSE 0
    BY <1>5 DEF Available
  <2> HIDE DEF z
  <2>3. /\ Available(im, loc, n) \in 0..n
        /\ \A k \in 0..Available(im, loc, n) : k = 0 \/ loc.skip + k <= Len(z)
    BY <1>1, <2>1, <2>2 DEF Min2
  <2>4. ASSUME NEW k \in 0..Available(im, loc, n)
        PROVE  Contents(im, loc, k) \in [1..k -> Nat]
    <3>1. Contents(im, loc, k) = [i \in 1..k |-> z[loc.skip + i]]
      BY <1>5 DEF Contents, z
    <3>2. \A i \in 1..k : loc.skip + i \in 1..Len(z)
      <4> DEFINE o == loc.skip
                 n1 == Len(z)
      <4>1. o \in Nat /\ n1 \in Nat /\ k \in Nat /\ (k = 0 \/ o + k <= n1)
        BY <1>1, <2>1, <2>3
      <4> HIDE DEF o, n1
      <4>2. \A i \in 1..k : o + i \in 1..n1
        BY <4>1
      <4> QED
        BY <4>2 DEF o, n1
    <3>3. \A i \in 1..k : z[loc.skip + i] \in Nat
      <4>1. \A j \in 1..Len(z) : z[j] \in Nat
        BY <2>1
      <4> QED
        BY <3>2, <4>1
    <3> QED
      BY <3>1, <3>3
  <2> QED
    BY <2>3, <2>4, FunctionIsSeq
<1> QED
  BY <1>1, <1>3, <1>4, <1>5

----------------------------------------------------------------------------
(* Inside one grain.                                                       *)

\* What quotient and remainder are.
LEMMA DivMod ==
    ASSUME NEW a \in Nat, NEW b \in Nat \ {0}
    PROVE  a \div b \in Nat /\ a % b \in 0..(b - 1) /\ a = (a \div b) * b + (a % b)
OBVIOUS

\* They are determined by their bounds.
LEMMA DivUnique ==
    ASSUME NEW q \in Nat, NEW b \in Nat \ {0}, NEW r \in 0..(b - 1)
    PROVE  (q * b + r) \div b = q /\ (q * b + r) % b = r
OBVIOUS

\* Moving on inside a grain moves the offset in it and nothing else.
LEMMA InsideGrain ==
    ASSUME NEW gs \in Nat \ {0}, NEW off \in Nat, NEW i \in Nat, i < gs - (off % gs)
    PROVE  (off + i) \div gs = off \div gs /\ (off + i) % gs = (off % gs) + i
<1> DEFINE q == off \div gs
           r == off % gs
<1>1. q \in Nat /\ r \in 0..(gs - 1) /\ off = q * gs + r
  BY DivMod
<1>2. q * gs \in Nat
  BY <1>1
<1> HIDE DEF q, r
<1>3. r + i \in 0..(gs - 1)
  BY <1>1 DEF r
<1>4. off + i = q * gs + (r + i)
  BY <1>1, <1>2
<1>5. (q * gs + (r + i)) \div gs = q /\ (q * gs + (r + i)) % gs = r + i
  BY <1>1, <1>3, DivUnique
<1>6. (off + i) \div gs = q /\ (off + i) % gs = r + i
  BY <1>4, <1>5
<1> QED
  BY <1>6 DEF q, r

\* The lookup of a later offset of the same grain acts on the same entry.
LEMMA SameGrain ==
    ASSUME NEW im \in Image, NEW fb \in BOOLEAN, NEW off \in Nat, NEW i \in Nat,
           i < im.grain_size - (off % im.grain_size)
    PROVE  /\ GdIdx(im, off + i) = GdIdx(im, off)
           /\ TableAtHand(im, fb, << >>, off + i) <=> TableAtHand(im, fb, << >>, off)
           /\ Gte(im, fb, << >>, off + i) = Gte(im, fb, << >>, off)
           /\ (off + i) % im.grain_size = (off % im.grain_size) + i
<1>1. im.grain_size \in Nat \ {0}
  BY DEF Image
<1>2. (off + i) \div im.grain_size = off \div im.grain_size
  BY <1>1, InsideGrain
<1>3. (off + i) % im.grain_size = (off % im.grain_size) + i
  BY <1>1, InsideGrain
<1>4. GdIdx(im, off + i) = GdIdx(im, off) /\ GteIdx(im, off + i) = GteIdx(im, off)
  BY <1>2 DEF GdIdx, GteIdx, GrainIdx
<1>5. TableGte(im, fb, << >>, off + i) = TableGte(im, fb, << >>, off)
  BY <1>4 DEF TableGte
<1> QED
  BY <1>3, <1>4, <1>5 DEF TableAtHand, Gte, EntryLost

\* The place of that offset is the place of the first one, moved on.
MovedOn(loc, i) ==
    CASE loc.kind = "FileOffset" -> [loc EXCEPT !.offset = loc.offset + i]
      [] loc.kind = "Compressed" -> [loc EXCEPT !.skip = loc.skip + i]
      [] OTHER -> loc

LEMMA SameGrainLocation ==
    ASSUME NEW im \in Image, NEW fb \in BOOLEAN, NEW off \in Nat, NEW i \in Nat,
           i < im.grain_size - (off % im.grain_size)
    PROVE  grain_location(im, fb, << >>, off + i)
               = MovedOn(grain_location(im, fb, << >>, off), i)
<1> DEFINE sec == GtSector(im, fb, GdIdx(im, off))
           gte == Gte(im, fb, << >>, off)
           skip == off % im.grain_size
           hand == TableAtHand(im, fb, << >>, off)
           loc == grain_location(im, fb, << >>, off)
           next == grain_location(im, fb, << >>, off + i)
<1>1. /\ GtSector(im, fb, GdIdx(im, off + i)) = sec
      /\ Gte(im, fb, << >>, off + i) = gte
      /\ (off + i) % im.grain_size = skip + i
      /\ TableAtHand(im, fb, << >>, off + i) <=> hand
  BY SameGrain
<1>2. next = IF sec = 0 THEN Location("Sparse", 0, 0, 0)
             ELSE IF ~hand THEN Location("Err", 0, 0, 0)
             ELSE IF gte <= 1 THEN Location("Sparse", 0, 0, 0)
             ELSE IF im.compressed THEN CompressedAt(im, gte * SECTOR_SIZE, skip + i)
             ELSE Location("FileOffset", gte * SECTOR_SIZE + (skip + i), 0, 0)
  BY <1>1 DEF grain_location
<1>3. loc = IF sec = 0 THEN Location("Sparse", 0, 0, 0)
            ELSE IF ~hand THEN Location("Err", 0, 0, 0)
            ELSE IF gte <= 1 THEN Location("Sparse", 0, 0, 0)
            ELSE IF im.compressed THEN CompressedAt(im, gte * SECTOR_SIZE, skip)
            ELSE Location("FileOffset", gte * SECTOR_SIZE + skip, 0, 0)
  BY DEF grain_location
<1>4. skip \in Nat
  BY DEF Image
<1>5. sec # 0 /\ hand => gte \in Nat /\ gte * SECTOR_SIZE \in Nat
  BY GteType, ImageAssumption
<1> HIDE DEF sec, gte, skip, hand, loc, next
<1>6. CASE sec = 0 \/ ~hand \/ gte <= 1
  BY <1>2, <1>3, <1>6 DEF MovedOn, Location, loc, next
<1>7. CASE sec # 0 /\ hand /\ ~(gte <= 1) /\ im.compressed
  <2> DEFINE marker == gte * SECTOR_SIZE
  <2>1. next = CompressedAt(im, marker, skip + i) /\ loc = CompressedAt(im, marker, skip)
    BY <1>2, <1>3, <1>7
  <2> HIDE DEF marker
  <2> QED
    BY <2>1 DEF CompressedAt, Location, MovedOn, loc, next
<1>8. CASE sec # 0 /\ hand /\ ~(gte <= 1) /\ ~im.compressed
  <2> DEFINE base == gte * SECTOR_SIZE
  <2>1. /\ next = Location("FileOffset", base + (skip + i), 0, 0)
        /\ loc = Location("FileOffset", base + skip, 0, 0)
    BY <1>2, <1>3, <1>8
  <2>2. base \in Nat
    BY <1>5, <1>8
  <2> HIDE DEF base
  <2>3. base + (skip + i) = (base + skip) + i
    BY <1>4, <2>2
  <2> QED
    BY <2>1, <2>3 DEF Location, MovedOn, loc, next
<1> QED
  BY <1>6, <1>7, <1>8

\* A read that stays in its grain returns the cells of the disk one by one, and
\* returns none only where the storage ends.
LEMMA ReadIsRun ==
    ASSUME NEW im \in Image, NEW fb \in BOOLEAN, NEW off \in Nat,
           NEW loc, loc = grain_location(im, fb, << >>, off), Readable(im, loc),
           NEW n \in Nat, n <= im.grain_size - (off % im.grain_size)
    PROVE  /\ \A k \in 0..Available(im, loc, n) : \A i \in 0..(k - 1) :
                  /\ CellAt(im, fb, off + i).kind \in {"zero", "data"}
                  /\ CellAt(im, fb, off + i).val = Contents(im, loc, k)[i + 1]
           /\ n > 0 /\ Available(im, loc, n) = 0 => CellAt(im, fb, off).kind = "end"
<1>1. /\ loc.kind \in {"Sparse", "FileOffset", "Compressed"}
      /\ loc.offset \in Nat /\ loc.size \in Nat /\ loc.skip \in Nat
  BY LocationType DEF Readable
<1>2. im.file \in Seq(Nat) /\ Len(im.file) \in Nat /\ Available(im, loc, n) \in 0..n
  BY ContentsType DEF Image
<1>3. ASSUME n > 0, Available(im, loc, n) = 0
      PROVE  CellAt(im, fb, off).kind = "end"
  <2>1. Available(im, loc, 1) = 0
    <3>1. CASE loc.kind = "Sparse"
      BY <1>3, <3>1 DEF Available
    <3>2. CASE loc.kind = "FileOffset"
      BY <1>1, <1>2, <1>3, <3>2 DEF Available, Min2
    <3>3. CASE loc.kind = "Compressed"
      <4>1. Inflated(im, loc) \in Seq(Nat)
        BY <3>3, ImageAssumption DEF Readable, Decodes, Inflated
      <4>2. Len(Inflated(im, loc)) \in Nat
        BY <4>1
      <4> QED
        BY <1>1, <1>3, <3>3, <4>2 DEF Available, Min2
    <3> QED
      BY <1>1, <3>1, <3>2, <3>3
  <2> QED
    BY <2>1 DEF CellAt, CellOf
<1>4. ASSUME NEW k \in 0..Available(im, loc, n), NEW i \in 0..(k - 1)
      PROVE  /\ CellAt(im, fb, off + i).kind \in {"zero", "data"}
             /\ CellAt(im, fb, off + i).val = Contents(im, loc, k)[i + 1]
  <2> DEFINE l == grain_location(im, fb, << >>, off + i)
  <2>1. k \in Nat /\ i \in Nat /\ i < k /\ k <= n /\ i + 1 \in 1..k
    BY <1>2
  <2>2. l = MovedOn(loc, i)
    <3>1. off % im.grain_size \in Nat /\ im.grain_size \in Nat
      BY DEF Image
    <3>2. i < im.grain_size - (off % im.grain_size)
      BY <2>1, <3>1
    <3> QED
      BY <2>1, <3>2, SameGrainLocation
  <2>3. CellAt(im, fb, off + i) = CellOf(im, l)
    BY DEF CellAt
  <2> HIDE DEF l
  <2>4. CASE loc.kind = "Sparse"
    <3>1. l = loc
      BY <2>2, <2>4 DEF MovedOn
    <3>2. Readable(im, l) /\ Available(im, l, 1) = 1 /\ Contents(im, l, 1)[1] = 0
      BY <2>4, <3>1 DEF Available, Contents
    <3>3. Contents(im, loc, k)[i + 1] = 0
      BY <2>1, <2>4 DEF Contents
    <3> QED
      BY <2>3, <2>4, <3>1, <3>2, <3>3 DEF CellOf
  <2>5. CASE loc.kind = "FileOffset"
    <3>1. l.kind = "FileOffset" /\ l.offset = loc.offset + i
      <4>1. l = [loc EXCEPT !.offset = loc.offset + i]
        BY <2>2, <2>5 DEF MovedOn
      <4>2. loc = [kind |-> loc.kind, offset |-> loc.offset, size |-> loc.size,
                   skip |-> loc.skip]
        BY <2>5 DEF grain_location, Location, CompressedAt
      <4> QED
        BY <2>5, <4>1, <4>2
    <3>2. loc.offset + k <= Len(im.file)
      BY <1>1, <1>2, <2>1, <2>5 DEF Available, Min2
    <3>3. Readable(im, l) /\ Available(im, l, 1) = 1
      BY <1>1, <1>2, <2>1, <3>1, <3>2 DEF Readable, Available, Min2
    <3>4. Contents(im, l, 1)[1] = im.file[loc.offset + i + 1]
      BY <1>1, <2>1, <3>1 DEF Contents, Cells
    <3>5. Contents(im, loc, k)[i + 1] = im.file[loc.offset + i + 1]
      <4>1. loc.offset + (i + 1) = loc.offset + i + 1
        BY <1>1, <2>1
      <4> QED
        BY <2>1, <2>5, <4>1 DEF Contents, Cells
    <3> QED
      BY <2>3, <3>1, <3>3, <3>4, <3>5 DEF CellOf
  <2>6. CASE loc.kind = "Compressed"
    <3> DEFINE z == Inflated(im, loc)
    <3>1. l.kind = "Compressed" /\ l.offset = loc.offset /\ l.size = loc.size
          /\ l.skip = loc.skip + i
      <4>1. l = [loc EXCEPT !.skip = loc.skip + i]
        BY <2>2, <2>6 DEF MovedOn
      <4>2. loc = [kind |-> loc.kind, offset |-> loc.offset, size |-> loc.size,
                   skip |-> loc.skip]
        BY <2>6 DEF grain_location, Location, CompressedAt
      <4> QED
        BY <2>6, <4>1, <4>2
    <3>2. z \in Seq(Nat)
      BY <2>6, ImageAssumption DEF Readable, Decodes, Inflated
    <3>3. Readable(im, l) /\ Inflated(im, l) = z
      BY <2>6, <3>1 DEF Readable, Decodes, Inflated
    <3>4. Available(im, loc, n) = IF loc.skip < Len(z) THEN Min2(n, Len(z) - loc.skip) ELSE 0
      BY <2>6 DEF Available
    <3>5. Available(im, l, 1) = IF l.skip < Len(z) THEN Min2(1, Len(z) - l.skip) ELSE 0
      BY <3>1, <3>3 DEF Available
    <3>6. Contents(im, l, 1) = [j \in 1..1 |-> z[l.skip + j]]
      BY <3>1, <3>3 DEF Contents
    <3>7. Contents(im, loc, k) = [j \in 1..k |-> z[loc.skip + j]]
      BY <2>6 DEF Contents
    <3> HIDE DEF z
    <3>8. loc.skip + k <= Len(z)
      BY <1>1, <2>1, <3>2, <3>4 DEF Min2
    <3>9. Available(im, l, 1) = 1
      BY <1>1, <2>1, <3>1, <3>2, <3>5, <3>8 DEF Min2
    <3>10. l.skip + 1 = loc.skip + (i + 1)
      BY <1>1, <2>1, <3>1
    <3>11. Contents(im, l, 1)[1] = Contents(im, loc, k)[i + 1]
      BY <2>1, <3>6, <3>7, <3>10
    <3> QED
      BY <2>3, <3>1, <3>3, <3>9, <3>11 DEF CellOf
  <2> QED
    BY <1>1, <2>4, <2>5, <2>6
<1> QED
  BY <1>3, <1>4
----------------------------------------------------------------------------
(* The image open makes.                                                   *)

\* The directory of an open image is the one its geometry calls for.
Covers(im) ==
    \A off \in 0..(im.virtual_disk_size - 1) : GdIdx(im, off) < Len(im.grain_dir)

\* Its grains and the disk are whole numbers of sectors.
InSectors(im) ==
    \E gs, cap \in Nat : /\ im.grain_size = gs * SECTOR_SIZE
                         /\ im.virtual_disk_size = cap * SECTOR_SIZE

----------------------------------------------------------------------------
(* Arithmetic of the grain directory.                                      *)

\* A quotient is below any number of whole divisors that covers the dividend.
LEMMA DivBound ==
    ASSUME NEW a \in Nat, NEW q \in Nat, NEW b \in Nat \ {0}, a < q * b
    PROVE  a \div b < q
OBVIOUS

\* Rounding up covers the dividend.
LEMMA CeilDivCovers ==
    ASSUME NEW a \in Nat, NEW b \in Nat \ {0}
    PROVE  CeilDiv(a, b) \in Nat /\ a <= CeilDiv(a, b) * b
<1>1. (a + b - 1) \div b \in Nat
  OBVIOUS
<1>2. a <= ((a + b - 1) \div b) * b
  OBVIOUS
<1> QED
  BY <1>1, <1>2 DEF CeilDiv

\* A directory sized by rounding up twice has a slot for every offset.
LEMMA GeometryCovers ==
    ASSUME NEW im, NEW cap \in Nat, NEW gs \in Nat \ {0},
           im.grain_size \in Nat \ {0}, im.num_gtes_per_gt \in Nat \ {0},
           im.grain_size = gs * SECTOR_SIZE,
           im.virtual_disk_size = cap * SECTOR_SIZE,
           Len(im.grain_dir) \in Nat,
           CeilDiv(CeilDiv(cap, gs), im.num_gtes_per_gt) <= Len(im.grain_dir)
    PROVE  Covers(im)
<1> DEFINE n == im.num_gtes_per_gt
           grains == CeilDiv(cap, gs)
           tables == CeilDiv(grains, n)
<1>1. n \in Nat \ {0} /\ im.grain_size \in Nat \ {0}
  OBVIOUS
<1>2. grains \in Nat /\ cap <= grains * gs
  BY CeilDivCovers
<1>3. tables \in Nat /\ grains <= tables * n
  BY <1>1, <1>2, CeilDivCovers
<1> HIDE DEF n, grains, tables
<1> SUFFICES ASSUME NEW off \in 0..(im.virtual_disk_size - 1)
             PROVE  GdIdx(im, off) \in Nat /\ GdIdx(im, off) < tables
  BY <1>3 DEF Covers, tables, grains, n
<1>4. off \in Nat /\ off < cap * SECTOR_SIZE
  BY ImageAssumption
<1>5. cap * SECTOR_SIZE <= grains * (gs * SECTOR_SIZE)
  <2>1. cap * SECTOR_SIZE <= (grains * gs) * SECTOR_SIZE
    BY <1>2, ImageAssumption
  <2>2. (grains * gs) * SECTOR_SIZE = grains * (gs * SECTOR_SIZE)
    BY <1>2, ImageAssumption
  <2>3. cap * SECTOR_SIZE \in Nat /\ (grains * gs) * SECTOR_SIZE \in Nat
    BY <1>2, ImageAssumption
  <2> QED
    BY <2>1, <2>2, <2>3
<1>6. off < grains * im.grain_size
  <2>1. cap * SECTOR_SIZE \in Nat /\ grains * im.grain_size \in Nat
    BY <1>1, <1>2, ImageAssumption
  <2> QED
    BY <1>4, <1>5, <2>1
<1>7. GrainIdx(im, off) \in Nat /\ GrainIdx(im, off) < grains
  <2>1. off \div im.grain_size < grains
    BY <1>1, <1>2, <1>4, <1>6, DivBound
  <2> QED
    BY <1>1, <1>4, <2>1 DEF GrainIdx
<1>8. GrainIdx(im, off) < tables * n
  <2>1. tables * n \in Nat
    BY <1>1, <1>3
  <2> QED
    BY <1>2, <1>3, <1>7, <2>1
<1>9. GdIdx(im, off) \in Nat
  BY <1>1, <1>7 DEF GdIdx, n
<1> QED
  BY <1>1, <1>3, <1>7, <1>8, <1>9, DivBound DEF GdIdx, n

----------------------------------------------------------------------------
(* open                                                                    *)

\* The VMDK4 geometry of a header that parses, with its directory in the file,
\* is well formed.
LEMMA Vmdk4ImageType ==
    ASSUME NEW s, s.hdr \in HeaderFields, s.footer \in HeaderFields, s.file \in Seq(Nat),
           HeaderParses(s.hdr), InFile(s, GdOffset(s) * SECTOR_SIZE, NumGts(s.hdr)),
           NEW im, im = Vmdk4Image(s)
    PROVE  /\ im \in Image /\ im.file = s.file /\ Covers(im) /\ InSectors(im)
           /\ Len(im.grain_dir) = im.gd_entry_count
<1> DEFINE h == s.hdr
<1>1. /\ h.capacity \in Nat /\ h.grain_size \in Nat /\ h.num_gtes_per_gt \in Nat
      /\ h.rgd_offset \in Nat /\ GdOffset(s) \in Nat
  BY DEF HeaderFields, GdOffset
<1>2. h.grain_size \in Nat \ {0} /\ h.num_gtes_per_gt \in Nat \ {0}
  BY <1>1, HeaderAssumption DEF HeaderParses
<1>3. NumGts(h) \in Nat
  BY <1>1, <1>2, CeilDivCovers DEF NumGts
<1>4. GdOffset(s) * SECTOR_SIZE \in Nat
  BY <1>1, ImageAssumption
<1> DEFINE gdir == Cells(s, GdOffset(s) * SECTOR_SIZE, NumGts(h))
<1>5. gdir \in Seq(Nat) /\ Len(gdir) = NumGts(h)
  BY <1>1, <1>3, <1>4, CellsType
<1>6. h.grain_size * SECTOR_SIZE \in Nat \ {0} /\ h.capacity * SECTOR_SIZE \in Nat
  BY <1>1, <1>2, ImageAssumption
<1>7. /\ im.file = s.file /\ im.grain_dir = gdir
      /\ im.grain_size = h.grain_size * SECTOR_SIZE
      /\ im.virtual_disk_size = h.capacity * SECTOR_SIZE
      /\ im.num_gtes_per_gt = h.num_gtes_per_gt
      /\ im.gd_entry_count = NumGts(h)
  BY DEF Vmdk4Image
<1> HIDE DEF gdir
<1>8. im \in Image
  <2> DEFINE gs == h.grain_size * SECTOR_SIZE
             v == h.capacity * SECTOR_SIZE
             c == h.compress # 0
  <2>1. im = [file |-> s.file, grain_dir |-> gdir, grain_size |-> gs,
              num_gtes_per_gt |-> h.num_gtes_per_gt, virtual_disk_size |-> v,
              compressed |-> c, rgd_offset |-> h.rgd_offset,
              gd_entry_count |-> NumGts(h)]
    BY DEF Vmdk4Image, gdir
  <2>2. gs \in Nat \ {0} /\ v \in Nat
    BY <1>6
  <2>3. c \in BOOLEAN
    OBVIOUS
  <2> HIDE DEF gs, v, c
  <2> QED
    BY <1>1, <1>2, <1>3, <1>5, <2>1, <2>2, <2>3 DEF Image
<1>9. InSectors(im)
  BY <1>1, <1>7 DEF InSectors
<1>10. Covers(im)
  BY <1>1, <1>2, <1>3, <1>5, <1>6, <1>7, GeometryCovers DEF NumGts
<1> QED
  BY <1>5, <1>7, <1>8, <1>9, <1>10

\* An image built from a header that passed its checks is well formed.
LEMMA OpenImage ==
    ASSUME NEW s, s.hdr \in HeaderFields, s.footer \in HeaderFields, s.file \in Seq(Nat),
           Opens(s),
           NEW im, im = IF s.hdr.magic = "COWD" THEN CowdImage(s) ELSE Vmdk4Image(s)
    PROVE  im \in Image /\ im.file = s.file /\ Covers(im) /\ InSectors(im)
<1> DEFINE h == s.hdr
<1>1. /\ h.capacity \in Nat /\ h.grain_size \in Nat /\ h.num_gtes_per_gt \in Nat
      /\ h.rgd_offset \in Nat /\ GdOffset(s) \in Nat
      /\ s.file \in Seq(Nat)
  BY DEF HeaderFields, GdOffset
<1>2. CASE h.magic = "COWD"
  <2>1. CowdOpens(s) /\ im = CowdImage(s)
    BY <1>2 DEF Opens, Vmdk4Opens, HeaderParses
  <2>2. h.grain_size \in Nat \ {0} /\ COWD_GTES_PER_GT \in Nat \ {0}
    BY <1>1, <2>1, HeaderAssumption DEF CowdOpens
  <2>3. CowdNumGts(h) \in Nat
    BY <1>1, <2>2, CeilDivCovers DEF CowdNumGts
  <2>4. COWD_GD_SECTOR * SECTOR_SIZE \in Nat
    BY HeaderAssumption, ImageAssumption
  <2> DEFINE gdir == Cells(s, COWD_GD_SECTOR * SECTOR_SIZE, CowdNumGts(h))
  <2>5. gdir \in Seq(Nat) /\ Len(gdir) = CowdNumGts(h)
    BY <1>1, <2>1, <2>3, <2>4, CellsType DEF CowdOpens
  <2>6. h.grain_size * SECTOR_SIZE \in Nat \ {0} /\ h.capacity * SECTOR_SIZE \in Nat
    BY <1>1, <2>2, ImageAssumption
  <2>7. /\ im.file = s.file /\ im.grain_dir = gdir
        /\ im.grain_size = h.grain_size * SECTOR_SIZE
        /\ im.virtual_disk_size = h.capacity * SECTOR_SIZE
        /\ im.num_gtes_per_gt = COWD_GTES_PER_GT
    BY <2>1 DEF CowdImage
  <2> HIDE DEF gdir
  <2>8. im \in Image
    <3> DEFINE gs == h.grain_size * SECTOR_SIZE
               v == h.capacity * SECTOR_SIZE
               c == FALSE
               none == 0
    <3>1. im = [file |-> s.file, grain_dir |-> gdir, grain_size |-> gs,
                num_gtes_per_gt |-> COWD_GTES_PER_GT, virtual_disk_size |-> v,
                compressed |-> c, rgd_offset |-> none, gd_entry_count |-> none]
      BY <2>1 DEF CowdImage, gdir
    <3>2. gs \in Nat \ {0} /\ v \in Nat
      BY <2>6
    <3>3. c \in BOOLEAN /\ none \in Nat
      OBVIOUS
    <3> HIDE DEF gs, v, c, none
    <3> QED
      BY <1>1, <2>2, <2>5, <3>1, <3>2, <3>3 DEF Image
  <2> QED
    <3>1. /\ im.grain_size \in Nat \ {0} /\ im.num_gtes_per_gt \in Nat \ {0}
          /\ Len(im.grain_dir) \in Nat
          /\ CeilDiv(CeilDiv(h.capacity, h.grain_size), im.num_gtes_per_gt) <= Len(im.grain_dir)
      BY <2>2, <2>3, <2>5, <2>6, <2>7 DEF CowdNumGts
    <3>2. Covers(im)
      BY <1>1, <2>2, <2>7, <3>1, GeometryCovers
    <3>3. InSectors(im)
      BY <1>1, <2>7 DEF InSectors
    <3> QED
      BY <2>7, <2>8, <3>2, <3>3
<1>3. CASE h.magic # "COWD"
  <2>1. Vmdk4Opens(s) /\ im = Vmdk4Image(s)
    BY <1>3 DEF Opens, CowdOpens
  <2> QED
    BY <2>1, Vmdk4ImageType DEF Vmdk4Opens
<1> QED
  BY <1>2, <1>3

----------------------------------------------------------------------------
(* The allocation queries and the read path: two pieces of code, one answer.*)

\* The scan of a table finds the entry the read path acts on.
LEMMA ScanGteIsGte ==
    ASSUME NEW im \in Image, NEW fb \in BOOLEAN, NEW off \in Nat,
           TableAtHand(im, fb, << >>, off)
    PROVE  ScanGte(im, fb, GdIdx(im, off), GteIdx(im, off)) = Gte(im, fb, << >>, off)
<1> DEFINE gd == GdIdx(im, off)
           gi == GteIdx(im, off)
           rsec == rgd_dir_entry(im, gd)
           gte == GrainTable(im, GtSector(im, fb, gd))[gi + 1]
           rgt == IF fb THEN read_redundant_gt(im, gd) ELSE << >>
<1>1. gd \in Nat /\ gi \in 0..(im.num_gtes_per_gt - 1) /\ im.num_gtes_per_gt \in Nat \ {0}
  BY IndexType DEF Image
<1>2. rsec \in Nat
  BY <1>1, SectorType
<1>3. TableGte(im, fb, << >>, off) = gte
  <2>1. DOMAIN << >> = {}
    OBVIOUS
  <2> QED
    BY <2>1 DEF TableGte
<1>4. ScanGte(im, fb, gd, gi) =
          IF gte <= 1 /\ rgt # << >> /\ rgt[gi + 1] > 1 THEN rgt[gi + 1] ELSE gte
  BY DEF ScanGte
<1> HIDE DEF gd, gi, rsec, gte, rgt
<1>5. CASE ~fb
  BY <1>3, <1>4, <1>5 DEF rgt, Gte, EntryLost, gd, gi
<1>6. CASE fb /\ (rsec = 0 \/ ~TableInFile(im, rsec))
  <2>1. rgt = << >> /\ rgd_gte(im, gd, gi) = 0
    BY <1>6 DEF rgt, read_redundant_gt, rgd_gte, rsec
  <2> QED
    BY <1>3, <1>4, <2>1 DEF Gte, EntryLost, gd, gi
<1>7. CASE fb /\ rsec # 0 /\ TableInFile(im, rsec)
  <2>1. rgt = GrainTable(im, rsec)
    BY <1>7 DEF rgt, read_redundant_gt, rsec
  <2>2. Len(rgt) # 0
    BY <1>1, <1>2, <1>7, <2>1, TableType
  <2>3. rgt # << >>
    BY <2>2
  <2>4. rgd_gte(im, gd, gi) = rgt[gi + 1]
    <3>1. gi + 1 \in 1..im.num_gtes_per_gt
      BY <1>1
    <3>2. rsec * SECTOR_SIZE + (gi + 1) = rsec * SECTOR_SIZE + gi + 1
      BY <1>1, <1>2, ImageAssumption
    <3> QED
      BY <1>7, <2>1, <3>1, <3>2 DEF rgd_gte, rsec, GrainTable, Cells
  <2> QED
    BY <1>3, <1>4, <1>7, <2>3, <2>4 DEF Gte, EntryLost, gd, gi
<1> QED
  BY <1>5, <1>6, <1>7 DEF gd, gi

\* Grain g has slot g \div n of the directory and entry g % n of its table.
LEMMA GrainStart ==
    ASSUME NEW im, im.grain_size \in Nat \ {0}, NEW g \in Nat
    PROVE  /\ g * im.grain_size \in Nat /\ g <= g * im.grain_size
           /\ GdIdx(im, g * im.grain_size) = g \div im.num_gtes_per_gt
           /\ GteIdx(im, g * im.grain_size) = g % im.num_gtes_per_gt
<1> DEFINE gs == im.grain_size
<1>1. gs \in Nat \ {0}
  OBVIOUS
<1> HIDE DEF gs
<1>2. g * gs \in Nat /\ g <= g * gs
  BY <1>1
<1>3. (g * gs + 0) \div gs = g
  <2>1. 0 \in 0..(gs - 1)
    BY <1>1
  <2> QED
    BY <1>1, <2>1, DivUnique
<1>4. g * gs + 0 = g * gs
  BY <1>2
<1>5. GrainIdx(im, g * gs) = g
  BY <1>3, <1>4 DEF GrainIdx, gs
<1> QED
  BY <1>2, <1>5 DEF GdIdx, GteIdx, gs

\* A bound in sectors is the bound in cells.
LEMMA SectorBound ==
    ASSUME NEW im, InSectors(im), NEW g \in Nat
    PROVE  /\ g * (im.grain_size \div SECTOR_SIZE) < im.virtual_disk_size \div SECTOR_SIZE
                 <=> g * im.grain_size < im.virtual_disk_size
           /\ g < im.virtual_disk_size \div SECTOR_SIZE
                 <=> g * SECTOR_SIZE < im.virtual_disk_size
<1>1. PICK gs, cap \in Nat : /\ im.grain_size = gs * SECTOR_SIZE
                             /\ im.virtual_disk_size = cap * SECTOR_SIZE
  BY DEF InSectors
<1>2. SECTOR_SIZE \in Nat \ {0}
  BY ImageAssumption
<1>3. ASSUME NEW q \in Nat PROVE (q * SECTOR_SIZE) \div SECTOR_SIZE = q
  <2>1. (q * SECTOR_SIZE + 0) \div SECTOR_SIZE = q
    <3>1. 0 \in 0..(SECTOR_SIZE - 1)
      BY <1>2
    <3> QED
      BY <1>2, <3>1, DivUnique
  <2> QED
    BY <1>2, <2>1
<1>4. im.grain_size \div SECTOR_SIZE = gs /\ im.virtual_disk_size \div SECTOR_SIZE = cap
  BY <1>1, <1>3
<1>5. ASSUME NEW a \in Nat PROVE a < cap <=> a * SECTOR_SIZE < cap * SECTOR_SIZE
  BY <1>2
<1>6. g * gs \in Nat /\ (g * gs) * SECTOR_SIZE = g * (gs * SECTOR_SIZE)
  BY <1>2
<1> QED
  BY <1>1, <1>4, <1>5, <1>6

\* A scan that meets no table outside the file lists exactly the grains of the
\* disk whose lookup leads to stored data.
LEMMA ListingIsStored ==
    ASSUME NEW im \in Image, NEW fb \in BOOLEAN, Covers(im), InSectors(im),
           \A gd \in 0..(Len(im.grain_dir) - 1) : ~ScanFails(im, fb, gd)
    PROVE  Listing(im, fb) = {g \in 0..(im.virtual_disk_size - 1) :
                                 /\ g * im.grain_size < im.virtual_disk_size
                                 /\ Stored(im, fb, g * im.grain_size)}
<1> DEFINE n == im.num_gtes_per_gt
           size == im.virtual_disk_size
           slots == 0..(Len(im.grain_dir) - 1)
           In(g) == g * (im.grain_size \div SECTOR_SIZE) < size \div SECTOR_SIZE
<1>1. /\ n \in Nat \ {0} /\ size \in Nat /\ Len(im.grain_dir) \in Nat
      /\ im.grain_size \in Nat \ {0}
  BY DEF Image
<1>2. ASSUME NEW g \in Nat, NEW gd \in Nat, NEW gi \in 0..(n - 1), g = gd * n + gi,
             gd \in slots
      PROVE  gi \in ScanStored(im, fb, gd) <=> Stored(im, fb, g * im.grain_size)
  <2> DEFINE off == g * im.grain_size
             sec == GtSector(im, fb, gd)
  <2>1. off \in Nat /\ GdIdx(im, off) = gd /\ GteIdx(im, off) = gi
    <3>1. /\ off \in Nat /\ GdIdx(im, off) = g \div n /\ GteIdx(im, off) = g % n
      BY <1>1, <1>2, GrainStart
    <3>2. (gd * n + gi) \div n = gd /\ (gd * n + gi) % n = gi
      BY <1>1, <1>2, DivUnique
    <3> HIDE DEF off, n
    <3> QED
      BY <1>2, <3>1, <3>2
  <2> HIDE DEF off
  <2>2. sec # 0 => TableInFile(im, sec)
    BY <1>2 DEF ScanFails
  <2>3. TableAtHand(im, fb, << >>, off) <=> sec # 0
    <3>1. DOMAIN << >> = {}
      OBVIOUS
    <3> QED
      BY <2>1, <2>2, <3>1 DEF TableAtHand
  <2>4. sec # 0 => ScanGte(im, fb, gd, gi) = Gte(im, fb, << >>, off)
    BY <2>1, <2>3, ScanGteIsGte
  <2> QED
    BY <2>3, <2>4 DEF ScanStored, Stored, off
<1>3. ASSUME NEW g \in Listing(im, fb)
      PROVE  /\ g \in 0..(size - 1)
             /\ g * im.grain_size < size /\ Stored(im, fb, g * im.grain_size)
  <2>1. /\ g \in UNION {{gd * n + gi : gi \in ScanStored(im, fb, gd)} : gd \in slots}
        /\ In(g)
    BY DEF Listing
  <2>2. PICK gd \in slots : \E gi \in ScanStored(im, fb, gd) : g = gd * n + gi
    BY <2>1
  <2>3. PICK gi \in ScanStored(im, fb, gd) : g = gd * n + gi
    BY <2>2
  <2>4. gi \in 0..(n - 1)
    BY <2>3 DEF ScanStored
  <2>5. gd \in Nat
    BY <1>1
  <2>6. g \in Nat
    BY <1>1, <2>3, <2>4, <2>5
  <2>7. g * im.grain_size < size
    BY <2>1, <2>6, SectorBound
  <2>8. g \in 0..(size - 1)
    <3>1. g * im.grain_size \in Nat /\ g <= g * im.grain_size
      BY <1>1, <2>6, GrainStart
    <3> QED
      BY <1>1, <2>6, <2>7, <3>1
  <2> QED
    BY <1>2, <2>3, <2>4, <2>5, <2>6, <2>7, <2>8
<1>4. ASSUME NEW g \in 0..(size - 1), g * im.grain_size < size,
             Stored(im, fb, g * im.grain_size)
      PROVE  g \in Listing(im, fb)
  <2> DEFINE gd == g \div n
             gi == g % n
  <2>1. g \in Nat
    BY <1>1
  <2>2. gd \in Nat /\ gi \in 0..(n - 1) /\ g = gd * n + gi
    BY <1>1, <2>1, DivMod
  <2>3. gd \in slots
    <3>1. GdIdx(im, g * im.grain_size) = gd /\ g * im.grain_size \in Nat
      BY <1>1, <2>1, GrainStart
    <3>2. g * im.grain_size \in 0..(size - 1)
      BY <1>1, <1>4, <3>1
    <3>3. gd < Len(im.grain_dir)
      BY <3>1, <3>2 DEF Covers
    <3> HIDE DEF gd
    <3> QED
      BY <1>1, <2>2, <3>3
  <2> HIDE DEF gd, gi
  <2>4. gi \in ScanStored(im, fb, gd)
    BY <1>2, <1>4, <2>1, <2>2, <2>3
  <2>5. In(g)
    BY <1>4, <2>1, SectorBound
  <2>6. g \in UNION {{d * n + e : e \in ScanStored(im, fb, d)} : d \in slots}
    BY <2>2, <2>3, <2>4
  <2> QED
    BY <2>5, <2>6 DEF Listing
<1> QED
  BY <1>3, <1>4

\* is_allocated says what the read path finds, where the read path can say.
LEMMA AllocatedIsStored ==
    ASSUME NEW im \in Image, InSectors(im), NEW lba \in Nat,
           lba * SECTOR_SIZE < im.virtual_disk_size, AllocatedAt(im, lba) # "err",
           grain_location(im, FALSE, << >>, lba * SECTOR_SIZE).kind # "Err"
    PROVE  AllocatedAt(im, lba) = "yes" <=> Stored(im, FALSE, lba * SECTOR_SIZE)
<1> DEFINE off == lba * SECTOR_SIZE
           gd == GdIdx(im, off)
           gi == GteIdx(im, off)
           sec == PrimaryGt(im, gd)
           at == sec * SECTOR_SIZE + gi
<1>1. off \in Nat
  BY ImageAssumption
<1>2. ~(lba >= im.virtual_disk_size \div SECTOR_SIZE)
  <2>1. im.virtual_disk_size \in Nat /\ SECTOR_SIZE \in Nat \ {0}
    BY ImageAssumption DEF Image
  <2>2. im.virtual_disk_size \div SECTOR_SIZE \in Nat
    BY <2>1, DivMod
  <2> QED
    BY <2>2, SectorBound
<1> HIDE DEF off
<1>3. gd \in Nat /\ gi \in 0..(im.num_gtes_per_gt - 1) /\ im.num_gtes_per_gt \in Nat
  BY <1>1, IndexType DEF Image
<1>4. sec \in Nat /\ GtSector(im, FALSE, gd) = sec
  BY <1>3, SectorType DEF GtSector
<1>5. AllocatedAt(im, lba) = IF sec = 0 THEN "no"
                             ELSE IF ~InFile(im, at, 1) THEN "err"
                             ELSE IF im.file[at + 1] > 1 THEN "yes" ELSE "no"
  BY <1>2 DEF AllocatedAt, off
<1>6. DOMAIN << >> = {}
  OBVIOUS
<1>7. TableAtHand(im, FALSE, << >>, off) <=> sec # 0 /\ TableInFile(im, sec)
  BY <1>4, <1>6 DEF TableAtHand
<1>8. sec # 0 => TableAtHand(im, FALSE, << >>, off)
  BY <1>4 DEF grain_location, Location, off
<1>9. Gte(im, FALSE, << >>, off) = GrainTable(im, sec)[gi + 1]
  BY <1>4, <1>6 DEF Gte, EntryLost, TableGte
<1> HIDE DEF gd, gi, sec
<1>10. GrainTable(im, sec)[gi + 1] = im.file[at + 1]
  <2>1. gi + 1 \in 1..im.num_gtes_per_gt
    BY <1>3
  <2>2. sec * SECTOR_SIZE + (gi + 1) = sec * SECTOR_SIZE + gi + 1
    BY <1>3, <1>4, ImageAssumption
  <2> QED
    BY <2>1, <2>2 DEF GrainTable, Cells
<1>11. Stored(im, FALSE, off) <=> sec # 0 /\ im.file[at + 1] > 1
  BY <1>7, <1>8, <1>9, <1>10 DEF Stored
<1> HIDE DEF at
<1> QED
  BY <1>5, <1>11 DEF off

----------------------------------------------------------------------------
(* The verdicts of vmdk-forensic                                           *)

\* The parts of a source the parsers look at.
IsSource(s) ==
    s.hdr \in HeaderFields /\ s.footer \in HeaderFields /\ s.file \in Seq(Nat)

----------------------------------------------------------------------------
(* The VMDK4 layout.                                                       *)

\* A layout is a well-formed image.
LEMMA LayoutType ==
    ASSUME NEW s, IsSource(s), HasLayout(s), NEW im, im = Layout(s)
    PROVE  /\ im \in Image /\ im.file = s.file /\ Covers(im)
           /\ Len(im.grain_dir) = im.gd_entry_count
BY Vmdk4ImageType DEF IsSource, HasLayout, Layout

\* Slots of a directory and entries of its tables are finitely many.
LEMMA SlotsFinite ==
    ASSUME NEW im \in Image
    PROVE  IsFiniteSet(Slots(im)) /\ IsFiniteSet(Slots(im) \X Entries(im))
<1>1. im.gd_entry_count - 1 \in Int /\ im.num_gtes_per_gt - 1 \in Int /\ 0 \in Int
  BY DEF Image
<1>2. IsFiniteSet(Slots(im)) /\ IsFiniteSet(Entries(im))
  BY <1>1, FS_Interval DEF Slots, Entries
<1> QED
  BY <1>2, FS_Product

\* An offset inside the disk has a slot.
LEMMA SlotOf ==
    ASSUME NEW im \in Image, Covers(im), Len(im.grain_dir) = im.gd_entry_count,
           NEW off \in 0..(im.virtual_disk_size - 1)
    PROVE  off \in Nat /\ GdIdx(im, off) \in Slots(im) /\ GteIdx(im, off) \in Entries(im)
<1>1. off \in Nat
  BY DEF Image
<1>2. GdIdx(im, off) \in Nat /\ GteIdx(im, off) \in 0..(im.num_gtes_per_gt - 1)
  BY <1>1, IndexType
<1>3. GdIdx(im, off) < im.gd_entry_count /\ im.gd_entry_count \in Nat
  BY DEF Covers, Image
<1> QED
  BY <1>1, <1>2, <1>3 DEF Slots, Entries

----------------------------------------------------------------------------
(* The redundant directory.                                                *)

\* Where the whole redundant directory lies in the file, the reader finds the
\* entry the analysis finds.
LEMMA SameRgdEntry ==
    ASSUME NEW im \in Image, RgdReads(im), NEW gd \in Slots(im)
    PROVE  rgd_dir_entry(im, gd) = RgdEntry(im, gd)
<1>1. /\ im.rgd_offset * SECTOR_SIZE \in Nat /\ im.gd_entry_count \in Nat
      /\ gd \in Nat /\ gd < im.gd_entry_count /\ Len(im.file) \in Nat
  BY ImageAssumption DEF Image, Slots
<1>2. im.rgd_offset * SECTOR_SIZE + im.gd_entry_count <= Len(im.file)
  BY DEF RgdReads, InFile
<1>3. InFile(im, im.rgd_offset * SECTOR_SIZE + gd, 1)
  BY <1>1, <1>2 DEF InFile
<1>4. ~(gd >= im.gd_entry_count) /\ im.rgd_offset \notin {0, GD_AT_END}
  BY <1>1 DEF RgdReads, HasRgd
<1> QED
  BY <1>3, <1>4 DEF rgd_dir_entry, RgdEntry

\* Without one it finds none.
LEMMA NoRgdEntry ==
    ASSUME NEW im \in Image, ~HasRgd(im), NEW gd
    PROVE  rgd_dir_entry(im, gd) = 0
BY DEF HasRgd, rgd_dir_entry

\* With no redundant directory, both modes look up the same.
LEMMA NoRgdSameLocation ==
    ASSUME NEW im \in Image, ~HasRgd(im), NEW off \in Nat
    PROVE  grain_location(im, TRUE, << >>, off) = grain_location(im, FALSE, << >>, off)
<1> DEFINE gd == GdIdx(im, off)
<1>1. rgd_dir_entry(im, gd) = 0
  BY NoRgdEntry
<1>2. GtSector(im, TRUE, gd) = GtSector(im, FALSE, gd)
  BY <1>1 DEF GtSector, resilient_gt_sector, usable
<1>3. rgd_gte(im, gd, GteIdx(im, off)) = 0
  BY <1>1 DEF rgd_gte
<1>4. /\ TableGte(im, TRUE, << >>, off) = TableGte(im, FALSE, << >>, off)
      /\ TableAtHand(im, TRUE, << >>, off) = TableAtHand(im, FALSE, << >>, off)
  BY <1>2 DEF TableGte, TableAtHand
<1>5. ~EntryLost(im, TRUE, << >>, off) /\ ~EntryLost(im, FALSE, << >>, off)
  BY <1>3 DEF EntryLost
<1>6. Gte(im, TRUE, << >>, off) = Gte(im, FALSE, << >>, off)
  BY <1>4, <1>5 DEF Gte
<1> QED
  BY <1>2, <1>4, <1>6 DEF grain_location

\* Where the directories lead to equal tables, both modes look up the same: the
\* reader keeps to the primary table, and the redundant entry of a hole is one.
LEMMA SameTablesSameLocation ==
    ASSUME NEW im \in Image, RgdReads(im), NEW off \in Nat,
           GdIdx(im, off) \in Slots(im), SameTables(im, GdIdx(im, off))
    PROVE  grain_location(im, TRUE, << >>, off) = grain_location(im, FALSE, << >>, off)
<1> DEFINE gd == GdIdx(im, off)
           gi == GteIdx(im, off)
           p == PrimaryGt(im, gd)
           r == rgd_dir_entry(im, gd)
<1>1. gd \in Nat /\ gi \in 0..(im.num_gtes_per_gt - 1) /\ im.num_gtes_per_gt \in Nat
  BY IndexType DEF Image
<1>2. p \in Nat /\ r \in Nat /\ RgdEntry(im, gd) = r
  BY <1>1, SectorType, SameRgdEntry
<1>3. DOMAIN << >> = {}
  OBVIOUS
<1>4. GtSector(im, FALSE, gd) = p
  BY DEF GtSector
<1>5. CASE p = 0 /\ r = 0
  <2>1. GtSector(im, TRUE, gd) = p
    BY <1>5 DEF GtSector, resilient_gt_sector, usable
  <2> QED
    BY <1>4, <1>5, <2>1 DEF grain_location
<1>6. CASE /\ p # 0 /\ r # 0 /\ TableInFile(im, p) /\ TableInFile(im, r)
           /\ GrainTable(im, p) = GrainTable(im, r)
  <2>1. GtSector(im, TRUE, gd) = p
    BY <1>6 DEF GtSector, resilient_gt_sector, usable
  <2>2. /\ TableGte(im, TRUE, << >>, off) = GrainTable(im, p)[gi + 1]
        /\ TableGte(im, FALSE, << >>, off) = GrainTable(im, p)[gi + 1]
    BY <1>3, <1>4, <2>1 DEF TableGte
  <2>3. /\ TableAtHand(im, TRUE, << >>, off)
        /\ TableAtHand(im, FALSE, << >>, off)
    BY <1>4, <1>6, <2>1 DEF TableAtHand
  <2>4. rgd_gte(im, gd, gi) = GrainTable(im, r)[gi + 1]
    <3>1. gi + 1 \in 1..im.num_gtes_per_gt
      BY <1>1
    <3>2. r * SECTOR_SIZE + (gi + 1) = r * SECTOR_SIZE + gi + 1
      BY <1>1, <1>2, ImageAssumption
    <3> QED
      BY <1>6, <3>1, <3>2 DEF rgd_gte, GrainTable, Cells
  <2>5. ~EntryLost(im, FALSE, << >>, off)
    BY DEF EntryLost
  <2>6. GrainTable(im, p)[gi + 1] \in Nat
    <3>1. gi + 1 \in 1..im.num_gtes_per_gt
      BY <1>1
    <3> QED
      BY <1>2, <1>6, <3>1, TableType
  <2>7. ~EntryLost(im, TRUE, << >>, off)
    <3> DEFINE t == TableGte(im, TRUE, << >>, off)
               g == rgd_gte(im, gd, gi)
    <3>1. t = g /\ g \in Nat
      BY <1>6, <2>2, <2>4, <2>6
    <3>2. EntryLost(im, TRUE, << >>, off) => t <= 1 /\ g > 1
      BY Zenon DEF EntryLost
    <3> HIDE DEF t, g
    <3>3. ~(t <= 1 /\ g > 1)
      BY <3>1
    <3> QED
      BY <3>2, <3>3, Zenon
  <2>8. Gte(im, TRUE, << >>, off) = Gte(im, FALSE, << >>, off)
    BY <2>2, <2>5, <2>7 DEF Gte
  <2> QED
    BY <1>4, <2>1, <2>3, <2>8 DEF grain_location
<1> QED
  BY <1>2, <1>5, <1>6 DEF SameTables

\* A redundant directory called matching, or none, leaves recovery nothing to
\* change: the disk is the same in both modes.
LEMMA MatchMeansSameDisk ==
    ASSUME NEW s, IsSource(s), HasLayout(s), validate_rgd(s) \/ ~HasRgd(Layout(s))
    PROVE  DiskOf(Vmdk4Image(s), TRUE) = DiskOf(Vmdk4Image(s), FALSE)
<1> DEFINE im == Vmdk4Image(s)
<1>1. im \in Image /\ Covers(im) /\ Len(im.grain_dir) = im.gd_entry_count
  BY LayoutType DEF Layout
<1>2. (RgdReads(im) /\ \A gd \in Slots(im) : SameTables(im, gd)) \/ ~HasRgd(im)
  BY DEF validate_rgd, Layout
<1> HIDE DEF im
<1>3. ASSUME NEW off \in 0..(im.virtual_disk_size - 1)
      PROVE  CellAt(im, TRUE, off) = CellAt(im, FALSE, off)
  <2>1. off \in Nat /\ GdIdx(im, off) \in Slots(im)
    BY <1>1, SlotOf
  <2>2. grain_location(im, TRUE, << >>, off) = grain_location(im, FALSE, << >>, off)
    BY <1>1, <1>2, <2>1, SameTablesSameLocation, NoRgdSameLocation
  <2> QED
    BY <2>2 DEF CellAt
<1> QED
  BY <1>3 DEF DiskOf, im

----------------------------------------------------------------------------
(* The recovery report.                                                    *)

\* The slots for which the reader takes the redundant pointer.
Swapped(im) == {gd \in Slots(im) : resilient_gt_sector(im, gd) # PrimaryGt(im, gd)}

\* Three counts of a finite set and its parts add up.
LEMMA CountsAddUp ==
    ASSUME NEW S, IsFiniteSet(S), NEW T \in SUBSET S
    PROVE  /\ Cardinality(S \ T) \in Nat /\ Cardinality(T) \in Nat
           /\ Cardinality(S \ T) + Cardinality(T) = Cardinality(S)
<1>1. IsFiniteSet(T)
  BY FS_Subset
<1>2. /\ IsFiniteSet(S \ T)
      /\ Cardinality(S \ T) = Cardinality(S) - Cardinality(S \cap T)
  BY FS_Difference, <1>1
<1>3. S \cap T = T
  OBVIOUS
<1>4. Cardinality(S) \in Nat /\ Cardinality(T) \in Nat /\ Cardinality(S \ T) \in Nat
  BY <1>1, <1>2, FS_CardinalityType
<1> DEFINE d == Cardinality(S \ T)
           c == Cardinality(T)
           n == Cardinality(S)
<1>5. d = n - c
  BY <1>2, <1>3
<1> HIDE DEF d, c, n
<1>6. d + c = n
  BY <1>4, <1>5 DEF d, c, n
<1> QED
  BY <1>4, <1>6 DEF d, c, n

\* The damaged slots the redundant directory recovers are, where it lies in the
\* file, exactly those the reader takes from it; elsewhere there are none.
LEMMA RecoverableAreSwapped ==
    ASSUME NEW im \in Image
    PROVE  /\ RgdReads(im) => RecoverableSlots(im) = Swapped(im)
           /\ ~RgdReads(im) => RecoverableSlots(im) = {}
<1>1. ~RgdReads(im) => RecoverableSlots(im) = {}
  BY DEF RecoverableSlots
<1>2. ASSUME RgdReads(im), NEW gd \in Slots(im)
      PROVE  gd \in RecoverableSlots(im) <=> gd \in Swapped(im)
  <2> DEFINE p == PrimaryGt(im, gd)
             r == RgdEntry(im, gd)
  <2>1. rgd_dir_entry(im, gd) = r
    BY <1>2, SameRgdEntry
  <2>2. gd \in Swapped(im) <=> ~usable(im, p) /\ usable(im, r) /\ r # p
    BY <1>2, <2>1 DEF Swapped, resilient_gt_sector
  <2>3. gd \in RecoverableSlots(im) <=>
            ~in_bounds(im, p) /\ (p # 0 \/ r # 0) /\ in_bounds(im, r)
    BY <1>2 DEF RecoverableSlots, DamagedSlots
  <2>4. in_bounds(im, p) = usable(im, p) /\ in_bounds(im, r) = usable(im, r)
    BY DEF in_bounds, usable
  <2>5. usable(im, r) => r # 0
    BY DEF usable
  <2> HIDE DEF p, r
  <2> QED
    BY <2>2, <2>3, <2>4, <2>5
<1>3. RecoverableSlots(im) \subseteq Slots(im) /\ Swapped(im) \subseteq Slots(im)
  BY DEF RecoverableSlots, DamagedSlots, Swapped
<1> QED
  BY <1>1, <1>2, <1>3

\* The report adds up, and counts as recoverable what the reader recovers.
LEMMA ReportCounts ==
    ASSUME NEW s, IsSource(s), NEW r, r = grain_directory_recovery(s), r.has_rgd,
           NEW im, im = Vmdk4Image(s)
    PROVE  /\ HasLayout(s) /\ HasRgd(im)
           /\ r.primary_intact + r.primary_damaged = r.total_entries
           /\ r.recoverable_via_rgd + r.unrecoverable = r.primary_damaged
           /\ r.recoverable_via_rgd <= Cardinality(Swapped(im))
           /\ RgdReads(im) => r.recoverable_via_rgd = Cardinality(Swapped(im))
           /\ r.primary_damaged = 0 => DamagedSlots(im) = {}
           /\ r.unrecoverable = 0 => DamagedSlots(im) = RecoverableSlots(im)
<1>1. HasLayout(s) /\ HasRgd(im)
  BY DEF grain_directory_recovery, NoRecoveryReport, GdRecoveryReport, Layout
<1>2. im \in Image
  BY <1>1, LayoutType DEF Layout
<1> DEFINE D == DamagedSlots(im)
           R == RecoverableSlots(im)
<1>3. /\ r.total_entries = im.gd_entry_count
      /\ r.primary_intact = Cardinality(Slots(im) \ D)
      /\ r.primary_damaged = Cardinality(D)
      /\ r.recoverable_via_rgd = Cardinality(R)
      /\ r.unrecoverable = Cardinality(D \ R)
  BY <1>1 DEF grain_directory_recovery, GdRecoveryReport, Layout
<1>4. IsFiniteSet(Slots(im)) /\ Cardinality(Slots(im)) = im.gd_entry_count
  <2>1. im.gd_entry_count \in Nat
    BY <1>2 DEF Image
  <2>2. im.gd_entry_count - 1 \in Int /\ 0 \in Int
    BY <2>1
  <2>3. Slots(im) = 0..(im.gd_entry_count - 1)
    BY DEF Slots
  <2> DEFINE last == im.gd_entry_count - 1
  <2>4. IsFiniteSet(0..last) /\ Cardinality(0..last) = IF 0 > last THEN 0 ELSE last - 0 + 1
    BY <2>2, FS_Interval
  <2>5. (IF 0 > last THEN 0 ELSE last - 0 + 1) = im.gd_entry_count
    BY <2>1
  <2> QED
    BY <2>3, <2>4, <2>5, Zenon
<1>5. D \in SUBSET Slots(im) /\ R \in SUBSET D /\ Swapped(im) \in SUBSET Slots(im)
  BY DEF DamagedSlots, RecoverableSlots, Swapped
<1> HIDE DEF D, R
<1>6. IsFiniteSet(D) /\ IsFiniteSet(Swapped(im))
  BY <1>4, <1>5, FS_Subset
<1>7. Cardinality(Slots(im) \ D) + Cardinality(D) = Cardinality(Slots(im))
  BY <1>4, <1>5, CountsAddUp
<1>8. /\ Cardinality(D \ R) + Cardinality(R) = Cardinality(D)
      /\ Cardinality(D \ R) \in Nat /\ Cardinality(R) \in Nat
  BY <1>5, <1>6, CountsAddUp
<1>9. Cardinality(R) <= Cardinality(Swapped(im))
  <2>1. R \in SUBSET Swapped(im)
    BY <1>2, RecoverableAreSwapped DEF R
  <2> QED
    BY <1>6, <2>1, FS_Subset
<1>10. RgdReads(im) => Cardinality(R) = Cardinality(Swapped(im))
  BY <1>2, RecoverableAreSwapped DEF R
<1>11. Cardinality(D) = 0 => D = {}
  BY <1>6, FS_EmptySet
<1>12. Cardinality(D \ R) = 0 => D = R
  <2>1. IsFiniteSet(D \ R)
    <3>1. D \ R \in SUBSET D
      OBVIOUS
    <3> QED
      BY <1>6, <3>1, FS_Subset
  <2>2. Cardinality(D \ R) = 0 => D \ R = {}
    BY <2>1, FS_EmptySet
  <2> QED
    BY <1>5, <2>2
<1>13. r.recoverable_via_rgd + r.unrecoverable = r.primary_damaged
  BY <1>3, <1>8
<1> QED
  BY <1>1, <1>3, <1>4, <1>7, <1>9, <1>10, <1>11, <1>12, <1>13 DEF D, R

----------------------------------------------------------------------------
(* check_integrity                                                         *)

\* A count of 0 over part of a finite set means the part is empty.
LEMMA CountZero ==
    ASSUME NEW S, IsFiniteSet(S), NEW T \in SUBSET S, Cardinality(T) = 0
    PROVE  T = {}
<1>1. IsFiniteSet(T)
  BY FS_Subset
<1> QED
  BY <1>1, FS_EmptySet

\* A hole reads as a zero.
LEMMA SparseReads ==
    ASSUME NEW im, NEW loc, loc = Location("Sparse", 0, 0, 0)
    PROVE  CellOf(im, loc).kind = "zero" /\ CellOf(im, loc).val = 0
<1>1. loc.kind = "Sparse"
  BY DEF Location
<1>2. Readable(im, loc) /\ Available(im, loc, 1) = 1 /\ Contents(im, loc, 1) = [i \in 1..1 |-> 0]
  BY <1>1 DEF Readable, Available, Contents
<1>3. Contents(im, loc, 1)[1] = 0
  BY <1>2
<1> QED
  BY <1>1, <1>2, <1>3 DEF CellOf

\* A place inside the file reads as the cell there.
LEMMA PlaceReads ==
    ASSUME NEW im, im.file \in Seq(Nat), NEW at \in Nat, at < Len(im.file),
           NEW loc, loc = Location("FileOffset", at, 0, 0)
    PROVE  CellOf(im, loc).kind = "data" /\ CellOf(im, loc).val \in Nat
<1>1. loc.kind = "FileOffset" /\ loc.offset = at
  BY DEF Location
<1>2. Readable(im, loc)
  BY <1>1 DEF Readable
<1>3. Available(im, loc, 1) = 1
  <2>1. Available(im, loc, 1) = Min2(1, Len(im.file) - at)
    BY <1>1 DEF Available
  <2>2. Len(im.file) - at \in Nat \ {0}
    OBVIOUS
  <2> QED
    BY <2>1, <2>2 DEF Min2
<1>4. Contents(im, loc, 1)[1] = im.file[at + 1]
  BY <1>1 DEF Contents, Cells
<1>5. im.file[at + 1] \in Nat
  OBVIOUS
<1>6. CellOf(im, loc) = [kind |-> "data", val |-> im.file[at + 1]]
  BY <1>1, <1>2, <1>3, <1>4 DEF CellOf
<1> QED
  BY <1>5, <1>6

\* The counts of a clean report are those of empty sets.
LEMMA CleanVmdk4 ==
    ASSUME NEW s, IsSource(s), HasLayout(s), ~s.se.magic, is_ok(check_integrity(s)),
           NEW im, im = Vmdk4Image(s)
    PROVE  DanglingTables(im) = {} /\ DanglingGrains(im) = {}
<1>1. im \in Image
  BY LayoutType DEF Layout
<1>2. Cardinality(DanglingGrains(im)) = 0 /\ Cardinality(DanglingTables(im)) = 0
  BY DEF is_ok, check_integrity, IntegrityReport, Layout
<1>3. IsFiniteSet(Slots(im)) /\ IsFiniteSet(Slots(im) \X Entries(im))
  BY <1>1, SlotsFinite
<1>4. /\ DanglingTables(im) \in SUBSET Slots(im)
      /\ DanglingGrains(im) \in SUBSET (Slots(im) \X Entries(im))
  BY DEF DanglingTables, DanglingGrains, CheckedGrains
<1> QED
  BY <1>2, <1>3, <1>4, CountZero

\* A VMDK4 image with raw grains whose report is clean reads from end to end,
\* and its scan completes.
LEMMA CleanVmdk4IsWhole ==
    ASSUME NEW s, IsSource(s), HasLayout(s), ~s.se.magic, s.hdr.compress = 0,
           is_ok(check_integrity(s)), NEW im, im = Vmdk4Image(s)
    PROVE  /\ \A off \in 0..(im.virtual_disk_size - 1) :
                   CellAt(im, FALSE, off).kind \in {"zero", "data"}
           /\ \A gd \in 0..(Len(im.grain_dir) - 1) : ~ScanFails(im, FALSE, gd)
<1>1. im \in Image /\ Covers(im) /\ Len(im.grain_dir) = im.gd_entry_count
  BY LayoutType DEF Layout
<1>2. DanglingTables(im) = {} /\ DanglingGrains(im) = {}
  BY CleanVmdk4
<1>3. ~im.compressed
  BY DEF Vmdk4Image
<1>4. ASSUME NEW gd \in Slots(im), PrimaryGt(im, gd) # 0
      PROVE  TableInFile(im, PrimaryGt(im, gd))
  BY <1>2, <1>4 DEF DanglingTables
<1>5. ASSUME NEW gd \in 0..(Len(im.grain_dir) - 1) PROVE ~ScanFails(im, FALSE, gd)
  <2>1. gd \in Slots(im)
    BY <1>1 DEF Slots
  <2>2. GtSector(im, FALSE, gd) = PrimaryGt(im, gd)
    BY DEF GtSector
  <2> QED
    BY <1>4, <2>1, <2>2 DEF ScanFails
<1>6. ASSUME NEW off \in 0..(im.virtual_disk_size - 1)
      PROVE  CellAt(im, FALSE, off).kind \in {"zero", "data"}
  <2> DEFINE gd == GdIdx(im, off)
             gi == GteIdx(im, off)
             p == PrimaryGt(im, gd)
             e == GrainTable(im, p)[gi + 1]
             loc == grain_location(im, FALSE, << >>, off)
  <2>1. off \in Nat /\ gd \in Slots(im) /\ gi \in Entries(im)
    BY <1>1, SlotOf
  <2>2. GtSector(im, FALSE, gd) = p /\ DOMAIN << >> = {}
    BY DEF GtSector
  <2>3. Gte(im, FALSE, << >>, off) = e
    BY <2>2 DEF Gte, EntryLost, TableGte
  <2>4. CASE p = 0
    <3>1. loc = Location("Sparse", 0, 0, 0)
      BY <2>2, <2>4 DEF grain_location
    <3> HIDE DEF loc
    <3>2. CellOf(im, loc).kind = "zero"
      BY <3>1, SparseReads
    <3> QED
      BY <3>2 DEF CellAt, loc
  <2>5. CASE p # 0 /\ e <= 1
    <3>1. TableAtHand(im, FALSE, << >>, off)
      BY <1>4, <2>1, <2>2, <2>5 DEF TableAtHand
    <3>2. loc = Location("Sparse", 0, 0, 0)
      BY <2>2, <2>3, <2>5, <3>1 DEF grain_location
    <3> HIDE DEF loc
    <3>3. CellOf(im, loc).kind = "zero"
      BY <3>2, SparseReads
    <3> QED
      BY <3>3 DEF CellAt, loc
  <2>6. CASE p # 0 /\ ~(e <= 1)
    <3>1. TableInFile(im, p) /\ TableAtHand(im, FALSE, << >>, off)
      BY <1>4, <2>1, <2>2, <2>6 DEF TableAtHand
    <3>2. gd \in Nat /\ p \in Nat
      <4>1. gd \in Nat
        BY <1>1, <2>1, IndexType
      <4> QED
        BY <1>1, <4>1, SectorType
    <3>3. e \in Nat /\ e > 1
      <4>1. gi + 1 \in 1..im.num_gtes_per_gt
        BY <1>1, <2>1 DEF Entries, Image
      <4>2. e \in Nat
        BY <1>1, <3>1, <3>2, <4>1, TableType
      <4> HIDE DEF e
      <4> QED
        BY <2>6, <4>2
    <3>4. <<gd, gi>> \in CheckedGrains(im)
      <4> DEFINE x == <<gd, gi>>
      <4>1. x[1] = gd /\ x[2] = gi /\ x \in (Slots(im) \ DanglingTables(im)) \X Entries(im)
        BY <1>2, <2>1
      <4>2. PrimaryGt(im, x[1]) # 0 /\ GrainTable(im, PrimaryGt(im, x[1]))[x[2] + 1] > 1
        BY <2>6, <3>3, <4>1
      <4> HIDE DEF x
      <4>3. x \in CheckedGrains(im)
        BY <4>1, <4>2 DEF CheckedGrains
      <4> QED
        BY <4>3 DEF x
    <3>5. InFile(im, e * SECTOR_SIZE, im.grain_size)
      BY <1>2, <3>4 DEF DanglingGrains
    <3> DEFINE skip == off % im.grain_size
               at == e * SECTOR_SIZE + skip
    <3>6. loc = Location("FileOffset", at, 0, 0)
      <4>1. GtSector(im, FALSE, gd) # 0 /\ ~(Gte(im, FALSE, << >>, off) <= 1)
        BY <2>2, <2>3, <2>6
      <4>2. loc = Location("FileOffset", Gte(im, FALSE, << >>, off) * SECTOR_SIZE + skip, 0, 0)
        BY <1>3, <3>1, <4>1 DEF grain_location
      <4> HIDE DEF e, loc
      <4> QED
        BY <2>3, <4>2
    <3> HIDE DEF e, loc
    <3>7. e * SECTOR_SIZE \in Nat
      BY <3>3, ImageAssumption
    <3>8. skip \in Nat /\ skip < im.grain_size /\ im.grain_size \in Nat
      BY <1>1, <2>1 DEF Image
    <3> HIDE DEF skip
    <3>9. at \in Nat /\ at < Len(im.file) /\ im.file \in Seq(Nat)
      BY <1>1, <3>5, <3>7, <3>8 DEF InFile, Image
    <3> HIDE DEF at
    <3> QED
      BY <3>6, <3>9, PlaceReads DEF CellAt, loc
  <2> QED
    BY <2>4, <2>5, <2>6
<1> QED
  BY <1>5, <1>6

----------------------------------------------------------------------------
(* The seSparse walk.                                                      *)

\* A remainder of a number below the divisor is the number.
LEMMA SmallMod ==
    ASSUME NEW x \in Nat, NEW m \in Nat \ {0}, x < m
    PROVE  x % m = x
OBVIOUS

\* Arithmetic that stays within a u64 does not wrap.
LEMMA NoWrap ==
    ASSUME NEW x \in Nat, x <= U64_MAX
    PROVE  Wrap(x) = x
<1>1. U64_MAX + 1 \in Nat \ {0} /\ x < U64_MAX + 1
  BY WordAssumption
<1> QED
  BY <1>1, SmallMod DEF Wrap

\* A place in the lower half of a u64 is the same as an i64.
LEMMA SmallI64 ==
    ASSUME NEW x \in Nat, 2 * x <= U64_MAX
    PROVE  AsI64(x) = x
<1> DEFINE half == (U64_MAX + 1) \div 2
<1>1. half \in Nat /\ 2 * half = U64_MAX + 1
  BY WordAssumption
<1>2. AsI64(x) = ((x + half) % (U64_MAX + 1)) - half
  BY DEF AsI64
<1> HIDE DEF half
<1>3. x + half \in Nat /\ x + half < U64_MAX + 1 /\ U64_MAX + 1 \in Nat \ {0}
  BY <1>1, WordAssumption
<1>4. (x + half) % (U64_MAX + 1) = x + half
  BY <1>3, SmallMod
<1> QED
  BY <1>1, <1>2, <1>4

\* The source of a seSparse disk: header and file, which an i64 can address.
IsSeSource(s) ==
    s.se \in SeHeader /\ s.file \in Seq(Nat) /\ 2 * Len(s.file) <= U64_MAX

\* The image of an extent that opens has its types and covers its disk.
LEMMA SeImageOpens ==
    ASSUME NEW s, IsSeSource(s), SeOpens(s), NEW im, im = SeImage(s)
    PROVE  /\ im.file = s.file /\ im.file \in Seq(Nat) /\ im.grain_dir \in Seq(Nat)
           /\ im.grain_size = SE_GRAIN_SECTORS * SECTOR_SIZE /\ im.grain_size \in Nat \ {0}
           /\ im.num_gtes_per_gt = SE_GTES_PER_GT /\ im.num_gtes_per_gt \in Nat \ {0}
           /\ im.virtual_disk_size \in Nat /\ im.gt_offset \in Nat /\ im.grains_offset \in Nat
           /\ Covers(im) /\ InSectors(im)
<1> DEFINE h == s.se
           n == SeNumGts(h)
           need == CeilDiv(CeilDiv(h.capacity, h.grain_size), SE_GTES_PER_GT)
           at == Wrap(h.gd_offset * SECTOR_SIZE)
<1>1. /\ h.capacity \in Nat /\ h.gd_offset \in Nat /\ h.gt_offset \in Nat
      /\ h.grains_offset \in Nat /\ s.file \in Seq(Nat)
  BY DEF IsSeSource, SeHeader
<1>2. h.grain_size = SE_GRAIN_SECTORS /\ h.grain_size \in Nat \ {0}
  BY SeAssumption DEF SeOpens, SeHeaderParses
<1>3. SE_GTES_PER_GT \in Nat \ {0}
  BY SeAssumption, ImageAssumption DEF SE_GTES_PER_GT
<1>4. need \in Nat
  <2>1. CeilDiv(h.capacity, h.grain_size) \in Nat
    BY <1>1, <1>2, CeilDivCovers
  <2> QED
    BY <1>3, <2>1, CeilDivCovers
<1>5. n \in Nat /\ need <= n
  <2>1. n = IF need = 0 THEN 1 ELSE need
    BY DEF SeNumGts
  <2> HIDE DEF n, need
  <2> QED
    BY <1>4, <2>1
<1>6. at \in Nat
  <2>1. h.gd_offset * SECTOR_SIZE \in Nat /\ U64_MAX + 1 \in Nat \ {0}
    BY <1>1, ImageAssumption, WordAssumption
  <2> DEFINE x == h.gd_offset * SECTOR_SIZE
             m == U64_MAX + 1
  <2>2. at = x % m
    BY DEF Wrap
  <2> HIDE DEF x, m, at
  <2> QED
    BY <2>1, <2>2 DEF x, m
<1> DEFINE gdir == Cells(s, at, n)
<1>7. gdir \in Seq(Nat) /\ Len(gdir) = n
  <2>1. InFile(s, at, n)
    BY DEF SeOpens
  <2> HIDE DEF at, n
  <2> QED
    BY <1>1, <1>5, <1>6, <2>1, CellsType
<1>8. /\ im.file = s.file /\ im.grain_dir = gdir
      /\ im.grain_size = h.grain_size * SECTOR_SIZE /\ im.num_gtes_per_gt = SE_GTES_PER_GT
      /\ im.gt_offset = h.gt_offset /\ im.grains_offset = h.grains_offset
      /\ im.virtual_disk_size = h.capacity * SECTOR_SIZE
  BY DEF SeImage
<1> HIDE DEF gdir, at, n, need
<1>9. im.grain_size \in Nat \ {0} /\ im.virtual_disk_size \in Nat
  BY <1>1, <1>2, <1>8, ImageAssumption
<1>10. Covers(im)
  <2>1. CeilDiv(CeilDiv(h.capacity, h.grain_size), im.num_gtes_per_gt) <= Len(im.grain_dir)
    BY <1>5, <1>7, <1>8 DEF need
  <2>2. Len(im.grain_dir) \in Nat
    BY <1>5, <1>7, <1>8
  <2> QED
    BY <1>1, <1>2, <1>3, <1>8, <1>9, <2>1, <2>2, GeometryCovers
<1>11. InSectors(im)
  BY <1>1, <1>2, <1>8 DEF InSectors
<1> QED
  BY <1>1, <1>2, <1>3, <1>7, <1>8, <1>9, <1>10, <1>11

\* Where the directory's address does not wrap, the analysis walks the
\* directory the reader has opened.
LEMMA SeSameDirectory ==
    ASSUME NEW s, IsSeSource(s), SeOpens(s), s.se.gd_offset * SECTOR_SIZE <= U64_MAX
    PROVE  SeHasLayout(s) /\ SeLayout(s) = SeImage(s)
<1>1. s.se.gd_offset * SECTOR_SIZE \in Nat
  BY ImageAssumption DEF IsSeSource, SeHeader
<1>2. Wrap(s.se.gd_offset * SECTOR_SIZE) = s.se.gd_offset * SECTOR_SIZE
  BY <1>1, NoWrap
<1>3. SeHasLayout(s)
  BY <1>2 DEF SeHasLayout, SeOpens
<1>4. SeLayout(s) = SeImage(s)
  BY <1>2 DEF SeLayout, SeImage
<1> QED
  BY <1>3, <1>4

\* A table that lies in the file is found there: none of its addresses wraps.
LEMMA SeTableFound ==
    ASSUME NEW im, im.file \in Seq(Nat), 2 * Len(im.file) <= U64_MAX, im.gt_offset \in Nat,
           NEW e \in Nat, SeTableIn(im, e)
    PROVE  /\ SeTableAt(im, e) \in Nat
           /\ SeTableAt(im, e) + SE_GTES_PER_GT <= Len(im.file)
<1> DEFINE a == im.gt_offset + (e % SE_GD_SPAN) * SE_GT_SECTORS
           t == a * SECTOR_SIZE
<1>1. SE_GTES_PER_GT \in Nat
  BY SeAssumption, ImageAssumption DEF SE_GTES_PER_GT
<1>2. a \in Nat
  <2>1. e % SE_GD_SPAN \in Nat
    BY SeAssumption
  <2>2. (e % SE_GD_SPAN) * SE_GT_SECTORS \in Nat
    BY <2>1, SeAssumption
  <2> QED
    BY <2>2
<1>3. t + SE_GTES_PER_GT <= Len(im.file)
  BY DEF SeTableIn, InFile
<1>4. SeTableAt(im, e) = Wrap(Wrap(a) * SECTOR_SIZE)
  BY DEF SeTableAt
<1> HIDE DEF a
<1>5. t \in Nat /\ a <= t
  BY <1>2, ImageAssumption
<1> HIDE DEF t
<1>6. Len(im.file) \in Nat /\ U64_MAX \in Nat
  BY WordAssumption
<1>7. t <= U64_MAX /\ a <= U64_MAX
  BY <1>1, <1>2, <1>3, <1>5, <1>6
<1>8. Wrap(a) = a /\ Wrap(t) = t
  BY <1>2, <1>5, <1>7, NoWrap
<1>9. SeTableAt(im, e) = t
  BY <1>4, <1>8 DEF t
<1> QED
  BY <1>3, <1>5, <1>9

\* The index in a table entry is a natural number.
LEMMA SeIndexType ==
    ASSUME NEW gte \in Nat
    PROVE  se_gte_grain_index(gte) \in Nat
<1>1. (gte \div SE_LO_SPAN) \in Nat /\ gte % SE_LO_SPAN \in Nat
  BY SeAssumption
<1>2. (gte \div SE_LO_SPAN) % SE_HI_SPAN \in Nat
  BY <1>1, SeAssumption
<1>3. (gte % SE_LO_SPAN) * SE_HI_SPAN \in Nat
  BY <1>1, SeAssumption
<1> QED
  BY <1>2, <1>3 DEF se_gte_grain_index

\* The same of a grain, for each of its cells.
LEMMA SeGrainFound ==
    ASSUME NEW im, im.file \in Seq(Nat), 2 * Len(im.file) <= U64_MAX,
           im.grains_offset \in Nat, im.grain_size = SE_GRAIN_SECTORS * SECTOR_SIZE,
           NEW gte \in Nat, NEW off \in Nat,
           InFile(im, (im.grains_offset + se_gte_grain_index(gte) * SE_GRAIN_SECTORS)
                          * SECTOR_SIZE, im.grain_size)
    PROVE  /\ SeGrainAt(im, gte, off) \in Nat
           /\ SeGrainAt(im, gte, off) < Len(im.file)
           /\ AsI64(SeGrainAt(im, gte, off)) >= 0
<1> DEFINE idx == se_gte_grain_index(gte)
           a == im.grains_offset + idx * SE_GRAIN_SECTORS
           g == a * SECTOR_SIZE
           skip == off % im.grain_size
<1>1. idx \in Nat
  BY SeIndexType
<1>2. im.grain_size \div SECTOR_SIZE = SE_GRAIN_SECTORS
  BY SeAssumption, ImageAssumption
<1>3. SeGrainAt(im, gte, off) = Wrap(Wrap(a) * SECTOR_SIZE + skip)
  BY <1>2 DEF SeGrainAt
<1>4. g + im.grain_size <= Len(im.file)
  BY DEF InFile
<1> HIDE DEF idx
<1>5. a \in Nat
  <2>1. idx * SE_GRAIN_SECTORS \in Nat
    BY <1>1, SeAssumption
  <2> QED
    BY <2>1
<1> HIDE DEF a
<1>6. g \in Nat /\ a <= g
  BY <1>5, ImageAssumption
<1>7. im.grain_size \in Nat \ {0}
  BY SeAssumption, ImageAssumption
<1>8. skip \in Nat /\ skip < im.grain_size
  BY <1>7
<1> HIDE DEF g, skip
<1>9. Len(im.file) \in Nat /\ U64_MAX \in Nat
  BY WordAssumption
<1>10. g + skip \in Nat /\ g + skip < Len(im.file) /\ 2 * (g + skip) <= U64_MAX
  BY <1>4, <1>6, <1>7, <1>8, <1>9
<1>11. a <= U64_MAX /\ g + skip <= U64_MAX
  BY <1>5, <1>6, <1>8, <1>9, <1>10
<1>12. Wrap(a) = a /\ Wrap(g + skip) = g + skip
  BY <1>5, <1>10, <1>11, NoWrap
<1>13. SeGrainAt(im, gte, off) = g + skip
  BY <1>3, <1>12 DEF g
<1>14. AsI64(g + skip) = g + skip
  BY <1>10, SmallI64
<1> QED
  BY <1>10, <1>13, <1>14

\* Every address the seSparse lookup computes is a natural number.
LEMMA WrapType == ASSUME NEW x \in Nat PROVE Wrap(x) \in Nat
<1>1. U64_MAX + 1 \in Nat \ {0}
  BY WordAssumption
<1> DEFINE m == U64_MAX + 1
<1>2. Wrap(x) = x % m
  BY DEF Wrap
<1> HIDE DEF m
<1> QED
  BY <1>1, <1>2 DEF m

\* So is the place of a table.
LEMMA SeTableAtType ==
    ASSUME NEW im, im.gt_offset \in Nat, NEW e \in Nat
    PROVE  SeTableAt(im, e) \in Nat
<1>1. e % SE_GD_SPAN \in Nat
  BY SeAssumption
<1>2. (e % SE_GD_SPAN) * SE_GT_SECTORS \in Nat
  BY <1>1, SeAssumption
<1>3. im.gt_offset + (e % SE_GD_SPAN) * SE_GT_SECTORS \in Nat
  BY <1>2
<1> DEFINE w == Wrap(im.gt_offset + (e % SE_GD_SPAN) * SE_GT_SECTORS)
<1>4. w \in Nat
  BY <1>3, WrapType
<1> HIDE DEF w
<1>5. w * SECTOR_SIZE \in Nat
  BY <1>4, ImageAssumption
<1>6. Wrap(w * SECTOR_SIZE) \in Nat
  BY <1>5, WrapType
<1> QED
  BY <1>6 DEF SeTableAt, w

\* And so are the entry a lookup reads and the place that entry points to.
LEMMA SeAddressType ==
    ASSUME NEW s, IsSeSource(s), SeOpens(s), NEW im, im = SeImage(s), NEW off \in Nat,
           SeGteReads(im, off)
    PROVE  SeGte(im, off) \in Nat /\ SeGrainAt(im, SeGte(im, off), off) \in Nat
<1> DEFINE e == SeGdEntry(im, off)
           gte == SeGte(im, off)
           gi == GteIdx(im, off)
<1>1. /\ im.file \in Seq(Nat) /\ im.grain_dir \in Seq(Nat)
      /\ im.grain_size \in Nat \ {0} /\ im.num_gtes_per_gt \in Nat \ {0}
      /\ im.gt_offset \in Nat /\ im.grains_offset \in Nat
  BY SeImageOpens
<1>2. im.grain_size \in Nat \ {0} /\ im.num_gtes_per_gt \in Nat \ {0}
  BY <1>1
<1>3. gi \in Nat /\ GdIdx(im, off) \in Nat
  <2>1. GrainIdx(im, off) \in Nat
    BY <1>2 DEF GrainIdx
  <2> QED
    BY <1>2, <2>1 DEF GteIdx, GdIdx
<1>4. e \in Nat
  BY <1>1, <1>3 DEF SeGdEntry, PrimaryGt
<1> HIDE DEF e, gi
<1>5. SeTableAt(im, e) \in Nat
  BY <1>1, <1>4, SeTableAtType
<1>6. SeGteAt(im, off) \in Nat
  <2>1. SeTableAt(im, e) + gi \in Nat
    BY <1>3, <1>5
  <2>2. Wrap(SeTableAt(im, e) + gi) \in Nat
    BY <2>1, WrapType
  <2> QED
    BY <2>2 DEF SeGteAt, e, gi
<1>7. gte \in Nat
  <2>1. SeGteAt(im, off) + 1 <= Len(im.file)
    BY DEF SeGteReads, InFile
  <2> QED
    BY <1>1, <1>6, <2>1 DEF SeGte
<1> HIDE DEF gte
<1>8. SeGrainAt(im, gte, off) \in Nat
  <2>1. se_gte_grain_index(gte) \in Nat
    BY <1>7, SeIndexType
  <2>2. im.grain_size \div SECTOR_SIZE \in Nat
    BY <1>2, ImageAssumption
  <2> DEFINE a == se_gte_grain_index(gte) * (im.grain_size \div SECTOR_SIZE)
             w == Wrap(im.grains_offset + a)
             skip == off % im.grain_size
  <2>3. a \in Nat
    BY <2>1, <2>2
  <2>4. SeGrainAt(im, gte, off) = Wrap(w * SECTOR_SIZE + skip)
    BY DEF SeGrainAt
  <2> HIDE DEF a
  <2>5. w \in Nat
    <3>1. im.grains_offset + a \in Nat
      BY <1>1, <2>3
    <3> QED
      BY <3>1, WrapType
  <2>6. skip \in Nat
    BY <1>2
  <2> HIDE DEF w, skip
  <2>7. w * SECTOR_SIZE + skip \in Nat
    BY <2>5, <2>6, ImageAssumption
  <2> QED
    BY <2>4, <2>7, WrapType
<1> QED
  BY <1>7, <1>8 DEF gte

\* An empty table entry is of type 0.
LEMMA SeTypeOfZero == SeType(0) = 0
<1>1. SE_HI_SPAN * SE_LO_SPAN \in Nat \ {0}
  BY SeAssumption
<1> QED
  BY <1>1 DEF SeType

\* An empty directory entry carries no marker.
LEMMA MarkedIsNotEmpty == ~Marked(0)
<1>1. U64_MAX + 1 = 16 * (SE_HI_SPAN * SE_LO_SPAN) /\ SE_HI_SPAN * SE_LO_SPAN \in Nat \ {0}
  BY SeAssumption
<1> DEFINE k == SE_HI_SPAN * SE_LO_SPAN
<1>2. (16 * k) \div 16 = k /\ k # 0
  BY <1>1
<1>3. 0 % SE_GD_SPAN = 0
  BY SeAssumption
<1> QED
  BY <1>1, <1>2, <1>3 DEF Marked

\* The counts of a clean report are those of empty sets.
LEMMA CleanSe ==
    ASSUME NEW s, IsSeSource(s), SeOpens(s), s.se.gd_offset * SECTOR_SIZE <= U64_MAX,
           is_ok(check_integrity(s)), NEW im, im = SeImage(s)
    PROVE  SeDanglingTables(im) = {} /\ SeDanglingGrains(im) = {}
<1> DEFINE slots == 0..(Len(im.grain_dir) - 1)
<1>1. SeHasLayout(s) /\ SeLayout(s) = im
  BY SeSameDirectory
<1>2. InFile(s, 0, SECTOR_SIZE) /\ s.se.magic
  BY DEF SeOpens, SeHeaderParses
<1>3. Cardinality(SeDanglingGrains(im)) = 0 /\ Cardinality(SeDanglingTables(im)) = 0
  BY <1>1, <1>2 DEF is_ok, check_integrity, IntegrityReport
<1>4. IsFiniteSet(slots) /\ IsFiniteSet(slots \X Entries(im))
  <2>1. Len(im.grain_dir) - 1 \in Int /\ im.num_gtes_per_gt - 1 \in Int /\ 0 \in Int
    BY SeImageOpens
  <2>2. IsFiniteSet(slots) /\ IsFiniteSet(Entries(im))
    BY <2>1, FS_Interval DEF Entries
  <2> QED
    BY <2>2, FS_Product
<1>5. /\ SeDanglingTables(im) \in SUBSET slots
      /\ SeDanglingGrains(im) \in SUBSET (slots \X Entries(im))
  BY DEF SeDanglingTables, SeDanglingGrains, SeCheckedGrains
<1> QED
  BY <1>3, <1>4, <1>5, CountZero

\* A seSparse extent whose report is clean, and whose entries have the types
\* the reader knows, reads from end to end, and its scan completes.
LEMMA CleanSeIsWhole ==
    ASSUME NEW s, IsSeSource(s), SeOpens(s), s.se.gd_offset * SECTOR_SIZE <= U64_MAX,
           is_ok(check_integrity(s)), NEW im, im = SeImage(s),
           \A off \in 0..(im.virtual_disk_size - 1) :
               SeGteReads(im, off) =>
                   \/ SeGte(im, off) = 0
                   \/ SeType(SeGte(im, off)) \in {SE_UNMAPPED, SE_ZERO, SE_ALLOCATED}
    PROVE  /\ \A off \in 0..(im.virtual_disk_size - 1) :
                   CellOf(im, se_grain_location(im, off)).kind \in {"zero", "data"}
           /\ \A gd \in SeScanned(im) : ~SeScanFails(im, gd)
<1> DEFINE slots == 0..(Len(im.grain_dir) - 1)
<1>1. /\ im.file = s.file /\ im.file \in Seq(Nat) /\ im.grain_dir \in Seq(Nat)
      /\ im.grain_size = SE_GRAIN_SECTORS * SECTOR_SIZE /\ im.grain_size \in Nat \ {0}
      /\ im.num_gtes_per_gt = SE_GTES_PER_GT /\ im.num_gtes_per_gt \in Nat \ {0}
      /\ im.virtual_disk_size \in Nat /\ im.gt_offset \in Nat /\ im.grains_offset \in Nat
      /\ Covers(im) /\ 2 * Len(im.file) <= U64_MAX
  BY SeImageOpens DEF IsSeSource
<1>2. SeDanglingTables(im) = {} /\ SeDanglingGrains(im) = {}
  BY CleanSe
<1>3. ASSUME NEW gd \in slots, im.grain_dir[gd + 1] # 0
      PROVE  Marked(im.grain_dir[gd + 1]) /\ SeTableIn(im, im.grain_dir[gd + 1])
  BY <1>2, <1>3 DEF SeDanglingTables
<1>4. \A gd \in slots : im.grain_dir[gd + 1] \in Nat
  <2>1. Len(im.grain_dir) \in Nat /\ \A j \in 1..Len(im.grain_dir) : im.grain_dir[j] \in Nat
    BY <1>1
  <2>2. \A gd \in slots : gd + 1 \in 1..Len(im.grain_dir)
    BY <2>1
  <2> QED
    BY <2>1, <2>2
<1>5. ASSUME NEW gd \in SeScanned(im) PROVE ~SeScanFails(im, gd)
  <2>1. gd \in slots /\ im.grain_dir[gd + 1] # 0
    BY MarkedIsNotEmpty DEF SeScanned
  <2>2. SeTableIn(im, im.grain_dir[gd + 1]) /\ im.grain_dir[gd + 1] \in Nat
    BY <1>3, <1>4, <2>1
  <2> QED
    BY <1>1, <2>2, SeTableFound DEF SeScanFails, InFile
<1>6. ASSUME NEW off \in 0..(im.virtual_disk_size - 1)
      PROVE  CellOf(im, se_grain_location(im, off)).kind \in {"zero", "data"}
  <2> DEFINE gd == GdIdx(im, off)
             gi == GteIdx(im, off)
             e == SeGdEntry(im, off)
             t == SeTableAt(im, e)
             gte == SeGte(im, off)
             at == SeGrainAt(im, gte, off)
             loc == se_grain_location(im, off)
  <2>1. off \in Nat
    BY <1>1
  <2>2. gd \in Nat /\ gi \in 0..(im.num_gtes_per_gt - 1)
    <3>1. im.grain_size \in Nat \ {0} /\ im.num_gtes_per_gt \in Nat \ {0}
      BY <1>1
    <3>2. GrainIdx(im, off) \in Nat
      BY <2>1, <3>1 DEF GrainIdx
    <3> QED
      BY <3>1, <3>2 DEF GdIdx, GteIdx
  <2>3. gd \in slots
    <3>1. gd < Len(im.grain_dir)
      BY <1>1 DEF Covers
    <3> QED
      BY <1>1, <2>2, <3>1
  <2>4. e = im.grain_dir[gd + 1] /\ e \in Nat
    <3>1. gd < Len(im.grain_dir)
      BY <1>1 DEF Covers
    <3> QED
      BY <1>4, <2>3, <3>1 DEF SeGdEntry, PrimaryGt
  <2>5. CASE loc = Location("Sparse", 0, 0, 0)
    <3> HIDE DEF loc
    <3>1. CellOf(im, loc).kind = "zero"
      BY <2>5, SparseReads
    <3> QED
      BY <3>1 DEF loc
  <2>6. CASE e = 0
    BY <2>5, <2>6 DEF se_grain_location
  <2>7. CASE e # 0
    <3>1. Marked(e) /\ SeTableIn(im, e)
      BY <1>3, <2>3, <2>4, <2>7
    <3>2. t \in Nat /\ t + SE_GTES_PER_GT <= Len(im.file)
      BY <1>1, <2>4, <3>1, SeTableFound
    <3> HIDE DEF t, e, gi, gd
    <3>3. t + gi \in Nat /\ t + gi < Len(im.file) /\ t + gi <= U64_MAX
      <4>1. /\ gi \in Nat /\ gi < SE_GTES_PER_GT /\ SE_GTES_PER_GT \in Nat
            /\ Len(im.file) \in Nat /\ 2 * Len(im.file) <= U64_MAX /\ U64_MAX \in Nat
        BY <1>1, <2>2, WordAssumption
      <4> QED
        BY <3>2, <4>1
    <3>4. SeGteAt(im, off) = t + gi
      BY <3>3, NoWrap DEF SeGteAt, t, e, gi
    <3>5. SeGteReads(im, off)
      <4>1. InFile(im, t + gi, 1)
        BY <1>1, <3>3 DEF InFile
      <4> QED
        BY <3>1, <3>4, <4>1 DEF SeGteReads, e
    <3>6. gte \in Nat /\ gte = im.file[t + gi + 1]
      <4>1. gte = im.file[t + gi + 1]
        BY <3>4 DEF SeGte
      <4>2. t + gi + 1 \in 1..Len(im.file)
        BY <1>1, <3>3
      <4>3. im.file[t + gi + 1] \in Nat
        <5> DEFINE f == im.file
                   at1 == t + gi + 1
        <5>1. f \in Seq(Nat) /\ at1 \in 1..Len(f)
          BY <1>1, <4>2
        <5> HIDE DEF f, at1
        <5>2. f[at1] \in Nat
          BY <5>1
        <5> QED
          BY <5>2 DEF f, at1
      <4> QED
        BY <4>1, <4>3
    <3>7. CASE gte = 0 \/ SeType(gte) \in {SE_UNMAPPED, SE_ZERO}
      BY <2>5, <2>7, <3>5, <3>7 DEF se_grain_location, e
    <3>8. CASE ~(gte = 0 \/ SeType(gte) \in {SE_UNMAPPED, SE_ZERO})
      <4>1. SeType(gte) = SE_ALLOCATED
        BY <3>5, <3>8
      <4> DEFINE x == <<gd, gi>>
      <4>2. x[1] = gd /\ x[2] = gi /\ x \in (slots \ SeDanglingTables(im)) \X Entries(im)
        BY <1>2, <2>2, <2>3 DEF Entries, gd, gi
      <4>3. SeScanGte(im, gd, gi) = gte
        BY <2>4, <3>6 DEF SeScanGte, t, gd
      <4> HIDE DEF x, gte
      <4>4. x \in SeCheckedGrains(im)
        BY <2>4, <2>7, <4>1, <4>2, <4>3 DEF SeCheckedGrains, gd
      <4>5. x \notin SeDanglingGrains(im)
        BY <1>2
      <4>6. InFile(im, (im.grains_offset + se_gte_grain_index(gte) * SE_GRAIN_SECTORS)
                           * SECTOR_SIZE, im.grain_size)
        BY <4>2, <4>3, <4>4, <4>5 DEF SeDanglingGrains
      <4>7. at \in Nat /\ at < Len(im.file) /\ AsI64(at) >= 0
        BY <1>1, <2>1, <3>6, <4>6, SeGrainFound
      <4>8. AsI64(at) \in Int
        <5>1. 2 * at <= U64_MAX
          BY <1>1, <4>7, WordAssumption
        <5> QED
          BY <4>7, <5>1, SmallI64
      <4> HIDE DEF at
      <4>9. ~(SeType(gte) # SE_ALLOCATED \/ AsI64(at) < 0)
        BY <4>1, <4>7, <4>8
      <4>10. loc = Location("FileOffset", at, 0, 0)
        BY <2>7, <3>5, <3>8, <4>9 DEF se_grain_location, e, gte, at
      <4> HIDE DEF loc
      <4>11. CellOf(im, loc).kind = "data"
        BY <1>1, <4>7, <4>10, PlaceReads
      <4> QED
        BY <4>11 DEF loc
    <3> QED
      BY <3>7, <3>8
  <2> QED
    BY <2>6, <2>7
<1> QED
  BY <1>5, <1>6

----------------------------------------------------------------------------
(* What a read of a command returns, for every view, offset and buffer.    *)

\* A nonempty set of natural numbers has a least one.
LEMMA LeastNatural ==
    ASSUME NEW T \in SUBSET Nat, T # {}
    PROVE  \E x \in T : \A y \in T : x <= y
<1> DEFINE R == OpToRel(<, Nat)
<1>1. IsWellFoundedOn(R, Nat)
  BY NatLessThanWellFounded
<1>3. \A x, y \in Nat : <<y, x>> \in R <=> y < x
  BY DEF OpToRel
<1> HIDE DEF R
<1>2. PICK x \in T : \A y \in T : ~ (<<y, x>> \in R)
  BY <1>1, WFMin
<1>4. ASSUME NEW y \in T PROVE x <= y
  <2>1. x \in Nat /\ y \in Nat /\ ~(<<y, x>> \in R)
    BY <1>2
  <2>2. ~(y < x)
    BY <1>3, <2>1
  <2> QED
    BY <2>1, <2>2
<1> QED
  BY <1>4

\* A nonempty set of numbers up to n has a greatest one.
LEMMA Greatest ==
    ASSUME NEW n \in Nat, NEW T \in SUBSET (0..n), T # {}
    PROVE  \E x \in T : \A y \in T : y <= x
<1> DEFINE U == {k \in Nat : k <= n /\ n - k \in T}
<1>1. U \in SUBSET Nat /\ U # {}
  <2>1. PICK t \in T : TRUE
    OBVIOUS
  <2>2. n - t \in Nat /\ n - t <= n /\ n - (n - t) = t
    OBVIOUS
  <2> QED
    BY <2>1, <2>2
<1>2. PICK u \in U : \A y \in U : u <= y
  BY <1>1, LeastNatural
<1>3. n - u \in T
  OBVIOUS
<1>4. ASSUME NEW y \in T PROVE y <= n - u
  <2>1. y \in Nat /\ n - y \in Nat /\ n - y <= n /\ n - (n - y) = y
    OBVIOUS
  <2>2. n - y \in U
    BY <2>1
  <2>3. u <= n - y /\ u \in Nat
    BY <1>2, <2>2
  <2> QED
    BY <2>1, <2>3
<1> QED
  BY <1>3, <1>4

\* What a read of at most n cells at p may return.
Returnable(v, p, n) ==
    {k \in 0..n : /\ p + k <= v.size
                  /\ \A o \in p..(p + k - 1) : HasCell(v, o)
                  /\ \A o \in (p + 1)..(p + k - 1) : o \notin v.ends}

\* A read returns the longest of these.
LEMMA ReadLenIsLongest ==
    ASSUME NEW v, IsView(v), NEW n \in Nat, NEW p \in Nat, p <= v.size
    PROVE  /\ ReadLen(v, p, n) \in Returnable(v, p, n)
           /\ \A j \in Returnable(v, p, n) : j <= ReadLen(v, p, n)
<1>1. Returnable(v, p, n) \in SUBSET (0..n)
  BY DEF Returnable
<1>2. 0 \in Returnable(v, p, n)
  <2>1. p + 0 <= v.size /\ p..(p + 0 - 1) = {} /\ (p + 1)..(p + 0 - 1) = {} /\ 0 \in 0..n
    BY DEF IsView
  <2> QED
    BY <2>1 DEF Returnable
<1>3. PICK x \in Returnable(v, p, n) : \A y \in Returnable(v, p, n) : y <= x
  BY <1>1, <1>2, Greatest
<1> DEFINE best(k) == k \in Returnable(v, p, n) /\ \A j \in Returnable(v, p, n) : j <= k
<1>4. ReadLen(v, p, n) = CHOOSE k \in 0..n : best(k)
  BY DEF ReadLen, Returnable
<1>5. x \in 0..n /\ best(x)
  BY <1>1, <1>3
<1> HIDE DEF best
<1>6. best(ReadLen(v, p, n))
  BY <1>4, <1>5
<1> QED
  BY <1>6 DEF best

\* What a read returns is stored and crosses no end; what stops it short of n
\* is the end of the disk, a cell that is not stored, or an end.
LEMMA ReadStops ==
    ASSUME NEW v, IsView(v), NEW n \in Nat, NEW p \in Nat, p <= v.size,
           NEW k, k = ReadLen(v, p, n)
    PROVE  /\ k \in 0..n /\ p + k <= v.size
           /\ \A o \in p..(p + k - 1) : HasCell(v, o)
           /\ \A o \in (p + 1)..(p + k - 1) : o \notin v.ends
           /\ (k < n /\ p + k < v.size) =>
                  ~HasCell(v, p + k) \/ (k > 0 /\ p + k \in v.ends)
<1>1. k \in Returnable(v, p, n) /\ \A j \in Returnable(v, p, n) : j <= k
  BY ReadLenIsLongest
<1>2. /\ k \in 0..n /\ p + k <= v.size
      /\ \A o \in p..(p + k - 1) : HasCell(v, o)
      /\ \A o \in (p + 1)..(p + k - 1) : o \notin v.ends
  BY <1>1 DEF Returnable
<1>3. ASSUME k < n, p + k < v.size, HasCell(v, p + k), k > 0 => p + k \notin v.ends
      PROVE  FALSE
  <2>1. v.size \in Nat /\ k \in Nat
    BY <1>2 DEF IsView
  <2>2. k + 1 \in 0..n /\ p + (k + 1) <= v.size
    BY <1>3, <2>1
  <2>3. \A o \in p..(p + (k + 1) - 1) : o \in p..(p + k - 1) \/ o = p + k
    BY <2>1
  <2>4. \A o \in (p + 1)..(p + (k + 1) - 1) :
            o \in (p + 1)..(p + k - 1) \/ (o = p + k /\ k > 0)
    BY <2>1
  <2>5. k + 1 \in Returnable(v, p, n)
    BY <1>2, <1>3, <2>2, <2>3, <2>4 DEF Returnable
  <2>6. k + 1 <= k
    BY <1>1, <2>5
  <2> QED
    BY <2>1, <2>6
<1> QED
  BY <1>2, <1>3

\* What a read returns lies on the disk, and is nothing at a cell that can be
\* read only when nothing is asked for.
LEMMA ReadReturns ==
    ASSUME NEW v, IsView(v), NEW n \in Nat, NEW p \in Nat, p <= v.size,
           NEW data, data = ReadData(v, p, n)
    PROVE  /\ data \in Seq(Nat) /\ Len(data) \in Nat /\ p + Len(data) <= v.size
           /\ \A i \in 1..Len(data) : data[i] = v.cells[p + i - 1].val
           /\ (data = << >> /\ n > 0 /\ p < v.size) => ~HasCell(v, p)
<1> DEFINE k == ReadLen(v, p, n)
<1>1. k \in Returnable(v, p, n) /\ \A j \in Returnable(v, p, n) : j <= k
  BY ReadLenIsLongest
<1>2. data = [i \in 1..k |-> v.cells[p + i - 1].val]
  BY DEF ReadData
<1> HIDE DEF k
<1>3. k \in Nat /\ p + k <= v.size
  BY <1>1 DEF Returnable
<1>4. \A i \in 1..k : v.cells[p + i - 1].val \in Nat
  <2> SUFFICES ASSUME NEW i \in 1..k PROVE v.cells[p + i - 1].val \in Nat
    OBVIOUS
  <2>1. p + i - 1 \in 0..(v.size - 1)
    BY <1>3 DEF IsView
  <2>2. v.cells[p + i - 1] \in Cell
    BY <2>1 DEF IsView
  <2> QED
    BY <2>2 DEF Cell
<1>5. data \in [1..k -> Nat]
  BY <1>2, <1>4
<1>6. data \in Seq(Nat) /\ Len(data) = k
  <2>1. data \in Seq(Nat) /\ DOMAIN data = 1..k
    BY <1>3, <1>5
  <2>2. Len(data) \in Nat /\ DOMAIN data = 1..Len(data)
    BY <2>1
  <2> QED
    BY <1>3, <2>1, <2>2
<1>7. ASSUME data = << >>, n > 0, p < v.size, HasCell(v, p) PROVE FALSE
  <2>1. k = 0
    BY <1>6, <1>7
  <2>2. 1 \in Returnable(v, p, n)
    <3>1. v.size \in Nat
      BY DEF IsView
    <3>2. 1 \in 0..n /\ p + 1 <= v.size
      BY <1>7, <3>1
    <3>3. p..(p + 1 - 1) = {p} /\ (p + 1)..(p + 1 - 1) = {}
      OBVIOUS
    <3> QED
      BY <1>7, <3>2, <3>3 DEF Returnable
  <2> QED
    BY <1>1, <2>1, <2>2
<1> QED
  BY <1>2, <1>3, <1>6, <1>7
=============================================================================
