----------------------- MODULE SeSparseReader_proofs ------------------------
(***************************************************************************)
(* Safety of SeSparseReader for every set of files, whatever their headers *)
(* and entries say: no address that wraps makes the lookups disagree, or a *)
(* read return a cell the disk does not have there.                        *)
(***************************************************************************)
EXTENDS SeSparseReader, Image_proofs

\* What the address of a grain is computed from, in a file an i64 can address.
SeShape(im) ==
    /\ im.file \in Seq(Nat) /\ 2 * Len(im.file) <= U64_MAX
    /\ im.grain_size \in Nat \ {0} /\ im.grains_offset \in Nat

----------------------------------------------------------------------------
(* Inside one grain.                                                       *)

\* Moving on inside a grain leads to the same entry.
LEMMA SeSameGrain ==
    ASSUME NEW im, im.grain_size \in Nat \ {0}, NEW off \in Nat, NEW i \in Nat,
           i < im.grain_size - (off % im.grain_size)
    PROVE  /\ SeGdEntry(im, off + i) = SeGdEntry(im, off)
           /\ SeGteReads(im, off + i) <=> SeGteReads(im, off)
           /\ SeGte(im, off + i) = SeGte(im, off)
           /\ (off + i) % im.grain_size = (off % im.grain_size) + i
<1>1. /\ (off + i) \div im.grain_size = off \div im.grain_size
      /\ (off + i) % im.grain_size = (off % im.grain_size) + i
  BY InsideGrain
<1>2. GdIdx(im, off + i) = GdIdx(im, off) /\ GteIdx(im, off + i) = GteIdx(im, off)
  BY <1>1 DEF GdIdx, GteIdx, GrainIdx
<1>3. SeGdEntry(im, off + i) = SeGdEntry(im, off) /\ SeGteAt(im, off + i) = SeGteAt(im, off)
  BY <1>2 DEF SeGdEntry, SeGteAt
<1> QED
  BY <1>1, <1>3 DEF SeGteReads, SeGte

\* The place of a later cell of the grain is that of the first one moved on,
\* as long as it lies in the file: the sum does not wrap in between.
LEMMA SePlaceMoves ==
    ASSUME NEW im, SeShape(im),
           NEW gte \in Nat, NEW off \in Nat, NEW at \in Nat, at = SeGrainAt(im, gte, off)
    PROVE  \A i \in Nat :
               i < im.grain_size - (off % im.grain_size) /\ at + i < Len(im.file)
                   => /\ SeGrainAt(im, gte, off + i) = at + i
                      /\ AsI64(at + i) = at + i
<1> SUFFICES ASSUME NEW i \in Nat,
                    i < im.grain_size - (off % im.grain_size), at + i < Len(im.file)
             PROVE  SeGrainAt(im, gte, off + i) = at + i /\ AsI64(at + i) = at + i
  OBVIOUS
<1>0. /\ im.grain_size \in Nat \ {0} /\ im.grains_offset \in Nat
      /\ im.file \in Seq(Nat) /\ 2 * Len(im.file) <= U64_MAX
  BY DEF SeShape
<1> DEFINE idx == se_gte_grain_index(gte) * (im.grain_size \div SECTOR_SIZE)
           w == Wrap(im.grains_offset + idx)
           skip == off % im.grain_size
           x == w * SECTOR_SIZE + skip
           m == U64_MAX + 1
<1>1. SeGrainAt(im, gte, off) = x % m
  BY DEF SeGrainAt, Wrap
<1>2. SeGrainAt(im, gte, off + i) = (w * SECTOR_SIZE + (skip + i)) % m
  <2>1. (off + i) % im.grain_size = skip + i
    BY <1>0, SeSameGrain
  <2> QED
    BY <2>1 DEF SeGrainAt, Wrap
<1>3. w \in Nat
  <2>1. se_gte_grain_index(gte) \in Nat
    BY SeIndexType
  <2>2. im.grain_size \div SECTOR_SIZE \in Nat
    <3>1. im.grain_size \in Nat /\ SECTOR_SIZE \in Nat \ {0}
      BY <1>0, ImageAssumption
    <3> QED
      BY <3>1, DivMod
  <2>3. idx \in Nat
    BY <2>1, <2>2
  <2> HIDE DEF idx
  <2>4. im.grains_offset + idx \in Nat
    BY <1>0, <2>3
  <2> QED
    BY <2>4, WrapType
<1>4. skip \in Nat
  BY <1>0
<1> HIDE DEF w, skip
<1>5. w * SECTOR_SIZE \in Nat
  BY <1>3, ImageAssumption
<1>6. x \in Nat /\ w * SECTOR_SIZE + (skip + i) = x + i
  BY <1>4, <1>5
<1>7. m \in Nat \ {0} /\ Len(im.file) \in Nat /\ Len(im.file) < m /\ U64_MAX \in Nat
  <2>1. Len(im.file) \in Nat
    BY <1>0
  <2>2. U64_MAX \in Nat
    BY WordAssumption
  <2> QED
    BY <1>0, <2>1, <2>2
<1> HIDE DEF x, m
<1>8. x % m \in 0..(m - 1)
  BY <1>6, <1>7, DivMod
<1>9. i < m - (x % m)
  BY <1>1, <1>7, <1>8
<1>10. (x + i) % m = (x % m) + i
  BY <1>6, <1>7, <1>9, InsideGrain
<1>11. SeGrainAt(im, gte, off + i) = at + i
  BY <1>1, <1>2, <1>6, <1>10
<1>12. at + i \in Nat /\ 2 * (at + i) <= U64_MAX
  <2> DEFINE n == Len(im.file)
             a == at
  <2>1. a \in Nat /\ i \in Nat /\ a + i < n /\ 2 * n <= U64_MAX /\ n \in Nat /\ U64_MAX \in Nat
    BY <1>0, <1>7
  <2> HIDE DEF n, a
  <2>2. a + i \in Nat /\ 2 * (a + i) <= U64_MAX
    BY <2>1
  <2> QED
    BY <2>2 DEF a
<1>13. AsI64(at + i) = at + i
  BY <1>12, SmallI64
<1> QED
  BY <1>11, <1>13

\* A number read as an i64 is an integer.
LEMMA I64Type == ASSUME NEW x \in Int PROVE AsI64(x) \in Int
BY WordAssumption DEF AsI64

\* What a lookup can answer.
LEMMA SeLocationIs ==
    ASSUME NEW im, NEW off
    PROVE  LET loc == se_grain_location(im, off)
               at  == SeGrainAt(im, SeGte(im, off), off)
           IN  \/ loc = Location("Sparse", 0, 0, 0)
               \/ loc = Location("Err", 0, 0, 0)
               \/ /\ loc = Location("FileOffset", at, 0, 0)
                  /\ SeGdEntry(im, off) # 0 /\ SeGteReads(im, off) /\ ~(AsI64(at) < 0)
                  /\ SeGte(im, off) # 0 /\ SeType(SeGte(im, off)) = SE_ALLOCATED
BY DEF se_grain_location

\* A read of n cells at off returns the cells of the disk one by one, and none
\* only where the file ends.
ReadsCells(im, off, n) ==
    LET loc == se_grain_location(im, off) IN
    /\ Available(im, loc, n) \in 0..n
    /\ \A k \in 0..Available(im, loc, n) :
           /\ Contents(im, loc, k) \in Seq(Nat) /\ Len(Contents(im, loc, k)) = k
           /\ \A i \in 0..(k - 1) :
                 LET c == CellOf(im, se_grain_location(im, off + i))
                 IN  c.kind \in {"zero", "data"} /\ c.val = Contents(im, loc, k)[i + 1]
    /\ n > 0 /\ Available(im, loc, n) = 0 => CellOf(im, loc).kind = "end"

\* It does if it stays in its grain.
LEMMA SeReadIsRun ==
    ASSUME NEW s, IsSeSource(s), SeOpens(s), NEW im, im = SeImage(s), NEW off \in Nat,
           se_grain_location(im, off).kind # "Err",
           NEW n \in Nat, n <= im.grain_size - (off % im.grain_size)
    PROVE  ReadsCells(im, off, n)
<1> SUFFICES ASSUME NEW loc, loc = se_grain_location(im, off)
             PROVE  /\ Available(im, loc, n) \in 0..n
                    /\ \A k \in 0..Available(im, loc, n) :
                           /\ Contents(im, loc, k) \in Seq(Nat)
                           /\ Len(Contents(im, loc, k)) = k
                           /\ \A i \in 0..(k - 1) :
                                 LET c == CellOf(im, se_grain_location(im, off + i))
                                 IN  /\ c.kind \in {"zero", "data"}
                                     /\ c.val = Contents(im, loc, k)[i + 1]
                    /\ n > 0 /\ Available(im, loc, n) = 0 => CellOf(im, loc).kind = "end"
  BY DEF ReadsCells
<1> DEFINE gte == SeGte(im, off)
           at == SeGrainAt(im, gte, off)
<1>1. /\ im.file \in Seq(Nat) /\ Len(im.file) \in Nat /\ 2 * Len(im.file) <= U64_MAX
      /\ im.grain_size \in Nat \ {0} /\ im.grains_offset \in Nat
  <2>1. /\ im.file = s.file /\ im.file \in Seq(Nat) /\ im.grain_size \in Nat \ {0}
        /\ im.grains_offset \in Nat
    BY SeImageOpens
  <2>2. Len(im.file) \in Nat
    BY <2>1
  <2> QED
    BY <2>1, <2>2 DEF IsSeSource
<1>2. off % im.grain_size \in Nat /\ im.grain_size \in Nat
  BY <1>1
<1>3. CASE loc = Location("Sparse", 0, 0, 0)
  <2>1. loc.kind = "Sparse"
    BY <1>3 DEF Location
  <2>2. /\ Available(im, loc, n) = n /\ Available(im, loc, 1) = 1 /\ Readable(im, loc)
        /\ Contents(im, loc, 1)[1] = 0
    BY <2>1 DEF Available, Readable, Contents
  <2>3. CellOf(im, loc) = [kind |-> "zero", val |-> 0]
    BY <2>1, <2>2 DEF CellOf
  <2>4. ASSUME NEW k \in 0..n
        PROVE  /\ Contents(im, loc, k) \in Seq(Nat) /\ Len(Contents(im, loc, k)) = k
               /\ \A i \in 0..(k - 1) : Contents(im, loc, k)[i + 1] = 0
    <3>1. Contents(im, loc, k) = [i \in 1..k |-> 0] /\ k \in Nat
      BY <2>1 DEF Contents
    <3>2. Contents(im, loc, k) \in [1..k -> Nat]
      BY <3>1
    <3> QED
      BY <3>1, <3>2, FunctionIsSeq
  <2>5. ASSUME NEW k \in 0..n, NEW i \in 0..(k - 1)
        PROVE  se_grain_location(im, off + i) = loc
    <3>1. i \in Nat /\ i < im.grain_size - (off % im.grain_size)
      BY <1>2
    <3>2. /\ SeGdEntry(im, off + i) = SeGdEntry(im, off)
          /\ SeGteReads(im, off + i) <=> SeGteReads(im, off)
          /\ SeGte(im, off + i) = SeGte(im, off)
      BY <1>1, <3>1, SeSameGrain
    <3> QED
      BY <2>1, <3>2 DEF se_grain_location, Location
  <2>6. n \in 0..n
    OBVIOUS
  <2>7. ASSUME NEW k \in 0..n, NEW i \in 0..(k - 1)
        PROVE  LET c == CellOf(im, se_grain_location(im, off + i))
               IN  c.kind \in {"zero", "data"} /\ c.val = Contents(im, loc, k)[i + 1]
    <3>1. CellOf(im, se_grain_location(im, off + i)) = [kind |-> "zero", val |-> 0]
      BY <2>3, <2>5
    <3>2. Contents(im, loc, k)[i + 1] = 0
      BY <2>4
    <3> QED
      BY <3>1, <3>2
  <2>8. ~(n > 0 /\ n = 0)
    OBVIOUS
  <2> QED
    BY <2>2, <2>4, <2>6, <2>7, <2>8
<1>4. CASE /\ loc = Location("FileOffset", at, 0, 0)
           /\ SeGdEntry(im, off) # 0 /\ SeGteReads(im, off)
           /\ gte # 0 /\ SeType(gte) = SE_ALLOCATED
  <2>1. gte \in Nat /\ at \in Nat
    BY <1>4, SeAddressType
  <2>2. loc.kind = "FileOffset" /\ loc.offset = at
    BY <1>4 DEF Location
  <2>3. \A x : Available(im, loc, x) =
                  IF at < Len(im.file) THEN Min2(x, Len(im.file) - at) ELSE 0
    BY <2>2 DEF Available
  <2>4. \A k : Contents(im, loc, k) = Cells(im, at, k)
    BY <2>2 DEF Contents
  <2> DEFINE a == Available(im, loc, n)
  <2> HIDE DEF at, gte, a
  <2>5. a \in 0..n /\ (a # 0 => at + a <= Len(im.file))
    BY <1>1, <2>1, <2>3 DEF Min2, a
  <2>6. ASSUME NEW k \in 0..a
        PROVE  Contents(im, loc, k) \in Seq(Nat) /\ Len(Contents(im, loc, k)) = k
    <3>1. CASE k = 0
      <4>1. Contents(im, loc, k) \in [1..k -> Nat]
        BY <2>4, <3>1 DEF Cells
      <4> QED
        BY <2>5, <4>1, FunctionIsSeq
    <3>2. CASE k # 0
      <4>1. k \in Nat /\ InFile(im, at, k)
        BY <1>1, <2>1, <2>5, <3>2 DEF InFile
      <4> QED
        BY <1>1, <2>1, <2>4, <4>1, CellsType
    <3> QED
      BY <3>1, <3>2
  <2>7. \A i \in Nat :
            i < im.grain_size - (off % im.grain_size) /\ at + i < Len(im.file)
                => SeGrainAt(im, gte, off + i) = at + i /\ AsI64(at + i) = at + i
    <3>1. SeShape(im) /\ at = SeGrainAt(im, gte, off)
      BY <1>1 DEF at, SeShape
    <3> QED
      BY <2>1, <3>1, SePlaceMoves
  <2>8. ASSUME NEW k \in 0..a, NEW i \in 0..(k - 1)
        PROVE  LET c == CellOf(im, se_grain_location(im, off + i))
               IN  c.kind \in {"zero", "data"} /\ c.val = Contents(im, loc, k)[i + 1]
    <3> DEFINE l == se_grain_location(im, off + i)
    <3>1. /\ i \in Nat /\ i < im.grain_size - (off % im.grain_size)
          /\ at + i < Len(im.file) /\ i + 1 \in 1..k
      BY <1>1, <1>2, <2>1, <2>5
    <3>2. /\ SeGdEntry(im, off + i) = SeGdEntry(im, off)
          /\ SeGteReads(im, off + i) <=> SeGteReads(im, off)
          /\ SeGte(im, off + i) = gte
      BY <1>1, <3>1, SeSameGrain DEF gte
    <3>3. SeGrainAt(im, gte, off + i) = at + i /\ AsI64(at + i) = at + i
      BY <2>7, <3>1
    <3>4. ~(AsI64(SeGrainAt(im, gte, off + i)) < 0)
      BY <2>1, <3>1, <3>3
    <3>5. l = Location("FileOffset", at + i, 0, 0)
      BY <1>4, <3>2, <3>3, <3>4 DEF se_grain_location, SE_ALLOCATED, SE_UNMAPPED, SE_ZERO
    <3>7. l.kind = "FileOffset" /\ l.offset = at + i
      BY <3>5 DEF Location
    <3> HIDE DEF l
    <3>8. Readable(im, l) /\ Available(im, l, 1) = 1
      BY <1>1, <2>1, <3>1, <3>7 DEF Readable, Available, Min2
    <3>9. Contents(im, l, 1)[1] = im.file[at + i + 1]
      BY <3>7 DEF Contents, Cells
    <3>10. Contents(im, loc, k)[i + 1] = im.file[at + i + 1]
      <4>1. at + (i + 1) = at + i + 1
        BY <2>1, <3>1
      <4> QED
        BY <2>4, <3>1, <4>1 DEF Cells
    <3> QED
      BY <3>7, <3>8, <3>9, <3>10 DEF CellOf, l
  <2>9. ASSUME n > 0, a = 0 PROVE CellOf(im, loc).kind = "end"
    <3>1. Available(im, loc, 1) = 0
      BY <1>1, <2>1, <2>3, <2>9 DEF Min2, a
    <3>2. Readable(im, loc)
      BY <2>2 DEF Readable
    <3> QED
      BY <3>1, <3>2 DEF CellOf
  <2> QED
    BY <2>5, <2>6, <2>8, <2>9 DEF a
<1>5. loc # Location("Err", 0, 0, 0)
  BY DEF Location
<1> QED
  BY <1>3, <1>4, <1>5, SeLocationIs

----------------------------------------------------------------------------
(* The three copies of the lookup.                                         *)

\* is_allocated says of a sector of the disk what a read of it finds.
LEMMA SeAllocatedIsFound ==
    ASSUME NEW s, IsSeSource(s), SeOpens(s), NEW im, im = SeImage(s), NEW lba \in Nat,
           lba * SECTOR_SIZE < im.virtual_disk_size, SeAllocatedAt(im, lba) # "err",
           NEW loc, loc = se_grain_location(im, lba * SECTOR_SIZE), loc.kind # "Err"
    PROVE  SeAllocatedAt(im, lba) = "yes" <=> loc.kind = "FileOffset"
<1> DEFINE off == lba * SECTOR_SIZE
           gte == SeGte(im, off)
<1>1. lba < im.virtual_disk_size \div SECTOR_SIZE
  BY SeImageOpens, SectorBound
<1>2. ~(lba >= im.virtual_disk_size \div SECTOR_SIZE)
  <2>1. im.virtual_disk_size \in Nat /\ SECTOR_SIZE \in Nat \ {0}
    BY SeImageOpens, ImageAssumption
  <2>2. im.virtual_disk_size \div SECTOR_SIZE \in Nat
    BY <2>1, DivMod
  <2> QED
    BY <1>1, <2>2
<1>3. SeAllocatedAt(im, lba) =
          IF SeGdEntry(im, off) = 0 THEN "no"
          ELSE IF ~SeGteReads(im, off) THEN "err"
          ELSE IF SeType(gte) = SE_ALLOCATED THEN "yes" ELSE "no"
  BY <1>2 DEF SeAllocatedAt
<1>4. loc = se_grain_location(im, off)
  OBVIOUS
<1>5. SeType(0) # SE_ALLOCATED
  BY SeTypeOfZero DEF SE_ALLOCATED
<1> HIDE DEF off, gte
<1> QED
  BY <1>3, <1>4, <1>5 DEF se_grain_location, Location, gte, SE_ALLOCATED, SE_UNMAPPED, SE_ZERO

\* A scan that meets no table outside the file lists, of the grains of the disk
\* a read can tell about, those it finds.
LEMMA SeListingIsFound ==
    ASSUME NEW s, IsSeSource(s), SeOpens(s), NEW im, im = SeImage(s),
           \A gd \in SeScanned(im) : ~SeScanFails(im, gd), NEW g \in Nat
    PROVE  LET off == g * im.grain_size
               loc == se_grain_location(im, off)
           IN  IF off >= im.virtual_disk_size THEN g \notin SeListing(im)
               ELSE loc.kind # "Err" => (g \in SeListing(im) <=> loc.kind = "FileOffset")
<1> DEFINE off == g * im.grain_size
           loc == se_grain_location(im, off)
           n == SE_GTES_PER_GT
           gd == g \div n
           gi == g % n
           gte == SeGte(im, off)
           e == SeGdEntry(im, off)
           Taken(x, y) == /\ x \in SeScanned(im) /\ y \in 0..(n - 1)
                          /\ SeType(SeScanGte(im, x, y)) = SE_ALLOCATED
<1>1. /\ im.file \in Seq(Nat) /\ Len(im.file) \in Nat /\ 2 * Len(im.file) <= U64_MAX
      /\ im.grain_dir \in Seq(Nat) /\ Len(im.grain_dir) \in Nat /\ im.gt_offset \in Nat
      /\ im.virtual_disk_size \in Nat /\ InSectors(im)
  <2>1. /\ im.file = s.file /\ im.file \in Seq(Nat) /\ im.grain_dir \in Seq(Nat)
        /\ im.gt_offset \in Nat /\ im.virtual_disk_size \in Nat /\ InSectors(im)
    BY SeImageOpens
  <2>2. Len(im.file) \in Nat /\ Len(im.grain_dir) \in Nat
    BY <2>1
  <2> QED
    BY <2>1, <2>2 DEF IsSeSource
<1>2. /\ im.grain_size = SE_GRAIN_SECTORS * SECTOR_SIZE /\ im.grain_size \in Nat \ {0}
      /\ im.num_gtes_per_gt = n /\ n \in Nat \ {0}
  BY SeImageOpens
<1>3. off \in Nat /\ GdIdx(im, off) = gd /\ GteIdx(im, off) = gi
  BY <1>2, GrainStart
<1>4. gd \in Nat /\ gi \in 0..(n - 1) /\ g = gd * n + gi
  BY <1>2, DivMod
<1>5. im.grain_size \div SECTOR_SIZE = SE_GRAIN_SECTORS
  BY <1>2, SeAssumption, ImageAssumption
<1>6. g * SE_GRAIN_SECTORS < im.virtual_disk_size \div SECTOR_SIZE
          <=> off < im.virtual_disk_size
  BY <1>1, <1>5, SectorBound
<1>7. g \in SeListing(im) <=> off < im.virtual_disk_size /\ Taken(gd, gi)
  <2>1. g \in SeListing(im) <=>
          /\ off < im.virtual_disk_size
          /\ \E x \in SeScanned(im), y \in 0..(n - 1) :
                 g = x * n + y /\ SeType(SeScanGte(im, x, y)) = SE_ALLOCATED
    <3> DEFINE In(z) == z * SE_GRAIN_SECTORS < im.virtual_disk_size \div SECTOR_SIZE
               pairs == {y \in SeScanned(im) \X (0..(n - 1)) :
                            SeType(SeScanGte(im, y[1], y[2])) = SE_ALLOCATED}
    <3>1. SeListing(im) = {z \in {x[1] * n + x[2] : x \in pairs} : In(z)}
      BY DEF SeListing
    <3>2. g \in SeListing(im) <=> In(g) /\ \E x \in pairs : g = x[1] * n + x[2]
      BY <3>1
    <3>3. (\E x \in pairs : g = x[1] * n + x[2]) <=>
             \E x \in SeScanned(im), y \in 0..(n - 1) :
                 g = x * n + y /\ SeType(SeScanGte(im, x, y)) = SE_ALLOCATED
      <4> HIDE DEF n
      <4>1. ASSUME NEW x \in SeScanned(im), NEW y \in 0..(n - 1), g = x * n + y,
                   SeType(SeScanGte(im, x, y)) = SE_ALLOCATED
            PROVE  \E p \in pairs : g = p[1] * n + p[2]
        <5>1. <<x, y>> \in pairs
          BY <4>1
        <5> QED
          BY <4>1, <5>1
      <4>2. ASSUME NEW p \in pairs, g = p[1] * n + p[2]
            PROVE  \E x \in SeScanned(im), y \in 0..(n - 1) :
                       g = x * n + y /\ SeType(SeScanGte(im, x, y)) = SE_ALLOCATED
        BY <4>2
      <4> QED
        BY <4>1, <4>2
    <3> QED
      BY <1>6, <3>2, <3>3
  <2>2. ASSUME NEW x \in SeScanned(im), NEW y \in 0..(n - 1), g = x * n + y
        PROVE  x = gd /\ y = gi
    <3>1. x \in Nat /\ y \in 0..(n - 1) /\ n \in Nat \ {0} /\ g = x * n + y
      BY <1>1, <1>2, <2>2 DEF SeScanned
    <3> HIDE DEF n
    <3>2. g \div n = x /\ g % n = y
      BY <3>1, DivUnique
    <3> QED
      BY <3>2 DEF n
  <2> HIDE DEF off, n, gd, gi
  <2> QED
    BY <1>4, <2>1, <2>2
<1>8. e = IF gd < Len(im.grain_dir) THEN im.grain_dir[gd + 1] ELSE 0
  BY <1>3 DEF SeGdEntry, PrimaryGt
<1>9. gd \in SeScanned(im) <=> Marked(e)
  <2> HIDE DEF gd, e
  <2>1. CASE gd < Len(im.grain_dir)
    BY <1>1, <1>4, <1>8, <2>1 DEF SeScanned
  <2>2. CASE ~(gd < Len(im.grain_dir))
    BY <1>1, <1>4, <1>8, <2>2, MarkedIsNotEmpty DEF SeScanned
  <2> QED
    BY <2>1, <2>2
<1>10. ASSUME gd \in SeScanned(im)
       PROVE  SeGteReads(im, off) /\ gte = SeScanGte(im, gd, gi)
  <2> DEFINE t == SeTableAt(im, e)
  <2>1. e = im.grain_dir[gd + 1] /\ e \in Nat
    <3>1. gd < Len(im.grain_dir)
      <4>1. gd \in 0..(Len(im.grain_dir) - 1)
        BY <1>10 DEF SeScanned
      <4> HIDE DEF gd
      <4> QED
        BY <1>1, <1>4, <4>1
    <3>2. gd + 1 \in 1..Len(im.grain_dir)
      BY <1>1, <1>4, <3>1
    <3> QED
      BY <1>1, <1>8, <3>1, <3>2
  <2>2. t + n <= Len(im.file)
    BY <1>10, <2>1 DEF SeScanFails, InFile
  <2>3. t \in Nat
    BY <1>1, <2>1, SeTableAtType
  <2>4. SeGteAt(im, off) = Wrap(t + gi)
    BY <1>3 DEF SeGteAt
  <2>5. SeScanGte(im, gd, gi) = im.file[t + gi + 1]
    BY <2>1 DEF SeScanGte
  <2> HIDE DEF t, n, gi
  <2>6. t + gi \in Nat /\ t + gi + 1 <= Len(im.file) /\ t + gi <= U64_MAX
    <3>1. U64_MAX \in Nat
      BY WordAssumption
    <3> QED
      BY <1>1, <1>2, <1>4, <2>2, <2>3, <3>1
  <2>7. SeGteAt(im, off) = t + gi
    BY <2>4, <2>6, NoWrap
  <2>8. Marked(e)
    BY <1>9, <1>10
  <2> QED
    BY <2>5, <2>6, <2>7, <2>8 DEF SeGteReads, SeGte, InFile, gte
<1>11. ASSUME off < im.virtual_disk_size, loc.kind # "Err"
       PROVE  Taken(gd, gi) <=> loc.kind = "FileOffset"
  <2>1. SeType(0) # SE_ALLOCATED
    BY SeTypeOfZero DEF SE_ALLOCATED
  <2>2. CASE e = 0
    <3>1. loc = Location("Sparse", 0, 0, 0)
      BY <2>2 DEF se_grain_location
    <3>2. gd \notin SeScanned(im)
      BY <1>9, <2>2, MarkedIsNotEmpty
    <3> QED
      BY <3>1, <3>2 DEF Location
  <2>3. CASE e # 0
    <3>1. SeGteReads(im, off)
      BY <1>11, <2>3 DEF se_grain_location, Location
    <3>2. gd \in SeScanned(im)
      BY <1>9, <3>1 DEF SeGteReads
    <3>3. Taken(gd, gi) <=> SeType(gte) = SE_ALLOCATED
      BY <1>4, <1>10, <3>2
    <3>4. loc.kind = "FileOffset" <=> SeType(gte) = SE_ALLOCATED
      BY <1>11, <2>1, <2>3, <3>1
         DEF se_grain_location, Location, SE_ALLOCATED, SE_UNMAPPED, SE_ZERO
    <3> QED
      BY <3>3, <3>4
  <2> QED
    BY <2>2, <2>3
<1>12. off >= im.virtual_disk_size <=> ~(off < im.virtual_disk_size)
  BY <1>1, <1>3
<1> HIDE DEF Taken
<1> QED
  BY <1>7, <1>11, <1>12

----------------------------------------------------------------------------
(* The induction.                                                          *)

\* The image and the view of an open reader are those of its file; before it
\* is open no call has been made.
Opened ==
    /\ st = "open" => SeOpens(src) /\ img = SeImage(src) /\ view = SeDiskOf(img)
    /\ st # "open" => img = NoImage /\ pos = 0 /\ out.op = "none"

\* The inductive invariant.
IInv ==
    /\ src \in Sources
    /\ st \in {"closed", "open", "refused"}
    /\ pos \in Nat
    /\ Opened
    /\ LookupsAgree

\* The file is one the lemmas speak of.
LEMMA SourceType == IInv => IsSeSource(src)
BY SeReaderAssumption DEF IInv, IsSeSource, Source

\* The image of an open reader has its types.
LEMMA ImageType ==
    ASSUME IInv, st = "open"
    PROVE  /\ img.grain_size \in Nat \ {0} /\ img.virtual_disk_size \in Nat
           /\ img.virtual_disk_size \div SECTOR_SIZE \in Nat
<1>1. img.grain_size \in Nat \ {0} /\ img.virtual_disk_size \in Nat
  BY SourceType, SeImageOpens DEF IInv, Opened
<1>2. SECTOR_SIZE \in Nat \ {0}
  BY ImageAssumption
<1> QED
  BY <1>1, <1>2, DivMod

\* The initial state satisfies the invariant.
LEMMA InitIInv == Init => IInv
BY DEF Init, IInv, Opened, LookupsAgree, Answer

\* A call on an open reader that is no query keeps the invariant.
LEMMA CallStep ==
    ASSUME IInv, st = "open", UNCHANGED <<src, st, img, view>>, pos' \in Nat,
           out'.op \notin {"is_allocated", "iter"}
    PROVE  IInv'
<1>1. LookupsAgree'
  BY DEF LookupsAgree
<1>2. Opened'
  BY DEF IInv, Opened
<1> QED
  BY <1>1, <1>2 DEF IInv

\* How much a read asks for: something, inside the grain and inside the disk.
LEMMA ToReadBounds ==
    ASSUME IInv, st = "open", NEW len \in Nat \ {0}, pos < img.virtual_disk_size
    PROVE  /\ ToRead(len) \in Nat \ {0}
           /\ ToRead(len) <= len
           /\ ToRead(len) <= img.virtual_disk_size - pos
           /\ ToRead(len) <= img.grain_size - (pos % img.grain_size)
<1>1. img.grain_size \in Nat \ {0} /\ img.virtual_disk_size \in Nat /\ pos \in Nat
  BY ImageType DEF IInv
<1>2. pos % img.grain_size \in 0..(img.grain_size - 1)
  BY <1>1
<1> QED
  BY <1>1, <1>2 DEF ToRead, Min2

\* What a read returns is a run of the cells of the view at the cursor.
LEMMA ReadReturnsRun ==
    ASSUME IInv, st = "open", NEW len \in Nat \ {0}, pos < img.virtual_disk_size,
           Here.kind # "Err", NEW data \in Runs(ToRead(len))
    PROVE  /\ Len(data) \in Disk!Runs(pos, len)
           /\ data = Disk!Run(pos, Len(data))
<1> DEFINE size == img.virtual_disk_size
           m == ToRead(len)
           a == Available(img, Here, m)
<1>1. pos \in Nat /\ size \in Nat /\ SeOpens(src) /\ img = SeImage(src) /\ IsSeSource(src)
  BY ImageType, SourceType DEF IInv, Opened
<1>2. /\ m \in Nat \ {0} /\ m <= len /\ m <= size - pos
      /\ m <= img.grain_size - (pos % img.grain_size)
  BY ToReadBounds
<1>3. PICK n \in IF Here.kind = "FileOffset" /\ a > 0 THEN 1..a ELSE {a} :
          data = Contents(img, Here, n)
  BY DEF Runs
<1>4. /\ a \in 0..m
      /\ \A k \in 0..a :
             /\ Contents(img, Here, k) \in Seq(Nat) /\ Len(Contents(img, Here, k)) = k
             /\ \A i \in 0..(k - 1) :
                   LET c == CellOf(img, se_grain_location(img, pos + i))
                   IN  c.kind \in {"zero", "data"} /\ c.val = Contents(img, Here, k)[i + 1]
      /\ a = 0 => CellOf(img, Here).kind = "end"
  <2>1. Here = se_grain_location(img, pos) /\ m \in Nat /\ m > 0
    BY <1>2 DEF Here
  <2>2. ReadsCells(img, pos, m)
    BY <1>1, <1>2, <2>1, SeReadIsRun
  <2> HIDE DEF m
  <2> QED
    BY <2>1, <2>2 DEF ReadsCells
<1>5. n \in 0..a /\ (n = 0 => a = 0) /\ n \in Nat
  <2> HIDE DEF a, m
  <2> QED
    BY <1>2, <1>3, <1>4
<1>6. data \in Seq(Nat) /\ Len(data) = n
  BY <1>3, <1>4, <1>5
<1>7. \A x \in 0..(size - 1) : view[x] = CellOf(img, se_grain_location(img, x))
  BY DEF IInv, Opened, SeDiskOf
<1> HIDE DEF a, m
<1>8. ASSUME NEW i \in 0..(n - 1)
      PROVE  /\ pos + i < size /\ view[pos + i].kind \in {"zero", "data"}
             /\ view[pos + i].val = data[i + 1]
  <2>1. pos + i \in 0..(size - 1) /\ pos + i < size
    BY <1>1, <1>2, <1>4, <1>5
  <2>2. view[pos + i] = CellOf(img, se_grain_location(img, pos + i))
    BY <1>7, <2>1
  <2> QED
    BY <1>3, <1>4, <1>5, <2>1, <2>2
<1>9. n = 0 => view[pos].kind = "end"
  <2>1. pos \in 0..(size - 1)
    BY <1>1
  <2> QED
    BY <1>4, <1>5, <1>7, <2>1 DEF Here
<1>10. n \in Disk!Runs(pos, len)
  <2>1. n \in 0..len
    BY <1>2, <1>4, <1>5
  <2>2. \A i \in 0..(n - 1) : Disk!Has(pos + i)
    BY <1>8 DEF Disk!Has
  <2>3. n = 0 => Disk!Stops(pos)
    BY <1>9 DEF Disk!Stops
  <2> QED
    BY <2>1, <2>2, <2>3 DEF Disk!Runs
<1>11. data = Disk!Run(pos, n)
  <2>1. data \in [1..n -> Nat]
    BY <1>6
  <2>2. ASSUME NEW i \in 1..n PROVE data[i] = view[pos + i - 1].val
    <3>1. i - 1 \in 0..(n - 1) /\ (i - 1) + 1 = i /\ pos + (i - 1) = pos + i - 1
      BY <1>1, <1>5
    <3> QED
      BY <1>8, <3>1
  <2>3. data = [i \in 1..n |-> view[pos + i - 1].val]
    BY <2>1, <2>2
  <2> QED
    BY <2>3 DEF Disk!Run
<1> QED
  BY <1>6, <1>10, <1>11

\* A read is ReadOk or ReadErr of the abstract disk.
LEMMA ReadImplements ==
    ASSUME IInv, NEW len \in Lengths, Read(len) \/ ReadFails(len)
    PROVE  Disk!ReadOk \/ Disk!ReadErr
<1>1. /\ st = "open" /\ len \in Nat /\ pos \in Nat /\ img.virtual_disk_size \in Nat
      /\ UNCHANGED <<img, view>>
  BY SeReaderAssumption, ImageType DEF Read, ReadFails, IInv
<1>2. CASE ReadFails(len)
  <2>1. out'.op = "read" /\ out'.ok = FALSE /\ pos' = pos
    BY <1>2 DEF ReadFails, Answer
  <2> QED
    BY <1>1, <2>1 DEF Disk!ReadErr
<1>3. CASE Read(len) /\ (pos >= img.virtual_disk_size \/ len = 0)
  <2>1. out' = Answer("read", TRUE, pos, len, << >>, {}) /\ pos' = pos
    BY <1>3 DEF Read
  <2>2. out'.op = "read" /\ out'.ok = TRUE /\ out'.data = << >> /\ out'.arg = len
    BY <2>1 DEF Answer
  <2>3. Disk!Run(pos, 0) = << >>
    BY EmptyRun DEF Disk!Run
  <2>4. 0 \in Disk!Runs(pos, len)
    BY <1>1, <1>3 DEF Disk!Runs, Disk!Stops
  <2>5. Len(out'.data) = 0 /\ pos' = pos + 0
    <3>1. Len(<< >>) = 0
      OBVIOUS
    <3>2. Len(out'.data) = Len(<< >>)
      BY <2>2
    <3>3. pos' = pos
      BY <2>1
    <3> QED
      BY <1>1, <3>1, <3>2, <3>3
  <2> QED
    BY <1>1, <2>2, <2>3, <2>4, <2>5 DEF Disk!ReadOk
<1>4. CASE Read(len) /\ ~(pos >= img.virtual_disk_size \/ len = 0)
  <2>1. PICK data \in Runs(ToRead(len)) :
            out' = Answer("read", TRUE, pos, len, data, {}) /\ pos' = pos + Len(data)
    BY <1>4 DEF Read
  <2>2. Here.kind # "Err" /\ pos < img.virtual_disk_size /\ len \in Nat \ {0}
    BY <1>1, <1>4 DEF Read
  <2>3. Len(data) \in Disk!Runs(pos, len) /\ data = Disk!Run(pos, Len(data))
    BY <1>1, <2>2, ReadReturnsRun
  <2>4. out'.op = "read" /\ out'.ok = TRUE /\ out'.data = data /\ out'.arg = len
    BY <2>1 DEF Answer
  <2> QED
    BY <1>1, <2>1, <2>3, <2>4 DEF Disk!ReadOk
<1> QED
  BY <1>2, <1>3, <1>4

\* A seek is one of the abstract disk.
LEMMA SeekImplements ==
    ASSUME IInv, Seek
    PROVE  Disk!Seek /\ st = "open" /\ UNCHANGED <<src, st, img, view>>
<1>1. st = "open" /\ UNCHANGED <<src, st, img, view>>
  BY DEF Seek, SeekTo
<1>2. \A x \in Int : AsI64(x) \in Int
  BY I64Type
<1>3. SeekStarts \subseteq Int /\ SeekDeltas \subseteq Int
  BY SeReaderAssumption, WordAssumption
<1>4. pos \in Int /\ img.virtual_disk_size \in Int /\ pos \in Nat
  BY <1>1, ImageType DEF IInv
<1>5. PICK x \in Int : SeekTo(x)
  <2>1. PICK y \in Int : SeekTo(AsI64(y))
    BY <1>3, <1>4 DEF Seek
  <2> QED
    BY <1>2, <2>1
<1>6. /\ out' = Answer("seek", x >= 0, pos, 0, << >>, {})
      /\ pos' = IF x < 0 THEN pos ELSE x
  BY <1>5 DEF SeekTo
<1>7. out'.op = "seek" /\ (out'.ok <=> x >= 0)
  BY <1>6 DEF Answer
<1>8. pos' \in Nat /\ (~out'.ok => pos' = pos)
  BY <1>4, <1>6, <1>7
<1> QED
  BY <1>1, <1>7, <1>8 DEF Disk!Seek

\* is_allocated agrees with the reads, and the disk does not notice.
LEMMA IsAllocatedStep ==
    ASSUME IInv, NEW lba \in Nat, is_allocated(lba)
    PROVE  IInv' /\ Disk!Query
<1>1. /\ st = "open" /\ UNCHANGED <<src, st, img, pos, view>>
      /\ SeOpens(src) /\ img = SeImage(src) /\ IsSeSource(src)
  BY SourceType DEF is_allocated, IInv, Opened
<1>2. PICK r \in {SeAllocatedAt(img, lba), "err"} :
          out' = Answer("is_allocated", r # "err", 0, lba, << >>,
                        IF r = "yes" THEN {lba} ELSE {})
  BY DEF is_allocated
<1>3. /\ out'.op = "is_allocated" /\ (out'.ok <=> r # "err") /\ out'.arg = lba
      /\ out'.list # {} <=> r = "yes"
  BY <1>2 DEF Answer
<1>4. ASSUME r # "err", lba * SECTOR_SIZE < img.virtual_disk_size,
             se_grain_location(img, lba * SECTOR_SIZE).kind # "Err"
      PROVE  r = "yes" <=> se_grain_location(img, lba * SECTOR_SIZE).kind = "FileOffset"
  <2>1. r = SeAllocatedAt(img, lba) /\ SeAllocatedAt(img, lba) # "err"
    BY <1>2, <1>4
  <2>2. SeAllocatedAt(img, lba) = "yes"
            <=> se_grain_location(img, lba * SECTOR_SIZE).kind = "FileOffset"
    BY <1>1, <1>4, <2>1, SeAllocatedIsFound
  <2> QED
    BY <2>1, <2>2
<1>5. LookupsAgree'
  <2>1. out'.op # "iter"
    BY <1>3
  <2> QED
    BY <1>1, <1>3, <1>4, <2>1 DEF LookupsAgree, ReadCannotTell, ReadFindsGrain
<1>6. Opened'
  BY <1>1 DEF IInv, Opened
<1>7. Disk!Query
  BY <1>1, <1>3 DEF Disk!Query
<1> QED
  BY <1>1, <1>5, <1>6, <1>7 DEF IInv

\* So does a scan.
LEMMA IterStep ==
    ASSUME IInv, iter_allocated_grains
    PROVE  IInv' /\ Disk!Query
<1>1. /\ st = "open" /\ UNCHANGED <<src, st, img, pos, view>>
      /\ SeOpens(src) /\ img = SeImage(src) /\ IsSeSource(src)
  BY SourceType DEF iter_allocated_grains, IInv, Opened
<1>2. CASE out' = Answer("iter", FALSE, 0, 0, << >>, {})
  <2>1. out'.op = "iter" /\ out'.ok = FALSE
    BY <1>2 DEF Answer
  <2> QED
    BY <1>1, <2>1 DEF IInv, Opened, LookupsAgree, Disk!Query
<1>3. CASE /\ \A gd \in SeScanned(img) : ~SeScanFails(img, gd)
           /\ out' = Answer("iter", TRUE, 0, 0, << >>, SeListing(img))
  <2>1. out'.op = "iter" /\ out'.list = SeListing(img)
    BY <1>3 DEF Answer
  <2>2. ASSUME NEW g \in 0..(img.virtual_disk_size - 1)
        PROVE  LET off == g * img.grain_size IN
               IF off >= img.virtual_disk_size THEN g \notin SeListing(img)
               ELSE ~ReadCannotTell(off) => (g \in SeListing(img) <=> ReadFindsGrain(off))
    <3>1. g \in Nat
      BY <1>1, ImageType
    <3> QED
      BY <1>1, <1>3, <3>1, SeListingIsFound DEF ReadCannotTell, ReadFindsGrain
  <2>3. LookupsAgree'
    BY <1>1, <2>1, <2>2 DEF LookupsAgree, ReadCannotTell, ReadFindsGrain
  <2>4. Opened'
    BY <1>1 DEF IInv, Opened
  <2>5. Disk!Query
    BY <1>1, <2>1 DEF Disk!Query
  <2> QED
    BY <1>1, <2>3, <2>4, <2>5 DEF IInv
<1> QED
  BY <1>2, <1>3 DEF iter_allocated_grains

\* Opening sets the disk up, or leaves it empty.
LEMMA OpenStep ==
    ASSUME IInv, Open
    PROVE  IInv' /\ Disk!Open
<1>1. /\ st = "closed" /\ img = NoImage /\ pos = 0 /\ out.op = "none"
      /\ UNCHANGED <<src, pos, out>>
  BY DEF Open, IInv, Opened
<1>2. Disk!Open
  BY <1>1 DEF Disk!Open, NoImage
<1>3. LookupsAgree'
  BY <1>1 DEF LookupsAgree
<1>4. Opened' /\ st' \in {"closed", "open", "refused"}
  BY <1>1 DEF Open, Opened, IInv
<1> QED
  BY <1>1, <1>2, <1>3, <1>4 DEF IInv

\* Every step preserves the invariant and is a step of the abstract disk.
LEMMA NextStep == IInv /\ [Next]_vars => IInv' /\ [Disk!Next]_(Disk!vars)
<1> SUFFICES ASSUME IInv, [Next]_vars PROVE IInv' /\ (Disk!Next \/ UNCHANGED Disk!vars)
  OBVIOUS
<1>1. CASE Open
  BY <1>1, OpenStep DEF Disk!Next
<1>2. ASSUME NEW len \in Lengths, Read(len) \/ ReadFails(len)
      PROVE  IInv' /\ Disk!Next
  <2>1. Disk!ReadOk \/ Disk!ReadErr
    BY <1>2, ReadImplements
  <2>2. st = "open" /\ UNCHANGED <<src, st, img, view>> /\ pos \in Nat
    BY <1>2 DEF Read, ReadFails, IInv
  <2>3. pos' \in Nat /\ out'.op \notin {"is_allocated", "iter"}
    <3>1. CASE Disk!ReadErr
      BY <2>2, <3>1 DEF Disk!ReadErr
    <3>2. CASE Disk!ReadOk
      <4>1. out'.op = "read" /\ pos' = pos + Len(out'.data)
            /\ Len(out'.data) \in Disk!Runs(pos, out'.arg)
        BY <3>2 DEF Disk!ReadOk
      <4>2. Len(out'.data) \in Nat
        <5>1. Len(out'.data) \in 0..out'.arg
          BY <4>1 DEF Disk!Runs
        <5>2. out'.arg = len /\ len \in Nat
          BY <1>2, SeReaderAssumption DEF Read, ReadFails, Answer
        <5> QED
          BY <5>1, <5>2
      <4> QED
        BY <2>2, <4>1, <4>2
    <3> QED
      BY <2>1, <3>1, <3>2
  <2> QED
    BY <2>1, <2>2, <2>3, CallStep DEF Disk!Next
<1>3. CASE Seek
  <2>1. Disk!Seek /\ st = "open" /\ UNCHANGED <<src, st, img, view>>
    BY <1>3, SeekImplements
  <2>2. pos' \in Nat /\ out'.op = "seek"
    BY <2>1 DEF Disk!Seek
  <2> QED
    BY <2>1, <2>2, CallStep DEF Disk!Next
<1>4. ASSUME NEW lba \in 0..(img.virtual_disk_size \div SECTOR_SIZE), is_allocated(lba)
      PROVE  IInv' /\ Disk!Next
  <2>1. st = "open"
    BY <1>4 DEF is_allocated
  <2>2. lba \in Nat
    BY <2>1, ImageType
  <2> QED
    BY <1>4, <2>2, IsAllocatedStep DEF Disk!Next
<1>5. CASE iter_allocated_grains
  BY <1>5, IterStep DEF Disk!Next
<1>6. CASE UNCHANGED vars
  <2>1. LookupsAgree'
    BY <1>6 DEF vars, IInv, LookupsAgree, ReadCannotTell, ReadFindsGrain
  <2> QED
    BY <1>6, <2>1 DEF vars, IInv, Opened, Disk!vars
<1> QED
  BY <1>1, <1>2, <1>3, <1>4, <1>5, <1>6 DEF Next

\* The invariant holds in every reachable state.
LEMMA Invariance == Spec => []IInv
BY InitIInv, NextStep, PTL DEF Spec

\* Whatever the entries hold and however their addresses wrap, is_allocated and
\* a completed scan say of every sector and grain what the read path finds,
\* wherever it can tell.
THEOREM SeLookupsAgree == Spec => []LookupsAgree
<1>1. IInv => LookupsAgree
  BY DEF IInv
<1> QED
  BY <1>1, Invariance, PTL

\* The reader implements the abstract disk over every seSparse file: the cells
\* a read returns are the ones the lookup of each of their offsets leads to.
THEOREM SeReaderIsDisk == Spec => ImplementsDisk
<1>1. Init => Disk!Init
  BY DEF Init, Disk!Init, NoImage, Answer
<1>2. Spec => Disk!Init /\ [][Disk!Next]_(Disk!vars)
  BY <1>1, Invariance, NextStep, PTL DEF Spec
<1> QED
  BY <1>2 DEF ImplementsDisk, Disk!Spec

----------------------------------------------------------------------------
(* What the reads return is what was stored.                               *)

\* The digits of a grain index, as the format rotates them, are read back as
\* the index, and the entry as one of a stored grain.
LEMMA SeDecode ==
    ASSUME NEW n \in Nat, n < SE_HI_SPAN * SE_LO_SPAN,
           NEW gte, gte = SE_ALLOCATED * (SE_HI_SPAN * SE_LO_SPAN)
                              + (n % SE_HI_SPAN) * SE_LO_SPAN + (n \div SE_HI_SPAN)
    PROVE  gte \in Nat /\ SeType(gte) = SE_ALLOCATED /\ se_gte_grain_index(gte) = n
<1> DEFINE h == SE_HI_SPAN
           l == SE_LO_SPAN
           a == n % h
           b == n \div h
           r == a * l + b
<1>1. h \in Nat \ {0} /\ l \in Nat \ {0} /\ n < h * l
  BY SeAssumption
<1>2. a \in 0..(h - 1) /\ b \in Nat /\ n = b * h + a
  BY <1>1, DivMod
<1>3. gte = 3 * (h * l) + a * l + b
  BY DEF SE_ALLOCATED
<1>4. SeType(gte) = gte \div (h * l)
  BY DEF SeType
<1>5. se_gte_grain_index(gte) = ((gte \div l) % h) + (gte % l) * h
  BY DEF se_gte_grain_index
<1> HIDE DEF h, l, a, b
<1>6. b < l
  <2>1. b * h < l * h
    BY <1>1, <1>2
  <2>2. b >= l => b * h >= l * h
    BY <1>1, <1>2
  <2> QED
    BY <1>1, <1>2, <2>1, <2>2
<1>7. a * l <= (h - 1) * l /\ a * l \in Nat /\ (h - 1) * l = h * l - l /\ h * l \in Nat \ {0}
  BY <1>1, <1>2
<1>8. r \in 0..(h * l - 1)
  <2> DEFINE x == a * l
             y == h * l
  <2>1. x \in Nat /\ y \in Nat /\ x <= y - l
    BY <1>7
  <2> HIDE DEF x, y
  <2>2. x + b \in 0..(y - 1)
    BY <1>1, <1>2, <1>6, <2>1
  <2> QED
    BY <2>2 DEF x, y
<1>9. gte \in Nat /\ gte \div (h * l) = 3
  <2> DEFINE y == h * l
  <2>1. gte = 3 * y + r /\ y \in Nat \ {0} /\ r \in 0..(y - 1)
    BY <1>1, <1>2, <1>3, <1>7, <1>8
  <2> HIDE DEF y, r
  <2>2. (3 * y + r) \div y = 3
    BY <2>1, DivUnique
  <2>3. 3 * y + r \in Nat
    BY <2>1
  <2>4. gte \in Nat /\ gte \div y = 3
    BY <2>1, <2>2, <2>3
  <2> QED
    BY <2>4 DEF y
<1>10. gte \div l = 3 * h + a /\ gte % l = b
  <2>1. gte = (3 * h + a) * l + b
    BY <1>1, <1>2, <1>3
  <2>2. 3 * h + a \in Nat /\ b \in 0..(l - 1)
    BY <1>1, <1>2, <1>6
  <2> DEFINE q == 3 * h + a
  <2>3. q \in Nat /\ gte = q * l + b
    BY <2>1, <2>2
  <2> HIDE DEF q
  <2>4. (q * l + b) \div l = q /\ (q * l + b) % l = b
    BY <1>1, <2>2, <2>3, DivUnique
  <2>5. gte \div l = q /\ gte % l = b
    BY <2>3, <2>4
  <2> QED
    BY <2>5 DEF q
<1>11. (3 * h + a) % h = a
  BY <1>1, <1>2, DivUnique
<1>12. se_gte_grain_index(gte) = a + b * h
  BY <1>5, <1>10, <1>11
<1> QED
  BY <1>1, <1>2, <1>4, <1>9, <1>12 DEF SE_ALLOCATED

\* A product and a sum of naturals that ends in the file wraps at no step.
LEMMA NoStepWraps ==
    ASSUME NEW len \in Nat, 2 * len <= U64_MAX, NEW a \in Nat, NEW i \in Nat,
           NEW at, at = a * SECTOR_SIZE + i, at < len
    PROVE  /\ at \in Nat /\ Wrap(Wrap(a) * SECTOR_SIZE) = a * SECTOR_SIZE
           /\ Wrap(Wrap(a) * SECTOR_SIZE + i) = at
           /\ Wrap(a * SECTOR_SIZE + i) = at /\ AsI64(at) = at
<1> DEFINE t == a * SECTOR_SIZE
<1>1. t \in Nat /\ a <= t
  BY ImageAssumption
<1>2. at = t + i
  OBVIOUS
<1> HIDE DEF t
<1>3. at \in Nat /\ 2 * at <= U64_MAX /\ t <= U64_MAX /\ a <= U64_MAX /\ at <= U64_MAX
  BY <1>1, <1>2, WordAssumption
<1>4. Wrap(a) = a /\ Wrap(t) = t /\ Wrap(at) = at
  BY <1>1, <1>3, NoWrap
<1>5. AsI64(at) = at
  BY <1>3, SmallI64
<1> QED
  BY <1>2, <1>3, <1>4, <1>5 DEF t

\* Where the file says what the format says, the cell is the one stored.
LEMMA SeWrittenCell ==
    ASSUME NEW s, IsSeSource(s), SeOpens(s), NEW im, im = SeImage(s),
           NEW off \in 0..(im.virtual_disk_size - 1), StoredAsWritten(s, im, off),
           NEW c, c = CellOf(im, se_grain_location(im, off))
    PROVE  c.kind \in {"zero", "data"} /\ c.val = s.disk[off + 1]
<1> DEFINE e == SeGdEntry(im, off)
           gi == GteIdx(im, off)
           a == im.gt_offset + (e % SE_GD_SPAN) * SE_GT_SECTORS
           at == a * SECTOR_SIZE + gi
           gte == im.file[at + 1]
           cell == s.disk[off + 1]
           loc == se_grain_location(im, off)
           hole == Location("Sparse", 0, 0, 0)
           skip == off % im.grain_size
<1>1. /\ im.file \in Seq(Nat) /\ Len(im.file) \in Nat /\ 2 * Len(im.file) <= U64_MAX
      /\ im.grain_dir \in Seq(Nat) /\ im.gt_offset \in Nat /\ im.grains_offset \in Nat
      /\ im.grain_size = SE_GRAIN_SECTORS * SECTOR_SIZE /\ im.grain_size \in Nat \ {0}
      /\ im.num_gtes_per_gt \in Nat \ {0} /\ im.virtual_disk_size \in Nat
  <2>1. /\ im.file = s.file /\ im.file \in Seq(Nat)
        /\ im.grain_dir \in Seq(Nat) /\ im.gt_offset \in Nat /\ im.grains_offset \in Nat
        /\ im.grain_size = SE_GRAIN_SECTORS * SECTOR_SIZE /\ im.grain_size \in Nat \ {0}
        /\ im.num_gtes_per_gt \in Nat \ {0} /\ im.virtual_disk_size \in Nat
    BY SeImageOpens
  <2> QED
    BY <2>1 DEF IsSeSource
<1>2. off \in Nat /\ skip \in Nat
  BY <1>1
<1>3. gi \in Nat /\ e \in Nat
  <2>1. GrainIdx(im, off) \in Nat
    BY <1>1, <1>2, DivMod DEF GrainIdx
  <2>2. ASSUME NEW x \in Nat, NEW n \in Nat \ {0}
        PROVE  x % n \in Nat /\ x \div n \in Nat
    OBVIOUS
  <2>3. gi \in Nat /\ GdIdx(im, off) \in Nat
    BY <1>1, <2>1, <2>2 DEF GteIdx, GdIdx
  <2>4. e = PrimaryGt(im, GdIdx(im, off))
    BY DEF SeGdEntry
  <2>5. ASSUME NEW gd \in Nat PROVE PrimaryGt(im, gd) \in Nat
    BY <1>1 DEF PrimaryGt
  <2> QED
    BY <2>3, <2>4, <2>5
<1>4. a \in Nat
  <2>1. e % SE_GD_SPAN \in Nat
    BY <1>3, SeAssumption
  <2>2. (e % SE_GD_SPAN) * SE_GT_SECTORS \in Nat
    BY <2>1, SeAssumption
  <2> QED
    BY <1>1, <2>2
<1>5. CellOf(im, hole).kind = "zero" /\ CellOf(im, hole).val = 0
  <2>1. Contents(im, hole, 1) = [i \in 1..1 |-> 0] /\ Available(im, hole, 1) = 1
    BY DEF Contents, Available, Location
  <2>2. 1 \in 1..1
    OBVIOUS
  <2>3. Readable(im, hole) /\ hole.kind = "Sparse"
    BY DEF Readable, Location
  <2> HIDE DEF hole
  <2> QED
    BY <2>1, <2>2, <2>3 DEF CellOf
<1>6. SeGteAt(im, off) = Wrap(Wrap(Wrap(a) * SECTOR_SIZE) + gi)
  BY DEF SeGteAt, SeTableAt
<1>7. \/ e = 0 /\ cell = 0
      \/ /\ Marked(e) /\ at < Len(im.file)
         /\ \/ cell = 0 /\ (gte = 0 \/ SeType(gte) \in {SE_UNMAPPED, SE_ZERO})
            \/ \E n \in 0..(SE_HI_SPAN * SE_LO_SPAN - 1) :
                  LET p == (im.grains_offset + n * SE_GRAIN_SECTORS) * SECTOR_SIZE + skip
                  IN  /\ gte = SE_ALLOCATED * (SE_HI_SPAN * SE_LO_SPAN)
                                   + (n % SE_HI_SPAN) * SE_LO_SPAN + (n \div SE_HI_SPAN)
                      /\ p < Len(im.file) /\ im.file[p + 1] = cell
  BY DEF StoredAsWritten
<1>8. loc = IF e = 0 THEN hole
            ELSE IF ~SeGteReads(im, off) THEN Location("Err", 0, 0, 0)
            ELSE IF \/ SeGte(im, off) = 0
                    \/ SeType(SeGte(im, off)) \in {SE_UNMAPPED, SE_ZERO}
            THEN hole
            ELSE IF \/ SeType(SeGte(im, off)) # SE_ALLOCATED
                    \/ AsI64(SeGrainAt(im, SeGte(im, off), off)) < 0
            THEN Location("Err", 0, 0, 0)
            ELSE Location("FileOffset", SeGrainAt(im, SeGte(im, off), off), 0, 0)
  BY DEF se_grain_location
<1>9. e = 0 => ~Marked(e)
  BY MarkedIsNotEmpty
<1> HIDE DEF e, gi, a, loc, hole, skip, cell
<1>10. CASE e = 0 /\ cell = 0
  BY <1>5, <1>8, <1>10 DEF loc, cell
<1>11. CASE Marked(e) /\ at < Len(im.file)
  <2>1. at \in Nat /\ SeGteAt(im, off) = at
    BY <1>1, <1>3, <1>4, <1>6, <1>11, NoStepWraps
  <2>2. SeGteReads(im, off) /\ SeGte(im, off) = gte /\ gte \in Nat
    <3> HIDE DEF at
    <3>1. at + 1 <= Len(im.file)
      BY <1>1, <1>11, <2>1
    <3>2. gte \in Nat
      <4>1. \A f \in Seq(Nat) : \A k \in 1..Len(f) : f[k] \in Nat
        OBVIOUS
      <4>2. at + 1 \in 1..Len(im.file)
        BY <1>1, <2>1, <3>1
      <4> QED
        BY <1>1, <4>1, <4>2
    <3> QED
      BY <1>11, <2>1, <3>1, <3>2 DEF SeGteReads, SeGte, InFile, e
  <2>3. e # 0
    BY <1>9, <1>11
  <2> HIDE DEF gte
  <2>4. CASE cell = 0 /\ (gte = 0 \/ SeType(gte) \in {SE_UNMAPPED, SE_ZERO})
    <3>1. loc = hole
      BY <1>8, <2>2, <2>3, <2>4
    <3> QED
      BY <1>5, <2>4, <3>1 DEF loc, cell
  <2>5. ASSUME NEW n \in 0..(SE_HI_SPAN * SE_LO_SPAN - 1), NEW p,
               p = (im.grains_offset + n * SE_GRAIN_SECTORS) * SECTOR_SIZE + skip,
               gte = SE_ALLOCATED * (SE_HI_SPAN * SE_LO_SPAN)
                         + (n % SE_HI_SPAN) * SE_LO_SPAN + (n \div SE_HI_SPAN),
               p < Len(im.file), im.file[p + 1] = cell
        PROVE  c.kind \in {"zero", "data"} /\ c.val = cell
    <3>1. n \in Nat /\ n < SE_HI_SPAN * SE_LO_SPAN
      BY SeAssumption
    <3>2. SeType(gte) = SE_ALLOCATED /\ se_gte_grain_index(gte) = n
      BY <2>5, <3>1, SeDecode
    <3>3. gte # 0 /\ SeType(gte) \notin {SE_UNMAPPED, SE_ZERO}
      BY <3>2, SeTypeOfZero DEF SE_ALLOCATED, SE_UNMAPPED, SE_ZERO
    <3>4. im.grain_size \div SECTOR_SIZE = SE_GRAIN_SECTORS
      BY <1>1, SeAssumption, ImageAssumption
    <3> DEFINE b == im.grains_offset + n * SE_GRAIN_SECTORS
    <3>5. SeGrainAt(im, gte, off) = Wrap(Wrap(b) * SECTOR_SIZE + skip)
      BY <3>2, <3>4 DEF SeGrainAt, skip
    <3>6. b \in Nat
      <4>1. n * SE_GRAIN_SECTORS \in Nat
        BY <3>1, SeAssumption
      <4> QED
        BY <1>1, <4>1
    <3>7. p = b * SECTOR_SIZE + skip
      BY <2>5
    <3> HIDE DEF b
    <3>8. p \in Nat /\ SeGrainAt(im, gte, off) = p /\ AsI64(p) = p
      BY <1>1, <1>2, <2>5, <3>5, <3>6, <3>7, NoStepWraps DEF skip
    <3>9. loc = Location("FileOffset", p, 0, 0)
      BY <1>8, <2>2, <2>3, <3>2, <3>3, <3>8
    <3>10. loc.kind = "FileOffset" /\ loc.offset = p
      BY <3>9 DEF Location
    <3>11. Available(im, loc, 1) = 1
      BY <1>1, <2>5, <3>8, <3>10 DEF Available, Min2
    <3>12. Contents(im, loc, 1)[1] = im.file[p + 1]
      <4>1. Contents(im, loc, 1) = [i \in 1..1 |-> im.file[p + i]]
        BY <3>10 DEF Contents, Cells
      <4>2. 1 \in 1..1
        OBVIOUS
      <4> QED
        BY <4>1, <4>2
    <3>13. Readable(im, loc)
      BY <3>10 DEF Readable
    <3> QED
      BY <2>5, <3>10, <3>11, <3>12, <3>13 DEF CellOf, loc
  <2> QED
    BY <1>7, <1>9, <1>11, <2>3, <2>4, <2>5 DEF gte, at, cell
<1> QED
  BY <1>7, <1>10, <1>11

\* The file of an open reader was written as the promise assumes, and the
\* promise holds of the last answer.
Faithful == (SeOpens(src) => SeWritten(src)) /\ SurvivorsAreRead

\* Where the file says what the format says, the view has what was stored.
LEMMA SeViewIsStored ==
    ASSUME IInv, Faithful, st = "open", NEW off \in 0..(img.virtual_disk_size - 1),
           GrainIdx(img, off) \notin src.lost
    PROVE  view[off].kind \in {"zero", "data"} /\ view[off].val = src.disk[off + 1]
<1>1. /\ SeOpens(src) /\ img = SeImage(src) /\ SeWritten(src) /\ IsSeSource(src)
      /\ view[off] = CellOf(img, se_grain_location(img, off))
  BY SourceType DEF IInv, Opened, Faithful, SeDiskOf
<1>2. StoredAsWritten(src, img, off)
  BY <1>1 DEF SeWritten
<1> QED
  BY <1>1, <1>2, SeWrittenCell

\* A read returns what was stored, and is not refused what survived.
LEMMA ReadIsFaithful ==
    ASSUME IInv, Faithful, NEW len \in Lengths, Read(len) \/ ReadFails(len)
    PROVE  SurvivorsAreRead'
<1>1. /\ st = "open" /\ len \in Nat /\ pos \in Nat /\ img.virtual_disk_size \in Nat
      /\ UNCHANGED <<src, img, view>> /\ out'.op = "read" /\ out'.at = pos /\ out'.arg = len
  BY SeReaderAssumption, ImageType DEF Read, ReadFails, IInv, Answer
<1>2. ASSUME ~src.fails, pos < img.virtual_disk_size, GrainIdx(img, pos) \notin src.lost
      PROVE  ~ReadFails(len) /\ ~Disk!Stops(pos)
  <2>1. pos \in 0..(img.virtual_disk_size - 1)
    BY <1>1, <1>2
  <2>2. view[pos].kind \in {"zero", "data"}
    BY <1>1, <1>2, <2>1, SeViewIsStored
  <2>3. view[pos] = CellOf(img, Here)
    BY <1>1, <2>1 DEF IInv, Opened, SeDiskOf, Here
  <2>4. Here.kind # "Err"
    BY <2>2, <2>3 DEF CellOf, Readable
  <2>5. ~ReadFails(len)
    BY <1>2, <2>4, Zenon DEF ReadFails
  <2>6. ~Disk!Stops(pos)
    BY <1>1, <1>2, <2>2 DEF Disk!Stops
  <2> QED
    BY <2>5, <2>6
<1>3. CASE Disk!ReadErr
  <2>1. ~out'.ok
    BY <1>3 DEF Disk!ReadErr
  <2>2. ReadFails(len)
    BY <2>1 DEF Read, Answer
  <2> QED
    BY <1>1, <1>2, <2>1, <2>2 DEF SurvivorsAreRead
<1>4. CASE Disk!ReadOk
  <2> DEFINE n == Len(out'.data)
  <2>1. /\ out'.ok /\ n \in Disk!Runs(pos, len) /\ out'.data = Disk!Run(pos, n)
    BY <1>1, <1>4 DEF Disk!ReadOk
  <2>2. n \in 0..len /\ (\A i \in 0..(n - 1) : Disk!Has(pos + i))
        /\ (n = 0 => len = 0 \/ Disk!Stops(pos))
    BY <2>1 DEF Disk!Runs
  <2>3. ASSUME NEW i \in 1..n
        PROVE  out'.data[i] = src.disk[pos + i] \/ GrainIdx(img, pos + i - 1) \in src.lost
    <3> HIDE DEF n
    <3>1. /\ i - 1 \in 0..(n - 1) /\ pos + (i - 1) = pos + i - 1 /\ pos + i - 1 \in Nat
          /\ (pos + i - 1) + 1 = pos + i
      BY <1>1, <2>2
    <3>2. Disk!Has(pos + i - 1)
      BY <2>2, <3>1
    <3>3. pos + i - 1 \in 0..(img.virtual_disk_size - 1)
      BY <1>1, <3>1, <3>2 DEF Disk!Has
    <3>4. out'.data[i] = view[pos + i - 1].val
      BY <2>1 DEF Disk!Run
    <3> QED
      BY <1>1, <3>1, <3>3, <3>4, SeViewIsStored
  <2>4. ASSUME ~src.fails, len > 0, pos < img.virtual_disk_size,
               GrainIdx(img, pos) \notin src.lost
        PROVE  out'.data # << >>
    <3>1. n # 0
      BY <1>2, <2>2, <2>4
    <3>2. Len(<< >>) = 0
      OBVIOUS
    <3> QED
      BY <3>1, <3>2
  <2> HIDE DEF n
  <2> QED
    BY <1>1, <2>1, <2>3, <2>4 DEF SurvivorsAreRead, GrainIdx, n
<1> QED
  BY <1>3, <1>4, ReadImplements

\* Every step keeps the promise.
LEMMA NextFaithful == IInv /\ Faithful /\ [Next]_vars => Faithful'
<1> SUFFICES ASSUME IInv, Faithful, [Next]_vars PROVE Faithful'
  OBVIOUS
<1>1. src' = src
  BY DEF Next, vars, Open, Read, ReadFails, Seek, SeekTo, is_allocated, iter_allocated_grains
<1>2. CASE out'.op # "read"
  <2>1. SurvivorsAreRead'
    BY <1>2 DEF SurvivorsAreRead
  <2> QED
    BY <1>1, <2>1 DEF Faithful
<1>3. ASSUME NEW len \in Lengths, Read(len) \/ ReadFails(len) PROVE Faithful'
  BY <1>1, <1>3, ReadIsFaithful DEF Faithful
<1>4. CASE UNCHANGED vars
  BY <1>4 DEF vars, Faithful, SurvivorsAreRead, GrainIdx
<1>5. CASE Open \/ Seek \/ iter_allocated_grains
  BY <1>2, <1>5 DEF Open, IInv, Opened, Seek, SeekTo, iter_allocated_grains, Answer
<1>6. ASSUME NEW lba, is_allocated(lba) PROVE Faithful'
  BY <1>2, <1>6 DEF is_allocated, Answer
<1> QED
  BY <1>3, <1>4, <1>5, <1>6 DEF Next

\* On every file in which the entries of the other grains are as the format
\* has them, whatever the damaged ones hold: a read returns the cells stored,
\* and is refused none of them, by no rotation or sum taken modulo 2^64.
THEOREM SeSurvivorsRead == Spec /\ (SeOpens(src) => SeWritten(src)) => []SurvivorsAreRead
<1>1. Init /\ (SeOpens(src) => SeWritten(src)) => Faithful
  BY DEF Init, Faithful, SurvivorsAreRead, Answer
<1>2. Faithful => SurvivorsAreRead
  BY DEF Faithful
<1> QED
  BY <1>1, <1>2, NextFaithful, Invariance, PTL DEF Spec
=============================================================================
