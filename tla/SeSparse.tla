------------------------------ MODULE SeSparse ------------------------------
(***************************************************************************)
(* What the bytes of a seSparse extent mean to the reader: the constant    *)
(* header, the typed directory and table entries with their rotated grain  *)
(* index, and the three places that look an entry up (read, is_allocated,  *)
(* iter_allocated_grains).  Pure operators; the state is SeSparseReader's. *)
(*                                                                         *)
(* Sources: core/src/sesparse.rs and the SeSparse arms of core/src/lib.rs  *)
(* and core/src/read.rs.                                                   *)
(*                                                                         *)
(* A cell is one entry, eight bytes in this format.  An entry is a number  *)
(* below U64_MAX + 1; its bit fields are the digits of that number.  The   *)
(* address arithmetic is unchecked and wraps.                              *)
(***************************************************************************)
EXTENDS SparseImage

CONSTANTS
    SE_GRAIN_SECTORS,    \* sectors of a grain, 8 in the code
    SE_GT_SECTORS,       \* sectors of a grain table, 64
    MAX_SE_GD,           \* entries of the largest directory read
    SE_GD_SPAN,          \* values of the index in a directory entry, 2^32
    SE_HI_SPAN,          \* values of the upper field of a table entry, 2^12
    SE_LO_SPAN           \* values of its lower field, 2^48

ASSUME SeAssumption ==
    /\ SE_GRAIN_SECTORS \in Nat \ {0}
    /\ SE_GT_SECTORS \in Nat \ {0}
    /\ MAX_SE_GD \in Nat
    /\ SE_GD_SPAN \in Nat \ {0}
    /\ SE_HI_SPAN \in Nat \ {0}
    /\ SE_LO_SPAN \in Nat \ {0}
    /\ U64_MAX + 1 = 16 * SE_HI_SPAN * SE_LO_SPAN

SE_GTES_PER_GT == SE_GT_SECTORS * SECTOR_SIZE

SE_VERSION == <<2, 1>>

SeHeader == [magic : BOOLEAN, version : Nat \X Nat, capacity : Nat, grain_size : Nat,
             grain_table_size : Nat, gd_offset : Nat, gt_offset : Nat, grains_offset : Nat]

\* The immutable part of an open seSparse reader.
SeImageType == [file : Seq(Nat), grain_dir : Seq(Nat), grain_size : Nat \ {0},
                num_gtes_per_gt : Nat \ {0}, gt_offset : Nat, grains_offset : Nat,
                virtual_disk_size : Nat]

----------------------------------------------------------------------------
(* open_sesparse                                                           *)

\* SeConstHeader::parse accepts the header.
SeHeaderParses(h) ==
    /\ h.magic
    /\ h.version = SE_VERSION
    /\ h.grain_size = SE_GRAIN_SECTORS
    /\ h.grain_table_size = SE_GT_SECTORS

\* Directory entries: at least one.
SeNumGts(h) ==
    LET n == CeilDiv(CeilDiv(h.capacity, h.grain_size), SE_GTES_PER_GT)
    IN  IF n = 0 THEN 1 ELSE n

\* Unchecked u64 arithmetic of a release build.
Wrap(x) == x % (U64_MAX + 1)

\* open_sesparse reaches its Ok.  A source has its header in s.se.
SeOpens(s) ==
    /\ InFile(s, 0, SECTOR_SIZE)
    /\ SeHeaderParses(s.se)
    /\ SeNumGts(s.se) <= MAX_SE_GD
    /\ InFile(s, Wrap(s.se.gd_offset * SECTOR_SIZE), SeNumGts(s.se))
    /\ s.se.capacity * SECTOR_SIZE <= U64_MAX

SeImage(s) ==
    [file |-> s.file,
     grain_dir |-> Cells(s, Wrap(s.se.gd_offset * SECTOR_SIZE), SeNumGts(s.se)),
     grain_size |-> s.se.grain_size * SECTOR_SIZE, num_gtes_per_gt |-> SE_GTES_PER_GT,
     gt_offset |-> s.se.gt_offset, grains_offset |-> s.se.grains_offset,
     virtual_disk_size |-> s.se.capacity * SECTOR_SIZE]

----------------------------------------------------------------------------
(* Entries                                                                 *)

\* A directory entry is allocated: all but its index is the one marker.
Marked(e) == e - (e % SE_GD_SPAN) = (U64_MAX + 1) \div 16

\* The type in the top four bits of a table entry, and the types there are.
SeType(gte) == gte \div (SE_HI_SPAN * SE_LO_SPAN)
SE_UNMAPPED == 1
SE_ZERO == 2
SE_ALLOCATED == 3

\* Mutated form: the index is taken as it stands, not rotated.
se_gte_grain_index_Unrotated(gte) == gte % (SE_HI_SPAN * SE_LO_SPAN)

\* The upper field holds the low digits of the index.
se_gte_grain_index(gte) ==
    ((gte \div SE_LO_SPAN) % SE_HI_SPAN) + (gte % SE_LO_SPAN) * SE_HI_SPAN

\* The directory entry for an offset.
SeGdEntry(im, off) == PrimaryGt(im, GdIdx(im, off))

\* Where the table of an allocated directory entry starts, and one entry in it.
SeTableAt(im, e) ==
    Wrap(Wrap(im.gt_offset + (e % SE_GD_SPAN) * SE_GT_SECTORS) * SECTOR_SIZE)
SeGteAt(im, off) == Wrap(SeTableAt(im, SeGdEntry(im, off)) + GteIdx(im, off))

\* se_read_gte returns an entry.
SeGteReads(im, off) ==
    /\ Marked(SeGdEntry(im, off))
    /\ InFile(im, SeGteAt(im, off), 1)

SeGte(im, off) == im.file[SeGteAt(im, off) + 1]

\* The place a table entry points to.
SeGrainAt(im, gte, off) ==
    Wrap(Wrap(im.grains_offset
                + se_gte_grain_index(gte) * (im.grain_size \div SECTOR_SIZE)) * SECTOR_SIZE
           + (off % im.grain_size))

\* grain_location_sesparse, and the seek to what it found: no medium is sought
\* past i64::MAX.
se_grain_location(im, off) ==
    LET gte == SeGte(im, off)
        at  == SeGrainAt(im, gte, off)
    IN  IF SeGdEntry(im, off) = 0 THEN Location("Sparse", 0, 0, 0)
        ELSE IF ~SeGteReads(im, off) THEN Location("Err", 0, 0, 0)
        ELSE IF gte = 0 \/ SeType(gte) \in {SE_UNMAPPED, SE_ZERO}
        THEN Location("Sparse", 0, 0, 0)
        ELSE IF SeType(gte) # SE_ALLOCATED \/ AsI64(at) < 0
        THEN Location("Err", 0, 0, 0)
        ELSE Location("FileOffset", at, 0, 0)

----------------------------------------------------------------------------
(* Allocation queries                                                      *)

\* is_allocated
SeAllocatedAt(im, lba) ==
    LET off == lba * SECTOR_SIZE IN
    IF lba >= im.virtual_disk_size \div SECTOR_SIZE \/ SeGdEntry(im, off) = 0 THEN "no"
    ELSE IF ~SeGteReads(im, off) THEN "err"
    ELSE IF SeType(SeGte(im, off)) = SE_ALLOCATED THEN "yes" ELSE "no"

\* The slots whose table iter_allocated_grains reads: an unmarked one is
\* skipped, not an error.
SeScanned(im) == {gd \in 0..(Len(im.grain_dir) - 1) : Marked(im.grain_dir[gd + 1])}

\* It fails at one of them.
SeScanFails(im, gd) == ~InFile(im, SeTableAt(im, im.grain_dir[gd + 1]), SE_GTES_PER_GT)

SeScanGte(im, gd, gi) == im.file[SeTableAt(im, im.grain_dir[gd + 1]) + gi + 1]

\* Mutated form: tables are numbered by the slots that were read.
SeListing_Dense(im) ==
    {g \in {Cardinality({k \in SeScanned(im) : k < x[1]}) * SE_GTES_PER_GT + x[2] :
               x \in {y \in SeScanned(im) \X (0..(SE_GTES_PER_GT - 1)) :
                         SeType(SeScanGte(im, y[1], y[2])) = SE_ALLOCATED}} :
        g * SE_GRAIN_SECTORS < im.virtual_disk_size \div SECTOR_SIZE}

\* The grains it lists.
SeListing(im) ==
    {g \in {x[1] * SE_GTES_PER_GT + x[2] :
               x \in {y \in SeScanned(im) \X (0..(SE_GTES_PER_GT - 1)) :
                         SeType(SeScanGte(im, y[1], y[2])) = SE_ALLOCATED}} :
        g * SE_GRAIN_SECTORS < im.virtual_disk_size \div SECTOR_SIZE}

----------------------------------------------------------------------------
\* The disk the extent stands for.
SeDiskOf(im) ==
    [off \in 0..(im.virtual_disk_size - 1) |-> CellOf(im, se_grain_location(im, off))]
=============================================================================
