---------------------------- MODULE SparseImage ----------------------------
(***************************************************************************)
(* What the bytes of a sparse VMDK extent (VMDK4 or COWD) mean to the      *)
(* reader: the two-level grain directory / grain table lookup, the opt-in  *)
(* recovery through the redundant grain directory, the two ways a grain is *)
(* stored, and the scan of every grain table.  Pure operators: the state   *)
(* they are applied to belongs to VmdkReader.                              *)
(*                                                                         *)
(* Sources: core/src/read.rs, core/src/recovery.rs and the allocation      *)
(* queries of core/src/lib.rs.                                             *)
(*                                                                         *)
(* Data abstraction.  The unit of every length and offset is one CELL, the *)
(* four bytes of a table entry, so that a grain directory of n entries is  *)
(* n cells and a sector is SECTOR_SIZE cells (128 in the code).  A file is *)
(* the sequence of its cells; every pointer found in it counts sectors, as *)
(* on disk.  Offsets are naturals: the saturating u64 arithmetic of the    *)
(* bounds checks decides the same way, since no file has 2^64 bytes.       *)
(***************************************************************************)
EXTENDS Integers, Sequences, FiniteSets, Words

CONSTANTS
    SECTOR_SIZE,    \* cells in a sector
    HEADROOM,       \* cells a compressed grain may exceed a raw one by
    Zlib            \* the zlib streams that decode, each with what it decodes to

ASSUME ImageAssumption ==
    /\ SECTOR_SIZE \in Nat \ {0}
    /\ HEADROOM \in Nat
    /\ \A p \in DOMAIN Zlib : Zlib[p] \in Seq(Nat)

\* The all-ones gdOffset: the real one is in the footer.
GD_AT_END == U64_MAX

\* The immutable part of an open reader: the file under it and the fields
\* `open` computed from the header.
Image == [file : Seq(Nat), grain_dir : Seq(Nat), grain_size : Nat \ {0},
          num_gtes_per_gt : Nat \ {0}, virtual_disk_size : Nat,
          compressed : BOOLEAN, rgd_offset : Nat, gd_entry_count : Nat]

----------------------------------------------------------------------------
(* Access to the file.                                                     *)

\* seek + read_exact of n cells at off succeeds exactly when they are there.
InFile(im, off, n) == off + n <= Len(im.file)

\* What such a read returns.
Cells(im, off, n) == [i \in 1..n |-> im.file[off + i]]

\* The whole grain table at a sector.
GrainTable(im, sec) == Cells(im, sec * SECTOR_SIZE, im.num_gtes_per_gt)

TableInFile(im, sec) == InFile(im, sec * SECTOR_SIZE, im.num_gtes_per_gt)

----------------------------------------------------------------------------
(* Address arithmetic of grain_location_sparse.                            *)

GrainIdx(im, off) == off \div im.grain_size

\* Mutated form: the grains are counted from one.
GdIdx_FromOne(im, off) == (GrainIdx(im, off) + 1) \div im.num_gtes_per_gt

GdIdx(im, off) == GrainIdx(im, off) \div im.num_gtes_per_gt

GteIdx(im, off) == GrainIdx(im, off) % im.num_gtes_per_gt

\* grain_dir.get(gd).copied().unwrap_or(0)
PrimaryGt(im, gd) == IF gd < Len(im.grain_dir) THEN im.grain_dir[gd + 1] ELSE 0

----------------------------------------------------------------------------
(* Recovery through the redundant grain directory (recovery.rs).           *)

\* Entry gd of the redundant grain directory, 0 when there is none.
rgd_dir_entry(im, gd) ==
    IF \/ im.rgd_offset \in {0, GD_AT_END}
       \/ gd >= im.gd_entry_count
       \/ ~InFile(im, im.rgd_offset * SECTOR_SIZE + gd, 1)
    THEN 0
    ELSE im.file[im.rgd_offset * SECTOR_SIZE + gd + 1]

\* The closure `usable`: a grain table can be read at this sector.
usable(im, sec) == sec # 0 /\ TableInFile(im, sec)

\* Mutated form: the redundant pointer wins whenever it is usable.
resilient_gt_sector_PreferRgd(im, gd) ==
    IF usable(im, rgd_dir_entry(im, gd)) THEN rgd_dir_entry(im, gd)
    ELSE PrimaryGt(im, gd)

\* Mutated form: only a wiped primary pointer is replaced.
resilient_gt_sector_ZeroOnly(im, gd) ==
    IF PrimaryGt(im, gd) = 0 /\ usable(im, rgd_dir_entry(im, gd))
    THEN rgd_dir_entry(im, gd)
    ELSE PrimaryGt(im, gd)

\* The primary pointer if it is usable, else the redundant one if that is,
\* else the primary as it stands.
resilient_gt_sector(im, gd) ==
    IF ~usable(im, PrimaryGt(im, gd)) /\ usable(im, rgd_dir_entry(im, gd))
    THEN rgd_dir_entry(im, gd)
    ELSE PrimaryGt(im, gd)

\* Entry gi of the redundant grain table number gd, 0 when out of reach.
rgd_gte(im, gd, gi) ==
    LET sec == rgd_dir_entry(im, gd)
    IN  IF sec = 0 \/ ~TableInFile(im, sec) THEN 0
        ELSE im.file[sec * SECTOR_SIZE + gi + 1]

\* The redundant grain table number gd; the empty sequence stands for None.
read_redundant_gt(im, gd) ==
    LET sec == rgd_dir_entry(im, gd)
    IN  IF sec = 0 \/ ~TableInFile(im, sec) THEN << >> ELSE GrainTable(im, sec)

----------------------------------------------------------------------------
(* grain_location_sparse: from a virtual offset to a place in the file.    *)
(* `fb` is rgd_fallback; `cache` the grain tables read before.             *)

\* The grain table consulted for directory slot gd.
GtSector(im, fb, gd) ==
    IF fb THEN resilient_gt_sector(im, gd) ELSE PrimaryGt(im, gd)

\* The lookup must fetch its table from the file, and the file has it.
Fetches(im, fb, cache, off) ==
    LET sec == GtSector(im, fb, GdIdx(im, off))
    IN  sec # 0 /\ sec \notin DOMAIN cache /\ TableInFile(im, sec)

\* The lookup has its table in hand, from the cache or from the file.
TableAtHand(im, fb, cache, off) ==
    LET sec == GtSector(im, fb, GdIdx(im, off))
    IN  sec # 0 /\ (sec \in DOMAIN cache \/ TableInFile(im, sec))

\* The grain table entry as that table holds it.
TableGte(im, fb, cache, off) ==
    LET sec == GtSector(im, fb, GdIdx(im, off))
        gt  == IF sec \in DOMAIN cache THEN cache[sec] ELSE GrainTable(im, sec)
    IN  gt[GteIdx(im, off) + 1]

\* The entry is sparse or explicitly zero but the redundant one is not.
EntryLost(im, fb, cache, off) ==
    /\ fb
    /\ TableGte(im, fb, cache, off) <= 1
    /\ rgd_gte(im, GdIdx(im, off), GteIdx(im, off)) > 1

\* The entry the read acts on.
Gte(im, fb, cache, off) ==
    IF EntryLost(im, fb, cache, off)
    THEN rgd_gte(im, GdIdx(im, off), GteIdx(im, off))
    ELSE TableGte(im, fb, cache, off)

\* The grain is stored, and the redundant directory was needed to find it.
Recovered(im, fb, cache, off) ==
    LET gd == GdIdx(im, off)
    IN  /\ TableAtHand(im, fb, cache, off)
        /\ Gte(im, fb, cache, off) > 1
        /\ \/ GtSector(im, fb, gd) # PrimaryGt(im, gd)
           \/ EntryLost(im, fb, cache, off)

MARKER == 3    \* cells of a GrainMarker: a two-cell LBA and dataSize

Location(kind, offset, size, skip) ==
    [kind |-> kind, offset |-> offset, size |-> size, skip |-> skip]

\* The marker in front of a compressed grain, read and its size capped.
CompressedAt(im, marker, skip) ==
    IF ~InFile(im, marker, MARKER)
    THEN Location("Err", 0, 0, 0)
    ELSE LET data_size == im.file[marker + 3]
         IN  IF data_size > im.grain_size + HEADROOM
             THEN Location("Err", 0, 0, 0)
             ELSE Location("Compressed", marker + MARKER, data_size, skip)

grain_location(im, fb, cache, off) ==
    LET sec == GtSector(im, fb, GdIdx(im, off))
        gte == Gte(im, fb, cache, off)
        skip == off % im.grain_size
    IN  IF sec = 0 THEN Location("Sparse", 0, 0, 0)
        ELSE IF ~TableAtHand(im, fb, cache, off) THEN Location("Err", 0, 0, 0)
        ELSE IF gte <= 1 THEN Location("Sparse", 0, 0, 0)
        ELSE IF im.compressed THEN CompressedAt(im, gte * SECTOR_SIZE, skip)
        ELSE Location("FileOffset", gte * SECTOR_SIZE + skip, 0, 0)

----------------------------------------------------------------------------
(* The cells a location yields, at most n of them.                         *)

\* What a compressed grain decodes to, and whether it decodes at all: the
\* payload must be in the file, be a zlib stream, and fit one grain.
Decodes(im, loc) ==
    /\ InFile(im, loc.offset, loc.size)
    /\ Cells(im, loc.offset, loc.size) \in DOMAIN Zlib
    /\ Len(Zlib[Cells(im, loc.offset, loc.size)]) <= im.grain_size

Inflated(im, loc) == Zlib[Cells(im, loc.offset, loc.size)]

\* How many cells there are at the location: a grain that lies past the end
\* of the file, or a stream that decodes short, has fewer than it should.
Available(im, loc, n) ==
    CASE loc.kind = "Sparse"     -> n
      [] loc.kind = "FileOffset" ->
             IF loc.offset < Len(im.file) THEN Min2(n, Len(im.file) - loc.offset)
             ELSE 0
      [] loc.kind = "Compressed" ->
             IF loc.skip < Len(Inflated(im, loc))
             THEN Min2(n, Len(Inflated(im, loc)) - loc.skip) ELSE 0

\* The first n of them.
Contents(im, loc, n) ==
    CASE loc.kind = "Sparse"     -> [i \in 1..n |-> 0]
      [] loc.kind = "FileOffset" -> Cells(im, loc.offset, n)
      [] loc.kind = "Compressed" -> [i \in 1..n |-> Inflated(im, loc)[loc.skip + i]]

\* The location can be read: it was found and, compressed, it decodes.
Readable(im, loc) ==
    loc.kind # "Err" /\ (loc.kind = "Compressed" => Decodes(im, loc))

----------------------------------------------------------------------------
(* Allocation queries (lib.rs): they repeat the lookup in their own code.  *)

\* Mutated form: an explicitly zero entry counts as stored.
AllocatedAt_ZeroIsData(im, lba) ==
    LET off == lba * SECTOR_SIZE
        sec == PrimaryGt(im, GdIdx(im, off))
        at  == sec * SECTOR_SIZE + GteIdx(im, off)
    IN  IF lba >= im.virtual_disk_size \div SECTOR_SIZE \/ sec = 0 THEN "no"
        ELSE IF ~InFile(im, at, 1) THEN "err"
        ELSE IF im.file[at + 1] >= 1 THEN "yes" ELSE "no"

\* is_allocated: reads the one primary entry, past the cache and the RGD.
AllocatedAt(im, lba) ==
    LET off == lba * SECTOR_SIZE
        sec == PrimaryGt(im, GdIdx(im, off))
        at  == sec * SECTOR_SIZE + GteIdx(im, off)
    IN  IF lba >= im.virtual_disk_size \div SECTOR_SIZE \/ sec = 0 THEN "no"
        ELSE IF ~InFile(im, at, 1) THEN "err"
        ELSE IF im.file[at + 1] > 1 THEN "yes" ELSE "no"

\* The entry iter_allocated_grains finds at slot gi of directory slot gd.
ScanGte(im, fb, gd, gi) ==
    LET gte == GrainTable(im, GtSector(im, fb, gd))[gi + 1]
        rgt == IF fb THEN read_redundant_gt(im, gd) ELSE << >>
    IN  IF gte <= 1 /\ rgt # << >> /\ rgt[gi + 1] > 1 THEN rgt[gi + 1] ELSE gte

\* The stored entries of directory slot gd, whatever the disk's size.
ScanStored(im, fb, gd) ==
    IF GtSector(im, fb, gd) = 0 THEN {}
    ELSE {gi \in 0..(im.num_gtes_per_gt - 1) : ScanGte(im, fb, gd, gi) > 1}

\* Those of them the scan counts as recovered.
ScanRecovered(im, fb, gd) ==
    {gi \in ScanStored(im, fb, gd) :
        \/ GtSector(im, fb, gd) # PrimaryGt(im, gd)
        \/ GrainTable(im, GtSector(im, fb, gd))[gi + 1] <= 1}

\* The scan of directory slot gd reaches a grain table outside the file.
ScanFails(im, fb, gd) ==
    GtSector(im, fb, gd) # 0 /\ ~TableInFile(im, GtSector(im, fb, gd))

\* Mutated form: grains past the end of the disk are listed too.
Listing_PastEnd(im, fb) ==
    UNION {{gd * im.num_gtes_per_gt + gi : gi \in ScanStored(im, fb, gd)} :
               gd \in 0..(Len(im.grain_dir) - 1)}

\* The grains a completed scan lists: those that start inside the disk.
Listing(im, fb) ==
    {g \in UNION {{gd * im.num_gtes_per_gt + gi : gi \in ScanStored(im, fb, gd)} :
                      gd \in 0..(Len(im.grain_dir) - 1)} :
        g * (im.grain_size \div SECTOR_SIZE) < im.virtual_disk_size \div SECTOR_SIZE}
----------------------------------------------------------------------------
(* The disk an image stands for, with no cache in the way.                 *)

\* The first cell of a location: a value, or a gap where the storage ends or
\* fails.
CellOf(im, loc) ==
    IF ~Readable(im, loc) THEN [kind |-> "err", val |-> 0]
    ELSE IF Available(im, loc, 1) = 0 THEN [kind |-> "end", val |-> 0]
    ELSE [kind |-> IF loc.kind = "Sparse" THEN "zero" ELSE "data",
          val  |-> Contents(im, loc, 1)[1]]

CellAt(im, fb, off) == CellOf(im, grain_location(im, fb, << >>, off))

\* The whole disk, in one mode.
DiskOf(im, fb) == [off \in 0..(im.virtual_disk_size - 1) |-> CellAt(im, fb, off)]

\* Offset off is stored: its lookup leads to a grain, or fails past the table.
Stored(im, fb, off) ==
    /\ TableAtHand(im, fb, << >>, off)
    /\ Gte(im, fb, << >>, off) > 1
=============================================================================
