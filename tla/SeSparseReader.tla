--------------------------- MODULE SeSparseReader ---------------------------
(***************************************************************************)
(* One VmdkReader over a seSparse extent: open by magic (core/src/lib.rs), *)
(* Read and Seek (read.rs) and the allocation queries.  The format has no  *)
(* table cache and no redundant directory: enable_rgd_fallback sets a flag *)
(* that nothing here reads.  hash is the loop of reads of VmdkReader.      *)
(***************************************************************************)
EXTENDS SeSparse

CONSTANTS
    Sources,                 \* the files `open` may be given
    Lengths,                 \* buffer lengths passed to read
    SeekStarts, SeekDeltas   \* arguments of SeekFrom::Start / ::Current, ::End

\* Besides the file and its header: the disk the producer stored, the grains
\* whose entries it no longer finds as it wrote them, and whether the medium
\* may fail.
Source == [se : SeHeader, file : Seq(Nat), disk : Seq(Nat), lost : SUBSET Nat,
           fails : BOOLEAN]

\* No file is longer than the largest i64, the largest offset a seek takes.
ASSUME SeReaderAssumption ==
    /\ \A s \in Sources : s \in Source /\ 2 * Len(s.file) <= U64_MAX
    /\ Lengths \subseteq Nat
    /\ SeekStarts \subseteq 0..U64_MAX
    /\ SeekDeltas \subseteq Int

VARIABLES
    src,    \* the file handed to open
    st,     \* "closed", "open" or "refused"
    img,    \* fmt and virtual_disk_size
    pos,    \* pos
    out,    \* the answer to the last call
    view    \* auxiliary: what each offset reads as

vars == <<src, st, img, pos, out, view>>

Answer(op, ok, at, arg, data, list) ==
    [op |-> op, ok |-> ok, at |-> at, arg |-> arg, data |-> data, list |-> list]

NoImage == [file |-> << >>, grain_dir |-> << >>, grain_size |-> 1, num_gtes_per_gt |-> 1,
            gt_offset |-> 0, grains_offset |-> 0, virtual_disk_size |-> 0]

Init ==
    /\ src \in Sources
    /\ st = "closed"
    /\ img = NoImage
    /\ pos = 0
    /\ out = Answer("none", TRUE, 0, 0, << >>, {})
    /\ view = << >>

Open ==
    /\ st = "closed"
    /\ \/ SeOpens(src) /\ st' = "open" /\ img' = SeImage(src) /\ view' = SeDiskOf(img')
       \/ ~SeOpens(src) /\ st' = "refused" /\ UNCHANGED <<img, view>>
    /\ UNCHANGED <<src, pos, out>>

----------------------------------------------------------------------------
(* Read and Seek                                                           *)

\* Mutated form: the read is not stopped at the end of its grain.
ToRead_NoGrainClamp(len) == Min2(len, img.virtual_disk_size - pos)

\* The read is clamped to the disk and to the grain under the cursor.
ToRead(len) ==
    Min2(Min2(len, img.virtual_disk_size - pos), img.grain_size - (pos % img.grain_size))

Here == se_grain_location(img, pos)

\* The runs of cells read may return; a medium returns any positive part.
Runs(n) ==
    LET a == Available(img, Here, n)
    IN  {Contents(img, Here, k) :
            k \in IF Here.kind = "FileOffset" /\ a > 0 THEN 1..a ELSE {a}}

Read(len) ==
    /\ st = "open"
    /\ IF pos >= img.virtual_disk_size \/ len = 0
       THEN out' = Answer("read", TRUE, pos, len, << >>, {}) /\ UNCHANGED pos
       ELSE /\ Here.kind # "Err"
            /\ \E data \in Runs(ToRead(len)) :
                   /\ out' = Answer("read", TRUE, pos, len, data, {})
                   /\ pos' = pos + Len(data)
    /\ UNCHANGED <<src, st, img, view>>

\* The lookup fails, or the medium does at any step of a read that has one.
ReadFails(len) ==
    /\ st = "open" /\ pos < img.virtual_disk_size /\ len > 0
    /\ \/ Here.kind = "Err"
       \/ src.fails /\ SeGdEntry(img, pos) # 0
    /\ out' = Answer("read", FALSE, pos, len, << >>, {})
    /\ UNCHANGED <<src, st, img, pos, view>>

SeekTo(new_pos) ==
    /\ st = "open"
    /\ pos' = IF new_pos < 0 THEN pos ELSE new_pos
    /\ out' = Answer("seek", new_pos >= 0, pos, 0, << >>, {})
    /\ UNCHANGED <<src, st, img, view>>

Seek ==
    \/ \E n \in SeekStarts : SeekTo(AsI64(n))
    \/ \E d \in SeekDeltas : SeekTo(AsI64(pos + d))
    \/ \E d \in SeekDeltas : SeekTo(AsI64(img.virtual_disk_size + d))

----------------------------------------------------------------------------
(* Allocation queries                                                      *)

\* is_allocated reads an entry.
LooksUp(lba) ==
    lba < img.virtual_disk_size \div SECTOR_SIZE /\ SeGdEntry(img, lba * SECTOR_SIZE) # 0

is_allocated(lba) ==
    /\ st = "open"
    /\ \E r \in {SeAllocatedAt(img, lba)}
                  \cup {x \in {"err"} : src.fails /\ LooksUp(lba)} :
           out' = Answer("is_allocated", r # "err", 0, lba, << >>,
                         IF r = "yes" THEN {lba} ELSE {})
    /\ UNCHANGED <<src, st, img, pos, view>>

\* The scan keeps nothing, so it matters only whether some table fails.
iter_allocated_grains ==
    /\ st = "open"
    /\ \/ /\ \A gd \in SeScanned(img) : ~SeScanFails(img, gd)
          /\ out' = Answer("iter", TRUE, 0, 0, << >>, SeListing(img))
       \/ /\ \E gd \in SeScanned(img) : SeScanFails(img, gd) \/ src.fails
          /\ out' = Answer("iter", FALSE, 0, 0, << >>, {})
    /\ UNCHANGED <<src, st, img, pos, view>>

Next ==
    \/ Open
    \/ \E len \in Lengths : Read(len) \/ ReadFails(len)
    \/ Seek
    \/ \E lba \in 0..(img.virtual_disk_size \div SECTOR_SIZE) : is_allocated(lba)
    \/ iter_allocated_grains

Spec == Init /\ [][Next]_vars

----------------------------------------------------------------------------
(* Properties                                                              *)

\* What the format says of one offset, with no address taken modulo anything:
\* it is in a hole, or its table is where the directory entry says, and there is
\* a zero entry, or the digits of a grain n that holds what was stored.
StoredAsWritten(s, im, off) ==
    LET e    == SeGdEntry(im, off)
        at   == (im.gt_offset + (e % SE_GD_SPAN) * SE_GT_SECTORS) * SECTOR_SIZE
                    + GteIdx(im, off)
        gte  == im.file[at + 1]
        cell == s.disk[off + 1]
    IN  \/ e = 0 /\ cell = 0
        \/ /\ Marked(e) /\ at < Len(im.file)
           /\ \/ cell = 0 /\ (gte = 0 \/ SeType(gte) \in {SE_UNMAPPED, SE_ZERO})
              \/ \E n \in 0..(SE_HI_SPAN * SE_LO_SPAN - 1) :
                    LET p == (im.grains_offset + n * SE_GRAIN_SECTORS) * SECTOR_SIZE
                                 + (off % im.grain_size)
                    IN  /\ gte = SE_ALLOCATED * (SE_HI_SPAN * SE_LO_SPAN)
                                     + (n % SE_HI_SPAN) * SE_LO_SPAN + (n \div SE_HI_SPAN)
                        /\ p < Len(im.file) /\ im.file[p + 1] = cell

\* The files the promise below is about: `lost` names every grain the file no
\* longer says that of.  The code checks none of this.
SeWritten(s) ==
    LET im == SeImage(s)
    IN  \A off \in 0..(im.virtual_disk_size - 1) :
            GrainIdx(im, off) \notin s.lost => StoredAsWritten(s, im, off)

\* Every cell a read returns is the one the producer stored, unless its entry
\* was damaged; and on a medium that does not fail a read in a grain whose
\* entries are as written succeeds and makes progress, whatever became of its
\* neighbours.  The index in an entry is rotated, the table is found through an
\* index too, and both are added to offsets of the header without a check.
SurvivorsAreRead ==
    /\ (out.op = "read" /\ out.ok) =>
           \A i \in 1..Len(out.data) :
               \/ out.data[i] = src.disk[out.at + i]
               \/ GrainIdx(img, out.at + i - 1) \in src.lost
    /\ (/\ out.op = "read" /\ ~src.fails /\ out.arg > 0 /\ out.at < img.virtual_disk_size
        /\ GrainIdx(img, out.at) \notin src.lost)
           => out.ok /\ out.data # << >>

\* The reader finds a stored grain at offset off (which may lie past the end of
\* the file), or cannot tell.
ReadFindsGrain(off) == se_grain_location(img, off).kind = "FileOffset"
ReadCannotTell(off) == se_grain_location(img, off).kind = "Err"

\* The three copies of the lookup agree wherever a read can tell: is_allocated
\* says of a sector what a read of it finds, and a completed scan lists the
\* grains of the disk a read finds stored, so that no directory slot it skips
\* moves the rest.
LookupsAgree ==
    /\ (/\ out.op = "is_allocated" /\ out.ok /\ out.arg * SECTOR_SIZE < img.virtual_disk_size
        /\ ~ReadCannotTell(out.arg * SECTOR_SIZE))
           => (out.list # {} <=> ReadFindsGrain(out.arg * SECTOR_SIZE))
    /\ (out.op = "iter" /\ out.ok) =>
           \A g \in 0..(img.virtual_disk_size - 1) :
               LET off == g * img.grain_size IN
               IF off >= img.virtual_disk_size THEN g \notin out.list
               ELSE ~ReadCannotTell(off) => (g \in out.list <=> ReadFindsGrain(off))

\* The extent seen as a disk of cells and gaps.
Disk == INSTANCE VirtualDisk WITH
    size <- img.virtual_disk_size,
    disk <- view

\* Every step of the reader is a step of VirtualDisk or leaves it unchanged.
ImplementsDisk == Disk!Spec
=============================================================================
