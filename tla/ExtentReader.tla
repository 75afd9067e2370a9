---------------------------- MODULE ExtentReader ---------------------------
(***************************************************************************)
(* A disk whose extents are listed in a text descriptor: VmdkReader's      *)
(* open_path (core/src/lib.rs) with the extent lines of descriptor.rs, and *)
(* the two readers it puts under a Flat VmdkReader, MultiExtentReader      *)
(* (flat.rs) and MultiSparseReader (sparse_multi.rs).  Both concatenate    *)
(* their extents; the second repeats the grain lookup in its own code,     *)
(* without cache, recovery or compression.                                 *)
(*                                                                         *)
(* Opening takes one step for the descriptor, one per extent and one for   *)
(* the disk size, since each may fail.  A call is one step.                *)
(***************************************************************************)
EXTENDS ExtentHeader

CONSTANTS
    Scenarios,              \* directories with a descriptor
    Lengths, SeekStarts, SeekDeltas     \* arguments of read and seek

\* An extent line: access, size in sectors, extent type, file name ("" for
\* none, ".." for one that leaves the directory) and first sector in the file.
\* createType is given by the arm of open_path it selects.
Line == [access : {"RW", "RDONLY", "NOACCESS"}, size : Nat,
         type : {"FLAT", "ZERO", "SPARSE", "other"}, name : STRING, offset : Nat]
CreateTypes == {"flat", "sparse", "seSparse", "custom", "other"}

\* files: the extent files there are, each with its cells and the header in
\* its first sector.  want: the disk the author of the directory meant, by
\* offset, where it can be read at all.
IsScenario(s) ==
    /\ s.create_type \in CreateTypes
    /\ s.lines \in Seq(Line)
    /\ \A n \in DOMAIN s.files : /\ s.files[n].file \in Seq(Nat)
                                 /\ s.files[n].hdr \in HeaderFields
    /\ DOMAIN s.want \subseteq Nat

ASSUME ExtentAssumption ==
    /\ \A s \in Scenarios : IsScenario(s)
    /\ Lengths \subseteq Nat /\ SeekStarts \subseteq 0..U64_MAX /\ SeekDeltas \subseteq Int

VARIABLES
    sc,                 \* the directory
    st,                 \* "closed", "opening", "open", "refused" or "delegated"
    left,               \* extent lines still to be opened
    extents,            \* the extents opened, in disk order
    total_bytes,        \* where the next extent starts; at the end, their total
    virtual_disk_size,  \* of the Flat reader on top
    pos,                \* its cursor
    inner_pos,          \* the cursor of the multi-extent reader
    out                 \* the answer to the last call

vars == <<sc, st, left, extents, total_bytes, virtual_disk_size, pos, inner_pos, out>>

\* io: every file did what it was asked.
Answer(op, ok, at, arg, data) ==
    [op |-> op, ok |-> ok, at |-> at, arg |-> arg, data |-> data, io |-> TRUE]

Init ==
    /\ sc \in Scenarios
    /\ st = "closed"
    /\ left = << >>
    /\ extents = << >>
    /\ total_bytes = 0
    /\ virtual_disk_size = 0
    /\ pos = 0
    /\ inner_pos = 0
    /\ out = Answer("none", TRUE, 0, 0, << >>)

----------------------------------------------------------------------------
(* The descriptor: parse_text_descriptor and the match of open_path.       *)

\* try_parse_flat_extent takes the line; ZERO and NOACCESS need no file.
IsFlat(l) == l.type \in {"FLAT", "ZERO"}
IsZero(l) == l.type = "ZERO" \/ l.access = "NOACCESS"

\* try_parse_sparse_extent takes the line.
IsSparse(l) == l.type = "SPARSE" /\ l.access # "NOACCESS"

\* The sum of the sizes, in order; U64_MAX + 1 once it has overflowed.
Sum(ls) ==
    LET f[i \in 0..Len(ls)] ==
            IF i = 0 THEN 0 ELSE Min2(f[i - 1] + ls[i].size, U64_MAX + 1)
    IN  f[Len(ls)]

FlatLines == SelectSeq(sc.lines, IsFlat)
SparseLines == SelectSeq(sc.lines, IsSparse)

\* The lines whose extents make up the disk, by createType.
Chosen ==
    IF sc.create_type = "flat" \/ (sc.create_type = "custom" /\ FlatLines # << >>)
    THEN FlatLines ELSE SparseLines

\* open_path fails before any extent is opened.
Unsupported ==
    \/ Sum(FlatLines) > U64_MAX \/ Sum(SparseLines) > U64_MAX
    \/ sc.create_type = "other"
    \/ sc.create_type = "seSparse" /\ (IF SparseLines = << >> THEN TRUE
                                       ELSE SparseLines[1].name \notin DOMAIN sc.files)
    \/ sc.create_type = "custom" /\ (FlatLines = << >> <=> SparseLines = << >>)

\* The descriptor is read.  A seSparse disk is the reader of its one extent.
Parse ==
    /\ st = "closed"
    /\ st' = IF Unsupported THEN "refused"
             ELSE IF sc.create_type = "seSparse" THEN "delegated" ELSE "opening"
    /\ left' = IF st' = "opening" THEN Chosen ELSE << >>
    /\ UNCHANGED <<sc, extents, total_bytes, virtual_disk_size, pos, inner_pos, out>>

\* Mutated form: only the flat extents are listed.
extent_dependencies_FlatOnly ==
    LET needs(l) == ~IsZero(l) /\ l.name # ""
        flat == SelectSeq(FlatLines, needs)
    IN  {flat[i].name : i \in 1..Len(flat)}

\* The files a caller is told to collect, without opening any of them, where the
\* descriptor is UTF-8; another encoding, which open_path reads, is an error here.
extent_dependencies ==
    LET needs(l) == ~IsZero(l) /\ l.name # ""
        flat == SelectSeq(FlatLines, needs)
        sparse == SelectSeq(SparseLines, needs)
    IN  {flat[i].name : i \in 1..Len(flat)} \cup {sparse[i].name : i \in 1..Len(sparse)}

----------------------------------------------------------------------------
(* The extents: MultiExtentReader::open and MultiSparseReader::open.       *)

NoFile == [file |-> << >>, grain_dir |-> << >>, grain_size |-> 1,
           num_gtes_per_gt |-> 1]

\* The part of an image a sparse chunk keeps.
Chunk(f, gd_at, slots, grain_size, gtes) ==
    [file |-> f.file, grain_dir |-> Cells(f, gd_at, slots),
     grain_size |-> grain_size * SECTOR_SIZE, num_gtes_per_gt |-> gtes]

\* A VMDK4 extent passes the checks of MultiSparseReader::open.
Vmdk4Usable(f) ==
    /\ HeaderParses(f.hdr)
    /\ f.hdr.grain_size * SECTOR_SIZE <= U64_MAX
    /\ f.hdr.capacity + f.hdr.grain_size - 1 <= U64_MAX
    /\ NumGts(f.hdr) <= MAX_GD
    /\ f.hdr.gd_offset * SECTOR_SIZE <= U64_MAX
    /\ InFile(f, f.hdr.gd_offset * SECTOR_SIZE, NumGts(f.hdr))

\* The line can be opened as an extent of its kind.
Usable(l) ==
    IF IsFlat(l) THEN IsZero(l) \/ l.name \in DOMAIN sc.files
    ELSE IF l.name \notin DOMAIN sc.files THEN FALSE
    ELSE LET f == sc.files[l.name]
         IN  InFile(f, 0, SECTOR_SIZE) /\ (Vmdk4Usable(f) \/ CowdOpens(f))

Extent(kind, start, size, file_offset, im) ==
    [kind |-> kind, byte_start |-> start,
     byte_end |-> (start + size) % (U64_MAX + 1),
     file_offset |-> file_offset, im |-> im]

\* size_sectors * 512 in a release build.
SizeBytes(l) == (l.size * SECTOR_SIZE) % (U64_MAX + 1)

\* The extent a line becomes.  A COWD extent has its header's size, any other
\* the size of its line.
Opened(l) ==
    IF IsZero(l) THEN Extent("zero", total_bytes, SizeBytes(l), 0, NoFile)
    ELSE LET f == sc.files[l.name]
             h == f.hdr
         IN  IF IsFlat(l)
             THEN Extent("flat", total_bytes, SizeBytes(l),
                         Min2(l.offset * SECTOR_SIZE, U64_MAX), [NoFile EXCEPT !.file = f.file])
             ELSE IF h.magic = "COWD"
             THEN Extent("sparse", total_bytes, h.capacity * SECTOR_SIZE, 0,
                         Chunk(f, COWD_GD_SECTOR * SECTOR_SIZE, CowdNumGts(h),
                               h.grain_size, COWD_GTES_PER_GT))
             ELSE Extent("sparse", total_bytes, SizeBytes(l), 0,
                         Chunk(f, h.gd_offset * SECTOR_SIZE, NumGts(h), h.grain_size,
                               h.num_gtes_per_gt))

\* One turn of the loop over the extents.
OpenExtent ==
    /\ st = "opening" /\ left # << >>
    /\ \/ /\ Usable(Head(left))
          /\ extents' = Append(extents, Opened(Head(left)))
          /\ total_bytes' = Opened(Head(left)).byte_end
          /\ left' = Tail(left)
          /\ UNCHANGED st
       \/ /\ ~Usable(Head(left))
          /\ st' = "refused"
          /\ UNCHANGED <<left, extents, total_bytes>>
    /\ UNCHANGED <<sc, virtual_disk_size, pos, inner_pos, out>>

\* Mutated form: a size that does not fit is cut to the largest that does.
Finish_Saturating ==
    /\ st = "opening" /\ left = << >>
    /\ st' = "open"
    /\ virtual_disk_size' = Min2(Sum(Chosen) * SECTOR_SIZE, U64_MAX)
    /\ UNCHANGED <<sc, left, extents, total_bytes, pos, inner_pos, out>>

\* The Flat reader is made, with the size the descriptor gives.
Finish ==
    /\ st = "opening" /\ left = << >>
    /\ LET size == Sum(Chosen) * SECTOR_SIZE IN
       \/ size <= U64_MAX /\ st' = "open" /\ virtual_disk_size' = size
       \/ size > U64_MAX /\ st' = "refused" /\ UNCHANGED virtual_disk_size
    /\ UNCHANGED <<sc, left, extents, total_bytes, pos, inner_pos, out>>

----------------------------------------------------------------------------
(* Read and Seek.                                                          *)

\* Mutated form: an offset on the boundary belongs to the extent before it.
Covering_Inclusive(p) ==
    {i \in 1..Len(extents) : extents[i].byte_start <= p /\ p <= extents[i].byte_end}

\* The extents an offset lies in; the first of them is asked.
Covering(p) ==
    {i \in 1..Len(extents) : extents[i].byte_start <= p /\ p < extents[i].byte_end}

Owner(p) == CHOOSE i \in Covering(p) : \A j \in Covering(p) : i <= j

Err == Location("Err", 0, 0, 0)
Zeros == Location("Sparse", 0, 0, 0)

\* A raw extent: the place wraps with the u64 it is computed in, and one past
\* i64::MAX cannot be sought.
FlatLocation(e, o) ==
    LET at == (e.file_offset + o) % (U64_MAX + 1)
    IN  IF AsI64(at) < 0 THEN Err ELSE Location("FileOffset", at, 0, 0)

\* A sparse extent: one directory slot, one entry, no redundant copy.
SparseLocation(im, o) ==
    LET sec == PrimaryGt(im, GdIdx(im, o))
        at  == sec * SECTOR_SIZE + GteIdx(im, o)
    IN  IF sec = 0 THEN Zeros
        ELSE IF ~InFile(im, at, 1) THEN Err
        ELSE IF im.file[at + 1] <= 1 THEN Zeros
        ELSE Location("FileOffset",
                      im.file[at + 1] * SECTOR_SIZE + (o % im.grain_size), 0, 0)

InnerLocation(e, o) ==
    CASE e.kind = "zero"   -> Zeros
      [] e.kind = "flat"   -> FlatLocation(e, o)
      [] e.kind = "sparse" -> SparseLocation(e.im, o)

\* Mutated form: a read may run into the next extent.
InnerToRead_NoChunkClamp(e, p, n) ==
    IF e.kind = "sparse"
    THEN Min2(n, e.im.grain_size - ((p - e.byte_start) % e.im.grain_size)) ELSE n

\* A read stops at the end of its extent and, in a sparse one, of its grain.
InnerToRead(e, p, n) ==
    Min2(Min2(n, e.byte_end - p),
         IF e.kind = "sparse"
         THEN e.im.grain_size - ((p - e.byte_start) % e.im.grain_size) ELSE n)

\* What the multi-extent reader may return for n cells at p: `ok` and a run of
\* cells, shorter than asked where the file ends or returns less.
InnerRead(p, n) ==
    IF p >= total_bytes \/ n = 0 THEN {[ok |-> TRUE, data |-> << >>]}
    ELSE IF Covering(p) = {} THEN {[ok |-> FALSE, data |-> << >>]}
    ELSE LET e   == extents[Owner(p)]
             loc == InnerLocation(e, p - e.byte_start)
             m   == Available(e.im, loc, InnerToRead(e, p, n))
         IN  IF loc.kind = "Err" THEN {[ok |-> FALSE, data |-> << >>]}
             ELSE {[ok |-> TRUE, data |-> Contents(e.im, loc, k)] :
                       k \in IF loc.kind = "FileOffset" /\ m > 0 THEN 1..m ELSE {m}}

\* A read of the Flat reader: seek the reader below, read, advance.
Read(len) ==
    /\ st = "open"
    /\ IF pos >= virtual_disk_size \/ len = 0
       THEN /\ out' = Answer("read", TRUE, pos, len, << >>)
            /\ UNCHANGED <<pos, inner_pos>>
       ELSE \E r \in InnerRead(pos, Min2(len, virtual_disk_size - pos)) :
                /\ out' = Answer("read", r.ok, pos, len, r.data)
                /\ inner_pos' = pos + Len(r.data)
                /\ pos' = pos + Len(r.data)
    /\ UNCHANGED <<sc, st, left, extents, total_bytes, virtual_disk_size>>

\* The same read where a file fails: the reader below has been sought.
ReadFails(len) ==
    /\ st = "open" /\ pos < virtual_disk_size /\ len > 0
    /\ out' = [Answer("read", FALSE, pos, len, << >>) EXCEPT !.io = FALSE]
    /\ inner_pos' = pos
    /\ UNCHANGED <<sc, st, left, extents, total_bytes, virtual_disk_size, pos>>

\* Mutated form: a cursor before the start is accepted.
SeekTo_Unchecked(new_pos) ==
    /\ st = "open"
    /\ pos' = new_pos
    /\ out' = Answer("seek", TRUE, pos, 0, << >>)
    /\ UNCHANGED <<sc, st, left, extents, total_bytes, virtual_disk_size, inner_pos>>

SeekTo(new_pos) ==
    /\ st = "open"
    /\ pos' = IF new_pos < 0 THEN pos ELSE new_pos
    /\ out' = Answer("seek", new_pos >= 0, pos, 0, << >>)
    /\ UNCHANGED <<sc, st, left, extents, total_bytes, virtual_disk_size, inner_pos>>

Seek ==
    \/ \E n \in SeekStarts : SeekTo(AsI64(n))
    \/ \E d \in SeekDeltas : SeekTo(AsI64(pos + d))
    \/ \E d \in SeekDeltas : SeekTo(AsI64(virtual_disk_size + d))

Next ==
    \/ Parse
    \/ OpenExtent
    \/ Finish
    \/ \E len \in Lengths : Read(len) \/ ReadFails(len)
    \/ Seek

Spec == Init /\ [][Next]_vars

----------------------------------------------------------------------------
(* Properties                                                              *)

\* Types of the fields; an extent is a run of the disk.
TypeOK ==
    /\ st \in {"closed", "opening", "open", "refused", "delegated"}
    /\ pos \in Nat /\ inner_pos \in Nat
    /\ total_bytes \in 0..U64_MAX /\ virtual_disk_size \in 0..U64_MAX
    /\ \A i \in 1..Len(extents) : extents[i].kind \in {"zero", "flat", "sparse"}

\* The extents of an open disk cover it without gap or overlap, although
\* neither the product size_sectors * 512 nor the running sum is checked: the
\* check of the total, made last, stands for them.
ExtentsTile ==
    st = "open" =>
        /\ total_bytes = virtual_disk_size
        /\ \A p \in 0..(virtual_disk_size - 1) :
               Cardinality({i \in 1..Len(extents) :
                               extents[i].byte_start <= p /\ p < extents[i].byte_end}) = 1

\* A read returns the cells the author of the directory meant at its offset:
\* extents in the order of their lines, each in its own place of the disk.
ReadsAsMeant ==
    (out.op = "read" /\ out.ok) =>
        \A i \in 1..Len(out.data) : out.data[i] = sc.want[out.at + i - 1].val

\* Unless a file fails, a read at an offset that is stored, or is
\* meant to be zero, succeeds and makes progress.
ReadableIsRead ==
    (/\ out.op = "read" /\ out.io /\ out.arg > 0 /\ out.at < virtual_disk_size
     /\ sc.want[out.at].kind \in {"data", "zero"})
        => out.ok /\ out.data # << >>

\* The extents seen as one disk.
Disk == INSTANCE VirtualDisk WITH
    size <- IF st = "open" THEN virtual_disk_size ELSE 0,
    disk <- sc.want

\* Two cursors, one per extent file besides, implement one cursor over one
\* disk: no read crosses into the wrong extent, skips or repeats a cell.
ImplementsDisk == Disk!Spec

\* Whoever collects the files listed before opening can open the disk: every
\* file the opening loop takes, or hands the disk to, is on the list.
DependenciesSuffice ==
    st \in {"open", "delegated"} =>
        \A i \in 1..Len(Chosen) : IsZero(Chosen[i]) \/ Chosen[i].name \in extent_dependencies
=============================================================================
