---------------------------- MODULE VmdkReader -----------------------------
(***************************************************************************)
(* One reader over one sparse VMDK extent: VmdkReader<R> of core/src/lib.rs*)
(* with its Read and Seek (read.rs), its recovery mode (recovery.rs) and   *)
(* the checks of `open` (header parsing is ExtentHeader).                      *)
(*                                                                         *)
(* A method takes &mut self, so a call is one action; `hash` is a loop of  *)
(* reads and is one action per iteration.  The medium under the reader may *)
(* return short reads and may fail at any of its I/O steps: a failing call *)
(* returns early and keeps what it did before the failing step.            *)
(***************************************************************************)
EXTENDS SparseOpen

CONSTANTS
    Sources,                 \* the files `open` may be given
    Lengths,                 \* buffer lengths passed to read
    HASH_BUF,                \* buffer length of hash
    SeekStarts, SeekDeltas,  \* arguments of SeekFrom::Start / ::Current, ::End
    MaxRecoveries            \* rgd_recovery_count at which no further read starts

\* hdr and footer are the headers found in the first sector of the file and
\* two sectors before its end; desc_ok says that the embedded descriptor text
\* parses.  The rest is what the producer of the file knew and the reader does
\* not: the disk it stored, the grains whose every pointer a reader without
\* (lost) and with (gone) recovery has lost, and whether the file was cut.
\* fails are the I/O steps at which the medium it lies on may fail.
Source == [hdr : HeaderFields, footer : HeaderFields, desc_ok : BOOLEAN,
           file : Seq(Nat), disk : Seq(Nat), lost : SUBSET Nat, gone : SUBSET Nat,
           cut : BOOLEAN, fails : SUBSET {"table", "entry", "data"}]

ASSUME ReaderAssumption ==
    /\ \A s \in Sources : s \in Source
    /\ MAX_DESCRIPTOR \in Nat
    /\ Lengths \subseteq Nat
    /\ HASH_BUF \in Nat \ {0}
    /\ SeekStarts \subseteq 0..U64_MAX
    /\ SeekDeltas \subseteq Int
    /\ MaxRecoveries \in Nat

VARIABLES
    src,                 \* the file handed to open
    st,                  \* "closed", "open" or "refused"
    img,                 \* fmt, virtual_disk_size, rgd_offset, gd_entry_count
    pos,                 \* pos
    gt_cache,            \* gt_cache: grain tables by their sector
    rgd_fallback,        \* rgd_fallback
    rgd_recovery_count,  \* rgd_recovery_count
    job,                 \* a hash call in progress
    out,                 \* the answer to the last call
    view                 \* auxiliary: what each offset reads as in this mode

vars == <<src, st, img, pos, gt_cache, rgd_fallback, rgd_recovery_count, job, out,
          view>>

Answer(op, ok, at, arg, data, list) ==
    [op |-> op, ok |-> ok, at |-> at, arg |-> arg, data |-> data, list |-> list]

NoAnswer == Answer("none", TRUE, 0, 0, << >>, {})

NoJob == [on |-> FALSE, from |-> 0, fed |-> << >>]

NoImage == [file |-> << >>, grain_dir |-> << >>, grain_size |-> 1,
            num_gtes_per_gt |-> 1, virtual_disk_size |-> 0, compressed |-> FALSE,
            rgd_offset |-> 0, gd_entry_count |-> 0]

----------------------------------------------------------------------------
(* open                                                                    *)

Init ==
    /\ src \in Sources
    /\ st = "closed"
    /\ img = NoImage
    /\ pos = 0
    /\ gt_cache = << >>
    /\ rgd_fallback = FALSE
    /\ rgd_recovery_count = 0
    /\ job = NoJob
    /\ out = NoAnswer
    /\ view = << >>

Open ==
    /\ st = "closed"
    /\ \/ /\ Opens(src)
          /\ st' = "open"
          /\ img' = IF src.hdr.magic = "COWD" THEN CowdImage(src) ELSE Vmdk4Image(src)
          /\ view' = DiskOf(img', FALSE)
       \/ /\ ~Opens(src)
          /\ st' = "refused"
          /\ UNCHANGED <<img, view>>
    /\ UNCHANGED <<src, pos, gt_cache, rgd_fallback, rgd_recovery_count, job, out>>

----------------------------------------------------------------------------
(* Read                                                                    *)

\* A call can be made: the reader is open and no hash has it borrowed.
Idle == st = "open" /\ ~job.on

\* Calls that may count recoveries are made below this bound on the counter.
Room == rgd_recovery_count < MaxRecoveries

\* The place of the cell under the cursor, and the sector of its table.
Here == grain_location(img, rgd_fallback, gt_cache, pos)
Sector == GtSector(img, rgd_fallback, GdIdx(img, pos))

\* Mutated form: the read is not stopped at the end of its grain.
ToRead_NoGrainClamp(len) == Min2(len, img.virtual_disk_size - pos)

\* The read is clamped to the disk and to the grain under the cursor.
ToRead(len) ==
    Min2(Min2(len, img.virtual_disk_size - pos), img.grain_size - (pos % img.grain_size))

Outcome(ok, data, cached, counted) ==
    [ok |-> ok, data |-> data, cached |-> cached, counted |-> counted]

\* The I/O step fails: before the table is cached, between that and the
\* recovery count, or after both.
FaultOutcomes ==
    {Outcome(FALSE, << >>, FALSE, FALSE) : f \in
        {"table"} \cap (IF rgd_fallback \/ (Sector # 0 /\ Sector \notin DOMAIN gt_cache)
                        THEN src.fails ELSE {})}
    \cup
    {Outcome(FALSE, << >>, TRUE, FALSE) : f \in
        {"entry"} \cap (IF /\ rgd_fallback
                           /\ TableAtHand(img, rgd_fallback, gt_cache, pos)
                           /\ TableGte(img, rgd_fallback, gt_cache, pos) <= 1
                        THEN src.fails ELSE {})}
    \cup
    {Outcome(FALSE, << >>, TRUE, TRUE) : f \in
        {"data"} \cap (IF /\ TableAtHand(img, rgd_fallback, gt_cache, pos)
                          /\ Gte(img, rgd_fallback, gt_cache, pos) > 1
                       THEN src.fails ELSE {})}

\* The counts inner.read may return: any positive part of what is there, 0
\* at the end of the file.  Zero fills and decoded grains come whole.
Returned(n) ==
    LET a == Available(img, Here, n)
    IN  IF Here.kind = "FileOffset" /\ a > 0 THEN 1..a ELSE {a}

ReadOutcomes(len) ==
    IF pos >= img.virtual_disk_size \/ len = 0
    THEN {Outcome(TRUE, << >>, FALSE, FALSE)}
    ELSE FaultOutcomes \cup
         IF Readable(img, Here)
         THEN {Outcome(TRUE, Contents(img, Here, n), TRUE, TRUE) : n \in Returned(ToRead(len))}
         ELSE {Outcome(FALSE, << >>, TRUE, TRUE)}

\* Mutated form: the zeroed buffer is cached before it has been filled.
CacheAfter_BeforeRead(o) ==
    IF ~o.ok /\ ~o.cached /\ Sector # 0 /\ Sector \notin DOMAIN gt_cache
    THEN [s \in DOMAIN gt_cache \cup {Sector} |->
             IF s \in DOMAIN gt_cache THEN gt_cache[s]
             ELSE [i \in 1..img.num_gtes_per_gt |-> 0]]
    ELSE gt_cache

\* gt_cache after the read.
CacheAfter(o) ==
    IF o.cached /\ Fetches(img, rgd_fallback, gt_cache, pos)
    THEN [s \in DOMAIN gt_cache \cup {Sector} |->
             IF s \in DOMAIN gt_cache THEN gt_cache[s] ELSE GrainTable(img, Sector)]
    ELSE gt_cache

\* Recoveries the read counts.
CountOf(o) ==
    IF o.counted /\ Recovered(img, rgd_fallback, gt_cache, pos) THEN 1 ELSE 0

\* Mutated form: a failing read has already moved the cursor.
Advance_BeforeRead(o) ==
    /\ gt_cache' = CacheAfter(o)
    /\ rgd_recovery_count' = rgd_recovery_count + CountOf(o)
    /\ pos' = IF o.ok THEN pos + Len(o.data) ELSE pos + 1

\* What one read does to the reader, given its outcome.
Advance(o) ==
    /\ gt_cache' = CacheAfter(o)
    /\ rgd_recovery_count' = rgd_recovery_count + CountOf(o)
    /\ pos' = pos + Len(o.data)

Read(len) ==
    /\ Idle /\ Room
    /\ \E o \in ReadOutcomes(len) :
           /\ Advance(o)
           /\ out' = Answer("read", o.ok, pos, len, o.data, {})
    /\ UNCHANGED <<src, st, img, rgd_fallback, job, view>>

----------------------------------------------------------------------------
(* hash: reads of HASH_BUF until one returns nothing.                      *)

HashStart ==
    /\ Idle /\ Room
    /\ job' = [on |-> TRUE, from |-> pos, fed |-> << >>]
    /\ out' = NoAnswer
    /\ UNCHANGED <<src, st, img, pos, gt_cache, rgd_fallback, rgd_recovery_count, view>>

\* Mutated form: only an error ends the pass.
HashEnds_OnError(o) == ~o.ok

\* The loop is left: on an error, or when a read returns 0.
HashEnds(o) == ~o.ok \/ Len(o.data) = 0

HashStep ==
    /\ job.on
    /\ \E o \in ReadOutcomes(HASH_BUF) :
           /\ Advance(o)
           /\ IF HashEnds(o)
              THEN /\ out' = Answer("hash", o.ok, job.from, 0,
                                    IF o.ok THEN job.fed \o o.data ELSE << >>, {})
                   /\ job' = NoJob
              ELSE /\ job' = [job EXCEPT !.fed = job.fed \o o.data]
                   /\ UNCHANGED out
    /\ UNCHANGED <<src, st, img, rgd_fallback, view>>

----------------------------------------------------------------------------
(* Seek                                                                    *)

\* Mutated form: no check for a position before the start.
SeekTo_Unchecked(new_pos) ==
    /\ Idle
    /\ pos' = new_pos
    /\ out' = Answer("seek", TRUE, pos, 0, << >>, {})
    /\ UNCHANGED <<src, st, img, gt_cache, rgd_fallback, rgd_recovery_count, job, view>>

SeekTo(new_pos) ==
    /\ Idle
    /\ pos' = IF new_pos < 0 THEN pos ELSE new_pos
    /\ out' = Answer("seek", new_pos >= 0, pos, 0, << >>, {})
    /\ UNCHANGED <<src, st, img, gt_cache, rgd_fallback, rgd_recovery_count, job, view>>

Seek ==
    \/ \E n \in SeekStarts : SeekTo(AsI64(n))
    \/ \E d \in SeekDeltas : SeekTo(AsI64(pos + d))
    \/ \E d \in SeekDeltas : SeekTo(AsI64(img.virtual_disk_size + d))

----------------------------------------------------------------------------
(* Recovery mode and the allocation queries.                               *)

enable_rgd_fallback ==
    /\ Idle
    /\ rgd_fallback' = TRUE
    /\ view' = DiskOf(img, TRUE)
    /\ out' = NoAnswer
    /\ UNCHANGED <<src, st, img, pos, gt_cache, rgd_recovery_count, job>>

is_allocated(lba) ==
    /\ Idle
    /\ \E r \in {AllocatedAt(img, lba)} \cup (IF "table" \in src.fails THEN {"err"} ELSE {}) :
           out' = Answer("is_allocated", r # "err", 0, lba, << >>,
                         IF r = "yes" THEN {lba} ELSE {})
    /\ UNCHANGED <<src, st, img, pos, gt_cache, rgd_fallback, rgd_recovery_count, job, view>>

\* The grains counted as recovered by a scan that got past the slots below gd.
ScanCount(gd) ==
    Cardinality(UNION {{k} \X ScanRecovered(img, rgd_fallback, k) : k \in 0..(gd - 1)})

\* The scan ends at directory slot `stop`: on a fault or a table outside the
\* file, or past the last slot with the listing.
iter_allocated_grains ==
    /\ Idle /\ Room
    /\ \E stop \in 0..Len(img.grain_dir) :
           /\ \A gd \in 0..(stop - 1) : ~ScanFails(img, rgd_fallback, gd)
           /\ \/ stop = Len(img.grain_dir)
              \/ ScanFails(img, rgd_fallback, stop)
              \/ /\ "table" \in src.fails
                 /\ rgd_fallback \/ PrimaryGt(img, stop) # 0
           /\ rgd_recovery_count' = rgd_recovery_count + ScanCount(stop)
           /\ out' = IF stop = Len(img.grain_dir)
                     THEN Answer("iter", TRUE, 0, 0, << >>, Listing(img, rgd_fallback))
                     ELSE Answer("iter", FALSE, 0, 0, << >>, {})
    /\ UNCHANGED <<src, st, img, pos, gt_cache, rgd_fallback, job, view>>

----------------------------------------------------------------------------
Next ==
    \/ Open
    \/ \E len \in Lengths : Read(len)
    \/ HashStart
    \/ HashStep
    \/ Seek
    \/ enable_rgd_fallback
    \/ \E lba \in 0..(img.virtual_disk_size \div SECTOR_SIZE) : is_allocated(lba)
    \/ iter_allocated_grains

\* hash runs in the caller's thread: once begun it goes on by itself.
Spec == Init /\ [][Next]_vars /\ WF_vars(HashStep)
----------------------------------------------------------------------------
(* Properties                                                              *)

\* Types of the reader's fields; an open reader has a well-formed image of its
\* file, any other has read nothing yet.
TypeOK ==
    /\ src \in Sources
    /\ st \in {"closed", "open", "refused"}
    /\ img \in Image
    /\ st = "open" => img.file = src.file
    /\ pos \in Nat
    /\ DOMAIN gt_cache \subseteq Nat
    /\ rgd_fallback \in BOOLEAN
    /\ rgd_recovery_count \in Nat
    /\ job \in [on : BOOLEAN, from : Nat, fed : Seq(Nat)]
    /\ st # "open" => gt_cache = << >> /\ ~job.on

\* A cached grain table is the table the file holds at that sector, whole and
\* inside the file, however many lookups, mode switches and failed reads came
\* between: a read served from gt_cache equals one served from the file.
CacheCoherent ==
    \A sec \in DOMAIN gt_cache :
        /\ sec # 0
        /\ TableInFile(img, sec)
        /\ gt_cache[sec] = GrainTable(img, sec)

\* The directory `open` sizes from capacity, grain_size and num_gtes_per_gt
\* has a slot for every offset of the disk, so the lookup's unwrap_or(0)
\* never turns part of the disk into a hole.
DirectoryCoversDisk ==
    st = "open" => \A off \in 0..(img.virtual_disk_size - 1) :
                       GdIdx(img, off) < Len(img.grain_dir)

\* Once a cell reads as data it reads as that data for good: turning recovery
\* on changes no cell that was readable without it.
RecoveryKeepsData ==
    [][\A off \in DOMAIN view : view[off].kind = "data" => view'[off] = view[off]]_view

\* The image open makes of a file, and what a pointer found in a grain table
\* leads to for one offset of its grain.
ImageOf(s) == IF s.hdr.magic = "COWD" THEN CowdImage(s) ELSE Vmdk4Image(s)

Pointed(im, p, off) ==
    CellOf(im, IF p <= 1 THEN Location("Sparse", 0, 0, 0)
               ELSE IF im.compressed THEN CompressedAt(im, p * SECTOR_SIZE, off % im.grain_size)
               ELSE Location("FileOffset", p * SECTOR_SIZE + (off % im.grain_size), 0, 0))

\* The pointer p leads to what was stored in grain g (or, in a file cut short,
\* nowhere); each of the two tables that can be read has it or has been wiped,
\* and where the grain is not given up for lost one table has it.
WrittenAs(s, im, g, p) ==
    LET gi     == g % im.num_gtes_per_gt
        prim   == PrimaryGt(im, g \div im.num_gtes_per_gt)
        red    == rgd_dir_entry(im, g \div im.num_gtes_per_gt)
        Has(sec, P) == usable(im, sec) /\ im.file[sec * SECTOR_SIZE + gi + 1] \in P
        intact == Has(prim, {p}) \/ (prim = 0 /\ p <= 1)
    IN  /\ usable(im, prim) => Has(prim, {0, 1, p})
        /\ usable(im, red) => Has(red, {0, 1, p})
        /\ g \in s.lost \/ intact
        /\ g \in s.gone \/ intact \/ Has(red, {p})
        /\ \A off \in 0..(im.virtual_disk_size - 1) :
               (GrainIdx(im, off) = g /\ (g \notin s.lost \cap s.gone \/ p > 1)) =>
                   LET c == Pointed(im, p, off)
                   IN  /\ c.kind \in {"zero", "data"} => c.val = s.disk[off + 1]
                       /\ s.cut \/ c.kind \in {"zero", "data"}

\* The files the promises below are about: every grain of the disk has such a
\* pointer, no pointer meaning a hole.  The code checks none of this.
Written(s) ==
    LET im == ImageOf(s)
    IN  \A g \in 0..(im.virtual_disk_size - 1) :
            g * im.grain_size < im.virtual_disk_size =>
            \E p \in {im.file[a] : a \in 1..Len(im.file)} \cup {0} : WrittenAs(s, im, g, p)

\* Grains whose pointers did not survive, for the mode the reader is in.
Dead == IF rgd_fallback THEN src.gone ELSE src.lost

\* Every cell a read or a hash returns is the cell the producer stored, or a
\* zero in a grain whose pointers are lost to this mode: never another
\* grain's data, never the wrong part of the grain.
ReadsAreStored ==
    (out.op \in {"read", "hash"} /\ out.ok) =>
        \A i \in 1..Len(out.data) :
            \/ out.data[i] = src.disk[out.at + i]
            \/ out.data[i] = 0 /\ GrainIdx(img, out.at + i - 1) \in Dead

\* On a medium that does not fail, a read inside a grain whose pointers
\* survive for this mode succeeds and makes progress: with recovery on, one
\* intact copy of the pointers is enough.
SurvivorsAreRead ==
    (/\ out.op = "read" /\ src.fails = {} /\ ~src.cut
     /\ out.at < img.virtual_disk_size /\ GrainIdx(img, out.at) \notin Dead)
        => out.ok /\ (out.arg > 0 => out.data # << >>)

\* A completed scan lists exactly the grains of the disk that the read path
\* finds stored, in both modes: the two lookups are separate code.
ListingAgrees ==
    (out.op = "iter" /\ out.ok) =>
        out.list = {g \in 0..(img.virtual_disk_size - 1) :
                       /\ g * img.grain_size < img.virtual_disk_size
                       /\ Stored(img, rgd_fallback, g * img.grain_size)}

\* Without recovery, is_allocated answers as the read path does, whenever the
\* read path can answer at all.
AllocationAgrees ==
    (/\ out.op = "is_allocated" /\ out.ok /\ ~rgd_fallback
     /\ out.arg * SECTOR_SIZE < img.virtual_disk_size
     /\ grain_location(img, FALSE, << >>, out.arg * SECTOR_SIZE).kind # "Err")
        => (out.list # {} <=> Stored(img, FALSE, out.arg * SECTOR_SIZE))

\* A hash always returns: every iteration ends it or brings it nearer the end.
HashReturns == job.on ~> ~job.on

\* The reader implements the abstract disk.  A hash in progress has not yet
\* moved the abstract cursor: it happens in its last step.
Disk == INSTANCE VirtualDisk WITH
    size <- img.virtual_disk_size,
    disk <- view,
    pos  <- IF job.on THEN job.from ELSE pos

\* Every step of the reader is a step of VirtualDisk or leaves it unchanged.
ImplementsDisk == Disk!Spec
=============================================================================
