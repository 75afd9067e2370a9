------------------------------ MODULE Integrity -----------------------------
(***************************************************************************)
(* The structural analysis of the vmdk-forensic crate (VmdkIntegrity,      *)
(* forensic/src/lib.rs): it parses the image again, in code of its own and *)
(* with saturating arithmetic, and never asks the reader.  Pure operators  *)
(* over a source: a file with the headers found in it.                     *)
(*                                                                         *)
(* The loops over directory and tables only count, so a count is the       *)
(* cardinality of the set of slots or entries that were counted.           *)
(***************************************************************************)
EXTENDS SparseOpen, SeSparse

----------------------------------------------------------------------------
(* sparse_layout: the VMDK4 geometry, parsed again.                        *)

\* It is Some.
HasLayout(s) ==
    /\ InFile(s, 0, SECTOR_SIZE)
    /\ HeaderParses(s.hdr)
    /\ NumGts(s.hdr) <= MAX_GD
    /\ s.hdr.gd_offset = GD_AT_END =>
           InFile(s, 0, 2 * SECTOR_SIZE) /\ HeaderParses(s.footer)
    /\ InFile(s, GdOffset(s) * SECTOR_SIZE, NumGts(s.hdr))

\* SparseLayout has the fields of the reader's image.
Layout(s) == Vmdk4Image(s)

Slots(im) == 0..(im.gd_entry_count - 1)
Entries(im) == 0..(im.num_gtes_per_gt - 1)

----------------------------------------------------------------------------
(* The redundant grain directory.                                          *)

HasRgd(im) == im.rgd_offset \notin {0, GD_AT_END}

\* read_rgd is Some: the whole directory lies in the file.
RgdReads(im) ==
    HasRgd(im) /\ InFile(im, im.rgd_offset * SECTOR_SIZE, im.gd_entry_count)

RgdEntry(im, gd) == im.file[im.rgd_offset * SECTOR_SIZE + gd + 1]

\* Mutated form: a table only one directory has is passed over.
SameTables_OneSided(im, gd) ==
    LET p == PrimaryGt(im, gd)
        r == RgdEntry(im, gd)
    IN  \/ p = 0 \/ r = 0
        \/ /\ TableInFile(im, p) /\ TableInFile(im, r)
           /\ GrainTable(im, p) = GrainTable(im, r)

\* The two directories lead to equal tables, or both to none.
SameTables(im, gd) ==
    LET p == PrimaryGt(im, gd)
        r == RgdEntry(im, gd)
    IN  \/ p = 0 /\ r = 0
        \/ /\ p # 0 /\ r # 0
           /\ TableInFile(im, p) /\ TableInFile(im, r)
           /\ GrainTable(im, p) = GrainTable(im, r)

validate_rgd(s) ==
    /\ HasLayout(s)
    /\ RgdReads(Layout(s))
    /\ \A gd \in Slots(Layout(s)) : SameTables(Layout(s), gd)

\* Mutated form: a table is in bounds when it begins in the file.
in_bounds_Start(im, sec) == sec # 0 /\ sec * SECTOR_SIZE <= Len(im.file)

in_bounds(im, sec) == sec # 0 /\ TableInFile(im, sec)

\* The slots whose primary pointer is damaged.  With no directory to compare
\* with, an empty slot counts as intact.
DamagedSlots(im) ==
    {gd \in Slots(im) : /\ ~in_bounds(im, PrimaryGt(im, gd))
                        /\ \/ PrimaryGt(im, gd) # 0
                           \/ RgdReads(im) /\ RgdEntry(im, gd) # 0}

RecoverableSlots(im) ==
    {gd \in DamagedSlots(im) : RgdReads(im) /\ in_bounds(im, RgdEntry(im, gd))}

GdRecoveryReport(has, total, intact, damaged, recoverable, unrecoverable) ==
    [has_rgd |-> has, total_entries |-> total, primary_intact |-> intact,
     primary_damaged |-> damaged, recoverable_via_rgd |-> recoverable,
     unrecoverable |-> unrecoverable]

NoRecoveryReport == GdRecoveryReport(FALSE, 0, 0, 0, 0, 0)

\* The default report when there is no layout or no redundant directory.
grain_directory_recovery(s) ==
    IF ~HasLayout(s) \/ ~HasRgd(Layout(s)) THEN NoRecoveryReport
    ELSE LET im == Layout(s)
         IN  GdRecoveryReport(TRUE, im.gd_entry_count,
                 Cardinality(Slots(im) \ DamagedSlots(im)),
                 Cardinality(DamagedSlots(im)),
                 Cardinality(RecoverableSlots(im)),
                 Cardinality(DamagedSlots(im) \ RecoverableSlots(im)))

----------------------------------------------------------------------------
(* check_integrity: pointers past the end of the file.                     *)

\* Slots with a table outside the file, and entries that point to a grain;
\* only tables inside the file are looked at.
DanglingTables(im) ==
    {gd \in Slots(im) : PrimaryGt(im, gd) # 0 /\ ~TableInFile(im, PrimaryGt(im, gd))}

CheckedGrains(im) ==
    {x \in (Slots(im) \ DanglingTables(im)) \X Entries(im) :
        PrimaryGt(im, x[1]) # 0 /\ GrainTable(im, PrimaryGt(im, x[1]))[x[2] + 1] > 1}

\* Mutated form: a grain dangles when it begins past the end.
DanglingGrains_Start(im) ==
    {x \in CheckedGrains(im) :
        GrainTable(im, PrimaryGt(im, x[1]))[x[2] + 1] * SECTOR_SIZE > Len(im.file)}

\* A grain dangles when a raw one of its size would end past the end.
DanglingGrains(im) ==
    {x \in CheckedGrains(im) :
        ~InFile(im, GrainTable(im, PrimaryGt(im, x[1]))[x[2] + 1] * SECTOR_SIZE, im.grain_size)}

\* The seSparse walk has a directory to look at.
SeHasLayout(s) ==
    /\ SeHeaderParses(s.se)
    /\ SeNumGts(s.se) <= MAX_SE_GD
    /\ InFile(s, s.se.gd_offset * SECTOR_SIZE, SeNumGts(s.se))

SeLayout(s) ==
    [SeImage(s) EXCEPT !.grain_dir = Cells(s, s.se.gd_offset * SECTOR_SIZE, SeNumGts(s.se))]

\* Saturating: a sum past U64_MAX is past the end of any file.
SeTableIn(im, e) ==
    InFile(im, (im.gt_offset + (e % SE_GD_SPAN) * SE_GT_SECTORS) * SECTOR_SIZE, SE_GTES_PER_GT)

\* An unmarked slot is counted as a table outside the file.
SeDanglingTables(im) ==
    {gd \in 0..(Len(im.grain_dir) - 1) :
        /\ im.grain_dir[gd + 1] # 0
        /\ ~Marked(im.grain_dir[gd + 1]) \/ ~SeTableIn(im, im.grain_dir[gd + 1])}

SeCheckedGrains(im) ==
    {x \in (0..(Len(im.grain_dir) - 1) \ SeDanglingTables(im)) \X Entries(im) :
        /\ im.grain_dir[x[1] + 1] # 0
        /\ SeType(SeScanGte(im, x[1], x[2])) = SE_ALLOCATED}

SeDanglingGrains(im) ==
    {x \in SeCheckedGrains(im) :
        ~InFile(im, (im.grains_offset + se_gte_grain_index(SeScanGte(im, x[1], x[2]))
                                          * SE_GRAIN_SECTORS) * SECTOR_SIZE, im.grain_size)}

IntegrityReport(checked, grains, tables) ==
    [grains_checked |-> checked, out_of_bounds_grains |-> grains,
     out_of_bounds_grain_tables |-> tables]

is_ok(r) == r.out_of_bounds_grains = 0 /\ r.out_of_bounds_grain_tables = 0

\* Files with neither kind of layout report clean.
check_integrity(s) ==
    IF InFile(s, 0, SECTOR_SIZE) /\ s.se.magic
    THEN IF SeHasLayout(s)
         THEN LET im == SeLayout(s)
              IN  IntegrityReport(Cardinality(SeCheckedGrains(im)),
                                  Cardinality(SeDanglingGrains(im)),
                                  Cardinality(SeDanglingTables(im)))
         ELSE IntegrityReport(0, 0, 0)
    ELSE IF HasLayout(s)
         THEN LET im == Layout(s)
              IN  IntegrityReport(Cardinality(CheckedGrains(im)),
                                  Cardinality(DanglingGrains(im)),
                                  Cardinality(DanglingTables(im)))
         ELSE IntegrityReport(0, 0, 0)

----------------------------------------------------------------------------
(* analyse                                                                 *)

\* header_provenance of a VMDK4 header: uncleanShutdown, and the newline bytes
\* that a text-mode transfer changes.
Unclean(s) == InFile(s, 0, SECTOR_SIZE) /\ s.hdr.magic = "VMDK4" /\ s.unclean
Mangled(s) == InFile(s, 0, SECTOR_SIZE) /\ s.hdr.magic = "VMDK4" /\ s.mangled

AnomalyKind == {"UncleanShutdown", "FtpAsciiMangled", "RedundantGdMismatch",
                "PrimaryGdRecoverableViaRgd", "PrimaryGdUnrecoverable",
                "DanglingGrainTable", "DanglingGrain"}

severity(k) ==
    CASE k = "UncleanShutdown" -> "Low"
      [] k = "PrimaryGdRecoverableViaRgd" -> "Medium"
      [] OTHER -> "High"

\* The findings of an analysis that completes.  Their order, most severe
\* first, is the caller's only in print.
analyse(s) ==
    LET rec == grain_directory_recovery(s)
        rep == check_integrity(s)
    IN  {k \in AnomalyKind :
            \/ k = "UncleanShutdown" /\ Unclean(s)
            \/ k = "FtpAsciiMangled" /\ Mangled(s)
            \/ k = "RedundantGdMismatch" /\ rec.has_rgd /\ ~validate_rgd(s)
            \/ k = "PrimaryGdRecoverableViaRgd" /\ rec.recoverable_via_rgd > 0
            \/ k = "PrimaryGdUnrecoverable" /\ rec.unrecoverable > 0
            \/ k = "DanglingGrainTable" /\ rep.out_of_bounds_grain_tables > 0
            \/ k = "DanglingGrain" /\ rep.out_of_bounds_grains > 0}
=============================================================================
