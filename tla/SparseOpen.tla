---------------------------- MODULE SparseOpen -----------------------------
(***************************************************************************)
(* VmdkReader::open of one sparse extent file (core/src/lib.rs): whether   *)
(* it succeeds, and the geometry it keeps.  A source s is a record with    *)
(* the file, the headers found in its first sector (hdr) and two sectors   *)
(* before its end (footer), and whether the embedded descriptor text       *)
(* parses (desc_ok).                                                       *)
(***************************************************************************)
EXTENDS ExtentHeader

CONSTANT MAX_DESCRIPTOR    \* cells of an embedded descriptor that are read

\* read_descriptor succeeds.
DescriptorReads(s) ==
    LET h == s.hdr IN
    \/ h.descriptor_offset = 0 \/ h.descriptor_size = 0
    \/ /\ h.descriptor_offset * SECTOR_SIZE <= U64_MAX
       /\ InFile(s, h.descriptor_offset * SECTOR_SIZE,
                 Min2(h.descriptor_size * SECTOR_SIZE, MAX_DESCRIPTOR))
       /\ s.desc_ok

GdOffset(s) == IF s.hdr.gd_offset = GD_AT_END THEN s.footer.gd_offset ELSE s.hdr.gd_offset

\* open reaches its Ok for a VMDK4 extent.
Vmdk4Opens(s) ==
    LET h == s.hdr IN
    /\ HeaderParses(h)
    /\ h.grain_size * SECTOR_SIZE <= U64_MAX
    /\ h.capacity * SECTOR_SIZE <= U64_MAX
    /\ DescriptorReads(s)
    /\ h.capacity + h.grain_size - 1 <= U64_MAX
    /\ NumGts(h) <= MAX_GD
    /\ h.gd_offset = GD_AT_END => Len(s.file) >= 2 * SECTOR_SIZE /\ HeaderParses(s.footer)
    /\ GdOffset(s) * SECTOR_SIZE <= U64_MAX
    /\ InFile(s, GdOffset(s) * SECTOR_SIZE, NumGts(h))

Vmdk4Image(s) ==
    LET h == s.hdr IN
    [file |-> s.file, grain_dir |-> Cells(s, GdOffset(s) * SECTOR_SIZE, NumGts(h)),
     grain_size |-> h.grain_size * SECTOR_SIZE, num_gtes_per_gt |-> h.num_gtes_per_gt,
     virtual_disk_size |-> h.capacity * SECTOR_SIZE, compressed |-> h.compress # 0,
     rgd_offset |-> h.rgd_offset, gd_entry_count |-> NumGts(h)]

CowdImage(s) ==
    LET h == s.hdr IN
    [file |-> s.file,
     grain_dir |-> Cells(s, COWD_GD_SECTOR * SECTOR_SIZE, CowdNumGts(h)),
     grain_size |-> h.grain_size * SECTOR_SIZE, num_gtes_per_gt |-> COWD_GTES_PER_GT,
     virtual_disk_size |-> h.capacity * SECTOR_SIZE, compressed |-> FALSE,
     rgd_offset |-> 0, gd_entry_count |-> 0]

Opens(s) == InFile(s, 0, SECTOR_SIZE) /\ (Vmdk4Opens(s) \/ CowdOpens(s))
=============================================================================
